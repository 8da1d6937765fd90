----------------------------- MODULE ReadingPage -----------------------------
(***************************************************************************)
(* The pages on which readings are written, on one device: the list of     *)
(* rows with previews, the detail page of a row with a card per key, the   *)
(* one live-refresh slot, drafts by a local language model, and the        *)
(* handlers that save what is published (aspect_view.rs, app.rs, llm).     *)
(*                                                                         *)
(* The list's component and the application's update loop are two tasks    *)
(* of one thread, which interleave where they await; callbacks of widgets  *)
(* run in between.  Loading a document and showing it have no await in     *)
(* between, so they are one step.  A text is the set of the passages in    *)
(* it; set_body replaces the whole text, so a concurrent edit leaves its    *)
(* passage beside it.  What travels between devices is CollabDoc's.        *)
(***************************************************************************)
EXTENDS Naturals, Sequences, SequencesExt

CONSTANTS
  Key,          \* interp_keys
  Rows,         \* the rows of the list: sequences of keys
  Baseline,     \* keys for which a bundled text exists
  None,         \* no document, no work, empty slot
  MaxOpens,     \* bound: activations of a row
  MaxEdits,     \* bound: changes of the documents
  MaxClicks     \* bound: presses of Publish and of Generate, typing, hearts

\* The writer of a passage; "baseline" is the bundled text.
Writer == {"baseline", "me", "ai", "peer"}
Passage == [key : Key, by : Writer]
Text == SUBSET Passage
Of(k, by) == {[key |-> k, by |-> by]}

\* A card of a page, and a page being built.
CardRecord ==
  [key : Key, text : Text, text_by : {"app", "user", "left"}, ai_generated : BOOLEAN,
   generating : BOOLEAN, rev : Nat, heart : BOOLEAN]
Building == [type : {"open"}, keys : Seq(Key), cards : Seq(CardRecord)]

ASSUME PageAssumption ==
  /\ Rows \subseteq Seq(Key) /\ IsFiniteSet(Rows)
  /\ Baseline \subseteq Key
  /\ None \notin [text : Text, rev : Nat] /\ None \notin Building
  /\ None \notin [type : {"refresh"}, rows : Seq(Rows)]
  /\ None \notin {"work", "top"}

VARIABLES
  doc,        \* doc[k]: text and current_rev of the persisted document
  undo,       \* undo[k]: what an authorised veto would restore
  liked,      \* doc_affirms of the local user: pairs of key and revision
  viewQ,      \* messages waiting for the list's component
  work,       \* what its update is in the middle of
  pages,      \* the pages on its NavigationView, each a sequence of cards
  slot,       \* ACTIVE_DOC_BUFFER: the last card of the page in "work", of
              \* the "top" page, or None
  appQ,       \* messages waiting for the update loop
  preview,    \* preview[r]: body_preview of row r
  fresh,      \* history: no document changed since the last RefreshRows began
  submitted,  \* history: the edits ever submitted
  opens, edits, clicks

listVars == <<viewQ, work, preview>>
docVars  == <<doc, undo, fresh, edits>>
vars == <<docVars, liked, listVars, pages, slot, appQ, submitted, opens, clicks>>

BaselineText(k) == IF k \in Baseline THEN Of(k, "baseline") ELSE {}

\* The body an editor starts from; resolve_top_body skips an empty document too.
DisplayBody(k) == IF doc[k] = None THEN BaselineText(k) ELSE doc[k].text
ResolveTopBody(k) ==
  IF doc[k] = None \/ doc[k].text = {} THEN BaselineText(k) ELSE doc[k].text
\* body_preview of a row: the first key that has a body.
BodyPreview(row) ==
  LET found == SelectSeq(row, LAMBDA k : ResolveTopBody(k) # {})
  IN  IF found = <<>> THEN {} ELSE ResolveTopBody(Head(found))

\* text_by: who set the buffer last; "left" once the user's own edit, handled
\* late, has changed the document under a buffer the application had set.
Card(k) ==
  [key |-> k, text |-> DisplayBody(k), text_by |-> "app",
   ai_generated |-> FALSE, generating |-> FALSE,
   rev |-> IF doc[k] = None THEN 0 ELSE doc[k].rev,
   heart |-> doc[k] # None /\ <<k, doc[k].rev>> \in liked]

Init ==
  /\ doc \in [Key -> {None} \cup {[text |-> t, rev |-> 1] : t \in {Of(k, "peer") : k \in Key}}]
  /\ \A k \in Key : doc[k] # None => doc[k].text = Of(k, "peer")
  /\ undo = [k \in Key |-> None]
  /\ liked = {}
  /\ viewQ = <<>> /\ work = None
  /\ pages = <<>> /\ slot = None
  /\ appQ = <<>>
  /\ preview = [r \in Rows |-> BodyPreview(r)]
  /\ fresh = TRUE
  /\ submitted = {}
  /\ opens = 0 /\ edits = 0 /\ clicks = 0

(***************************************************************************)
(* The list's component: its update takes one message at a time.           *)
(***************************************************************************)
OpenDetail(row) == [type |-> "open", row |-> row]
RefreshRows == [type |-> "refresh", row |-> <<>>]

\* A row is activated; a double click does so twice.
Activate(row) ==
  /\ pages = <<>>
  /\ opens < MaxOpens
  /\ opens' = opens + 1
  /\ viewQ' = Append(viewQ, OpenDetail(row))
  /\ UNCHANGED <<docVars, liked, work, preview, pages, slot, appQ, submitted, clicks>>

TakeMessage ==
  /\ work = None
  /\ viewQ # <<>>
  /\ viewQ' = Tail(viewQ)
  /\ work' = IF Head(viewQ).type = "open"
             THEN [type |-> "open", keys |-> Head(viewQ).row, cards |-> <<>>]
             ELSE [type |-> "refresh", rows |-> SetToSeq(Rows)]
  /\ fresh' = (fresh \/ Head(viewQ).type = "refresh")
  /\ UNCHANGED <<doc, undo, edits, liked, preview, pages, slot, appQ, submitted,
                 opens, clicks>>

\* build_doc_reading_card: the buffer registers itself, in place of any other.
BuildCard ==
  /\ work # None
  /\ work.type = "open"
  /\ work.keys # <<>>
  /\ work' = [work EXCEPT !.keys = Tail(@), !.cards = Append(@, Card(Head(work.keys)))]
  /\ slot' = "work"
  /\ UNCHANGED <<docVars, liked, viewQ, preview, pages, appQ, submitted, opens, clicks>>

\* The page is pushed; a page below it hides, which empties the slot.
PushPage ==
  /\ work # None
  /\ work.type = "open"
  /\ work.keys = <<>>
  /\ pages' = Append(pages, work.cards)
  /\ slot' = IF pages = <<>> /\ slot = "work" THEN "top" ELSE None
  /\ work' = None
  /\ UNCHANGED <<docVars, liked, viewQ, preview, appQ, submitted, opens, clicks>>

\* Back: the page hides, and `popped` asks for new previews.
PopPage ==
  /\ pages # <<>>
  /\ pages' = Front(pages)
  /\ slot' = None
  /\ viewQ' = Append(viewQ, RefreshRows)
  /\ UNCHANGED <<docVars, liked, work, preview, appQ, submitted, opens, clicks>>

RefreshRow ==
  /\ work # None
  /\ work.type = "refresh"
  /\ IF work.rows = <<>>
     THEN work' = None /\ UNCHANGED preview
     ELSE /\ work' = [work EXCEPT !.rows = Tail(@)]
          /\ preview' = [preview EXCEPT ![Head(work.rows)] = BodyPreview(Head(work.rows))]
  /\ UNCHANGED <<docVars, liked, viewQ, pages, slot, appQ, submitted, opens, clicks>>

(***************************************************************************)
(* The cards of the visible page                                           *)
(***************************************************************************)
\* Card i of the visible page becomes c; c says which of its fields change.
Visible == IF pages = <<>> THEN <<>> ELSE Last(pages)
Becomes(i, c) == pages' = [pages EXCEPT ![Len(pages)] = [@ EXCEPT ![i] = c]]
Click == clicks < MaxClicks /\ clicks' = clicks + 1

TypeText(i) ==
  LET c == Visible[i] IN
  /\ Click
  /\ \E kept \in {{}, c.text} :
       Becomes(i, [c EXCEPT !.text = kept \cup Of(c.key, "me"), !.text_by = "user"])
  /\ UNCHANGED <<docVars, liked, listVars, slot, appQ, submitted, opens>>

PublishEdit(c, ai) == [type |-> "publish", key |-> c.key, text |-> c.text, ai |-> ai]

\* Publish: nothing is sent of a blank text; the flag is for one submission.
PublishResettingFirst(i) ==
  LET c == Visible[i] IN
  /\ Click
  /\ c.text # {}
  /\ appQ' = Append(appQ, PublishEdit(c, FALSE))
  /\ submitted' = submitted \cup {PublishEdit(c, FALSE)}
  /\ Becomes(i, [c EXCEPT !.ai_generated = FALSE])
  /\ UNCHANGED <<docVars, liked, listVars, slot, opens>>
Publish(i) ==
  LET c == Visible[i] IN
  /\ Click
  /\ c.text # {}
  /\ appQ' = Append(appQ, PublishEdit(c, c.ai_generated))
  /\ submitted' = submitted \cup {PublishEdit(c, c.ai_generated)}
  /\ Becomes(i, [c EXCEPT !.ai_generated = FALSE])
  /\ UNCHANGED <<docVars, liked, listVars, slot, opens>>

\* Generate: the button is insensitive until an answer or an error comes.
Generate(i) ==
  LET c == Visible[i] IN
  /\ Click
  /\ ~c.generating
  /\ Becomes(i, [c EXCEPT !.generating = TRUE])
  /\ UNCHANGED <<docVars, liked, listVars, slot, appQ, submitted, opens>>

\* The answer arrives, on whatever page the user is by then; what comes for a
\* page that was closed goes into a buffer nobody sees.
Generated(p, i) ==
  LET c == pages[p][i]
      drafted == [c EXCEPT !.text = Of(c.key, "ai"), !.text_by = "user",
                           !.ai_generated = TRUE, !.generating = FALSE]
  IN  /\ c.generating
      /\ \E answer \in {drafted, [c EXCEPT !.generating = FALSE]} :
           pages' = [pages EXCEPT ![p] = [@ EXCEPT ![i] = answer]]
      /\ UNCHANGED <<docVars, liked, listVars, slot, appQ, submitted, opens, clicks>>

\* The heart of the revision the page was built with.
ToggleHeart(i) ==
  LET c == Visible[i] IN
  /\ Click
  /\ c.rev # 0
  /\ Becomes(i, [c EXCEPT !.heart = ~@])
  /\ appQ' = Append(appQ, [type |-> IF c.heart THEN "retract" ELSE "affirm",
                           key |-> c.key, rev |-> c.rev])
  /\ UNCHANGED <<docVars, liked, listVars, slot, submitted, opens>>

(***************************************************************************)
(* The update loop                                                         *)
(***************************************************************************)
Edited(k, text) ==
  /\ edits < MaxEdits
  /\ edits' = edits + 1
  /\ doc' = [doc EXCEPT ![k] = [text |-> text, rev |-> edits + 2]]
  /\ fresh' = FALSE

\* The card the slot holds becomes what Set makes of it.
InSlot(Set(_)) ==
  LET Again(cards) == [cards EXCEPT ![Len(cards)] = Set(@)]
  IN  /\ work' = IF slot = "work" THEN [work EXCEPT !.cards = Again(@)] ELSE work
      /\ pages' = IF slot = "top" THEN [pages EXCEPT ![Len(pages)] = Again(@)] ELSE pages

\* refresh_active_doc_body: only a buffer of that key takes the text.
RefreshAnyBody(k, text) ==
  InSlot(LAMBDA c : [c EXCEPT !.text = text, !.text_by = "app"])
RefreshActiveDocBody(k, text) ==
  InSlot(LAMBDA c : IF c.key = k THEN [c EXCEPT !.text = text, !.text_by = "app"] ELSE c)

\* PublishDocEdit saves the text of the message; the open page is not told.
LeftBehind(c, m) ==
  IF c.key # m.key THEN c
  ELSE [c EXCEPT !.text_by = IF c.text = m.text THEN "app"
                             ELSE IF @ = "app" THEN "left" ELSE @]
LeaveBehind(m) == InSlot(LAMBDA c : LeftBehind(c, m))
PublishDocEdit ==
  /\ appQ # <<>>
  /\ LET m == Head(appQ) IN
       /\ m.type = "publish"
       /\ Edited(m.key, m.text)
       /\ undo' = [undo EXCEPT ![m.key] = None]
       /\ LeaveBehind(m)
  /\ appQ' = Tail(appQ)
  /\ UNCHANGED <<liked, viewQ, preview, slot, submitted, opens, clicks>>

AffirmDocRev ==
  /\ appQ # <<>>
  /\ LET m == Head(appQ) IN
       /\ m.type \in {"affirm", "retract"}
       /\ liked' = IF m.type = "affirm" THEN liked \cup {<<m.key, m.rev>>}
                   ELSE liked \ {<<m.key, m.rev>>}
  /\ appQ' = Tail(appQ)
  /\ UNCHANGED <<docVars, listVars, pages, slot, submitted, opens, clicks>>

\* A peer's edit, made with or without knowledge of what is here.
DocEdited(k) ==
  /\ \E known \in {{}, IF doc[k] = None THEN {} ELSE doc[k].text} :
       LET text == known \cup Of(k, "peer") IN
       Edited(k, text) /\ RefreshActiveDocBody(k, text)
  /\ undo' = [undo EXCEPT ![k] = doc[k]]
  /\ UNCHANGED <<liked, viewQ, preview, slot, appQ, submitted, opens, clicks>>

\* A veto, this user's or a peer's, takes back the last edit of a peer.
RollbackQuietly(k) ==
  /\ undo[k] # None
  /\ doc' = [doc EXCEPT ![k] = undo[k]]
  /\ undo' = [undo EXCEPT ![k] = None]
  /\ fresh' = FALSE
  /\ UNCHANGED <<edits, liked, listVars, pages, slot, appQ, submitted, opens, clicks>>
Rollback(k) ==
  /\ undo[k] # None
  /\ doc' = [doc EXCEPT ![k] = undo[k]]
  /\ undo' = [undo EXCEPT ![k] = None]
  /\ fresh' = FALSE
  /\ RefreshActiveDocBody(k, undo[k].text)
  /\ UNCHANGED <<edits, liked, viewQ, preview, slot, appQ, submitted, opens, clicks>>

Next ==
  \/ \E row \in Rows : Activate(row)
  \/ TakeMessage \/ BuildCard \/ PushPage \/ PopPage \/ RefreshRow
  \/ \E i \in DOMAIN Visible : TypeText(i) \/ Publish(i) \/ Generate(i) \/ ToggleHeart(i)
  \/ \E p \in DOMAIN pages : \E i \in DOMAIN pages[p] : Generated(p, i)
  \/ PublishDocEdit \/ AffirmDocRev
  \/ \E k \in Key : DocEdited(k) \/ Rollback(k)

Spec == Init /\ [][Next]_vars

-----------------------------------------------------------------------------
\* The cards on the pages and of the page being built.
Cards ==
  (UNION {{pages[p][i] : i \in DOMAIN pages[p]} : p \in DOMAIN pages})
    \cup (IF work # None /\ work.type = "open"
          THEN {work.cards[i] : i \in DOMAIN work.cards} ELSE {})

(***************************************************************************)
(* Readings of different keys never mix: whatever is saved, shown, taken   *)
(* back or on its way to be saved under a key was written for that key,    *)
(* although one slot serves the live refresh of every card and answers of  *)
(* the model arrive after the user went on to other pages.                 *)
(***************************************************************************)
For(k, text) == \A p \in text : p.key = k
ReadingsDoNotMix ==
  /\ \A k \in Key : /\ doc[k] # None => For(k, doc[k].text)
                    /\ undo[k] # None => For(k, undo[k].text)
  /\ \A c \in Cards : For(c.key, c.text)
  /\ \A i \in DOMAIN appQ : appQ[i].type = "publish" => For(appQ[i].key, appQ[i].text)

(***************************************************************************)
(* What a language model wrote gets into a document only by an edit that   *)
(* says so to every peer: the mark of a draft is taken off the card with   *)
(* the publication that carries it and not before.                         *)
(***************************************************************************)
DraftsAreDisclosed ==
  \A k \in Key : doc[k] # None =>
    \A p \in doc[k].text : p.by = "ai" =>
      \E e \in submitted : e.key = k /\ p \in e.text /\ e.ai

(***************************************************************************)
(* What the screen shows is current: the card the slot holds shows what    *)
(* its document holds, after every edit and rollback, unless the user has  *)
(* written in it since; and a list that has read its previews after the    *)
(* last change shows the present body of every row.                        *)
(***************************************************************************)
SlotCard == IF slot = "work" THEN Last(work.cards) ELSE Last(Last(pages))
ScreenIsCurrent ==
  /\ slot # None /\ SlotCard.text_by = "app" => SlotCard.text = DisplayBody(SlotCard.key)
  /\ pages = <<>> /\ viewQ = <<>> /\ work = None /\ fresh =>
       \A r \in Rows : preview[r] = BodyPreview(r)
=============================================================================
