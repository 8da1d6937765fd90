-------------------------- MODULE ReadingPageProofs --------------------------
(***************************************************************************)
(* Proofs about ReadingPage, for any keys, rows and bundled texts and any  *)
(* number of openings, edits and clicks: readings of different keys do not *)
(* mix, and what a model wrote is disclosed.                               *)
(***************************************************************************)
EXTENDS ReadingPage, SequenceTheorems, FiniteSetTheorems, TLAPS

\* A passage by a model has been submitted under this key with the mark on.
Disclosed(k, p) == \E e \in submitted : e.key = k /\ p \in e.text /\ e.ai
Undrafted(k, text) == \A p \in text : p.by = "ai" => Disclosed(k, p)

\* The texts that may be saved under key k, and the cards there may be: a
\* card with a draft in it bears the mark.
Kept(k) == {t \in Text : For(k, t) /\ Undrafted(k, t)}
GoodCards ==
  {c \in CardRecord : /\ For(c.key, c.text)
                      /\ ~c.ai_generated => Undrafted(c.key, c.text)}

Document == [text : Text, rev : Nat]
OpenWork == {w \in Building : w.cards \in Seq(GoodCards)}
ViewMessage == [type : {"open", "refresh"}, row : Seq(Key)]
PublishMessage == [type : {"publish"}, key : Key, text : Text, ai : BOOLEAN]
HeartMessage == [type : {"affirm", "retract"}, key : Key, rev : Nat]
AppMessages ==
  {m \in PublishMessage : m.text \in Kept(m.key)} \cup HeartMessage

DocsOK(docs) ==
  /\ docs \in [Key -> {None} \cup Document]
  /\ \A k \in Key : docs[k] # None => docs[k].text \in Kept(k)
WorkOK ==
  \/ work = None
  \/ work \in OpenWork
  \/ \E rows : work = [type |-> "refresh", rows |-> rows]
Inv ==
  /\ DocsOK(doc) /\ DocsOK(undo)
  /\ edits \in Nat
  /\ viewQ \in Seq(ViewMessage)
  /\ WorkOK
  /\ pages \in Seq(Seq(GoodCards))
  /\ slot = "work" => work \in OpenWork
  /\ appQ \in Seq(AppMessages)

(***************************************************************************)
(* Nothing is ever taken out of `submitted`, so what was good stays so.    *)
(***************************************************************************)
LEMMA GoodStays ==
  ASSUME submitted \subseteq submitted'
  PROVE  /\ \A k : Kept(k) \subseteq Kept(k)'
         /\ GoodCards \subseteq GoodCards'
         /\ OpenWork \subseteq OpenWork'
         /\ AppMessages \subseteq AppMessages'
<1>1. \A k, t : Undrafted(k, t) => Undrafted(k, t)'
  BY DEF Undrafted, Disclosed
<1>2. \A k : Kept(k) \subseteq Kept(k)'
  BY <1>1 DEF Kept
<1>3. GoodCards \subseteq GoodCards'
  BY <1>1 DEF GoodCards
<1>4. OpenWork \subseteq OpenWork'
  BY <1>3 DEF OpenWork
<1>5. AppMessages \subseteq AppMessages'
  BY <1>2 DEF AppMessages
<1>6. QED
  BY <1>2, <1>3, <1>4, <1>5

\* What a step leaves alone keeps its part of the invariant.
LEMMA PartsStay ==
  ASSUME Inv, submitted \subseteq submitted'
  PROVE  /\ doc' = doc => DocsOK(doc)'
         /\ undo' = undo => DocsOK(undo)'
         /\ work' = work => WorkOK'
         /\ pages \in Seq(Seq(GoodCards'))
         /\ appQ \in Seq(AppMessages')
         /\ slot' = slot /\ work' = work => (slot = "work" => work \in OpenWork)'
<1>1. /\ \A k : Kept(k) \subseteq Kept(k)'
      /\ GoodCards \subseteq GoodCards'
      /\ OpenWork \subseteq OpenWork'
      /\ AppMessages \subseteq AppMessages'
  BY GoodStays
<1>2. (doc' = doc => DocsOK(doc)') /\ (undo' = undo => DocsOK(undo)')
  BY <1>1 DEF Inv, DocsOK
<1>3. work' = work => WorkOK'
  BY <1>1 DEF Inv, WorkOK
<1>4. pages \in Seq(Seq(GoodCards'))
  <2>1. Seq(GoodCards) \subseteq Seq(GoodCards')
    BY <1>1
  <2>2. QED
    BY <2>1 DEF Inv
<1>5. appQ \in Seq(AppMessages')
  BY <1>1 DEF Inv
<1>6. QED
  BY <1>1, <1>2, <1>3, <1>4, <1>5 DEF Inv

\* A sequence keeps its range when one element is replaced, if there is one.
LEMMA Replaced ==
  ASSUME NEW S, NEW s \in Seq(S), NEW i, NEW x, i \in 1 .. Len(s) => x \in S
  PROVE  [s EXCEPT ![i] = x] \in Seq(S)
<1>1. CASE i \in 1 .. Len(s)
  BY <1>1, ExceptSeq
<1>2. CASE i \notin 1 .. Len(s)
  <2>1. s \in [1 .. Len(s) -> S] /\ DOMAIN s = 1 .. Len(s)
    BY LenProperties
  <2>2. [s EXCEPT ![i] = x] = s
    BY <1>2, <2>1
  <2>3. QED
    BY <2>2
<1>3. QED
  BY <1>1, <1>2

\* Every passage of the bundled text, or of one writer, is about its key.
LEMMA OwnText ==
  ASSUME NEW k \in Key, NEW by \in Writer
  PROVE  /\ Of(k, by) \in Text /\ For(k, Of(k, by))
         /\ by # "ai" => Of(k, by) \in Kept(k)
         /\ BaselineText(k) \in Kept(k)
<1>1. /\ Of(k, by) \in Text /\ For(k, Of(k, by))
      /\ by # "ai" => Undrafted(k, Of(k, by))
  BY DEF Of, Text, Passage, For, Undrafted
<1>2. BaselineText(k) \in Kept(k)
  BY DEF BaselineText, Kept, Of, Text, Passage, For, Undrafted, Writer
<1>3. QED
  BY <1>1, <1>2 DEF Kept

\* A card newly built, from the document or the bundled text.
LEMMA CardIsGood ==
  ASSUME Inv, NEW k \in Key
  PROVE  Card(k) \in GoodCards /\ DisplayBody(k) \in Kept(k)
<1>1. DisplayBody(k) \in Kept(k)
  BY OwnText DEF DisplayBody, Inv, DocsOK, Writer
<1>2. (IF doc[k] = None THEN 0 ELSE doc[k].rev) \in Nat
  BY DEF Inv, DocsOK, Document
<1>3. (doc[k] # None /\ <<k, doc[k].rev>> \in liked) \in BOOLEAN
  OBVIOUS
<1>4. Card(k) \in CardRecord
  BY <1>1, <1>2, <1>3 DEF Card, CardRecord, Kept
<1>5. Card(k).key = k /\ Card(k).text = DisplayBody(k)
  BY DEF Card
<1>6. QED
  BY <1>1, <1>4, <1>5 DEF GoodCards, Kept

LEMMA InvInit == Init => Inv
<1> SUFFICES ASSUME Init PROVE Inv
  OBVIOUS
<1>1. DocsOK(doc)
  <2>1. ASSUME NEW k \in Key PROVE Of(k, "peer") \in Kept(k)
    BY OwnText DEF Writer
  <2>2. doc \in [Key -> {None} \cup {[text |-> t, rev |-> 1] : t \in {Of(k, "peer") : k \in Key}}]
    BY DEF Init
  <2>3. \A k \in Key : Of(k, "peer") \in Text
    BY <2>1 DEF Kept
  <2>4. doc \in [Key -> {None} \cup Document]
    BY <2>2, <2>3 DEF Document
  <2>5. \A k \in Key : doc[k] # None => doc[k].text \in Kept(k)
    BY <2>1 DEF Init
  <2>6. QED
    BY <2>4, <2>5 DEF DocsOK
<1>2. DocsOK(undo)
  BY DEF Init, DocsOK
<1>3. WorkOK /\ slot # "work"
  BY PageAssumption DEF Init, WorkOK
<1>4. QED
  BY <1>1, <1>2, <1>3 DEF Inv, Init

-----------------------------------------------------------------------------
(***************************************************************************)
(* The list's component.                                                   *)
(***************************************************************************)
LEMMA ActivateInv == ASSUME Inv, NEW row \in Rows, Activate(row) PROVE Inv'
<1>1. row \in Seq(Key)
  BY PageAssumption
<1>2. OpenDetail(row) \in ViewMessage
  BY <1>1 DEF OpenDetail, ViewMessage
<1>3. viewQ' \in Seq(ViewMessage)
  BY <1>2 DEF Activate, Inv
<1>4. UNCHANGED <<doc, undo, edits, work, pages, slot, appQ, submitted>>
  BY DEF Activate, docVars
<1>5. QED
  BY <1>3, <1>4, PartsStay DEF Inv

LEMMA TakeMessageInv == ASSUME Inv, TakeMessage PROVE Inv'
<1>1. Head(viewQ) \in ViewMessage /\ Tail(viewQ) \in Seq(ViewMessage)
  BY HeadTailProperties DEF TakeMessage, Inv
<1>2. UNCHANGED <<doc, undo, edits, pages, slot, appQ, submitted>>
  BY DEF TakeMessage
<1>3. WorkOK'
  <2>1. CASE Head(viewQ).type = "open"
    <3>1. work' = [type |-> "open", keys |-> Head(viewQ).row, cards |-> <<>>]
      BY <2>1 DEF TakeMessage
    <3>2. work' \in Building /\ work'.cards = <<>>
      BY <1>1, <3>1 DEF Building, ViewMessage
    <3>3. <<>> \in Seq(GoodCards')
      BY EmptySeq
    <3>4. OpenWork' = {w \in Building : w.cards \in Seq(GoodCards')}
      BY DEF OpenWork
    <3>5. work' \in OpenWork'
      BY <3>2, <3>3, <3>4
    <3>6. QED
      BY <3>5 DEF WorkOK
  <2>2. CASE Head(viewQ).type # "open"
    BY <2>2 DEF TakeMessage, WorkOK
  <2>3. QED
    BY <2>1, <2>2
<1>4. slot # "work"
  <2>1. work = None /\ None \notin OpenWork
    BY PageAssumption DEF TakeMessage, OpenWork
  <2>2. QED
    BY <2>1 DEF Inv
<1>5. QED
  BY <1>1, <1>2, <1>3, <1>4, PartsStay DEF Inv, TakeMessage

\* Adding an element of the right kind at the end.
LEMMA Appended ==
  ASSUME NEW S, NEW s \in Seq(S), NEW x \in S
  PROVE  Append(s, x) \in Seq(S)
  OBVIOUS

LEMMA BuildCardInv == ASSUME Inv, BuildCard PROVE Inv'
<1>1. work \in OpenWork /\ work.keys # <<>>
  BY DEF BuildCard, Inv, WorkOK
<1>2. Head(work.keys) \in Key /\ Tail(work.keys) \in Seq(Key)
  BY <1>1, HeadTailProperties DEF OpenWork, Building
<1>3. Card(Head(work.keys)) \in GoodCards /\ Card(Head(work.keys)) \in CardRecord
  BY <1>2, CardIsGood DEF GoodCards
<1> DEFINE cards == Append(work.cards, Card(Head(work.keys)))
<1>4. cards \in Seq(CardRecord) /\ cards \in Seq(GoodCards)
  BY <1>1, <1>3, Appended DEF OpenWork, Building
<1>5. work' = [work EXCEPT !.keys = Tail(@), !.cards = cards]
  BY DEF BuildCard
<1> HIDE DEF cards
<1>6. work' \in Building /\ work'.cards = cards
  BY <1>1, <1>2, <1>4, <1>5 DEF OpenWork, Building
<1>7. UNCHANGED <<doc, undo, edits, viewQ, pages, appQ, submitted>> /\ slot' = "work"
  BY DEF BuildCard, docVars
<1>8. work' \in OpenWork
  BY <1>4, <1>6 DEF OpenWork
<1>9. OpenWork \subseteq OpenWork'
  BY <1>7, GoodStays
<1>10. QED
  BY <1>7, <1>8, <1>9, PartsStay DEF Inv, WorkOK

LEMMA PushPageInv == ASSUME Inv, PushPage PROVE Inv'
<1>1. work \in OpenWork
  BY DEF PushPage, Inv, WorkOK
<1>2. pages' \in Seq(Seq(GoodCards))
  BY <1>1, Appended DEF PushPage, Inv, OpenWork
<1>3. UNCHANGED <<doc, undo, edits, viewQ, appQ, submitted>> /\ work' = None
  BY DEF PushPage, docVars
<1>4. slot' # "work"
  BY PageAssumption DEF PushPage
<1>5. WorkOK'
  BY <1>3 DEF WorkOK
<1>6. Seq(GoodCards) \subseteq Seq(GoodCards')
  BY <1>3, GoodStays
<1>7. pages' \in Seq(Seq(GoodCards'))
  BY <1>2, <1>6
<1>8. QED
  BY <1>3, <1>4, <1>5, <1>7, PartsStay DEF Inv

LEMMA PopPageInv == ASSUME Inv, PopPage PROVE Inv'
<1>1. UNCHANGED <<doc, undo, edits, work, appQ, submitted>> /\ slot' = None
  BY DEF PopPage, docVars
<1>2. pages \in Seq(Seq(GoodCards')) /\ Len(pages) \in Nat
  BY <1>1, PartsStay DEF Inv
<1>3. pages' = SubSeq(pages, 1, Len(pages) - 1)
  BY DEF PopPage, Front
<1>4. pages' \in Seq(Seq(GoodCards'))
  BY <1>2, <1>3, SubSeqProperties
<1>5. RefreshRows \in ViewMessage
  BY DEF RefreshRows, ViewMessage
<1>6. viewQ' \in Seq(ViewMessage)
  BY <1>5 DEF PopPage, Inv
<1>7. QED
  BY <1>1, <1>4, <1>6, PageAssumption, PartsStay DEF Inv

LEMMA RefreshRowInv == ASSUME Inv, RefreshRow PROVE Inv'
<1>1. UNCHANGED <<doc, undo, edits, viewQ, pages, slot, appQ, submitted>>
  BY DEF RefreshRow, docVars
<1>2. work \notin OpenWork
  BY DEF RefreshRow, OpenWork, Building
<1>3. PICK rows : work = [type |-> "refresh", rows |-> rows]
  BY <1>2 DEF RefreshRow, Inv, WorkOK
<1>4. WorkOK'
  <2>1. CASE work.rows = <<>>
    BY <2>1 DEF RefreshRow, WorkOK
  <2>2. CASE work.rows # <<>>
    BY <1>3, <2>2 DEF RefreshRow, WorkOK
  <2>3. QED
    BY <2>1, <2>2
<1>5. QED
  BY <1>1, <1>2, <1>4, PartsStay DEF Inv

-----------------------------------------------------------------------------
(***************************************************************************)
(* The cards of the visible page, and answers that come for any page.      *)
(***************************************************************************)
LEMMA VisibleCard ==
  ASSUME Inv, NEW i \in DOMAIN Visible
  PROVE  /\ Visible \in Seq(GoodCards) /\ Visible[i] \in GoodCards
         /\ pages # <<>> /\ Len(pages) \in 1 .. Len(pages)
         /\ Visible = pages[Len(pages)] /\ i \in 1 .. Len(Visible)
<1>1. pages # <<>>
  BY DEF Visible
<1>2. pages \in Seq(Seq(GoodCards)) /\ Len(pages) \in 1 .. Len(pages)
  BY <1>1, EmptySeq DEF Inv
<1>3. Visible = pages[Len(pages)]
  BY <1>1 DEF Visible, Last
<1>4. Visible \in Seq(GoodCards)
  BY <1>2, <1>3, ElementOfSeq
<1>5. QED
  BY <1>1, <1>2, <1>3, <1>4, LenProperties, ElementOfSeq

\* One card of one page is replaced by a good one.
LEMMA CardReplaced ==
  ASSUME NEW S, NEW ps \in Seq(Seq(S)), NEW p, NEW i, NEW c,
         p \in 1 .. Len(ps) /\ i \in 1 .. Len(ps[p]) => c \in S
  PROVE  [ps EXCEPT ![p] = [@ EXCEPT ![i] = c]] \in Seq(Seq(S))
<1> DEFINE new == [ps[p] EXCEPT ![i] = c]
<1>1. p \in 1 .. Len(ps) => new \in Seq(S)
  BY ElementOfSeq, Replaced
<1>2. [ps EXCEPT ![p] = [@ EXCEPT ![i] = c]] = [ps EXCEPT ![p] = new]
  OBVIOUS
<1> HIDE DEF new
<1>3. QED
  BY <1>1, <1>2, Replaced

\* A change of a card that the list and the documents do not notice.
LEMMA ClickKeeps ==
  ASSUME Inv, submitted \subseteq submitted',
         UNCHANGED <<doc, undo, edits, viewQ, work, slot>>,
         pages' \in Seq(Seq(GoodCards')), appQ' \in Seq(AppMessages')
  PROVE  Inv'
  BY PartsStay DEF Inv

LEMMA TypeTextInv == ASSUME Inv, NEW i \in DOMAIN Visible, TypeText(i) PROVE Inv'
<1> DEFINE c == Visible[i]
<1>1. c \in GoodCards
  BY VisibleCard
<1>2. PICK kept \in {{}, c.text} :
        Becomes(i, [c EXCEPT !.text = kept \cup Of(c.key, "me"), !.text_by = "user"])
  BY DEF TypeText
<1> DEFINE d == [c EXCEPT !.text = kept \cup Of(c.key, "me"), !.text_by = "user"]
<1>3. Of(c.key, "me") \in Kept(c.key)
  BY <1>1, OwnText DEF GoodCards, CardRecord, Writer
<1>4. d \in CardRecord /\ d.key = c.key /\ d.ai_generated = c.ai_generated
      /\ d.text = kept \cup Of(c.key, "me")
  BY <1>1, <1>3 DEF GoodCards, CardRecord, Kept, Text
<1>5. For(d.key, d.text) /\ (~d.ai_generated => Undrafted(d.key, d.text))
  BY <1>1, <1>3, <1>4 DEF GoodCards, Kept, For, Undrafted
<1>6. d \in GoodCards
  BY <1>4, <1>5 DEF GoodCards
<1>7. pages' = [pages EXCEPT ![Len(pages)] = [@ EXCEPT ![i] = d]]
  BY <1>2 DEF Becomes
<1> HIDE DEF c, d
<1>8. pages' \in Seq(Seq(GoodCards))
  BY <1>6, <1>7, CardReplaced DEF Inv
<1>9. UNCHANGED <<doc, undo, edits, viewQ, work, slot, appQ, submitted>>
  BY DEF TypeText, docVars, listVars
<1>10. GoodCards' = GoodCards /\ AppMessages' = AppMessages
  BY <1>9 DEF GoodCards, AppMessages, Kept, Undrafted, Disclosed
<1>11. QED
  BY <1>8, <1>9, <1>10, ClickKeeps DEF Inv

\* What is submitted carries the mark exactly if the card did.
LEMMA PublishInv == ASSUME Inv, NEW i \in DOMAIN Visible, Publish(i) PROVE Inv'
<1> PICK c : c = Visible[i]
  OBVIOUS
<1> DEFINE m == PublishEdit(c, c.ai_generated)
           d == [c EXCEPT !.ai_generated = FALSE]
<1>1. c \in GoodCards /\ c \in CardRecord
  BY VisibleCard DEF GoodCards
<1>2. /\ appQ' = Append(appQ, m) /\ submitted' = submitted \cup {m}
      /\ pages' = [pages EXCEPT ![Len(pages)] = [@ EXCEPT ![i] = d]]
  BY DEF Publish, Becomes
<1>3. m.key = c.key /\ m.text = c.text /\ m.ai = c.ai_generated /\ m \in PublishMessage
  BY <1>1 DEF PublishEdit, PublishMessage, CardRecord
<1>4. d \in CardRecord /\ d.key = c.key /\ d.text = c.text
  BY <1>1 DEF CardRecord
<1>5. m \in submitted' /\ submitted \subseteq submitted'
  BY <1>2
<1> HIDE DEF m, d
<1>6. Undrafted(c.key, c.text)'
  <2>1. CASE c.ai_generated
    BY <1>3, <1>5, <2>1 DEF Undrafted, Disclosed
  <2>2. CASE ~c.ai_generated
    BY <1>1, <1>5, <2>2 DEF GoodCards, Undrafted, Disclosed
  <2>3. QED
    BY <2>1, <2>2
<1>7. c.text \in Kept(c.key)'
  BY <1>1, <1>6 DEF GoodCards, CardRecord, Kept
<1>8. d \in GoodCards' /\ m \in AppMessages'
  BY <1>1, <1>3, <1>4, <1>6, <1>7 DEF GoodCards, AppMessages
<1>9. pages \in Seq(Seq(GoodCards')) /\ appQ \in Seq(AppMessages')
  BY <1>5, PartsStay
<1>10. pages' \in Seq(Seq(GoodCards')) /\ appQ' \in Seq(AppMessages')
  BY <1>2, <1>8, <1>9, CardReplaced, Appended
<1>11. UNCHANGED <<doc, undo, edits, viewQ, work, slot>>
  BY DEF Publish, docVars, listVars
<1>12. QED
  BY <1>5, <1>10, <1>11, ClickKeeps

\* A step that submits nothing leaves the kinds of texts and cards as they are.
LEMMA KindsKept ==
  ASSUME UNCHANGED submitted
  PROVE  /\ \A k : Kept(k)' = Kept(k)
         /\ GoodCards' = GoodCards /\ AppMessages' = AppMessages
         /\ OpenWork' = OpenWork
  BY DEF GoodCards, AppMessages, OpenWork, Kept, Undrafted, Disclosed

LEMMA GenerateInv == ASSUME Inv, NEW i \in DOMAIN Visible, Generate(i) PROVE Inv'
<1> PICK c : c = Visible[i]
  OBVIOUS
<1> DEFINE d == [c EXCEPT !.generating = TRUE]
<1>1. c \in GoodCards
  BY VisibleCard
<1>2. d \in GoodCards
  BY <1>1 DEF GoodCards, CardRecord
<1>3. pages' = [pages EXCEPT ![Len(pages)] = [@ EXCEPT ![i] = d]]
  BY DEF Generate, Becomes
<1> HIDE DEF d
<1>4. pages' \in Seq(Seq(GoodCards))
  BY <1>2, <1>3, CardReplaced DEF Inv
<1>5. UNCHANGED <<doc, undo, edits, viewQ, work, slot, appQ, submitted>>
  BY DEF Generate, docVars, listVars
<1>6. QED
  BY <1>4, <1>5, KindsKept, ClickKeeps DEF Inv

\* The answer replaces the text of its own card, and the card says so.
LEMMA GeneratedInv ==
  ASSUME Inv, NEW p \in DOMAIN pages, NEW i \in DOMAIN pages[p], Generated(p, i)
  PROVE  Inv'
<1> PICK c : c = pages[p][i]
  OBVIOUS
<1>1. c \in GoodCards
  <2>1. p \in 1 .. Len(pages) /\ pages[p] \in Seq(GoodCards)
    BY LenProperties, ElementOfSeq DEF Inv
  <2>2. i \in 1 .. Len(pages[p])
    BY <2>1, LenProperties
  <2>3. QED
    BY <2>1, <2>2, ElementOfSeq
<1> DEFINE drafted == [c EXCEPT !.text = Of(c.key, "ai"), !.text_by = "user",
                                !.ai_generated = TRUE, !.generating = FALSE]
           failed == [c EXCEPT !.generating = FALSE]
<1>2. PICK answer \in {drafted, failed} :
        pages' = [pages EXCEPT ![p] = [@ EXCEPT ![i] = answer]]
  BY DEF Generated
<1>3. failed \in GoodCards
  BY <1>1 DEF GoodCards, CardRecord
<1>4. Of(c.key, "ai") \in Text /\ For(c.key, Of(c.key, "ai"))
  BY <1>1, OwnText DEF GoodCards, CardRecord, Writer
<1>5. drafted \in CardRecord /\ drafted.key = c.key /\ drafted.text = Of(c.key, "ai")
      /\ drafted.ai_generated
  BY <1>1, <1>4 DEF GoodCards, CardRecord
<1> HIDE DEF drafted, failed
<1>6. drafted \in GoodCards
  BY <1>4, <1>5 DEF GoodCards
<1>7. pages' \in Seq(Seq(GoodCards))
  BY <1>2, <1>3, <1>6, CardReplaced DEF Inv
<1>8. UNCHANGED <<doc, undo, edits, viewQ, work, slot, appQ, submitted>>
  BY DEF Generated, docVars, listVars
<1>9. QED
  BY <1>7, <1>8, KindsKept, ClickKeeps DEF Inv

LEMMA ToggleHeartInv == ASSUME Inv, NEW i \in DOMAIN Visible, ToggleHeart(i) PROVE Inv'
<1> PICK c : c = Visible[i]
  OBVIOUS
<1> DEFINE d == [c EXCEPT !.heart = ~@]
           m == [type |-> IF c.heart THEN "retract" ELSE "affirm",
                 key |-> c.key, rev |-> c.rev]
<1>1. c \in GoodCards
  BY VisibleCard
<1>2. d \in GoodCards
  BY <1>1 DEF GoodCards, CardRecord
<1>3. m \in AppMessages
  BY <1>1 DEF GoodCards, CardRecord, AppMessages, HeartMessage
<1>4. /\ pages' = [pages EXCEPT ![Len(pages)] = [@ EXCEPT ![i] = d]]
      /\ appQ' = Append(appQ, m)
  BY DEF ToggleHeart, Becomes
<1> HIDE DEF d, m
<1>5. pages' \in Seq(Seq(GoodCards)) /\ appQ' \in Seq(AppMessages)
  BY <1>2, <1>3, <1>4, CardReplaced, Appended DEF Inv
<1>6. UNCHANGED <<doc, undo, edits, viewQ, work, slot, submitted>>
  BY DEF ToggleHeart, docVars, listVars
<1>7. QED
  BY <1>5, <1>6, KindsKept, ClickKeeps

-----------------------------------------------------------------------------
(***************************************************************************)
(* The update loop.  A document that changes keeps the passages of its key *)
(* apart from others', and only the card of that key takes the text.       *)
(***************************************************************************)
LEMMA DocChanged ==
  ASSUME Inv, NEW docs, DocsOK(docs), NEW k \in Key, NEW d,
         d = None \/ (d \in Document /\ d.text \in Kept(k))
  PROVE  DocsOK([docs EXCEPT ![k] = d])
  BY DEF DocsOK

\* The last card of a sequence of cards is replaced.
LEMMA LastReplaced ==
  ASSUME NEW S, NEW cards \in Seq(S), NEW c, cards # <<>> => c \in S
  PROVE  [cards EXCEPT ![Len(cards)] = c] \in Seq(S)
<1>1. Len(cards) \in 1 .. Len(cards) => cards # <<>>
  BY EmptySeq
<1>2. QED
  BY <1>1, Replaced

\* Whatever the slot's card becomes, pages and work stay good if it does.
LEMMA SlotReplaced ==
  ASSUME Inv, NEW w, NEW t,
         work \in OpenWork /\ work.cards # <<>> => w \in GoodCards,
         pages # <<>> /\ pages[Len(pages)] # <<>> => t \in GoodCards,
         work' = IF slot = "work"
                 THEN [work EXCEPT !.cards = [work.cards EXCEPT ![Len(work.cards)] = w]]
                 ELSE work,
         pages' = IF slot = "top"
                  THEN [pages EXCEPT ![Len(pages)] =
                          [pages[Len(pages)] EXCEPT ![Len(pages[Len(pages)])] = t]]
                  ELSE pages
  PROVE  /\ pages' \in Seq(Seq(GoodCards))
         /\ slot = "work" => work' \in OpenWork
         /\ slot # "work" => work' = work
<1>1. pages' \in Seq(Seq(GoodCards))
  <2>1. pages \in Seq(Seq(GoodCards))
    BY DEF Inv
  <2>2. CASE pages = <<>>
    <3>1. Len(pages) \notin 1 .. Len(pages)
      BY <2>2
    <3>2. QED
      BY <2>1, <3>1, Replaced
  <2>3. CASE pages # <<>>
    <3>1. pages[Len(pages)] \in Seq(GoodCards)
      <4>1. Len(pages) \in 1 .. Len(pages)
        BY <2>1, <2>3, EmptySeq
      <4>2. QED
        BY <2>1, <4>1, ElementOfSeq
    <3>2. [pages[Len(pages)] EXCEPT ![Len(pages[Len(pages)])] = t] \in Seq(GoodCards)
      BY <2>3, <3>1, LastReplaced
    <3>3. QED
      BY <2>1, <3>2, Replaced
  <2>4. QED
    BY <2>2, <2>3
<1>2. ASSUME slot = "work" PROVE work' \in OpenWork
  <2>1. work \in OpenWork
    BY <1>2 DEF Inv
  <2> DEFINE cards == [work.cards EXCEPT ![Len(work.cards)] = w]
  <2>2. cards \in Seq(GoodCards)
    BY <2>1, LastReplaced DEF OpenWork
  <2>3. GoodCards \subseteq CardRecord
    BY DEF GoodCards
  <2>4. cards \in Seq(CardRecord)
    BY <2>2, <2>3, SeqMonotonic
  <2>5. work' = [work EXCEPT !.cards = cards]
    BY <1>2
  <2> HIDE DEF cards
  <2>6. work' \in Building /\ work'.cards = cards
    BY <2>1, <2>4, <2>5 DEF OpenWork, Building
  <2>7. QED
    BY <2>2, <2>6 DEF OpenWork
<1>3. QED
  BY <1>1, <1>2

\* The slot's card, wherever it is, is a good one.
LEMMA SlotCards ==
  ASSUME Inv
  PROVE  /\ work \in OpenWork /\ work.cards # <<>> => work.cards[Len(work.cards)] \in GoodCards
         /\ pages # <<>> /\ pages[Len(pages)] # <<>> =>
              pages[Len(pages)][Len(pages[Len(pages)])] \in GoodCards
<1>1. ASSUME NEW S, NEW s \in Seq(S), s # <<>> PROVE s[Len(s)] \in S
  <2>1. Len(s) \in 1 .. Len(s)
    BY <1>1, EmptySeq
  <2>2. QED
    BY <2>1, ElementOfSeq
<1>2. work \in OpenWork /\ work.cards # <<>> => work.cards[Len(work.cards)] \in GoodCards
  BY <1>1 DEF OpenWork
<1>3. ASSUME pages # <<>>, pages[Len(pages)] # <<>>
      PROVE  pages[Len(pages)][Len(pages[Len(pages)])] \in GoodCards
  <2>1. pages[Len(pages)] \in Seq(GoodCards)
    BY <1>1, <1>3 DEF Inv
  <2>2. QED
    BY <1>1, <1>3, <2>1
<1>4. QED
  BY <1>2, <1>3

LEMMA RefreshKeeps ==
  ASSUME Inv, NEW k, NEW text \in Kept(k), RefreshActiveDocBody(k, text)
  PROVE  /\ pages' \in Seq(Seq(GoodCards))
         /\ slot = "work" => work' \in OpenWork
         /\ slot # "work" => work' = work
<1> DEFINE set(c) == IF c.key = k THEN [c EXCEPT !.text = text, !.text_by = "app"] ELSE c
           w == work.cards[Len(work.cards)]
           top == pages[Len(pages)]
           t == top[Len(top)]
<1>1. ASSUME NEW c \in GoodCards PROVE set(c) \in GoodCards
  <2>1. CASE c.key = k
    <3>1. set(c) \in CardRecord /\ set(c).key = k /\ set(c).text = text
      BY <2>1 DEF GoodCards, CardRecord, Kept
    <3>2. QED
      BY <3>1 DEF GoodCards, Kept
  <2>2. CASE c.key # k
    BY <2>2
  <2>3. QED
    BY <2>1, <2>2
<1>2. work' = IF slot = "work"
              THEN [work EXCEPT !.cards = [work.cards EXCEPT ![Len(work.cards)] = set(w)]]
              ELSE work
  BY DEF RefreshActiveDocBody, InSlot
<1>3. pages' = IF slot = "top"
               THEN [pages EXCEPT ![Len(pages)] = [top EXCEPT ![Len(top)] = set(t)]]
               ELSE pages
  BY DEF RefreshActiveDocBody, InSlot
<1>4. /\ work \in OpenWork /\ work.cards # <<>> => set(w) \in GoodCards
      /\ pages # <<>> /\ top # <<>> => set(t) \in GoodCards
  BY <1>1, SlotCards
<1> HIDE DEF set
<1>5. QED
  BY <1>2, <1>3, <1>4, SlotReplaced

LEMMA LeftBehindKeeps ==
  ASSUME Inv, NEW m, LeaveBehind(m)
  PROVE  /\ pages' \in Seq(Seq(GoodCards))
         /\ slot = "work" => work' \in OpenWork
         /\ slot # "work" => work' = work
<1> DEFINE w == work.cards[Len(work.cards)]
           top == pages[Len(pages)]
           t == top[Len(top)]
<1>1. ASSUME NEW c \in GoodCards PROVE LeftBehind(c, m) \in GoodCards
  BY DEF LeftBehind, GoodCards, CardRecord
<1>2. work' = IF slot = "work"
              THEN [work EXCEPT !.cards = [work.cards EXCEPT ![Len(work.cards)] = LeftBehind(w, m)]]
              ELSE work
  BY DEF LeaveBehind, InSlot
<1>3. pages' = IF slot = "top"
               THEN [pages EXCEPT ![Len(pages)] = [top EXCEPT ![Len(top)] = LeftBehind(t, m)]]
               ELSE pages
  BY DEF LeaveBehind, InSlot
<1>4. /\ work \in OpenWork /\ work.cards # <<>> => LeftBehind(w, m) \in GoodCards
      /\ pages # <<>> /\ top # <<>> => LeftBehind(t, m) \in GoodCards
  BY <1>1, SlotCards
<1>5. QED
  BY <1>2, <1>3, <1>4, SlotReplaced

\* The handlers change documents, the slot's card and the queue.
LEMMA HandlerKeeps ==
  ASSUME Inv, UNCHANGED <<viewQ, slot, submitted>>,
         DocsOK(doc'), DocsOK(undo'), edits' \in Nat, appQ' \in Seq(AppMessages),
         pages' \in Seq(Seq(GoodCards)),
         slot = "work" => work' \in OpenWork, slot # "work" => work' = work
  PROVE  Inv'
<1>1. /\ \A k : Kept(k)' = Kept(k)
      /\ GoodCards' = GoodCards /\ AppMessages' = AppMessages /\ OpenWork' = OpenWork
  BY KindsKept
<1>2. DocsOK(doc)' /\ DocsOK(undo)'
  BY <1>1 DEF DocsOK
<1>3. WorkOK'
  <2>1. CASE slot = "work"
    BY <1>1, <2>1 DEF WorkOK
  <2>2. CASE slot # "work"
    BY <1>1, <2>2 DEF WorkOK, Inv
  <2>3. QED
    BY <2>1, <2>2
<1>4. QED
  BY <1>1, <1>2, <1>3 DEF Inv

LEMMA NextMessage ==
  ASSUME Inv, appQ # <<>>
  PROVE  Head(appQ) \in AppMessages /\ Tail(appQ) \in Seq(AppMessages)
  BY HeadTailProperties DEF Inv

LEMMA PublishDocEditInv == ASSUME Inv, PublishDocEdit PROVE Inv'
<1> PICK m : m = Head(appQ)
  OBVIOUS
<1>1. m \in AppMessages /\ appQ' \in Seq(AppMessages) /\ m.type = "publish"
  BY NextMessage DEF PublishDocEdit
<1>2. m \in PublishMessage /\ m.text \in Kept(m.key) /\ m.key \in Key
  BY <1>1 DEF AppMessages, HeartMessage, PublishMessage
<1>3. doc' = [doc EXCEPT ![m.key] = [text |-> m.text, rev |-> edits + 2]] /\ edits' = edits + 1
  BY DEF PublishDocEdit, Edited
<1>4. edits \in Nat /\ DocsOK(doc) /\ DocsOK(undo)
  BY DEF Inv
<1>5. [text |-> m.text, rev |-> edits + 2] \in Document
  BY <1>2, <1>4 DEF Document, Kept
<1>6. DocsOK(doc')
  BY <1>2, <1>3, <1>4, <1>5, DocChanged
<1>7. DocsOK(undo')
  <2>1. undo' = [undo EXCEPT ![m.key] = None]
    BY DEF PublishDocEdit
  <2>2. QED
    BY <1>2, <1>4, <2>1, DocChanged
<1>8. LeaveBehind(m)
  BY DEF PublishDocEdit
<1>9. /\ pages' \in Seq(Seq(GoodCards))
      /\ slot = "work" => work' \in OpenWork
      /\ slot # "work" => work' = work
  BY <1>8, LeftBehindKeeps
<1>10. UNCHANGED <<viewQ, slot, submitted>> /\ edits' \in Nat
  BY <1>3, <1>4 DEF PublishDocEdit
<1>11. QED
  BY <1>1, <1>6, <1>7, <1>9, <1>10, HandlerKeeps

LEMMA AffirmDocRevInv == ASSUME Inv, AffirmDocRev PROVE Inv'
<1>1. appQ' \in Seq(AppMessages)
  BY NextMessage DEF AffirmDocRev
<1>2. UNCHANGED <<doc, undo, edits, viewQ, work, pages, slot, submitted>>
  BY DEF AffirmDocRev, docVars, listVars
<1>3. QED
  BY <1>1, <1>2, HandlerKeeps DEF Inv

LEMMA DocEditedInv == ASSUME Inv, NEW k \in Key, DocEdited(k) PROVE Inv'
<1>1. PICK known \in {{}, IF doc[k] = None THEN {} ELSE doc[k].text} :
        /\ Edited(k, known \cup Of(k, "peer"))
        /\ RefreshActiveDocBody(k, known \cup Of(k, "peer"))
  BY DEF DocEdited
<1> DEFINE text == known \cup Of(k, "peer")
<1>2. text \in Kept(k)
  <2>1. Of(k, "peer") \in Kept(k)
    BY OwnText DEF Writer
  <2>2. known = {} \/ known \in Kept(k)
    BY DEF Inv, DocsOK
  <2>3. QED
    BY <2>1, <2>2 DEF Kept, Text, For, Undrafted
<1>3. doc' = [doc EXCEPT ![k] = [text |-> text, rev |-> edits + 2]] /\ edits' = edits + 1
  BY <1>1 DEF Edited
<1>4. RefreshActiveDocBody(k, text)
  BY <1>1
<1> HIDE DEF text
<1>5. edits \in Nat /\ DocsOK(doc) /\ DocsOK(undo)
  BY DEF Inv
<1>6. [text |-> text, rev |-> edits + 2] \in Document
  BY <1>2, <1>5 DEF Document, Kept
<1>7. DocsOK(doc')
  BY <1>2, <1>3, <1>5, <1>6, DocChanged
<1>8. doc[k] = None \/ (doc[k] \in Document /\ doc[k].text \in Kept(k))
  <2>1. doc[k] \in {None} \cup Document
    BY <1>5 DEF DocsOK
  <2>2. doc[k] # None => doc[k].text \in Kept(k)
    BY <1>5 DEF DocsOK
  <2>3. QED
    BY <2>1, <2>2
<1>9. DocsOK(undo')
  <2>1. undo' = [undo EXCEPT ![k] = doc[k]]
    BY DEF DocEdited
  <2>2. QED
    BY <1>5, <1>8, <2>1, DocChanged
<1>10. /\ pages' \in Seq(Seq(GoodCards))
       /\ slot = "work" => work' \in OpenWork
       /\ slot # "work" => work' = work
  BY <1>2, <1>4, RefreshKeeps
<1>11. UNCHANGED <<viewQ, slot, appQ, submitted>> /\ edits' \in Nat
  BY <1>3, <1>5 DEF DocEdited
<1>12. QED
  BY <1>7, <1>9, <1>10, <1>11, HandlerKeeps DEF Inv

LEMMA RollbackInv == ASSUME Inv, NEW k \in Key, Rollback(k) PROVE Inv'
<1>1. DocsOK(doc) /\ DocsOK(undo) /\ undo[k] # None
  BY DEF Inv, Rollback
<1>2. undo[k] \in Document /\ undo[k].text \in Kept(k)
  BY <1>1 DEF DocsOK
<1>3. DocsOK(doc') /\ DocsOK(undo')
  <2>1. doc' = [doc EXCEPT ![k] = undo[k]] /\ undo' = [undo EXCEPT ![k] = None]
    BY DEF Rollback
  <2>2. DocsOK(doc')
    BY <1>1, <1>2, <2>1, DocChanged
  <2>3. DocsOK(undo')
    BY <1>1, <2>1, DocChanged
  <2>4. QED
    BY <2>2, <2>3
<1>4. /\ pages' \in Seq(Seq(GoodCards))
      /\ slot = "work" => work' \in OpenWork
      /\ slot # "work" => work' = work
  BY <1>2, RefreshKeeps DEF Rollback
<1>5. UNCHANGED <<edits, viewQ, slot, appQ, submitted>>
  BY DEF Rollback
<1>6. QED
  BY <1>3, <1>4, <1>5, HandlerKeeps DEF Inv

LEMMA InvNext == Inv /\ [Next]_vars => Inv'
<1> SUFFICES ASSUME Inv, [Next]_vars PROVE Inv'
  OBVIOUS
<1>1. CASE TakeMessage \/ BuildCard \/ PushPage \/ PopPage \/ RefreshRow
  BY <1>1, TakeMessageInv, BuildCardInv, PushPageInv, PopPageInv, RefreshRowInv
<1>2. CASE \E row \in Rows : Activate(row)
  BY <1>2, ActivateInv
<1>3. CASE \E i \in DOMAIN Visible : TypeText(i) \/ Publish(i) \/ Generate(i) \/ ToggleHeart(i)
  BY <1>3, TypeTextInv, PublishInv, GenerateInv, ToggleHeartInv
<1>4. CASE \E p \in DOMAIN pages : \E i \in DOMAIN pages[p] : Generated(p, i)
  BY <1>4, GeneratedInv
<1>5. CASE PublishDocEdit \/ AffirmDocRev
  BY <1>5, PublishDocEditInv, AffirmDocRevInv
<1>6. CASE \E k \in Key : DocEdited(k) \/ Rollback(k)
  BY <1>6, DocEditedInv, RollbackInv
<1>7. CASE UNCHANGED vars
  BY <1>7, KindsKept, HandlerKeeps DEF vars, docVars, listVars, Inv
<1>8. QED
  BY <1>1, <1>2, <1>3, <1>4, <1>5, <1>6, <1>7 DEF Next

(***************************************************************************)
(* The inductive invariant of the pages: documents, queued edits, cards    *)
(* and what a rollback would restore hold texts that may be saved there.   *)
(***************************************************************************)
THEOREM PageInvariance == Spec => []Inv
  BY InvInit, InvNext, PTL DEF Spec

(***************************************************************************)
(* Readings of different keys never mix (one ACTIVE_DOC_BUFFER for all     *)
(* cards, answers of the model that arrive on other pages).                *)
(***************************************************************************)
THEOREM KeysStayApart == Spec => []ReadingsDoNotMix
<1>1. Inv => ReadingsDoNotMix
  <2> SUFFICES ASSUME Inv PROVE ReadingsDoNotMix
    OBVIOUS
  <2>1. ASSUME NEW k \in Key
        PROVE  /\ doc[k] # None => For(k, doc[k].text)
               /\ undo[k] # None => For(k, undo[k].text)
    BY DEF Inv, DocsOK, Kept
  <2>2. ASSUME NEW c \in Cards PROVE For(c.key, c.text)
    <3>1. c \in GoodCards
      <4>1. CASE \E p \in DOMAIN pages : \E i \in DOMAIN pages[p] : c = pages[p][i]
        <5>1. PICK p \in DOMAIN pages : \E i \in DOMAIN pages[p] : c = pages[p][i]
          BY <4>1
        <5>2. pages[p] \in Seq(GoodCards)
          BY LenProperties, ElementOfSeq DEF Inv
        <5>3. QED
          BY <5>1, <5>2, LenProperties, ElementOfSeq
      <4>2. CASE /\ work # None /\ work.type = "open"
                 /\ \E i \in DOMAIN work.cards : c = work.cards[i]
        <5>1. work.cards \in Seq(GoodCards)
          BY <4>2 DEF Inv, WorkOK, OpenWork
        <5>2. QED
          BY <4>2, <5>1, LenProperties, ElementOfSeq
      <4>3. CASE \E p \in DOMAIN pages : c \in {pages[p][i] : i \in DOMAIN pages[p]}
        BY <4>1, <4>3
      <4>4. CASE /\ work # None /\ work.type = "open"
                 /\ c \in {work.cards[i] : i \in DOMAIN work.cards}
        BY <4>2, <4>4
      <4>5. c \in UNION {{pages[p][i] : i \in DOMAIN pages[p]} : p \in DOMAIN pages} =>
              \E p \in DOMAIN pages : c \in {pages[p][i] : i \in DOMAIN pages[p]}
        OBVIOUS
      <4>6. \/ c \in UNION {{pages[p][i] : i \in DOMAIN pages[p]} : p \in DOMAIN pages}
            \/ c \in (IF work # None /\ work.type = "open"
                     THEN {work.cards[i] : i \in DOMAIN work.cards} ELSE {})
        BY DEF Cards
      <4>7. QED
        BY <4>3, <4>4, <4>5, <4>6
    <3>2. QED
      BY <3>1 DEF GoodCards
  <2>3. ASSUME NEW i \in DOMAIN appQ, appQ[i].type = "publish"
        PROVE  For(appQ[i].key, appQ[i].text)
    <3>1. appQ[i] \in AppMessages
      BY LenProperties, ElementOfSeq DEF Inv
    <3>2. QED
      BY <2>3, <3>1 DEF AppMessages, HeartMessage, Kept
  <2>4. QED
    BY <2>1, <2>2, <2>3 DEF ReadingsDoNotMix
<1>2. QED
  BY <1>1, PageInvariance, PTL

(***************************************************************************)
(* What a language model wrote is in no document without an edit that told *)
(* every peer so (the ai_generated flag of PublishDocEdit).                *)
(***************************************************************************)
THEOREM DisclosureSafe == Spec => []DraftsAreDisclosed
<1>1. Inv => DraftsAreDisclosed
  BY DEF Inv, DocsOK, Kept, Undrafted, Disclosed, DraftsAreDisclosed
<1>2. QED
  BY <1>1, PageInvariance, PTL

-----------------------------------------------------------------------------
(***************************************************************************)
(* What the screen shows.  A preview that is not current belongs to a row  *)
(* the refresh in progress has still to read, unless a document changed    *)
(* since it began; and the slot names the last card of a page that exists. *)
(***************************************************************************)
Remaining ==
  IF work # None /\ work.type = "refresh" THEN {work.rows[i] : i \in DOMAIN work.rows} ELSE {}
ListOK ==
  /\ preview = [r \in Rows |-> preview[r]]
  /\ work # None /\ work.type = "refresh" => work.rows \in Seq(Rows)
  /\ fresh => \A r \in Rows : preview[r] = BodyPreview(r) \/ r \in Remaining

\* Card c shows what documents d hold, unless the user has written in it.
Shows(d, c) ==
  c.text_by = "app" => c.text = IF d[c.key] = None THEN BaselineText(c.key) ELSE d[c.key].text
SlotOK ==
  /\ slot \in {None, "work", "top"}
  /\ slot = "work" => work.cards # <<>> /\ Shows(doc, Last(work.cards))
  /\ slot = "top" => pages # <<>> /\ Last(pages) # <<>> /\ Shows(doc, Last(Last(pages)))

\* The preview of a row as a function of the documents.
PreviewIn(d, row) ==
  LET body(k) == IF d[k] = None \/ d[k].text = {} THEN BaselineText(k) ELSE d[k].text
      found == SelectSeq(row, LAMBDA k : body(k) # {})
  IN  IF found = <<>> THEN {} ELSE body(Head(found))

LEMMA PreviewNow == ASSUME NEW r PROVE BodyPreview(r) = PreviewIn(doc, r)
  BY DEF BodyPreview, ResolveTopBody, PreviewIn

LEMMA PreviewNext == ASSUME NEW r PROVE (BodyPreview(r) = PreviewIn(doc, r))'
<1>1. BodyPreview(r) = PreviewIn(doc, r)
  BY PreviewNow
<1>2. QED
  BY <1>1, PTL

LEMMA PreviewStays == ASSUME doc' = doc, NEW r PROVE BodyPreview(r)' = BodyPreview(r)
<1>1. PreviewIn(doc, r)' = PreviewIn(doc', r)
  OBVIOUS
<1>2. QED
  BY PreviewNow, PreviewNext, <1>1

\* The rows of a refresh are all rows of the list.
LEMMA SetToSeqIsOnto ==
  ASSUME NEW S, IsFiniteSet(S)
  PROVE  /\ SetToSeq(S) \in Seq(S)
         /\ \A x \in S : \E k \in 1 .. Len(SetToSeq(S)) : SetToSeq(S)[k] = x
<1> DEFINE n == Cardinality(S)
           q == SetToSeq(S)
<1>1. n \in Nat /\ ExistsBijection(1 .. n, S)
  BY FS_CardinalityType
<1>2. \E f \in [1 .. n -> S] : IsInjective(f)
  BY <1>1 DEF ExistsBijection, Bijection, Injection
<1>3. q \in [1 .. n -> S] /\ IsInjective(q)
  BY <1>2 DEF SetToSeq
<1>4. q \in Injection(1 .. n, S)
  BY <1>3 DEF Injection
<1>5. IsFiniteSet(1 .. n) /\ Cardinality(1 .. n) = n
  BY <1>1, FS_Interval
<1>6. q \in Surjection(1 .. n, S)
  BY <1>4, <1>5, FS_Injection
<1>7. q \in Seq(S) /\ Len(q) = n
  BY <1>1, <1>3
<1>8. QED
  BY <1>6, <1>7 DEF Surjection

\* A step that reads no preview keeps them current, if no document changes.
LEMMA ListStays ==
  ASSUME ListOK, UNCHANGED <<preview, doc, work>>, fresh' => fresh
  PROVE  ListOK'
<1>1. Remaining' = Remaining
  BY DEF Remaining
<1>2. \A r \in Rows : BodyPreview(r)' = BodyPreview(r)
  BY PreviewStays
<1>3. QED
  BY <1>1, <1>2 DEF ListOK

\* A document changes, and nothing is claimed until the next refresh begins.
LEMMA ListStale ==
  ASSUME ListOK, UNCHANGED preview, fresh' = FALSE, work' = work \/ work' \in OpenWork
  PROVE  ListOK'
<1>1. work' \in OpenWork => work'.type # "refresh"
  BY DEF OpenWork, Building
<1>2. QED
  BY <1>1 DEF ListOK

\* The list's component builds a page: no refresh before and none after.
LEMMA ListBuilds ==
  ASSUME ListOK, UNCHANGED <<preview, doc, fresh>>, work \in OpenWork \/ work = None,
         work' \in OpenWork \/ work' = None
  PROVE  ListOK'
<1>1. work \in OpenWork => work.type # "refresh"
  BY DEF OpenWork, Building
<1>2. work' \in OpenWork => work'.type # "refresh"
  BY DEF OpenWork, Building
<1>3. Remaining = {}
  BY <1>1 DEF Remaining
<1>4. \A r \in Rows : BodyPreview(r)' = BodyPreview(r)
  BY PreviewStays
<1>5. QED
  BY <1>1, <1>2, <1>3, <1>4 DEF ListOK

\* Nothing of the slot's card and of its document changes.
LEMMA SlotStays ==
  ASSUME SlotOK, UNCHANGED <<doc, slot>>, slot = "work" => work' = work,
         slot = "top" => pages' = pages
  PROVE  SlotOK'
  BY DEF SlotOK

\* Replacing an element leaves a sequence as long as it was.
LEMMA AsLong ==
  ASSUME NEW S, NEW s \in Seq(S), NEW i, NEW x, s # <<>>
  PROVE  [s EXCEPT ![i] = x] # <<>> /\ Len([s EXCEPT ![i] = x]) = Len(s)
<1> DEFINE n == [s EXCEPT ![i] = x]
<1>1. Len(s) \in 1 .. Len(s)
  BY EmptySeq
<1>2. DOMAIN n = 1 .. Len(s) /\ n = [k \in 1 .. Len(s) |-> n[k]]
  OBVIOUS
<1>3. QED
  BY <1>1, <1>2

\* A card of a page changes, but what it shows only if the user changes it.
LEMMA SlotCardStays ==
  ASSUME Inv, SlotOK, UNCHANGED <<doc, slot, work>>,
         NEW p \in DOMAIN pages, NEW i \in DOMAIN pages[p], NEW c,
         Shows(doc, pages[p][i]) => Shows(doc, c),
         pages' = [pages EXCEPT ![p] = [pages[p] EXCEPT ![i] = c]]
  PROVE  SlotOK'
<1>1. ASSUME slot = "top"
      PROVE  pages' # <<>> /\ Last(pages') # <<>> /\ Shows(doc, Last(Last(pages')))
  <2> DEFINE top == pages[Len(pages)]
  <2>1. pages \in Seq(Seq(GoodCards)) /\ pages # <<>> /\ top # <<>> /\ Shows(doc, top[Len(top)])
    BY <1>1 DEF Inv, SlotOK, Last
  <2>2. Len(pages) \in 1 .. Len(pages) /\ p \in 1 .. Len(pages)
    BY <2>1, EmptySeq
  <2>3. top \in Seq(GoodCards) /\ pages[p] \in Seq(GoodCards)
    BY <2>1, <2>2, ElementOfSeq
  <2>4. Len(top) \in 1 .. Len(top)
    BY <2>1, <2>3, EmptySeq
  <2>5. pages' # <<>> /\ Len(pages') = Len(pages)
    BY <2>1, AsLong
  <2>6. CASE p # Len(pages)
    <3>1. Last(pages') = top
      BY <2>1, <2>2, <2>5, <2>6 DEF Last
    <3>2. QED
      BY <2>1, <2>5, <3>1 DEF Last
  <2>7. CASE p = Len(pages)
    <3> DEFINE new == [top EXCEPT ![i] = c]
    <3>1. Last(pages') = new
      BY <2>1, <2>2, <2>5, <2>7 DEF Last
    <3>2. new # <<>> /\ Len(new) = Len(top)
      BY <2>1, <2>3, AsLong
    <3>3. Shows(doc, new[Len(top)])
      BY <2>1, <2>3, <2>4, <2>7
    <3>4. QED
      BY <2>5, <3>1, <3>2, <3>3 DEF Last
  <2>8. QED
    BY <2>6, <2>7
<1>2. QED
  BY <1>1 DEF SlotOK

\* A handler makes of the slot's card one that shows the new documents.
LEMMA SlotCardChanges ==
  ASSUME Inv, SlotOK, UNCHANGED slot, NEW w, NEW t,
         work' = IF slot = "work"
                 THEN [work EXCEPT !.cards = [work.cards EXCEPT ![Len(work.cards)] = w]]
                 ELSE work,
         pages' = IF slot = "top"
                  THEN [pages EXCEPT ![Len(pages)] =
                          [pages[Len(pages)] EXCEPT ![Len(pages[Len(pages)])] = t]]
                  ELSE pages,
         slot = "work" => Shows(doc', w), slot = "top" => Shows(doc', t)
  PROVE  SlotOK'
<1>1. ASSUME NEW S, NEW s \in Seq(S), s # <<>>, NEW x
      PROVE  /\ [s EXCEPT ![Len(s)] = x] # <<>>
             /\ Last([s EXCEPT ![Len(s)] = x]) = x
             /\ Len([s EXCEPT ![Len(s)] = x]) = Len(s)
  <2>1. Len(s) \in 1 .. Len(s)
    BY <1>1, EmptySeq
  <2>2. QED
    BY <1>1, <2>1, AsLong DEF Last
<1>2. ASSUME slot = "work"
      PROVE  work'.cards # <<>> /\ Shows(doc', Last(work'.cards))
  <2>1. work \in OpenWork /\ work.cards # <<>>
    BY <1>2 DEF Inv, SlotOK
  <2>2. work'.cards = [work.cards EXCEPT ![Len(work.cards)] = w]
    BY <1>2, <2>1 DEF OpenWork, Building
  <2>3. work.cards \in Seq(GoodCards)
    BY <2>1 DEF OpenWork
  <2>4. QED
    BY <1>1, <1>2, <2>1, <2>2, <2>3
<1>3. ASSUME slot = "top"
      PROVE  pages' # <<>> /\ Last(pages') # <<>> /\ Shows(doc', Last(Last(pages')))
  <2>1. pages \in Seq(Seq(GoodCards)) /\ pages # <<>>
    BY <1>3 DEF Inv, SlotOK
  <2>2. pages[Len(pages)] \in Seq(GoodCards)
    BY <2>1, EmptySeq, ElementOfSeq
  <2>3. pages[Len(pages)] # <<>>
    BY <1>3 DEF SlotOK, Last
  <2> DEFINE new == [pages[Len(pages)] EXCEPT ![Len(pages[Len(pages)])] = t]
  <2>4. new # <<>> /\ Last(new) = t
    BY <1>1, <2>2, <2>3
  <2>5. pages' = [pages EXCEPT ![Len(pages)] = new]
    BY <1>3
  <2> HIDE DEF new
  <2>6. pages' # <<>> /\ Last(pages') = new
    BY <1>1, <2>1, <2>5
  <2>7. QED
    BY <1>3, <2>4, <2>6
<1>4. QED
  BY <1>2, <1>3 DEF SlotOK

\* Taking the head off a sequence keeps every other element.
LEMMA TailKeeps ==
  ASSUME NEW S, NEW q \in Seq(S), q # <<>>
  PROVE  /\ Head(q) \in S /\ Tail(q) \in Seq(S)
         /\ \A i \in 1 .. Len(q) : q[i] # Head(q) => \E j \in 1 .. Len(Tail(q)) : Tail(q)[j] = q[i]
<1>1. Head(q) \in S /\ Tail(q) \in Seq(S) /\ Len(Tail(q)) = Len(q) - 1
  BY HeadTailProperties
<1>2. ASSUME NEW i \in 1 .. Len(q), q[i] # Head(q)
      PROVE  \E j \in 1 .. Len(Tail(q)) : Tail(q)[j] = q[i]
  <2>1. i - 1 \in 1 .. Len(Tail(q))
    BY <1>1, <1>2
  <2>2. Tail(q)[i - 1] = q[i]
    BY <1>1, <2>1
  <2>3. QED
    BY <2>1, <2>2
<1>3. QED
  BY <1>1, <1>2

LEMMA ScreenInit == Init => ListOK /\ SlotOK
<1> SUFFICES ASSUME Init PROVE ListOK /\ SlotOK
  OBVIOUS
<1>1. preview = [r \in Rows |-> BodyPreview(r)] /\ work = None /\ slot = None
  BY DEF Init
<1>2. ListOK
  BY <1>1 DEF ListOK
<1>3. SlotOK
  BY <1>1, PageAssumption DEF SlotOK
<1>4. QED
  BY <1>2, <1>3

LEMMA ActivateScreen ==
  ASSUME ListOK, SlotOK, NEW row \in Rows, Activate(row)
  PROVE  ListOK' /\ SlotOK'
<1>1. UNCHANGED <<doc, fresh, work, preview, pages, slot>>
  BY DEF Activate, docVars
<1>2. QED
  BY <1>1, ListStays, SlotStays

\* A refresh has all rows before it; a page has none.
LEMMA TakeMessageScreen ==
  ASSUME Inv, ListOK, SlotOK, TakeMessage
  PROVE  ListOK' /\ SlotOK'
<1>1. work = None /\ UNCHANGED <<doc, preview, pages, slot>>
  BY DEF TakeMessage
<1>2. slot # "work"
  <2>1. None \notin OpenWork
    BY PageAssumption DEF OpenWork
  <2>2. QED
    BY <1>1, <2>1 DEF Inv
<1>3. SlotOK'
  BY <1>1, <1>2, SlotStays
<1>4. ListOK'
  <2>1. CASE Head(viewQ).type = "open"
    <3>1. work'.type = "open"
      BY <2>1 DEF TakeMessage
    <3>2. fresh' => fresh
      BY <2>1 DEF TakeMessage
    <3>3. Remaining = {}
      BY <1>1 DEF Remaining
    <3>4. \A r \in Rows : BodyPreview(r)' = BodyPreview(r)
      BY <1>1, PreviewStays
    <3>5. QED
      BY <1>1, <3>1, <3>2, <3>3, <3>4 DEF ListOK
  <2>2. CASE Head(viewQ).type # "open"
    <3>1. work' = [type |-> "refresh", rows |-> SetToSeq(Rows)] /\ preview' = preview
      BY <2>2 DEF TakeMessage
    <3>2. /\ SetToSeq(Rows) \in Seq(Rows)
          /\ \A r \in Rows : \E k \in 1 .. Len(SetToSeq(Rows)) : SetToSeq(Rows)[k] = r
      BY SetToSeqIsOnto, PageAssumption
    <3>3. work' # None /\ work'.type = "refresh" /\ work'.rows = SetToSeq(Rows)
      BY <3>1, <3>2, PageAssumption
    <3>4. DOMAIN SetToSeq(Rows) = 1 .. Len(SetToSeq(Rows))
      BY <3>2
    <3>5. Rows \subseteq Remaining'
      BY <3>2, <3>3, <3>4 DEF Remaining
    <3>6. QED
      BY <3>1, <3>2, <3>3, <3>5 DEF ListOK
  <2>3. QED
    BY <2>1, <2>2
<1>5. QED
  BY <1>3, <1>4

LEMMA BuildCardScreen ==
  ASSUME Inv, Inv', ListOK, SlotOK, BuildCard
  PROVE  ListOK' /\ SlotOK'
<1>1. UNCHANGED <<doc, fresh, preview, submitted>> /\ slot' = "work" /\ work \in OpenWork
  BY DEF BuildCard, docVars, Inv, WorkOK
<1>2. work' \in OpenWork
  BY <1>1, KindsKept DEF Inv
<1>3. ListOK'
  BY <1>1, <1>2, ListBuilds
<1> PICK c : c = Card(Head(work.keys))
  OBVIOUS
<1>4. Shows(doc, c)
  BY DEF Card, DisplayBody, Shows
<1>5. work'.cards = Append(work.cards, c)
  BY <1>1 DEF BuildCard, OpenWork, Building
<1>6. work.cards \in Seq(GoodCards)
  BY <1>1 DEF OpenWork
<1>7. work'.cards # <<>> /\ Last(work'.cards) = c
  BY <1>5, <1>6 DEF Last
<1>8. SlotOK'
  BY <1>1, <1>4, <1>7, PageAssumption DEF SlotOK
<1>9. QED
  BY <1>3, <1>8

LEMMA PushPageScreen ==
  ASSUME Inv, ListOK, SlotOK, PushPage
  PROVE  ListOK' /\ SlotOK'
<1>1. UNCHANGED <<doc, fresh, preview>> /\ work \in OpenWork /\ work' = None
  BY DEF PushPage, docVars, Inv, WorkOK
<1>2. ListOK'
  BY <1>1, ListBuilds
<1>3. pages' = Append(pages, work.cards)
      /\ slot' = IF pages = <<>> /\ slot = "work" THEN "top" ELSE None
  BY DEF PushPage
<1>4. pages \in Seq(Seq(GoodCards)) /\ work.cards \in Seq(GoodCards)
  BY <1>1 DEF Inv, OpenWork
<1>5. pages' # <<>> /\ Last(pages') = work.cards
  BY <1>3, <1>4 DEF Last
<1>6. SlotOK'
  BY <1>1, <1>3, <1>5, PageAssumption DEF SlotOK
<1>7. QED
  BY <1>2, <1>6

LEMMA PopPageScreen ==
  ASSUME ListOK, SlotOK, PopPage
  PROVE  ListOK' /\ SlotOK'
<1>1. UNCHANGED <<doc, fresh, work, preview>> /\ slot' = None
  BY DEF PopPage, docVars
<1>2. SlotOK'
  BY <1>1, PageAssumption DEF SlotOK
<1>3. QED
  BY <1>1, <1>2, ListStays

\* The row that is read becomes current and leaves the rows to read.
LEMMA RefreshRowScreen ==
  ASSUME Inv, ListOK, SlotOK, RefreshRow
  PROVE  ListOK' /\ SlotOK'
<1>1. UNCHANGED <<doc, fresh, pages, slot>> /\ work # None /\ work.type = "refresh"
  BY DEF RefreshRow, docVars
<1>2. slot # "work"
  BY <1>1 DEF Inv, OpenWork, Building
<1>3. SlotOK'
  BY <1>1, <1>2, SlotStays
<1>4. work.rows \in Seq(Rows)
  BY <1>1 DEF ListOK
<1>5. \A r \in Rows : BodyPreview(r)' = BodyPreview(r)
  BY <1>1, PreviewStays
<1>6. CASE work.rows = <<>>
  <2>1. work' = None /\ preview' = preview
    BY <1>6 DEF RefreshRow
  <2>2. Remaining = {}
    BY <1>6 DEF Remaining
  <2>3. ListOK'
    BY <1>1, <1>5, <2>1, <2>2 DEF ListOK
  <2>4. QED
    BY <1>3, <2>3
<1>7. CASE work.rows # <<>>
  <2> PICK head : head = Head(work.rows)
    OBVIOUS
  <2> PICK now : now = BodyPreview(head)
    OBVIOUS
  <2>1. work' = [work EXCEPT !.rows = Tail(work.rows)] /\ preview' = [preview EXCEPT ![head] = now]
    BY <1>7 DEF RefreshRow
  <2>2. head \in Rows /\ Tail(work.rows) \in Seq(Rows)
        /\ \A k \in 1 .. Len(work.rows) :
             work.rows[k] # head => \E j \in 1 .. Len(Tail(work.rows)) : Tail(work.rows)[j] = work.rows[k]
    BY <1>4, <1>7, TailKeeps
  <2>3. PICK rows : work = [type |-> "refresh", rows |-> rows]
    BY <1>1 DEF Inv, WorkOK, OpenWork, Building
  <2>4. work' = [type |-> "refresh", rows |-> Tail(work.rows)]
    BY <2>1, <2>3
  <2>5. work' # None /\ work'.type = "refresh" /\ work'.rows = Tail(work.rows)
    <3>1. work' \in [type : {"refresh"}, rows : Seq(Rows)]
      BY <2>2, <2>4
    <3>2. QED
      BY <2>4, <3>1, PageAssumption
  <2>6. preview' = [r \in Rows |-> preview'[r]] /\ preview'[head] = now
        /\ \A r \in Rows : r # head => preview'[r] = preview[r]
    BY <2>1, <2>2 DEF ListOK
  <2>7. ASSUME NEW r \in Remaining, r # head
        PROVE  r \in Remaining'
    <3>1. PICK k \in DOMAIN work.rows : work.rows[k] = r
      BY <1>1, <2>7 DEF Remaining
    <3>2. k \in 1 .. Len(work.rows)
      BY <1>4, <3>1
    <3>3. PICK j \in 1 .. Len(Tail(work.rows)) : Tail(work.rows)[j] = r
      BY <2>2, <2>7, <3>1, <3>2
    <3>4. j \in DOMAIN Tail(work.rows)
      BY <2>2, <3>3
    <3>5. QED
      BY <2>5, <3>3, <3>4 DEF Remaining
  <2>8. ASSUME fresh, NEW r \in Rows
        PROVE  preview'[r] = BodyPreview(r)' \/ r \in Remaining'
    <3>1. CASE r = head
      BY <1>5, <2>6, <3>1
    <3>2. CASE r # head
      BY <1>5, <2>6, <2>7, <2>8, <3>2 DEF ListOK
    <3>3. QED
      BY <3>1, <3>2
  <2>9. ListOK'
    BY <1>1, <2>2, <2>5, <2>6, <2>8 DEF ListOK
  <2>10. QED
    BY <1>3, <2>9
<1>8. QED
  BY <1>6, <1>7

\* What the user does with a card, and what the model answers.
LEMMA ClickScreen ==
  ASSUME Inv, ListOK, SlotOK, NEW i \in DOMAIN Visible,
         TypeText(i) \/ Publish(i) \/ Generate(i) \/ ToggleHeart(i)
  PROVE  ListOK' /\ SlotOK'
<1>1. UNCHANGED <<doc, fresh, work, preview, slot>>
  BY DEF TypeText, Publish, Generate, ToggleHeart, docVars, listVars
<1>2. Visible = pages[Len(pages)] /\ Len(pages) \in DOMAIN pages /\ i \in DOMAIN pages[Len(pages)]
      /\ Visible[i] \in CardRecord
  <2>1. Visible = pages[Len(pages)] /\ Len(pages) \in 1 .. Len(pages) /\ Visible[i] \in CardRecord
    BY VisibleCard DEF GoodCards
  <2>2. DOMAIN pages = 1 .. Len(pages)
    BY LenProperties DEF Inv
  <2>3. QED
    BY <2>1, <2>2
<1>3. \E d : /\ pages' = [pages EXCEPT ![Len(pages)] = [pages[Len(pages)] EXCEPT ![i] = d]]
             /\ Shows(doc, Visible[i]) => Shows(doc, d)
  <2> PICK c : c = Visible[i]
    OBVIOUS
  <2>1. CASE TypeText(i)
    <3>1. PICK kept \in {{}, c.text} :
            Becomes(i, [c EXCEPT !.text = kept \cup Of(c.key, "me"), !.text_by = "user"])
      BY <2>1 DEF TypeText
    <3>2. [c EXCEPT !.text = kept \cup Of(c.key, "me"), !.text_by = "user"].text_by # "app"
      BY <1>2 DEF CardRecord
    <3>3. QED
      BY <3>1, <3>2 DEF Becomes, Shows
  <2>2. ASSUME NEW d \in {[c EXCEPT !.ai_generated = FALSE], [c EXCEPT !.generating = TRUE],
                          [c EXCEPT !.heart = ~@]}
        PROVE  Shows(doc, c) => Shows(doc, d)
    <3>1. d.key = c.key /\ d.text = c.text /\ d.text_by = c.text_by
      BY <1>2, <2>2 DEF CardRecord
    <3>2. QED
      BY <3>1 DEF Shows
  <2>3. CASE Publish(i)
    BY <2>2, <2>3 DEF Publish, Becomes
  <2>4. CASE Generate(i)
    BY <2>2, <2>4 DEF Generate, Becomes
  <2>5. CASE ToggleHeart(i)
    BY <2>2, <2>5 DEF ToggleHeart, Becomes
  <2>6. QED
    BY <2>1, <2>3, <2>4, <2>5
<1>4. SlotOK'
  BY <1>1, <1>2, <1>3, SlotCardStays
<1>5. QED
  BY <1>1, <1>4, ListStays

LEMMA GeneratedScreen ==
  ASSUME Inv, ListOK, SlotOK, NEW p \in DOMAIN pages, NEW i \in DOMAIN pages[p], Generated(p, i)
  PROVE  ListOK' /\ SlotOK'
<1>1. UNCHANGED <<doc, fresh, work, preview, slot>>
  BY DEF Generated, docVars, listVars
<1> PICK c : c = pages[p][i]
  OBVIOUS
<1>2. c \in CardRecord
  <2>1. p \in 1 .. Len(pages) /\ pages[p] \in Seq(GoodCards)
    BY LenProperties, ElementOfSeq DEF Inv
  <2>2. i \in 1 .. Len(pages[p])
    BY <2>1, LenProperties
  <2>3. QED
    BY <2>1, <2>2, ElementOfSeq DEF GoodCards
<1> DEFINE drafted == [c EXCEPT !.text = Of(c.key, "ai"), !.text_by = "user",
                                !.ai_generated = TRUE, !.generating = FALSE]
           failed == [c EXCEPT !.generating = FALSE]
<1>3. PICK answer \in {drafted, failed} :
        pages' = [pages EXCEPT ![p] = [pages[p] EXCEPT ![i] = answer]]
  BY DEF Generated
<1>4. Shows(doc, c) => Shows(doc, failed)
  <2>1. failed.key = c.key /\ failed.text = c.text /\ failed.text_by = c.text_by
    BY <1>2 DEF CardRecord
  <2>2. QED
    BY <2>1 DEF Shows
<1>5. Shows(doc, drafted)
  <2>1. drafted.text_by = "user"
    BY <1>2 DEF CardRecord
  <2>2. QED
    BY <2>1 DEF Shows
<1> HIDE DEF drafted, failed
<1>6. SlotOK'
  BY <1>1, <1>3, <1>4, <1>5, SlotCardStays
<1>7. QED
  BY <1>1, <1>6, ListStays
LEMMA PublishDocEditScreen ==
  ASSUME Inv, ListOK, SlotOK, PublishDocEdit
  PROVE  ListOK' /\ SlotOK'
<1> PICK m : m = Head(appQ)
  OBVIOUS
<1>1. m \in PublishMessage /\ m.key \in Key
  BY NextMessage DEF PublishDocEdit, AppMessages, HeartMessage, PublishMessage
<1>2. /\ doc' = [doc EXCEPT ![m.key] = [text |-> m.text, rev |-> edits + 2]]
      /\ fresh' = FALSE /\ UNCHANGED <<preview, slot>> /\ LeaveBehind(m)
  BY DEF PublishDocEdit, Edited
<1>3. ListOK'
  BY <1>2, LeftBehindKeeps, ListStale
<1> DEFINE top == pages[Len(pages)]
<1> PICK w : w = work.cards[Len(work.cards)]
  OBVIOUS
<1> PICK t : t = top[Len(top)]
  OBVIOUS
<1>4. work' = IF slot = "work"
              THEN [work EXCEPT !.cards = [work.cards EXCEPT ![Len(work.cards)] = LeftBehind(w, m)]]
              ELSE work
  BY <1>2 DEF LeaveBehind, InSlot
<1>5. pages' = IF slot = "top"
               THEN [pages EXCEPT ![Len(pages)] = [top EXCEPT ![Len(top)] = LeftBehind(t, m)]]
               ELSE pages
  BY <1>2 DEF LeaveBehind, InSlot
<1>6. ASSUME NEW c \in CardRecord, Shows(doc, c)
      PROVE  Shows(doc', LeftBehind(c, m))
  <2>1. CASE c.key # m.key
    BY <1>1, <1>2, <1>6, <2>1 DEF Shows, LeftBehind, Inv, DocsOK
  <2>2. CASE c.key = m.key
    <3>1. doc'[c.key] = [text |-> m.text, rev |-> edits + 2] /\ doc'[c.key] # None
      <4>1. [text |-> m.text, rev |-> edits + 2] \in Document
        BY <1>1 DEF PublishMessage, Document, Inv
      <4>2. QED
        BY <1>1, <1>2, <2>2, <4>1, PageAssumption DEF Inv, DocsOK, Document
    <3>2. LeftBehind(c, m).key = c.key /\ LeftBehind(c, m).text = c.text
          /\ (LeftBehind(c, m).text_by = "app" => c.text = m.text)
      BY <2>2 DEF LeftBehind, CardRecord
    <3>3. QED
      BY <3>1, <3>2 DEF Shows
  <2>3. QED
    BY <2>1, <2>2
<1>7. /\ slot = "work" => Shows(doc', LeftBehind(w, m))
      /\ slot = "top" => Shows(doc', LeftBehind(t, m))
  <2>1. ASSUME slot = "work" PROVE w \in CardRecord /\ Shows(doc, w)
    BY <2>1, SlotCards DEF Inv, SlotOK, Last, GoodCards
  <2>2. ASSUME slot = "top" PROVE t \in CardRecord /\ Shows(doc, t)
    BY <2>2, SlotCards DEF SlotOK, Last, GoodCards
  <2>3. QED
    BY <1>6, <2>1, <2>2
<1>8. SlotOK'
  BY <1>2, <1>4, <1>5, <1>7, SlotCardChanges
<1>9. QED
  BY <1>3, <1>8

\* After a refresh the slot's card shows the changed document, if it is that key's.
LEMMA RefreshScreen ==
  ASSUME Inv, SlotOK, UNCHANGED slot, NEW k \in Key, NEW d \in Document,
         doc' = [doc EXCEPT ![k] = d], RefreshActiveDocBody(k, d.text)
  PROVE  SlotOK'
<1> DEFINE set(c) == IF c.key = k THEN [c EXCEPT !.text = d.text, !.text_by = "app"] ELSE c
           top == pages[Len(pages)]
<1> PICK w : w = work.cards[Len(work.cards)]
  OBVIOUS
<1> PICK t : t = top[Len(top)]
  OBVIOUS
<1>1. work' = IF slot = "work"
              THEN [work EXCEPT !.cards = [work.cards EXCEPT ![Len(work.cards)] = set(w)]]
              ELSE work
  BY DEF RefreshActiveDocBody, InSlot
<1>2. pages' = IF slot = "top"
               THEN [pages EXCEPT ![Len(pages)] = [top EXCEPT ![Len(top)] = set(t)]]
               ELSE pages
  BY DEF RefreshActiveDocBody, InSlot
<1>3. ASSUME NEW c \in CardRecord, Shows(doc, c)
      PROVE  Shows(doc', set(c))
  <2>1. CASE c.key # k
    BY <1>3, <2>1 DEF Shows, Inv, DocsOK
  <2>2. CASE c.key = k
    <3>1. doc'[k] = d /\ d # None
      BY PageAssumption DEF Inv, DocsOK, Document
    <3>2. set(c).key = k /\ set(c).text = d.text
      BY <2>2 DEF CardRecord
    <3>3. QED
      BY <3>1, <3>2 DEF Shows
  <2>3. QED
    BY <2>1, <2>2
<1>4. /\ slot = "work" => Shows(doc', set(w))
      /\ slot = "top" => Shows(doc', set(t))
  <2>1. ASSUME slot = "work" PROVE w \in CardRecord /\ Shows(doc, w)
    BY <2>1, SlotCards DEF Inv, SlotOK, Last, GoodCards
  <2>2. ASSUME slot = "top" PROVE t \in CardRecord /\ Shows(doc, t)
    BY <2>2, SlotCards DEF SlotOK, Last, GoodCards
  <2>3. QED
    BY <1>3, <2>1, <2>2
<1> HIDE DEF set
<1>5. QED
  BY <1>1, <1>2, <1>4, SlotCardChanges

LEMMA AffirmDocRevScreen ==
  ASSUME ListOK, SlotOK, AffirmDocRev
  PROVE  ListOK' /\ SlotOK'
<1>1. UNCHANGED <<doc, fresh, work, preview, pages, slot>>
  BY DEF AffirmDocRev, docVars, listVars
<1>2. QED
  BY <1>1, ListStays, SlotStays

LEMMA DocEditedScreen ==
  ASSUME Inv, ListOK, SlotOK, NEW k \in Key, DocEdited(k)
  PROVE  ListOK' /\ SlotOK'
<1>1. PICK known \in {{}, IF doc[k] = None THEN {} ELSE doc[k].text} :
        /\ Edited(k, known \cup Of(k, "peer"))
        /\ RefreshActiveDocBody(k, known \cup Of(k, "peer"))
  BY DEF DocEdited
<1> PICK text : text = known \cup Of(k, "peer")
  OBVIOUS
<1>2. text \in Kept(k)
  <2>1. Of(k, "peer") \in Kept(k)
    BY OwnText DEF Writer
  <2>2. known = {} \/ known \in Kept(k)
    BY DEF Inv, DocsOK
  <2>3. QED
    BY <2>1, <2>2 DEF Kept, Text, For, Undrafted
<1> PICK d : d = [text |-> text, rev |-> edits + 2]
  OBVIOUS
<1>3. d \in Document /\ d.text = text
  BY <1>2 DEF Document, Kept, Inv
<1>4. /\ doc' = [doc EXCEPT ![k] = d] /\ fresh' = FALSE /\ UNCHANGED <<preview, slot>>
      /\ RefreshActiveDocBody(k, d.text) /\ RefreshActiveDocBody(k, text)
  BY <1>1, <1>3 DEF DocEdited, Edited
<1>5. ListOK'
  BY <1>2, <1>4, RefreshKeeps, ListStale
<1>6. QED
  BY <1>3, <1>4, <1>5, RefreshScreen

LEMMA RollbackScreen ==
  ASSUME Inv, ListOK, SlotOK, NEW k \in Key, Rollback(k)
  PROVE  ListOK' /\ SlotOK'
<1> PICK d : d = undo[k]
  OBVIOUS
<1>1. d \in Document /\ d.text \in Kept(k)
  BY DEF Inv, Rollback, DocsOK
<1>2. /\ doc' = [doc EXCEPT ![k] = d] /\ fresh' = FALSE /\ UNCHANGED <<preview, slot>>
      /\ RefreshActiveDocBody(k, d.text)
  BY DEF Rollback
<1>3. ListOK'
  BY <1>1, <1>2, RefreshKeeps, ListStale
<1>4. QED
  BY <1>1, <1>2, <1>3, RefreshScreen

LEMMA ScreenNext ==
  ASSUME Inv, Inv', ListOK, SlotOK, [Next]_vars
  PROVE  ListOK' /\ SlotOK'
<1>1. CASE TakeMessage \/ BuildCard \/ PushPage \/ PopPage \/ RefreshRow
  BY <1>1, TakeMessageScreen, BuildCardScreen, PushPageScreen, PopPageScreen, RefreshRowScreen
<1>2. CASE \E row \in Rows : Activate(row)
  BY <1>2, ActivateScreen
<1>3. CASE \E i \in DOMAIN Visible : TypeText(i) \/ Publish(i) \/ Generate(i) \/ ToggleHeart(i)
  BY <1>3, ClickScreen
<1>4. CASE \E p \in DOMAIN pages : \E i \in DOMAIN pages[p] : Generated(p, i)
  BY <1>4, GeneratedScreen
<1>5. CASE PublishDocEdit \/ AffirmDocRev
  BY <1>5, PublishDocEditScreen, AffirmDocRevScreen
<1>6. CASE \E k \in Key : DocEdited(k) \/ Rollback(k)
  BY <1>6, DocEditedScreen, RollbackScreen
<1>7. CASE UNCHANGED vars
  <2>1. UNCHANGED <<doc, fresh, work, preview, pages, slot>>
    BY <1>7 DEF vars, docVars, listVars
  <2>2. QED
    BY <2>1, ListStays, SlotStays
<1>8. QED
  BY <1>1, <1>2, <1>3, <1>4, <1>5, <1>6, <1>7 DEF Next

(***************************************************************************)
(* What the screen shows is current: the card that live refreshes go to    *)
(* (refresh_active_doc_body), and the previews of a list that has read     *)
(* them after the last change (RefreshRows).                               *)
(***************************************************************************)
THEOREM ScreenStaysCurrent == Spec => []ScreenIsCurrent
<1>1. Inv /\ ListOK /\ SlotOK => ScreenIsCurrent
  <2> SUFFICES ASSUME Inv, ListOK, SlotOK PROVE ScreenIsCurrent
    OBVIOUS
  <2>1. ASSUME slot # None, SlotCard.text_by = "app"
        PROVE  SlotCard.text = DisplayBody(SlotCard.key)
    <3>1. Shows(doc, SlotCard)
      BY <2>1 DEF SlotOK, SlotCard
    <3>2. QED
      BY <2>1, <3>1 DEF Shows, DisplayBody
  <2>2. ASSUME work = None, fresh PROVE \A r \in Rows : preview[r] = BodyPreview(r)
    BY <2>2 DEF ListOK, Remaining
  <2>3. QED
    BY <2>1, <2>2 DEF ScreenIsCurrent
<1>2. Inv /\ ListOK /\ SlotOK /\ [Next]_vars => (Inv /\ ListOK /\ SlotOK)'
  BY InvNext, ScreenNext
<1>3. QED
  BY InvInit, ScreenInit, <1>1, <1>2, PTL DEF Spec

=============================================================================
