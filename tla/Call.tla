-------------------------------- MODULE Call --------------------------------
(***************************************************************************)
(* Voice calls: the call state and the one audio session of every device   *)
(* (app.rs), the four signalling messages, and what is left of an audio    *)
(* session after it was dropped (av/src/transport.rs).                     *)
(*                                                                         *)
(* A session starts a sending and a receiving half.  Dropping it sets a    *)
(* flag that the decoder looks at only after it got a datagram, and the    *)
(* receiving task ends only when it cannot hand a datagram to the decoder, *)
(* so halves of earlier sessions still read from the connection that the   *)
(* next session uses.  The queue between the two is left out.              *)
(***************************************************************************)
EXTENDS Naturals, Sequences, FiniteSets

CONSTANTS
  Caller,         \* devices that call each other
  WithMicrophone, \* devices whose capture stream could be opened
  Nobody,         \* no audio session
  MaxPresses,     \* bound: what users press
  MaxDrops        \* bound: connections that are lost

ASSUME CallAssumption ==
  /\ WithMicrophone \subseteq Caller
  /\ Nobody \notin Caller
  /\ MaxPresses \in Nat /\ MaxDrops \in Nat

VARIABLES
  call,      \* call_state
  audio,     \* active_audio: the peer whose connection it uses
  channels,  \* connected_channels
  toCall,    \* CallStargazer messages waiting for the update loop
  notes,     \* incoming-call notifications on the desktop
  up,        \* connections, as sets of two devices
  wire,      \* signalling from one device to another
  ear,       \* the receiving half of the current session is running
  heard,     \* it got a datagram
  waiting,   \* dropped receiving halves whose decoder waits for a datagram
  ending,    \* those whose decoder has ended and whose task has not
  beat,      \* flips with every datagram, so that taking one is a step
  sid,       \* history: the offer the call state is about
  odd,       \* history: what happened that the handlers do not foresee
  presses, drops

callVars == <<call, sid>>
soundVars == <<audio, ear, heard, waiting, ending>>
netVars == <<channels, up, drops>>
allVars == <<callVars, soundVars, netVars, toCall, notes, wire, odd, presses, beat>>

NoOffer == <<>>
Idle == [kind |-> "Idle"]
Calling(p) == [kind |-> "Calling", peer |-> p]
Ringing(p) == [kind |-> "Ringing", peer |-> p]
Active(p) == [kind |-> "Active", peer |-> p]
InCall(d) == call[d].kind # "Idle"
InCallWith(d, p) == InCall(d) /\ call[d].peer = p

Incidents == {"engaged", "declined", "late", "lost"}
Note(incident, happened) == odd' = IF happened THEN odd \cup {incident} ELSE odd

CallInit ==
  /\ call = [d \in Caller |-> Idle] /\ sid = [d \in Caller |-> NoOffer]
  /\ audio = [d \in Caller |-> Nobody]
  /\ ear = [d \in Caller |-> FALSE] /\ heard = [d \in Caller |-> FALSE]
  /\ waiting = [d \in Caller |-> [p \in Caller |-> 0]]
  /\ ending = [d \in Caller |-> [p \in Caller |-> 0]]
  /\ channels = [d \in Caller |-> Caller \ {d}]
  /\ up = {{d, p} : d, p \in Caller} \ {{d} : d \in Caller}
  /\ toCall = [d \in Caller |-> {}] /\ notes = [d \in Caller |-> {}]
  /\ wire = [d \in Caller |-> [p \in Caller |-> <<>>]]
  /\ odd = {} /\ presses = 0 /\ drops = 0 /\ beat = FALSE

(***************************************************************************)
(* Sessions and messages                                                   *)
(***************************************************************************)
\* Drop: the streams stop, the receiving half stays
DropSession(d) ==
  waiting' = IF ear[d] THEN [waiting EXCEPT ![d][audio[d]] = @ + 1] ELSE waiting

StartSession(d, p) ==
  /\ audio' = [audio EXCEPT ![d] = p]
  /\ ear' = [ear EXCEPT ![d] = {d, p} \in up]
  /\ heard' = [heard EXCEPT ![d] = FALSE]
  /\ DropSession(d)
  /\ UNCHANGED ending

EndSessionRunning(d) ==
  /\ audio' = [audio EXCEPT ![d] = Nobody]
  /\ UNCHANGED <<ear, heard, waiting, ending>>

EndSession(d) ==
  /\ audio' = [audio EXCEPT ![d] = Nobody]
  /\ ear' = [ear EXCEPT ![d] = FALSE]
  /\ heard' = [heard EXCEPT ![d] = FALSE]
  /\ DropSession(d)
  /\ UNCHANGED ending

Message(type, id) == [type |-> type, id |-> id]
Sent(d, p, message) ==
  IF {d, p} \in up THEN [wire EXCEPT ![d][p] = Append(@, message)] ELSE wire

SetCall(d, state, id) ==
  /\ call' = [call EXCEPT ![d] = state]
  /\ sid' = [sid EXCEPT ![d] = id]

(***************************************************************************)
(* What users press                                                        *)
(***************************************************************************)
Press == presses < MaxPresses /\ presses' = presses + 1

\* The call button of a peer's page, and the voice room of a reading: one
\* CallStargazer for every editor who is present and connected
StartAudioWith(d, present) ==
  /\ Press
  /\ present # {}
  /\ toCall' = [toCall EXCEPT ![d] = @ \cup present]
  /\ UNCHANGED <<callVars, soundVars, netVars, notes, wire, odd>>

\* The offer gets a new session id; presses counts up, so it is one
CallStargazer(d, p) ==
  /\ p \in toCall[d]
  /\ toCall' = [toCall EXCEPT ![d] = @ \ {p}]
  /\ IF p \in channels[d]
     THEN LET id == <<d, p, presses>>
          IN /\ StartSession(d, p)
             /\ wire' = Sent(d, p, Message("offer", id))
             /\ SetCall(d, Calling(p), id)
             /\ Note("engaged", InCall(d))
     ELSE UNCHANGED <<callVars, soundVars, wire, odd>>
  /\ UNCHANGED <<netVars, notes, presses>>

\* The accept button of the call bar or of a notification
AcceptCall(d) ==
  /\ Press
  /\ call[d].kind = "Ringing"
  /\ LET p == call[d].peer
     IN /\ notes' = [notes EXCEPT ![d] = @ \ {p}]
        /\ IF p \in channels[d]
           THEN /\ StartSession(d, p)
                /\ wire' = Sent(d, p, Message("accept", sid[d]))
                /\ SetCall(d, Active(p), sid[d])
           ELSE UNCHANGED <<callVars, soundVars, wire>>
  /\ UNCHANGED <<netVars, toCall, odd>>

\* The decline button of notification q, which acts on whoever rings now and
\* sets the state to Idle also when nobody does
RejectCall(d, q) ==
  /\ Press
  /\ q \in notes[d]
  /\ IF call[d].kind = "Ringing"
     THEN LET p == call[d].peer
          IN /\ notes' = [notes EXCEPT ![d] = @ \ {p, q}]
             /\ wire' = IF p \in channels[d]
                        THEN Sent(d, p, Message("reject", sid[d])) ELSE wire
     ELSE notes' = [notes EXCEPT ![d] = @ \ {q}] /\ UNCHANGED wire
  /\ SetCall(d, Idle, NoOffer)
  /\ Note("declined", InCall(d) /\ call[d].kind # "Ringing")
  /\ UNCHANGED <<soundVars, netVars, toCall>>

\* The call bar is there while the state is not Idle
HangUp(d) ==
  /\ Press
  /\ InCall(d)
  /\ LET p == call[d].peer
     IN wire' = IF p \in channels[d] THEN Sent(d, p, Message("hangup", sid[d])) ELSE wire
  /\ EndSession(d)
  /\ SetCall(d, Idle, NoOffer)
  /\ UNCHANGED <<netVars, toCall, notes, odd>>

(***************************************************************************)
(* What the network tells; no handler looks at the session id              *)
(***************************************************************************)
CallOffer(d, p, id) ==
  /\ notes' = [notes EXCEPT ![d] = @ \cup {p}]
  /\ SetCall(d, Ringing(p), id)
  /\ Note("engaged", InCall(d))
  /\ UNCHANGED soundVars

CallAccepted(d, p, id) ==
  /\ SetCall(d, Active(p), id)
  /\ Note("late", id # sid[d])
  /\ UNCHANGED <<soundVars, notes>>

Over(d, id) ==
  /\ notes' = IF InCall(d) THEN [notes EXCEPT ![d] = @ \ {call[d].peer}] ELSE notes
  /\ EndSession(d)
  /\ SetCall(d, Idle, NoOffer)
  /\ Note("late", InCall(d) /\ id # sid[d])

OverKeepingSound(d, id) ==
  /\ notes' = IF InCall(d) THEN [notes EXCEPT ![d] = @ \ {call[d].peer}] ELSE notes
  /\ SetCall(d, Idle, NoOffer)
  /\ Note("late", InCall(d) /\ id # sid[d])
  /\ UNCHANGED soundVars

CallRejected(d, id) == Over(d, id)
CallHungUp(d, id) == Over(d, id)

\* Neither the call nor the session ends with the channel
PeerChannelClosed(d, p) ==
  /\ channels' = [channels EXCEPT ![d] = @ \ {p}]
  /\ UNCHANGED <<callVars, soundVars, notes, odd>>

NetEvent(d, p) ==
  /\ wire[p][d] # <<>>
  /\ wire' = [wire EXCEPT ![p][d] = Tail(@)]
  /\ LET m == Head(wire[p][d])
     IN \/ m.type = "offer" /\ CallOffer(d, p, m.id) /\ UNCHANGED channels
        \/ m.type = "accept" /\ CallAccepted(d, p, m.id) /\ UNCHANGED channels
        \/ m.type = "reject" /\ CallRejected(d, m.id) /\ UNCHANGED channels
        \/ m.type = "hangup" /\ CallHungUp(d, m.id) /\ UNCHANGED channels
        \/ m.type = "closed" /\ PeerChannelClosed(d, p)
  /\ UNCHANGED <<up, drops, toCall, presses>>

\* A connection is lost: what was not read yet is lost with it, and every
\* receiving half that reads from it ends.
DropConnection(d, p) ==
  /\ drops < MaxDrops /\ {d, p} \in up
  /\ drops' = drops + 1
  /\ up' = up \ {{d, p}}
  /\ \E k \in 0 .. Len(wire[d][p]), n \in 0 .. Len(wire[p][d]) :
       wire' = [wire EXCEPT
         ![d][p] = Append(SubSeq(@, 1, k), Message("closed", NoOffer)),
         ![p][d] = Append(SubSeq(@, 1, n), Message("closed", NoOffer))]
  /\ ear' = [x \in Caller |-> ear[x] /\ {x, audio[x]} # {d, p}]
  /\ waiting' = [waiting EXCEPT ![d][p] = 0, ![p][d] = 0]
  /\ ending' = [ending EXCEPT ![d][p] = 0, ![p][d] = 0]
  /\ Note("lost", TRUE)
  /\ UNCHANGED <<callVars, audio, heard, channels, toCall, notes, presses>>

\* The peer list connects again (module Stargazer)
Reconnected(d, p) ==
  /\ d # p /\ {d, p} \notin up
  /\ wire[d][p] = <<>> /\ wire[p][d] = <<>>
  /\ up' = up \cup {{d, p}}
  /\ channels' = [channels EXCEPT ![d] = @ \cup {p}, ![p] = @ \cup {d}]
  /\ UNCHANGED <<callVars, soundVars, drops, toCall, notes, wire, odd, presses>>

(***************************************************************************)
(* Sound: a datagram goes to one of the receiving halves that wait for one *)
(***************************************************************************)
Speaking(p, d) == audio[p] = d /\ p \in WithMicrophone /\ {d, p} \in up

LiveTakes(d, p) ==
  /\ audio[d] = p /\ ear[d]
  /\ heard' = [heard EXCEPT ![d] = TRUE]
  /\ UNCHANGED <<audio, ear, waiting, ending>>

\* The decoder wakes up, decodes into a buffer nobody plays, and sees the flag
WaitingTakes(d, p) ==
  /\ waiting[d][p] > 0
  /\ waiting' = [waiting EXCEPT ![d][p] = @ - 1]
  /\ ending' = [ending EXCEPT ![d][p] = @ + 1]
  /\ UNCHANGED <<audio, ear, heard>>

EndingRetries(d, p) ==
  /\ ending[d][p] > 0
  /\ UNCHANGED soundVars

\* The task cannot hand the datagram on, and ends
EndingTakes(d, p) ==
  /\ ending[d][p] > 0
  /\ ending' = [ending EXCEPT ![d][p] = @ - 1]
  /\ UNCHANGED <<audio, ear, heard, waiting>>

Datagram(d, p) ==
  /\ Speaking(p, d)
  /\ LiveTakes(d, p) \/ WaitingTakes(d, p) \/ EndingTakes(d, p)
  /\ beat' = ~beat
  /\ UNCHANGED <<callVars, netVars, toCall, notes, wire, odd, presses>>

CallNext ==
  \/ \E d \in Caller :
       \/ /\ \/ \E present \in SUBSET (Caller \ {d}) : StartAudioWith(d, present)
             \/ AcceptCall(d) \/ HangUp(d)
             \/ \E p \in Caller :
                  \/ CallStargazer(d, p) \/ RejectCall(d, p) \/ NetEvent(d, p)
                  \/ DropConnection(d, p) \/ Reconnected(d, p)
          /\ UNCHANGED beat
       \/ \E p \in Caller : Datagram(d, p)

\* A microphone keeps sending, and the network delivers, to whichever half waits
CallFairness == \A d, p \in Caller : WF_allVars(Datagram(d, p))

CallSpec == CallInit /\ [][CallNext]_allVars /\ CallFairness

(***************************************************************************)
(* Properties                                                              *)
(***************************************************************************)
CallTypeOK ==
  /\ \A d \in Caller :
       /\ call[d] \in {Idle} \cup {Calling(p) : p \in Caller \ {d}}
                      \cup {Ringing(p) : p \in Caller \ {d}} \cup {Active(p) : p \in Caller \ {d}}
       /\ audio[d] \in (Caller \ {d}) \cup {Nobody}
       /\ channels[d] \subseteq Caller \ {d}
       /\ toCall[d] \subseteq Caller \ {d} /\ notes[d] \subseteq Caller \ {d}
       /\ ear[d] => audio[d] # Nobody
       /\ heard[d] => audio[d] # Nobody
  /\ waiting \in [Caller -> [Caller -> Nat]] /\ ending \in [Caller -> [Caller -> Nat]]
  /\ odd \subseteq Incidents
  /\ presses \in 0 .. MaxPresses /\ drops \in 0 .. MaxDrops

Quiet(d) == toCall[d] = {} /\ \A p \in Caller : wire[d][p] = <<>> /\ wire[p][d] = <<>>

\* When everything sent was handled, the two ends of a call are in matching states, and
\* exactly the devices whose bar shows an outgoing or running call have a session, with
\* that peer.  Four things can break it, and nothing else: a call that meets a device
\* already in one, a stale decline button, an answer to another offer (nobody compares
\* session ids) and a lost connection (app.rs:1134-1260, 2274-2302).
QuietCallsAgree ==
  odd = {} /\ (\A d \in Caller : Quiet(d)) =>
    \A d \in Caller :
      /\ audio[d] # Nobody <=> call[d].kind \in {"Calling", "Active"}
      /\ audio[d] # Nobody => audio[d] = call[d].peer
      /\ InCall(d) =>
           LET p == call[d].peer
           IN /\ InCallWith(p, d) /\ sid[p] = sid[d]
              /\ <<call[d].kind, call[p].kind>> \in
                   {<<"Calling", "Ringing">>, <<"Ringing", "Calling">>, <<"Active", "Active">>}

\* A running session with a peer who speaks is heard, whatever earlier sessions left
\* behind on the connection: each of those takes two datagrams at most and ends
\* (transport.rs:111-129, 148-170).
NewCallIsHeard ==
  \A d, p \in Caller :
    ear[d] /\ audio[d] = p /\ Speaking(p, d) ~> heard[d] \/ ~(audio[d] = p /\ Speaking(p, d))
=============================================================================
