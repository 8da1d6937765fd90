------------------------------- MODULE Circle -------------------------------
(***************************************************************************)
(* One private circle (circles/src/lib.rs, the circle half of              *)
(* sync/src/lib.rs, the circle commands of sdk/src/lib.rs and app.rs).     *)
(*                                                                         *)
(* Every change of a circle is signed and appended to the author's log 0   *)
(* first, the same log legacy operations use; then the group state and the *)
(* space state that p2panda-spaces returned are written in a transaction   *)
(* each; then the operation is associated with the circle's topic and      *)
(* broadcast.  A receiver's forwarder task, one per open topic, persists   *)
(* an operation, processes it and writes the two states the same way.      *)
(* Nothing keeps two of these tasks of a device apart.                     *)
(*                                                                         *)
(* p2panda-spaces is a library: Fails, MembersAfter and Readable say what  *)
(* this code relies on.  The two messages of a membership change follow    *)
(* each other in the log and are one operation here; the global topic and  *)
(* the directory topic are both always open and are one topic.             *)
(***************************************************************************)
EXTENDS Naturals, FiniteSets

CONSTANTS
  Device,      \* the devices; each is one author
  Owner,       \* the device that creates the circle
  Guest,       \* the devices the owner may invite
  Nothing,     \* the task is idle
  MaxSeq,      \* bound: operations in each device's log
  MaxFaults    \* bound: restarts and failed follow-ups, together

Always == "always"     \* the global topic and the key bundle directory
Shared == "circle"     \* the circle's own topic
Topic == {Always, Shared}
Command == "command"   \* the SDK loop, which runs one command at a time
Task == Topic \cup {Command}

Membership == {"create", "add", "remove"}
Kind == Membership \cup {"bundle", "share", "invite", "join"}
\* who: the member a change or an invite is about; to: who a share is
\* encrypted for.
Op == [author : Device, seq : Nat, kind : Kind, who : Device, to : SUBSET Device]
\* What a task holds: the operation, what it does next, and the two states it
\* computed and has yet to write.
Hand == [op : Op, at : {"process", "groups", "space", "send", "share", "notify"},
         groups : SUBSET Device, spaces : SUBSET Device]

ASSUME CircleAssumption ==
  /\ Owner \in Device
  /\ Guest \subseteq Device \ {Owner}
  /\ Nothing \notin Hand
  /\ MaxSeq \in [Device -> Nat]
  /\ MaxFaults \in Nat

VARIABLES
  store,     \* operations_v1: log 0 of every author
  assoc,     \* topics_v1: pairs of a topic and an author whose log it offers
  open,      \* ZodiaSyncNode::handles: the topics the device listens to
  bundles,   \* key registry: authors whose key bundle was processed
  groups,    \* groups_v1: members according to the group state
  spaces,    \* spaces_v1: members according to the space state
  task,      \* what the forwarder tasks and the SDK loop are working on
  invited,   \* the device shows an invite toast
  circles,   \* circles.tsv: the device lists the circle
  surfaced,  \* shares that reached the application in the clear
  torn,      \* history: two changes overlapped or a restart cut one short
  faults     \* restarts and failed follow-ups so far

durable == <<store, assoc, bundles, groups, spaces, circles>>
vars == <<durable, open, task, invited, surfaced, torn, faults>>

Seqs(d, a) == {op.seq : op \in {o \in store[d] : o.author = a}}
Tip(d, a) ==
  IF Seqs(d, a) = {} THEN 0
  ELSE CHOOSE n \in Seqs(d, a) : \A m \in Seqs(d, a) : m <= n

\* ZodiaForge::forge and publish_bytes: the next entry of the device's log 0.
Forged(d, n, kind, who, to) ==
  [author |-> d, seq |-> n, kind |-> kind, who |-> who, to |-> to]
Room(d, n) == Tip(d, d) + n <= MaxSeq[d]
\* Mutant of NextOp: the number of the latest entry is used again.
LatestOp(d, kind, who, to) == Forged(d, Tip(d, d), kind, who, to)
NextOp(d, kind, who, to) == Forged(d, Tip(d, d) + 1, kind, who, to)

Busy(d, k) == task[d][k] # Nothing
Idle(d) == \A k \in Task : ~Busy(d, k)
\* Task k of d starts a change: h is what it holds now.
Start(d, k, h) ==
  /\ task' = [task EXCEPT ![d][k] = h]
  /\ torn' = [torn EXCEPT ![d] = @ \/ \E j \in Task \ {k} : Busy(d, j)]
GoOn(d, k, at) == task' = [task EXCEPT ![d][k].at = at]
Finish(d, k) == task' = [task EXCEPT ![d][k] = Nothing]

(***************************************************************************)
(* spawn: the always-open topics are opened and the device's key bundle is *)
(* signed, associated with the directory topic and broadcast.              *)
(***************************************************************************)
Bundle(d, n) == Forged(d, n, "bundle", d, {})
SpawnAssociates(d) == {<<Always, d>>}

Init ==
  /\ store = [d \in Device |-> {Bundle(d, 1)}]
  /\ assoc = [d \in Device |-> SpawnAssociates(d)]
  /\ open = [d \in Device |-> {Always}]
  /\ bundles = [d \in Device |-> {d}]
  /\ groups = [d \in Device |-> {}]
  /\ spaces = [d \in Device |-> {}]
  /\ task = [d \in Device |-> [k \in Task |-> Nothing]]
  /\ invited = [d \in Device |-> FALSE]
  /\ circles = [d \in Device |-> FALSE]
  /\ surfaced = [d \in Device |-> {}]
  /\ torn = [d \in Device |-> FALSE]
  /\ faults = 0

Restart(d) ==
  /\ faults < MaxFaults
  /\ Room(d, 1)
  /\ faults' = faults + 1
  /\ store' = [store EXCEPT ![d] = @ \cup {Bundle(d, Tip(d, d) + 1)}]
  /\ assoc' = [assoc EXCEPT ![d] = @ \cup SpawnAssociates(d)]
  /\ open' = [open EXCEPT ![d] = {Always}]
  /\ task' = [task EXCEPT ![d] = [k \in Task |-> Nothing]]
  /\ torn' = [torn EXCEPT ![d] = @ \/ ~Idle(d)]
  /\ invited' = [invited EXCEPT ![d] = FALSE]
  /\ UNCHANGED <<bundles, groups, spaces, circles, surfaced>>

-----------------------------------------------------------------------------
(***************************************************************************)
(* What the library computes.  An operation about a circle the device does *)
(* not know is an error, and so is being added by an author whose key      *)
(* bundle was not processed.  The members of an unknown circle are {}.     *)
(***************************************************************************)
Fails(d, op) ==
  \/ op.kind \in {"add", "remove", "share"} /\ spaces[d] = {}
  \/ op.kind = "add" /\ op.who = d /\ op.author \notin bundles[d]
MembersAfter(members, kind, who) ==
  CASE kind = "create" -> {who}
    [] kind = "add"    -> members \cup {who}
    [] kind = "remove" -> members \ {who}
    [] OTHER           -> members
Readable(d, op) == op.kind = "share" /\ d \in op.to \cap spaces[d]

\* A command forges its operation; the library read the stored states.
Forge(d, kind, who, to, at) ==
  LET op == NextOp(d, kind, who, to)
  IN  /\ Room(d, 1)
      /\ store' = [store EXCEPT ![d] = @ \cup {op}]
      /\ open' = [open EXCEPT ![d] = @ \cup {Shared}]
      /\ Start(d, Command, [op |-> op, at |-> at,
                            groups |-> MembersAfter(groups[d], kind, who),
                            spaces |-> MembersAfter(spaces[d], kind, who)])
      /\ UNCHANGED <<assoc, bundles, groups, spaces, circles, invited, surfaced,
                     faults>>

\* AppMsg::CreateCircleAndShare; the ids of circles differ, so once here.
CreateCircle(d) ==
  /\ d = Owner
  /\ ~Busy(d, Command)
  /\ \A op \in store[d] : op.kind # "create"
  /\ Forge(d, "create", d, {}, "groups")

\* AppMsg::InviteToCircle: the member's key bundle has to be known, and a
\* member cannot be added again.
InviteToCircle(d, m) ==
  /\ d = Owner
  /\ ~Busy(d, Command)
  /\ d \in groups[d] \cap spaces[d]
  /\ m \in (Guest \cap bundles[d]) \ groups[d]
  /\ Forge(d, "add", m, {}, "groups")

\* AppMsg::RevokeFromCircle by the owner; AppMsg::LeaveCircle by a member.
RevokeFromCircle(d, m) ==
  /\ ~Busy(d, Command)
  /\ spaces[d] # {}
  /\ {d, m} \subseteq groups[d]
  /\ IF d = Owner THEN m # d ELSE m = d /\ circles[d]
  /\ Forge(d, "remove", m, {}, "groups")

\* The circle leaves circles.tsv also when the revoke fails.
LeaveWithoutRevoke(d) ==
  /\ circles[d]
  /\ ~Busy(d, Command)
  /\ spaces[d] = {} \/ d \notin groups[d]
  /\ circles' = [circles EXCEPT ![d] = FALSE]
  /\ UNCHANGED <<store, assoc, bundles, groups, spaces, open, task, invited,
                 surfaced, torn, faults>>

\* AppMsg::ShareInterpToExistingCircle, or the end of CreateCircleAndShare.
ShareToCircle(d) ==
  /\ IF Busy(d, Command) THEN task[d][Command].at = "share" ELSE circles[d]
  /\ d \in spaces[d]
  /\ Forge(d, "share", d, spaces[d], "space")

\* persist_groups_state, by a command or a forwarder task.
PersistGroupsState(d, k) ==
  /\ Busy(d, k)
  /\ task[d][k].at = "groups"
  /\ groups' = [groups EXCEPT ![d] = task[d][k].groups]
  /\ GoOn(d, k, "space")
  /\ UNCHANGED <<store, assoc, bundles, spaces, circles, open, invited,
                 surfaced, torn, faults>>

\* Mutant of SpaceWritten: the space state of a removal is not written.
SpaceWrittenUnlessRemoved(d, h) ==
  IF h.op.kind = "remove" THEN spaces[d] ELSE h.spaces
SpaceWritten(d, h) == h.spaces
\* persist_space_state.
PersistSpaceState(d, k) ==
  /\ Busy(d, k)
  /\ task[d][k].at = "space"
  /\ spaces' = [spaces EXCEPT ![d] = SpaceWritten(d, task[d][k])]
  /\ IF k = Command THEN GoOn(d, k, "send") ELSE Finish(d, k)
  /\ UNCHANGED <<store, assoc, bundles, groups, circles, open, invited,
                 surfaced, torn, faults>>

(***************************************************************************)
(* broadcast_circle_op, and what the handler in app.rs does with the       *)
(* result: list a new circle and share to it, tell the invited device,     *)
(* forget a circle this device left.                                       *)
(***************************************************************************)
BroadcastCircleOp(d) ==
  /\ Busy(d, Command)
  /\ task[d][Command].at = "send"
  /\ assoc' = [assoc EXCEPT ![d] = @ \cup {<<Shared, d>>}]
  /\ LET op == task[d][Command].op IN
       /\ circles' = [circles EXCEPT
                        ![d] = CASE op.kind = "create" -> TRUE
                                 [] op.kind = "remove" /\ op.who = d -> FALSE
                                 [] OTHER -> @]
       /\ CASE op.kind = "create" -> GoOn(d, Command, "share")
            [] op.kind = "add"    -> GoOn(d, Command, "notify")
            [] OTHER              -> Finish(d, Command)
  /\ UNCHANGED <<store, bundles, groups, spaces, open, invited, surfaced, torn,
                 faults>>

\* publish of a legacy operation on log 0 and the global topic.
Publish(d, kind, who) ==
  /\ Room(d, 1)
  /\ store' = [store EXCEPT ![d] = @ \cup {NextOp(d, kind, who, {})}]
  /\ assoc' = [assoc EXCEPT ![d] = @ \cup {<<Always, d>>}]

\* notify_circle_invite.
NotifyCircleInvite(d) ==
  /\ Busy(d, Command)
  /\ task[d][Command].at = "notify"
  /\ Publish(d, "invite", task[d][Command].op.who)
  /\ Finish(d, Command)
  /\ UNCHANGED <<bundles, groups, spaces, circles, open, invited, surfaced,
                 torn, faults>>

\* The first share of a new circle, or the notice of an invite, fails with a
\* store or stream error: the handler warns and is done.
FollowUpFails(d) ==
  /\ Busy(d, Command)
  /\ task[d][Command].at \in {"share", "notify"}
  /\ faults < MaxFaults
  /\ faults' = faults + 1
  /\ Finish(d, Command)
  /\ UNCHANGED <<durable, open, invited, surfaced, torn>>

\* AppMsg::JoinCircle: open_circle, then notify_circle_join.
JoinCircle(d) ==
  /\ invited[d]
  /\ ~Busy(d, Command)
  /\ Publish(d, "join", d)
  /\ open' = [open EXCEPT ![d] = @ \cup {Shared}]
  /\ invited' = [invited EXCEPT ![d] = FALSE]
  /\ UNCHANGED <<bundles, groups, spaces, circles, task, surfaced, torn,
                 faults>>

\* AppMsg::NameJoinedCircle: the naming dialog, which may be dismissed.
NameJoinedCircle(d) ==
  /\ ~circles[d]
  /\ Shared \in open[d]
  /\ \E op \in store[d] : op.author = d /\ op.kind = "join"
  /\ circles' = [circles EXCEPT ![d] = TRUE]
  /\ UNCHANGED <<store, assoc, bundles, groups, spaces, open, task, invited,
                 surfaced, torn, faults>>

-----------------------------------------------------------------------------
\* Mutant of Offers: circle operations have a log of their own, which only the
\* circle's topic offers.
OffersSeparately(e, t, op) ==
  <<t, op.author>> \in assoc[e] /\ (op.kind \in Membership => t = Shared)
\* A topic offers the whole log 0 of every author associated with it.
Offers(e, t, op) == <<t, op.author>> \in assoc[e]

(***************************************************************************)
(* A catch-up session or a live broadcast hands the next operation of a    *)
(* log to the forwarder of topic t, which persists and associates it.      *)
(***************************************************************************)
Receive(d, e, t) ==
  /\ d # e
  /\ t \in open[d] \cap open[e]
  /\ ~Busy(d, t)
  /\ \E op \in store[e] :
       /\ op.author # d
       /\ Offers(e, t, op)
       /\ op.seq = Tip(d, op.author) + 1
       /\ store' = [store EXCEPT ![d] = @ \cup {op}]
       /\ assoc' = [assoc EXCEPT ![d] = @ \cup {<<t, op.author>>}]
       /\ Start(d, t, [op |-> op, at |-> "process", groups |-> {}, spaces |-> {}])
  /\ UNCHANGED <<bundles, groups, spaces, circles, open, invited, surfaced,
                 faults>>

\* Mutant of Reports: a share is reported to the application only on the
\* circle's own topic.
ReportsOnSharedOnly(d, t, op) == t = Shared /\ Readable(d, op)
Reports(d, t, op) == Readable(d, op)

(***************************************************************************)
(* process_and_persist up to its first write; an error is logged and the   *)
(* operation, already persisted, is never processed again.  A legacy       *)
(* operation goes to the application, which shows an invite to its target. *)
(***************************************************************************)
Process(d, t) ==
  /\ Busy(d, t)
  /\ task[d][t].at = "process"
  /\ LET op == task[d][t].op IN
       /\ IF op.kind \in Membership /\ ~Fails(d, op)
          THEN task' = [task EXCEPT
                 ![d][t].at = "groups",
                 ![d][t].groups = MembersAfter(groups[d], op.kind, op.who),
                 ![d][t].spaces = MembersAfter(spaces[d], op.kind, op.who)]
          ELSE Finish(d, t)
       /\ bundles' = IF op.kind = "bundle"
                     THEN [bundles EXCEPT ![d] = @ \cup {op.author}] ELSE bundles
       /\ surfaced' = IF ~Fails(d, op) /\ Reports(d, t, op)
                      THEN [surfaced EXCEPT ![d] = @ \cup {op}] ELSE surfaced
       /\ invited' = IF op.kind = "invite" /\ op.who = d
                     THEN [invited EXCEPT ![d] = TRUE] ELSE invited
  /\ UNCHANGED <<store, assoc, groups, spaces, circles, open, torn, faults>>

Next ==
  \E d \in Device :
    \/ CreateCircle(d)
    \/ \E m \in Device : InviteToCircle(d, m) \/ RevokeFromCircle(d, m)
    \/ LeaveWithoutRevoke(d)
    \/ ShareToCircle(d)
    \/ \E k \in Task : PersistGroupsState(d, k) \/ PersistSpaceState(d, k)
    \/ BroadcastCircleOp(d)
    \/ NotifyCircleInvite(d)
    \/ FollowUpFails(d)
    \/ JoinCircle(d)
    \/ NameJoinedCircle(d)
    \/ \E e \in Device, t \in Topic : Receive(d, e, t)
    \/ \E t \in Topic : Process(d, t)
    \/ Restart(d)

(***************************************************************************)
(* The forwarder tasks of a guest keep running, and it keeps meeting the   *)
(* owner on the always-open topic.  Nobody has to join, share or restart.  *)
(***************************************************************************)
ForwarderStep(d) ==
  \E t \in Topic :
    Process(d, t) \/ PersistGroupsState(d, t) \/ PersistSpaceState(d, t)
Fairness ==
  \A d \in Guest : /\ SF_vars(Receive(d, Owner, Always))
                   /\ WF_vars(ForwarderStep(d))

Spec == Init /\ [][Next]_vars /\ Fairness

-----------------------------------------------------------------------------
\* A stored log has one operation for each number.
TypeOK ==
  /\ store \in [Device -> SUBSET Op]
  /\ \A d \in Device : \A p, q \in store[d] :
       p.author = q.author /\ p.seq = q.seq => p = q
  /\ assoc \in [Device -> SUBSET (Topic \X Device)]
  /\ open \in [Device -> SUBSET Topic]
  /\ bundles \in [Device -> SUBSET Device]
  /\ groups \in [Device -> SUBSET Device]
  /\ spaces \in [Device -> SUBSET Device]
  /\ task \in [Device -> [Task -> Hand \cup {Nothing}]]
  /\ invited \in [Device -> BOOLEAN]
  /\ circles \in [Device -> BOOLEAN]
  /\ surfaced \in [Device -> SUBSET Op]
  /\ torn \in [Device -> BOOLEAN]
  /\ faults \in 0 .. MaxFaults

(***************************************************************************)
(* A revoked member reads nothing published after its revocation: between  *)
(* a removal in the sharer's log and a later share the member did read,    *)
(* the sharer has added it again.  Overlapping changes of the sharer and a *)
(* restart in the middle of one can undo the removal, hence torn.          *)
(***************************************************************************)
RevokedReadsNothing ==
  \A d \in Device : \A s \in surfaced[d] : \A r \in store[s.author] :
    /\ ~torn[s.author]
    /\ r.author = s.author /\ r.kind = "remove" /\ r.who = d /\ r.seq < s.seq
    => \E a \in store[s.author] :
         a.author = s.author /\ a.kind = "add" /\ a.who = d
           /\ a.seq \in r.seq .. s.seq

\* d asked to leave, so its own state no longer follows the owner's log.
HasLeft(d) == \E op \in store[d] : op.author = d /\ op.kind = "remove"

(***************************************************************************)
(* When neither the owner nor a member had two changes overlap or cut      *)
(* short, the member has read every share of the owner it holds and was    *)
(* meant to read: the order of the log, which puts the owner's key bundle  *)
(* and the membership changes first, is enough for no operation to fail,   *)
(* although a failed one is never retried.                                 *)
(***************************************************************************)
NothingMeantForMeIsLost ==
  \A d \in Device : \A s \in store[d] :
    /\ s.kind = "share" /\ s.author = Owner /\ d \in s.to \ {Owner}
    /\ ~torn[d] /\ ~torn[Owner] /\ ~HasLeft(d)
    => \/ s \in surfaced[d]
       \/ \E t \in Topic : Busy(d, t) /\ task[d][t].op = s

HasReadAll(d) ==
  \A s \in store[Owner] :
    s.kind = "share" /\ s.author = Owner /\ d \in s.to \ {Owner}
      => s \in surfaced[d]

(***************************************************************************)
(* What the owner shares reaches a member even when the member never opens *)
(* the circle's topic or has lost it in a restart: circle operations are   *)
(* in the log that the directory topic offers as a whole.                  *)
(***************************************************************************)
SharesArrive ==
  \A d \in Guest : []<>(HasReadAll(d) \/ torn[d] \/ torn[Owner] \/ HasLeft(d))
=============================================================================
