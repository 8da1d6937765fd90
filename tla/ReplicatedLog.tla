--------------------------- MODULE ReplicatedLog ---------------------------
(***************************************************************************)
(* What replication promises the parts that read it: every author writes a *)
(* log of its own, every device holds a copy of a stretch of each log, and *)
(* a copy only ever grows by the entry that comes next.  Messages, stores  *)
(* and channels are gone; SyncLog is shown to implement this.              *)
(***************************************************************************)
EXTENDS Naturals, Sequences

CONSTANTS Device, Entry

VARIABLES
  log,   \* log[a]: what a has written
  copy   \* copy[d][a]: pairs of a position and the entry d holds for it

logVars == <<log, copy>>

Init ==
  /\ log = [a \in Device |-> <<>>]
  /\ copy = [d \in Device |-> [a \in Device |-> {}]]

\* The writer keeps what it wrote.
Write(a) ==
  \E x \in Entry :
    /\ log' = [log EXCEPT ![a] = Append(@, x)]
    /\ copy' = [copy EXCEPT ![a][a] = @ \cup {<<Len(log[a]) + 1, x>>}]

\* A device copies the entry after the last it holds; one that holds nothing,
\* because nothing came or all was forgotten, may begin anywhere.
Learn(d, a) ==
  /\ d # a
  /\ \E n \in DOMAIN log[a] :
       /\ \A held \in copy[d][a] : held[1] < n
       /\ copy[d][a] = {} \/ \E held \in copy[d][a] : held[1] + 1 = n
       /\ copy' = [copy EXCEPT ![d][a] = @ \cup {<<n, log[a][n]>>}]
  /\ UNCHANGED log

\* A device forgets the beginnings of logs, never of its own.
Ends(held) == {{h \in held : h[1] > n} : n \in {0} \cup {h[1] : h \in held}}
Forget(d) ==
  /\ copy' = [copy EXCEPT ![d] = [a \in Device |-> copy'[d][a]]]
  /\ \A a \in Device :
       copy'[d][a] \in IF a = d THEN {copy[d][a]} ELSE Ends(copy[d][a])
  /\ UNCHANGED log

Next ==
  \E d \in Device : Write(d) \/ Forget(d) \/ \E a \in Device : Learn(d, a)

Spec == Init /\ [][Next]_logVars
=============================================================================
