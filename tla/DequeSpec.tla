----------------------------- MODULE DequeSpec -----------------------------
(***************************************************************************)
(* What the deques of the runtime promise the program on top of them, with *)
(* every operation in one step.  A frame that a worker pushes is taken     *)
(* once, by its own pop or by a thief.  A deque is used by one worker at a *)
(* time; a worker gives it up when it waits for a future, and some worker  *)
(* gets it back once, after that future is complete.  DequePool, with its  *)
(* locks, pools and the THE protocol, is shown to implement this.          *)
(***************************************************************************)
EXTENDS Naturals

CONSTANTS Workers, Deques, NULL

VARIABLES uses,     \* per worker: the deque it pushes to and pops from, or NULL
          waiting,  \* the deques that wait for a future
          ready,    \* the deques whose future is complete
          work      \* per deque: the number of frames that nobody has taken

vars == <<uses, waiting, ready, work>>

Init ==
  /\ uses \in [Workers -> Deques]
  /\ \A v, w \in Workers : uses[v] = uses[w] => v = w
  /\ waiting = {}
  /\ ready = {}
  /\ work = [d \in Deques |-> 0]

(* The program *)

Push(w) ==
  /\ uses[w] # NULL
  /\ work' = [work EXCEPT ![uses[w]] = @ + 1]
  /\ UNCHANGED <<uses, waiting, ready>>

Pop(w) ==
  /\ uses[w] # NULL /\ work[uses[w]] > 0
  /\ work' = [work EXCEPT ![uses[w]] = @ - 1]
  /\ UNCHANGED <<uses, waiting, ready>>

(* The worker waits for a future with all that is on its deque. *)
Suspend(w) ==
  /\ uses[w] # NULL
  /\ waiting' = waiting \cup {uses[w]}
  /\ uses' = [uses EXCEPT ![w] = NULL]
  /\ UNCHANGED <<ready, work>>

Complete(d) ==
  /\ d \in waiting
  /\ waiting' = waiting \ {d}
  /\ ready' = ready \cup {d}
  /\ UNCHANGED <<uses, work>>

(* The scheduler *)

(* Every deque can be stolen from, also one that waits. *)
Steal(d) ==
  /\ work[d] > 0
  /\ work' = [work EXCEPT ![d] = @ - 1]
  /\ UNCHANGED <<uses, waiting, ready>>

(* A worker gives up a deque for another only if nothing is left on it. *)
Idle(w) == uses[w] # NULL => work[uses[w]] = 0

Resume(w, d) ==
  /\ Idle(w) /\ d \in ready
  /\ ready' = ready \ {d}
  /\ uses' = [uses EXCEPT ![w] = d]
  /\ UNCHANGED <<waiting, work>>

(* A worker that waits, or rather its old deque does, gets a fresh one. *)
Renew(w, d) ==
  /\ uses[w] = NULL
  /\ d \notin waiting \cup ready /\ work[d] = 0
  /\ \A v \in Workers : uses[v] # d
  /\ uses' = [uses EXCEPT ![w] = d]
  /\ UNCHANGED <<waiting, ready, work>>

Next ==
  \/ \E w \in Workers : Push(w) \/ Pop(w) \/ Suspend(w)
  \/ \E d \in Deques : Complete(d) \/ Steal(d)
  \/ \E w \in Workers, d \in Deques : Resume(w, d) \/ Renew(w, d)

Spec == Init /\ [][Next]_vars
=============================================================================
