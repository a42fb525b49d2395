----------------------------- MODULE FutureSpec -----------------------------
(***************************************************************************)
(* What a future promises its users (rts/include/cilk/future.h): put makes *)
(* it ready once and for all, and a get returns only when the future is    *)
(* ready and with the reachability data that the future's task left at its *)
(* end.  The promise can be forfeited; what follows is left open.          *)
(* FutureQueue is shown to implement this.                                 *)
(***************************************************************************)
CONSTANTS Strands, Futures, NoFuture

VARIABLES ready,     \* the futures whose tasks have ended
          getting,   \* per strand: the future it waits for, or NoFuture
          merged,    \* per strand: the futures whose FOM it has received
          forfeited  \* nothing is promised any more

vars == <<ready, getting, merged, forfeited>>

Init ==
  /\ ready = {}
  /\ getting = [s \in Strands |-> NoFuture]
  /\ merged = [s \in Strands |-> {}]
  /\ forfeited = FALSE

Put(f) ==
  /\ f \in Futures \ ready
  /\ ready' = ready \cup {f}
  /\ UNCHANGED <<getting, merged, forfeited>>

Get(s, f) ==
  /\ getting[s] = NoFuture
  /\ getting' = [getting EXCEPT ![s] = f]
  /\ UNCHANGED <<ready, merged, forfeited>>

Return(s) ==
  /\ ~forfeited
  /\ getting[s] \in ready
  /\ getting' = [getting EXCEPT ![s] = NoFuture]
  /\ merged' = [merged EXCEPT ![s] = @ \cup {getting[s]}]
  /\ UNCHANGED <<ready, forfeited>>

Forfeit == forfeited'

Next ==
  \/ \E f \in Futures : Put(f)
  \/ \E s \in Strands, f \in Futures : Get(s, f)
  \/ \E s \in Strands : Return(s)
  \/ Forfeit

Safety == Init /\ [][Next]_vars

Spec == Safety /\ \A s \in Strands : WF_vars(Return(s))
=============================================================================
