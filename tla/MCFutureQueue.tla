--------------------------- MODULE MCFutureQueue ---------------------------
(* Small instances of FutureQueue.  Deques and futures are interchangeable. *)
EXTENDS FutureQueue, TLC

QueueSymmetry == Permutations(Deques) \cup Permutations(Futures)
=============================================================================
