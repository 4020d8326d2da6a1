--------------------------- MODULE MCLockFreeQueue ---------------------------
(* Instances of LockFreeQueue for TLC. *)
EXTENDS LockFreeQueue, TLC

\* Which thread does what, and which task it is, makes no difference to the queue.
Symmetry == Permutations(Threads) \cup Permutations(Tasks)
=============================================================================
