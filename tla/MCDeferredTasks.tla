--------------------------- MODULE MCDeferredTasks ---------------------------
(* Instances of DeferredTasks for TLC. *)
EXTENDS DeferredTasks, TLC

=============================================================================
