--------------------------- MODULE MCHostAccessor ---------------------------
(* Instances of HostAccessor for TLC. *)
EXTENDS HostAccessor, TLC

\* Every combination of callbacks a host with a transport may install.
Transports == [transport : {TRUE}, onWorker : BOOLEAN, notify : BOOLEAN]
\* The default: everything installed, beginRequest marshalled to the main thread.
Default == {[transport |-> TRUE, onWorker |-> FALSE, notify |-> TRUE]}
\* ... and a host without a transport.
AnyHost == Transports \cup {[transport |-> FALSE, onWorker |-> FALSE, notify |-> FALSE]}

\* Requests are interchangeable, and so are the threads other than Main.
Symmetry == Permutations(Requests) \cup Permutations(Threads \ {Main})
=============================================================================
