-------------------------- MODULE RequestLifecycle --------------------------
(***************************************************************************)
(* What the host-callback accessor promises about each request, whatever    *)
(* the threads, the registry and the queue behind it do: a request that is  *)
(* issued gets one response, answered by the host or failed, and the waiting *)
(* loader sees it once; the host is told that an answer was taken at most   *)
(* once, and only when it was.                                              *)
(***************************************************************************)
EXTENDS Naturals

CONSTANT Requests

VARIABLES phase,      \* "new", "open", or the outcome: "answered" or "failed"
          delivered,  \* requests whose loader has its response
          acks        \* completion calls that returned 1, per request

vars == <<phase, delivered, acks>>

Settled(r) == phase[r] \in {"answered", "failed"}

Init == /\ phase = [r \in Requests |-> "new"]
        /\ delivered = {}
        /\ acks = [r \in Requests |-> 0]

\* The request is handed to the transport.
Open(r) == /\ phase[r] = "new"
           /\ phase' = [phase EXCEPT ![r] = "open"]
           /\ UNCHANGED <<delivered, acks>>

\* There is no transport: the request has failed before start() returns.
Refuse(r) == /\ phase[r] = "new"
             /\ phase' = [phase EXCEPT ![r] = "failed"]
             /\ delivered' = delivered \cup {r}
             /\ UNCHANGED acks

\* The one response.
Settle(r) == /\ phase[r] = "open"
             /\ \E outcome \in {"answered", "failed"} :
                   phase' = [phase EXCEPT ![r] = outcome]
             /\ UNCHANGED <<delivered, acks>>

\* The loader sees it.
Deliver(r) == /\ Settled(r)
              /\ r \notin delivered
              /\ delivered' = delivered \cup {r}
              /\ UNCHANGED <<phase, acks>>

\* The host's call returns 1.
Acknowledge(r) == /\ phase[r] = "answered"
                  /\ acks[r] = 0
                  /\ acks' = [acks EXCEPT ![r] = 1]
                  /\ UNCHANGED <<phase, delivered>>

Next == \E r \in Requests :
           Open(r) \/ Refuse(r) \/ Settle(r) \/ Deliver(r) \/ Acknowledge(r)

SafeSpec == Init /\ [][Next]_vars

Spec == SafeSpec /\ \A r \in Requests : WF_vars(Deliver(r))

=============================================================================
