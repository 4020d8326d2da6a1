------------------------------ MODULE TaskQueue ------------------------------
(***************************************************************************)
(* What the thread pool's queue promises: a bounded FIFO.  A push first     *)
(* claims a place and later publishes its task in it; only the oldest task  *)
(* can be taken, and only once it is published; the place a task was taken  *)
(* from is free again when its taker has moved the task out.                *)
(***************************************************************************)
EXTENDS Naturals, Sequences

CONSTANTS Tasks,     \* what is pushed, each at most once
          Capacity   \* the number of places

VARIABLES items,     \* the places claimed, oldest first: [task, ready]
          leaving    \* tasks taken whose places are not free yet

vars == <<items, leaving>>

Queued == {items[i].task : i \in 1..Len(items)}

\* When a pop may report that the queue is empty.
MayBeEmpty == ~(items # <<>> /\ Head(items).ready)

Init == items = <<>> /\ leaving = {}

Claim(x) == /\ Len(items) < Capacity
            /\ items' = Append(items, [task |-> x, ready |-> FALSE])
            /\ UNCHANGED leaving

Publish(x) == /\ \E i \in 1..Len(items) :
                    /\ items[i].task = x
                    /\ ~items[i].ready
                    /\ items' = [items EXCEPT ![i].ready = TRUE]
              /\ UNCHANGED leaving

Take(x) == /\ ~MayBeEmpty
           /\ Head(items).task = x
           /\ items' = Tail(items)
           /\ leaving' = leaving \cup {x}

Recycle(x) == /\ x \in leaving
              /\ leaving' = leaving \ {x}
              /\ UNCHANGED items

Next == \E x \in Tasks :
           (x \notin Queued \cup leaving /\ Claim(x)) \/ Publish(x) \/ Take(x) \/ Recycle(x)

Spec == Init /\ [][Next]_vars

=============================================================================
