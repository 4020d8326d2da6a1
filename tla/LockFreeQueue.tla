---------------------------- MODULE LockFreeQueue ----------------------------
(***************************************************************************)
(* LockFreeQueue of src/src/cesium_async.cpp, the bounded queue between the *)
(* threads that start tasks and the workers that run them, one action per   *)
(* access to shared memory.                                                 *)
(*                                                                          *)
(* A cell's sequence says whose turn it is: the pusher of position p finds p *)
(* there, the popper of p finds p + 1.  _head and _tail are claimed by       *)
(* compare-and-swap; the task is moved in or out afterwards, and the         *)
(* sequence is stored last.  Positions are never reduced: size_t wraps after *)
(* 2^64 pushes.                                                              *)
(***************************************************************************)
EXTENDS Integers, Sequences, FiniteSets

CONSTANTS Threads,   \* the threads that push and pop
          Tasks,     \* the functions pushed, each once
          Capacity,  \* the number of cells, a power of two
          Empty      \* a moved-from std::function

\* A power of two, as the comment on the class asks; the pool's queue has 4096 cells.  With one
\* cell "filled at p" and "free for p + 1" would be the same sequence.
ASSUME CapacityAssumption ==
    Capacity \in Nat /\ Capacity >= 2 /\ \E k \in 1..Capacity : Capacity = 2^k
ASSUME EmptyAssumption == Empty \notin Tasks

VARIABLES
    head,      \* _head: the next position to push to
    tail,      \* _tail: the next position to pop from
    sequence,  \* each cell's sequence
    task,      \* each cell's task
    pc,        \* the next step of each thread
    pos,       \* tryPush and tryPop: the position the thread tries
    f,         \* the function a thread pushes, or popped
    pushed,    \* tasks handed to tryPush
    popped     \* tasks tryPop handed out

cellVars == <<head, tail, sequence, task>>
vars == <<cellVars, pc, pos, f, pushed, popped>>

Cells == 0..Capacity - 1
Cell(p) == p % Capacity   \* pos & _mask

PushPcs == {"pushSequence", "pushClaim", "pushMove", "pushPublish"}
PopPcs  == {"popSequence", "popClaim", "popMove", "popRecycle"}

TypeOK ==
    /\ head \in Nat /\ tail \in Nat
    /\ sequence \in [Cells -> Nat]
    /\ task \in [Cells -> Tasks \cup {Empty}]
    /\ pc \in [Threads -> {"idle"} \cup PushPcs \cup PopPcs]
    /\ pos \in [Threads -> Nat]
    /\ f \in [Threads -> Tasks \cup {Empty}]
    /\ pushed \subseteq Tasks
    /\ popped \subseteq Tasks

Goto(t, label) == pc' = [pc EXCEPT ![t] = label]

\* The value a relaxed load of _head or _tail may return: an older one, if the thread has not
\* synchronised with those who changed it since.
StaleLoad(t, counter) == \E p \in 0..counter : pos' = [pos EXCEPT ![t] = p]

-----------------------------------------------------------------------------
(* tryPush *)

PushLoad(t, x) ==
    /\ pc[t] = "idle"
    /\ x \notin pushed
    /\ pushed' = pushed \cup {x}
    /\ f' = [f EXCEPT ![t] = x]
    /\ StaleLoad(t, head)
    /\ Goto(t, "pushSequence")
    /\ UNCHANGED <<cellVars, popped>>

\* The acquire load of the cell's sequence, and what the difference says.
PushSequence(t) ==
    LET diff == sequence[Cell(pos[t])] - pos[t]
    IN  /\ pc[t] = "pushSequence"
        /\ \/ diff = 0 /\ Goto(t, "pushClaim") /\ UNCHANGED <<pos, f, pushed>>
           \/ diff > 0 /\ StaleLoad(t, head) /\ UNCHANGED <<pc, f, pushed>>
           \/ /\ diff < 0   \* full: returns false, the caller keeps its task
              /\ Goto(t, "idle")
              /\ pushed' = pushed \ {f[t]}
              /\ f' = [f EXCEPT ![t] = Empty]
              /\ pos' = [pos EXCEPT ![t] = 0]
        /\ UNCHANGED <<cellVars, popped>>

\* Fault: the claim is a test and a store instead of one compare-and-swap.
PushClaimBlind(t) ==
    /\ pc[t] = "pushClaim"
    /\ head' = pos[t] + 1
    /\ Goto(t, "pushMove")
    /\ UNCHANGED <<tail, sequence, task, pos, f, pushed, popped>>

\* compare_exchange_weak: it may fail for no reason, and leaves _head's value in pos.
PushClaim(t) ==
    /\ pc[t] = "pushClaim"
    /\ \/ head = pos[t] /\ head' = head + 1 /\ Goto(t, "pushMove") /\ UNCHANGED pos
       \/ /\ Goto(t, "pushSequence")
          /\ pos' = [pos EXCEPT ![t] = head]
          /\ UNCHANGED head
    /\ UNCHANGED <<tail, sequence, task, f, pushed, popped>>

\* cell.task = std::move(f)
PushMove(t) ==
    /\ pc[t] = "pushMove"
    /\ task' = [task EXCEPT ![Cell(pos[t])] = f[t]]
    /\ f' = [f EXCEPT ![t] = Empty]
    /\ Goto(t, "pushPublish")
    /\ UNCHANGED <<head, tail, sequence, pos, pushed, popped>>

PushPublish(t) ==
    /\ pc[t] = "pushPublish"
    /\ sequence' = [sequence EXCEPT ![Cell(pos[t])] = pos[t] + 1]
    /\ pos' = [pos EXCEPT ![t] = 0]
    /\ Goto(t, "idle")
    /\ UNCHANGED <<head, tail, task, f, pushed, popped>>

-----------------------------------------------------------------------------
(* tryPop *)

PopLoad(t) ==
    /\ pc[t] = "idle"
    /\ StaleLoad(t, tail)
    /\ Goto(t, "popSequence")
    /\ UNCHANGED <<cellVars, f, pushed, popped>>

PopSequence(t) ==
    LET diff == sequence[Cell(pos[t])] - (pos[t] + 1)
    IN  /\ pc[t] = "popSequence"
        /\ \/ diff = 0 /\ Goto(t, "popClaim") /\ UNCHANGED pos
           \/ diff > 0 /\ StaleLoad(t, tail) /\ UNCHANGED pc
           \/ /\ diff < 0   \* empty: returns false
              /\ Goto(t, "idle")
              /\ pos' = [pos EXCEPT ![t] = 0]
        /\ UNCHANGED <<cellVars, f, pushed, popped>>

PopClaim(t) ==
    /\ pc[t] = "popClaim"
    /\ \/ tail = pos[t] /\ tail' = tail + 1 /\ Goto(t, "popMove") /\ UNCHANGED pos
       \/ /\ Goto(t, "popSequence")
          /\ pos' = [pos EXCEPT ![t] = tail]
          /\ UNCHANGED tail
    /\ UNCHANGED <<head, sequence, task, f, pushed, popped>>

\* Fault: the task is copied out and stays in the cell.
PopMoveCopies(t) ==
    /\ pc[t] = "popMove"
    /\ f' = [f EXCEPT ![t] = task[Cell(pos[t])]]
    /\ Goto(t, "popRecycle")
    /\ UNCHANGED <<cellVars, pos, pushed, popped>>

\* f = std::move(cell.task)
PopMove(t) ==
    /\ pc[t] = "popMove"
    /\ f' = [f EXCEPT ![t] = task[Cell(pos[t])]]
    /\ task' = [task EXCEPT ![Cell(pos[t])] = Empty]
    /\ Goto(t, "popRecycle")
    /\ UNCHANGED <<head, tail, sequence, pos, pushed, popped>>

\* Fault: _mask where _mask + 1 is meant.
PopRecycleOffByOne(t) ==
    /\ pc[t] = "popRecycle"
    /\ sequence' = [sequence EXCEPT ![Cell(pos[t])] = pos[t] + Capacity - 1]
    /\ popped' = popped \cup {f[t]}
    /\ f' = [f EXCEPT ![t] = Empty]
    /\ pos' = [pos EXCEPT ![t] = 0]
    /\ Goto(t, "idle")
    /\ UNCHANGED <<head, tail, task, pushed>>

\* The cell is free for the next lap, and the caller has its task.
PopRecycle(t) ==
    /\ pc[t] = "popRecycle"
    /\ sequence' = [sequence EXCEPT ![Cell(pos[t])] = pos[t] + Capacity]
    /\ popped' = popped \cup {f[t]}
    /\ f' = [f EXCEPT ![t] = Empty]
    /\ pos' = [pos EXCEPT ![t] = 0]
    /\ Goto(t, "idle")
    /\ UNCHANGED <<head, tail, task, pushed>>

-----------------------------------------------------------------------------
Init ==
    /\ head = 0
    /\ tail = 0
    /\ sequence = [i \in Cells |-> i]
    /\ task = [i \in Cells |-> Empty]
    /\ pc = [t \in Threads |-> "idle"]
    /\ pos = [t \in Threads |-> 0]
    /\ f = [t \in Threads |-> Empty]
    /\ pushed = {}
    /\ popped = {}

Push(t) == (\E x \in Tasks : PushLoad(t, x))
           \/ PushSequence(t) \/ PushClaim(t) \/ PushMove(t) \/ PushPublish(t)
Pop(t)  == PopLoad(t) \/ PopSequence(t) \/ PopClaim(t) \/ PopMove(t) \/ PopRecycle(t)

Next == \E t \in Threads : Push(t) \/ Pop(t)

Spec == Init /\ [][Next]_vars

-----------------------------------------------------------------------------
(* Properties. *)

Pushing(t) == pc[t] \in {"pushMove", "pushPublish"}
Popping(t) == pc[t] \in {"popMove", "popRecycle"}

\* cell.task is not atomic: between its claim and its store of the sequence a thread has the
\* cell to itself, although nothing but the sequence protects it, and finds there what it came
\* for: a popper a task, not a moved-from function, a pusher no task it would overwrite.
CellsExclusive ==
    /\ \A t, u \in Threads :
          /\ Pushing(t) \/ Popping(t)
          /\ Pushing(u) \/ Popping(u)
          /\ Cell(pos[t]) = Cell(pos[u])
          => t = u
    /\ \A t \in Threads :
          /\ pc[t] = "popMove" => task[Cell(pos[t])] \in Tasks
          /\ pc[t] = "pushMove" => task[Cell(pos[t])] = Empty

\* A task is handed out at most once, and none disappears: one that was pushed is with its
\* pusher, in a cell, with its popper or has been handed out.
ExactlyOnce ==
    \A x \in pushed :
       Cardinality({t \in Threads : f[t] = x}) + Cardinality({i \in Cells : task[i] = x})
          + (IF x \in popped THEN 1 ELSE 0) = 1

\* tryPush reports a full queue only if every cell is claimed, or a task of the lap before is
\* still being moved out; tryPop reports an empty one only if nothing is claimed, or the
\* oldest claim is still being filled.  (Both can happen with other cells free or filled.)
HonestRefusal ==
    [][\A t \in Threads :
          /\ pc[t] = "pushSequence" /\ pc'[t] = "idle" =>
                head - tail = Capacity \/ \E u \in Threads : Popping(u)
          /\ pc[t] = "popSequence" /\ pc'[t] = "idle" =>
                head = tail \/ \E u \in Threads : Pushing(u) /\ pos[u] = tail]_vars

-----------------------------------------------------------------------------
(* The queue implements TaskQueue: a push takes effect at its claim of _head, *)
(* a pop at its claim of _tail.                                              *)

\* The task of a claimed position: in its cell once moved, with its pusher before.
TaskAt(p) ==
    IF \E t \in Threads : pc[t] = "pushMove" /\ pos[t] = p
    THEN f[CHOOSE t \in Threads : pc[t] = "pushMove" /\ pos[t] = p]
    ELSE task[Cell(p)]

Entry(p) == [task |-> TaskAt(p), ready |-> sequence[Cell(p)] = p + 1]

itemsBar == [i \in 1..head - tail |-> Entry(tail + i - 1)]
leavingBar == {IF pc[t] = "popMove" THEN task[Cell(pos[t])] ELSE f[t] :
                  t \in {u \in Threads : Popping(u)}}

Fifo == INSTANCE TaskQueue WITH items <- itemsBar, leaving <- leavingBar

\* Tasks come out in the order in which their pushes claimed their positions, one taker each,
\* within the capacity.
ImplementsFifo == Fifo!Spec

=============================================================================
