------------------------- MODULE LockFreeQueueProofs -------------------------
(***************************************************************************)
(* Proofs about LockFreeQueue, for any threads, tasks and capacity of two   *)
(* cells or more: the cells are exclusive, no task is lost or handed out    *)
(* twice, a refusal is honest, and every step of the queue is a step of     *)
(* TaskQueue or invisible to it.                                            *)
(***************************************************************************)
EXTENDS LockFreeQueue, SequenceTheorems, FiniteSetTheorems, TLAPS

-----------------------------------------------------------------------------
(* Remainders.  A quotient and a remainder are given names before they meet *)
(* in an equation: the solver does not take them apart otherwise.           *)

\* Division with remainder.
LEMMA DivMod ==
    ASSUME NEW n \in Nat \ {0}, NEW a \in Nat, NEW q \in Int, NEW r \in Int,
           q = a \div n, r = a % n
    PROVE  a = n * q + r /\ q >= 0 /\ r \in 0..n - 1
OBVIOUS

\* Every number is so many times n, and its remainder.
LEMMA Divide ==
    ASSUME NEW n \in Nat \ {0}, NEW a \in Nat
    PROVE  \E q \in Nat, r \in 0..n - 1 : a = n * q + r /\ a % n = r
<1> DEFINE q == a \div n
           r == a % n
<1>1. q \in Int /\ r \in Int
  OBVIOUS
<1>2. a % n = r
  OBVIOUS
<1>3. a = n * q + r /\ q >= 0 /\ r \in 0..n - 1
  <2>1. q = a \div n /\ r = a % n
    OBVIOUS
  <2> HIDE DEF q, r
  <2> QED BY <1>1, <2>1, DivMod
<1> HIDE DEF q, r
<1>4. q \in Nat
  BY <1>1, <1>3
<1> QED BY <1>2, <1>3, <1>4, Zenon

\* A positive multiple is at least its base.
LEMMA Multiple == ASSUME NEW n \in Nat \ {0}, NEW k \in Nat \ {0} PROVE n * k >= n
OBVIOUS

\* Two different multiples are a base apart.
LEMMA MultiplesApart ==
    ASSUME NEW n \in Nat \ {0}, NEW p \in Nat, NEW q \in Nat, p < q
    PROVE  n * p + n <= n * q
<1>1. q - p \in Nat \ {0}
  OBVIOUS
<1>2. n * (q - p) >= n
  BY <1>1, Multiple
<1>3. n * (q - p) = n * q - n * p
  OBVIOUS
<1>4. n * p \in Nat /\ n * q \in Nat
  OBVIOUS
<1> QED BY <1>2, <1>3, <1>4

\* The remainder is the only number below n that is a multiple of n away.
LEMMA Remainder ==
    ASSUME NEW n \in Nat \ {0}, NEW a \in Nat, NEW q \in Nat, NEW r \in 0..n - 1, a = n * q + r
    PROVE  a % n = r
<1>1. PICK p \in Nat, s \in 0..n - 1 : a = n * p + s /\ a % n = s
  BY Divide
<1>2. n * p \in Nat /\ n * q \in Nat
  OBVIOUS
<1>3. n * p + s = n * q + r
  BY <1>1
<1>4. ~(p < q)
  <2> SUFFICES ASSUME p < q PROVE FALSE
    OBVIOUS
  <2>1. n * p + n <= n * q
    BY MultiplesApart
  <2> QED BY <2>1, <1>2, <1>3
<1>5. ~(q < p)
  <2> SUFFICES ASSUME q < p PROVE FALSE
    OBVIOUS
  <2>1. n * q + n <= n * p
    BY MultiplesApart
  <2> QED BY <2>1, <1>2, <1>3
<1>6. p = q
  BY <1>4, <1>5
<1>7. s = r
  BY <1>2, <1>3, <1>6
<1> QED BY <1>1, <1>7, Zenon

\* Two numbers of one remainder are a whole lap apart.
LEMMA SameRemainder ==
    ASSUME NEW n \in Nat \ {0}, NEW a \in Nat, NEW b \in Nat, a % n = b % n, a < b
    PROVE  a + n <= b
<1>1. PICK p \in Nat, r \in 0..n - 1 : a = n * p + r /\ a % n = r
  BY Divide
<1>2. PICK q \in Nat, s \in 0..n - 1 : b = n * q + s /\ b % n = s
  BY Divide
<1>3. r = s
  BY <1>1, <1>2, Zenon
<1>4. n * p \in Nat /\ n * q \in Nat
  OBVIOUS
<1>5. n * p + r < n * q + r
  BY <1>1, <1>2, <1>3
<1>6. p < q
  <2> SUFFICES ASSUME ~(p < q) PROVE FALSE
    OBVIOUS
  <2>1. CASE p = q
    BY <2>1, <1>5, <1>4
  <2>2. CASE q < p
    <3>1. n * q + n <= n * p
      BY <2>2, MultiplesApart
    <3> QED BY <3>1, <1>5, <1>4
  <2> QED BY <2>1, <2>2
<1>7. n * p + n <= n * q
  BY <1>6, MultiplesApart
<1>8. n * p + r + n <= n * q + r
  BY <1>7, <1>4
<1>9. a = n * p + r /\ b = n * q + r
  BY <1>1, <1>2, <1>3, Zenon
<1> QED BY <1>8, <1>9

\* A lap further, the remainder is the same.
LEMMA NextLap == ASSUME NEW n \in Nat \ {0}, NEW a \in Nat PROVE (a + n) % n = a % n
<1>1. PICK q \in Nat, r \in 0..n - 1 : a = n * q + r /\ a % n = r
  BY Divide
<1>2. a = n * q + r
  BY <1>1
<1>3. n * q \in Nat /\ n * (q + 1) = n * q + n
  OBVIOUS
<1>4. a + n = n * (q + 1) + r
  BY <1>2, <1>3
<1>5. a + n \in Nat /\ q + 1 \in Nat
  OBVIOUS
<1>6. (a + n) % n = r
  BY <1>4, <1>5, Remainder, Zenon
<1> QED BY <1>6, <1>1, Zenon

\* Of n numbers in a row one has the remainder i.
LEMMA OneOfALap ==
    ASSUME NEW n \in Nat \ {0}, NEW a \in Nat, NEW i \in 0..n - 1
    PROVE  \E p \in a..a + n - 1 : p % n = i
<1>1. PICK q \in Nat, r \in 0..n - 1 : a = n * q + r /\ a % n = r
  BY Divide
<1>2. a = n * q + r
  BY <1>1
<1>3. n * q \in Nat /\ n * (q + 1) = n * q + n
  OBVIOUS
<1>4. CASE i >= r
  <2>1. n * q + i \in a..a + n - 1
    BY <1>2, <1>3, <1>4
  <2>2. (n * q + i) % n = i
    BY <1>3, Remainder
  <2> QED BY <2>1, <2>2, Zenon
<1>5. CASE i < r
  <2>1. n * (q + 1) + i \in a..a + n - 1
    BY <1>2, <1>3, <1>5
  <2>2. (n * (q + 1) + i) % n = i
    BY <1>3, Remainder
  <2> QED BY <2>1, <2>2, Zenon
<1> QED BY <1>4, <1>5

-----------------------------------------------------------------------------
(* Positions and cells. *)

\* The capacity is a number, and a lap has at least two cells.
LEMMA CapacityType == Capacity \in Nat /\ Capacity >= 2
BY CapacityAssumption

\* A position has a cell.
LEMMA CellType == \A p \in Nat : Cell(p) \in Cells
BY CapacityType DEF Cell, Cells

\* In the first lap a position is its cell.
LEMMA FirstLap == \A i \in Cells : Cell(i) = i
BY CapacityType DEF Cell, Cells

\* Two positions of one cell are a lap apart.
LEMMA CellsApart == \A p, q \in Nat : Cell(p) = Cell(q) /\ p < q => p + Capacity <= q
<1> TAKE p, q \in Nat
<1> HAVE Cell(p) = Cell(q) /\ p < q
<1>1. p % Capacity = q % Capacity
  BY DEF Cell
<1>2. Capacity \in Nat \ {0}
  BY CapacityType
<1> QED BY <1>1, <1>2, SameRemainder

\* A lap further, the cell is the same.
LEMMA CellNextLap == \A p \in Nat : Cell(p + Capacity) = Cell(p)
<1> TAKE p \in Nat
<1>1. Capacity \in Nat \ {0}
  BY CapacityType
<1>2. (p + Capacity) % Capacity = p % Capacity
  BY <1>1, NextLap
<1> QED BY <1>2 DEF Cell

\* A lap from any position has all the cells.
LEMMA CellOfALap == \A p \in Nat, i \in Cells : \E q \in p..p + Capacity - 1 : Cell(q) = i
<1> TAKE p \in Nat, i \in Cells
<1>1. Capacity \in Nat \ {0} /\ i \in 0..Capacity - 1
  BY CapacityType DEF Cells
<1>2. \E q \in p..p + Capacity - 1 : q % Capacity = i
  BY <1>1, OneOfALap, Zenon
<1> QED BY <1>2, Zenon DEF Cell

-----------------------------------------------------------------------------
(* The inductive invariant.  The positions from _tail to _head are claimed   *)
(* by pushes, those from _head to a lap past _tail are free for the pushes   *)
(* to come; each has a cell of its own, whose sequence says how far it is.   *)

Counters == tail <= head /\ head <= tail + Capacity

Pusher(p) == \E t \in Threads : Pushing(t) /\ pos[t] = p
Popper(p) == \E t \in Threads : Popping(t) /\ pos[t] = p

\* A claimed position is filled, or its pusher is still at it.
Claimed ==
    \A p \in tail..head - 1 :
       \/ sequence[Cell(p)] = p + 1 /\ task[Cell(p)] \in Tasks
       \/ sequence[Cell(p)] = p /\ Pusher(p)

\* A position to come is free, or the popper of the lap before is still at it.
Vacant ==
    \A p \in head..tail + Capacity - 1 :
       \/ sequence[Cell(p)] = p /\ task[Cell(p)] = Empty
       \/ sequence[Cell(p)] = p - Capacity + 1 /\ Popper(p - Capacity)

Pushers ==
    \A t \in Threads : Pushing(t) =>
       /\ tail <= pos[t] /\ pos[t] < head
       /\ sequence[Cell(pos[t])] = pos[t]
       /\ pc[t] = "pushMove" => task[Cell(pos[t])] = Empty /\ f[t] \in Tasks
       /\ pc[t] = "pushPublish" => task[Cell(pos[t])] \in Tasks /\ f[t] = Empty

Poppers ==
    \A t \in Threads : Popping(t) =>
       /\ pos[t] < tail /\ head <= pos[t] + Capacity
       /\ sequence[Cell(pos[t])] = pos[t] + 1
       /\ pc[t] = "popMove" => task[Cell(pos[t])] \in Tasks /\ f[t] = Empty
       /\ pc[t] = "popRecycle" => task[Cell(pos[t])] = Empty /\ f[t] \in Tasks

\* A position is claimed by one pusher and by one popper.
Alone ==
    \A t, u \in Threads :
       /\ (Pushing(t) /\ Pushing(u)) \/ (Popping(t) /\ Popping(u))
       /\ pos[t] = pos[u]
       => t = u

\* A thread's position is one the counter has had; when the counter is still there, what the
\* thread has read of the cell's sequence holds.
Trying ==
    \A t \in Threads :
       /\ pc[t] = "idle" => f[t] = Empty
       /\ pc[t] \in {"pushSequence", "pushClaim"} => pos[t] <= head /\ f[t] \in Tasks
       /\ pc[t] = "pushClaim" /\ pos[t] = head => sequence[Cell(head)] = head
       /\ pc[t] \in {"popSequence", "popClaim"} => pos[t] <= tail /\ f[t] = Empty
       /\ pc[t] = "popClaim" /\ pos[t] = tail => sequence[Cell(tail)] = tail + 1

\* No two places hold the same task.
OnePlace ==
    /\ \A t, u \in Threads : f[t] \in Tasks /\ f[t] = f[u] => t = u
    /\ \A i, j \in Cells : task[i] \in Tasks /\ task[i] = task[j] => i = j
    /\ \A t \in Threads, i \in Cells : f[t] \in Tasks => f[t] # task[i]
    /\ \A t \in Threads : f[t] \notin popped
    /\ \A i \in Cells : task[i] \notin popped

Located ==
    \A x \in Tasks : x \in pushed <=>
       \/ \E t \in Threads : f[t] = x
       \/ \E i \in Cells : task[i] = x
       \/ x \in popped

CellsInv == Counters /\ Claimed /\ Vacant /\ Pushers /\ Poppers /\ Alone
TasksInv == OnePlace /\ Located
IInv == TypeOK /\ CellsInv /\ Trying /\ TasksInv

-----------------------------------------------------------------------------
(* Types. *)

\* The queue starts typed.
LEMMA InitType == Init => TypeOK
BY CapacityType DEF Init, TypeOK, Cells

\* Every step keeps the types.
LEMMA TypeStep == ASSUME TypeOK, Poppers, [Next]_vars PROVE TypeOK'
<1> USE DEF TypeOK, Goto, StaleLoad, cellVars, PushPcs, PopPcs
<1>1. CASE UNCHANGED vars
  BY <1>1 DEF vars
<1> SUFFICES ASSUME NEW t \in Threads, Push(t) \/ Pop(t) PROVE TypeOK'
  BY <1>1 DEF Next
<1>0. Cell(pos[t]) \in Cells
  BY CellType
<1>2. CASE \E x \in Tasks : PushLoad(t, x)
  BY <1>2 DEF PushLoad
<1>3. CASE PushSequence(t)
  BY <1>3 DEF PushSequence
<1>4. CASE PushClaim(t)
  BY <1>4 DEF PushClaim
<1>5. CASE PushMove(t)
  BY <1>5, <1>0 DEF PushMove
<1>6. CASE PushPublish(t)
  BY <1>6, <1>0 DEF PushPublish
<1>7. CASE PopLoad(t)
  BY <1>7 DEF PopLoad
<1>8. CASE PopSequence(t)
  BY <1>8 DEF PopSequence
<1>9. CASE PopClaim(t)
  BY <1>9 DEF PopClaim
<1>10. CASE PopMove(t)
  BY <1>10, <1>0 DEF PopMove
<1>11. CASE PopRecycle(t)
  <2>1. f[t] \in Tasks
    BY <1>11 DEF PopRecycle, Poppers, Popping
  <2> QED BY <1>11, <1>0, <2>1, CapacityType DEF PopRecycle
<1> QED BY <1>2, <1>3, <1>4, <1>5, <1>6, <1>7, <1>8, <1>9, <1>10, <1>11 DEF Push, Pop

-----------------------------------------------------------------------------
(* Steps that only look. *)

\* The pushers and poppers go on as they are, and the cells and counters too.
LEMMA CellsKept ==
    ASSUME CellsInv, UNCHANGED cellVars,
           \A u \in Threads : Pushing(u) \/ Popping(u) \/ Pushing(u)' \/ Popping(u)' =>
                                 pc'[u] = pc[u] /\ pos'[u] = pos[u] /\ f'[u] = f[u]
    PROVE  CellsInv'
<1> USE DEF cellVars
<1>0. \A u \in Threads : /\ Pushing(u)' <=> Pushing(u)
                         /\ Popping(u)' <=> Popping(u)
  BY DEF Pushing, Popping
<1>1. Counters'
  BY DEF CellsInv, Counters
<1>2. Claimed'
  BY <1>0 DEF CellsInv, Claimed, Pusher
<1>3. Vacant'
  BY <1>0 DEF CellsInv, Vacant, Popper
<1>4. Pushers'
  BY <1>0 DEF CellsInv, Pushers
<1>5. Poppers'
  BY <1>0 DEF CellsInv, Poppers
<1>6. Alone'
  BY <1>0 DEF CellsInv, Alone
<1> QED BY <1>1, <1>2, <1>3, <1>4, <1>5, <1>6 DEF CellsInv

\* Reading _head keeps what the cells, the threads and the tasks say of each other.
LEMMA PushLoadStep == ASSUME IInv, NEW t \in Threads, NEW x \in Tasks, PushLoad(t, x) PROVE CellsInv' /\ Trying' /\ TasksInv'
<1> USE DEF IInv, PushLoad, TypeOK, Goto, StaleLoad, cellVars
<1>1. CellsInv'
  BY CellsKept DEF Pushing, Popping
<1>2. Trying'
  BY DEF Trying
<1>3. f[t] = Empty /\ x \notin popped /\ (\A u \in Threads : f[u] # x) /\ (\A i \in Cells : task[i] # x)
  BY DEF Trying, TasksInv, Located
<1>4. OnePlace'
  BY <1>3 DEF TasksInv, OnePlace
<1>5. Located'
  BY <1>3, EmptyAssumption DEF TasksInv, Located
<1> QED BY <1>1, <1>2, <1>4, <1>5 DEF TasksInv

\* Reading a cell's sequence for a push keeps what the cells, the threads and the tasks say of
\* each other.
LEMMA PushSequenceStep == ASSUME IInv, NEW t \in Threads, PushSequence(t) PROVE CellsInv' /\ Trying' /\ TasksInv'
<1> USE DEF IInv, TypeOK, Goto, StaleLoad, cellVars
<1> DEFINE diff == sequence[Cell(pos[t])] - pos[t]
<1>0. Cell(pos[t]) \in Cells
  BY CellType
<1>1. CellsInv'
  BY CellsKept DEF Pushing, Popping, PushSequence
<1>2. Trying'
  BY <1>0 DEF Trying, PushSequence
<1>3. f[t] \in Tasks
  BY DEF Trying, PushSequence
<1>6. task' = task /\ popped' = popped
  BY DEF PushSequence
<1>4. CASE f' = f /\ pushed' = pushed
  <2>1. OnePlace'
    BY <1>4, <1>6 DEF TasksInv, OnePlace
  <2>2. Located'
    BY <1>4, <1>6 DEF TasksInv, Located
  <2> QED BY <1>1, <1>2, <2>1, <2>2 DEF TasksInv
<1>5. CASE pushed' = pushed \ {f[t]} /\ f' = [f EXCEPT ![t] = Empty]
  <2>1. OnePlace'
    BY <1>5, EmptyAssumption DEF PushSequence, TasksInv, OnePlace
  <2>2. Located'
    BY <1>5, <1>3, EmptyAssumption DEF PushSequence, TasksInv, OnePlace, Located
  <2> QED BY <1>1, <1>2, <2>1, <2>2 DEF TasksInv
<1> QED BY <1>1, <1>2, <1>4, <1>5 DEF PushSequence

\* Reading _tail keeps what the cells, the threads and the tasks say of each other.
LEMMA PopLoadStep == ASSUME IInv, NEW t \in Threads, PopLoad(t) PROVE CellsInv' /\ Trying' /\ TasksInv'
<1> USE DEF IInv, PopLoad, TypeOK, Goto, StaleLoad, cellVars
<1>1. CellsInv'
  BY CellsKept DEF Pushing, Popping
<1>2. Trying'
  BY DEF Trying
<1>3. TasksInv'
  BY DEF TasksInv, OnePlace, Located
<1> QED BY <1>1, <1>2, <1>3

\* Reading a cell's sequence for a pop keeps what the cells, the threads and the tasks say of each
\* other.
LEMMA PopSequenceStep == ASSUME IInv, NEW t \in Threads, PopSequence(t) PROVE CellsInv' /\ Trying' /\ TasksInv'
<1> USE DEF IInv, TypeOK, Goto, StaleLoad, cellVars
<1>0. Cell(pos[t]) \in Cells
  BY CellType
<1>1. CellsInv'
  BY CellsKept DEF Pushing, Popping, PopSequence
<1>2. Trying'
  BY <1>0 DEF Trying, PopSequence
<1>3. TasksInv'
  BY DEF TasksInv, OnePlace, Located, PopSequence
<1> QED BY <1>1, <1>2, <1>3

-----------------------------------------------------------------------------
(* The claims. *)

\* The cell of the next position to push to, once its sequence was found right, is free.
LEMMA HeadFree ==
    ASSUME IInv, sequence[Cell(head)] = head
    PROVE  head < tail + Capacity /\ task[Cell(head)] = Empty
<1> USE CapacityType DEF IInv, CellsInv, TypeOK, Counters
<1>1. head # tail + Capacity
  <2> SUFFICES ASSUME head = tail + Capacity PROVE FALSE
    OBVIOUS
  <2>1. Cell(head) = Cell(tail)
    BY CellNextLap
  <2>2. sequence[Cell(tail)] \in {tail, tail + 1}
    BY DEF Claimed
  <2> QED BY <2>1, <2>2
<1>2. head \in head..tail + Capacity - 1
  BY <1>1
<1>3. sequence[Cell(head)] # head - Capacity + 1
  OBVIOUS
<1> QED BY <1>1, <1>2, <1>3 DEF Vacant

\* The oldest position, once its sequence was found right, holds its task.
LEMMA TailFilled ==
    ASSUME IInv, sequence[Cell(tail)] = tail + 1
    PROVE  tail < head /\ task[Cell(tail)] \in Tasks
<1> USE CapacityType DEF IInv, CellsInv, TypeOK, Counters
<1>1. tail # head
  <2> SUFFICES ASSUME tail = head PROVE FALSE
    OBVIOUS
  <2>1. sequence[Cell(tail)] \in {tail, tail - Capacity + 1}
    BY DEF Vacant
  <2> QED BY <2>1
<1>2. tail \in tail..head - 1
  BY <1>1
<1> QED BY <1>1, <1>2 DEF Claimed

\* The compare-and-swap of a push claims a free cell, or fails and changes nothing but what the
\* thread read.
LEMMA PushClaimStep == ASSUME IInv, NEW t \in Threads, PushClaim(t) PROVE CellsInv' /\ Trying' /\ TasksInv'
<1> USE DEF IInv, TypeOK, Goto
<1>1. TasksInv'
  BY DEF PushClaim, TasksInv, OnePlace, Located
<1>2. CASE UNCHANGED head
  <2>1. pc'[t] = "pushSequence" \/ (head = pos[t] /\ head' = head + 1)
    BY DEF PushClaim
  <2>2. pc' = [pc EXCEPT ![t] = "pushSequence"] /\ pos' = [pos EXCEPT ![t] = head] /\ UNCHANGED f
    BY <1>2, <2>1 DEF PushClaim
  <2>3. CellsInv'
    BY <1>2, <2>2, CellsKept DEF PushClaim, Pushing, Popping, cellVars
  <2>4. Trying'
    BY <1>2, <2>2 DEF Trying, PushClaim
  <2> QED BY <1>1, <2>3, <2>4
<1>3. CASE /\ head = pos[t] /\ head' = head + 1
           /\ pc' = [pc EXCEPT ![t] = "pushMove"] /\ UNCHANGED pos
  <2> USE CapacityType DEF CellsInv, Counters
  <2>0. pc[t] = "pushClaim" /\ UNCHANGED <<tail, sequence, task, f>>
    BY DEF PushClaim
  <2>1. sequence[Cell(head)] = head /\ f[t] \in Tasks
    BY <1>3, <2>0 DEF Trying
  <2>2. head < tail + Capacity /\ task[Cell(head)] = Empty
    BY <2>1, HeadFree
  <2>3. /\ \A u \in Threads : Pushing(u)' <=> Pushing(u) \/ u = t
        /\ \A u \in Threads : Popping(u)' <=> Popping(u)
    BY <1>3, <2>0 DEF Pushing, Popping
  <2>4. Counters'
    BY <1>3, <2>0, <2>2
  <2>5. Claimed'
    <3> SUFFICES ASSUME NEW p \in tail..head
                 PROVE  \/ sequence[Cell(p)] = p + 1 /\ task[Cell(p)] \in Tasks
                        \/ sequence[Cell(p)] = p /\ Pusher(p)'
      BY <1>3, <2>0 DEF Claimed
    <3>1. CASE p = head
      BY <3>1, <1>3, <2>1, <2>3 DEF Pusher
    <3>2. CASE p \in tail..head - 1
      BY <3>2, <1>3, <2>3 DEF Claimed, Pusher
    <3> QED BY <3>1, <3>2
  <2>6. Vacant'
    BY <1>3, <2>0, <2>3 DEF Vacant, Popper
  <2>7. Pushers'
    BY <1>3, <2>0, <2>1, <2>2, <2>3 DEF Pushers
  <2>8. Poppers'
    <3> SUFFICES ASSUME NEW u \in Threads, Popping(u)
                 PROVE  /\ head + 1 <= pos[u] + Capacity
                        /\ pos[u] < tail
                        /\ sequence[Cell(pos[u])] = pos[u] + 1
                        /\ pc'[u] = "popMove" => task[Cell(pos[u])] \in Tasks /\ f[u] = Empty
                        /\ pc'[u] = "popRecycle" => task[Cell(pos[u])] = Empty /\ f[u] \in Tasks
      BY <1>3, <2>0, <2>3 DEF Poppers
    <3>1. pc'[u] = pc[u]
      BY <1>3, <2>0 DEF Popping
    <3>2. head # pos[u] + Capacity
      <4> SUFFICES ASSUME head = pos[u] + Capacity PROVE FALSE
        OBVIOUS
      <4>1. Cell(head) = Cell(pos[u])
        BY CellNextLap
      <4>2. sequence[Cell(pos[u])] = pos[u] + 1
        BY DEF Poppers
      <4> QED BY <4>1, <4>2, <2>1
    <3> QED BY <3>1, <3>2 DEF Poppers
  <2>9. Alone'
    <3>1. \A u \in Threads : Pushing(u) => pos[u] # head
      BY DEF Pushers
    <3> QED BY <3>1, <1>3, <2>3 DEF Alone
  <2>10. Trying'
    <3>1. \A u \in Threads : u # t => pc'[u] = pc[u]
      BY <1>3
    <3>2. pc'[t] = "pushMove"
      BY <1>3
    <3> QED BY <3>1, <3>2, <1>3, <2>0 DEF Trying
  <2> QED BY <1>1, <2>4, <2>5, <2>6, <2>7, <2>8, <2>9, <2>10
<1> QED BY <1>2, <1>3 DEF PushClaim

\* The compare-and-swap of a pop claims a filled cell, or fails and changes nothing but what the
\* thread read.
LEMMA PopClaimStep == ASSUME IInv, NEW t \in Threads, PopClaim(t) PROVE CellsInv' /\ Trying' /\ TasksInv'
<1> USE DEF IInv, TypeOK, Goto
<1>1. TasksInv'
  BY DEF PopClaim, TasksInv, OnePlace, Located
<1>2. CASE UNCHANGED tail
  <2>1. pc'[t] = "popSequence" \/ (tail = pos[t] /\ tail' = tail + 1)
    BY DEF PopClaim
  <2>2. pc' = [pc EXCEPT ![t] = "popSequence"] /\ pos' = [pos EXCEPT ![t] = tail] /\ UNCHANGED f
    BY <1>2, <2>1 DEF PopClaim
  <2>3. CellsInv'
    BY <1>2, <2>2, CellsKept DEF PopClaim, Pushing, Popping, cellVars
  <2>4. Trying'
    BY <1>2, <2>2 DEF Trying, PopClaim
  <2> QED BY <1>1, <2>3, <2>4
<1>3. CASE /\ tail = pos[t] /\ tail' = tail + 1
           /\ pc' = [pc EXCEPT ![t] = "popMove"] /\ UNCHANGED pos
  <2> USE CapacityType DEF CellsInv, Counters
  <2>0. pc[t] = "popClaim" /\ UNCHANGED <<head, sequence, task, f>>
    BY DEF PopClaim
  <2>1. sequence[Cell(tail)] = tail + 1 /\ f[t] = Empty
    BY <1>3, <2>0 DEF Trying
  <2>2. tail < head /\ task[Cell(tail)] \in Tasks
    BY <2>1, TailFilled
  <2>3. /\ \A u \in Threads : Popping(u)' <=> Popping(u) \/ u = t
        /\ \A u \in Threads : Pushing(u)' <=> Pushing(u)
    BY <1>3, <2>0 DEF Pushing, Popping
  <2>4. Counters'
    BY <1>3, <2>0, <2>2
  <2>5. Claimed'
    BY <1>3, <2>0, <2>3 DEF Claimed, Pusher
  <2>6. Vacant'
    <3> SUFFICES ASSUME NEW p \in head..tail + Capacity
                 PROVE  \/ sequence[Cell(p)] = p /\ task[Cell(p)] = Empty
                        \/ sequence[Cell(p)] = p - Capacity + 1 /\ Popper(p - Capacity)'
      BY <1>3, <2>0 DEF Vacant
    <3>1. CASE p = tail + Capacity
      <4>1. Cell(p) = Cell(tail) /\ p - Capacity = tail
        BY <3>1, CellNextLap
      <4>2. Popping(t)' /\ pos'[t] = p - Capacity
        BY <4>1, <1>3, <2>3
      <4>3. Popper(p - Capacity)'
        BY <4>2 DEF Popper
      <4> QED BY <4>1, <4>3, <2>1
    <3>2. CASE p \in head..tail + Capacity - 1
      BY <3>2, <1>3, <2>3 DEF Vacant, Popper
    <3> QED BY <3>1, <3>2
  <2>7. Pushers'
    <3> SUFFICES ASSUME NEW u \in Threads, Pushing(u)
                 PROVE  /\ tail + 1 <= pos[u] /\ pos[u] < head
                        /\ sequence[Cell(pos[u])] = pos[u]
                        /\ pc'[u] = "pushMove" => task[Cell(pos[u])] = Empty /\ f[u] \in Tasks
                        /\ pc'[u] = "pushPublish" => task[Cell(pos[u])] \in Tasks /\ f[u] = Empty
      BY <1>3, <2>0, <2>3 DEF Pushers
    <3>1. pc'[u] = pc[u]
      BY <1>3, <2>0 DEF Pushing
    <3>2. tail # pos[u]
      BY <2>1 DEF Pushers
    <3> QED BY <3>1, <3>2 DEF Pushers
  <2>8. Poppers'
    BY <1>3, <2>0, <2>1, <2>2, <2>3 DEF Poppers
  <2>9. Alone'
    <3>1. \A u \in Threads : Popping(u) => pos[u] # tail
      BY DEF Poppers
    <3> QED BY <3>1, <1>3, <2>3 DEF Alone
  <2>10. Trying'
    <3>1. \A u \in Threads : u # t => pc'[u] = pc[u]
      BY <1>3
    <3>2. pc'[t] = "popMove"
      BY <1>3
    <3> QED BY <3>1, <3>2, <1>3, <2>0 DEF Trying
  <2> QED BY <1>1, <2>4, <2>5, <2>6, <2>7, <2>8, <2>9, <2>10
<1> QED BY <1>2, <1>3 DEF PopClaim

-----------------------------------------------------------------------------
(* The moves.  What makes a cell a thread's own: the positions threads have  *)
(* claimed lie within one lap, so two of them are not of one cell.           *)

\* Two threads that claimed a position of one cell are one thread.
LEMMA OwnCell ==
    ASSUME IInv, NEW t \in Threads, NEW u \in Threads,
           Pushing(t) \/ Popping(t), Pushing(u) \/ Popping(u), Cell(pos[t]) = Cell(pos[u])
    PROVE  t = u
<1> USE CapacityType DEF IInv, CellsInv, TypeOK, Counters
<1>1. \A v \in Threads : Pushing(v) => tail <= pos[v] /\ pos[v] < head
  BY DEF Pushers
<1>2. \A v \in Threads : Popping(v) => pos[v] < tail /\ head <= pos[v] + Capacity
  BY DEF Poppers
<1>3. pos[t] \in Nat /\ pos[u] \in Nat
  OBVIOUS
<1>4. ~(pos[t] < pos[u]) /\ ~(pos[u] < pos[t])
  BY <1>1, <1>2, <1>3, CellsApart
<1>5. pos[t] = pos[u]
  BY <1>3, <1>4
<1>6. (Pushing(t) /\ Pushing(u)) \/ (Popping(t) /\ Popping(u))
  BY <1>1, <1>2, <1>5
<1> QED BY <1>5, <1>6 DEF Alone

\* Where the cell of a claimed push or pop lies among the positions of the lap.
LEMMA PusherPlace ==
    ASSUME IInv, NEW t \in Threads, Pushing(t), NEW p \in Nat, Cell(p) = Cell(pos[t]),
           tail <= p, p < tail + Capacity
    PROVE  p = pos[t]
<1> USE CapacityType DEF IInv, CellsInv, TypeOK, Counters
<1>1. tail <= pos[t] /\ pos[t] < head /\ pos[t] \in Nat
  BY DEF Pushers
<1>2. ~(p < pos[t]) /\ ~(pos[t] < p)
  BY <1>1, CellsApart
<1> QED BY <1>1, <1>2

\* The cell of a claimed pop is, in the lap from _tail, that of the free position a lap after the
\* pop's.
LEMMA PopperPlace ==
    ASSUME IInv, NEW t \in Threads, Popping(t), NEW p \in Nat, Cell(p) = Cell(pos[t]),
           tail <= p, p < tail + Capacity
    PROVE  p = pos[t] + Capacity /\ head <= p
<1> USE CapacityType DEF IInv, CellsInv, TypeOK, Counters
<1>1. pos[t] < tail /\ head <= pos[t] + Capacity /\ pos[t] \in Nat
  BY DEF Poppers
<1>2. Cell(pos[t] + Capacity) = Cell(p)
  BY <1>1, CellNextLap
<1>3. pos[t] + Capacity \in Nat
  BY <1>1
<1>4. ~(p < pos[t] + Capacity)
  <2>1. pos[t] < p
    BY <1>1
  <2> QED BY <2>1, <1>1, CellsApart
<1>5. ~(pos[t] + Capacity < p)
  <2> SUFFICES ASSUME pos[t] + Capacity < p PROVE FALSE
    OBVIOUS
  <2>1. pos[t] + Capacity + Capacity <= p
    BY <1>2, <1>3, CellsApart
  <2> QED BY <2>1, <1>1
<1> QED BY <1>1, <1>3, <1>4, <1>5

\* A push writes its task into a cell nobody else touches.
LEMMA PushMoveStep == ASSUME IInv, NEW t \in Threads, PushMove(t) PROVE CellsInv' /\ Trying' /\ TasksInv'
<1> USE CapacityType DEF IInv, CellsInv, TypeOK, Goto, Counters
<1> DEFINE i == Cell(pos[t])
<1>0. i \in Cells
  BY CellType
<1>1. /\ pc[t] = "pushMove" /\ UNCHANGED <<head, tail, sequence, pos, pushed, popped>>
      /\ task' = [task EXCEPT ![i] = f[t]]
      /\ f' = [f EXCEPT ![t] = Empty]
      /\ pc' = [pc EXCEPT ![t] = "pushPublish"]
  BY DEF PushMove
<1>2. f[t] \in Tasks /\ task[i] = Empty /\ Pushing(t)
  BY <1>1 DEF Pushers, Pushing
<1>3. /\ \A u \in Threads : Pushing(u)' <=> Pushing(u)
      /\ \A u \in Threads : Popping(u)' <=> Popping(u)
  BY <1>1 DEF Pushing, Popping
<1>4. \A u \in Threads : u # t /\ (Pushing(u) \/ Popping(u)) => Cell(pos[u]) # i
  BY <1>2, OwnCell
<1>5. \A p \in Nat : tail <= p /\ p < tail + Capacity /\ Cell(p) = i => p = pos[t]
  BY <1>2, PusherPlace
<1>6. tail <= pos[t] /\ pos[t] < head
  BY <1>2 DEF Pushers
<1> HIDE DEF i
<1>7. Claimed'
  BY <1>0, <1>1, <1>2, <1>3 DEF Claimed, Pusher
<1>8. Vacant'
  <2> SUFFICES ASSUME NEW p \in head..tail + Capacity - 1
               PROVE  \/ sequence[Cell(p)] = p /\ task'[Cell(p)] = Empty
                      \/ sequence[Cell(p)] = p - Capacity + 1 /\ Popper(p - Capacity)'
    BY <1>1 DEF Vacant
  <2>1. Cell(p) # i
    BY <1>5, <1>6
  <2>2. Cell(p) \in Cells
    BY CellType
  <2> QED BY <2>1, <2>2, <1>1, <1>3 DEF Vacant, Popper
<1>9. Pushers'
  BY <1>0, <1>1, <1>2, <1>3, <1>4, CellType DEF Pushers, Pushing, i
<1>10. Poppers'
  BY <1>0, <1>1, <1>2, <1>3, <1>4, CellType DEF Poppers, Popping
<1>11. Alone'
  BY <1>1, <1>3 DEF Alone
<1>12. Trying'
  BY <1>1 DEF Trying
<1>13. OnePlace'
  BY <1>0, <1>1, <1>2, EmptyAssumption DEF TasksInv, OnePlace
<1>14. Located'
  BY <1>0, <1>1, <1>2, EmptyAssumption DEF TasksInv, Located
<1>15. Counters'
  BY <1>1
<1> QED BY <1>7, <1>8, <1>9, <1>10, <1>11, <1>12, <1>13, <1>14, <1>15 DEF TasksInv

\* A pop moves the task out of a cell nobody else touches.
LEMMA PopMoveStep == ASSUME IInv, NEW t \in Threads, PopMove(t) PROVE CellsInv' /\ Trying' /\ TasksInv'
<1> USE CapacityType DEF IInv, CellsInv, TypeOK, Goto, Counters
<1> DEFINE i == Cell(pos[t])
<1>0. i \in Cells
  BY CellType
<1>1. /\ pc[t] = "popMove" /\ UNCHANGED <<head, tail, sequence, pos, pushed, popped>>
      /\ task' = [task EXCEPT ![i] = Empty]
      /\ f' = [f EXCEPT ![t] = task[i]]
      /\ pc' = [pc EXCEPT ![t] = "popRecycle"]
  BY DEF PopMove
<1>2. f[t] = Empty /\ task[i] \in Tasks /\ Popping(t)
  BY <1>1 DEF Poppers, Popping
<1>3. /\ \A u \in Threads : Pushing(u)' <=> Pushing(u)
      /\ \A u \in Threads : Popping(u)' <=> Popping(u)
  BY <1>1 DEF Pushing, Popping
<1>4. \A u \in Threads : u # t /\ (Pushing(u) \/ Popping(u)) => Cell(pos[u]) # i
  BY <1>2, OwnCell
<1>5. \A p \in Nat : tail <= p /\ p < tail + Capacity /\ Cell(p) = i => head <= p
  BY <1>2, PopperPlace
<1> HIDE DEF i
<1>7. Claimed'
  <2> SUFFICES ASSUME NEW p \in tail..head - 1
               PROVE  \/ sequence[Cell(p)] = p + 1 /\ task'[Cell(p)] \in Tasks
                      \/ sequence[Cell(p)] = p /\ Pusher(p)'
    BY <1>1 DEF Claimed
  <2>1. Cell(p) # i
    BY <1>5
  <2>2. Cell(p) \in Cells
    BY CellType
  <2> QED BY <2>1, <2>2, <1>1, <1>3 DEF Claimed, Pusher
<1>8. Vacant'
  BY <1>0, <1>1, <1>2, <1>3 DEF Vacant, Popper
<1>9. Pushers'
  BY <1>0, <1>1, <1>2, <1>3, <1>4, CellType DEF Pushers, Pushing
<1>10. Poppers'
  BY <1>0, <1>1, <1>2, <1>3, <1>4, CellType DEF Poppers, Popping, i
<1>11. Alone'
  BY <1>1, <1>3 DEF Alone
<1>12. Trying'
  BY <1>1 DEF Trying
<1>13. OnePlace'
  BY <1>0, <1>1, <1>2, EmptyAssumption DEF TasksInv, OnePlace
<1>14. Located'
  BY <1>0, <1>1, <1>2, EmptyAssumption DEF TasksInv, Located
<1>15. Counters'
  BY <1>1
<1> QED BY <1>7, <1>8, <1>9, <1>10, <1>11, <1>12, <1>13, <1>14, <1>15 DEF TasksInv

-----------------------------------------------------------------------------
(* The stores of the sequence. *)

\* A push gives its cell to the pops.
LEMMA PushPublishStep == ASSUME IInv, NEW t \in Threads, PushPublish(t) PROVE CellsInv' /\ Trying' /\ TasksInv'
<1> USE CapacityType DEF IInv, CellsInv, TypeOK, Goto, Counters
<1> DEFINE i == Cell(pos[t])
<1>0. i \in Cells
  BY CellType
<1>1. /\ pc[t] = "pushPublish" /\ UNCHANGED <<head, tail, task, f, pushed, popped>>
      /\ sequence' = [sequence EXCEPT ![i] = pos[t] + 1]
      /\ pos' = [pos EXCEPT ![t] = 0]
      /\ pc' = [pc EXCEPT ![t] = "idle"]
  BY DEF PushPublish
<1>2. f[t] = Empty /\ task[i] \in Tasks /\ Pushing(t) /\ sequence[i] = pos[t]
  BY <1>1 DEF Pushers, Pushing
<1>3. /\ \A u \in Threads : Pushing(u)' <=> Pushing(u) /\ u # t
      /\ \A u \in Threads : Popping(u)' <=> Popping(u) /\ u # t
  BY <1>1 DEF Pushing, Popping
<1>4. \A u \in Threads : u # t /\ (Pushing(u) \/ Popping(u)) => Cell(pos[u]) # i
  BY <1>2, OwnCell
<1>5. \A p \in Nat : tail <= p /\ p < tail + Capacity /\ Cell(p) = i => p = pos[t]
  BY <1>2, PusherPlace
<1>6. tail <= pos[t] /\ pos[t] < head
  BY <1>2 DEF Pushers
<1> HIDE DEF i
<1>7. Claimed'
  <2> SUFFICES ASSUME NEW p \in tail..head - 1
               PROVE  \/ sequence'[Cell(p)] = p + 1 /\ task[Cell(p)] \in Tasks
                      \/ sequence'[Cell(p)] = p /\ Pusher(p)'
    BY <1>1 DEF Claimed
  <2>1. CASE p = pos[t]
    BY <2>1, <1>0, <1>1, <1>2 DEF i
  <2>2. CASE p # pos[t]
    <3>1. Cell(p) # i
      BY <2>2, <1>5
    <3>2. Cell(p) \in Cells
      BY CellType
    <3>3. Pusher(p) => Pusher(p)'
      BY <2>2, <1>1, <1>3 DEF Pusher
    <3> QED BY <3>1, <3>2, <3>3, <1>1 DEF Claimed
  <2> QED BY <2>1, <2>2
<1>8. Vacant'
  <2> SUFFICES ASSUME NEW p \in head..tail + Capacity - 1
               PROVE  \/ sequence'[Cell(p)] = p /\ task[Cell(p)] = Empty
                      \/ sequence'[Cell(p)] = p - Capacity + 1 /\ Popper(p - Capacity)'
    BY <1>1 DEF Vacant
  <2>1. Cell(p) # i
    BY <1>5, <1>6
  <2>2. Cell(p) \in Cells
    BY CellType
  <2>3. Popper(p - Capacity) => Popper(p - Capacity)'
    BY <1>1, <1>3, <1>2 DEF Popper, Pushing, Popping
  <2> QED BY <2>1, <2>2, <2>3, <1>1 DEF Vacant
<1>9. Pushers'
  BY <1>0, <1>1, <1>2, <1>3, <1>4, CellType DEF Pushers, Pushing
<1>10. Poppers'
  BY <1>0, <1>1, <1>2, <1>3, <1>4, CellType DEF Poppers, Popping
<1>11. Alone'
  BY <1>1, <1>3 DEF Alone
<1>12. Trying'
  <2>1. sequence[Cell(head)] = head => sequence'[Cell(head)] = head
    <3>1. sequence[Cell(head)] = head => Cell(head) # i
      BY <1>5, <1>6, HeadFree
    <3> QED BY <3>1, <1>1, CellType
  <2>2. sequence[Cell(tail)] = tail + 1 => sequence'[Cell(tail)] = tail + 1
    <3>1. Cell(tail) = i => tail = pos[t]
      BY <1>5
    <3> QED BY <3>1, <1>0, <1>1, <1>2, CellType
  <2> QED BY <2>1, <2>2, <1>1, <1>2 DEF Trying
<1>13. TasksInv'
  BY <1>1 DEF TasksInv, OnePlace, Located
<1>14. Counters'
  BY <1>1
<1> QED BY <1>7, <1>8, <1>9, <1>10, <1>11, <1>12, <1>13, <1>14

\* A pop gives its cell to the pushes of the next lap.
LEMMA PopRecycleStep == ASSUME IInv, NEW t \in Threads, PopRecycle(t) PROVE CellsInv' /\ Trying' /\ TasksInv'
<1> USE CapacityType DEF IInv, CellsInv, TypeOK, Goto, Counters
<1> DEFINE i == Cell(pos[t])
<1>0. i \in Cells
  BY CellType
<1>1. /\ pc[t] = "popRecycle" /\ UNCHANGED <<head, tail, task, pushed>>
      /\ sequence' = [sequence EXCEPT ![i] = pos[t] + Capacity]
      /\ popped' = popped \cup {f[t]}
      /\ f' = [f EXCEPT ![t] = Empty]
      /\ pos' = [pos EXCEPT ![t] = 0]
      /\ pc' = [pc EXCEPT ![t] = "idle"]
  BY DEF PopRecycle
<1>2. f[t] \in Tasks /\ task[i] = Empty /\ Popping(t)
  BY <1>1 DEF Poppers, Popping
<1>3. /\ \A u \in Threads : Pushing(u)' <=> Pushing(u) /\ u # t
      /\ \A u \in Threads : Popping(u)' <=> Popping(u) /\ u # t
  BY <1>1 DEF Pushing, Popping
<1>4. \A u \in Threads : u # t /\ (Pushing(u) \/ Popping(u)) => Cell(pos[u]) # i
  BY <1>2, OwnCell
<1>5. \A p \in Nat : tail <= p /\ p < tail + Capacity /\ Cell(p) = i =>
                        p = pos[t] + Capacity /\ head <= p
  BY <1>2, PopperPlace
<1> HIDE DEF i
<1>7. Claimed'
  <2> SUFFICES ASSUME NEW p \in tail..head - 1
               PROVE  \/ sequence'[Cell(p)] = p + 1 /\ task[Cell(p)] \in Tasks
                      \/ sequence'[Cell(p)] = p /\ Pusher(p)'
    BY <1>1 DEF Claimed
  <2>1. Cell(p) # i
    BY <1>5
  <2>2. Cell(p) \in Cells
    BY CellType
  <2>3. Pusher(p) => Pusher(p)'
    BY <1>1, <1>2, <1>3 DEF Pusher, Pushing, Popping
  <2> QED BY <2>1, <2>2, <2>3, <1>1 DEF Claimed
<1>8. Vacant'
  <2> SUFFICES ASSUME NEW p \in head..tail + Capacity - 1
               PROVE  \/ sequence'[Cell(p)] = p /\ task[Cell(p)] = Empty
                      \/ sequence'[Cell(p)] = p - Capacity + 1 /\ Popper(p - Capacity)'
    BY <1>1 DEF Vacant
  <2>1. Cell(p) \in Cells
    BY CellType
  <2>2. CASE Cell(p) = i
    BY <2>2, <1>0, <1>1, <1>2, <1>5
  <2>3. CASE Cell(p) # i
    <3>1. p - Capacity # pos[t]
      <4> SUFFICES ASSUME p - Capacity = pos[t] PROVE FALSE
        OBVIOUS
      <4>1. p = pos[t] + Capacity
        OBVIOUS
      <4> QED BY <4>1, <2>3, CellNextLap DEF i
    <3>2. Popper(p - Capacity) => Popper(p - Capacity)'
      BY <3>1, <1>1, <1>3 DEF Popper
    <3> QED BY <3>2, <2>3, <2>1, <1>1 DEF Vacant
  <2> QED BY <2>2, <2>3
<1>9. Pushers'
  BY <1>0, <1>1, <1>2, <1>3, <1>4, CellType DEF Pushers, Pushing
<1>10. Poppers'
  BY <1>0, <1>1, <1>2, <1>3, <1>4, CellType DEF Poppers, Popping
<1>11. Alone'
  BY <1>1, <1>3 DEF Alone
<1>12. Trying'
  <2>1. sequence[Cell(head)] = head => sequence'[Cell(head)] = head
    <3>1. sequence[Cell(head)] = head /\ Cell(head) = i => head = pos[t] + Capacity
      BY <1>5, HeadFree
    <3> QED BY <3>1, <1>0, <1>1, CellType
  <2>2. sequence[Cell(tail)] = tail + 1 => sequence'[Cell(tail)] = tail + 1
    <3>1. sequence[Cell(tail)] = tail + 1 => Cell(tail) # i
      BY <1>5, TailFilled
    <3> QED BY <3>1, <1>1, CellType
  <2> QED BY <2>1, <2>2, <1>1, <1>2 DEF Trying
<1>13. OnePlace'
  BY <1>1, <1>2, EmptyAssumption DEF TasksInv, OnePlace
<1>14. Located'
  BY <1>1, <1>2, EmptyAssumption DEF TasksInv, Located
<1>15. Counters'
  BY <1>1
<1> QED BY <1>7, <1>8, <1>9, <1>10, <1>11, <1>12, <1>13, <1>14, <1>15 DEF TasksInv

-----------------------------------------------------------------------------
(* The invariant holds. *)

\* Every cell is free for the first lap.
LEMMA InitInv == Init => IInv
<1> SUFFICES ASSUME Init PROVE IInv
  OBVIOUS
<1> USE CapacityType DEF Init
<1>1. TypeOK
  BY InitType
<1>2. \A t \in Threads : ~Pushing(t) /\ ~Popping(t)
  BY DEF Pushing, Popping
<1>3. \A p \in 0..Capacity - 1 : p \in Cells /\ Cell(p) = p
  BY FirstLap DEF Cells
<1>4. CellsInv
  BY <1>2, <1>3 DEF CellsInv, Counters, Claimed, Vacant, Pushers, Poppers, Alone
<1>5. Trying
  BY DEF Trying
<1>6. TasksInv
  BY EmptyAssumption DEF TasksInv, OnePlace, Located
<1> QED BY <1>1, <1>4, <1>5, <1>6 DEF IInv

\* Every step of a push or a pop keeps the invariant.
LEMMA StepInv == IInv /\ [Next]_vars => IInv'
<1> SUFFICES ASSUME IInv, [Next]_vars PROVE IInv'
  OBVIOUS
<1>1. TypeOK'
  BY TypeStep DEF IInv, CellsInv
<1>2. CASE UNCHANGED vars
  <2>1. UNCHANGED cellVars /\ UNCHANGED <<pc, pos, f, pushed, popped>>
    BY <1>2 DEF vars
  <2>2. CellsInv'
    BY <2>1, CellsKept DEF IInv
  <2>3. Trying' /\ TasksInv'
    BY <2>1 DEF IInv, Trying, TasksInv, OnePlace, Located, cellVars
  <2> QED BY <1>1, <2>2, <2>3 DEF IInv
<1>3. ASSUME NEW t \in Threads, Push(t) \/ Pop(t) PROVE CellsInv' /\ Trying' /\ TasksInv'
  <2> USE <1>3
  <2>1. CASE \E x \in Tasks : PushLoad(t, x)
    BY <2>1, PushLoadStep
  <2>2. CASE PushSequence(t)
    BY <2>2, PushSequenceStep
  <2>3. CASE PushClaim(t)
    BY <2>3, PushClaimStep
  <2>4. CASE PushMove(t)
    BY <2>4, PushMoveStep
  <2>5. CASE PushPublish(t)
    BY <2>5, PushPublishStep
  <2>6. CASE PopLoad(t)
    BY <2>6, PopLoadStep
  <2>7. CASE PopSequence(t)
    BY <2>7, PopSequenceStep
  <2>8. CASE PopClaim(t)
    BY <2>8, PopClaimStep
  <2>9. CASE PopMove(t)
    BY <2>9, PopMoveStep
  <2>10. CASE PopRecycle(t)
    BY <2>10, PopRecycleStep
  <2> QED BY <2>1, <2>2, <2>3, <2>4, <2>5, <2>6, <2>7, <2>8, <2>9, <2>10 DEF Push, Pop
<1> QED BY <1>1, <1>2, <1>3 DEF IInv, Next

\* The invariant holds always.
LEMMA InvAlways == Spec => []IInv
BY InitInv, StepInv, PTL DEF Spec

\* Counters, sequences, tasks and the threads' locals keep to their types.
THEOREM TypeCorrect == Spec => []TypeOK
BY InvAlways, PTL DEF IInv

\* No two threads are between claim and publication on the same cell, and each finds there what
\* it came for, however the loads and the compare-and-swaps of the others fall between.
THEOREM CellsExclusiveAlways == Spec => []CellsExclusive
<1>1. IInv => CellsExclusive
  <2> SUFFICES ASSUME IInv PROVE CellsExclusive
    OBVIOUS
  <2>1. \A t, u \in Threads :
           (Pushing(t) \/ Popping(t)) /\ (Pushing(u) \/ Popping(u)) /\ Cell(pos[t]) = Cell(pos[u])
           => t = u
    BY OwnCell
  <2>2. \A t \in Threads : /\ pc[t] = "popMove" => task[Cell(pos[t])] \in Tasks
                           /\ pc[t] = "pushMove" => task[Cell(pos[t])] = Empty
    BY DEF IInv, CellsInv, Pushers, Poppers, Pushing, Popping
  <2> QED BY <2>1, <2>2 DEF CellsExclusive
<1> QED BY <1>1, InvAlways, PTL

\* A set without two members has none or one.
LEMMA AtMostOne ==
    ASSUME NEW S, \A a, b \in S : a = b
    PROVE  Cardinality(S) = IF S = {} THEN 0 ELSE 1
<1>1. CASE S = {}
  BY <1>1, FS_EmptySet
<1>2. CASE S # {}
  <2>1. PICK a \in S : TRUE
    BY <1>2
  <2>2. S = {a}
    BY <2>1
  <2> QED BY <2>2, <1>2, FS_Singleton
<1> QED BY <1>1, <1>2

\* Every task handed to tryPush is in one place at every instant: a push that reports success
\* has not lost it, and no two pops hand it out.
THEOREM ExactlyOnceAlways == Spec => []ExactlyOnce
<1>1. IInv => ExactlyOnce
  <2> SUFFICES ASSUME IInv, NEW x \in pushed
               PROVE  Cardinality({t \in Threads : f[t] = x}) + Cardinality({i \in Cells : task[i] = x})
                         + (IF x \in popped THEN 1 ELSE 0) = 1
    BY DEF ExactlyOnce
  <2> DEFINE holders == {t \in Threads : f[t] = x}
             cells == {i \in Cells : task[i] = x}
  <2>0. x \in Tasks
    BY DEF IInv, TypeOK
  <2>1. \A t, u \in holders : t = u
    BY <2>0 DEF IInv, TasksInv, OnePlace
  <2>2. \A i, j \in cells : i = j
    BY <2>0 DEF IInv, TasksInv, OnePlace
  <2>3. holders # {} \/ cells # {} \/ x \in popped
    BY <2>0 DEF IInv, TasksInv, Located
  <2>4. /\ ~(holders # {} /\ cells # {})
        /\ ~(holders # {} /\ x \in popped)
        /\ ~(cells # {} /\ x \in popped)
    BY <2>0 DEF IInv, TasksInv, OnePlace
  <2>5. /\ Cardinality(holders) = IF holders = {} THEN 0 ELSE 1
        /\ Cardinality(cells) = IF cells = {} THEN 0 ELSE 1
    BY <2>1, <2>2, AtMostOne
  <2> HIDE DEF holders, cells
  <2>6. Cardinality(holders) + Cardinality(cells) + (IF x \in popped THEN 1 ELSE 0) = 1
    BY <2>3, <2>4, <2>5
  <2> QED BY <2>6 DEF holders, cells
<1> QED BY <1>1, InvAlways, PTL

\* tryPush reports "full" and tryPop "empty" only for a reason outside the caller's control,
\* although both decide by one cell's sequence and a counter that may be stale.
THEOREM HonestRefusalAlways == Spec => HonestRefusal
<1> DEFINE Honest == \A t \in Threads :
              /\ pc[t] = "pushSequence" /\ pc'[t] = "idle" =>
                    head - tail = Capacity \/ \E u \in Threads : Popping(u)
              /\ pc[t] = "popSequence" /\ pc'[t] = "idle" =>
                    head = tail \/ \E u \in Threads : Pushing(u) /\ pos[u] = tail
<1>1. ASSUME IInv, [Next]_vars, NEW t \in Threads, pc[t] \in {"pushSequence", "popSequence"}, pc'[t] = "idle"
      PROVE  \/ pc[t] = "pushSequence" /\ sequence[Cell(pos[t])] < pos[t]
             \/ pc[t] = "popSequence" /\ sequence[Cell(pos[t])] < pos[t] + 1
  <2> USE <1>1 DEF IInv, TypeOK, Goto
  <2>0. Cell(pos[t]) \in Cells
    BY CellType
  <2>1. ~UNCHANGED vars
    BY DEF vars
  <2>2. PICK u \in Threads : Push(u) \/ Pop(u)
    BY <2>1 DEF Next
  <2>3. u = t
    BY <2>2 DEF Push, Pop, PushLoad, PushSequence, PushClaim, PushMove, PushPublish,
                PopLoad, PopSequence, PopClaim, PopMove, PopRecycle
  <2>4. PushSequence(t) \/ PopSequence(t)
    BY <2>2, <2>3 DEF Push, Pop, PushLoad, PushClaim, PushMove, PushPublish,
                PopLoad, PopClaim, PopMove, PopRecycle
  <2>5. CASE PushSequence(t)
    BY <2>0, <2>5 DEF PushSequence
  <2>6. CASE PopSequence(t)
    BY <2>0, <2>6 DEF PopSequence
  <2> QED BY <2>4, <2>5, <2>6
<1>2. ASSUME IInv, NEW t \in Threads, pc[t] = "pushSequence", sequence[Cell(pos[t])] < pos[t],
             \A u \in Threads : ~Popping(u)
      PROVE  head - tail = Capacity
  <2> USE <1>2, CapacityType DEF IInv, CellsInv, TypeOK, Counters
  <2>0. Cell(pos[t]) \in Cells /\ pos[t] <= head /\ pos[t] \in Nat
    BY CellType DEF Trying
  <2>1. PICK q \in tail..tail + Capacity - 1 : Cell(q) = Cell(pos[t])
    BY <2>0, CellOfALap
  <2>2. sequence[Cell(q)] \in {q, q + 1}
    BY <2>1 DEF Claimed, Vacant, Popper
  <2>3. q < pos[t]
    BY <2>0, <2>1, <2>2
  <2>4. q + Capacity <= pos[t]
    BY <2>0, <2>1, <2>3, CellsApart
  <2> QED BY <2>0, <2>1, <2>4
<1>3. ASSUME IInv, NEW t \in Threads, pc[t] = "popSequence", sequence[Cell(pos[t])] < pos[t] + 1,
             \A u \in Threads : ~(Pushing(u) /\ pos[u] = tail)
      PROVE  head = tail
  <2> USE <1>3, CapacityType DEF IInv, CellsInv, TypeOK, Counters
  <2>0. Cell(pos[t]) \in Cells /\ pos[t] <= tail /\ pos[t] \in Nat
    BY CellType DEF Trying
  <2>1. PICK q \in tail..tail + Capacity - 1 : Cell(q) = Cell(pos[t])
    BY <2>0, CellOfALap
  <2>2. sequence[Cell(q)] \in {q, q + 1, q - Capacity + 1}
    BY <2>1 DEF Claimed, Vacant
  <2>3. CASE pos[t] < q
    <3>1. pos[t] + Capacity <= q
      BY <2>0, <2>1, <2>3, CellsApart
    <3> QED BY <2>0, <2>1, <2>2, <3>1
  <2>4. CASE q = pos[t]
    <3>1. q = tail
      BY <2>0, <2>1, <2>4
    <3>2. tail < head => sequence[Cell(tail)] = tail + 1
      BY DEF Claimed, Pusher
    <3> QED BY <2>1, <2>4, <3>1, <3>2
  <2> QED BY <2>0, <2>1, <2>3, <2>4
<1>4. IInv /\ [Next]_vars => Honest
  BY <1>1, <1>2, <1>3
<1>5. IInv /\ [Next]_vars => [Honest]_vars
  BY <1>4
<1> QED BY <1>5, InvAlways, PTL DEF Spec, HonestRefusal

-----------------------------------------------------------------------------
(* The refinement: what TaskQueue sees of a state, and of each step.        *)

\* A function on 1..n is a sequence of length n.
LEMMA SeqOf ==
    ASSUME NEW n \in Nat, NEW S, NEW g \in [1..n -> S]
    PROVE  g \in Seq(S) /\ Len(g) = n
<1>1. g \in Seq(S)
  BY SeqDef
<1>2. Len(g) \in Nat /\ DOMAIN g = 1..Len(g) /\ DOMAIN g = 1..n
  BY <1>1, LenProperties
<1> QED BY <1>1, <1>2

Moving(t, p) == pc[t] = "pushMove" /\ pos[t] = p

\* The task of a claimed position is with its pusher, or in its cell.
Places ==
    \A p \in tail..head - 1 :
       /\ TaskAt(p) \in Tasks
       /\ \A t \in Threads : Moving(t, p) => TaskAt(p) = f[t]
       /\ (\A t \in Threads : ~Moving(t, p)) => TaskAt(p) = task[Cell(p)]

\* The task of a claimed position is where the invariant says its cell and its pusher are.
LEMMA PlacesHold == IInv => Places
<1> SUFFICES ASSUME IInv, NEW p \in tail..head - 1
             PROVE  /\ TaskAt(p) \in Tasks
                    /\ \A t \in Threads : Moving(t, p) => TaskAt(p) = f[t]
                    /\ (\A t \in Threads : ~Moving(t, p)) => TaskAt(p) = task[Cell(p)]
  BY DEF Places
<1>1. CASE \A t \in Threads : ~Moving(t, p)
  <2>1. TaskAt(p) = task[Cell(p)]
    BY <1>1 DEF TaskAt, Moving
  <2>2. task[Cell(p)] \in Tasks
    BY <1>1 DEF IInv, CellsInv, Claimed, Pusher, Pushers, Pushing, Moving
  <2> QED BY <1>1, <2>1, <2>2
<1>2. ASSUME NEW t \in Threads, Moving(t, p)
      PROVE  TaskAt(p) = f[t] /\ f[t] \in Tasks
  <2> DEFINE u == CHOOSE u \in Threads : pc[u] = "pushMove" /\ pos[u] = p
  <2>1. u \in Threads /\ pc[u] = "pushMove" /\ pos[u] = p
    BY <1>2 DEF Moving
  <2>2. TaskAt(p) = f[u]
    BY <1>2 DEF TaskAt, Moving
  <2> HIDE DEF u
  <2>3. u = t
    BY <2>1, <1>2 DEF IInv, CellsInv, Alone, Pushing, Moving
  <2>4. f[t] \in Tasks
    BY <1>2 DEF IInv, CellsInv, Pushers, Pushing, Moving
  <2> QED BY <2>2, <2>3, <2>4
<1> QED BY <1>1, <1>2

\* The same in the next state.
LEMMA PlacesHoldNext == IInv' => Places'
BY PlacesHold, PTL

Entries == [task : Tasks, ready : BOOLEAN]
ItemsType == itemsBar \in Seq(Entries) /\ Len(itemsBar) = head - tail

\* The items the queue stands for are one entry for each claimed position.
LEMMA ItemsTypeHolds == IInv => ItemsType
<1> SUFFICES ASSUME IInv PROVE ItemsType
  OBVIOUS
<1>1. head - tail \in Nat
  BY DEF IInv, CellsInv, TypeOK, Counters
<1>2. \A i \in 1..head - tail : Entry(tail + i - 1) \in Entries
  <2> TAKE i \in 1..head - tail
  <2>1. tail + i - 1 \in tail..head - 1
    BY DEF IInv, TypeOK
  <2>2. TaskAt(tail + i - 1) \in Tasks
    BY <2>1, PlacesHold DEF Places
  <2> QED BY <2>2 DEF Entry, Entries
<1>3. itemsBar \in [1..head - tail -> Entries]
  BY <1>2 DEF itemsBar
<1> QED BY <1>1, <1>3, SeqOf DEF ItemsType

\* The same in the next state.
LEMMA ItemsTypeNext == IInv' => ItemsType'
BY ItemsTypeHolds, PTL

\* The entry of a claimed position is where its distance from _tail says.
ItemsAt == \A p \in tail..head - 1 : itemsBar[p - tail + 1] = Entry(p)

\* The entry of a position is where its distance from _tail says.
LEMMA ItemsAtHolds == IInv => ItemsAt
<1> SUFFICES ASSUME IInv, NEW p \in tail..head - 1 PROVE itemsBar[p - tail + 1] = Entry(p)
  BY DEF ItemsAt
<1>1. p - tail + 1 \in 1..head - tail /\ tail + (p - tail + 1) - 1 = p
  BY DEF IInv, TypeOK
<1> QED BY <1>1 DEF itemsBar

\* The same in the next state.
LEMMA ItemsAtNext == IInv' => ItemsAt'
BY ItemsAtHolds, PTL

\* An entry stays as it is while its task does, wherever it moves, and its sequence.
LEMMA EntryKept ==
    ASSUME NEW p \in Nat, TaskAt(p)' = TaskAt(p),
           (sequence'[Cell(p)] = p + 1) = (sequence[Cell(p)] = p + 1)
    PROVE  Entry(p)' = Entry(p)
BY DEF Entry

\* The i-th of the positions from a to b.
LEMMA Index ==
    ASSUME NEW a \in Nat, NEW b \in Nat, NEW i \in 1..b - a
    PROVE  \E p \in a..b - 1 : i = p - a + 1
<1>1. a + i - 1 \in a..b - 1 /\ i = (a + i - 1) - a + 1
  OBVIOUS
<1> QED BY <1>1

\* The items of the next state are the sequence with the next state's entries.
LEMMA ItemsNext ==
    ASSUME IInv', NEW s \in Seq(Entries), Len(s) = head' - tail',
           \A p \in tail'..head' - 1 : s[p - tail' + 1] = Entry(p)'
    PROVE  itemsBar' = s
<1>1. ItemsType' /\ ItemsAt' /\ head' \in Nat /\ tail' \in Nat
  BY ItemsTypeNext, ItemsAtNext DEF IInv, TypeOK
<1>2. ASSUME NEW i \in 1..Len(s) PROVE itemsBar'[i] = s[i]
  <2>1. PICK p \in tail'..head' - 1 : i = p - tail' + 1
    <3>1. i \in 1..head' - tail'
      BY <1>2
    <3> QED BY <1>1, <3>1, Index, Zenon
  <2>2. itemsBar'[p - tail' + 1] = Entry(p)' /\ s[p - tail' + 1] = Entry(p)'
    BY <1>1 DEF ItemsAt
  <2> QED BY <2>1, <2>2
<1> QED BY <1>1, <1>2, SeqEqual DEF ItemsType

\* Steps that claim nothing and keep every entry keep the items.
LEMMA ItemsKept ==
    ASSUME IInv, IInv', UNCHANGED <<head, tail>>, \A p \in tail..head - 1 : Entry(p)' = Entry(p)
    PROVE  itemsBar' = itemsBar
<1>1. ItemsType /\ ItemsAt
  BY ItemsTypeHolds, ItemsAtHolds
<1>2. \A p \in tail'..head' - 1 : itemsBar[p - tail' + 1] = Entry(p)'
  BY <1>1 DEF ItemsAt
<1> QED BY <1>1, <1>2, ItemsNext DEF ItemsType

\* Steps that only look, or fail, are invisible.
LEMMA LookView ==
    ASSUME IInv, IInv', UNCHANGED cellVars,
           \A u \in Threads : Pushing(u) \/ Popping(u) \/ Pushing(u)' \/ Popping(u)' =>
                                 pc'[u] = pc[u] /\ pos'[u] = pos[u] /\ f'[u] = f[u]
    PROVE  UNCHANGED Fifo!vars
<1> USE DEF cellVars
<1>1. ASSUME NEW p \in tail..head - 1 PROVE Entry(p)' = Entry(p)
  <2>1. \A u \in Threads : (Moving(u, p)' <=> Moving(u, p)) /\ (Moving(u, p) => f'[u] = f[u])
    BY DEF Moving, Pushing
  <2>2. TaskAt(p)' = TaskAt(p)
    BY <2>1, PlacesHold, PlacesHoldNext DEF Places
  <2> QED BY <2>2, EntryKept DEF IInv, TypeOK
<1>2. leavingBar' = leavingBar
  BY DEF leavingBar, Pushing, Popping
<1> QED BY <1>1, <1>2, ItemsKept DEF Fifo!vars

\* A push that claims is an item claimed at the back.
LEMMA PushClaimView ==
    ASSUME IInv, IInv', NEW t \in Threads, PushClaim(t), head' # head
    PROVE  Fifo!Next
<1>0. /\ head \in Nat /\ tail \in Nat /\ tail <= head
      /\ pc \in [Threads -> {"idle"} \cup PushPcs \cup PopPcs] /\ \A p \in Nat : Cell(p) \in Cells
  BY CellType DEF IInv, TypeOK, CellsInv, Counters
<1>1. /\ pc[t] = "pushClaim" /\ head = pos[t] /\ head' = head + 1
      /\ pc' = [pc EXCEPT ![t] = "pushMove"]
      /\ UNCHANGED <<tail, sequence, task, pos, f>>
  BY DEF PushClaim, Goto
<1>2. f[t] \in Tasks /\ sequence[Cell(head)] = head
  BY <1>1 DEF IInv, Trying
<1>3. head < tail + Capacity
  BY <1>2, HeadFree
<1>4. ItemsType /\ ItemsType' /\ ItemsAt /\ ItemsAt' /\ Places /\ Places'
  BY ItemsTypeHolds, ItemsTypeNext, ItemsAtHolds, ItemsAtNext, PlacesHold, PlacesHoldNext
<1>5. ASSUME NEW p \in tail..head - 1 PROVE Entry(p)' = Entry(p)
  <2>1. \A u \in Threads : Moving(u, p)' <=> Moving(u, p)
    BY <1>0, <1>1 DEF Moving
  <2>2. TaskAt(p)' = TaskAt(p)
    BY <1>0, <2>1, <1>1, <1>4 DEF Places
  <2> QED BY <1>0, <2>2, <1>1, EntryKept
<1> DEFINE e == [task |-> f[t], ready |-> FALSE]
<1>6. \A p \in tail'..head' - 1 : p = head => Entry(p)' = e
  <2> SUFFICES ASSUME NEW p \in tail'..head' - 1, p = head PROVE Entry(p)' = e
    OBVIOUS
  <2>1. Moving(t, p)'
    BY <1>0, <1>1 DEF Moving
  <2>2. TaskAt(p)' = f[t]
    BY <2>1, <1>1, <1>4 DEF Places
  <2>3. (sequence'[Cell(p)] = p + 1) = FALSE
    BY <1>1, <1>2
  <2> QED BY <2>2, <2>3 DEF Entry
<1>7. itemsBar' = Append(itemsBar, e)
  <2>1. itemsBar \in Seq(Entries) /\ e \in Entries /\ Len(itemsBar) = head - tail
    BY <1>2, <1>4 DEF Entries, ItemsType
  <2> HIDE DEF e
  <2>2. /\ Append(itemsBar, e) \in Seq(Entries)
        /\ Len(Append(itemsBar, e)) = Len(itemsBar) + 1
        /\ \A i \in 1..Len(itemsBar) : Append(itemsBar, e)[i] = itemsBar[i]
        /\ Append(itemsBar, e)[Len(itemsBar) + 1] = e
    BY <2>1, AppendProperties
  <2>3. ASSUME NEW p \in tail'..head' - 1 PROVE Append(itemsBar, e)[p - tail' + 1] = Entry(p)'
    <3>1. CASE p = head
      <4>1. p - tail' + 1 = Len(itemsBar) + 1
        BY <3>1, <1>0, <1>1, <2>1
      <4> QED BY <3>1, <4>1, <1>6, <2>2
    <3>2. CASE p \in tail..head - 1
      <4>1. p - tail' + 1 \in 1..Len(itemsBar) /\ tail' = tail
        BY <3>2, <1>0, <1>1, <2>1
      <4>2. itemsBar[p - tail' + 1] = Entry(p)
        BY <3>2, <4>1, <1>4 DEF ItemsAt
      <4>3. Append(itemsBar, e)[p - tail' + 1] = itemsBar[p - tail' + 1]
        BY <4>1, <2>2
      <4>4. Entry(p)' = Entry(p)
        BY <3>2, <1>5
      <4> QED BY <4>2, <4>3, <4>4
    <3>3. p = head \/ p \in tail..head - 1
      BY <1>0, <1>1, <2>3
    <3> QED BY <3>1, <3>2, <3>3
  <2>4. Len(Append(itemsBar, e)) = head' - tail'
    BY <1>0, <1>1, <2>1, <2>2
  <2> QED BY <2>2, <2>3, <2>4, ItemsNext
<1>8. leavingBar' = leavingBar
  BY <1>0, <1>1 DEF leavingBar, Popping
<1>9. f[t] \notin Fifo!Queued
  <2> SUFFICES ASSUME NEW i \in 1..Len(itemsBar), itemsBar[i].task = f[t] PROVE FALSE
    BY DEF Fifo!Queued
  <2>1. PICK p \in tail..head - 1 : i = p - tail + 1
    <3>1. i \in 1..head - tail
      BY <1>4 DEF ItemsType
    <3> QED BY <1>0, <3>1, Index, Zenon
  <2>2. TaskAt(p) = f[t]
    <3>1. itemsBar[p - tail + 1] = Entry(p)
      BY <1>4 DEF ItemsAt
    <3> QED BY <2>1, <3>1 DEF Entry
  <2>3. CASE \E u \in Threads : Moving(u, p)
    BY <2>2, <2>3, <1>1, <1>2, <1>4 DEF Places, Moving, IInv, TasksInv, OnePlace
  <2>4. CASE \A u \in Threads : ~Moving(u, p)
    <3>1. TaskAt(p) = task[Cell(p)] /\ Cell(p) \in Cells
      BY <1>0, <2>4, <1>4 DEF Places
    <3> QED BY <2>2, <3>1, <1>2 DEF IInv, TasksInv, OnePlace
  <2> QED BY <2>3, <2>4
<1>10. f[t] \notin leavingBar
  <2> SUFFICES ASSUME NEW u \in Threads, Popping(u),
                      f[t] = IF pc[u] = "popMove" THEN task[Cell(pos[u])] ELSE f[u]
               PROVE  FALSE
    BY DEF leavingBar
  <2>1. u # t /\ Cell(pos[u]) \in Cells
    BY <1>1, CellType DEF Popping, IInv, TypeOK
  <2> QED BY <2>1, <1>2 DEF IInv, TasksInv, OnePlace
<1>11. Fifo!Claim(f[t])
  <2>1. Len(itemsBar) < Capacity
    BY <1>0, <1>3, <1>4, CapacityType DEF ItemsType
  <2> QED BY <2>1, <1>7, <1>8 DEF Fifo!Claim
<1> QED BY <1>2, <1>9, <1>10, <1>11 DEF Fifo!Next

\* The task moves from its pusher to the cell of the same position: invisible.
LEMMA PushMoveView ==
    ASSUME IInv, IInv', NEW t \in Threads, PushMove(t)
    PROVE  UNCHANGED Fifo!vars
<1> DEFINE i == Cell(pos[t])
<1>0. /\ head \in Nat /\ tail \in Nat /\ head <= tail + Capacity /\ i \in Cells
      /\ pc \in [Threads -> {"idle"} \cup PushPcs \cup PopPcs]
      /\ task \in [Cells -> Tasks \cup {Empty}] /\ f \in [Threads -> Tasks \cup {Empty}]
      /\ pos \in [Threads -> Nat] /\ \A p \in Nat : Cell(p) \in Cells
  BY CellType DEF IInv, TypeOK, CellsInv, Counters
<1>1. /\ pc[t] = "pushMove" /\ UNCHANGED <<head, tail, sequence, pos>>
      /\ task' = [task EXCEPT ![i] = f[t]]
      /\ f' = [f EXCEPT ![t] = Empty]
      /\ pc' = [pc EXCEPT ![t] = "pushPublish"]
  BY DEF PushMove, Goto
<1>2. Pushing(t)
  BY <1>1 DEF Pushing
<1>3. \A u \in Threads : u # t /\ (Pushing(u) \/ Popping(u)) => Cell(pos[u]) # i
  BY <1>2, OwnCell
<1>4. \A p \in tail..head - 1 : Cell(p) = i => p = pos[t]
  BY <1>0, <1>2, CapacityType, PusherPlace
<1>5. Places /\ Places'
  BY PlacesHold, PlacesHoldNext
<1> HIDE DEF i
<1>6. ASSUME NEW p \in tail..head - 1 PROVE Entry(p)' = Entry(p)
  <2>1. CASE p = pos[t]
    <3>1. Moving(t, p)
      BY <2>1, <1>1 DEF Moving
    <3>2. \A u \in Threads : ~Moving(u, p)'
      BY <2>1, <1>0, <1>1, <1>3 DEF Moving, Pushing, i
    <3>3. TaskAt(p) = f[t]
      BY <3>1, <1>5 DEF Places
    <3>4. TaskAt(p)' = task'[Cell(p)]
      BY <3>2, <1>1, <1>5 DEF Places
    <3>5. task'[Cell(p)] = f[t]
      BY <2>1, <1>0, <1>1 DEF i
    <3> QED BY <3>3, <3>4, <3>5, <1>0, <1>1, EntryKept
  <2>2. CASE p # pos[t]
    <3>1. \A u \in Threads : (Moving(u, p)' <=> Moving(u, p)) /\ (Moving(u, p) => f'[u] = f[u])
      BY <2>2, <1>0, <1>1 DEF Moving
    <3>2. task'[Cell(p)] = task[Cell(p)]
      BY <2>2, <1>0, <1>1, <1>4
    <3>3. TaskAt(p)' = TaskAt(p)
      BY <3>1, <3>2, <1>1, <1>5 DEF Places
    <3> QED BY <3>3, <1>0, <1>1, EntryKept
  <2> QED BY <2>1, <2>2
<1>7. leavingBar' = leavingBar
  <2>1. \A u \in Threads : /\ Popping(u)' <=> Popping(u)
                           /\ Popping(u) => u # t /\ pc'[u] = pc[u] /\ f'[u] = f[u] /\ pos'[u] = pos[u]
                                               /\ task'[Cell(pos[u])] = task[Cell(pos[u])]
    BY <1>0, <1>1, <1>3 DEF Popping
  <2> QED BY <2>1, <1>1 DEF leavingBar
<1> QED BY <1>1, <1>6, <1>7, ItemsKept DEF Fifo!vars

\* The task moves from its cell to its popper: it was leaving, and still is.
LEMMA PopMoveView ==
    ASSUME IInv, IInv', NEW t \in Threads, PopMove(t)
    PROVE  UNCHANGED Fifo!vars
<1> DEFINE i == Cell(pos[t])
<1>0. /\ head \in Nat /\ tail \in Nat /\ head <= tail + Capacity /\ i \in Cells
      /\ pc \in [Threads -> {"idle"} \cup PushPcs \cup PopPcs]
      /\ task \in [Cells -> Tasks \cup {Empty}] /\ f \in [Threads -> Tasks \cup {Empty}]
      /\ pos \in [Threads -> Nat] /\ \A p \in Nat : Cell(p) \in Cells
  BY CellType DEF IInv, TypeOK, CellsInv, Counters
<1>1. /\ pc[t] = "popMove" /\ UNCHANGED <<head, tail, sequence, pos>>
      /\ task' = [task EXCEPT ![i] = Empty]
      /\ f' = [f EXCEPT ![t] = task[i]]
      /\ pc' = [pc EXCEPT ![t] = "popRecycle"]
  BY DEF PopMove, Goto
<1>2. Popping(t)
  BY <1>1 DEF Popping
<1>3. \A u \in Threads : u # t /\ (Pushing(u) \/ Popping(u)) => Cell(pos[u]) # i
  BY <1>2, OwnCell
<1>4. \A p \in tail..head - 1 : Cell(p) # i
  BY <1>0, <1>2, CapacityType, PopperPlace
<1>5. Places /\ Places'
  BY PlacesHold, PlacesHoldNext
<1>6. ASSUME NEW p \in tail..head - 1 PROVE Entry(p)' = Entry(p)
  <2> HIDE DEF i
  <2>1. \A u \in Threads : (Moving(u, p)' <=> Moving(u, p)) /\ (Moving(u, p) => f'[u] = f[u])
    BY <1>0, <1>1 DEF Moving
  <2>2. task'[Cell(p)] = task[Cell(p)]
    BY <1>0, <1>1, <1>4
  <2>3. TaskAt(p)' = TaskAt(p)
    BY <2>1, <2>2, <1>1, <1>5 DEF Places
  <2> QED BY <2>3, <1>0, <1>1, EntryKept
<1>7. leavingBar' = leavingBar
  <2> DEFINE left(u) == IF pc[u] = "popMove" THEN task[Cell(pos[u])] ELSE f[u]
  <2>1. \A u \in Threads : (Popping(u)' <=> Popping(u)) /\ (Popping(u) => left(u)' = left(u))
    <3> TAKE u \in Threads
    <3>1. CASE u = t
      BY <3>1, <1>0, <1>1 DEF Popping
    <3>2. CASE u # t
      BY <3>2, <1>0, <1>1, <1>3 DEF Popping
    <3> QED BY <3>1, <3>2
  <2>2. leavingBar = {left(u) : u \in {v \in Threads : Popping(v)}}
    BY DEF leavingBar
  <2>3. leavingBar' = {left(u)' : u \in {v \in Threads : Popping(v)'}}
    BY DEF leavingBar
  <2> HIDE DEF left
  <2> QED BY <2>1, <2>2, <2>3
<1> QED BY <1>1, <1>6, <1>7, ItemsKept DEF Fifo!vars

\* An entry is its task and whether it is published.
LEMMA SameEntry ==
    ASSUME NEW r \in Entries, NEW s \in Entries, r.task = s.task, r.ready = s.ready
    PROVE  r = s
BY DEF Entries

\* Publishing an entry changes only that.
LEMMA ReadyEntry ==
    ASSUME NEW r \in Entries
    PROVE  [r EXCEPT !.ready = TRUE] = [task |-> r.task, ready |-> TRUE]
<1> DEFINE s == [r EXCEPT !.ready = TRUE]
           q == [task |-> r.task, ready |-> TRUE]
<1>1. s \in Entries /\ q \in Entries
  BY DEF Entries
<1>2. s.task = q.task /\ s.ready = q.ready
  BY DEF Entries
<1> HIDE DEF s, q
<1>3. s = q
  BY <1>1, <1>2, SameEntry
<1> QED BY <1>3 DEF s, q

\* The store of the sequence is the publication of the task in the cell.
LEMMA PushPublishView ==
    ASSUME IInv, IInv', NEW t \in Threads, PushPublish(t)
    PROVE  Fifo!Next
<1> DEFINE i == Cell(pos[t])
<1>0. /\ head \in Nat /\ tail \in Nat /\ head <= tail + Capacity /\ i \in Cells
      /\ pc \in [Threads -> {"idle"} \cup PushPcs \cup PopPcs]
      /\ sequence \in [Cells -> Nat] /\ f \in [Threads -> Tasks \cup {Empty}]
      /\ pos \in [Threads -> Nat] /\ \A p \in Nat : Cell(p) \in Cells
  BY CellType DEF IInv, TypeOK, CellsInv, Counters
<1>1. /\ pc[t] = "pushPublish" /\ UNCHANGED <<head, tail, task, f>>
      /\ sequence' = [sequence EXCEPT ![i] = pos[t] + 1]
      /\ pos' = [pos EXCEPT ![t] = 0]
      /\ pc' = [pc EXCEPT ![t] = "idle"]
  BY DEF PushPublish, Goto
<1>2. Pushing(t) /\ pos[t] \in tail..head - 1 /\ sequence[i] = pos[t]
  BY <1>0, <1>1 DEF IInv, CellsInv, Pushers, Pushing
<1>4. \A p \in tail..head - 1 : Cell(p) = i => p = pos[t]
  BY <1>0, <1>2, CapacityType, PusherPlace
<1>5. ItemsType /\ ItemsAt /\ Places /\ Places'
  BY ItemsTypeHolds, ItemsAtHolds, PlacesHold, PlacesHoldNext
<1>6. ASSUME NEW p \in tail..head - 1 PROVE TaskAt(p)' = TaskAt(p)
  <2>1. \A u \in Threads : Moving(u, p)' <=> Moving(u, p)
    BY <1>0, <1>1 DEF Moving
  <2> QED BY <2>1, <1>1, <1>5 DEF Places
<1> DEFINE k == pos[t] - tail + 1
           s == [itemsBar EXCEPT ![k].ready = TRUE]
<1>7. k \in 1..Len(itemsBar) /\ itemsBar \in Seq(Entries) /\ Len(itemsBar) = head - tail
  <2>1. itemsBar \in Seq(Entries) /\ Len(itemsBar) = head - tail
    BY <1>5 DEF ItemsType
  <2>2. k \in 1..head - tail
    BY <1>0, <1>2
  <2> QED BY <2>1, <2>2
<1>8. itemsBar[k] = Entry(pos[t]) /\ itemsBar[k] \in Entries
  <2>1. itemsBar[k] = Entry(pos[t])
    BY <1>2, <1>5 DEF ItemsAt
  <2> HIDE DEF k
  <2> QED BY <2>1, <1>7, ElementOfSeq
<1>9. itemsBar[k].task = TaskAt(pos[t]) /\ ~itemsBar[k].ready /\ TaskAt(pos[t]) \in Tasks
  <2>1. Entry(pos[t]).ready = (sequence[i] = pos[t] + 1) /\ Entry(pos[t]).task = TaskAt(pos[t])
    BY DEF Entry
  <2>2. sequence[i] # pos[t] + 1
    BY <1>0, <1>2
  <2>3. TaskAt(pos[t]) \in Tasks
    BY <1>2, <1>5 DEF Places
  <2> HIDE DEF k, i
  <2> QED BY <2>1, <2>2, <2>3, <1>8
<1>10. /\ s \in Seq(Entries) /\ Len(s) = Len(itemsBar)
       /\ \A j \in 1..Len(itemsBar) :
             s[j] = IF j = k THEN [itemsBar[k] EXCEPT !.ready = TRUE] ELSE itemsBar[j]
  <2>1. [itemsBar[k] EXCEPT !.ready = TRUE] \in Entries
    BY <1>8 DEF Entries
  <2>2. s = [itemsBar EXCEPT ![k] = [itemsBar[k] EXCEPT !.ready = TRUE]]
    OBVIOUS
  <2> HIDE DEF k, s
  <2> QED BY <1>7, <2>1, <2>2, ExceptSeq
<1>11. ASSUME NEW p \in tail'..head' - 1 PROVE s[p - tail' + 1] = Entry(p)'
  <2>0. p \in tail..head - 1 /\ tail' = tail /\ p \in Nat /\ p - tail + 1 \in 1..Len(itemsBar)
    BY <1>0, <1>1, <1>7, <1>11
  <2>1. CASE p = pos[t]
    <3>1. s[p - tail + 1] = [itemsBar[k] EXCEPT !.ready = TRUE]
      BY <2>1, <1>7, <1>10
    <3>2. sequence'[Cell(p)] = p + 1
      BY <2>1, <1>0, <1>1
    <3>3. Entry(p)' = [task |-> TaskAt(p), ready |-> TRUE]
      BY <3>2, <2>0, <1>6 DEF Entry
    <3>5. [itemsBar[k] EXCEPT !.ready = TRUE] = [task |-> TaskAt(p), ready |-> TRUE]
      <4> HIDE DEF k
      <4>1. [itemsBar[k] EXCEPT !.ready = TRUE] = [task |-> itemsBar[k].task, ready |-> TRUE]
        BY <1>8, ReadyEntry
      <4> QED BY <4>1, <1>9, <2>1, Zenon
    <3> HIDE DEF s, k
    <3> QED BY <3>1, <3>3, <3>5, <2>0
  <2>2. CASE p # pos[t]
    <3>1. p - tail + 1 # k
      BY <2>2, <2>0, <1>0
    <3>2. s[p - tail + 1] = itemsBar[p - tail + 1]
      BY <3>1, <2>0, <1>10
    <3>3. itemsBar[p - tail + 1] = Entry(p)
      BY <2>0, <1>5 DEF ItemsAt
    <3>4. sequence'[Cell(p)] = sequence[Cell(p)]
      BY <2>0, <2>2, <1>0, <1>1, <1>4
    <3>5. Entry(p)' = Entry(p)
      BY <3>4, <2>0, <1>6, EntryKept
    <3> QED BY <3>2, <3>3, <3>5, <2>0
  <2> QED BY <2>1, <2>2
<1>12. itemsBar' = s
  <2> HIDE DEF s
  <2> QED BY <1>1, <1>7, <1>10, <1>11, ItemsNext
<1>13. leavingBar' = leavingBar
  BY <1>0, <1>1 DEF leavingBar, Popping
<1>14. Fifo!Publish(TaskAt(pos[t]))
  <2> HIDE DEF k
  <2> QED BY <1>7, <1>9, <1>12, <1>13 DEF Fifo!Publish
<1> QED BY <1>9, <1>14 DEF Fifo!Next

\* The claim of _tail takes the oldest task.
LEMMA PopClaimView ==
    ASSUME IInv, IInv', NEW t \in Threads, PopClaim(t), tail' # tail
    PROVE  Fifo!Next
<1>0. /\ head \in Nat /\ tail \in Nat /\ sequence \in [Cells -> Nat]
      /\ pc \in [Threads -> {"idle"} \cup PushPcs \cup PopPcs] /\ \A p \in Nat : Cell(p) \in Cells
  BY CellType DEF IInv, TypeOK
<1>1. /\ pc[t] = "popClaim" /\ tail = pos[t] /\ tail' = tail + 1
      /\ pc' = [pc EXCEPT ![t] = "popMove"]
      /\ UNCHANGED <<head, sequence, task, pos, f>>
  BY DEF PopClaim, Goto
<1>2. sequence[Cell(tail)] = tail + 1
  BY <1>1 DEF IInv, Trying
<1>3. tail < head /\ task[Cell(tail)] \in Tasks
  BY <1>2, TailFilled
<1>4. ItemsType /\ ItemsAt /\ Places /\ Places'
  BY ItemsTypeHolds, ItemsAtHolds, PlacesHold, PlacesHoldNext
<1> DEFINE x == task[Cell(tail)]
<1>5. itemsBar \in Seq(Entries) /\ Len(itemsBar) = head - tail /\ itemsBar # <<>>
  BY <1>0, <1>3, <1>4 DEF ItemsType
<1>6. Head(itemsBar) = Entry(tail)
  <2>1. tail \in tail..head - 1 /\ tail - tail + 1 = 1
    BY <1>0, <1>3
  <2>2. itemsBar[1] = Entry(tail)
    BY <2>1, <1>4 DEF ItemsAt
  <2> QED BY <2>2, <1>5
<1>7. Entry(tail).task = x /\ Entry(tail).ready
  <2>1. \A u \in Threads : ~Moving(u, tail)
    BY <1>0, <1>2 DEF IInv, CellsInv, Pushers, Pushing, Moving
  <2>2. TaskAt(tail) = x
    BY <2>1, <1>0, <1>3, <1>4 DEF Places
  <2>3. Entry(tail).task = TaskAt(tail) /\ Entry(tail).ready = (sequence[Cell(tail)] = tail + 1)
    BY DEF Entry
  <2> HIDE DEF x
  <2> QED BY <2>2, <2>3, <1>2
<1>8. ASSUME NEW p \in tail'..head' - 1 PROVE Tail(itemsBar)[p - tail' + 1] = Entry(p)'
  <2>0. p \in tail..head - 1 /\ p \in Nat /\ p - tail' + 1 \in 1..Len(itemsBar) - 1
    <3>1. tail' = tail + 1 /\ head' = head
      BY <1>1
    <3>2. p \in (tail + 1)..head - 1
      BY <3>1
    <3>3. p \in tail..head - 1 /\ p \in Nat /\ p - (tail + 1) + 1 \in 1..(head - tail) - 1
      BY <3>2, <1>0
    <3> QED BY <3>1, <3>3, <1>5
  <2>1. \A u \in Threads : Moving(u, p)' <=> Moving(u, p)
    BY <1>0, <1>1 DEF Moving
  <2>2. TaskAt(p)' = TaskAt(p)
    BY <2>0, <2>1, <1>1, <1>4 DEF Places
  <2>3. Entry(p)' = Entry(p)
    BY <2>0, <2>2, <1>1, EntryKept
  <2>4. itemsBar[p - tail + 1] = Entry(p)
    BY <2>0, <1>4 DEF ItemsAt
  <2>5. Tail(itemsBar)[p - tail' + 1] = itemsBar[p - tail' + 1 + 1]
    BY <2>0, <1>5, HeadTailProperties
  <2>6. p - tail' + 1 + 1 = p - tail + 1
    BY <1>0, <1>1, <2>0
  <2> QED BY <2>3, <2>4, <2>5, <2>6
<1>9. itemsBar' = Tail(itemsBar)
  <2>1. Tail(itemsBar) \in Seq(Entries) /\ Len(Tail(itemsBar)) = Len(itemsBar) - 1
    BY <1>5, HeadTailProperties
  <2>2. Len(Tail(itemsBar)) = head' - tail'
    BY <2>1, <1>0, <1>1, <1>5
  <2> QED BY <2>1, <2>2, <1>8, ItemsNext
<1>10. leavingBar' = leavingBar \cup {x}
  <2> DEFINE left(u) == IF pc[u] = "popMove" THEN task[Cell(pos[u])] ELSE f[u]
  <2>1. /\ \A u \in Threads : /\ Popping(u)' <=> Popping(u) \/ u = t
                              /\ Popping(u) => left(u)' = left(u)
        /\ left(t)' = x
    BY <1>0, <1>1 DEF Popping
  <2>2. leavingBar = {left(u) : u \in {v \in Threads : Popping(v)}}
    BY DEF leavingBar
  <2>3. leavingBar' = {left(u)' : u \in {v \in Threads : Popping(v)'}}
    BY DEF leavingBar
  <2> HIDE DEF left, x
  <2> QED BY <2>1, <2>2, <2>3
<1>11. Fifo!Take(x)
  BY <1>5, <1>6, <1>7, <1>9, <1>10 DEF Fifo!Take, Fifo!MayBeEmpty
<1> QED BY <1>3, <1>11 DEF Fifo!Next

\* The cell is free, the caller has its task.
LEMMA PopRecycleView ==
    ASSUME IInv, IInv', NEW t \in Threads, PopRecycle(t)
    PROVE  Fifo!Next
<1> DEFINE i == Cell(pos[t])
<1>0. /\ head \in Nat /\ tail \in Nat /\ head <= tail + Capacity /\ i \in Cells
      /\ pc \in [Threads -> {"idle"} \cup PushPcs \cup PopPcs]
      /\ sequence \in [Cells -> Nat] /\ f \in [Threads -> Tasks \cup {Empty}]
      /\ pos \in [Threads -> Nat] /\ \A p \in Nat : Cell(p) \in Cells
  BY CellType DEF IInv, TypeOK, CellsInv, Counters
<1>1. /\ pc[t] = "popRecycle" /\ UNCHANGED <<head, tail, task>>
      /\ sequence' = [sequence EXCEPT ![i] = pos[t] + Capacity]
      /\ f' = [f EXCEPT ![t] = Empty]
      /\ pos' = [pos EXCEPT ![t] = 0]
      /\ pc' = [pc EXCEPT ![t] = "idle"]
  BY DEF PopRecycle, Goto
<1>2. Popping(t) /\ f[t] \in Tasks
  BY <1>0, <1>1 DEF IInv, CellsInv, Poppers, Popping
<1>4. \A p \in tail..head - 1 : Cell(p) # i
  BY <1>0, <1>2, CapacityType, PopperPlace
<1>5. Places /\ Places'
  BY PlacesHold, PlacesHoldNext
<1>6. ASSUME NEW p \in tail..head - 1 PROVE Entry(p)' = Entry(p)
  <2> HIDE DEF i
  <2>1. \A u \in Threads : (Moving(u, p)' <=> Moving(u, p)) /\ (Moving(u, p) => f'[u] = f[u])
    BY <1>0, <1>1 DEF Moving
  <2>2. TaskAt(p)' = TaskAt(p)
    BY <2>1, <1>1, <1>5 DEF Places
  <2>3. sequence'[Cell(p)] = sequence[Cell(p)]
    BY <1>0, <1>1, <1>4
  <2> QED BY <2>2, <2>3, <1>0, EntryKept
<1>7. leavingBar' = leavingBar \ {f[t]}
  <2> DEFINE left(u) == IF pc[u] = "popMove" THEN task[Cell(pos[u])] ELSE f[u]
  <2>1. /\ \A u \in Threads : /\ Popping(u)' <=> Popping(u) /\ u # t
                              /\ Popping(u)' => left(u)' = left(u)
        /\ left(t) = f[t]
    BY <1>0, <1>1 DEF Popping
  <2>2. \A u \in Threads : u # t => left(u) # f[t]
    BY <1>0, <1>2 DEF IInv, TasksInv, OnePlace
  <2>3. leavingBar = {left(u) : u \in {v \in Threads : Popping(v)}}
    BY DEF leavingBar
  <2>4. leavingBar' = {left(u)' : u \in {v \in Threads : Popping(v)'}}
    BY DEF leavingBar
  <2> HIDE DEF left
  <2> QED BY <2>1, <2>2, <2>3, <2>4
<1>8. f[t] \in leavingBar
  BY <1>1, <1>2 DEF leavingBar
<1>9. itemsBar' = itemsBar
  BY <1>1, <1>6, ItemsKept
<1> QED BY <1>2, <1>7, <1>8, <1>9 DEF Fifo!Next, Fifo!Recycle

\* Every step of the queue is a step of the abstract queue, or none.
LEMMA ViewStep == IInv /\ IInv' /\ [Next]_vars => [Fifo!Next]_(Fifo!vars)
<1> SUFFICES ASSUME IInv, IInv', [Next]_vars PROVE Fifo!Next \/ UNCHANGED Fifo!vars
  OBVIOUS
<1>1. CASE UNCHANGED vars
  BY <1>1, LookView DEF vars, cellVars
<1>2. ASSUME NEW t \in Threads, Push(t) \/ Pop(t) PROVE Fifo!Next \/ UNCHANGED Fifo!vars
  <2>0. pc \in [Threads -> {"idle"} \cup PushPcs \cup PopPcs]
    BY DEF IInv, TypeOK
  <2> DEFINE Looks == /\ UNCHANGED cellVars
                      /\ \A u \in Threads : Pushing(u) \/ Popping(u) \/ Pushing(u)' \/ Popping(u)' =>
                                               pc'[u] = pc[u] /\ pos'[u] = pos[u] /\ f'[u] = f[u]
  <2>1. CASE (\E x \in Tasks : PushLoad(t, x)) \/ PushSequence(t) \/ PopLoad(t) \/ PopSequence(t)
    <3>1. Looks
      BY <2>0, <2>1 DEF IInv, TypeOK, Pushing, Popping, PushLoad, PushSequence, PopLoad, PopSequence, Goto, StaleLoad
    <3> QED BY <3>1, LookView
  <2>2. CASE PushClaim(t)
    <3>1. CASE head' = head
      <4>1. Looks
        BY <2>0, <2>2, <3>1 DEF IInv, TypeOK, Pushing, Popping, PushClaim, Goto, cellVars
      <4> QED BY <4>1, LookView
    <3> QED BY <2>2, <3>1, PushClaimView
  <2>3. CASE PopClaim(t)
    <3>1. CASE tail' = tail
      <4>1. Looks
        BY <2>0, <2>3, <3>1 DEF IInv, TypeOK, Pushing, Popping, PopClaim, Goto, cellVars
      <4> QED BY <4>1, LookView
    <3> QED BY <2>3, <3>1, PopClaimView
  <2> QED BY <1>2, <2>1, <2>2, <2>3, PushMoveView, PushPublishView, PopMoveView, PopRecycleView DEF Push, Pop
<1> QED BY <1>1, <1>2 DEF Next

\* An empty queue is an empty abstract queue.
LEMMA InitView == Init => Fifo!Init
<1> SUFFICES ASSUME Init PROVE itemsBar = <<>> /\ leavingBar = {}
  BY DEF Fifo!Init
<1>1. IInv
  BY InitInv
<1>2. itemsBar \in Seq(Entries) /\ Len(itemsBar) = 0
  BY <1>1, ItemsTypeHolds DEF ItemsType, Init
<1>3. leavingBar = {}
  BY DEF leavingBar, Init, Popping
<1> QED BY <1>2, <1>3, EmptySeq

\* The lock-free queue is the bounded queue that TaskQueue describes and ThreadPool builds on:
\* each claim of _head, publication, claim of _tail and recycling is a step of it, in that
\* order, and no other access to shared memory can be told from nothing.
THEOREM RefinesFifo == Spec => ImplementsFifo
<1>1. Spec => Fifo!Init
  BY InitView DEF Spec
<1>2. Spec => [][Fifo!Next]_(Fifo!vars)
  BY ViewStep, InvAlways, PTL DEF Spec
<1> QED BY <1>1, <1>2 DEF ImplementsFifo, Fifo!Spec
====
