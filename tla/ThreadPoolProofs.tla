-------------------------- MODULE ThreadPoolProofs --------------------------
(***************************************************************************)
(* Proofs about ThreadPool, for any workers, clients, tasks and capacity:   *)
(* a started task is in one place, and the workers are never all asleep     *)
(* over a task nobody is about to notify them of.                           *)
(***************************************************************************)
EXTENDS ThreadPool, SequenceTheorems, FiniteSetTheorems, TLAPS

-----------------------------------------------------------------------------
(* The inductive invariant. *)

Pcs == StartPcs \cup WorkerPcs \cup DestroyPcs \cup {"idle", "gone"}

\* What a thread's locals hold at each step of it.
Locals ==
    /\ pc \in [Threads -> Pcs]
    /\ \A t \in Threads : pc[t] \in StartPcs => starting[t] \in Tasks
    /\ \A w \in Workers : running[w] \in Tasks <=> pc[w] \in StartPcs \cup {"recycling", "running"}
    /\ \A w \in asleep : pc[w] = "wait"
    /\ \A w \in Workers : seen[w] <= version

\* No two places hold the same task.
OnePlace ==
    /\ \A t, u \in Threads :
          pc[t] = "pushing" /\ pc[u] = "pushing" /\ starting[t] = starting[u] => t = u
    /\ \A i, j \in 1..Len(items) : items[i].task = items[j].task => i = j
    /\ \A w, v \in Workers : running[w] \in Tasks /\ running[w] = running[v] => w = v
    /\ \A t \in Threads : pc[t] = "pushing" =>
          /\ \A i \in 1..Len(items) : items[i].task # starting[t]
          /\ \A w \in Workers : running[w] # starting[t]
          /\ starting[t] \notin run
    /\ \A i \in 1..Len(items) :
          /\ \A w \in Workers : running[w] # items[i].task
          /\ items[i].task \notin run
    /\ \A w \in Workers : running[w] \notin run

Located ==
    \A x \in Tasks : x \in started <=>
       \/ \E t \in Threads : pc[t] = "pushing" /\ starting[t] = x
       \/ \E i \in 1..Len(items) : items[i].task = x
       \/ \E w \in Workers : running[w] = x
       \/ x \in run

\* A place claimed and not published has its starter about to publish it.
Published ==
    \A i \in 1..Len(items) : items[i].ready
       \/ \E t \in Threads : pc[t] = "publishing" /\ starting[t] = items[i].task

\* A worker that waits, or is about to, on the version of now, with a task in the queue, will
\* see the version change: some starter has yet to add to it.
Awake ==
    \A w \in Workers : pc[w] = "wait" /\ seen[w] = version /\ items # <<>> =>
       \E t \in Threads : pc[t] \in {"publishing", "bumping"}


-----------------------------------------------------------------------------
(* What the queue's operations make of its items. *)

Entries == [task : Tasks, ready : BOOLEAN]

\* A push claims the last place of the queue.
LEMMA ClaimItems ==
    ASSUME TypeOK, NEW x \in Tasks, Queue!Claim(x)
    PROVE  /\ items' \in Seq(Entries) /\ leaving' = leaving
           /\ Len(items') = Len(items) + 1 /\ Len(items) \in Nat
           /\ \A i \in 1..Len(items) : items'[i] = items[i]
           /\ items'[Len(items) + 1].task = x
<1> DEFINE e == [task |-> x, ready |-> FALSE]
<1>1. items \in Seq(Entries) /\ e \in Entries /\ e.task = x
  BY DEF TypeOK, Entries
<1>2. items' = Append(items, e) /\ leaving' = leaving
  BY DEF Queue!Claim
<1> HIDE DEF e
<1>3. Len(items) \in Nat
  BY <1>1, LenProperties
<1>4. /\ Append(items, e) \in Seq(Entries)
      /\ Len(Append(items, e)) = Len(items) + 1
      /\ \A i \in 1..Len(items) : Append(items, e)[i] = items[i]
      /\ Append(items, e)[Len(items) + 1] = e
  BY <1>1, AppendProperties
<1> QED BY <1>1, <1>2, <1>3, <1>4

\* A push publishes its place, which keeps its task.
LEMMA PublishItems ==
    ASSUME TypeOK, NEW x, Queue!Publish(x)
    PROVE  /\ items' \in Seq(Entries) /\ leaving' = leaving
           /\ Len(items') = Len(items) /\ Len(items) \in Nat
           /\ \E k \in 1..Len(items) :
                 /\ items[k].task = x /\ items'[k].task = x /\ items'[k].ready
                 /\ \A i \in 1..Len(items) : i # k => items'[i] = items[i]
<1>1. items \in Seq(Entries) /\ leaving' = leaving
  BY DEF TypeOK, Entries, Queue!Publish
<1>2. PICK k \in 1..Len(items) : items[k].task = x /\ items' = [items EXCEPT ![k].ready = TRUE]
  BY DEF Queue!Publish
<1>3. items[k] \in Entries /\ Len(items) \in Nat
  BY <1>1, ElementOfSeq, LenProperties
<1> DEFINE e == [items[k] EXCEPT !.ready = TRUE]
<1>4. e \in Entries /\ e.task = items[k].task /\ e.ready
  BY <1>3 DEF Entries
<1>5. items' = [items EXCEPT ![k] = e]
  BY <1>2
<1> HIDE DEF e
<1>6. /\ [items EXCEPT ![k] = e] \in Seq(Entries)
      /\ Len([items EXCEPT ![k] = e]) = Len(items)
      /\ \A i \in 1..Len(items) : [items EXCEPT ![k] = e][i] = IF i = k THEN e ELSE items[i]
  BY <1>1, <1>4, ExceptSeq
<1>7. /\ items' \in Seq(Entries) /\ Len(items') = Len(items)
      /\ \A i \in 1..Len(items) : items'[i] = IF i = k THEN e ELSE items[i]
  BY <1>5, <1>6, Zenon
<1> QED BY <1>1, <1>2, <1>3, <1>4, <1>7

\* A pop takes the first place, which was published.
LEMMA TakeItems ==
    ASSUME TypeOK, NEW x, Queue!Take(x)
    PROVE  /\ items' \in Seq(Entries) /\ leaving' = leaving \cup {x}
           /\ items # <<>> /\ items[1].task = x /\ x \in Tasks
           /\ Len(items') = Len(items) - 1 /\ Len(items) \in Nat \ {0}
           /\ \A i \in 1..Len(items') : items'[i] = items[i + 1]
<1>1. items \in Seq(Entries) /\ items # <<>> /\ Head(items).task = x
  BY DEF TypeOK, Entries, Queue!Take, Queue!MayBeEmpty
<1>2. items' = Tail(items) /\ leaving' = leaving \cup {x}
  BY DEF Queue!Take
<1>3. Len(items) \in Nat \ {0}
  BY <1>1, EmptySeq
<1>4. Head(items) = items[1] /\ items[1] \in Entries
  BY <1>1, <1>3, ElementOfSeq
<1>5. x \in Tasks
  BY <1>1, <1>4 DEF Entries
<1> QED BY <1>1, <1>2, <1>3, <1>4, <1>5, HeadTailProperties

\* A queue is empty when it has no places.
LEMMA NoItems == ASSUME TypeOK PROVE items = <<>> <=> Len(items) = 0
BY EmptySeq DEF TypeOK

-----------------------------------------------------------------------------
(* Types. *)

\* The pool starts with its workers at the top of their loops.
LEMMA InitTypes == Init => TypeOK /\ Locals
<1> SUFFICES ASSUME Init PROVE TypeOK /\ Locals
  OBVIOUS
<1>1. items \in Seq([task : Tasks, ready : BOOLEAN])
  BY EmptySeq DEF Init, Queue!Init
<1> USE DEF Threads, StartPcs, WorkerPcs, DestroyPcs
<1>2. TypeOK
  BY <1>1 DEF Init, TypeOK, Queue!Init
<1>3. Locals
  BY NoneAssumption DEF Init, Locals, Pcs
<1> QED BY <1>2, <1>3

\* Every step keeps the types and what a thread has at each of its places in the code.
LEMMA StepTypes ==
    ASSUME TypeOK, Locals, [Next]_vars
    PROVE  TypeOK' /\ Locals'
<1> USE ThreadsAssumption, NoneAssumption
    DEF TypeOK, Locals, Pcs, Goto, Home, Threads, StartPcs, WorkerPcs, DestroyPcs, queueVars, taskVars
<1>0. CASE UNCHANGED vars
  BY <1>0 DEF vars
<1>1. ASSUME NEW t \in Threads, NEW x \in Tasks, StartTask(t, x) PROVE TypeOK' /\ Locals'
  BY <1>1 DEF StartTask
<1>2. ASSUME NEW t \in Threads, TryPush(t) PROVE TypeOK' /\ Locals'
  <2>1. Queue!Claim(starting[t]) /\ starting[t] \in Tasks
    BY <1>2 DEF TryPush
  <2>2. items' \in Seq([task : Tasks, ready : BOOLEAN]) /\ leaving' = leaving
    BY <2>1, ClaimItems DEF Entries
  <2> QED BY <1>2, <2>2 DEF TryPush
<1>3. ASSUME NEW t \in Threads, PublishTask(t) PROVE TypeOK' /\ Locals'
  <2>1. Queue!Publish(starting[t])
    BY <1>3 DEF PublishTask
  <2>2. items' \in Seq([task : Tasks, ready : BOOLEAN]) /\ leaving' = leaving
    BY <2>1, PublishItems DEF Entries
  <2> QED BY <1>3, <2>2 DEF PublishTask
<1>4. ASSUME NEW t \in Threads, BumpVersion(t) PROVE TypeOK' /\ Locals'
  BY <1>4 DEF BumpVersion
<1>5. ASSUME NEW t \in Threads, NotifyOne(t) PROVE TypeOK' /\ Locals'
  BY <1>5 DEF NotifyOne
<1>6. ASSUME NEW w \in Workers, NEW x \in Tasks, PopTask(w, x) PROVE TypeOK' /\ Locals'
  <2>1. Queue!Take(x)
    BY <1>6 DEF PopTask
  <2>2. items' \in Seq([task : Tasks, ready : BOOLEAN]) /\ leaving' \subseteq Tasks
    BY <2>1, TakeItems DEF Entries
  <2> QED BY <1>6, <2>2 DEF PopTask
<1>7. ASSUME NEW w \in Workers, RecycleCell(w) PROVE TypeOK' /\ Locals'
  BY <1>7 DEF RecycleCell, Queue!Recycle
<1>8. ASSUME NEW w \in Workers, PopNothing(w) PROVE TypeOK' /\ Locals'
  <2>1. CASE Goto(w, "checkStop") /\ pc[w] = "pop"
    BY <1>8, <2>1 DEF PopNothing
  <2>2. CASE Goto(w, "wait") /\ pc[w] = "popAgain"
    BY <1>8, <2>2 DEF PopNothing
  <2> QED BY <1>8, <2>1, <2>2 DEF PopNothing
<1>9. ASSUME NEW w \in Workers, CheckStop(w) PROVE TypeOK' /\ Locals'
  BY <1>9 DEF CheckStop
<1>10. ASSUME NEW w \in Workers, Snapshot(w) PROVE TypeOK' /\ Locals'
  BY <1>10 DEF Snapshot
<1>11. ASSUME NEW w \in Workers, Wait(w) PROVE TypeOK' /\ Locals'
  BY <1>11 DEF Wait
<1>12. ASSUME NEW w \in Workers, TaskDone(w) PROVE TypeOK' /\ Locals'
  BY <1>12 DEF TaskDone
<1>13. ASSUME NEW c \in Clients, DropHandle(c) PROVE TypeOK' /\ Locals'
  BY <1>13 DEF DropHandle
<1>14. ASSUME NEW c \in Clients, StopStore(c) PROVE TypeOK' /\ Locals'
  BY <1>14 DEF StopStore
<1>15. ASSUME NEW c \in Clients, StopBump(c) PROVE TypeOK' /\ Locals'
  BY <1>15 DEF StopBump
<1>16. ASSUME NEW c \in Clients, StopNotifyAll(c) PROVE TypeOK' /\ Locals'
  BY <1>16 DEF StopNotifyAll
<1>17. ASSUME NEW c \in Clients, Join(c) PROVE TypeOK' /\ Locals'
  BY <1>17 DEF Join
<1> QED BY <1>0, <1>1, <1>2, <1>3, <1>4, <1>5, <1>6, <1>7, <1>8, <1>9, <1>10, <1>11, <1>12,
           <1>13, <1>14, <1>15, <1>16, <1>17 DEF Next, Start, Work, Destroy

-----------------------------------------------------------------------------
(* Each task in one place. *)

\* Steps that move no task.
LEMMA PlacesKept ==
    ASSUME OnePlace, Located, UNCHANGED <<running, run, started>>,
           Len(items') = Len(items), \A i \in 1..Len(items) : items'[i].task = items[i].task,
           \A t \in Threads : /\ pc'[t] = "pushing" <=> pc[t] = "pushing"
                              /\ pc[t] = "pushing" => starting'[t] = starting[t]
    PROVE  OnePlace' /\ Located'
<1>1. OnePlace'
  BY DEF OnePlace
<1>2. Located'
  BY DEF Located
<1> QED BY <1>1, <1>2

\* A start leaves each task in one place, and every started task in some place.
LEMMA StartPlaces ==
    ASSUME TypeOK, Locals, OnePlace, Located, NEW t \in Threads, NEW x \in Tasks, StartTask(t, x)
    PROVE  OnePlace' /\ Located'
<1>1. /\ UNCHANGED <<items, run, running>> /\ started' = started \cup {x} /\ x \notin started
      /\ \A u \in Threads : u # t => pc'[u] = pc[u] /\ starting'[u] = starting[u]
      /\ pc[t] # "pushing" /\ pc'[t] = "pushing" /\ starting'[t] = x
  BY DEF StartTask, Goto, Locals, TypeOK, queueVars, Home
<1>2. /\ \A u \in Threads : pc[u] = "pushing" => starting[u] # x
      /\ \A i \in 1..Len(items) : items[i].task # x
      /\ \A w \in Workers : running[w] # x
      /\ x \notin run
  BY <1>1 DEF Located
<1>3. OnePlace'
  BY <1>1, <1>2 DEF OnePlace
<1>4. Located'
  BY <1>1 DEF Located
<1> QED BY <1>3, <1>4

\* A push into the queue leaves each task in one place, and every started task in some place.
LEMMA PushPlaces ==
    ASSUME TypeOK, Locals, OnePlace, Located, NEW t \in Threads, TryPush(t)
    PROVE  OnePlace' /\ Located'
<1> DEFINE n == Len(items)
           x == starting[t]
<1>1. /\ UNCHANGED <<run, running, started, starting>> /\ x \in Tasks
      /\ pc[t] = "pushing" /\ pc'[t] # "pushing"
      /\ \A u \in Threads : u # t => pc'[u] = pc[u]
  BY DEF TryPush, Goto, Locals, taskVars, StartPcs
<1>2. /\ n \in Nat /\ Len(items') = n + 1
      /\ \A i \in 1..n : items'[i] = items[i]
      /\ items'[n + 1].task = x
  BY <1>1, ClaimItems DEF TryPush
<1> HIDE DEF n
<1>3. \A i \in 1..n + 1 : i \in 1..n \/ i = n + 1
  BY <1>2
<1>4. /\ \A i \in 1..n : items[i].task # x /\ items'[i].task = items[i].task
      /\ \A w \in Workers : running[w] # x
      /\ x \notin run
      /\ \A u \in Threads : u # t /\ pc[u] = "pushing" => starting[u] # x
  BY <1>1, <1>2 DEF OnePlace, n
<1> HIDE DEF x
<1>5. \A i, j \in 1..n : items[i].task = items[j].task => i = j
  BY DEF OnePlace, n
<1>6. \A i, j \in 1..Len(items') : items'[i].task = items'[j].task => i = j
  BY <1>2, <1>3, <1>4, <1>5
<1>7. \A u \in Threads : pc'[u] = "pushing" =>
         /\ \A i \in 1..Len(items') : items'[i].task # starting'[u]
         /\ \A w \in Workers : running'[w] # starting'[u]
         /\ starting'[u] \notin run'
  BY <1>1, <1>2, <1>3, <1>4 DEF OnePlace, n
<1>8. \A i \in 1..Len(items') :
         /\ \A w \in Workers : running'[w] # items'[i].task
         /\ items'[i].task \notin run'
  BY <1>1, <1>2, <1>3, <1>4 DEF OnePlace, n
<1>9. OnePlace'
  BY <1>1, <1>6, <1>7, <1>8 DEF OnePlace
<1>10. ASSUME NEW y \in Tasks
       PROVE  (\E i \in 1..n + 1 : items'[i].task = y) <=> (\E i \in 1..n : items[i].task = y) \/ y = x
  <2>1. n + 1 \in 1..n + 1 /\ \A i \in 1..n : i \in 1..n + 1
    BY <1>2
  <2> QED BY <2>1, <1>2, <1>3
<1>11. ASSUME NEW y \in Tasks
       PROVE  (\E u \in Threads : pc[u] = "pushing" /\ starting[u] = y)
              <=> (\E u \in Threads : pc'[u] = "pushing" /\ starting'[u] = y) \/ y = x
  BY <1>1, <1>4 DEF x
<1>12. Located'
  BY <1>1, <1>2, <1>10, <1>11 DEF Located, n
<1> QED BY <1>9, <1>12

\* A pop leaves each task in one place, and every started task in some place.
LEMMA PopPlaces ==
    ASSUME TypeOK, Locals, OnePlace, Located, NEW w \in Workers, NEW x \in Tasks, PopTask(w, x)
    PROVE  OnePlace' /\ Located'
<1> DEFINE n == Len(items)
<1>1. /\ UNCHANGED <<run, started, starting>>
      /\ running' = [running EXCEPT ![w] = x] /\ running \in [Workers -> Tasks \cup {None}]
      /\ running[w] \notin Tasks
      /\ \A t \in Threads : pc'[t] = "pushing" <=> pc[t] = "pushing"
  BY DEF PopTask, Goto, Locals, TypeOK, taskVars, StartPcs
<1>2. /\ items[1].task = x /\ n \in Nat \ {0} /\ Len(items') = n - 1
      /\ \A i \in 1..n - 1 : items'[i] = items[i + 1]
  BY TakeItems DEF PopTask
<1> HIDE DEF n
<1>3. \A i \in 1..n - 1 : i + 1 \in 1..n /\ i + 1 # 1
  BY <1>2
<1>4. 1 \in 1..n
  BY <1>2
<1>5. \A i \in 1..n - 1 : items'[i].task # x
  BY <1>2, <1>3, <1>4 DEF OnePlace, n
<1>6. /\ \A t \in Threads : pc[t] = "pushing" => starting[t] # x
      /\ \A v \in Workers : running[v] # x
      /\ x \notin run
  BY <1>2, <1>4 DEF OnePlace, n
<1>7. \A i, j \in 1..Len(items') : items'[i].task = items'[j].task => i = j
  <2> TAKE i, j \in 1..Len(items')
  <2>1. items[i + 1].task = items[j + 1].task => i + 1 = j + 1
    BY <1>2, <1>3 DEF OnePlace, n
  <2> QED BY <2>1, <1>2
<1>8. \A u \in Threads : pc'[u] = "pushing" =>
         /\ \A i \in 1..Len(items') : items'[i].task # starting'[u]
         /\ \A v \in Workers : running'[v] # starting'[u]
         /\ starting'[u] \notin run'
  BY <1>1, <1>2, <1>3, <1>6 DEF OnePlace, n
<1>9. \A i \in 1..Len(items') :
         /\ \A v \in Workers : running'[v] # items'[i].task
         /\ items'[i].task \notin run'
  BY <1>1, <1>2, <1>3, <1>5 DEF OnePlace, n
<1>10. OnePlace'
  BY <1>1, <1>6, <1>7, <1>8, <1>9 DEF OnePlace
<1>11. ASSUME NEW y \in Tasks
       PROVE  (\E i \in 1..n : items[i].task = y) <=> (\E i \in 1..n - 1 : items'[i].task = y) \/ y = x
  <2>1. \A i \in 1..n : i = 1 \/ (i - 1 \in 1..n - 1 /\ (i - 1) + 1 = i)
    BY <1>2
  <2>2. ASSUME NEW i \in 1..n, items[i].task = y, y # x PROVE \E j \in 1..n - 1 : items'[j].task = y
    <3>1. i - 1 \in 1..n - 1 /\ (i - 1) + 1 = i
      BY <2>1, <2>2, <1>2
    <3>2. items'[i - 1] = items[i]
      BY <3>1, <1>2
    <3> QED BY <2>2, <3>1, <3>2
  <2>3. ASSUME NEW j \in 1..n - 1, items'[j].task = y PROVE \E i \in 1..n : items[i].task = y
    BY <2>3, <1>2, <1>3
  <2> QED BY <2>2, <2>3, <1>2, <1>4
<1>12. ASSUME NEW y \in Tasks
       PROVE  (\E v \in Workers : running'[v] = y) <=> (\E v \in Workers : running[v] = y) \/ y = x
  BY <1>1
<1>13. Located'
  BY <1>1, <1>2, <1>11, <1>12 DEF Located, n
<1> QED BY <1>10, <1>13

\* The end of a task leaves each task in one place, and every started task in some place.
LEMMA DonePlaces ==
    ASSUME TypeOK, Locals, OnePlace, Located, NEW w \in Workers, TaskDone(w)
    PROVE  OnePlace' /\ Located'
<1>1. /\ UNCHANGED <<items, started, starting>>
      /\ run' = run \cup {running[w]} /\ running' = [running EXCEPT ![w] = None]
      /\ running \in [Workers -> Tasks \cup {None}] /\ running[w] \in Tasks
      /\ run \subseteq Tasks
      /\ \A t \in Threads : pc'[t] = "pushing" <=> pc[t] = "pushing"
  BY DEF TaskDone, Goto, Locals, TypeOK, queueVars, StartPcs
<1>2. \A t \in Threads : pc[t] = "pushing" => starting[t] \in Tasks
  BY DEF Locals, StartPcs
<1>3. \A i \in 1..Len(items) : items[i].task \in Tasks
  <2>1. items \in [1..Len(items) -> [task : Tasks, ready : BOOLEAN]]
    BY LenProperties DEF TypeOK
  <2> QED BY <2>1
<1>4. OnePlace'
  BY <1>1, <1>2, <1>3, NoneAssumption DEF OnePlace
<1>5. Located'
  BY <1>1, NoneAssumption DEF Located
<1> QED BY <1>4, <1>5

\* Every step leaves each task in one place, and every started task in some place.
LEMMA StepPlaces ==
    ASSUME TypeOK, Locals, OnePlace, Located, [Next]_vars
    PROVE  OnePlace' /\ Located'
<1>0. CASE UNCHANGED vars
  BY <1>0, PlacesKept DEF vars, queueVars, taskVars
<1>1. ASSUME NEW t \in Threads, PublishTask(t) PROVE OnePlace' /\ Located'
  <2>1. /\ Len(items') = Len(items)
        /\ \A i \in 1..Len(items) : items'[i].task = items[i].task
    BY <1>1, PublishItems DEF PublishTask
  <2> QED BY <1>1, <2>1, PlacesKept DEF PublishTask, taskVars, Goto, Locals
<1>2. ASSUME NEW t \in Threads, BumpVersion(t) \/ NotifyOne(t) PROVE OnePlace' /\ Located'
  BY <1>2, PlacesKept, ThreadsAssumption
     DEF BumpVersion, NotifyOne, queueVars, taskVars, Goto, Locals, TypeOK, Home, Threads
<1>3. ASSUME NEW w \in Workers, RecycleCell(w) PROVE OnePlace' /\ Located'
  BY <1>3, PlacesKept DEF RecycleCell, Queue!Recycle, taskVars, Goto, Locals
<1>4. ASSUME NEW w \in Workers, PopNothing(w) PROVE OnePlace' /\ Located'
  BY <1>4, PlacesKept DEF PopNothing, queueVars, taskVars, Goto, Locals
<1>5. ASSUME NEW w \in Workers, CheckStop(w) \/ Snapshot(w) \/ Wait(w) PROVE OnePlace' /\ Located'
  BY <1>5, PlacesKept DEF CheckStop, Snapshot, Wait, queueVars, taskVars, Goto, Locals
<1>6. ASSUME NEW c \in Clients, DropHandle(c) \/ StopStore(c) \/ StopBump(c) \/ Join(c)
      PROVE  OnePlace' /\ Located'
  BY <1>6, PlacesKept DEF DropHandle, StopStore, StopBump, Join, queueVars, taskVars, Goto, Locals
<1>7. ASSUME NEW c \in Clients, StopNotifyAll(c) PROVE OnePlace' /\ Located'
  <2>1. \A t \in Threads : pc'[t] = "pushing" <=> pc[t] = "pushing"
    BY <1>7 DEF StopNotifyAll, Locals
  <2> QED BY <1>7, <2>1, PlacesKept DEF StopNotifyAll, queueVars, taskVars
<1> QED BY <1>0, <1>1, <1>2, <1>3, <1>4, <1>5, <1>6, <1>7, StartPlaces, PushPlaces, PopPlaces, DonePlaces
        DEF Next, Start, Work, Destroy

-----------------------------------------------------------------------------
(* No wake-up lost. *)

SleepInv == Published /\ Awake /\ NoLostWakeup

\* Steps that leave the queue, the version and the starters alone, and send nobody to wait.
LEMMA SleepKept ==
    ASSUME SleepInv, UNCHANGED <<items, version>>, asleep' = Workers => asleep = Workers,
           \A t \in Threads : pc[t] \in {"publishing", "bumping", "notifying"} =>
                                 pc'[t] = pc[t] /\ starting'[t] = starting[t],
           \A w \in Workers : pc'[w] = "wait" => pc[w] = "wait" /\ seen'[w] = seen[w]
    PROVE  SleepInv'
<1>1. Published'
  BY DEF SleepInv, Published
<1>2. Awake'
  BY DEF SleepInv, Awake
<1>3. NoLostWakeup'
  BY DEF SleepInv, NoLostWakeup
<1> QED BY <1>1, <1>2, <1>3 DEF SleepInv

\* A push has yet to publish, and then to add to the version: no wake-up is lost.
LEMMA PushSleep ==
    ASSUME TypeOK, Locals, SleepInv, NEW t \in Threads, TryPush(t)
    PROVE  SleepInv'
<1>1. /\ UNCHANGED starting /\ starting[t] \in Tasks
      /\ pc[t] = "pushing" /\ pc'[t] = "publishing"
      /\ \A u \in Threads : u # t => pc'[u] = pc[u]
  BY DEF TryPush, Goto, Locals, taskVars, StartPcs
<1>2. /\ Len(items) \in Nat /\ Len(items') = Len(items) + 1
      /\ \A i \in 1..Len(items) : items'[i] = items[i]
      /\ items'[Len(items) + 1].task = starting[t]
  BY <1>1, ClaimItems DEF TryPush
<1>3. ASSUME NEW i \in 1..Len(items')
      PROVE  items'[i].ready \/ \E u \in Threads : pc'[u] = "publishing" /\ starting'[u] = items'[i].task
  <2>1. CASE i = Len(items) + 1
    BY <2>1, <1>1, <1>2
  <2>2. CASE i \in 1..Len(items)
    BY <2>2, <1>1, <1>2 DEF SleepInv, Published
  <2> QED BY <2>1, <2>2, <1>2
<1>4. Published'
  BY <1>3 DEF Published
<1>5. Awake' /\ NoLostWakeup'
  BY <1>1 DEF Awake, NoLostWakeup
<1> QED BY <1>4, <1>5 DEF SleepInv

\* A published task's starter has yet to add to the version: no wake-up is lost.
LEMMA PublishSleep ==
    ASSUME TypeOK, TypeOK', Locals, OnePlace, SleepInv, NEW t \in Threads, PublishTask(t)
    PROVE  SleepInv'
<1>1. /\ UNCHANGED <<starting, version, asleep, seen>>
      /\ pc[t] = "publishing" /\ pc'[t] = "bumping"
      /\ \A u \in Threads : u # t => pc'[u] = pc[u]
  BY DEF PublishTask, Goto, Locals
<1>2. Len(items') = Len(items)
  BY PublishItems DEF PublishTask
<1>3. PICK k \in 1..Len(items) :
         /\ items[k].task = starting[t] /\ items'[k].ready
         /\ \A i \in 1..Len(items) : i # k => items'[i] = items[i]
  BY PublishItems DEF PublishTask
<1>4. ASSUME NEW i \in 1..Len(items), i # k, ~items[i].ready
      PROVE  \E u \in Threads : pc'[u] = "publishing" /\ starting'[u] = items[i].task
  <2>1. PICK u \in Threads : pc[u] = "publishing" /\ starting[u] = items[i].task
    BY <1>4 DEF SleepInv, Published
  <2>2. items[i].task # items[k].task
    BY <1>4 DEF OnePlace
  <2>3. u # t
    BY <2>1, <2>2, <1>3
  <2> QED BY <2>1, <2>3, <1>1
<1>5. Published'
  BY <1>2, <1>3, <1>4 DEF Published
<1>6. (items' # <<>>) => (items # <<>>)
  BY <1>2, EmptySeq DEF TypeOK
<1>7. Awake'
  <2> SUFFICES ASSUME NEW w \in Workers, pc'[w] = "wait", seen[w] = version, items # <<>>
               PROVE  \E u \in Threads : pc'[u] \in {"publishing", "bumping"}
    BY <1>1, <1>6 DEF Awake
  <2> QED BY <1>1
<1>8. NoLostWakeup'
  BY <1>1 DEF NoLostWakeup
<1> QED BY <1>5, <1>7, <1>8 DEF SleepInv

\* Once the version has changed, no worker that waits has seen it: no wake-up is lost.
LEMMA BumpSleep ==
    ASSUME TypeOK, Locals, SleepInv, NEW t \in Threads, BumpVersion(t) \/ StopBump(t)
    PROVE  SleepInv'
<1>1. /\ UNCHANGED <<items, starting, asleep, seen>> /\ version' = version + 1
      /\ pc[t] # "publishing" /\ pc[t] # "notifying"
      /\ pc[t] = "bumping" => pc'[t] = "notifying"
      /\ pc'[t] # "wait"
      /\ \A u \in Threads : u # t => pc'[u] = pc[u]
  BY DEF BumpVersion, StopBump, Goto, Locals, queueVars
<1>2. Published'
  BY <1>1 DEF SleepInv, Published
<1>3. \A w \in Workers : seen'[w] # version'
  BY <1>1 DEF TypeOK, Locals
<1>4. Awake'
  BY <1>3 DEF Awake
<1>5. NoLostWakeup'
  BY <1>1 DEF SleepInv, NoLostWakeup
<1> QED BY <1>2, <1>4, <1>5 DEF SleepInv

\* A notification, whether or not it wakes a worker, loses no wake-up.
LEMMA NotifySleep ==
    ASSUME TypeOK, Locals, SleepInv, NEW t \in Threads, NotifyOne(t)
    PROVE  SleepInv'
<1>1. /\ UNCHANGED <<items, version, seen>> /\ pc[t] = "notifying"
      /\ \A u \in Threads : u # t => starting'[u] = starting[u]
      /\ pc'[t] = Home(t)
  BY ThreadsAssumption DEF NotifyOne, Goto, Locals, TypeOK, queueVars, Threads
<1>2. /\ \A u \in Threads : u # t /\ pc[u] # "wait" => pc'[u] = pc[u]
      /\ \A w \in Workers : pc'[w] = "wait" => pc[w] = "wait"
  BY DEF NotifyOne, Goto, Locals, TypeOK, Home, Threads
<1>3. Published'
  BY <1>1, <1>2 DEF SleepInv, Published
<1>4. Awake'
  BY <1>1, <1>2 DEF SleepInv, Awake
<1>5. NoLostWakeup'
  <2> SUFFICES ASSUME asleep' = Workers, items # <<>>
               PROVE  \E u \in Threads : pc'[u] \in {"publishing", "bumping", "notifying"}
    BY <1>1 DEF NoLostWakeup
  <2>1. CASE asleep' # asleep
    BY <2>1 DEF NotifyOne, TypeOK
  <2>2. CASE asleep' = asleep
    <3>1. PICK w \in asleep : seen[w] = version
      BY <2>2, ThreadsAssumption DEF NotifyOne
    <3>2. w \in Workers /\ pc[w] = "wait"
      BY <3>1 DEF Locals, TypeOK
    <3>3. PICK u \in Threads : pc[u] \in {"publishing", "bumping"}
      BY <3>1, <3>2 DEF SleepInv, Awake
    <3> QED BY <3>3, <1>1, <1>2
  <2> QED BY <2>1, <2>2
<1> QED BY <1>3, <1>4, <1>5 DEF SleepInv

\* A worker that takes a task loses no wake-up.
LEMMA PopSleep ==
    ASSUME TypeOK, TypeOK', Locals, SleepInv, NEW w \in Workers, NEW x \in Tasks, PopTask(w, x)
    PROVE  SleepInv'
<1>1. /\ UNCHANGED <<starting, version, asleep, seen>>
      /\ pc[w] \in {"pop", "popAgain"} /\ pc'[w] = "recycling" /\ w \in Threads
      /\ \A u \in Threads : u # w => pc'[u] = pc[u]
  BY DEF PopTask, Goto, Locals, Threads
<1>2. /\ items # <<>> /\ Len(items') = Len(items) - 1 /\ Len(items) \in Nat \ {0}
      /\ \A i \in 1..Len(items') : items'[i] = items[i + 1]
  BY TakeItems DEF PopTask
<1>3. ASSUME NEW i \in 1..Len(items')
      PROVE  items'[i].ready \/ \E u \in Threads : pc'[u] = "publishing" /\ starting'[u] = items'[i].task
  <2>1. i + 1 \in 1..Len(items) /\ items'[i] = items[i + 1]
    BY <1>2
  <2> QED BY <2>1, <1>1 DEF SleepInv, Published
<1>4. Published'
  BY <1>3 DEF Published
<1>5. Awake'
  <2> SUFFICES ASSUME NEW v \in Workers, pc'[v] = "wait", seen[v] = version
               PROVE  \E u \in Threads : pc'[u] \in {"publishing", "bumping"}
    BY <1>1 DEF Awake
  <2>1. pc[v] = "wait"
    BY <1>1 DEF Threads
  <2>2. PICK u \in Threads : pc[u] \in {"publishing", "bumping"}
    BY <2>1, <1>2 DEF SleepInv, Awake
  <2> QED BY <2>2, <1>1
<1>6. NoLostWakeup'
  BY <1>1, <1>2 DEF SleepInv, NoLostWakeup
<1> QED BY <1>4, <1>5, <1>6 DEF SleepInv

\* The second look: a worker goes to wait only if no task was there, or the oldest has a
\* publisher still to come.
LEMMA EmptySleep ==
    ASSUME TypeOK, Locals, SleepInv, NEW w \in Workers, PopNothing(w)
    PROVE  SleepInv'
<1>1. /\ UNCHANGED <<items, starting, version, asleep, seen>> /\ w \in Threads
      /\ pc[w] \in {"pop", "popAgain"} /\ pc'[w] \in {"checkStop", "wait"}
      /\ \A u \in Threads : u # w => pc'[u] = pc[u]
  BY DEF PopNothing, Goto, Locals, Threads, queueVars
<1>2. Published'
  BY <1>1 DEF SleepInv, Published
<1>3. items # <<>> => \E t \in Threads : pc[t] = "publishing"
  <2> SUFFICES ASSUME items # <<>> PROVE \E t \in Threads : pc[t] = "publishing"
    OBVIOUS
  <2>1. ~items[1].ready /\ 1 \in 1..Len(items)
    <3>1. Len(items) \in Nat \ {0}
      BY EmptySeq DEF TypeOK
    <3>2. ~Head(items).ready
      BY DEF PopNothing, Queue!MayBeEmpty
    <3> QED BY <3>1, <3>2 DEF TypeOK
  <2> QED BY <2>1 DEF SleepInv, Published
<1>4. Awake'
  BY <1>1, <1>3 DEF Awake
<1>5. NoLostWakeup'
  BY <1>1 DEF SleepInv, NoLostWakeup
<1> QED BY <1>2, <1>4, <1>5 DEF SleepInv

\* A worker that goes to sleep on the version it has seen loses no wake-up.
LEMMA WaitSleep ==
    ASSUME TypeOK, Locals, SleepInv, NEW w \in Workers, Wait(w)
    PROVE  SleepInv'
<1>1. UNCHANGED <<items, starting, version, seen>> /\ pc[w] = "wait" /\ w \in Threads
  BY DEF Wait, Threads, queueVars
<1>2. CASE version # seen[w]
  <2>1. asleep' = asleep /\ pc' = [pc EXCEPT ![w] = "pop"]
    BY <1>2 DEF Wait, Goto
  <2> QED BY <1>1, <2>1, SleepKept DEF Locals
<1>3. CASE version = seen[w]
  <2>1. UNCHANGED pc
    BY <1>3 DEF Wait
  <2>2. Published' /\ Awake'
    BY <2>1, <1>1 DEF SleepInv, Published, Awake
  <2>3. NoLostWakeup'
    BY <2>1, <1>1, <1>3 DEF SleepInv, Awake, NoLostWakeup
  <2> QED BY <2>2, <2>3 DEF SleepInv
<1> QED BY <1>2, <1>3

\* Every step loses no wake-up.
LEMMA StepSleep ==
    ASSUME TypeOK, TypeOK', Locals, OnePlace, SleepInv, [Next]_vars
    PROVE  SleepInv'
<1> USE DEF Goto, Locals, queueVars
<1>0. CASE UNCHANGED vars
  BY <1>0, SleepKept DEF vars
<1>1. ASSUME NEW t \in Threads, NEW x \in Tasks, StartTask(t, x) PROVE SleepInv'
  BY <1>1, SleepKept DEF StartTask, TypeOK, Home
<1>2. ASSUME NEW w \in Workers, RecycleCell(w) PROVE SleepInv'
  BY <1>2, SleepKept DEF RecycleCell, Queue!Recycle
<1>3. ASSUME NEW w \in Workers, CheckStop(w) PROVE SleepInv'
  BY <1>3, SleepKept DEF CheckStop
<1>4. ASSUME NEW w \in Workers, Snapshot(w) PROVE SleepInv'
  BY <1>4, SleepKept DEF Snapshot, TypeOK
<1>5. ASSUME NEW w \in Workers, TaskDone(w) PROVE SleepInv'
  BY <1>5, SleepKept DEF TaskDone
<1>6. ASSUME NEW c \in Clients, DropHandle(c) \/ StopStore(c) \/ Join(c) PROVE SleepInv'
  BY <1>6, SleepKept, ThreadsAssumption DEF DropHandle, StopStore, Join, Threads
<1>7. ASSUME NEW c \in Clients, StopNotifyAll(c) PROVE SleepInv'
  <2>1. /\ UNCHANGED <<items, version, starting, seen>> /\ asleep' \subseteq asleep
        /\ pc[c] = "notifyingAll"
    BY <1>7 DEF StopNotifyAll
  <2>2. \A u \in Threads : /\ pc[u] \notin {"wait", "notifyingAll"} => pc'[u] = pc[u]
                           /\ pc'[u] = "wait" => pc[u] = "wait"
    BY <1>7 DEF StopNotifyAll
  <2>3. asleep \subseteq Workers
    BY DEF TypeOK
  <2> QED BY <2>1, <2>2, <2>3, SleepKept DEF Threads
<1> QED BY <1>0, <1>1, <1>2, <1>3, <1>4, <1>5, <1>6, <1>7, PushSleep, PublishSleep, BumpSleep,
           NotifySleep, PopSleep, EmptySleep, WaitSleep
        DEF Next, Start, Work, Destroy, Threads

-----------------------------------------------------------------------------
(* The invariant holds. *)

IInv == TypeOK /\ Locals /\ OnePlace /\ Located /\ SleepInv

\* No task is started and no worker sleeps.
LEMMA InitInv == Init => IInv
<1> SUFFICES ASSUME Init PROVE IInv
  OBVIOUS
<1>1. TypeOK /\ Locals
  BY InitTypes
<1>2. items = <<>> /\ Len(items) = 0
  BY DEF Init, Queue!Init
<1>3. OnePlace /\ Located
  <2>1. \A t \in Threads : pc[t] # "pushing"
    BY DEF Init
  <2>2. \A w \in Workers : running[w] = None
    BY DEF Init
  <2>3. run = {} /\ started = {} /\ \A i \in 1..Len(items) : FALSE
    BY <1>2 DEF Init
  <2>4. OnePlace
    BY <2>1, <2>2, <2>3, NoneAssumption DEF OnePlace
  <2>5. Located
    BY <2>1, <2>2, <2>3, NoneAssumption DEF Located
  <2> QED BY <2>4, <2>5
<1>4. SleepInv
  BY <1>2 DEF SleepInv, Published, Awake, NoLostWakeup
<1> QED BY <1>1, <1>3, <1>4 DEF IInv

\* Every step of a worker, a client or the destructor keeps the invariant.
LEMMA StepInv == IInv /\ [Next]_vars => IInv'
BY StepTypes, StepPlaces, StepSleep DEF IInv

\* The invariant holds always.
LEMMA InvAlways == Spec => []IInv
BY InitInv, StepInv, PTL DEF Spec

\* The threads' locals, the queue and the sets of tasks keep to their types.
THEOREM TypeCorrect == Spec => []TypeOK
BY InvAlways, PTL DEF IInv

\* Whatever the number of workers, if they all sleep while a task is queued, the thread that
\* started one has yet to notify: the second look at the queue after the snapshot of the
\* version, and the version added to after the push, leave no window.
THEOREM NoLostWakeupAlways == Spec => []NoLostWakeup
BY InvAlways, PTL DEF IInv, SleepInv

\* A set without two members has none or one.
LEMMA AtMostOne ==
    ASSUME NEW S, \A a, b \in S : a = b
    PROVE  Cardinality(S) = IF S = {} THEN 0 ELSE 1
<1>1. CASE S = {}
  BY <1>1, FS_EmptySet
<1>2. CASE S # {}
  <2>1. PICK a \in S : TRUE
    BY <1>2
  <2>2. S = {a}
    BY <2>1
  <2> QED BY <2>2, <1>2, FS_Singleton
<1> QED BY <1>1, <1>2

\* A started task is with its starter, in the queue, with one worker, or run: none is lost
\* between two of them, and none is run twice.
THEOREM EachTaskOnceAlways == Spec => []EachTaskOnce
<1>1. IInv => EachTaskOnce
  <2> SUFFICES ASSUME IInv, NEW x \in started
               PROVE  Cardinality({t \in Threads : pc[t] = "pushing" /\ starting[t] = x})
                         + Cardinality({i \in 1..Len(items) : items[i].task = x})
                         + Cardinality({w \in Workers : running[w] = x})
                         + (IF x \in run THEN 1 ELSE 0) = 1
    BY DEF EachTaskOnce
  <2> DEFINE starters == {t \in Threads : pc[t] = "pushing" /\ starting[t] = x}
             places == {i \in 1..Len(items) : items[i].task = x}
             runners == {w \in Workers : running[w] = x}
  <2>0. x \in Tasks
    BY DEF IInv, TypeOK
  <2>1. \A t, u \in starters : t = u
    BY DEF IInv, OnePlace
  <2>2. \A i, j \in places : i = j
    BY DEF IInv, OnePlace
  <2>3. \A w, v \in runners : w = v
    BY <2>0 DEF IInv, OnePlace
  <2>4. starters # {} \/ places # {} \/ runners # {} \/ x \in run
    BY <2>0 DEF IInv, Located
  <2>5. /\ starters # {} => places = {} /\ runners = {} /\ x \notin run
        /\ places # {} => runners = {} /\ x \notin run
        /\ runners # {} => x \notin run
    BY DEF IInv, OnePlace
  <2>6. /\ Cardinality(starters) = IF starters = {} THEN 0 ELSE 1
        /\ Cardinality(places) = IF places = {} THEN 0 ELSE 1
        /\ Cardinality(runners) = IF runners = {} THEN 0 ELSE 1
    BY <2>1, <2>2, <2>3, AtMostOne
  <2> HIDE DEF starters, places, runners
  <2>7. Cardinality(starters) + Cardinality(places) + Cardinality(runners)
           + (IF x \in run THEN 1 ELSE 0) = 1
    BY <2>4, <2>5, <2>6
  <2> QED BY <2>7 DEF starters, places, runners
<1> QED BY <1>1, InvAlways, PTL
====
