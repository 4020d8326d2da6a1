----------------------------- MODULE ThreadPool -----------------------------
(***************************************************************************)
(* ThreadPoolTaskProcessor of src/src/cesium_async.cpp: startTask from any  *)
(* thread, the workers' loop with its version-counter sleep, and the        *)
(* destructor that stops and joins them.  The queue between them is         *)
(* TaskQueue, which LockFreeQueue implements.                               *)
(*                                                                          *)
(* The destructor is taken to run on the host's thread that destroys the   *)
(* AsyncSystem, as it does unless a task holds the last copy of it.         *)
(***************************************************************************)
EXTENDS Naturals, Sequences, FiniteSets

CONSTANTS Workers,    \* the pool's threads
          Clients,    \* the threads of the host
          Tasks,      \* the functions that can be started, each once
          Capacity,   \* the number of cells of the queue
          None        \* no task

ASSUME ThreadsAssumption == Workers # {} /\ Workers \cap Clients = {}
ASSUME CapacityAssumption == Capacity \in Nat \ {0}
ASSUME NoneAssumption == None \notin Tasks

VARIABLES
    items, leaving,  \* the queue (see TaskQueue)
    started,         \* tasks handed to startTask
    late,            \* ... when _stop was already set
    run,             \* tasks a worker has run to their end
    stop,            \* _stop
    version,         \* _version
    asleep,          \* workers blocked in _version.wait
    handle,          \* the host still holds its AsyncSystem
    pc,              \* the next step of each thread
    starting,        \* the task a thread's startTask is about
    running,         \* the task a worker took
    seen             \* the version a worker's snapshot found

queueVars == <<items, leaving>>
taskVars == <<started, late, run>>
vars == <<queueVars, taskVars, stop, version, asleep, handle, pc, starting, running, seen>>

Queue == INSTANCE TaskQueue

Threads == Workers \cup Clients
StartPcs   == {"pushing", "publishing", "bumping", "notifying"}
DestroyPcs == {"stopping", "bumpingStop", "notifyingAll", "joining"}
WorkerPcs  == {"pop", "recycling", "running", "checkStop", "snapshot", "popAgain", "wait", "exited"}

\* A thread is at rest between two calls: a client outside, a worker inside its task.
Home(t) == IF t \in Workers THEN "running" ELSE "idle"

TypeOK ==
    /\ items \in Seq([task : Tasks, ready : BOOLEAN])
    /\ leaving \subseteq Tasks
    /\ started \subseteq Tasks
    /\ late \subseteq started
    /\ run \subseteq Tasks
    /\ stop \in BOOLEAN
    /\ version \in Nat
    /\ asleep \subseteq Workers
    /\ handle \in BOOLEAN
    /\ DOMAIN pc = Threads
    /\ \A t \in Threads : pc[t] \in StartPcs \cup IF t \in Workers THEN WorkerPcs
                                              ELSE DestroyPcs \cup {"idle", "gone"}
    /\ starting \in [Threads -> Tasks \cup {None}]
    /\ running \in [Workers -> Tasks \cup {None}]
    /\ seen \in [Workers -> Nat]

Goto(t, label) == pc' = [pc EXCEPT ![t] = label]

-----------------------------------------------------------------------------
(* startTask: a client calls it while it holds the AsyncSystem, a worker    *)
(* from within the task it runs.                                            *)

StartTask(t, x) ==
    /\ pc[t] = Home(t)
    /\ t \in Clients => handle
    /\ x \notin started
    /\ started' = started \cup {x}
    /\ late' = IF stop THEN late \cup {x} ELSE late
    /\ starting' = [starting EXCEPT ![t] = x]
    /\ Goto(t, "pushing")
    /\ UNCHANGED <<queueVars, run, stop, version, asleep, handle, running, seen>>

\* Fault: startTask goes round once more after a push that worked.
TryPushAgain(t) ==
    /\ pc[t] = "pushing"
    /\ Queue!Claim(starting[t])
    /\ UNCHANGED <<taskVars, stop, version, asleep, handle, pc, starting, running, seen>>

\* tryPush, retried after a yield for as long as it reports a full queue.
TryPush(t) ==
    /\ pc[t] = "pushing"
    /\ Queue!Claim(starting[t])
    /\ Goto(t, "publishing")
    /\ UNCHANGED <<taskVars, stop, version, asleep, handle, starting, running, seen>>

PublishTask(t) ==
    /\ pc[t] = "publishing"
    /\ Queue!Publish(starting[t])
    /\ Goto(t, "bumping")
    /\ UNCHANGED <<taskVars, stop, version, asleep, handle, starting, running, seen>>

BumpVersion(t) ==
    /\ pc[t] = "bumping"
    /\ version' = version + 1
    /\ Goto(t, "notifying")
    /\ UNCHANGED <<queueVars, taskVars, stop, asleep, handle, starting, running, seen>>

\* One waiter is woken, whichever.  It goes on if the version is no longer the one it waits
\* on; otherwise it is asleep again, and the notification is spent.
NotifyOne(t) ==
    /\ pc[t] = "notifying"
    /\ starting' = [starting EXCEPT ![t] = None]
    /\ \/ /\ asleep = {} \/ \E w \in asleep : seen[w] = version
          /\ Goto(t, Home(t))
          /\ UNCHANGED asleep
       \/ \E w \in asleep :
             /\ seen[w] # version
             /\ asleep' = asleep \ {w}
             /\ pc' = [pc EXCEPT ![t] = Home(t), ![w] = "pop"]
    /\ UNCHANGED <<queueVars, taskVars, stop, version, handle, running, seen>>

-----------------------------------------------------------------------------
(* workerLoop *)

\* tryPop hands out the oldest task; either call of the loop goes on to run it.
PopTask(w, x) ==
    /\ pc[w] \in {"pop", "popAgain"}
    /\ Queue!Take(x)
    /\ running' = [running EXCEPT ![w] = x]
    /\ Goto(w, "recycling")
    /\ UNCHANGED <<taskVars, stop, version, asleep, handle, starting, seen>>

\* The cell is free again a little after the task was taken from it.
RecycleCell(w) ==
    /\ pc[w] = "recycling"
    /\ Queue!Recycle(running[w])
    /\ Goto(w, "running")
    /\ UNCHANGED <<taskVars, stop, version, asleep, handle, starting, running, seen>>

PopNothing(w) ==
    /\ Queue!MayBeEmpty
    /\ \/ pc[w] = "pop" /\ Goto(w, "checkStop")
       \/ pc[w] = "popAgain" /\ Goto(w, "wait")
    /\ UNCHANGED <<queueVars, taskVars, stop, version, asleep, handle, starting, running, seen>>

CheckStop(w) ==
    /\ pc[w] = "checkStop"
    /\ Goto(w, IF stop THEN "exited" ELSE "snapshot")
    /\ UNCHANGED <<queueVars, taskVars, stop, version, asleep, handle, starting, running, seen>>

\* Fault: no second look at the queue after the snapshot.
SnapshotWithoutRecheck(w) ==
    /\ pc[w] = "snapshot"
    /\ seen' = [seen EXCEPT ![w] = version]
    /\ Goto(w, "wait")
    /\ UNCHANGED <<queueVars, taskVars, stop, version, asleep, handle, starting, running>>

Snapshot(w) ==
    /\ pc[w] = "snapshot"
    /\ seen' = [seen EXCEPT ![w] = version]
    /\ Goto(w, "popAgain")
    /\ UNCHANGED <<queueVars, taskVars, stop, version, asleep, handle, starting, running>>

\* Fault: a wait that does not compare.
WaitBlind(w) ==
    /\ pc[w] = "wait"
    /\ w \notin asleep
    /\ asleep' = asleep \cup {w}
    /\ UNCHANGED <<queueVars, taskVars, stop, version, handle, pc, starting, running, seen>>

\* _version.wait(v) blocks only while the version is still v.
Wait(w) ==
    /\ pc[w] = "wait"
    /\ w \notin asleep
    /\ IF version = seen[w] THEN asleep' = asleep \cup {w} /\ UNCHANGED pc
                            ELSE Goto(w, "pop") /\ UNCHANGED asleep
    /\ UNCHANGED <<queueVars, taskVars, stop, version, handle, starting, running, seen>>

\* The task returns; the loop goes round.
TaskDone(w) ==
    /\ pc[w] = "running"
    /\ run' = run \cup {running[w]}
    /\ running' = [running EXCEPT ![w] = None]
    /\ Goto(w, "pop")
    /\ UNCHANGED <<queueVars, started, late, stop, version, asleep, handle, starting, seen>>

-----------------------------------------------------------------------------
(* cesium_async_system_destroy and ~ThreadPoolTaskProcessor *)

\* The host lets go of its AsyncSystem; no other call of it is still going on.
DropHandle(c) ==
    /\ \A d \in Clients : pc[d] = "idle"
    /\ handle
    /\ handle' = FALSE
    /\ Goto(c, "stopping")
    /\ UNCHANGED <<queueVars, taskVars, stop, version, asleep, starting, running, seen>>

StopStore(t) ==
    /\ pc[t] = "stopping"
    /\ stop' = TRUE
    /\ Goto(t, "bumpingStop")
    /\ UNCHANGED <<queueVars, taskVars, version, asleep, handle, starting, running, seen>>

StopBump(t) ==
    /\ pc[t] = "bumpingStop"
    /\ version' = version + 1
    /\ Goto(t, "notifyingAll")
    /\ UNCHANGED <<queueVars, taskVars, stop, asleep, handle, starting, running, seen>>

\* A waiter whose version is still the one it saw stays blocked; all the others wake.
StopNotifyAll(t) ==
    LET woken == {w \in asleep : seen[w] # version}
    IN  /\ pc[t] = "notifyingAll"
        /\ asleep' = asleep \ woken
        /\ pc' = [u \in Threads |-> IF u = t THEN "joining"
                                    ELSE IF u \in woken THEN "pop" ELSE pc[u]]
        /\ UNCHANGED <<queueVars, taskVars, stop, version, handle, starting, running, seen>>

\* The joins, one after the other, are over when every worker has returned.
Join(t) ==
    /\ pc[t] = "joining"
    /\ \A w \in Workers : pc[w] = "exited"
    /\ Goto(t, "gone")
    /\ UNCHANGED <<queueVars, taskVars, stop, version, asleep, handle, starting, running, seen>>

-----------------------------------------------------------------------------
Init ==
    /\ Queue!Init
    /\ started = {}
    /\ late = {}
    /\ run = {}
    /\ stop = FALSE
    /\ version = 0
    /\ asleep = {}
    /\ handle = TRUE
    /\ pc = [t \in Threads |-> IF t \in Workers THEN "pop" ELSE "idle"]
    /\ starting = [t \in Threads |-> None]
    /\ running = [w \in Workers |-> None]
    /\ seen = [w \in Workers |-> 0]

Start(t) == TryPush(t) \/ PublishTask(t) \/ BumpVersion(t) \/ NotifyOne(t)
Work(w) == \/ \E x \in Tasks : PopTask(w, x)
           \/ RecycleCell(w) \/ PopNothing(w) \/ CheckStop(w) \/ Snapshot(w) \/ Wait(w) \/ TaskDone(w)
Destroy(t) == StopStore(t) \/ StopBump(t) \/ StopNotifyAll(t) \/ Join(t)

Next ==
    \/ \E t \in Threads : (\E x \in Tasks : StartTask(t, x)) \/ Start(t)
    \/ \E w \in Workers : Work(w)
    \/ \E c \in Clients : DropHandle(c) \/ Destroy(c)

Spec == Init /\ [][Next]_vars

\* The operating system runs every thread, and every task returns.  What is started, and
\* whether the pool is ever destroyed, is up to the host and the tasks.
FairSpec == /\ Spec
            /\ \A t \in Threads : WF_vars(Start(t))
            /\ \A c \in Clients : WF_vars(Destroy(c))
            /\ \A w \in Workers : WF_vars(Work(w))

-----------------------------------------------------------------------------
(* Properties. *)

\* A started task is in one place: with its starter, in the queue, with one worker, or run.
EachTaskOnce ==
    \A x \in started :
       Cardinality({t \in Threads : pc[t] = "pushing" /\ starting[t] = x})
          + Cardinality({i \in 1..Len(items) : items[i].task = x})
          + Cardinality({w \in Workers : running[w] = x})
          + (IF x \in run THEN 1 ELSE 0) = 1

\* The workers are never all asleep over a task, unless the thread that started one is still on
\* its way to notify them: no notification is lost, or spent on the wrong worker for good.
NoLostWakeup ==
    asleep = Workers /\ items # <<>> =>
       \E t \in Threads : pc[t] \in {"publishing", "bumping", "notifying"}

\* A task handed to startTask is run by a worker in the end, unless the pool is stopped first;
\* and the destructor does not cut a chain of tasks short: what a running task starts after the
\* workers were told to stop is run all the same.
RunsUnlessStopped ==
    \A x \in Tasks : x \in started ~> x \in run \/ (stop /\ x \notin late)

-----------------------------------------------------------------------------
(* What the comments say and the code does not do. *)

\* ~ThreadPoolTaskProcessor returns: told to stop, every worker leaves its loop and is joined.
DestructorReturns == \A c \in Clients : pc[c] = "stopping" ~> pc[c] = "gone"

=============================================================================
