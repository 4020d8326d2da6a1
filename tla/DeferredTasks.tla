---------------------------- MODULE DeferredTasks ----------------------------
(***************************************************************************)
(* The build without threads (CESIUMC_NO_THREADS): DeferredTaskProcessor of *)
(* src/src/cesium_async.cpp keeps what startTask is given until the host    *)
(* pumps, and cesium_async_system_dispatch_main_thread_tasks drains it, a   *)
(* bounded number of rounds, before the main-thread queue.                  *)
(*                                                                          *)
(* There is one thread.  What it is in the middle of is a stack of pump     *)
(* calls: a task or a continuation may call back into the host, which may   *)
(* pump again.                                                              *)
(***************************************************************************)
EXTENDS Naturals, Sequences, FiniteSets

CONSTANTS Tasks,       \* the functions that can be started, each once
          MaxRounds,   \* maxRoundsPerDrain
          MaxNesting,  \* pump calls the host nests at most (a bound of the model)
          None         \* no task

ASSUME RoundsAssumption == MaxRounds \in Nat \ {0} /\ MaxNesting \in Nat \ {0}
ASSUME NoneAssumption == None \notin Tasks

VARIABLES queue,      \* _queue
          mainQ,      \* tasks whose main-thread continuation is due
          calls,      \* the pump calls under way, the innermost last
          started,    \* tasks handed to startTask, in that order
          begun,      \* tasks that were called, in that order
          done,       \* tasks that returned
          delivered   \* tasks whose main-thread continuation has run

vars == <<queue, mainQ, calls, started, begun, done, delivered>>

Elems(s) == {s[i] : i \in 1..Len(s)}

\* One call: the rounds of its drain so far, what is left of the batch it swapped out, the
\* task or continuation it is inside, and the tasks that were started before it.
Call == [stage : {"drain", "main"}, round : 0..MaxRounds, batch : Seq(Tasks),
         inside : Tasks \cup {None}, before : SUBSET Tasks]

TypeOK ==
    /\ queue \in Seq(Tasks)
    /\ mainQ \in Seq(Tasks)
    /\ calls \in Seq(Call)
    /\ started \in Seq(Tasks)
    /\ begun \in Seq(Tasks)
    /\ done \subseteq Tasks
    /\ delivered \subseteq done

NewCall == [stage |-> "drain", round |-> 0, batch |-> <<>>, inside |-> None,
            before |-> Elems(started)]

Top == calls[Len(calls)]
\* The innermost call goes on as `call`.
Continue(call) == calls' = [calls EXCEPT ![Len(calls)] = call]

\* The thread is in the host's code: outside every call, or inside what one of them runs.
InHost == calls # <<>> => Top.inside # None
InDrain == calls # <<>> /\ Top.stage = "drain" /\ Top.inside = None
InMain == calls # <<>> /\ Top.stage = "main" /\ Top.inside = None

-----------------------------------------------------------------------------
\* startTask: from a pump call's task or continuation, or between two calls.
StartTask(x) ==
    /\ InHost
    /\ x \notin Elems(started)
    /\ started' = Append(started, x)
    /\ queue' = Append(queue, x)
    /\ UNCHANGED <<mainQ, calls, begun, done, delivered>>

\* cesium_async_system_dispatch_main_thread_tasks is called.  A nested call that finds nothing
\* to do changes nothing and is left out.
Pump ==
    /\ InHost
    /\ Len(calls) < MaxNesting
    /\ calls # <<>> => queue # <<>> \/ mainQ # <<>>
    /\ calls' = Append(calls, NewCall)
    /\ UNCHANGED <<queue, mainQ, started, begun, done, delivered>>

\* Fault: the queue is iterated in place, and cleared at the end.
SwapBatchKeeps ==
    /\ InDrain
    /\ Top.batch = <<>>
    /\ Top.round < MaxRounds
    /\ queue # <<>>
    /\ Continue([Top EXCEPT !.round = @ + 1, !.batch = queue])
    /\ UNCHANGED <<queue, mainQ, started, begun, done, delivered>>

\* A round: the queue is swapped for an empty one before anything is run.
SwapBatch ==
    /\ InDrain
    /\ Top.batch = <<>>
    /\ Top.round < MaxRounds
    /\ queue # <<>>
    /\ Continue([Top EXCEPT !.round = @ + 1, !.batch = queue])
    /\ queue' = <<>>
    /\ UNCHANGED <<mainQ, started, begun, done, delivered>>

\* Fault: the newest first.
RunTaskLast ==
    /\ InDrain
    /\ Top.batch # <<>>
    /\ LET x == Top.batch[Len(Top.batch)]
       IN  /\ begun' = Append(begun, x)
           /\ Continue([Top EXCEPT !.batch = SubSeq(@, 1, Len(@) - 1), !.inside = x])
    /\ UNCHANGED <<queue, mainQ, started, done, delivered>>

RunTask ==
    /\ InDrain
    /\ Top.batch # <<>>
    /\ begun' = Append(begun, Head(Top.batch))
    /\ Continue([Top EXCEPT !.batch = Tail(@), !.inside = Head(Top.batch)])
    /\ UNCHANGED <<queue, mainQ, started, done, delivered>>

\* The task returns; its result may be due on the main thread.
TaskReturns ==
    /\ calls # <<>>
    /\ Top.stage = "drain"
    /\ Top.inside # None
    /\ done' = done \cup {Top.inside}
    /\ \/ mainQ' = Append(mainQ, Top.inside)
       \/ UNCHANGED mainQ
    /\ Continue([Top EXCEPT !.inside = None])
    /\ UNCHANGED <<queue, started, begun, delivered>>

\* Fault: what the last round left is dropped.
DrainOverDrops ==
    /\ InDrain
    /\ Top.batch = <<>>
    /\ Top.round = MaxRounds \/ queue = <<>>
    /\ queue' = <<>>
    /\ Continue([Top EXCEPT !.stage = "main"])
    /\ UNCHANGED <<mainQ, started, begun, done, delivered>>

\* The rounds are used up or there is nothing left; what is left waits for the next call.
DrainOver ==
    /\ InDrain
    /\ Top.batch = <<>>
    /\ Top.round = MaxRounds \/ queue = <<>>
    /\ Continue([Top EXCEPT !.stage = "main"])
    /\ UNCHANGED <<queue, mainQ, started, begun, done, delivered>>

\* AsyncSystem::dispatchMainThreadTasks runs the continuations that are due, in order ...
RunContinuation ==
    /\ InMain
    /\ mainQ # <<>>
    /\ Continue([Top EXCEPT !.inside = Head(mainQ)])
    /\ mainQ' = Tail(mainQ)
    /\ UNCHANGED <<queue, started, begun, done, delivered>>

ContinuationReturns ==
    /\ calls # <<>>
    /\ Top.stage = "main"
    /\ Top.inside # None
    /\ delivered' = delivered \cup {Top.inside}
    /\ Continue([Top EXCEPT !.inside = None])
    /\ UNCHANGED <<queue, mainQ, started, begun, done>>

\* Fault: the main-thread queue was emptied first, not last.
PumpReturnsEarly ==
    /\ InMain
    /\ calls' = SubSeq(calls, 1, Len(calls) - 1)
    /\ UNCHANGED <<queue, mainQ, started, begun, done, delivered>>

\* ... until none is left.
PumpReturns ==
    /\ InMain
    /\ mainQ = <<>>
    /\ calls' = SubSeq(calls, 1, Len(calls) - 1)
    /\ UNCHANGED <<queue, mainQ, started, begun, done, delivered>>

-----------------------------------------------------------------------------
Init ==
    /\ queue = <<>>
    /\ mainQ = <<>>
    /\ calls = <<>>
    /\ started = <<>>
    /\ begun = <<>>
    /\ done = {}
    /\ delivered = {}

\* A call once made goes on to its end, and so does what it runs.
Proceed == SwapBatch \/ RunTask \/ TaskReturns \/ DrainOver
           \/ RunContinuation \/ ContinuationReturns \/ PumpReturns

Next == (\E x \in Tasks : StartTask(x)) \/ Pump \/ Proceed

Spec == Init /\ [][Next]_vars

\* Tasks return, and the host pumps again in its next frame.
FairSpec == Spec /\ WF_vars(Proceed) /\ WF_vars(Pump /\ calls = <<>>)

-----------------------------------------------------------------------------
(* Properties. *)

\* A started task is in one place: queued, in the batch of one of the calls, or begun, once;
\* a task that starts tasks while its own batch is iterated, or pumps, does not disturb that.
EachTaskOnce ==
    \A x \in Elems(started) :
       Cardinality({i \in 1..Len(queue) : queue[i] = x})
          + Cardinality({at \in (1..Len(calls)) \X (1..Len(started)) :
                           /\ at[2] <= Len(calls[at[1]].batch)
                           /\ calls[at[1]].batch[at[2]] = x})
          + Cardinality({i \in 1..Len(begun) : begun[i] = x}) = 1

\* Tasks are called in the order in which they were started, except that a nested call runs
\* what is queued before the rest of the outer batch: the task a call is inside was started
\* before what is left of its batch, that before the batches of the calls inside it, and all
\* of it before the queue.
InOrder ==
    LET Pending(c) == IF calls[c].stage = "drain" /\ calls[c].inside # None
                      THEN <<calls[c].inside>> \o calls[c].batch ELSE calls[c].batch
        Before(x, y) == \E i, j \in 1..Len(started) : i < j /\ started[i] = x /\ started[j] = y
        Ordered(s, u) == \A i \in 1..Len(s), j \in 1..Len(u) : Before(s[i], u[j])
    IN  \A c \in 1..Len(calls) :
           /\ \A i, j \in 1..Len(Pending(c)) : i < j => Before(Pending(c)[i], Pending(c)[j])
           /\ \A d \in c + 1..Len(calls) : Ordered(Pending(c), Pending(d))
           /\ Ordered(Pending(c), queue)

\* "Running them in this order makes progress within one call instead of one call per stage":
\* an outermost call that returns has run every task that was started before it, and every
\* continuation that became due meanwhile.  Only what the call itself started may be left.
OneCallPerFrame ==
    [][Len(calls) = 1 /\ calls' = <<>> =>
          calls[1].before \subseteq done /\ Elems(mainQ) = {}]_vars

\* "Leftover work simply runs next frame": it is not lost however long the chain.
LeftoverRuns == \A x \in Tasks : x \in Elems(started) ~> x \in done

=============================================================================
