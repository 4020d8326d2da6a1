-------------------------- MODULE DeferredTasksProofs --------------------------
(***************************************************************************)
(* What holds of DeferredTasks for every set of tasks, every bound on the   *)
(* rounds of a drain and every depth of nested pump calls: no task is lost  *)
(* or run twice, tasks run in the order in which they were started, and one *)
(* outermost call runs all that was started before it.                      *)
(***************************************************************************)
EXTENDS DeferredTasks, FiniteSetTheorems, TLAPS

-----------------------------------------------------------------------------
(* The inductive invariant. *)

\* What the call c has before it: the task it is inside and the rest of its batch.
Pending(c) == IF calls[c].stage = "drain" /\ calls[c].inside # None
              THEN <<calls[c].inside>> \o calls[c].batch ELSE calls[c].batch

\* x was started before y.
Before(x, y) == \E i, j \in 1..Len(started) : i < j /\ started[i] = x /\ started[j] = y

Ordered(s, u) == \A i \in 1..Len(s), j \in 1..Len(u) : Before(s[i], u[j])
Sorted(s) == \A i, j \in 1..Len(s) : i < j => Before(s[i], s[j])

\* A task is started once, and only started tasks are anywhere; the lists are no longer than
\* what was started.
Started ==
    /\ \A i, j \in 1..Len(started) : started[i] = started[j] => i = j
    /\ Elems(queue) \subseteq Elems(started)
    /\ Elems(begun) \subseteq Elems(started)
    /\ Len(queue) <= Len(started)
    /\ \A c \in 1..Len(calls) : /\ Elems(calls[c].batch) \subseteq Elems(started)
                                /\ Len(calls[c].batch) <= Len(started)
                                /\ calls[c].before \subseteq Elems(started)

\* Every call but the innermost is inside something; in its second half a call has no batch.
Stack ==
    \A c \in 1..Len(calls) : /\ c # Len(calls) => calls[c].inside # None
                             /\ calls[c].stage = "main" => calls[c].batch = <<>>

\* InOrder, and the queue itself in order.
Order ==
    /\ Sorted(queue)
    /\ \A c \in 1..Len(calls) :
          /\ Sorted(Pending(c))
          /\ \A d \in c + 1..Len(calls) : Ordered(Pending(c), Pending(d))
          /\ Ordered(Pending(c), queue)

\* A task is begun once, and what is begun waits nowhere.
BegunOnce ==
    /\ \A i, j \in 1..Len(begun) : begun[i] = begun[j] => i = j
    /\ \A x \in Elems(begun) : /\ x \notin Elems(queue)
                               /\ \A c \in 1..Len(calls) : x \notin Elems(calls[c].batch)

\* A started task waits or is begun, and a begun one has returned or a call is inside it.
Located ==
    \A x \in Elems(started) :
       \/ x \in Elems(queue)
       \/ \E c \in 1..Len(calls) : x \in Elems(calls[c].batch)
       \/ x \in Elems(begun) /\ \/ x \in done
                                \/ \E c \in 1..Len(calls) : calls[c].stage = "drain" /\ calls[c].inside = x

\* A continuation is due, or runs, after its task returned; a task a call is inside was begun.
Causes ==
    /\ Elems(mainQ) \subseteq done
    /\ \A c \in 1..Len(calls) :
          calls[c].inside # None => IF calls[c].stage = "main" THEN calls[c].inside \in done
                                                               ELSE calls[c].inside \in Elems(begun)

\* Once the outermost call has swapped, the tasks started before it are not in the queue; once
\* its drain is over they have returned.
Frame ==
    calls # <<>> =>
       /\ calls[1].round > 0 => calls[1].before \cap Elems(queue) = {}
       /\ calls[1].stage = "main" => calls[1].before \subseteq done

IInv == TypeOK /\ Started /\ Stack /\ Order /\ BegunOnce /\ Located /\ Causes /\ Frame

-----------------------------------------------------------------------------
(* Facts about the stack of calls and about the order of starts. *)

\* The elements of a sequence that has been appended to, or has lost its head.
LEMMA ElemsAppend ==
    ASSUME NEW S, NEW s \in Seq(S), NEW x \in S
    PROVE  /\ Append(s, x) \in Seq(S)
           /\ Len(Append(s, x)) = Len(s) + 1
           /\ \A i \in 1..Len(s) : Append(s, x)[i] = s[i]
           /\ Append(s, x)[Len(s) + 1] = x
           /\ Elems(Append(s, x)) = Elems(s) \cup {x}
BY DEF Elems

\* What a pop leaves of a sequence: its head is its first element, and no element is lost between
\* the two.
LEMMA ElemsTail ==
    ASSUME NEW S, NEW s \in Seq(S), s # <<>>
    PROVE  /\ Head(s) \in S /\ Head(s) = s[1] /\ Tail(s) \in Seq(S)
           /\ Len(s) \in Nat \ {0} /\ Len(Tail(s)) = Len(s) - 1
           /\ \A i \in 1..Len(s) - 1 : Tail(s)[i] = s[i + 1]
           /\ Elems(s) = Elems(Tail(s)) \cup {Head(s)}
<1>1. /\ Head(s) \in S /\ Head(s) = s[1] /\ Tail(s) \in Seq(S)
      /\ Len(s) \in Nat \ {0} /\ Len(Tail(s)) = Len(s) - 1
      /\ \A i \in 1..Len(s) - 1 : Tail(s)[i] = s[i + 1]
  OBVIOUS
<1>2. ASSUME NEW i \in 1..Len(s) PROVE s[i] \in Elems(Tail(s)) \cup {Head(s)}
  <2>1. CASE i = 1
    BY <1>1, <2>1
  <2>2. CASE i # 1
    <3>1. i - 1 \in 1..Len(s) - 1 /\ s[i] = Tail(s)[i - 1]
      BY <1>1, <2>2
    <3> QED BY <1>1, <3>1 DEF Elems
  <2> QED BY <2>1, <2>2
<1>3. ASSUME NEW i \in 1..Len(Tail(s)) PROVE Tail(s)[i] \in Elems(s)
  BY <1>1 DEF Elems
<1>4. Head(s) \in Elems(s)
  BY <1>1 DEF Elems
<1>5. Elems(s) \subseteq Elems(Tail(s)) \cup {Head(s)}
  BY <1>2 DEF Elems
<1>6. Elems(Tail(s)) \subseteq Elems(s)
  BY <1>3 DEF Elems
<1> QED BY <1>1, <1>4, <1>5, <1>6

\* An empty queue holds no task.
LEMMA ElemsEmpty == Elems(<<>>) = {}
BY DEF Elems

\* The innermost call is replaced, the others stay.
LEMMA ContinueForm ==
    ASSUME calls \in Seq(Call), calls # <<>>, NEW call \in Call, Continue(call)
    PROVE  /\ Len(calls) \in Nat \ {0} /\ Top \in Call /\ Top = calls[Len(calls)]
           /\ calls' \in Seq(Call) /\ Len(calls') = Len(calls)
           /\ calls'[Len(calls)] = call
           /\ \A c \in 1..Len(calls) : c # Len(calls) => calls'[c] = calls[c]
BY DEF Continue, Top

\* No task was started before itself.
LEMMA BeforeIrreflexive ==
    ASSUME Started, NEW x PROVE ~Before(x, x)
BY DEF Before, Started

\* What a call has before it, place by place.
LEMMA PendingForm ==
    ASSUME TypeOK, NEW c \in 1..Len(calls)
    PROVE  /\ Pending(c) \in Seq(Tasks)
           /\ calls[c].stage = "drain" /\ calls[c].inside # None =>
                 /\ Len(Pending(c)) = Len(calls[c].batch) + 1
                 /\ Pending(c)[1] = calls[c].inside
                 /\ \A i \in 1..Len(calls[c].batch) : Pending(c)[i + 1] = calls[c].batch[i]
           /\ ~(calls[c].stage = "drain" /\ calls[c].inside # None) =>
                 Pending(c) = calls[c].batch
<1>1. calls[c] \in Call
  BY DEF TypeOK
<1>2. calls[c].batch \in Seq(Tasks)
  BY <1>1 DEF Call
<1>3. CASE calls[c].stage = "drain" /\ calls[c].inside # None
  <2>1. calls[c].inside \in Tasks
    BY <1>1, <1>3 DEF Call
  <2>2. Pending(c) = <<calls[c].inside>> \o calls[c].batch
    BY <1>3 DEF Pending
  <2> QED BY <1>2, <1>3, <2>1, <2>2
<1>4. CASE ~(calls[c].stage = "drain" /\ calls[c].inside # None)
  BY <1>2, <1>4 DEF Pending
<1> QED BY <1>3, <1>4

\* What a call has before it was started.
LEMMA PendingStarted ==
    ASSUME IInv, NEW c \in 1..Len(calls), NEW i \in 1..Len(Pending(c))
    PROVE  Pending(c)[i] \in Elems(started)
<1>0. calls[c] \in Call
  BY DEF IInv, TypeOK
<1>1. calls[c].batch \in Seq(Tasks)
  BY <1>0 DEF Call
<1>2. CASE calls[c].stage = "drain" /\ calls[c].inside # None
  <2>1. /\ Pending(c)[1] = calls[c].inside
        /\ Len(Pending(c)) = Len(calls[c].batch) + 1
        /\ \A k \in 1..Len(calls[c].batch) : Pending(c)[k + 1] = calls[c].batch[k]
    BY <1>2, PendingForm DEF IInv
  <2>2. CASE i = 1
    BY <1>2, <2>1, <2>2 DEF IInv, Causes, Started
  <2>3. CASE i # 1
    <3>1. i - 1 \in 1..Len(calls[c].batch) /\ i = (i - 1) + 1
      BY <1>1, <2>1, <2>3
    <3>2. Pending(c)[i] = calls[c].batch[i - 1]
      BY <2>1, <3>1
    <3>3. calls[c].batch[i - 1] \in Elems(calls[c].batch)
      BY <3>1 DEF Elems
    <3> QED BY <3>2, <3>3 DEF IInv, Started
  <2> QED BY <2>2, <2>3
<1>3. CASE ~(calls[c].stage = "drain" /\ calls[c].inside # None)
  <2>1. Pending(c) = calls[c].batch
    BY <1>3, PendingForm DEF IInv
  <2> QED BY <2>1 DEF IInv, Started, Elems
<1> QED BY <1>2, <1>3

-----------------------------------------------------------------------------
(* Steps that leave the work where it is: only the innermost call goes on. *)

\* Facts about the lists, and about Stack below the innermost call.
LEMMA WorkKept ==
    ASSUME IInv, calls # <<>>, NEW call \in Call, Continue(call),
           call.batch = Top.batch, call.before = Top.before,
           UNCHANGED <<queue, started, begun>>
    PROVE  Started' /\ BegunOnce'
<1>1. /\ Len(calls') = Len(calls) /\ Len(calls) \in Nat \ {0}
      /\ \A c \in 1..Len(calls) : calls'[c].batch = calls[c].batch /\ calls'[c].before = calls[c].before
  BY ContinueForm DEF IInv, TypeOK
<1>2. Started'
  BY <1>1 DEF IInv, Started
<1>3. BegunOnce'
  BY <1>1 DEF IInv, BegunOnce
<1> QED BY <1>2, <1>3

\* The order of starts changes only at a start.
LEMMA BeforeKept ==
    ASSUME UNCHANGED started PROVE \A x, y : Before(x, y)' <=> Before(x, y)
BY DEF Before

\* If the innermost call has left what it was inside, the rest is in order still.
LEMMA OrderKept ==
    ASSUME IInv, TypeOK', calls # <<>>, NEW call \in Call, Continue(call),
           call.batch = Top.batch, call.stage = "main" \/ call.inside = None,
           UNCHANGED <<queue, started>>
    PROVE  Order'
<1> PICK n \in Nat : n = Len(calls)
  BY DEF IInv, TypeOK
<1>1. /\ n \in Nat \ {0} /\ Len(calls') = n /\ calls'[n] = call /\ Top = calls[n]
      /\ \A c \in 1..n : c # n => calls'[c] = calls[c]
  BY ContinueForm DEF IInv, TypeOK
<1>2. \A c \in 1..n : c # n => Pending(c)' = Pending(c)
  BY <1>1 DEF Pending
<1>3. Pending(n)' = calls[n].batch
  BY <1>1 DEF Pending
<1>4. \A c \in 1..n : Pending(c) \in Seq(Tasks) /\ Pending(c)' \in Seq(Tasks)
  <2>1. \A c \in 1..n : Pending(c) \in Seq(Tasks)
    BY PendingForm DEF IInv
  <2>2. calls[n].batch \in Seq(Tasks)
    BY <1>1 DEF IInv, TypeOK, Call
  <2> QED BY <1>2, <1>3, <2>1, <2>2
<1>5. \E k \in {0, 1} : /\ Len(Pending(n)) = Len(Pending(n)') + k
                        /\ \A i \in 1..Len(Pending(n)') : Pending(n)'[i] = Pending(n)[i + k]
  <2>1. CASE calls[n].stage = "drain" /\ calls[n].inside # None
    BY <1>1, <1>3, <1>4, <2>1, PendingForm DEF IInv
  <2>2. CASE ~(calls[n].stage = "drain" /\ calls[n].inside # None)
    BY <1>1, <1>3, <1>4, <2>2, PendingForm DEF IInv
  <2> QED BY <2>1, <2>2
<1> PICK k \in {0, 1} : /\ Len(Pending(n)) = Len(Pending(n)') + k
                        /\ \A i \in 1..Len(Pending(n)') : Pending(n)'[i] = Pending(n)[i + k]
  BY <1>5
<1>6. Sorted(queue)' /\ \A x, y : Before(x, y)' <=> Before(x, y)
  BY BeforeKept DEF IInv, Order, Sorted
<1>7. ASSUME NEW c \in 1..n
      PROVE  /\ Sorted(Pending(c))'
             /\ \A d \in c + 1..n : Ordered(Pending(c), Pending(d))'
             /\ Ordered(Pending(c), queue)'
  <2>1. /\ Sorted(Pending(c)) /\ Ordered(Pending(c), queue)
        /\ \A d \in c + 1..n : Ordered(Pending(c), Pending(d))
    BY DEF IInv, Order
  <2>2. CASE c = n
    <3>1. \A d \in c + 1..n : FALSE
      BY <1>1, <2>2
    <3>2. Len(Pending(n)') \in Nat /\ Len(Pending(n)) \in Nat
      BY <1>1, <1>4
    <3>3. \A i \in 1..Len(Pending(n)') :
             i + k \in 1..Len(Pending(n)) /\ Pending(n)'[i] = Pending(n)[i + k]
      BY <3>2
    <3>4. Sorted(Pending(n))'
      <4>1. ASSUME NEW i \in 1..Len(Pending(n)'), NEW j \in 1..Len(Pending(n)'), i < j
            PROVE  Before(Pending(n)'[i], Pending(n)'[j])
        <5>1. /\ i + k \in 1..Len(Pending(n)) /\ j + k \in 1..Len(Pending(n)) /\ i + k < j + k
              /\ Pending(n)'[i] = Pending(n)[i + k] /\ Pending(n)'[j] = Pending(n)[j + k]
          BY <3>2, <3>3, <4>1
        <5> QED BY <2>1, <2>2, <5>1 DEF Sorted
      <4> QED BY <1>6, <4>1 DEF Sorted
    <3>5. Ordered(Pending(n), queue)'
      BY <1>6, <2>1, <2>2, <3>2, <3>3 DEF Ordered
    <3> QED BY <2>2, <3>1, <3>4, <3>5
  <2>3. CASE c # n
    <3>1. Sorted(Pending(c))' /\ Ordered(Pending(c), queue)'
      BY <1>2, <1>4, <1>6, <2>1, <2>3 DEF Sorted, Ordered
    <3>2. ASSUME NEW d \in c + 1..n PROVE Ordered(Pending(c), Pending(d))'
      <4>1. d \in 1..n /\ Ordered(Pending(c), Pending(d))
        BY <1>1, <2>1
      <4>2. CASE d = n
        <5>1. Len(Pending(n)') \in Nat /\ Len(Pending(n)) \in Nat
          BY <1>1, <1>4
        <5>2. \A i \in 1..Len(Pending(n)') :
                 i + k \in 1..Len(Pending(n)) /\ Pending(n)'[i] = Pending(n)[i + k]
          BY <5>1
        <5> QED BY <1>2, <1>6, <2>3, <4>1, <4>2, <5>2 DEF Ordered
      <4>3. CASE d # n
        BY <1>2, <1>4, <1>6, <2>3, <4>1, <4>3 DEF Ordered
      <4> QED BY <4>2, <4>3
    <3> QED BY <3>1, <3>2
  <2> QED BY <2>2, <2>3
<1> QED BY <1>1, <1>6, <1>7 DEF Order

\* A task that returns is done, and its continuation, if it has one, becomes due after those
\* before it.
LEMMA TaskReturnsStep == ASSUME IInv, TaskReturns PROVE IInv'
<1> PICK n \in Nat : n = Len(calls)
  BY DEF IInv, TypeOK
<1> PICK x : x = Top.inside
  OBVIOUS
<1> DEFINE call == [Top EXCEPT !.inside = None]
<1>1. calls # <<>> /\ Top.stage = "drain" /\ x # None /\ Continue(call)
  BY DEF TaskReturns
<1>2. n \in Nat \ {0} /\ Top = calls[n] /\ Top \in Call
  BY <1>1 DEF IInv, TypeOK, Top
<1>3. call \in Call
  BY <1>2 DEF Call
<1>4. x \in Tasks /\ call.inside = None /\ call.batch = Top.batch /\ call.before = Top.before
      /\ call.stage = Top.stage /\ call.round = Top.round
  BY <1>1, <1>2 DEF Call
<1>5. /\ Len(calls') = n /\ calls'[n] = call /\ calls' \in Seq(Call)
      /\ \A c \in 1..n : c # n => calls'[c] = calls[c]
  BY <1>1, <1>3, ContinueForm DEF IInv, TypeOK
<1> HIDE DEF call
<1>6. UNCHANGED <<queue, started, begun, delivered>> /\ done' = done \cup {x}
  BY DEF TaskReturns
<1>7. mainQ' \in Seq(Tasks) /\ Elems(mainQ') \subseteq Elems(mainQ) \cup {x}
  <2>1. mainQ' = Append(mainQ, x) \/ mainQ' = mainQ
    BY DEF TaskReturns
  <2>2. mainQ \in Seq(Tasks)
    BY DEF IInv, TypeOK
  <2>3. Append(mainQ, x) \in Seq(Tasks) /\ Elems(Append(mainQ, x)) = Elems(mainQ) \cup {x}
    BY <1>4, <2>2, ElemsAppend
  <2> QED BY <2>1, <2>2, <2>3
<1>8. TypeOK'
  BY <1>4, <1>5, <1>6, <1>7 DEF IInv, TypeOK
<1>9. Started' /\ BegunOnce'
  BY <1>1, <1>3, <1>4, <1>6, WorkKept
<1>10. Order'
  BY <1>1, <1>3, <1>4, <1>6, <1>8, OrderKept
<1>11. Stack'
  BY <1>2, <1>4, <1>5 DEF IInv, Stack
<1>12. Located'
  <2> SUFFICES ASSUME NEW y \in Elems(started)
               PROVE  \/ y \in Elems(queue)
                      \/ \E c \in 1..n : y \in Elems(calls'[c].batch)
                      \/ y \in Elems(begun) /\ \/ y \in done'
                                               \/ \E c \in 1..n : calls'[c].stage = "drain"
                                                                   /\ calls'[c].inside = y
    BY <1>5, <1>6 DEF Located
  <2>1. \A c \in 1..n : calls'[c].batch = calls[c].batch /\ calls'[c].stage = calls[c].stage
    BY <1>2, <1>4, <1>5
  <2>2. \A c \in 1..n : calls[c].inside = y => calls'[c].inside = y \/ y \in done'
    BY <1>2, <1>5, <1>6
  <2> QED BY <1>6, <2>1, <2>2 DEF IInv, Located
<1>13. Causes'
  BY <1>2, <1>4, <1>5, <1>6, <1>7 DEF IInv, Causes
<1>14. Frame'
  BY <1>1, <1>2, <1>4, <1>5, <1>6 DEF IInv, Frame
<1> QED BY <1>8, <1>9, <1>10, <1>11, <1>12, <1>13, <1>14 DEF IInv

\* A drain that is over hands its call to the main-thread tasks.
LEMMA DrainOverStep == ASSUME IInv, DrainOver PROVE IInv'
<1> PICK n \in Nat : n = Len(calls)
  BY DEF IInv, TypeOK
<1> DEFINE call == [Top EXCEPT !.stage = "main"]
<1>1. /\ calls # <<>> /\ Top.stage = "drain" /\ Top.inside = None /\ Continue(call)
      /\ Top.batch = <<>> /\ (Top.round = MaxRounds \/ queue = <<>>)
  BY DEF DrainOver, InDrain
<1>2. n \in Nat \ {0} /\ Top = calls[n] /\ Top \in Call
  BY <1>1 DEF IInv, TypeOK, Top
<1>3. call \in Call
  BY <1>2 DEF Call
<1>4. call.inside = None /\ call.batch = Top.batch /\ call.before = Top.before
      /\ call.stage = "main" /\ call.round = Top.round
  BY <1>1, <1>2 DEF Call
<1>5. /\ Len(calls') = n /\ calls'[n] = call /\ calls' \in Seq(Call)
      /\ \A c \in 1..n : c # n => calls'[c] = calls[c]
  BY <1>1, <1>3, ContinueForm DEF IInv, TypeOK
<1> HIDE DEF call
<1>6. UNCHANGED <<queue, mainQ, started, begun, done, delivered>>
  BY DEF DrainOver
<1>8. TypeOK'
  BY <1>5, <1>6 DEF IInv, TypeOK
<1>9. Started' /\ BegunOnce'
  BY <1>1, <1>3, <1>4, <1>6, WorkKept
<1>10. Order'
  BY <1>1, <1>3, <1>4, <1>6, <1>8, OrderKept
<1>11. Stack'
  BY <1>1, <1>2, <1>4, <1>5 DEF IInv, Stack
<1>12. Located'
  <2>1. \A c \in 1..n : calls'[c].batch = calls[c].batch
    BY <1>2, <1>4, <1>5
  <2>2. ASSUME NEW y \in Elems(started), NEW c \in 1..n, calls[c].stage = "drain", calls[c].inside = y
        PROVE  calls'[c].stage = "drain" /\ calls'[c].inside = y
    <3>1. y \in Tasks
      BY DEF Elems, IInv, TypeOK
    <3>2. c # n
      BY <1>1, <1>2, <2>2, <3>1, NoneAssumption
    <3> QED BY <1>5, <2>2, <3>2
  <2> QED BY <1>5, <1>6, <2>1, <2>2 DEF IInv, Located
<1>13. Causes'
  BY <1>2, <1>4, <1>5, <1>6 DEF IInv, Causes
<1>14. Frame'
  <2>1. calls # <<>> /\ calls'[1].before = calls[1].before /\ calls'[1].round = calls[1].round
        /\ (calls'[1].stage = calls[1].stage \/ n = 1)
    BY <1>1, <1>2, <1>4, <1>5
  <2>2. ASSUME n = 1, NEW y \in calls[1].before PROVE y \in done
    <3>1. y \in Elems(started)
      BY <1>2, <2>2 DEF IInv, Started
    <3>2. y \notin Elems(queue)
      BY <1>1, <1>2, <2>2, RoundsAssumption DEF IInv, Frame, Elems
    <3>3. \A c \in 1..n : Elems(calls[c].batch) = {} /\ ~(calls[c].inside = y)
      <4>1. y \in Tasks
        BY <3>1 DEF Elems, IInv, TypeOK
      <4> QED BY <1>1, <1>2, <2>2, <4>1, ElemsEmpty, NoneAssumption
    <3> QED BY <3>1, <3>2, <3>3 DEF IInv, Located
  <2> QED BY <1>6, <2>1, <2>2 DEF IInv, Frame
<1> QED BY <1>8, <1>9, <1>10, <1>11, <1>12, <1>13, <1>14 DEF IInv

\* A call takes the first continuation due and is inside it.
LEMMA RunContinuationStep == ASSUME IInv, RunContinuation PROVE IInv'
<1> PICK n \in Nat : n = Len(calls)
  BY DEF IInv, TypeOK
<1> PICK x : x = Head(mainQ)
  OBVIOUS
<1> DEFINE call == [Top EXCEPT !.inside = x]
<1>1. calls # <<>> /\ Top.stage = "main" /\ Top.inside = None /\ Continue(call) /\ mainQ # <<>>
  BY DEF RunContinuation, InMain
<1>2. n \in Nat \ {0} /\ Top = calls[n] /\ Top \in Call
  BY <1>1 DEF IInv, TypeOK, Top
<1>3. /\ x \in Tasks /\ x \in Elems(mainQ)
      /\ Tail(mainQ) \in Seq(Tasks) /\ Elems(Tail(mainQ)) \subseteq Elems(mainQ)
  BY <1>1, ElemsTail DEF IInv, TypeOK
<1>4. call \in Call
  BY <1>2, <1>3 DEF Call
<1>5. call.inside = x /\ call.batch = Top.batch /\ call.before = Top.before
      /\ call.stage = Top.stage /\ call.round = Top.round
  BY <1>2 DEF Call
<1>6. /\ Len(calls') = n /\ calls'[n] = call /\ calls' \in Seq(Call)
      /\ \A c \in 1..n : c # n => calls'[c] = calls[c]
  BY <1>1, <1>4, ContinueForm DEF IInv, TypeOK
<1> HIDE DEF call
<1>7. UNCHANGED <<queue, started, begun, done, delivered>> /\ mainQ' = Tail(mainQ)
  BY DEF RunContinuation
<1>8. TypeOK'
  BY <1>3, <1>6, <1>7 DEF IInv, TypeOK
<1>9. Started' /\ BegunOnce'
  BY <1>1, <1>4, <1>5, <1>7, WorkKept
<1>10. Order'
  BY <1>1, <1>4, <1>5, <1>7, <1>8, OrderKept
<1>11. Stack'
  BY <1>2, <1>5, <1>6 DEF IInv, Stack
<1>12. Located'
  <2>1. \A c \in 1..n : /\ calls'[c].batch = calls[c].batch
                        /\ calls[c].stage = "drain" => calls'[c] = calls[c]
    BY <1>1, <1>2, <1>5, <1>6
  <2> QED BY <1>6, <1>7, <2>1 DEF IInv, Located
<1>13. Causes'
  BY <1>1, <1>2, <1>3, <1>5, <1>6, <1>7 DEF IInv, Causes
<1>14. Frame'
  BY <1>1, <1>2, <1>5, <1>6, <1>7 DEF IInv, Frame
<1> QED BY <1>8, <1>9, <1>10, <1>11, <1>12, <1>13, <1>14 DEF IInv

\* A call comes out of its continuation and looks for the next.
LEMMA ContinuationReturnsStep == ASSUME IInv, ContinuationReturns PROVE IInv'
<1> PICK n \in Nat : n = Len(calls)
  BY DEF IInv, TypeOK
<1> PICK x : x = Top.inside
  OBVIOUS
<1> DEFINE call == [Top EXCEPT !.inside = None]
<1>1. calls # <<>> /\ Top.stage = "main" /\ x # None /\ Continue(call)
  BY DEF ContinuationReturns
<1>2. n \in Nat \ {0} /\ Top = calls[n] /\ Top \in Call
  BY <1>1 DEF IInv, TypeOK, Top
<1>3. call \in Call
  BY <1>2 DEF Call
<1>4. call.inside = None /\ call.batch = Top.batch /\ call.before = Top.before
      /\ call.stage = Top.stage /\ call.round = Top.round
  BY <1>2 DEF Call
<1>5. x \in done
  BY <1>1, <1>2 DEF IInv, Causes
<1>6. /\ Len(calls') = n /\ calls'[n] = call /\ calls' \in Seq(Call)
      /\ \A c \in 1..n : c # n => calls'[c] = calls[c]
  BY <1>1, <1>3, ContinueForm DEF IInv, TypeOK
<1> HIDE DEF call
<1>7. UNCHANGED <<queue, mainQ, started, begun, done>> /\ delivered' = delivered \cup {x}
  BY DEF ContinuationReturns
<1>8. TypeOK'
  BY <1>5, <1>6, <1>7 DEF IInv, TypeOK
<1>9. Started' /\ BegunOnce'
  BY <1>1, <1>3, <1>4, <1>7, WorkKept
<1>10. Order'
  BY <1>1, <1>3, <1>4, <1>7, <1>8, OrderKept
<1>11. Stack'
  BY <1>2, <1>4, <1>6 DEF IInv, Stack
<1>12. Located'
  <2>1. \A c \in 1..n : /\ calls'[c].batch = calls[c].batch
                        /\ calls[c].stage = "drain" => calls'[c] = calls[c]
    BY <1>1, <1>2, <1>4, <1>6
  <2> QED BY <1>6, <1>7, <2>1 DEF IInv, Located
<1>13. Causes'
  BY <1>2, <1>4, <1>6, <1>7 DEF IInv, Causes
<1>14. Frame'
  BY <1>1, <1>2, <1>4, <1>6, <1>7 DEF IInv, Frame
<1> QED BY <1>8, <1>9, <1>10, <1>11, <1>12, <1>13, <1>14 DEF IInv

-----------------------------------------------------------------------------
(* Calls come and go. *)

\* The host pumps, from outside or from inside a callback: one more call on the stack.
LEMMA PumpStep == ASSUME IInv, Pump PROVE IInv'
<1> PICK n \in Nat : n = Len(calls)
  BY DEF IInv, TypeOK
<1>1. /\ calls' = Append(calls, NewCall) /\ (n # 0 => calls[n].inside # None)
      /\ UNCHANGED <<queue, mainQ, started, begun, done, delivered>>
  BY DEF Pump, InHost, Top, IInv, TypeOK
<1>2. NewCall \in Call /\ NewCall.inside = None /\ NewCall.batch = <<>> /\ NewCall.stage = "drain"
      /\ NewCall.round = 0 /\ NewCall.before = Elems(started)
  BY RoundsAssumption DEF NewCall, Call, IInv, TypeOK, Elems
<1>3. /\ calls' \in Seq(Call) /\ Len(calls') = n + 1 /\ calls'[n + 1] = NewCall
      /\ \A c \in 1..n : calls'[c] = calls[c]
  BY <1>1, <1>2 DEF IInv, TypeOK
<1>4. \A c \in 1..n + 1 : c \in 1..n \/ c = n + 1
  OBVIOUS
<1>5. TypeOK'
  BY <1>1, <1>3 DEF IInv, TypeOK
<1>6. Started'
  <2>1. Elems(NewCall.batch) = {} /\ Len(NewCall.batch) = 0
    BY <1>2, ElemsEmpty
  <2>2. Len(started) \in Nat
    BY DEF IInv, TypeOK
  <2> QED BY <1>1, <1>2, <1>3, <1>4, <2>1, <2>2 DEF IInv, Started
<1>7. Stack'
  <2>1. \A c \in 1..n : calls[c].inside # None
    BY <1>1 DEF IInv, Stack
  <2> QED BY <1>2, <1>3, <1>4, <2>1 DEF IInv, Stack
<1>8. Order'
  <2>1. \A c \in 1..n : Pending(c)' = Pending(c)
    BY <1>3 DEF Pending
  <2>2. Pending(n + 1)' = <<>>
    BY <1>2, <1>3 DEF Pending
  <2>3. Sorted(queue)' /\ \A x, y : Before(x, y)' <=> Before(x, y)
    BY <1>1, BeforeKept DEF IInv, Order, Sorted
  <2>4. ASSUME NEW c \in 1..n
        PROVE  /\ Sorted(Pending(c))' /\ Ordered(Pending(c), queue)'
               /\ \A d \in c + 1..n + 1 : Ordered(Pending(c), Pending(d))'
    <3>1. Sorted(Pending(c))' /\ Ordered(Pending(c), queue)'
      BY <1>1, <2>1, <2>3 DEF IInv, Order, Sorted, Ordered
    <3>2. ASSUME NEW d \in c + 1..n + 1 PROVE Ordered(Pending(c), Pending(d))'
      <4>1. CASE d = n + 1
        BY <2>2, <4>1 DEF Ordered
      <4>2. CASE d # n + 1
        <5>1. d \in 1..n /\ d \in c + 1..n
          BY <4>2
        <5>2. Ordered(Pending(c), Pending(d))
          BY <5>1 DEF IInv, Order
        <5> QED BY <2>1, <2>3, <5>1, <5>2 DEF Ordered
      <4> QED BY <4>1, <4>2
    <3> QED BY <3>1, <3>2
  <2>5. Sorted(Pending(n + 1))' /\ Ordered(Pending(n + 1), queue)'
    BY <2>2 DEF Sorted, Ordered
  <2>6. \A d \in n + 1 + 1..n + 1 : FALSE
    OBVIOUS
  <2> QED BY <1>3, <1>4, <2>3, <2>4, <2>5, <2>6 DEF Order
<1>9. BegunOnce'
  BY <1>1, <1>2, <1>3, <1>4, ElemsEmpty DEF IInv, BegunOnce
<1>10. Located'
  BY <1>1, <1>3 DEF IInv, Located
<1>11. Causes'
  BY <1>1, <1>2, <1>3, <1>4 DEF IInv, Causes
<1>12. Frame'
  <2>1. CASE n = 0
    BY <1>2, <1>3, <2>1 DEF Frame
  <2>2. CASE n # 0
    <3>1. calls # <<>> /\ calls'[1] = calls[1]
      BY <1>3, <2>2
    <3> QED BY <1>1, <3>1 DEF IInv, Frame
  <2> QED BY <2>1, <2>2
<1> QED BY <1>5, <1>6, <1>7, <1>8, <1>9, <1>10, <1>11, <1>12 DEF IInv

\* The innermost call returns; the one it was made in goes on.
LEMMA PumpReturnsStep == ASSUME IInv, PumpReturns PROVE IInv'
<1> PICK n \in Nat : n = Len(calls)
  BY DEF IInv, TypeOK
<1>1. /\ n # 0 /\ calls[n].stage = "main" /\ calls[n].inside = None
      /\ calls' = SubSeq(calls, 1, n - 1)
      /\ UNCHANGED <<queue, mainQ, started, begun, done, delivered>>
  BY DEF PumpReturns, InMain, Top, IInv, TypeOK
<1>2. /\ calls' \in Seq(Call) /\ Len(calls') = n - 1
      /\ \A c \in 1..n - 1 : calls'[c] = calls[c]
  BY <1>1 DEF IInv, TypeOK
<1>3. calls[n].batch = <<>>
  BY <1>1 DEF IInv, Stack
<1>4. \A c \in 1..n - 1 : c \in 1..n /\ c # n
  OBVIOUS
<1>5. TypeOK'
  BY <1>1, <1>2 DEF IInv, TypeOK
<1>6. Started'
  BY <1>1, <1>2, <1>4 DEF IInv, Started
<1>7. Stack'
  BY <1>2, <1>4 DEF IInv, Stack
<1>8. Order'
  <2>1. \A c \in 1..n - 1 : Pending(c)' = Pending(c)
    BY <1>2 DEF Pending
  <2>2. Sorted(queue)' /\ \A x, y : Before(x, y)' <=> Before(x, y)
    BY <1>1, BeforeKept DEF IInv, Order, Sorted
  <2>3. ASSUME NEW c \in 1..n - 1
        PROVE  /\ Sorted(Pending(c))' /\ Ordered(Pending(c), queue)'
               /\ \A d \in c + 1..n - 1 : Ordered(Pending(c), Pending(d))'
    <3>1. Sorted(Pending(c))' /\ Ordered(Pending(c), queue)'
      BY <1>1, <1>4, <2>1, <2>2 DEF IInv, Order, Sorted, Ordered
    <3>2. ASSUME NEW d \in c + 1..n - 1 PROVE Ordered(Pending(c), Pending(d))'
      <4>1. d \in 1..n - 1 /\ d \in c + 1..n
        OBVIOUS
      <4>2. Ordered(Pending(c), Pending(d))
        BY <1>4, <4>1 DEF IInv, Order
      <4> QED BY <2>1, <2>2, <4>1, <4>2 DEF Ordered
    <3> QED BY <3>1, <3>2
  <2> QED BY <1>2, <2>2, <2>3 DEF Order
<1>9. BegunOnce'
  BY <1>1, <1>2, <1>4 DEF IInv, BegunOnce
<1>10. Located'
  <2>1. \A c \in 1..n : c = n \/ c \in 1..n - 1
    OBVIOUS
  <2>2. Elems(calls[n].batch) = {} /\ calls[n].stage # "drain"
    BY <1>1, <1>3, ElemsEmpty
  <2>3. ASSUME NEW y \in Elems(started)
        PROVE  \/ y \in Elems(queue)
               \/ \E c \in 1..n - 1 : y \in Elems(calls[c].batch)
               \/ y \in Elems(begun) /\ \/ y \in done
                                        \/ \E c \in 1..n - 1 : calls[c].stage = "drain" /\ calls[c].inside = y
    BY <2>1, <2>2 DEF IInv, Located
  <2> QED BY <1>1, <1>2, <2>3 DEF Located
<1>11. Causes'
  BY <1>1, <1>2, <1>4 DEF IInv, Causes
<1>12. Frame'
  <2>1. calls' # <<>> => calls # <<>> /\ calls'[1] = calls[1]
    BY <1>1, <1>2
  <2> QED BY <1>1, <2>1 DEF IInv, Frame
<1> QED BY <1>5, <1>6, <1>7, <1>8, <1>9, <1>10, <1>11, <1>12 DEF IInv

-----------------------------------------------------------------------------
(* Steps that move a task: into the queue, into a batch, out of it. *)

\* A start puts the task behind all that were started before it.
LEMMA StartTaskStep == ASSUME IInv, NEW x \in Tasks, StartTask(x) PROVE IInv'
<1> PICK n \in Nat : n = Len(calls)
  BY DEF IInv, TypeOK
<1> PICK m \in Nat : m = Len(started)
  BY DEF IInv, TypeOK
<1>1. /\ x \notin Elems(started) /\ started' = Append(started, x) /\ queue' = Append(queue, x)
      /\ UNCHANGED <<mainQ, calls, begun, done, delivered>>
  BY DEF StartTask
<1>2. /\ started' \in Seq(Tasks) /\ Len(started') = m + 1 /\ started'[m + 1] = x
      /\ \A i \in 1..m : started'[i] = started[i]
      /\ Elems(started') = Elems(started) \cup {x}
  BY <1>1, ElemsAppend DEF IInv, TypeOK
<1>3. /\ queue' \in Seq(Tasks) /\ Len(queue) \in Nat /\ Len(queue') = Len(queue) + 1
      /\ queue'[Len(queue) + 1] = x
      /\ \A i \in 1..Len(queue) : queue'[i] = queue[i]
      /\ Elems(queue') = Elems(queue) \cup {x}
  BY <1>1, ElemsAppend DEF IInv, TypeOK
<1>4. \A i \in 1..m : started[i] # x
  BY <1>1 DEF Elems
<1>5. TypeOK'
  BY <1>1, <1>2, <1>3 DEF IInv, TypeOK
<1>6. Started'
  <2>1. \A i, j \in 1..m + 1 : started'[i] = started'[j] => i = j
    <3> SUFFICES ASSUME NEW i \in 1..m + 1, NEW j \in 1..m + 1, started'[i] = started'[j]
                 PROVE  i = j
      OBVIOUS
    <3>1. (i \in 1..m \/ i = m + 1) /\ (j \in 1..m \/ j = m + 1)
      OBVIOUS
    <3> QED BY <1>2, <1>4, <3>1 DEF IInv, Started
  <2>2. \A c \in 1..n : /\ Elems(calls[c].batch) \subseteq Elems(started')
                        /\ Len(calls[c].batch) <= m + 1
                        /\ calls[c].before \subseteq Elems(started')
    <3> SUFFICES ASSUME NEW c \in 1..n
                 PROVE  /\ Elems(calls[c].batch) \subseteq Elems(started')
                        /\ Len(calls[c].batch) <= m + 1
                        /\ calls[c].before \subseteq Elems(started')
      OBVIOUS
    <3>1. /\ Elems(calls[c].batch) \subseteq Elems(started) /\ Len(calls[c].batch) <= m
          /\ calls[c].before \subseteq Elems(started)
      BY DEF IInv, Started
    <3>2. Len(calls[c].batch) \in Nat
      BY DEF IInv, TypeOK, Call
    <3> QED BY <1>2, <3>1, <3>2
  <2>3. /\ Elems(queue') \subseteq Elems(started') /\ Elems(begun) \subseteq Elems(started')
        /\ Len(queue') <= Len(started')
    BY <1>2, <1>3 DEF IInv, Started
  <2> QED BY <1>1, <1>2, <2>1, <2>2, <2>3 DEF Started
<1>7. Stack'
  BY <1>1 DEF IInv, Stack
<1>8. Order'
  <2>1. \A y, z : Before(y, z) => Before(y, z)'
    <3> SUFFICES ASSUME NEW y, NEW z, NEW i \in 1..m, NEW j \in 1..m, i < j,
                        started[i] = y, started[j] = z
                 PROVE  Before(y, z)'
      BY DEF Before
    <3>1. i \in 1..m + 1 /\ j \in 1..m + 1 /\ started'[i] = y /\ started'[j] = z
      BY <1>2
    <3> QED BY <1>2, <3>1 DEF Before
  <2>2. ASSUME NEW y \in Elems(started) PROVE Before(y, x)'
    <3> PICK i \in 1..m : started[i] = y
      BY DEF Elems
    <3>1. i \in 1..m + 1 /\ m + 1 \in 1..m + 1 /\ i < m + 1 /\ started'[i] = y
      BY <1>2
    <3> QED BY <1>2, <3>1 DEF Before
  <2>3. \A c \in 1..n : Pending(c)' = Pending(c)
    BY <1>1 DEF Pending
  <2>4. Sorted(queue)'
    <3> SUFFICES ASSUME NEW i \in 1..Len(queue) + 1, NEW j \in 1..Len(queue) + 1, i < j
                 PROVE  Before(queue[i], queue[j])'
      BY <1>3 DEF Sorted
    <3>1. i \in 1..Len(queue) /\ queue'[i] = queue[i]
      BY <1>3
    <3>2. CASE j = Len(queue) + 1
      <4>1. queue[i] \in Elems(started)
        BY <3>1 DEF Elems, IInv, Started
      <4> QED BY <1>3, <2>2, <3>1, <3>2, <4>1
    <3>3. CASE j # Len(queue) + 1
      <4>1. j \in 1..Len(queue) /\ queue'[j] = queue[j]
        BY <1>3, <3>3
      <4> QED BY <2>1, <3>1, <4>1 DEF IInv, Order, Sorted
    <3> QED BY <3>2, <3>3
  <2>5. ASSUME NEW c \in 1..n PROVE Ordered(Pending(c), queue)'
    <3> SUFFICES ASSUME NEW i \in 1..Len(Pending(c)), NEW j \in 1..Len(queue) + 1
                 PROVE  Before(Pending(c)[i], queue[j])'
      BY <1>3, <2>3 DEF Ordered
    <3>1. CASE j = Len(queue) + 1
      <4>1. Pending(c)[i] \in Elems(started)
        BY PendingStarted
      <4> QED BY <1>3, <2>2, <2>3, <3>1, <4>1
    <3>2. CASE j # Len(queue) + 1
      <4>1. j \in 1..Len(queue) /\ queue'[j] = queue[j]
        BY <1>3, <3>2
      <4> QED BY <2>1, <2>3, <4>1 DEF IInv, Order, Ordered
    <3> QED BY <3>1, <3>2
  <2>6. ASSUME NEW c \in 1..n
        PROVE  Sorted(Pending(c))' /\ \A d \in c + 1..n : Ordered(Pending(c), Pending(d))'
    <3>1. Sorted(Pending(c)) /\ \A d \in c + 1..n : Ordered(Pending(c), Pending(d))
      BY DEF IInv, Order
    <3>2. \A d \in c + 1..n : d \in 1..n
      OBVIOUS
    <3> QED BY <2>1, <2>3, <3>1, <3>2 DEF Sorted, Ordered
  <2> QED BY <1>1, <2>4, <2>5, <2>6 DEF Order
<1>9. BegunOnce'
  <2>1. x \notin Elems(begun)
    BY <1>1 DEF IInv, Started
  <2> QED BY <1>1, <1>3, <2>1 DEF IInv, BegunOnce
<1>10. Located'
  BY <1>1, <1>2, <1>3 DEF IInv, Located
<1>11. Causes'
  BY <1>1 DEF IInv, Causes
<1>12. Frame'
  <2>1. calls # <<>> => x \notin calls[1].before
    BY <1>1 DEF IInv, TypeOK, Started
  <2> QED BY <1>1, <1>3, <2>1 DEF IInv, Frame
<1> QED BY <1>5, <1>6, <1>7, <1>8, <1>9, <1>10, <1>11, <1>12 DEF IInv


\* The whole queue becomes the batch: the innermost call had none, and was inside nothing.
LEMMA SwapBatchStep == ASSUME IInv, SwapBatch PROVE IInv'
<1> PICK n \in Nat : n = Len(calls)
  BY DEF IInv, TypeOK
<1> DEFINE call == [Top EXCEPT !.round = @ + 1, !.batch = queue]
<1>1. /\ calls # <<>> /\ Top.stage = "drain" /\ Top.inside = None /\ Continue(call)
      /\ Top.batch = <<>> /\ Top.round < MaxRounds /\ queue # <<>>
      /\ queue' = <<>> /\ UNCHANGED <<mainQ, started, begun, done, delivered>>
  BY DEF SwapBatch, InDrain
<1>2. n \in Nat \ {0} /\ Top = calls[n] /\ Top \in Call
  BY <1>1 DEF IInv, TypeOK, Top
<1>3. call \in Call
  <2>1. queue \in Seq(Tasks) /\ Top.round + 1 \in 0..MaxRounds
    <3>1. Top.round \in 0..MaxRounds
      BY <1>2 DEF Call
    <3> QED BY <1>1, <3>1, RoundsAssumption DEF IInv, TypeOK
  <2> QED BY <1>2, <2>1 DEF Call
<1>4. call.inside = None /\ call.batch = queue /\ call.before = Top.before
      /\ call.stage = "drain" /\ call.round = Top.round + 1
  BY <1>1, <1>2 DEF Call
<1>5. /\ Len(calls') = n /\ calls'[n] = call /\ calls' \in Seq(Call)
      /\ \A c \in 1..n : c # n => calls'[c] = calls[c]
  BY <1>1, <1>3, ContinueForm DEF IInv, TypeOK
<1> HIDE DEF call
<1>6. Elems(queue') = {} /\ Len(queue') = 0 /\ Elems(calls[n].batch) = {}
  BY <1>1, <1>2, ElemsEmpty
<1>7. TypeOK'
  BY <1>1, <1>5 DEF IInv, TypeOK
<1>8. Started'
  <2>1. Elems(queue) \subseteq Elems(started) /\ Len(queue) <= Len(started) /\ Len(started) \in Nat
    BY DEF IInv, TypeOK, Started
  <2>2. calls[n].before \subseteq Elems(started)
    BY <1>2 DEF IInv, Started
  <2> QED BY <1>1, <1>2, <1>4, <1>5, <1>6, <2>1, <2>2 DEF IInv, Started
<1>9. Stack'
  BY <1>2, <1>4, <1>5 DEF IInv, Stack
<1>10. Order'
  <2>1. \A c \in 1..n : c # n => Pending(c)' = Pending(c)
    BY <1>5 DEF Pending
  <2>2. Pending(n)' = queue
    BY <1>4, <1>5 DEF Pending
  <2>3. \A x, y : Before(x, y)' <=> Before(x, y)
    BY <1>1, BeforeKept
  <2>4. Sorted(queue)' /\ \A c \in 1..n : Ordered(Pending(c), queue)'
    BY <1>6 DEF Sorted, Ordered
  <2>5. Sorted(Pending(n))'
    BY <2>2, <2>3 DEF IInv, Order, Sorted
  <2>6. ASSUME NEW c \in 1..n, c # n
        PROVE  Sorted(Pending(c))' /\ \A d \in c + 1..n : Ordered(Pending(c), Pending(d))'
    <3>1. /\ Sorted(Pending(c)) /\ Ordered(Pending(c), queue)
          /\ \A d \in c + 1..n : Ordered(Pending(c), Pending(d))
      BY DEF IInv, Order
    <3>2. \A d \in c + 1..n : d \in 1..n
      OBVIOUS
    <3>3. Sorted(Pending(c))'
      BY <2>1, <2>3, <2>6, <3>1 DEF Sorted
    <3>4. ASSUME NEW d \in c + 1..n PROVE Ordered(Pending(c), Pending(d))'
      BY <2>1, <2>2, <2>3, <2>6, <3>1, <3>2 DEF Ordered
    <3> QED BY <3>3, <3>4
  <2>7. \A d \in n + 1..n : FALSE
    OBVIOUS
  <2> QED BY <1>5, <2>4, <2>5, <2>6, <2>7 DEF Order
<1>11. BegunOnce'
  BY <1>1, <1>4, <1>5, <1>6 DEF IInv, BegunOnce
<1>12. Located'
  <2> SUFFICES ASSUME NEW y \in Elems(started)
               PROVE  \/ \E c \in 1..n : y \in Elems(calls'[c].batch)
                      \/ y \in Elems(begun) /\ \/ y \in done
                                               \/ \E c \in 1..n : calls'[c].stage = "drain"
                                                                   /\ calls'[c].inside = y
    BY <1>1, <1>5 DEF Located
  <2>1. CASE y \in Elems(queue)
    BY <1>2, <1>4, <1>5, <2>1
  <2>2. ASSUME NEW c \in 1..n, y \in Elems(calls[c].batch) PROVE y \in Elems(calls'[c].batch)
    BY <1>5, <1>6, <2>2
  <2>3. ASSUME NEW c \in 1..n, calls[c].stage = "drain", calls[c].inside = y
        PROVE  calls'[c].stage = "drain" /\ calls'[c].inside = y
    BY <1>1, <1>2, <1>4, <1>5, <2>3
  <2> QED BY <2>1, <2>2, <2>3 DEF IInv, Located
<1>13. Causes'
  BY <1>1, <1>2, <1>4, <1>5 DEF IInv, Causes
<1>14. Frame'
  BY <1>1, <1>2, <1>4, <1>5, <1>6 DEF IInv, Frame
<1> QED BY <1>7, <1>8, <1>9, <1>10, <1>11, <1>12, <1>13, <1>14 DEF IInv

\* The head of the batch becomes what the call is inside: what is pending is the same.
LEMMA RunTaskStep == ASSUME IInv, RunTask PROVE IInv'
<1> PICK n \in Nat : n = Len(calls)
  BY DEF IInv, TypeOK
<1> PICK x : x = Head(Top.batch)
  OBVIOUS
<1> PICK rest : rest = Tail(Top.batch)
  OBVIOUS
<1> DEFINE call == [Top EXCEPT !.batch = rest, !.inside = x]
<1>1. /\ calls # <<>> /\ Top.stage = "drain" /\ Top.inside = None /\ Continue(call)
      /\ Top.batch # <<>>
      /\ begun' = Append(begun, x) /\ UNCHANGED <<queue, mainQ, started, done, delivered>>
  BY DEF RunTask, InDrain
<1>2. n \in Nat \ {0} /\ n \in 1..n /\ Top = calls[n] /\ Top \in Call
  BY <1>1 DEF IInv, TypeOK, Top
<1>3. Top.batch \in Seq(Tasks)
  BY <1>2 DEF Call
<1>4. /\ x \in Tasks /\ x = Top.batch[1] /\ rest \in Seq(Tasks)
      /\ Len(Top.batch) \in Nat \ {0} /\ Len(rest) = Len(Top.batch) - 1
      /\ \A i \in 1..Len(rest) : rest[i] = Top.batch[i + 1]
      /\ Elems(Top.batch) = Elems(rest) \cup {x}
  BY <1>1, <1>3, ElemsTail
<1>5. call \in Call
  BY <1>2, <1>4 DEF Call
<1>6. call.inside = x /\ call.batch = rest /\ call.before = Top.before
      /\ call.stage = "drain" /\ call.round = Top.round
  BY <1>1, <1>2 DEF Call
<1>7. /\ Len(calls') = n /\ calls'[n] = call /\ calls' \in Seq(Call)
      /\ \A c \in 1..n : c # n => calls'[c] = calls[c]
  BY <1>1, <1>5, ContinueForm DEF IInv, TypeOK
<1> HIDE DEF call
<1>8. /\ begun' \in Seq(Tasks) /\ Len(begun) \in Nat /\ Len(begun') = Len(begun) + 1
      /\ begun'[Len(begun) + 1] = x
      /\ \A i \in 1..Len(begun) : begun'[i] = begun[i]
      /\ Elems(begun') = Elems(begun) \cup {x}
  BY <1>1, <1>4, ElemsAppend DEF IInv, TypeOK
<1>9. x \in Elems(Top.batch) /\ x \in Elems(started)
  BY <1>2, <1>4 DEF IInv, Started
<1>10. x # None
  BY <1>4, NoneAssumption
<1>11. TypeOK'
  BY <1>1, <1>7, <1>8 DEF IInv, TypeOK
<1>12. Started'
  <2>1. /\ Elems(Top.batch) \subseteq Elems(started) /\ Len(Top.batch) <= Len(started)
        /\ Top.before \subseteq Elems(started) /\ Len(started) \in Nat
    BY <1>2 DEF IInv, TypeOK, Started
  <2>2. Elems(rest) \subseteq Elems(started) /\ Len(rest) <= Len(started)
    BY <1>4, <2>1
  <2> QED BY <1>1, <1>2, <1>6, <1>7, <1>8, <1>9, <2>1, <2>2 DEF IInv, Started
<1>13. Stack'
  BY <1>6, <1>7 DEF IInv, Stack
<1>14. Pending(n) = Top.batch /\ Pending(n)' = Top.batch
  <2>1. Pending(n) = Top.batch
    BY <1>1, <1>2 DEF Pending
  <2>2. Pending(n)' = <<x>> \o rest
    BY <1>6, <1>7, <1>10 DEF Pending
  <2>3. <<x>> \o rest \in Seq(Tasks) /\ Len(<<x>> \o rest) = Len(Top.batch)
        /\ \A i \in 1..Len(Top.batch) : (<<x>> \o rest)[i] = Top.batch[i]
    BY <1>3, <1>4
  <2> QED BY <1>3, <2>1, <2>2, <2>3
<1>15. Order'
  <2>1. \A c \in 1..n : Pending(c)' = Pending(c)
    BY <1>7, <1>14 DEF Pending
  <2>2. \A y, z : Before(y, z)' <=> Before(y, z)
    BY <1>1, BeforeKept
  <2>3. \A c \in 1..n : \A d \in c + 1..n : d \in 1..n
    OBVIOUS
  <2> QED BY <1>1, <1>7, <2>1, <2>2, <2>3 DEF IInv, Order, Sorted, Ordered
<1>16. BegunOnce'
  <2>1. x \notin Elems(begun)
    BY <1>2, <1>9 DEF IInv, BegunOnce
  <2>2. x \notin Elems(queue)
    <3> SUFFICES ASSUME NEW j \in 1..Len(queue), queue[j] = x PROVE FALSE
      BY DEF Elems
    <3>1. Ordered(Top.batch, queue)
      BY <1>2, <1>14 DEF IInv, Order
    <3>2. Before(x, x)
      BY <1>4, <3>1 DEF Ordered
    <3> QED BY <3>2, BeforeIrreflexive DEF IInv
  <2>3. x \notin Elems(rest)
    <3> SUFFICES ASSUME NEW j \in 1..Len(rest), rest[j] = x PROVE FALSE
      BY DEF Elems
    <3>1. Sorted(Top.batch)
      BY <1>2, <1>14 DEF IInv, Order
    <3>2. 1 \in 1..Len(Top.batch) /\ j + 1 \in 1..Len(Top.batch) /\ 1 < j + 1 /\ Top.batch[j + 1] = x
      BY <1>4
    <3>3. Before(x, x)
      BY <1>4, <3>1, <3>2 DEF Sorted
    <3> QED BY <3>3, BeforeIrreflexive DEF IInv
  <2>4. ASSUME NEW c \in 1..n, c # n PROVE x \notin Elems(calls[c].batch)
    <3> SUFFICES ASSUME NEW i \in 1..Len(calls[c].batch), calls[c].batch[i] = x PROVE FALSE
      BY DEF Elems
    <3>1. Ordered(Pending(c), Top.batch)
      <4>1. n \in c + 1..n
        BY <1>2, <2>4
      <4> QED BY <1>14, <4>1 DEF IInv, Order
    <3>2. \E k \in 1..Len(Pending(c)) : Pending(c)[k] = x
      <4>1. Len(calls[c].batch) \in Nat
        <5>1. calls[c] \in Call
          BY DEF IInv, TypeOK
        <5> QED BY <5>1 DEF Call
      <4>2. \/ Pending(c) = calls[c].batch
            \/ Len(Pending(c)) = Len(calls[c].batch) + 1 /\ Pending(c)[i + 1] = x
        BY PendingForm DEF IInv
      <4>3. i + 1 \in 1..Len(calls[c].batch) + 1
        BY <4>1
      <4> QED BY <4>1, <4>2, <4>3
    <3>3. Before(x, x)
      BY <1>4, <3>1, <3>2 DEF Ordered
    <3> QED BY <3>3, BeforeIrreflexive DEF IInv
  <2>5. \A i, j \in 1..Len(begun') : begun'[i] = begun'[j] => i = j
    <3> SUFFICES ASSUME NEW i \in 1..Len(begun) + 1, NEW j \in 1..Len(begun) + 1, begun'[i] = begun'[j]
                 PROVE  i = j
      BY <1>8
    <3>1. (i \in 1..Len(begun) \/ i = Len(begun) + 1) /\ (j \in 1..Len(begun) \/ j = Len(begun) + 1)
      BY <1>8
    <3>2. \A k \in 1..Len(begun) : begun[k] # x
      BY <2>1 DEF Elems
    <3> QED BY <1>8, <3>1, <3>2 DEF IInv, BegunOnce
  <2>6. ASSUME NEW y \in Elems(begun')
        PROVE  y \notin Elems(queue) /\ \A c \in 1..n : y \notin Elems(calls'[c].batch)
    <3>1. CASE y = x
      BY <1>6, <1>7, <2>2, <2>3, <2>4, <3>1
    <3>2. CASE y # x
      <4>1. y \in Elems(begun)
        BY <1>8, <2>6, <3>2
      <4>2. Elems(calls'[n].batch) \subseteq Elems(calls[n].batch)
        BY <1>2, <1>4, <1>6, <1>7
      <4> QED BY <1>2, <1>7, <4>1, <4>2 DEF IInv, BegunOnce
    <3> QED BY <3>1, <3>2
  <2> QED BY <1>1, <1>7, <2>5, <2>6 DEF BegunOnce
<1>17. Located'
  <2> SUFFICES ASSUME NEW y \in Elems(started)
               PROVE  \/ y \in Elems(queue)
                      \/ \E c \in 1..n : y \in Elems(calls'[c].batch)
                      \/ y \in Elems(begun') /\ \/ y \in done
                                                \/ \E c \in 1..n : calls'[c].stage = "drain"
                                                                    /\ calls'[c].inside = y
    BY <1>1, <1>7 DEF Located
  <2>1. CASE y = x
    BY <1>2, <1>6, <1>7, <1>8, <2>1
  <2>2. ASSUME NEW c \in 1..n, y \in Elems(calls[c].batch), y # x PROVE y \in Elems(calls'[c].batch)
    BY <1>2, <1>4, <1>6, <1>7, <2>2
  <2>3. ASSUME NEW c \in 1..n, calls[c].stage = "drain", calls[c].inside = y
        PROVE  calls'[c].stage = "drain" /\ calls'[c].inside = y
    <3>1. y # None
      BY NoneAssumption DEF IInv, TypeOK, Elems
    <3> QED BY <1>1, <1>2, <1>7, <2>3, <3>1
  <2> QED BY <1>8, <2>1, <2>2, <2>3 DEF IInv, Located
<1>18. Causes'
  BY <1>1, <1>2, <1>6, <1>7, <1>8 DEF IInv, Causes
<1>19. Frame'
  BY <1>1, <1>2, <1>6, <1>7 DEF IInv, Frame
<1> QED BY <1>11, <1>12, <1>13, <1>15, <1>16, <1>17, <1>18, <1>19 DEF IInv

-----------------------------------------------------------------------------
\* Nothing is started, so nothing is out of order.
LEMMA InitInv == Init => IInv
<1> SUFFICES ASSUME Init PROVE IInv
  OBVIOUS
<1>1. /\ Len(queue) = 0 /\ Len(calls) = 0 /\ Len(started) = 0 /\ Len(begun) = 0 /\ Len(mainQ) = 0
      /\ Elems(queue) = {} /\ Elems(started) = {} /\ Elems(begun) = {} /\ Elems(mainQ) = {}
  BY ElemsEmpty DEF Init
<1>2. TypeOK
  BY DEF Init, TypeOK
<1>3. Started /\ Stack
  BY <1>1 DEF Started, Stack
<1>4. Order
  BY <1>1 DEF Order, Sorted
<1>5. BegunOnce /\ Located /\ Causes /\ Frame
  BY <1>1 DEF Init, BegunOnce, Located, Causes, Frame
<1> QED BY <1>2, <1>3, <1>4, <1>5 DEF IInv

\* No part of the invariant speaks of anything but the variables.
LEMMA StutterStep == ASSUME IInv, UNCHANGED vars PROVE IInv'
<1>1. TypeOK' /\ Started' /\ Stack'
  BY DEF vars, IInv, TypeOK, Started, Stack
<1>2. Order'
  <2>1. UNCHANGED <<calls, queue, started>>
    BY DEF vars
  <2>2. \A c : Pending(c)' = Pending(c)
    BY <2>1 DEF Pending
  <2>3. \A x, y : Before(x, y)' <=> Before(x, y)
    BY <2>1, BeforeKept
  <2>4. \A c \in 1..Len(calls) : \A d \in c + 1..Len(calls) : d \in 1..Len(calls)
    BY DEF IInv, TypeOK
  <2> QED BY <2>1, <2>2, <2>3, <2>4 DEF IInv, Order, Sorted, Ordered
<1>3. BegunOnce' /\ Located' /\ Causes' /\ Frame'
  BY DEF vars, IInv, BegunOnce, Located, Causes, Frame
<1> QED BY <1>1, <1>2, <1>3 DEF IInv

\* Every step of the processor or of the host keeps the invariant.
LEMMA StepInv == IInv /\ [Next]_vars => IInv'
BY StartTaskStep, PumpStep, SwapBatchStep, RunTaskStep, TaskReturnsStep, DrainOverStep,
   RunContinuationStep, ContinuationReturnsStep, PumpReturnsStep, StutterStep
   DEF Next, Proceed

\* The inductive invariant.
THEOREM Inductive == Spec => []IInv
BY InitInv, StepInv, PTL DEF Spec

\* Every variable keeps to its type.
THEOREM TypeCorrect == Spec => []TypeOK
BY Inductive, PTL DEF IInv

-----------------------------------------------------------------------------
(* What follows. *)

\* Where the batch of a call is in what it has before it.
LEMMA BatchPending ==
    ASSUME IInv, NEW c \in 1..Len(calls)
    PROVE  /\ Len(calls[c].batch) \in Nat
           /\ \E k \in {0, 1} : \A i \in 1..Len(calls[c].batch) :
                 i + k \in 1..Len(Pending(c)) /\ Pending(c)[i + k] = calls[c].batch[i]
<1>1. calls[c] \in Call
  BY DEF IInv, TypeOK
<1>2. Len(calls[c].batch) \in Nat
  BY <1>1 DEF Call
<1>3. CASE calls[c].stage = "drain" /\ calls[c].inside # None
  <2>1. \A i \in 1..Len(calls[c].batch) :
           i + 1 \in 1..Len(Pending(c)) /\ Pending(c)[i + 1] = calls[c].batch[i]
    BY <1>2, <1>3, PendingForm DEF IInv
  <2> QED BY <1>2, <2>1
<1>4. CASE ~(calls[c].stage = "drain" /\ calls[c].inside # None)
  <2>1. \A i \in 1..Len(calls[c].batch) :
           i + 0 \in 1..Len(Pending(c)) /\ Pending(c)[i + 0] = calls[c].batch[i]
    BY <1>2, <1>4, PendingForm DEF IInv
  <2> QED BY <1>2, <2>1
<1> QED BY <1>3, <1>4

\* A waiting task has one place.
LEMMA PlacesDistinct ==
    ASSUME IInv
    PROVE  /\ \A i, j \in 1..Len(queue) : queue[i] = queue[j] => i = j
           /\ \A c \in 1..Len(calls) : \A i \in 1..Len(calls[c].batch), j \in 1..Len(queue) :
                 calls[c].batch[i] # queue[j]
           /\ \A c, d \in 1..Len(calls) :
                 \A i \in 1..Len(calls[c].batch), j \in 1..Len(calls[d].batch) :
                    calls[c].batch[i] = calls[d].batch[j] => c = d /\ i = j
<1>1. \A x : ~Before(x, x)
  BY BeforeIrreflexive DEF IInv
<1>2. ASSUME NEW i \in 1..Len(queue), NEW j \in 1..Len(queue), queue[i] = queue[j] PROVE i = j
  <2>1. ~(i < j) /\ ~(j < i)
    BY <1>1, <1>2 DEF IInv, Order, Sorted
  <2> QED BY <2>1
<1>3. ASSUME NEW c \in 1..Len(calls), NEW i \in 1..Len(calls[c].batch), NEW j \in 1..Len(queue)
      PROVE  calls[c].batch[i] # queue[j]
  <2>1. \E k \in 1..Len(Pending(c)) : Pending(c)[k] = calls[c].batch[i]
    BY BatchPending
  <2>2. Ordered(Pending(c), queue)
    BY DEF IInv, Order
  <2>3. Before(calls[c].batch[i], queue[j])
    BY <2>1, <2>2 DEF Ordered
  <2> QED BY <1>1, <2>3
<1>4. ASSUME NEW c \in 1..Len(calls), NEW d \in 1..Len(calls), c < d,
             NEW i \in 1..Len(calls[c].batch), NEW j \in 1..Len(calls[d].batch)
      PROVE  calls[c].batch[i] # calls[d].batch[j]
  <2>1. \E k \in 1..Len(Pending(c)) : Pending(c)[k] = calls[c].batch[i]
    BY BatchPending
  <2>2. \E k \in 1..Len(Pending(d)) : Pending(d)[k] = calls[d].batch[j]
    BY BatchPending
  <2>3. Ordered(Pending(c), Pending(d))
    <3>1. d \in c + 1..Len(calls)
      BY <1>4
    <3> QED BY <3>1 DEF IInv, Order
  <2>4. Before(calls[c].batch[i], calls[d].batch[j])
    BY <2>1, <2>2, <2>3 DEF Ordered
  <2> QED BY <1>1, <2>4
<1>5. ASSUME NEW c \in 1..Len(calls),
             NEW i \in 1..Len(calls[c].batch), NEW j \in 1..Len(calls[c].batch), i < j
      PROVE  calls[c].batch[i] # calls[c].batch[j]
  <2> PICK k \in {0, 1} : \A m \in 1..Len(calls[c].batch) :
              m + k \in 1..Len(Pending(c)) /\ Pending(c)[m + k] = calls[c].batch[m]
    BY BatchPending
  <2>1. i + k < j + k
    BY <1>5
  <2>2. Sorted(Pending(c))
    BY DEF IInv, Order
  <2>3. Before(Pending(c)[i + k], Pending(c)[j + k])
    BY <2>1, <2>2 DEF Sorted
  <2> QED BY <1>1, <2>3
<1>6. ASSUME NEW c \in 1..Len(calls), NEW d \in 1..Len(calls),
             NEW i \in 1..Len(calls[c].batch), NEW j \in 1..Len(calls[d].batch),
             calls[c].batch[i] = calls[d].batch[j]
      PROVE  c = d /\ i = j
  <2>1. ~(c < d) /\ ~(d < c)
    BY <1>4, <1>6
  <2>2. c = d
    BY <2>1
  <2>3. ~(i < j) /\ ~(j < i)
    BY <1>5, <1>6, <2>2
  <2> QED BY <2>2, <2>3
<1> QED BY <1>2, <1>3, <1>6

\* A task is in one place only, and leaves it when it is begun: it is begun once.
LEMMA TaskOnce == IInv => EachTaskOnce
<1> SUFFICES ASSUME IInv, NEW x \in Elems(started)
             PROVE  Cardinality({i \in 1..Len(queue) : queue[i] = x})
                      + Cardinality({at \in (1..Len(calls)) \X (1..Len(started)) :
                                       /\ at[2] <= Len(calls[at[1]].batch)
                                       /\ calls[at[1]].batch[at[2]] = x})
                      + Cardinality({i \in 1..Len(begun) : begun[i] = x}) = 1
  BY DEF EachTaskOnce
<1> DEFINE Q == {i \in 1..Len(queue) : queue[i] = x}
           B == {at \in (1..Len(calls)) \X (1..Len(started)) :
                   /\ at[2] <= Len(calls[at[1]].batch)
                   /\ calls[at[1]].batch[at[2]] = x}
           G == {i \in 1..Len(begun) : begun[i] = x}
<1> SUFFICES Cardinality(Q) + Cardinality(B) + Cardinality(G) = 1
  OBVIOUS
<1>1. \A at \in B : at[1] \in 1..Len(calls) /\ at[2] \in 1..Len(calls[at[1]].batch)
                      /\ at = <<at[1], at[2]>> /\ calls[at[1]].batch[at[2]] = x
  BY BatchPending
<1>2. \A c \in 1..Len(calls) : \A i \in 1..Len(calls[c].batch) :
         calls[c].batch[i] = x => <<c, i>> \in B
  <2> SUFFICES ASSUME NEW c \in 1..Len(calls), NEW i \in 1..Len(calls[c].batch),
                      calls[c].batch[i] = x
               PROVE  <<c, i>> \in B
    OBVIOUS
  <2>1. Len(calls[c].batch) \in Nat /\ Len(calls[c].batch) <= Len(started) /\ Len(started) \in Nat
    BY BatchPending DEF IInv, Started, TypeOK
  <2>2. i \in 1..Len(started) /\ i <= Len(calls[c].batch)
    BY <2>1
  <2> QED BY <2>2
<1>3. CASE x \in Elems(queue)
  <2> PICK i \in 1..Len(queue) : queue[i] = x
    BY <1>3 DEF Elems
  <2>1. Q = {i}
    BY PlacesDistinct
  <2>2. B = {}
    BY <1>1, PlacesDistinct
  <2>3. G = {}
    <3>1. x \notin Elems(begun)
      BY <1>3 DEF IInv, BegunOnce
    <3> QED BY <3>1 DEF Elems
  <2>4. Cardinality({}) = 0
    BY FS_EmptySet
  <2>5. Cardinality({i}) = 1
    BY <2>1, FS_Singleton
  <2> HIDE DEF Q, B, G
  <2> QED BY <2>1, <2>2, <2>3, <2>4, <2>5
<1>4. ASSUME NEW c \in 1..Len(calls), x \in Elems(calls[c].batch)
      PROVE  Cardinality(Q) + Cardinality(B) + Cardinality(G) = 1
  <2> PICK i \in 1..Len(calls[c].batch) : calls[c].batch[i] = x
    BY <1>4 DEF Elems
  <2>1. Q = {}
    BY PlacesDistinct
  <2>2. B = {<<c, i>>}
    <3>1. <<c, i>> \in B
      BY <1>2
    <3>2. ASSUME NEW at \in B PROVE at = <<c, i>>
      BY <1>1, PlacesDistinct
    <3> HIDE DEF B
    <3> QED BY <3>1, <3>2
  <2>3. G = {}
    <3>1. x \notin Elems(begun)
      BY <1>4 DEF IInv, BegunOnce
    <3> QED BY <3>1 DEF Elems
  <2>4. Cardinality({}) = 0
    BY FS_EmptySet
  <2>5. Cardinality({<<c, i>>}) = 1
    BY <2>2, FS_Singleton
  <2> HIDE DEF Q, B, G
  <2> QED BY <2>1, <2>2, <2>3, <2>4, <2>5
<1>5. CASE x \in Elems(begun)
  <2> PICK i \in 1..Len(begun) : begun[i] = x
    BY <1>5 DEF Elems
  <2>1. G = {i}
    BY DEF IInv, BegunOnce
  <2>2. Q = {}
    <3>1. x \notin Elems(queue)
      BY <1>5 DEF IInv, BegunOnce
    <3> QED BY <3>1 DEF Elems
  <2>3. B = {}
    <3>1. \A c \in 1..Len(calls) : x \notin Elems(calls[c].batch)
      BY <1>5 DEF IInv, BegunOnce
    <3> QED BY <1>1, <3>1 DEF Elems
  <2>4. Cardinality({}) = 0
    BY FS_EmptySet
  <2>5. Cardinality({i}) = 1
    BY <2>1, FS_Singleton
  <2> HIDE DEF Q, B, G
  <2> QED BY <2>1, <2>2, <2>3, <2>4, <2>5
<1> QED BY <1>3, <1>4, <1>5 DEF IInv, Located

\* No task is lost, and none is run twice, however the pump calls nest.
THEOREM EachTaskOnceAlways == Spec => []EachTaskOnce
BY Inductive, TaskOnce, PTL

\* Tasks are called in the order in which they were started, but for what a nested call runs
\* before the rest of the outer batch.
THEOREM InOrderAlways == Spec => []InOrder
<1>1. IInv => InOrder
  BY DEF IInv, Order, Sorted, Ordered, Pending, Before, InOrder
<1> QED BY <1>1, Inductive, PTL

\* What OneCallPerFrame says of one step.
FrameStep ==
    Len(calls) = 1 /\ calls' = <<>> => calls[1].before \subseteq done /\ Elems(mainQ) = {}

\* A call that goes on is still on the stack.
LEMMA ContinueStays ==
    ASSUME TypeOK, calls # <<>>, NEW call, Continue(call) PROVE calls' # <<>>
BY DEF Continue, TypeOK

\* The outermost call leaves only with what was started before it done.
LEMMA FrameHolds == IInv /\ [Next]_vars => FrameStep
<1> SUFFICES ASSUME IInv, [Next]_vars, Len(calls) = 1, calls' = <<>>
             PROVE  calls[1].before \subseteq done /\ Elems(mainQ) = {}
  BY DEF FrameStep
<1>1. TypeOK /\ calls # <<>>
  BY DEF IInv
<1>2. ~Pump /\ ~UNCHANGED vars /\ \A x \in Tasks : ~StartTask(x)
  BY <1>1, PumpStep DEF Pump, StartTask, vars, IInv, TypeOK
<1>3. ~SwapBatch /\ ~RunTask /\ ~TaskReturns /\ ~DrainOver /\ ~RunContinuation /\ ~ContinuationReturns
  BY <1>1, ContinueStays
     DEF SwapBatch, RunTask, TaskReturns, DrainOver, RunContinuation, ContinuationReturns
<1>4. PumpReturns
  BY <1>2, <1>3 DEF Next, Proceed
<1>5. calls[1].stage = "main" /\ mainQ = <<>>
  BY <1>4 DEF PumpReturns, InMain, Top
<1> QED BY <1>1, <1>5, ElemsEmpty DEF IInv, Frame

\* An outermost call that returns has run every task that was started before it, in the rounds
\* it has, and every continuation that was due: progress within one call.
THEOREM OneCallPerFrameAlways == Spec => OneCallPerFrame
BY Inductive, FrameHolds, PTL DEF Spec, OneCallPerFrame, FrameStep
=============================================================================
