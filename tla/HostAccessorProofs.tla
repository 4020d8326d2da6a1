------------------------- MODULE HostAccessorProofs -------------------------
(***************************************************************************)
(* What holds of HostAccessor for every number of accessors, threads and    *)
(* requests.                                                                *)
(***************************************************************************)
EXTENDS HostAccessor, TLAPS

\* A thread in the middle of a completion call, the destructor it may run included.
Completing(t) == pc[t] \in CompletePcs \/ (pc[t] \in CancelPcs /\ after[t] = "responding")

\* The locals a thread's next steps rely on are the ones an earlier step of its call set.
ThreadLocals ==
    \A t \in Threads :
       /\ pc[t] \in StartPcs => req[t] \in Requests /\ owner[req[t]] = accT[t]
       /\ pc[t] \in StartPcs \cup CancelPcs \cup {"forgotten", "inBegin"} => accT[t] \in Accessors
       /\ pending[t] \in Requests <=> Completing(t)
       /\ taken[t] # {} => pc[t] \in CancelPcs
       /\ pc[t] = "failPosting" => req[t] \in taken[t]
       /\ pc[t] \notin CancelPcs => after[t] = "idle"

\* What waits for a later step was issued by an accessor.
Owned ==
    /\ \A r \in kept : owner[r] \in Accessors
    /\ \A i \in 1..Len(mainQ) : owner[mainQ[i].id] \in Accessors

\* The response a request may have while the CPendingRequest is in a given place.
Claims ==
    \A r \in Requests :
       /\ r \in registry => owner[r] # None /\ response[r] = "none"
       /\ owner[r] = None => response[r] = "none"
       /\ \A t \in Threads : HasTaken(t, r) => owner[r] # None /\ r \notin registry
       /\ \A t \in Threads : pending[t] = r =>
             response[r] = IF pc[t] = "posting" THEN "answered" ELSE "none"
       /\ \A t \in Threads : r \in taken[t] =>
             response[r] = IF pc[t] = "failPosting" /\ req[t] = r THEN "failed" ELSE "none"

\* A request is acknowledged once its completion call has let go of it, and no earlier.
Acks ==
    \A r \in Requests :
       /\ accepted[r] \in {0, 1}
       /\ accepted[r] = 1 => response[r] = "answered" /\ \A t \in Threads : pending[t] # r

\* A request whose resolve is on its way, or has run, is in no call's hands any more.
Posts ==
    /\ \A i \in 1..Len(mainQ) : mainQ[i].kind = "resolve" =>
          /\ response[mainQ[i].id] # "none"
          /\ mainQ[i].id \notin resolved
          /\ \A t \in Threads : ~HasTaken(t, mainQ[i].id)
    /\ \A i, j \in 1..Len(mainQ) :
          mainQ[i].kind = "resolve" /\ mainQ[j] = mainQ[i] => i = j
    /\ \A r \in resolved : response[r] # "none" /\ \A t \in Threads : ~HasTaken(t, r)

IInv == TypeOK /\ ThreadLocals /\ Owned /\ Claims /\ OneHolder /\ Acks /\ Posts


-----------------------------------------------------------------------------
\* No accessor, no request, no thread inside a call.
LEMMA InitInv == Init => IInv
BY NoneAssumption, HostsAssumption
   DEF Init, IInv, TypeOK, ThreadLocals, Owned, Claims, OneHolder, Acks, Posts, HasTaken, Completing,
       Pcs, StartPcs, CompletePcs, CancelPcs

\* The two lambdas the accessor posts are tasks of the main thread.
LEMMA TaskTypes == \A r \in Requests : BeginTask(r) \in Tasks /\ ResolveTask(r) \in Tasks
BY DEF BeginTask, ResolveTask, Tasks

\* A task is its kind and its request.
LEMMA TaskEquality ==
  \A x, y \in Tasks : x.kind = y.kind /\ x.id = y.id => x = y
BY DEF Tasks

\* Posting and popping keep the main-thread queue a queue.
LEMMA QueueTypes ==
  ASSUME NEW S, NEW q \in Seq(S)
  PROVE  /\ \A e \in S : Append(q, e) \in Seq(S)
         /\ q # <<>> => Head(q) \in S /\ Tail(q) \in Seq(S)
OBVIOUS

\* Posting adds one task at the end, popping takes away the first, and the others keep their
\* places.
LEMMA QueueElements ==
  ASSUME NEW S, NEW q \in Seq(S), NEW e \in S
  PROVE  /\ \A i \in 1..Len(Append(q, e)) :
               Append(q, e)[i] = e \/ (i \in 1..Len(q) /\ Append(q, e)[i] = q[i])
         /\ q # <<>> => /\ 1 \in 1..Len(q) /\ Head(q) = q[1]
                       /\ \A i \in 1..Len(Tail(q)) : /\ i + 1 \in 1..Len(q)
                                                     /\ i + 1 \in 2..Len(q)
                                                     /\ Tail(q)[i] = q[i + 1]
OBVIOUS

\* Dropping a reference keeps the types, whether or not it was the last.
LEMMA ReleaseType ==
  ASSUME TypeOK, NEW t \in Threads, NEW a \in Accessors, NEW next \in {"idle", "responding"},
         Release(t, a, next)
  PROVE  /\ inFlight' \in [Accessors -> SUBSET Requests]
         /\ pc' \in [Threads -> Pcs]
         /\ accT' \in [Threads -> Accessors \cup {None}]
         /\ ids' \in [Threads -> SUBSET Requests]
         /\ todo' \in [Threads -> SUBSET Requests]
         /\ after' \in [Threads -> {"idle", "responding"}]
<1> USE DEF TypeOK, Pcs, StartPcs, CompletePcs, CancelPcs, Goto
<1>1. CASE SwapOut(t, a, next)
  BY <1>1 DEF SwapOut
<1>2. CASE /\ Goto(t, next)
           /\ accT' = [accT EXCEPT ![t] = None]
           /\ UNCHANGED <<inFlight, ids, todo, after>>
  BY <1>2
<1> QED
  BY <1>1, <1>2 DEF Release

\* Every step keeps the types.
LEMMA StepType == IInv /\ [Next]_vars => TypeOK'
<1> SUFFICES ASSUME IInv, [Next]_vars PROVE TypeOK'
  OBVIOUS
<1>a. TypeOK /\ ThreadLocals /\ Owned
  BY DEF IInv
<1> USE MainAssumption, NoneAssumption, <1>a
<1> USE DEF TypeOK, Goto, Pcs, StartPcs, CompletePcs, CancelPcs,
            refVars, tableVars, futureVars, hostVars, threadVars, cancelVars
<1>1. ASSUME NEW t \in Threads, NEW a \in Accessors, NEW r \in Requests,
             StartWithoutTransport(t, a, r)
      PROVE  TypeOK'
  BY <1>1 DEF StartWithoutTransport
<1>2. ASSUME NEW t \in Threads, NEW a \in Accessors, NEW r \in Requests, StartRegister(t, a, r)
      PROVE  TypeOK'
  BY <1>2 DEF StartRegister
<1>3. ASSUME NEW t \in Threads, StartInsert(t) PROVE TypeOK'
  <2>1. accT[t] \in Accessors /\ req[t] \in Requests
    BY <1>3 DEF StartInsert, ThreadLocals
  <2> QED
    BY <1>3, <2>1 DEF StartInsert
<1>4. ASSUME NEW t \in Threads, StartInvoke(t) PROVE TypeOK'
  <2>1. req[t] \in Requests
    BY <1>4 DEF StartInvoke, ThreadLocals
  <2>2. begun' \subseteq Requests
    BY <1>4, <2>1 DEF StartInvoke
  <2>3. mainQ' \in Seq(Tasks)
    <3>1. Append(mainQ, BeginTask(req[t])) \in Seq(Tasks)
      BY <2>1, TaskTypes, QueueTypes
    <3> QED
      BY <1>4, <3>1 DEF StartInvoke
  <2> QED
    BY <1>4, <2>2, <2>3 DEF StartInvoke
<1>5. ASSUME NEW t \in Threads, NEW keep \in BOOLEAN, StartReturn(t, keep) PROVE TypeOK'
  <2>1. accT[t] \in Accessors /\ req[t] \in Requests
    BY <1>5 DEF StartReturn, ThreadLocals
  <2>2. Release(t, accT[t], "idle")
    BY <1>5 DEF StartReturn
  <2> QED
    BY <1>5, <2>1, <2>2, ReleaseType DEF StartReturn
<1>6. ASSUME NEW t \in Threads, NEW r \in Requests, CompleteTake(t, r) PROVE TypeOK'
  BY <1>6 DEF CompleteTake
<1>7. ASSUME NEW t \in Threads, CompleteForget(t) PROVE TypeOK'
  <2>1. pending[t] \in Requests
    BY <1>7 DEF CompleteForget, ThreadLocals, Completing
  <2>2. CASE UNCHANGED <<inFlight, accT>> /\ Goto(t, "responding")
    BY <1>7, <2>2 DEF CompleteForget
  <2>3. CASE /\ inFlight' = [inFlight EXCEPT ![owner[pending[t]]] = @ \ {pending[t]}]
             /\ accT' = [accT EXCEPT ![t] = owner[pending[t]]]
             /\ Goto(t, "forgotten")
    BY <1>7, <2>1, <2>3 DEF CompleteForget
  <2> QED
    BY <1>7, <2>2, <2>3 DEF CompleteForget
<1>8. ASSUME NEW t \in Threads, CompleteRelease(t) PROVE TypeOK'
  <2>1. accT[t] \in Accessors
    BY <1>8 DEF CompleteRelease, ThreadLocals
  <2>2. Release(t, accT[t], "responding")
    BY <1>8 DEF CompleteRelease
  <2> QED
    BY <1>8, <2>1, <2>2, ReleaseType DEF CompleteRelease
<1>9. ASSUME NEW t \in Threads, CompleteRespond(t) PROVE TypeOK'
  BY <1>9 DEF CompleteRespond
<1>10. ASSUME NEW t \in Threads, CompletePost(t) PROVE TypeOK'
  <2>1. pending[t] \in Requests
    BY <1>10 DEF CompletePost, ThreadLocals, Completing
  <2>2. mainQ' \in Seq(Tasks)
    BY <1>10, <2>1, TaskTypes, QueueTypes DEF CompletePost
  <2> QED
    BY <1>10, <2>1, <2>2 DEF CompletePost
<1>11. ASSUME NEW t \in Threads, NEW a \in Accessors, CancelAll(t, a) PROVE TypeOK'
  BY <1>11 DEF CancelAll, SwapOut
<1>12. ASSUME NEW t \in Threads, NEW r \in Requests, CancelTake(t, r) PROVE TypeOK'
  BY <1>12 DEF CancelTake
<1>13. ASSUME NEW t \in Threads, CancelTaken(t) PROVE TypeOK'
  <2>1. todo' \in [Threads -> SUBSET Requests]
    BY <1>13 DEF CancelTaken
  <2> QED
    BY <1>13, <2>1 DEF CancelTaken
<1>14. ASSUME NEW t \in Threads, NEW r \in Requests, CancelNotify(t, r) PROVE TypeOK'
  BY <1>14 DEF CancelNotify
<1>15. ASSUME NEW t \in Threads, CancelNotified(t) PROVE TypeOK'
  BY <1>15 DEF CancelNotified
<1>16. ASSUME NEW t \in Threads, NEW r \in Requests, CancelFail(t, r) PROVE TypeOK'
  BY <1>16 DEF CancelFail
<1>17. ASSUME NEW t \in Threads, CancelPost(t) PROVE TypeOK'
  <2>1. req[t] \in Requests
    BY <1>17 DEF CancelPost, ThreadLocals
  <2>2. mainQ' \in Seq(Tasks)
    BY <1>17, <2>1, TaskTypes, QueueTypes DEF CancelPost
  <2> QED
    BY <1>17, <2>2 DEF CancelPost
<1>18. ASSUME NEW t \in Threads, CancelReturn(t) PROVE TypeOK'
  <2>1. accT[t] \in Accessors
    BY <1>18 DEF CancelReturn, ThreadLocals
  <2> QED
    BY <1>18, <2>1 DEF CancelReturn
<1>19. ASSUME NEW t \in Threads, NEW a \in Accessors, DropHandle(t, a) PROVE TypeOK'
  <2>1. Release(t, a, "idle")
    BY <1>19 DEF DropHandle
  <2> QED
    BY <1>19, <2>1, ReleaseType DEF DropHandle
<1>20. ASSUME DispatchBegin PROVE TypeOK'
  <2>1. Head(mainQ).id \in Requests /\ mainQ' \in Seq(Tasks)
    <3>1. Head(mainQ) \in Tasks /\ Tail(mainQ) \in Seq(Tasks)
      BY <1>20, QueueTypes DEF DispatchBegin
    <3> QED
      BY <1>20, <3>1 DEF DispatchBegin, Tasks
  <2>2. CASE UNCHANGED <<begun, accT, pc>>
    BY <1>20, <2>1, <2>2 DEF DispatchBegin
  <2>3. CASE /\ begun' = begun \cup {Head(mainQ).id}
             /\ accT' = [accT EXCEPT ![Main] = owner[Head(mainQ).id]]
             /\ Goto(Main, "inBegin")
    BY <1>20, <2>1, <2>3 DEF DispatchBegin
  <2> QED
    BY <1>20, <2>2, <2>3 DEF DispatchBegin
<1>21. ASSUME BeginReturn PROVE TypeOK'
  <2>1. accT[Main] \in Accessors
    BY <1>21 DEF BeginReturn, ThreadLocals
  <2>2. Release(Main, accT[Main], "idle")
    BY <1>21 DEF BeginReturn
  <2> QED
    BY <1>21, <2>1, <2>2, ReleaseType DEF BeginReturn
<1>22. ASSUME DispatchResolve PROVE TypeOK'
  <2>1. Head(mainQ).id \in Requests /\ mainQ' \in Seq(Tasks)
    <3>1. Head(mainQ) \in Tasks /\ Tail(mainQ) \in Seq(Tasks)
      BY <1>22, QueueTypes DEF DispatchResolve
    <3> QED
      BY <1>22, <3>1 DEF DispatchResolve, Tasks
  <2> QED
    BY <1>22, <2>1 DEF DispatchResolve
<1>23. ASSUME NEW t \in Threads, NEW r \in Requests, ContinuationDone(t, r) PROVE TypeOK'
  <2>1. owner[r] \in Accessors
    BY <1>23 DEF ContinuationDone, Owned
  <2>2. Release(t, owner[r], "idle")
    BY <1>23 DEF ContinuationDone
  <2> QED
    BY <1>23, <2>1, <2>2, ReleaseType DEF ContinuationDone
<1>24. CASE UNCHANGED vars
  BY <1>24 DEF vars
<1> HIDE DEF TypeOK
<1> QED
  BY <1>1, <1>2, <1>3, <1>4, <1>5, <1>6, <1>7, <1>8, <1>9, <1>10, <1>11, <1>12, <1>13, <1>14,
     <1>15, <1>16, <1>17, <1>18, <1>19, <1>20, <1>21, <1>22, <1>23, <1>24, Zenon
  DEF Next, Call, Finish, Dispatch

\* Every step keeps who holds a request, and with it that a response is set once.
LEMMA StepInv ==
  ASSUME IInv, [Next]_vars, TypeOK'
  PROVE  IInv'
<1>a. TypeOK /\ ThreadLocals /\ Owned /\ Claims /\ OneHolder /\ Acks /\ Posts
  BY DEF IInv
<1> USE MainAssumption, NoneAssumption, <1>a
<1> USE DEF TypeOK, Goto, Pcs, StartPcs, CompletePcs, CancelPcs, Completing, HasTaken,
            refVars, tableVars, futureVars, hostVars, threadVars, cancelVars
<1>1. ASSUME NEW t \in Threads, NEW a \in Accessors, NEW r \in Requests, StartWithoutTransport(t, a, r) PROVE IInv'
  <2>1. ThreadLocals'
    BY <1>1 DEF StartWithoutTransport, ThreadLocals
  <2>2. Owned'
    BY <1>1 DEF StartWithoutTransport, Owned
  <2>3. Claims'
    BY <1>1 DEF StartWithoutTransport, Claims, ThreadLocals
  <2>4. OneHolder'
    BY <1>1 DEF StartWithoutTransport, OneHolder, ThreadLocals
  <2>5. Acks'
    BY <1>1 DEF StartWithoutTransport, Acks, Claims
  <2>6. Posts'
    BY <1>1 DEF StartWithoutTransport, Posts, Claims
  <2> QED
    BY <2>1, <2>2, <2>3, <2>4, <2>5, <2>6 DEF IInv
<1>2. ASSUME NEW t \in Threads, NEW a \in Accessors, NEW r \in Requests, StartRegister(t, a, r) PROVE IInv'
  <2>1. ThreadLocals'
    BY <1>2 DEF StartRegister, ThreadLocals
  <2>2. Owned'
    BY <1>2 DEF StartRegister, Owned
  <2>3. Claims'
    BY <1>2 DEF StartRegister, Claims, ThreadLocals
  <2>4. OneHolder'
    BY <1>2 DEF StartRegister, OneHolder, Claims
  <2>5. Acks'
    BY <1>2 DEF StartRegister, Acks
  <2>6. Posts'
    BY <1>2 DEF StartRegister, Posts
  <2> QED
    BY <2>1, <2>2, <2>3, <2>4, <2>5, <2>6 DEF IInv
<1>3. ASSUME NEW t \in Threads, StartInsert(t) PROVE IInv'
  <2>1. ThreadLocals'
    BY <1>3 DEF StartInsert, ThreadLocals
  <2>2. Owned'
    BY <1>3 DEF StartInsert, Owned
  <2>3. Claims'
    BY <1>3 DEF StartInsert, Claims, ThreadLocals
  <2>4. OneHolder'
    BY <1>3 DEF StartInsert, OneHolder, ThreadLocals
  <2>5. Acks'
    BY <1>3 DEF StartInsert, Acks
  <2>6. Posts'
    BY <1>3 DEF StartInsert, Posts
  <2> QED
    BY <2>1, <2>2, <2>3, <2>4, <2>5, <2>6 DEF IInv
<1>4. ASSUME NEW t \in Threads, StartInvoke(t) PROVE IInv'
  <2>1. ThreadLocals'
    BY <1>4 DEF StartInvoke, ThreadLocals
  <2>2. Owned'
    <3>1. owner[req[t]] \in Accessors /\ BeginTask(req[t]) \in Tasks
      BY <1>4, TaskTypes DEF StartInvoke, ThreadLocals
    <3>2. BeginTask(req[t]).id = req[t]
      BY DEF BeginTask
    <3>3. CASE mainQ' = mainQ
      BY <1>4, <3>3 DEF StartInvoke, Owned
    <3>4. CASE mainQ' = Append(mainQ, BeginTask(req[t]))
      BY <1>4, <3>1, <3>2, <3>4, QueueElements DEF StartInvoke, Owned
    <3> QED
      BY <1>4, <3>3, <3>4 DEF StartInvoke
  <2>3. Claims'
    BY <1>4 DEF StartInvoke, Claims, ThreadLocals
  <2>4. OneHolder'
    BY <1>4 DEF StartInvoke, OneHolder, ThreadLocals
  <2>5. Acks'
    BY <1>4 DEF StartInvoke, Acks
  <2>6. Posts'
    <3>1. CASE mainQ' = mainQ
      BY <1>4, <3>1 DEF StartInvoke, Posts
    <3>2. CASE mainQ' = Append(mainQ, BeginTask(req[t]))
      <4>1. BeginTask(req[t]) \in Tasks /\ BeginTask(req[t]).kind = "begin"
        BY <1>4, TaskTypes DEF StartInvoke, ThreadLocals, BeginTask
      <4>2. /\ mainQ' \in Seq(Tasks)
            /\ Len(mainQ') = Len(mainQ) + 1
            /\ mainQ'[Len(mainQ')] = BeginTask(req[t])
            /\ \A i \in 1..Len(mainQ) : mainQ'[i] = mainQ[i]
        BY <3>2, <4>1
      <4>3. \A i \in 1..Len(mainQ') : mainQ'[i].kind = "resolve" =>
               i \in 1..Len(mainQ) /\ mainQ'[i] = mainQ[i]
        BY <4>1, <4>2
      <4>4. UNCHANGED <<response, resolved, pending, taken>>
        BY <1>4 DEF StartInvoke
      <4>5. \A i, j \in 1..Len(mainQ') :
               mainQ'[i].kind = "resolve" /\ mainQ'[j] = mainQ'[i] => i = j
        BY <4>3 DEF Posts
      <4> QED
        BY <4>3, <4>4, <4>5 DEF Posts
    <3> QED
      BY <1>4, <3>1, <3>2 DEF StartInvoke
  <2> QED
    BY <2>1, <2>2, <2>3, <2>4, <2>5, <2>6 DEF IInv
<1>5. ASSUME NEW t \in Threads, NEW keep \in BOOLEAN, StartReturn(t, keep) PROVE IInv'
  <2>1. ThreadLocals'
    BY <1>5 DEF StartReturn, Release, SwapOut, ThreadLocals
  <2>2. Owned'
    <3>1. owner[req[t]] \in Accessors
      BY <1>5 DEF StartReturn, ThreadLocals
    <3>2. kept' \subseteq kept \cup {req[t]} /\ UNCHANGED <<owner, mainQ>>
      BY <1>5 DEF StartReturn
    <3> QED
      BY <3>1, <3>2 DEF Owned
  <2>3. Claims'
    BY <1>5 DEF StartReturn, Release, SwapOut, Claims, ThreadLocals
  <2>4. OneHolder'
    BY <1>5 DEF StartReturn, Release, SwapOut, OneHolder, ThreadLocals
  <2>5. Acks'
    BY <1>5 DEF StartReturn, Release, SwapOut, Acks
  <2>6. Posts'
    BY <1>5 DEF StartReturn, Posts
  <2> QED
    BY <2>1, <2>2, <2>3, <2>4, <2>5, <2>6 DEF IInv
<1>6. ASSUME NEW t \in Threads, NEW r \in Requests, CompleteTake(t, r) PROVE IInv'
  <2>1. ThreadLocals'
    BY <1>6 DEF CompleteTake, ThreadLocals
  <2>2. Owned'
    BY <1>6 DEF CompleteTake, Owned
  <2>3. Claims'
    BY <1>6 DEF CompleteTake, Claims, ThreadLocals
  <2>4. OneHolder'
    <3>1. taken[t] = {} /\ \A u \in Threads : ~HasTaken(u, r)
      BY <1>6 DEF CompleteTake, ThreadLocals, OneHolder
    <3>2. /\ registry' = registry \ {r}
          /\ pending' = [pending EXCEPT ![t] = r]
          /\ UNCHANGED <<taken, owner, response>>
      BY <1>6 DEF CompleteTake
    <3>3. \A q \in registry', u \in Threads : ~HasTaken(u, q)'
      BY <3>1, <3>2 DEF OneHolder
    <3>4. \A q \in Requests, u, v \in Threads : HasTaken(u, q)' /\ HasTaken(v, q)' => u = v
      BY <3>1, <3>2 DEF OneHolder
    <3>5. \A u \in Threads : pending'[u] \notin taken'[u]
      BY <3>1, <3>2 DEF OneHolder
    <3>6. \A q \in Requests : owner'[q] # None /\ response'[q] = "none" =>
             q \in registry' \/ \E u \in Threads : HasTaken(u, q)'
      <4>1. pending[t] \notin Requests
        BY <1>6 DEF CompleteTake, ThreadLocals
      <4> QED
        BY <3>1, <3>2, <4>1 DEF OneHolder
    <3> QED
      BY <3>3, <3>4, <3>5, <3>6 DEF OneHolder
  <2>5. Acks'
    BY <1>6 DEF CompleteTake, Acks, Claims
  <2>6. Posts'
    BY <1>6 DEF CompleteTake, Posts, Claims
  <2> QED
    BY <2>1, <2>2, <2>3, <2>4, <2>5, <2>6 DEF IInv
<1>7. ASSUME NEW t \in Threads, CompleteForget(t) PROVE IInv'
  <2>1. ThreadLocals'
    BY <1>7 DEF CompleteForget, ThreadLocals, Claims
  <2>2. Owned'
    BY <1>7 DEF CompleteForget, Owned
  <2>3. Claims'
    BY <1>7 DEF CompleteForget, Claims, ThreadLocals
  <2>4. OneHolder'
    BY <1>7 DEF CompleteForget, OneHolder, ThreadLocals
  <2>5. Acks'
    BY <1>7 DEF CompleteForget, Acks
  <2>6. Posts'
    BY <1>7 DEF CompleteForget, Posts
  <2> QED
    BY <2>1, <2>2, <2>3, <2>4, <2>5, <2>6 DEF IInv
<1>8. ASSUME NEW t \in Threads, CompleteRelease(t) PROVE IInv'
  <2>1. ThreadLocals'
    BY <1>8 DEF CompleteRelease, Release, SwapOut, ThreadLocals
  <2>2. Owned'
    BY <1>8 DEF CompleteRelease, Release, SwapOut, Owned
  <2>3. Claims'
    BY <1>8 DEF CompleteRelease, Release, SwapOut, Claims, ThreadLocals
  <2>4. OneHolder'
    BY <1>8 DEF CompleteRelease, Release, SwapOut, OneHolder, ThreadLocals
  <2>5. Acks'
    BY <1>8 DEF CompleteRelease, Release, SwapOut, Acks
  <2>6. Posts'
    BY <1>8 DEF CompleteRelease, Posts
  <2> QED
    BY <2>1, <2>2, <2>3, <2>4, <2>5, <2>6 DEF IInv
<1>9. ASSUME NEW t \in Threads, CompleteRespond(t) PROVE IInv'
  <2>1. ThreadLocals'
    BY <1>9 DEF CompleteRespond, ThreadLocals
  <2>2. Owned'
    BY <1>9 DEF CompleteRespond, Owned
  <2>3. Claims'
    BY <1>9 DEF CompleteRespond, Claims, ThreadLocals, OneHolder
  <2>4. OneHolder'
    BY <1>9 DEF CompleteRespond, OneHolder, ThreadLocals
  <2>5. Acks'
    BY <1>9 DEF CompleteRespond, Acks
  <2>6. Posts'
    BY <1>9 DEF CompleteRespond, Posts
  <2> QED
    BY <2>1, <2>2, <2>3, <2>4, <2>5, <2>6 DEF IInv
<1>10. ASSUME NEW t \in Threads, CompletePost(t) PROVE IInv'
  <2>1. ThreadLocals'
    BY <1>10 DEF CompletePost, ThreadLocals
  <2>2. Owned'
    <3>1. owner[pending[t]] \in Accessors /\ ResolveTask(pending[t]) \in Tasks
      BY <1>10, TaskTypes DEF CompletePost, ThreadLocals, Claims
    <3>2. ResolveTask(pending[t]).id = pending[t]
      BY DEF ResolveTask
    <3> QED
      BY <1>10, <3>1, <3>2, QueueElements DEF CompletePost, Owned
  <2>3. Claims'
    BY <1>10 DEF CompletePost, Claims, ThreadLocals
  <2>4. OneHolder'
    BY <1>10 DEF CompletePost, OneHolder, Claims
  <2>5. Acks'
    BY <1>10 DEF CompletePost, Acks, Claims, OneHolder, ThreadLocals
  <2>6. Posts'
    <3>1. PICK r \in Requests : r = pending[t]
      BY <1>10 DEF CompletePost, ThreadLocals
    <3> DEFINE x == ResolveTask(r)
    <3>2. x \in Tasks /\ x.kind = "resolve" /\ x.id = r
      BY TaskTypes DEF ResolveTask
    <3>3. /\ mainQ' \in Seq(Tasks)
          /\ Len(mainQ') = Len(mainQ) + 1
          /\ mainQ'[Len(mainQ')] = x
          /\ \A i \in 1..Len(mainQ) : mainQ'[i] = mainQ[i]
      BY <1>10, <3>1, <3>2 DEF CompletePost
    <3>4. HasTaken(t, r) /\ response[r] # "none"
      BY <1>10, <3>1 DEF CompletePost, ThreadLocals, Claims
    <3>5. \A u \in Threads : ~HasTaken(u, r)'
      BY <1>10, <3>1, <3>4 DEF CompletePost, OneHolder, ThreadLocals
    <3>6. \A u \in Threads, q \in Requests : HasTaken(u, q)' => HasTaken(u, q)
      BY <1>10 DEF CompletePost
    <3>7. UNCHANGED <<response, resolved>>
      BY <1>10 DEF CompletePost
    <3>8. r \notin resolved /\ \A i \in 1..Len(mainQ) : mainQ[i].kind = "resolve" => mainQ[i].id # r
      BY <3>4 DEF Posts
    <3>9. \A i \in 1..Len(mainQ) : mainQ[i].id \in Requests
      <4>1. \A i \in 1..Len(mainQ) : mainQ[i] \in Tasks
        OBVIOUS
      <4> QED
        BY <4>1 DEF Tasks
    <3>10. \A i \in 1..Len(mainQ') : i \in 1..Len(mainQ) \/ i = Len(mainQ')
      BY <3>3
    <3> HIDE DEF x, HasTaken
    <3>11. \A i \in 1..Len(mainQ') : mainQ'[i].kind = "resolve" =>
             /\ response'[mainQ'[i].id] # "none"
             /\ mainQ'[i].id \notin resolved'
             /\ \A u \in Threads : ~HasTaken(u, mainQ[i].id)'
      BY <3>2, <3>3, <3>4, <3>5, <3>6, <3>7, <3>8, <3>9, <3>10 DEF Posts
    <3>12. \A i, j \in 1..Len(mainQ') :
             mainQ'[i].kind = "resolve" /\ mainQ'[j] = mainQ'[i] => i = j
      <4>1. \A i \in 1..Len(mainQ) : mainQ'[i].kind = "resolve" => mainQ'[i] # x
        BY <3>2, <3>3, <3>8
      <4>2. \A i, j \in 1..Len(mainQ) :
               mainQ'[i].kind = "resolve" /\ mainQ'[j] = mainQ'[i] => i = j
        BY <3>3 DEF Posts
      <4> QED
        BY <3>2, <3>3, <3>10, <4>1, <4>2
    <3> QED
      BY <3>6, <3>7, <3>11, <3>12 DEF Posts
  <2> QED
    BY <2>1, <2>2, <2>3, <2>4, <2>5, <2>6 DEF IInv
<1>11. ASSUME NEW t \in Threads, NEW a \in Accessors, CancelAll(t, a) PROVE IInv'
  <2>1. ThreadLocals'
    BY <1>11 DEF CancelAll, SwapOut, ThreadLocals
  <2>2. Owned'
    BY <1>11 DEF CancelAll, SwapOut, Owned
  <2>3. Claims'
    BY <1>11 DEF CancelAll, SwapOut, Claims, ThreadLocals
  <2>4. OneHolder'
    BY <1>11 DEF CancelAll, SwapOut, OneHolder, ThreadLocals
  <2>5. Acks'
    BY <1>11 DEF CancelAll, SwapOut, Acks
  <2>6. Posts'
    BY <1>11 DEF CancelAll, Posts
  <2> QED
    BY <2>1, <2>2, <2>3, <2>4, <2>5, <2>6 DEF IInv
<1>12. ASSUME NEW t \in Threads, NEW r \in Requests, CancelTake(t, r) PROVE IInv'
  <2>1. ThreadLocals'
    BY <1>12 DEF CancelTake, ThreadLocals
  <2>2. Owned'
    BY <1>12 DEF CancelTake, Owned
  <2>3. Claims'
    BY <1>12 DEF CancelTake, Claims, ThreadLocals
  <2>4. OneHolder'
    BY <1>12 DEF CancelTake, OneHolder, ThreadLocals
  <2>5. Acks'
    BY <1>12 DEF CancelTake, Acks
  <2>6. Posts'
    BY <1>12 DEF CancelTake, Posts, Claims
  <2> QED
    BY <2>1, <2>2, <2>3, <2>4, <2>5, <2>6 DEF IInv
<1>13. ASSUME NEW t \in Threads, CancelTaken(t) PROVE IInv'
  <2>1. ThreadLocals'
    BY <1>13 DEF CancelTaken, ThreadLocals
  <2>2. Owned'
    BY <1>13 DEF CancelTaken, Owned
  <2>3. Claims'
    BY <1>13 DEF CancelTaken, Claims, ThreadLocals
  <2>4. OneHolder'
    BY <1>13 DEF CancelTaken, OneHolder, ThreadLocals
  <2>5. Acks'
    BY <1>13 DEF CancelTaken, Acks
  <2>6. Posts'
    BY <1>13 DEF CancelTaken, Posts
  <2> QED
    BY <2>1, <2>2, <2>3, <2>4, <2>5, <2>6 DEF IInv
<1>14. ASSUME NEW t \in Threads, NEW r \in Requests, CancelNotify(t, r) PROVE IInv'
  <2>1. ThreadLocals'
    BY <1>14 DEF CancelNotify, ThreadLocals
  <2>2. Owned'
    BY <1>14 DEF CancelNotify, Owned
  <2>3. Claims'
    BY <1>14 DEF CancelNotify, Claims, ThreadLocals
  <2>4. OneHolder'
    BY <1>14 DEF CancelNotify, OneHolder, ThreadLocals
  <2>5. Acks'
    BY <1>14 DEF CancelNotify, Acks
  <2>6. Posts'
    BY <1>14 DEF CancelNotify, Posts
  <2> QED
    BY <2>1, <2>2, <2>3, <2>4, <2>5, <2>6 DEF IInv
<1>15. ASSUME NEW t \in Threads, CancelNotified(t) PROVE IInv'
  <2>1. ThreadLocals'
    BY <1>15 DEF CancelNotified, ThreadLocals
  <2>2. Owned'
    BY <1>15 DEF CancelNotified, Owned
  <2>3. Claims'
    BY <1>15 DEF CancelNotified, Claims, ThreadLocals
  <2>4. OneHolder'
    BY <1>15 DEF CancelNotified, OneHolder, ThreadLocals
  <2>5. Acks'
    BY <1>15 DEF CancelNotified, Acks
  <2>6. Posts'
    BY <1>15 DEF CancelNotified, Posts
  <2> QED
    BY <2>1, <2>2, <2>3, <2>4, <2>5, <2>6 DEF IInv
<1>16. ASSUME NEW t \in Threads, NEW r \in Requests, CancelFail(t, r) PROVE IInv'
  <2>1. ThreadLocals'
    BY <1>16 DEF CancelFail, ThreadLocals
  <2>2. Owned'
    BY <1>16 DEF CancelFail, Owned
  <2>3. Claims'
    BY <1>16 DEF CancelFail, Claims, ThreadLocals, OneHolder
  <2>4. OneHolder'
    BY <1>16 DEF CancelFail, OneHolder, ThreadLocals
  <2>5. Acks'
    BY <1>16 DEF CancelFail, Acks, Claims, ThreadLocals
  <2>6. Posts'
    BY <1>16 DEF CancelFail, Posts
  <2> QED
    BY <2>1, <2>2, <2>3, <2>4, <2>5, <2>6 DEF IInv
<1>17. ASSUME NEW t \in Threads, CancelPost(t) PROVE IInv'
  <2>1. ThreadLocals'
    BY <1>17 DEF CancelPost, ThreadLocals
  <2>2. Owned'
    <3>1. owner[req[t]] \in Accessors /\ ResolveTask(req[t]) \in Tasks
      BY <1>17, TaskTypes DEF CancelPost, ThreadLocals, Claims
    <3>2. ResolveTask(req[t]).id = req[t]
      BY DEF ResolveTask
    <3> QED
      BY <1>17, <3>1, <3>2, QueueElements DEF CancelPost, Owned
  <2>3. Claims'
    BY <1>17 DEF CancelPost, Claims, ThreadLocals
  <2>4. OneHolder'
    BY <1>17 DEF CancelPost, OneHolder, Claims, ThreadLocals
  <2>5. Acks'
    BY <1>17 DEF CancelPost, Acks
  <2>6. Posts'
    <3>1. PICK r \in Requests : r = req[t]
      BY <1>17 DEF CancelPost, ThreadLocals
    <3> DEFINE x == ResolveTask(r)
    <3>2. x \in Tasks /\ x.kind = "resolve" /\ x.id = r
      BY TaskTypes DEF ResolveTask
    <3>3. /\ mainQ' \in Seq(Tasks)
          /\ Len(mainQ') = Len(mainQ) + 1
          /\ mainQ'[Len(mainQ')] = x
          /\ \A i \in 1..Len(mainQ) : mainQ'[i] = mainQ[i]
      BY <1>17, <3>1, <3>2 DEF CancelPost
    <3>4. HasTaken(t, r) /\ response[r] # "none"
      BY <1>17, <3>1 DEF CancelPost, ThreadLocals, Claims
    <3>5. \A u \in Threads : ~HasTaken(u, r)'
      BY <1>17, <3>1, <3>4 DEF CancelPost, OneHolder, ThreadLocals
    <3>6. \A u \in Threads, q \in Requests : HasTaken(u, q)' => HasTaken(u, q)
      BY <1>17 DEF CancelPost
    <3>7. UNCHANGED <<response, resolved>>
      BY <1>17 DEF CancelPost
    <3>8. r \notin resolved /\ \A i \in 1..Len(mainQ) : mainQ[i].kind = "resolve" => mainQ[i].id # r
      BY <3>4 DEF Posts
    <3>9. \A i \in 1..Len(mainQ) : mainQ[i].id \in Requests
      <4>1. \A i \in 1..Len(mainQ) : mainQ[i] \in Tasks
        OBVIOUS
      <4> QED
        BY <4>1 DEF Tasks
    <3>10. \A i \in 1..Len(mainQ') : i \in 1..Len(mainQ) \/ i = Len(mainQ')
      BY <3>3
    <3> HIDE DEF x, HasTaken
    <3>11. \A i \in 1..Len(mainQ') : mainQ'[i].kind = "resolve" =>
             /\ response'[mainQ'[i].id] # "none"
             /\ mainQ'[i].id \notin resolved'
             /\ \A u \in Threads : ~HasTaken(u, mainQ[i].id)'
      BY <3>2, <3>3, <3>4, <3>5, <3>6, <3>7, <3>8, <3>9, <3>10 DEF Posts
    <3>12. \A i, j \in 1..Len(mainQ') :
             mainQ'[i].kind = "resolve" /\ mainQ'[j] = mainQ'[i] => i = j
      <4>1. \A i \in 1..Len(mainQ) : mainQ'[i].kind = "resolve" => mainQ'[i] # x
        BY <3>2, <3>3, <3>8
      <4>2. \A i, j \in 1..Len(mainQ) :
               mainQ'[i].kind = "resolve" /\ mainQ'[j] = mainQ'[i] => i = j
        BY <3>3 DEF Posts
      <4> QED
        BY <3>2, <3>3, <3>10, <4>1, <4>2
    <3> QED
      BY <3>6, <3>7, <3>11, <3>12 DEF Posts
  <2> QED
    BY <2>1, <2>2, <2>3, <2>4, <2>5, <2>6 DEF IInv
<1>18. ASSUME NEW t \in Threads, CancelReturn(t) PROVE IInv'
  <2>1. ThreadLocals'
    BY <1>18 DEF CancelReturn, ThreadLocals
  <2>2. Owned'
    BY <1>18 DEF CancelReturn, Owned
  <2>3. Claims'
    BY <1>18 DEF CancelReturn, Claims, ThreadLocals
  <2>4. OneHolder'
    BY <1>18 DEF CancelReturn, OneHolder, ThreadLocals
  <2>5. Acks'
    BY <1>18 DEF CancelReturn, Acks
  <2>6. Posts'
    BY <1>18 DEF CancelReturn, Posts
  <2> QED
    BY <2>1, <2>2, <2>3, <2>4, <2>5, <2>6 DEF IInv
<1>19. ASSUME NEW t \in Threads, NEW a \in Accessors, DropHandle(t, a) PROVE IInv'
  <2>1. ThreadLocals'
    BY <1>19 DEF DropHandle, Release, SwapOut, ThreadLocals
  <2>2. Owned'
    BY <1>19 DEF DropHandle, Release, SwapOut, Owned
  <2>3. Claims'
    BY <1>19 DEF DropHandle, Release, SwapOut, Claims, ThreadLocals
  <2>4. OneHolder'
    BY <1>19 DEF DropHandle, Release, SwapOut, OneHolder, ThreadLocals
  <2>5. Acks'
    BY <1>19 DEF DropHandle, Release, SwapOut, Acks
  <2>6. Posts'
    BY <1>19 DEF DropHandle, Posts
  <2> QED
    BY <2>1, <2>2, <2>3, <2>4, <2>5, <2>6 DEF IInv
<1>20. ASSUME DispatchBegin PROVE IInv'
  <2>1. ThreadLocals'
    <3>1. owner[Head(mainQ).id] \in Accessors
      BY <1>20, QueueElements, QueueTypes DEF DispatchBegin, Owned
    <3> QED
      BY <1>20, <3>1 DEF DispatchBegin, ThreadLocals
  <2>2. Owned'
    BY <1>20 DEF DispatchBegin, Owned
  <2>3. Claims'
    BY <1>20 DEF DispatchBegin, Claims, ThreadLocals
  <2>4. OneHolder'
    BY <1>20 DEF DispatchBegin, OneHolder, ThreadLocals
  <2>5. Acks'
    BY <1>20 DEF DispatchBegin, Acks
  <2>6. Posts'
    BY <1>20 DEF DispatchBegin, Posts
  <2> QED
    BY <2>1, <2>2, <2>3, <2>4, <2>5, <2>6 DEF IInv
<1>21. ASSUME BeginReturn PROVE IInv'
  <2>1. ThreadLocals'
    BY <1>21 DEF BeginReturn, Release, SwapOut, ThreadLocals
  <2>2. Owned'
    BY <1>21 DEF BeginReturn, Release, SwapOut, Owned
  <2>3. Claims'
    BY <1>21 DEF BeginReturn, Release, SwapOut, Claims, ThreadLocals
  <2>4. OneHolder'
    BY <1>21 DEF BeginReturn, Release, SwapOut, OneHolder, ThreadLocals
  <2>5. Acks'
    BY <1>21 DEF BeginReturn, Release, SwapOut, Acks
  <2>6. Posts'
    BY <1>21 DEF BeginReturn, Posts
  <2> QED
    BY <2>1, <2>2, <2>3, <2>4, <2>5, <2>6 DEF IInv
<1>22. ASSUME DispatchResolve PROVE IInv'
  <2>1. ThreadLocals'
    BY <1>22 DEF DispatchResolve, ThreadLocals
  <2>2. Owned'
    BY <1>22 DEF DispatchResolve, Owned
  <2>3. Claims'
    BY <1>22 DEF DispatchResolve, Claims, ThreadLocals
  <2>4. OneHolder'
    BY <1>22 DEF DispatchResolve, OneHolder, ThreadLocals
  <2>5. Acks'
    BY <1>22 DEF DispatchResolve, Acks
  <2>6. Posts'
    <3>1. /\ mainQ # <<>> /\ mainQ' = Tail(mainQ) /\ mainQ[1].kind = "resolve"
          /\ resolved' = resolved \cup {mainQ[1].id}
          /\ UNCHANGED <<response, pending, taken>>
      BY <1>22 DEF DispatchResolve
    <3>2. /\ 1 \in 1..Len(mainQ)
          /\ \A i \in 1..Len(mainQ') : /\ i + 1 \in 1..Len(mainQ)
                                       /\ i + 1 \in 2..Len(mainQ)
                                       /\ mainQ'[i] = mainQ[i + 1]
      BY <3>1, QueueElements
    <3>3. \A i \in 1..Len(mainQ) : mainQ[i] \in Tasks
      OBVIOUS
    <3>4. \A i \in 2..Len(mainQ) : mainQ[i].kind = "resolve" => mainQ[i].id # mainQ[1].id
      <4> SUFFICES ASSUME NEW i \in 2..Len(mainQ), mainQ[i].kind = "resolve", mainQ[i].id = mainQ[1].id
                   PROVE  FALSE
        OBVIOUS
      <4>1. i \in 1..Len(mainQ) /\ i # 1
        OBVIOUS
      <4>2. mainQ[i] = mainQ[1]
        BY <3>1, <3>2, <3>3, <4>1, TaskEquality
      <4> QED
        BY <3>1, <3>2, <4>1, <4>2 DEF Posts
    <3> QED
      BY <3>1, <3>2, <3>4 DEF Posts
  <2> QED
    BY <2>1, <2>2, <2>3, <2>4, <2>5, <2>6 DEF IInv
<1>23. ASSUME NEW t \in Threads, NEW r \in Requests, ContinuationDone(t, r) PROVE IInv'
  <2>1. ThreadLocals'
    BY <1>23 DEF ContinuationDone, Release, SwapOut, ThreadLocals, Owned
  <2>2. Owned'
    BY <1>23 DEF ContinuationDone, Release, SwapOut, Owned
  <2>3. Claims'
    BY <1>23 DEF ContinuationDone, Release, SwapOut, Claims, ThreadLocals
  <2>4. OneHolder'
    BY <1>23 DEF ContinuationDone, Release, SwapOut, OneHolder, ThreadLocals
  <2>5. Acks'
    BY <1>23 DEF ContinuationDone, Release, SwapOut, Acks
  <2>6. Posts'
    BY <1>23 DEF ContinuationDone, Posts
  <2> QED
    BY <2>1, <2>2, <2>3, <2>4, <2>5, <2>6 DEF IInv
<1>24. CASE UNCHANGED vars
  BY <1>24 DEF vars, IInv, ThreadLocals, Owned, Claims, OneHolder, Acks, Posts
<1> HIDE DEF TypeOK
<1> QED
  BY <1>1, <1>2, <1>3, <1>4, <1>5, <1>6, <1>7, <1>8, <1>9, <1>10, <1>11, <1>12, <1>13, <1>14,
     <1>15, <1>16, <1>17, <1>18, <1>19, <1>20, <1>21, <1>22, <1>23, <1>24, Zenon
  DEF Next, Call, Finish, Dispatch

-----------------------------------------------------------------------------
\* The strengthening of the safety properties is inductive.
THEOREM Inductive == Spec => []IInv
<1>1. IInv /\ [Next]_vars => IInv'
  BY StepType, StepInv
<1> QED
  BY InitInv, <1>1, PTL DEF Spec

\* Every variable of the accessor keeps to its type, whatever the numbers of threads,
\* accessors and requests.
THEOREM TypeCorrect == Spec => []TypeOK
<1>1. IInv => TypeOK
  BY DEF IInv
<1> QED
  BY <1>1, Inductive, PTL

\* The registry's erase arbitrates: no request is ever in the hands of two calls, or of none.
THEOREM OneHolderAlways == Spec => []OneHolder
<1>1. IInv => OneHolder
  BY DEF IInv
<1> QED
  BY <1>1, Inductive, PTL

\* A completion call that returned 1 is the one whose response the loader gets, and no id is
\* accepted twice.
THEOREM AckMeansAnsweredAlways == Spec => []AckMeansAnswered
<1>1. IInv => AckMeansAnswered
  BY DEF IInv, Acks, AckMeansAnswered
<1> QED
  BY <1>1, Inductive, PTL

\* A resolve always finds its response set, and no promise is resolved twice.
THEOREM ResolveOnceAlways == Spec => []ResolveOnceAfterResponse
<1>1. IInv => ResolveOnceAfterResponse
  BY DEF IInv, Posts, ResolveOnceAfterResponse
<1> QED
  BY <1>1, Inductive, PTL

\* Only three steps set a response: the refusal of a request without transport, the answer of
\* the completion that took the request, and the failure of the cancellation that took it.
LEMMA ResponseSteps ==
  ASSUME [Next]_vars
  PROVE  \/ response' = response
         \/ \E t \in Threads, a \in Accessors, r \in Requests : StartWithoutTransport(t, a, r)
         \/ \E t \in Threads : CompleteRespond(t)
         \/ \E t \in Threads, r \in Requests : CancelFail(t, r)
<1> USE DEF refVars, tableVars, futureVars, hostVars, threadVars, cancelVars
<1>1. ASSUME NEW t \in Threads, Call(t),
             ~\E a \in Accessors, r \in Requests : StartWithoutTransport(t, a, r)
      PROVE  response' = response
  BY <1>1 DEF Call, StartRegister, CompleteTake, CancelAll, DropHandle
<1>2. ASSUME NEW t \in Threads, Finish(t), ~CompleteRespond(t), ~\E r \in Requests : CancelFail(t, r)
      PROVE  response' = response
  BY <1>2 DEF Finish, StartInsert, StartInvoke, StartReturn, CompleteForget, CompleteRelease,
              CompletePost, CancelTake, CancelNotify, CancelTaken, CancelNotified, CancelPost,
              CancelReturn, BeginReturn
<1>3. CASE Dispatch
  BY <1>3 DEF Dispatch, DispatchBegin, DispatchResolve
<1>4. ASSUME NEW t \in Threads, NEW r \in Requests, ContinuationDone(t, r)
      PROVE  response' = response
  BY <1>4 DEF ContinuationDone
<1>5. CASE UNCHANGED vars
  BY <1>5 DEF vars
<1> QED
  BY <1>1, <1>2, <1>3, <1>4, <1>5 DEF Next

\* setResponse happens once: no step changes a response that is set.
THEOREM SettledOnceAlways == Spec => SettledOnce
<1>1. ASSUME IInv, [Next]_vars
      PROVE  \A r \in Requests : response[r] # "none" => response'[r] = response[r]
  <2> USE <1>1 DEF IInv, TypeOK
  <2>1. CASE response' = response
    BY <2>1
  <2>2. ASSUME NEW t \in Threads, NEW a \in Accessors, NEW r \in Requests,
               StartWithoutTransport(t, a, r)
        PROVE  \A q \in Requests : response[q] # "none" => response'[q] = response[q]
    BY <2>2 DEF StartWithoutTransport, Claims
  <2>3. ASSUME NEW t \in Threads, CompleteRespond(t)
        PROVE  \A q \in Requests : response[q] # "none" => response'[q] = response[q]
    BY <2>3 DEF CompleteRespond, Claims
  <2>4. ASSUME NEW t \in Threads, NEW r \in Requests, CancelFail(t, r)
        PROVE  \A q \in Requests : response[q] # "none" => response'[q] = response[q]
    BY <2>4 DEF CancelFail, Claims
  <2> QED
    BY ResponseSteps, <2>1, <2>2, <2>3, <2>4
<1>2. IInv /\ [Next]_vars =>
         [\A r \in Requests : response[r] # "none" => response'[r] = response[r]]_vars
  BY <1>1
<1> QED
  BY <1>2, Inductive, PTL DEF Spec, SettledOnce

-----------------------------------------------------------------------------
\* The steps that show: the others change nothing RequestLifecycle speaks of.
LEMMA VisibleSteps ==
  ASSUME [Next]_vars
  PROVE  \/ UNCHANGED <<owner, response, resolved, accepted>>
         \/ \E t \in Threads, a \in Accessors, r \in Requests :
               StartWithoutTransport(t, a, r) \/ StartRegister(t, a, r)
         \/ \E t \in Threads : CompleteRespond(t) \/ CompletePost(t)
         \/ \E t \in Threads, r \in Requests : CancelFail(t, r)
         \/ DispatchResolve
<1> USE DEF refVars, tableVars, futureVars, hostVars, threadVars, cancelVars
<1> DEFINE Hidden == UNCHANGED <<owner, response, resolved, accepted>>
<1>1. ASSUME NEW t \in Threads, Call(t),
             ~\E a \in Accessors, r \in Requests :
                 StartWithoutTransport(t, a, r) \/ StartRegister(t, a, r)
      PROVE  Hidden
  BY <1>1 DEF Call, CompleteTake, CancelAll, DropHandle
<1>2. ASSUME NEW t \in Threads, Finish(t), ~CompleteRespond(t), ~CompletePost(t),
             ~\E r \in Requests : CancelFail(t, r)
      PROVE  Hidden
  BY <1>2 DEF Finish, StartInsert, StartInvoke, StartReturn, CompleteForget, CompleteRelease,
              CancelTake, CancelNotify, CancelTaken, CancelNotified, CancelPost,
              CancelReturn, BeginReturn
<1>3. CASE DispatchBegin
  BY <1>3 DEF DispatchBegin
<1>4. ASSUME NEW t \in Threads, NEW r \in Requests, ContinuationDone(t, r)
      PROVE  Hidden
  BY <1>4 DEF ContinuationDone
<1>5. CASE UNCHANGED vars
  BY <1>5 DEF vars
<1> QED
  BY <1>1, <1>2, <1>3, <1>4, <1>5 DEF Next, Dispatch

\* Every step of the accessor is a step of the life RequestLifecycle gives each request, or
\* none at all.
THEOREM RefinesLifecycle == Spec => Lifecycle!SafeSpec
<1>1. Init => Lifecycle!Init
  BY DEF Init, Lifecycle!Init, phaseBar
<1>2. ASSUME IInv, [Next]_vars PROVE [Lifecycle!Next]_(Lifecycle!vars)
  <2> USE <1>2 DEF IInv, TypeOK
  <2>1. CASE UNCHANGED <<owner, response, resolved, accepted>>
    BY <2>1 DEF Lifecycle!vars, phaseBar
  <2>2. ASSUME NEW t \in Threads, NEW a \in Accessors, NEW r \in Requests,
               StartWithoutTransport(t, a, r)
        PROVE  Lifecycle!Refuse(r)
    BY <2>2, NoneAssumption DEF StartWithoutTransport, Lifecycle!Refuse, phaseBar, Claims, hostVars
  <2>3. ASSUME NEW t \in Threads, NEW a \in Accessors, NEW r \in Requests,
               StartRegister(t, a, r)
        PROVE  Lifecycle!Open(r)
    <3>1. response[r] = "none" /\ owner[r] = None /\ a # None
      BY <2>3, NoneAssumption DEF StartRegister, Claims
    <3>2. owner' = [owner EXCEPT ![r] = a] /\ UNCHANGED <<response, resolved, accepted>>
      BY <2>3 DEF StartRegister, futureVars, hostVars
    <3>3. phaseBar[r] = "new"
      BY <3>1 DEF phaseBar
    <3>4. phaseBar' = [phaseBar EXCEPT ![r] = "open"]
      BY <3>1, <3>2 DEF phaseBar
    <3> QED
      BY <3>2, <3>3, <3>4 DEF Lifecycle!Open
  <2>4. ASSUME NEW t \in Threads, CompleteRespond(t)
        PROVE  Lifecycle!Settle(pending[t]) /\ pending[t] \in Requests
    <3>1. pending[t] \in Requests /\ response[pending[t]] = "none" /\ owner[pending[t]] # None
      BY <2>4 DEF CompleteRespond, Claims, ThreadLocals, Completing, CompletePcs, HasTaken
    <3> QED
      BY <2>4, <3>1 DEF CompleteRespond, Lifecycle!Settle, phaseBar, tableVars, hostVars
  <2>5. ASSUME NEW t \in Threads, CompletePost(t)
        PROVE  Lifecycle!Acknowledge(pending[t]) /\ pending[t] \in Requests
    <3>1. /\ pending[t] \in Requests /\ response[pending[t]] = "answered"
          /\ accepted[pending[t]] = 0
      BY <2>5 DEF CompletePost, Claims, ThreadLocals, Completing, CompletePcs, HasTaken, Acks
    <3> QED
      BY <2>5, <3>1 DEF CompletePost, Lifecycle!Acknowledge, phaseBar, tableVars
  <2>6. ASSUME NEW t \in Threads, NEW r \in Requests, CancelFail(t, r)
        PROVE  Lifecycle!Settle(r)
    <3>1. response[r] = "none" /\ owner[r] # None
      BY <2>6 DEF CancelFail, Claims, HasTaken
    <3> QED
      BY <2>6, <3>1 DEF CancelFail, Lifecycle!Settle, phaseBar, tableVars, hostVars
  <2>7. ASSUME DispatchResolve
        PROVE  \E r \in Requests : Lifecycle!Deliver(r)
    <3>1. mainQ \in Seq(Tasks) /\ mainQ # <<>> /\ Head(mainQ) = mainQ[1]
      BY <2>7 DEF DispatchResolve
    <3>2. 1 \in 1..Len(mainQ) /\ mainQ[1] \in Tasks
      BY <3>1
    <3>3. /\ Head(mainQ).id \in Requests
          /\ response[Head(mainQ).id] # "none"
          /\ Head(mainQ).id \notin resolved
      BY <2>7, <3>1, <3>2 DEF DispatchResolve, Posts, Tasks
    <3> QED
      BY <2>7, <3>3 DEF DispatchResolve, Lifecycle!Deliver, Lifecycle!Settled, phaseBar,
                        tableVars, hostVars
  <2> HIDE DEF IInv, TypeOK
  <2> QED
    BY VisibleSteps, <2>1, <2>2, <2>3, <2>4, <2>5, <2>6, <2>7 DEF Lifecycle!Next
<1> QED
  BY <1>1, <1>2, Inductive, PTL DEF Spec, Lifecycle!SafeSpec

-----------------------------------------------------------------------------
(* The tables, the cancellations and the lives of the accessors: a second   *)
(* strengthening, inductive given the first.                                *)

\* Thread t is in a cancelAllRequests of accessor a.
Canceller(t, a) == pc[t] \in CancelPcs /\ accT[t] = a

\* Until its start() has put a request into _inFlight nobody else has come across it.
Starting ==
    /\ \A r \in begun \cup cancelled : owner[r] # None
    /\ \A t, u \in Threads : pc[t] \in StartPcs /\ pc[u] \in StartPcs /\ req[t] = req[u] => t = u
    /\ \A t \in Threads : pc[t] = "registered" =>
          /\ req[t] \in registry
          /\ req[t] \notin begun \cup cancelled
          /\ \A a \in Accessors : req[t] \notin inFlight[a]
          /\ \A u \in Threads : req[t] \notin ids[u]
          /\ \A i \in 1..Len(mainQ) : mainQ[i].kind = "begin" => mainQ[i].id # req[t]

\* An id is swapped out of _inFlight by one cancellation, which has yet to tell the host of it
\* until its second loop has come to it.
SwappedOut ==
    /\ \A a \in Accessors : \A r \in inFlight[a] :
          r \notin cancelled /\ \A t \in Threads : r \notin ids[t]
    /\ \A t \in Threads : \A r \in ids[t] :
          /\ pc[t] \in {"retiring", "notifying"}
          /\ owner[r] = accT[t]
          /\ r \in cancelled => pc[t] = "notifying" /\ r \notin todo[t]
          /\ \A u \in Threads : r \in ids[u] => t = u
    /\ \A t \in Threads : todo[t] \subseteq ids[t]
    /\ \A t \in Threads : \A r \in taken[t] : owner[r] = accT[t]

\* While an accessor has a reference its cancellations are the host's, made on a handle; once it
\* has none its only cancellation is its destructor's, and its list stays empty.
Life ==
    \A a \in Accessors :
       /\ Alive(a) => a \notin destroyed
       /\ Alive(a) /\ a \notin handles => \A t \in Threads : ~Canceller(t, a)
       /\ ~Alive(a) =>
             /\ inFlight[a] = {}
             /\ \A t, u \in Threads : Canceller(t, a) /\ Canceller(u, a) => t = u
             /\ a \in destroyed <=> \A t \in Threads : ~Canceller(t, a)

LInv == IInv /\ Starting /\ SwappedOut /\ InFlightAgrees /\ Life

-----------------------------------------------------------------------------
(* What a thread that lets go of a reference of a, or starts a cancellation *)
(* of its requests, does to the tables.                                     *)

LetsGo(t, a) ==
    /\ UNCHANGED <<registry, owner, mainQ, begun, cancelled, pending, taken>>
    /\ pc[t] \notin CancelPcs \cup {"registered", "completing"}
    /\ pc'[t] \notin StartPcs \cup {"completing"}
    /\ \A u \in Threads : u # t =>
          /\ pc'[u] = pc[u] /\ accT'[u] = accT[u] /\ req'[u] = req[u]
          /\ ids'[u] = ids[u] /\ todo'[u] = todo[u]
    /\ \/ /\ inFlight' = inFlight
          /\ ids'[t] = {} /\ todo'[t] = {}
          /\ pc'[t] \notin CancelPcs
       \/ /\ inFlight' = [inFlight EXCEPT ![a] = {}]
          /\ ids'[t] = inFlight[a] /\ todo'[t] = inFlight[a]
          /\ pc'[t] = "retiring" /\ accT'[t] = a

\* A thread outside a cancellation has swapped nothing out.
LEMMA NothingSwapped ==
  ASSUME TypeOK, SwappedOut, NEW t \in Threads, pc[t] \notin {"retiring", "notifying"}
  PROVE  ids[t] = {} /\ todo[t] = {}
BY DEF TypeOK, SwappedOut

\* Dropping a reference lets an accessor go: its request set stays, or is swapped out for the
\* destructor.
LEMMA ReleaseLetsGo ==
  ASSUME TypeOK, SwappedOut, NEW t \in Threads, NEW a \in Accessors,
         NEW next \in {"idle", "responding"}, Release(t, a, next) \/ SwapOut(t, a, next),
         pc[t] \notin CancelPcs \cup {"registered", "completing"},
         UNCHANGED <<registry, owner, mainQ, begun, cancelled, pending, taken>>,
         \A u \in Threads : u # t => req'[u] = req[u]
  PROVE  LetsGo(t, a)
<1>1. ids[t] = {} /\ todo[t] = {}
  BY NothingSwapped DEF CancelPcs
<1> USE DEF TypeOK, StartPcs, CancelPcs, Goto
<1>2. CASE SwapOut(t, a, next)
  BY <1>2 DEF SwapOut, LetsGo
<1>3. CASE /\ Goto(t, next)
           /\ accT' = [accT EXCEPT ![t] = None]
           /\ UNCHANGED <<inFlight, ids, todo, after>>
  BY <1>1, <1>3 DEF LetsGo
<1> QED
  BY <1>2, <1>3 DEF Release

\* The steps that drop a reference, in a start, a completion or a destroy, all let an accessor go.
LEMMA LettingGo ==
  ASSUME LInv, NEW t \in Threads
  PROVE  /\ \A keep \in BOOLEAN : StartReturn(t, keep) => LetsGo(t, accT[t])
         /\ CompleteRelease(t) => LetsGo(t, accT[t])
         /\ BeginReturn => LetsGo(Main, accT[Main])
         /\ \A a \in Accessors : CancelAll(t, a) \/ DropHandle(t, a) => LetsGo(t, a)
         /\ \A r \in Requests : ContinuationDone(t, r) => LetsGo(t, owner[r])
<1>a. TypeOK /\ ThreadLocals /\ Owned /\ SwappedOut
  BY DEF LInv, IInv
<1> USE MainAssumption, <1>a DEF futureVars, hostVars
<1>1. ASSUME NEW keep \in BOOLEAN, StartReturn(t, keep) PROVE LetsGo(t, accT[t])
  <2>1. accT[t] \in Accessors /\ pc[t] = "invoked"
    BY <1>1 DEF StartReturn, ThreadLocals, StartPcs
  <2> QED
    BY <1>1, <2>1, ReleaseLetsGo DEF StartReturn, CancelPcs, TypeOK
<1>2. ASSUME CompleteRelease(t) PROVE LetsGo(t, accT[t])
  <2>1. accT[t] \in Accessors /\ pc[t] = "forgotten"
    BY <1>2 DEF CompleteRelease, ThreadLocals
  <2> QED
    BY <1>2, <2>1, ReleaseLetsGo DEF CompleteRelease, CancelPcs
<1>3. ASSUME BeginReturn PROVE LetsGo(Main, accT[Main])
  <2>1. accT[Main] \in Accessors /\ pc[Main] = "inBegin"
    BY <1>3 DEF BeginReturn, ThreadLocals
  <2> QED
    BY <1>3, <2>1, ReleaseLetsGo DEF BeginReturn, CancelPcs
<1>4. ASSUME NEW a \in Accessors, CancelAll(t, a) \/ DropHandle(t, a) PROVE LetsGo(t, a)
  <2>1. pc[t] = "idle"
    BY <1>4 DEF CancelAll, DropHandle
  <2> QED
    BY <1>4, <2>1, ReleaseLetsGo DEF CancelAll, DropHandle, CancelPcs
<1>5. ASSUME NEW r \in Requests, ContinuationDone(t, r) PROVE LetsGo(t, owner[r])
  <2>1. owner[r] \in Accessors /\ pc[t] = "idle"
    BY <1>5 DEF ContinuationDone, Owned
  <2> QED
    BY <1>5, <2>1, ReleaseLetsGo DEF ContinuationDone, CancelPcs
<1> QED
  BY <1>1, <1>2, <1>3, <1>4, <1>5

\* Letting an accessor go does not disturb a request that is being started.
LEMMA LettingGoStarting ==
  ASSUME LInv, NEW t \in Threads, NEW a \in Accessors, LetsGo(t, a)
  PROVE  Starting'
<1>a. TypeOK /\ Starting /\ SwappedOut
  BY DEF LInv, IInv
<1>1. \A u \in Threads : pc'[u] \in StartPcs => u # t /\ pc[u] \in StartPcs
  BY DEF LetsGo
<1>2. \A r \in (begun \cup cancelled)' : owner'[r] # None
  BY <1>a DEF LetsGo, Starting
<1>3. \A u, v \in Threads :
         pc'[u] \in StartPcs /\ pc'[v] \in StartPcs /\ req'[u] = req'[v] => u = v
  BY <1>a, <1>1 DEF LetsGo, Starting
<1>4. ASSUME NEW u \in Threads, pc'[u] = "registered"
      PROVE  /\ req'[u] \in registry'
             /\ req'[u] \notin (begun \cup cancelled)'
             /\ \A b \in Accessors : req'[u] \notin inFlight'[b]
             /\ \A v \in Threads : req'[u] \notin ids'[v]
             /\ \A i \in 1..Len(mainQ') : mainQ'[i].kind = "begin" => mainQ'[i].id # req'[u]
  <2>1. u # t /\ pc[u] = "registered" /\ req'[u] = req[u]
    BY <1>1, <1>4 DEF LetsGo, StartPcs
  <2>2. /\ req[u] \in registry /\ req[u] \notin begun \cup cancelled
        /\ \A b \in Accessors : req[u] \notin inFlight[b]
        /\ \A v \in Threads : req[u] \notin ids[v]
        /\ \A i \in 1..Len(mainQ) : mainQ[i].kind = "begin" => mainQ[i].id # req[u]
    BY <1>a, <2>1 DEF Starting
  <2> QED
    BY <1>a, <2>1, <2>2 DEF LetsGo, TypeOK
<1> QED
  BY <1>2, <1>3, <1>4 DEF Starting

\* Letting an accessor go swaps out its whole set, which no other thread had.
LEMMA LettingGoSwappedOut ==
  ASSUME LInv, NEW t \in Threads, NEW a \in Accessors, LetsGo(t, a)
  PROVE  SwappedOut'
<1>a. TypeOK /\ ThreadLocals /\ SwappedOut /\ InFlightAgrees
  BY DEF LInv, IInv
<1>b. \A b \in Accessors : \A r \in inFlight[b] : owner[r] = b
  BY <1>a DEF InFlightAgrees
<1>c. UNCHANGED <<cancelled, owner, taken>> /\ taken[t] = {}
  BY <1>a DEF LetsGo, ThreadLocals
<1>1. \A b \in Accessors : \A r \in inFlight'[b] :
         r \in inFlight[b] /\ r \notin ids'[t]
  <2>1. CASE inFlight' = inFlight /\ ids'[t] = {}
    BY <2>1
  <2>2. CASE inFlight' = [inFlight EXCEPT ![a] = {}] /\ ids'[t] = inFlight[a]
    BY <1>a, <1>b, <2>2 DEF TypeOK
  <2> QED
    BY <2>1, <2>2 DEF LetsGo
<1>2. \A b \in Accessors : \A r \in inFlight'[b] :
          r \notin cancelled' /\ \A u \in Threads : r \notin ids'[u]
  BY <1>a, <1>1, <1>c DEF LetsGo, SwappedOut
<1>3. ASSUME NEW u \in Threads, NEW r \in ids'[u]
      PROVE  /\ pc'[u] \in {"retiring", "notifying"}
             /\ owner'[r] = accT'[u]
             /\ r \in cancelled' => pc'[u] = "notifying" /\ r \notin todo'[u]
             /\ \A v \in Threads : r \in ids'[v] => u = v
  <2>1. CASE u = t
    BY <1>a, <1>b, <1>c, <1>3, <2>1 DEF LetsGo, SwappedOut
  <2>2. CASE u # t
    BY <1>a, <1>b, <1>c, <1>3, <2>2 DEF LetsGo, SwappedOut
  <2> QED
    BY <2>1, <2>2
<1>4. \A u \in Threads : todo'[u] \subseteq ids'[u]
  BY <1>a DEF LetsGo, SwappedOut
<1>5. \A u \in Threads : \A r \in taken'[u] : owner'[r] = accT'[u]
  BY <1>a, <1>c DEF LetsGo, SwappedOut
<1> QED
  BY <1>2, <1>3, <1>4, <1>5 DEF SwappedOut

-----------------------------------------------------------------------------
(* Between the two tables.                                                  *)

\* A request still in _inFlight and already out of the registry, and the other way round.
Answering(t, r) == pc[t] = "completing" /\ pending[t] = r
Moving(t, r) == \/ pc[t] = "registered" /\ req[t] = r
                \/ pc[t] = "retiring" /\ r \in todo[t]

\* The agreement of the tables, said with the two ways of being between them.
LEMMA InFlightForm ==
  InFlightAgrees <=>
    /\ \A a \in Accessors : \A r \in inFlight[a] :
          owner[r] = a /\ (r \in registry \/ \E t \in Threads : Answering(t, r))
    /\ \A r \in registry : r \in inFlight[owner[r]] \/ \E t \in Threads : Moving(t, r)
BY DEF InFlightAgrees, Answering, Moving

\* The tables still agree after a step that changes neither, if the threads between them stay
\* where they are.
LEMMA InFlightFrame ==
  ASSUME TypeOK, Claims, InFlightAgrees, UNCHANGED <<inFlight, registry>>,
         \A r \in Requests : owner[r] # None => owner'[r] = owner[r],
         \A t \in Threads, r \in Requests :
            /\ Answering(t, r) => Answering(t, r)' \/ \A a \in Accessors : r \notin inFlight[a]
            /\ Moving(t, r) => Moving(t, r)'
  PROVE  InFlightAgrees'
<1>a. \A a \in Accessors : inFlight[a] \subseteq Requests
  BY DEF TypeOK
<1>b. registry \subseteq Requests /\ \A r \in registry : owner[r] # None
  BY DEF TypeOK, Claims
<1>1. \A a \in Accessors : \A r \in inFlight'[a] :
         owner'[r] = a /\ (r \in registry' \/ \E t \in Threads : Answering(t, r)')
  <2> SUFFICES ASSUME NEW a \in Accessors, NEW r \in inFlight[a]
               PROVE  owner'[r] = a /\ (r \in registry \/ \E t \in Threads : Answering(t, r)')
    OBVIOUS
  <2>1. owner[r] = a /\ (r \in registry \/ \E t \in Threads : Answering(t, r))
    BY InFlightForm
  <2> QED
    BY <1>a, <2>1, NoneAssumption
<1>2. \A r \in registry' : r \in inFlight'[owner'[r]] \/ \E t \in Threads : Moving(t, r)'
  <2> SUFFICES ASSUME NEW r \in registry
               PROVE  r \in inFlight[owner'[r]] \/ \E t \in Threads : Moving(t, r)'
    OBVIOUS
  <2>1. r \in inFlight[owner[r]] \/ \E t \in Threads : Moving(t, r)
    BY InFlightForm
  <2> QED
    BY <1>b, <2>1
<1> QED
  BY <1>1, <1>2 DEF InFlightAgrees, Answering, Moving

\* A destructor that swaps out the set still has to retire what it took.
LEMMA LettingGoInFlight ==
  ASSUME LInv, NEW t \in Threads, NEW a \in Accessors, LetsGo(t, a)
  PROVE  InFlightAgrees'
<1>a. TypeOK /\ ThreadLocals /\ Claims /\ SwappedOut /\ InFlightAgrees
  BY DEF LInv, IInv
<1>b. UNCHANGED <<registry, owner, pending>>
  BY DEF LetsGo
<1>1. \A u \in Threads, r \in Requests :
         (Answering(u, r) => Answering(u, r)') /\ (Moving(u, r) => Moving(u, r)')
  BY DEF LetsGo, Answering, Moving, CancelPcs
<1>2. CASE inFlight' = inFlight
  BY <1>a, <1>b, <1>1, <1>2, InFlightFrame
<1>3. CASE /\ inFlight' = [inFlight EXCEPT ![a] = {}]
           /\ todo'[t] = inFlight[a]
           /\ pc'[t] = "retiring"
  <2>1. \A b \in Accessors : inFlight'[b] \subseteq inFlight[b] /\ (b # a => inFlight'[b] = inFlight[b])
    BY <1>a, <1>3 DEF TypeOK
  <2>2. \A b \in Accessors : \A r \in inFlight'[b] :
           owner'[r] = b /\ (r \in registry' \/ \E u \in Threads : Answering(u, r)')
    <3> SUFFICES ASSUME NEW b \in Accessors, NEW r \in inFlight[b]
                 PROVE  owner[r] = b /\ (r \in registry \/ \E u \in Threads : Answering(u, r)')
      BY <1>b, <2>1
    <3>1. r \in Requests
      BY <1>a DEF TypeOK
    <3>2. owner[r] = b /\ (r \in registry \/ \E u \in Threads : Answering(u, r))
      BY <1>a, InFlightForm
    <3> QED
      BY <1>1, <3>1, <3>2
  <2>3. \A r \in registry' : r \in inFlight'[owner'[r]] \/ \E u \in Threads : Moving(u, r)'
    <3> SUFFICES ASSUME NEW r \in registry
                 PROVE  r \in inFlight'[owner[r]] \/ \E u \in Threads : Moving(u, r)'
      BY <1>b
    <3>1. r \in Requests /\ owner[r] \in Accessors
      BY <1>a DEF TypeOK, Claims
    <3>2. r \in inFlight[owner[r]] \/ \E u \in Threads : Moving(u, r)
      BY <1>a, InFlightForm
    <3>3. CASE r \in inFlight[a]
      BY <1>3, <3>3 DEF Moving
    <3> QED
      BY <1>1, <2>1, <3>1, <3>2, <3>3
  <2> QED
    BY <2>2, <2>3 DEF InFlightAgrees, Answering, Moving
<1> QED
  BY <1>2, <1>3 DEF LetsGo

\* Every step keeps the tables in agreement.
LEMMA InFlightStep ==
  ASSUME LInv, [Next]_vars
  PROVE  InFlightAgrees'
<1>a. /\ TypeOK /\ ThreadLocals /\ Owned /\ Claims
      /\ Starting /\ SwappedOut /\ InFlightAgrees /\ Life
  BY DEF LInv, IInv
<1> USE MainAssumption, NoneAssumption, <1>a
<1> USE DEF Goto, refVars, tableVars, futureVars, hostVars, threadVars, cancelVars
<1>1. ASSUME NEW t \in Threads, NEW a \in Accessors, NEW r \in Requests,
             StartWithoutTransport(t, a, r)
      PROVE  InFlightAgrees'
  BY <1>1, InFlightFrame DEF StartWithoutTransport, TypeOK, Answering, Moving
<1>2. ASSUME NEW t \in Threads, NEW a \in Accessors, NEW r \in Requests, StartRegister(t, a, r)
      PROVE  InFlightAgrees'
  <2>1. /\ inFlight' = inFlight /\ registry' = registry \cup {r}
        /\ pending' = pending /\ todo' = todo
        /\ pc'[t] = "registered" /\ req'[t] = r /\ pc[t] = "idle"
        /\ \A u \in Threads : u # t => pc'[u] = pc[u] /\ req'[u] = req[u]
        /\ \A q \in Requests : q # r => owner'[q] = owner[q]
        /\ owner[r] = None
    BY <1>2 DEF StartRegister, TypeOK
  <2>2. \A u \in Threads, q \in Requests :
           (Answering(u, q) => Answering(u, q)') /\ (Moving(u, q) => Moving(u, q)')
    BY <2>1 DEF Answering, Moving
  <2>3. \A b \in Accessors : \A q \in inFlight'[b] :
           owner'[q] = b /\ (q \in registry' \/ \E u \in Threads : Answering(u, q)')
    <3> SUFFICES ASSUME NEW b \in Accessors, NEW q \in inFlight[b]
                 PROVE  owner'[q] = b /\ (q \in registry' \/ \E u \in Threads : Answering(u, q)')
      BY <2>1
    <3>1. q \in Requests /\ owner[q] = b /\ (q \in registry \/ \E u \in Threads : Answering(u, q))
      BY InFlightForm DEF TypeOK
    <3> QED
      BY <2>1, <2>2, <3>1
  <2>4. \A q \in registry' : q \in inFlight'[owner'[q]] \/ \E u \in Threads : Moving(u, q)'
    <3>1. Moving(t, r)'
      BY <2>1 DEF Moving
    <3>2. ASSUME NEW q \in registry
          PROVE  q \in inFlight'[owner'[q]] \/ \E u \in Threads : Moving(u, q)'
      <4>1. q \in Requests /\ owner[q] # None
        BY DEF TypeOK, Claims
      <4>2. q \in inFlight[owner[q]] \/ \E u \in Threads : Moving(u, q)
        BY InFlightForm
      <4> QED
        BY <2>1, <2>2, <4>1, <4>2
    <3> QED
      BY <2>1, <3>1, <3>2
  <2> QED
    BY <2>3, <2>4 DEF InFlightAgrees, Answering, Moving
<1>3. ASSUME NEW t \in Threads, StartInsert(t) PROVE InFlightAgrees'
  BY <1>3 DEF StartInsert, InFlightAgrees, ThreadLocals, Starting, TypeOK,
              Pcs, StartPcs, CompletePcs, CancelPcs, Completing, HasTaken
<1>4. ASSUME NEW t \in Threads, StartInvoke(t) PROVE InFlightAgrees'
  BY <1>4, InFlightFrame DEF StartInvoke, TypeOK, Answering, Moving
<1>5. ASSUME NEW t \in Threads, NEW keep \in BOOLEAN, StartReturn(t, keep) PROVE InFlightAgrees'
  <2>1. accT[t] \in Accessors
    BY <1>5 DEF StartReturn, ThreadLocals, StartPcs
  <2> QED
    BY <1>5, <2>1, LettingGo, LettingGoInFlight
<1>6. ASSUME NEW t \in Threads, NEW r \in Requests, CompleteTake(t, r) PROVE InFlightAgrees'
  <2>1. /\ inFlight' = inFlight /\ owner' = owner /\ registry' = registry \ {r}
        /\ req' = req /\ todo' = todo
        /\ pc'[t] = "completing" /\ pending'[t] = r /\ pc[t] = "idle"
        /\ \A u \in Threads : u # t => pc'[u] = pc[u] /\ pending'[u] = pending[u]
    BY <1>6 DEF CompleteTake, TypeOK
  <2>2. \A u \in Threads, q \in Requests :
           (Answering(u, q) => Answering(u, q)') /\ (Moving(u, q) => Moving(u, q)')
    BY <2>1 DEF Answering, Moving
  <2>3. Answering(t, r)'
    BY <2>1 DEF Answering
  <2>4. \A b \in Accessors : \A q \in inFlight'[b] :
           owner'[q] = b /\ (q \in registry' \/ \E u \in Threads : Answering(u, q)')
    <3> SUFFICES ASSUME NEW b \in Accessors, NEW q \in inFlight[b]
                 PROVE  owner[q] = b /\ (q \in registry' \/ \E u \in Threads : Answering(u, q)')
      BY <2>1
    <3>1. q \in Requests /\ owner[q] = b /\ (q \in registry \/ \E u \in Threads : Answering(u, q))
      BY InFlightForm DEF TypeOK
    <3> QED
      BY <2>1, <2>2, <2>3, <3>1
  <2>5. \A q \in registry' : q \in inFlight'[owner'[q]] \/ \E u \in Threads : Moving(u, q)'
    <3> SUFFICES ASSUME NEW q \in registry
                 PROVE  q \in inFlight[owner[q]] \/ \E u \in Threads : Moving(u, q)'
      BY <2>1
    <3>1. q \in Requests /\ (q \in inFlight[owner[q]] \/ \E u \in Threads : Moving(u, q))
      BY InFlightForm DEF TypeOK
    <3> QED
      BY <2>2, <3>1
  <2> QED
    BY <2>4, <2>5 DEF InFlightAgrees, Answering, Moving
<1>7. ASSUME NEW t \in Threads, CompleteForget(t) PROVE InFlightAgrees'
  <2> DEFINE r == pending[t]
             a == owner[r]
  <2>1. /\ pc[t] = "completing" /\ r \in Requests /\ a \in Accessors /\ r \notin registry
    BY <1>7 DEF CompleteForget, ThreadLocals, Completing, CompletePcs, Claims, HasTaken, TypeOK
  <2>2. /\ UNCHANGED <<owner, registry, req, pending, todo>>
        /\ \A u \in Threads : u # t => pc'[u] = pc[u]
        /\ pc'[t] \notin {"completing", "registered", "retiring"}
    BY <1>7 DEF CompleteForget, TypeOK
  <2>3. \A u \in Threads, q \in Requests :
           (Answering(u, q) => Answering(u, q)' \/ q = r) /\ (Moving(u, q) => Moving(u, q)')
    BY <2>1, <2>2 DEF Answering, Moving
  <2> HIDE DEF r, a
  <2>4. CASE ~Alive(a) /\ inFlight' = inFlight
    <3>1. \A b \in Accessors : r \notin inFlight[b]
      BY <2>1, <2>4 DEF Life, InFlightAgrees, a
    <3> QED
      BY <2>2, <2>3, <2>4, <3>1, InFlightFrame
  <2>5. CASE inFlight' = [inFlight EXCEPT ![a] = @ \ {r}]
    <3>0. \A b \in Accessors : \A q \in inFlight'[b] : q \in inFlight[b] /\ q # r
      BY <2>1, <2>5 DEF TypeOK, InFlightAgrees, a
    <3>1. \A b \in Accessors : \A q \in inFlight'[b] :
             owner'[q] = b /\ (q \in registry' \/ \E u \in Threads : Answering(u, q)')
      <4> SUFFICES ASSUME NEW b \in Accessors, NEW q \in inFlight[b], q # r
                   PROVE  owner[q] = b /\ (q \in registry \/ \E u \in Threads : Answering(u, q)')
        BY <2>2, <3>0
      <4>1. /\ q \in Requests
            /\ owner[q] = b /\ (q \in registry \/ \E u \in Threads : Answering(u, q))
        BY InFlightForm DEF TypeOK
      <4> QED
        BY <2>3, <4>1
    <3>2. \A q \in registry' : q \in inFlight'[owner'[q]] \/ \E u \in Threads : Moving(u, q)'
      <4> SUFFICES ASSUME NEW q \in registry
                   PROVE  q \in inFlight'[owner[q]] \/ \E u \in Threads : Moving(u, q)'
        BY <2>2
      <4>1. /\ q \in Requests /\ owner[q] \in Accessors /\ q # r
            /\ (q \in inFlight[owner[q]] \/ \E u \in Threads : Moving(u, q))
        BY <2>1, InFlightForm DEF TypeOK, Claims
      <4>2. q \in inFlight[owner[q]] => q \in inFlight'[owner[q]]
        BY <2>5, <4>1 DEF TypeOK
      <4> QED
        BY <2>3, <4>1, <4>2
    <3> QED
      BY <3>1, <3>2 DEF InFlightAgrees, Answering, Moving
  <2> QED
    BY <1>7, <2>4, <2>5 DEF CompleteForget, r, a
<1>8. ASSUME NEW t \in Threads, CompleteRelease(t) PROVE InFlightAgrees'
  <2>1. accT[t] \in Accessors
    BY <1>8 DEF CompleteRelease, ThreadLocals
  <2> QED
    BY <1>8, <2>1, LettingGo, LettingGoInFlight
<1>9. ASSUME NEW t \in Threads, CompleteRespond(t) PROVE InFlightAgrees'
  BY <1>9, InFlightFrame DEF CompleteRespond, TypeOK, Answering, Moving
<1>10. ASSUME NEW t \in Threads, CompletePost(t) PROVE InFlightAgrees'
  BY <1>10, InFlightFrame DEF CompletePost, TypeOK, Answering, Moving
<1>11. ASSUME NEW t \in Threads, NEW a \in Accessors, CancelAll(t, a) PROVE InFlightAgrees'
  BY <1>11, LettingGo, LettingGoInFlight
<1>12. ASSUME NEW t \in Threads, NEW r \in Requests, CancelTake(t, r) PROVE InFlightAgrees'
  BY <1>12 DEF CancelTake, InFlightAgrees, ThreadLocals, SwappedOut, TypeOK,
               Pcs, StartPcs, CompletePcs, CancelPcs, Completing, HasTaken
<1>13. ASSUME NEW t \in Threads, CancelTaken(t) PROVE InFlightAgrees'
  <2>1. /\ UNCHANGED <<inFlight, registry, owner, pending, req>>
        /\ \A u \in Threads : u # t => pc'[u] = pc[u] /\ todo'[u] = todo[u]
        /\ pc[t] = "retiring" /\ todo[t] = {}
    BY <1>13 DEF CancelTaken, TypeOK
  <2> QED
    BY <2>1, InFlightFrame DEF Answering, Moving
<1>14. ASSUME NEW t \in Threads, NEW r \in Requests, CancelNotify(t, r) PROVE InFlightAgrees'
  BY <1>14, InFlightFrame DEF CancelNotify, TypeOK, Answering, Moving
<1>15. ASSUME NEW t \in Threads, CancelNotified(t) PROVE InFlightAgrees'
  BY <1>15, InFlightFrame DEF CancelNotified, TypeOK, Answering, Moving
<1>16. ASSUME NEW t \in Threads, NEW r \in Requests, CancelFail(t, r) PROVE InFlightAgrees'
  BY <1>16, InFlightFrame DEF CancelFail, TypeOK, Answering, Moving
<1>17. ASSUME NEW t \in Threads, CancelPost(t) PROVE InFlightAgrees'
  BY <1>17, InFlightFrame DEF CancelPost, TypeOK, Answering, Moving
<1>18. ASSUME NEW t \in Threads, CancelReturn(t) PROVE InFlightAgrees'
  BY <1>18, InFlightFrame DEF CancelReturn, TypeOK, Answering, Moving
<1>19. ASSUME NEW t \in Threads, NEW a \in Accessors, DropHandle(t, a) PROVE InFlightAgrees'
  BY <1>19, LettingGo, LettingGoInFlight
<1>20. ASSUME DispatchBegin PROVE InFlightAgrees'
  <2>1. /\ UNCHANGED <<inFlight, registry, owner, pending, req, todo>>
        /\ \A u \in Threads : u # Main => pc'[u] = pc[u]
        /\ pc[Main] = "idle"
    BY <1>20 DEF DispatchBegin, TypeOK
  <2> QED
    BY <2>1, InFlightFrame DEF Answering, Moving
<1>21. ASSUME BeginReturn PROVE InFlightAgrees'
  <2>1. accT[Main] \in Accessors
    BY <1>21 DEF BeginReturn, ThreadLocals
  <2> QED
    BY <1>21, <2>1, LettingGo, LettingGoInFlight
<1>22. ASSUME DispatchResolve PROVE InFlightAgrees'
  BY <1>22, InFlightFrame DEF DispatchResolve, Answering, Moving
<1>23. ASSUME NEW t \in Threads, NEW r \in Requests, ContinuationDone(t, r) PROVE InFlightAgrees'
  <2>1. owner[r] \in Accessors
    BY <1>23 DEF ContinuationDone, Owned
  <2> QED
    BY <1>23, <2>1, LettingGo, LettingGoInFlight
<1>24. CASE UNCHANGED vars
  BY <1>24 DEF vars, InFlightAgrees
<1> QED
  BY <1>1, <1>2, <1>3, <1>4, <1>5, <1>6, <1>7, <1>8, <1>9, <1>10, <1>11, <1>12, <1>13, <1>14,
     <1>15, <1>16, <1>17, <1>18, <1>19, <1>20, <1>21, <1>22, <1>23, <1>24, Zenon
  DEF Next, Call, Finish, Dispatch

-----------------------------------------------------------------------------
(* A request whose start() is not over.                                     *)

\* What is left after a pop was in the queue.
LEMMA BeginsOfTail ==
  ASSUME NEW q \in Seq(Tasks), q # <<>>
  PROVE  /\ Head(q) \in Tasks
         /\ \A i \in 1..Len(Tail(q)) : \E j \in 1..Len(q) : Tail(q)[i] = q[j]
         /\ \E j \in 1..Len(q) : Head(q) = q[j]
OBVIOUS

\* What is in the queue after a post was in it, or was posted.
LEMMA BeginsOfAppend ==
  ASSUME NEW q \in Seq(Tasks), NEW e \in Tasks
  PROVE  \A i \in 1..Len(Append(q, e)) :
            Append(q, e)[i] = e \/ \E j \in 1..Len(q) : Append(q, e)[i] = q[j]
OBVIOUS

\* A step that adds no request to a set, a swap or the queue disturbs no start.
LEMMA StartingFrame ==
  ASSUME TypeOK, Starting, UNCHANGED <<begun, cancelled, req>>,
         \A r \in Requests : owner[r] # None => owner'[r] # None,
         \A t \in Threads : pc'[t] \in StartPcs => pc'[t] = pc[t],
         \A t \in Threads : pc[t] = "registered" =>
            /\ req[t] \in registry => req[t] \in registry'
            /\ \A a \in Accessors : req[t] \in inFlight'[a] => req[t] \in inFlight[a]
            /\ \A u \in Threads : req[t] \in ids'[u] => req[t] \in ids[u],
         \A i \in 1..Len(mainQ') : mainQ'[i].kind = "begin" =>
            \E j \in 1..Len(mainQ) : mainQ[j] = mainQ'[i]
  PROVE  Starting'
<1>1. \A r \in (begun \cup cancelled)' : owner'[r] # None
  BY DEF Starting, TypeOK
<1>2. \A t, u \in Threads :
         pc'[t] \in StartPcs /\ pc'[u] \in StartPcs /\ req'[t] = req'[u] => t = u
  BY DEF Starting
<1>3. ASSUME NEW t \in Threads, pc'[t] = "registered"
      PROVE  /\ req'[t] \in registry'
             /\ req'[t] \notin (begun \cup cancelled)'
             /\ \A a \in Accessors : req'[t] \notin inFlight'[a]
             /\ \A u \in Threads : req'[t] \notin ids'[u]
             /\ \A i \in 1..Len(mainQ') : mainQ'[i].kind = "begin" => mainQ'[i].id # req'[t]
  <2>1. pc[t] = "registered"
    BY <1>3 DEF StartPcs
  <2> QED
    BY <2>1 DEF Starting
<1> QED
  BY <1>1, <1>2, <1>3 DEF Starting

\* Every step keeps that a request being started is in nobody else's hands.
LEMMA StartingStep ==
  ASSUME LInv, [Next]_vars
  PROVE  Starting'
<1>a. /\ TypeOK /\ ThreadLocals /\ Owned /\ Claims
      /\ Starting /\ SwappedOut /\ InFlightAgrees
  BY DEF LInv, IInv
<1> USE MainAssumption, NoneAssumption, <1>a
<1> USE DEF Goto, refVars, tableVars, futureVars, hostVars, threadVars, cancelVars
<1>1. ASSUME NEW t \in Threads, NEW a \in Accessors, NEW r \in Requests,
             StartWithoutTransport(t, a, r)
      PROVE  Starting'
  BY <1>1, StartingFrame DEF StartWithoutTransport, TypeOK
<1>2. ASSUME NEW t \in Threads, NEW a \in Accessors, NEW r \in Requests, StartRegister(t, a, r)
      PROVE  Starting'
  <2>1. /\ UNCHANGED <<begun, cancelled, inFlight, ids, mainQ>> /\ registry' = registry \cup {r}
        /\ pc'[t] = "registered" /\ req'[t] = r
        /\ \A u \in Threads : u # t => pc'[u] = pc[u] /\ req'[u] = req[u]
        /\ owner'[r] # None
        /\ \A q \in Requests : q # r => owner'[q] = owner[q]
        /\ owner[r] = None
    BY <1>2 DEF StartRegister, TypeOK
  <2>2. \A u \in Threads : pc[u] \in StartPcs => req[u] # r
    BY <2>1 DEF ThreadLocals, StartPcs
  <2>3. r \notin begun \cup cancelled
    BY <2>1 DEF Starting
  <2>4. \A b \in Accessors : r \notin inFlight[b]
    BY <2>1 DEF InFlightAgrees
  <2>5. \A u \in Threads : r \notin ids[u]
    BY <2>1 DEF SwappedOut, ThreadLocals, CancelPcs
  <2>6. \A i \in 1..Len(mainQ) : mainQ[i].id # r
    BY <2>1 DEF Owned
  <2>7. \A q \in (begun \cup cancelled)' : owner'[q] # None
    BY <2>1 DEF Starting, TypeOK
  <2>8. \A u, v \in Threads :
           pc'[u] \in StartPcs /\ pc'[v] \in StartPcs /\ req'[u] = req'[v] => u = v
    BY <2>1, <2>2 DEF Starting
  <2>9. ASSUME NEW u \in Threads, pc'[u] = "registered"
        PROVE  /\ req'[u] \in registry'
               /\ req'[u] \notin (begun \cup cancelled)'
               /\ \A b \in Accessors : req'[u] \notin inFlight'[b]
               /\ \A v \in Threads : req'[u] \notin ids'[v]
               /\ \A i \in 1..Len(mainQ') : mainQ'[i].kind = "begin" => mainQ'[i].id # req'[u]
    <3>1. CASE u = t
      BY <2>1, <2>3, <2>4, <2>5, <2>6, <3>1
    <3>2. CASE u # t
      BY <2>1, <2>9, <3>2 DEF Starting
    <3> QED
      BY <3>1, <3>2
  <2> QED
    BY <2>7, <2>8, <2>9 DEF Starting
<1>3. ASSUME NEW t \in Threads, StartInsert(t) PROVE Starting'
  BY <1>3 DEF StartInsert, Starting, ThreadLocals, TypeOK, StartPcs
<1>4. ASSUME NEW t \in Threads, StartInvoke(t) PROVE Starting'
  <2>1. /\ UNCHANGED <<owner, cancelled, inFlight, registry, ids, req>>
        /\ begun' \subseteq begun \cup {req[t]}
        /\ pc[t] = "inserted" /\ pc'[t] = "invoked"
        /\ \A u \in Threads : u # t => pc'[u] = pc[u]
    BY <1>4 DEF StartInvoke, TypeOK
  <2>2. req[t] \in Requests /\ owner[req[t]] \in Accessors
    BY <2>1 DEF ThreadLocals, StartPcs, CancelPcs
  <2>3. \A u \in Threads : pc[u] = "registered" => req[u] # req[t]
    BY <2>1 DEF Starting, StartPcs
  <2>4. \A i \in 1..Len(mainQ') :
           mainQ'[i].id = req[t] \/ \E j \in 1..Len(mainQ) : mainQ'[i] = mainQ[j]
    <3>1. CASE mainQ' = Append(mainQ, BeginTask(req[t]))
      BY <2>2, <3>1, TaskTypes, BeginsOfAppend DEF TypeOK, BeginTask
    <3> QED
      BY <1>4, <3>1 DEF StartInvoke
  <2>5. \A q \in (begun \cup cancelled)' : owner'[q] # None
    BY <2>1, <2>2 DEF Starting
  <2>6. \A u, v \in Threads :
           pc'[u] \in StartPcs /\ pc'[v] \in StartPcs /\ req'[u] = req'[v] => u = v
    BY <2>1 DEF Starting, StartPcs
  <2>7. ASSUME NEW u \in Threads, pc'[u] = "registered"
        PROVE  /\ req'[u] \in registry'
               /\ req'[u] \notin (begun \cup cancelled)'
               /\ \A b \in Accessors : req'[u] \notin inFlight'[b]
               /\ \A v \in Threads : req'[u] \notin ids'[v]
               /\ \A i \in 1..Len(mainQ') : mainQ'[i].kind = "begin" => mainQ'[i].id # req'[u]
    <3>1. u # t /\ pc[u] = "registered" /\ req[u] # req[t]
      BY <2>1, <2>3, <2>7
    <3> QED
      BY <2>1, <2>4, <3>1 DEF Starting
  <2> QED
    BY <2>5, <2>6, <2>7 DEF Starting
<1>5. ASSUME NEW t \in Threads, NEW keep \in BOOLEAN, StartReturn(t, keep) PROVE Starting'
  <2>1. accT[t] \in Accessors
    BY <1>5 DEF StartReturn, ThreadLocals, StartPcs
  <2> QED
    BY <1>5, <2>1, LettingGo, LettingGoStarting
<1>6. ASSUME NEW t \in Threads, NEW r \in Requests, CompleteTake(t, r) PROVE Starting'
  <2>1. /\ UNCHANGED <<begun, cancelled, req, owner, inFlight, ids, mainQ>>
        /\ registry' = registry \ {r} /\ r \in begun
        /\ \A u \in Threads : u # t => pc'[u] = pc[u]
        /\ pc'[t] = "completing"
    BY <1>6 DEF CompleteTake, TypeOK
  <2>2. \A u \in Threads : pc[u] = "registered" => req[u] # r
    BY <2>1 DEF Starting
  <2> QED
    BY <2>1, <2>2, StartingFrame DEF StartPcs
<1>7. ASSUME NEW t \in Threads, CompleteForget(t) PROVE Starting'
  <2>1. /\ UNCHANGED <<begun, cancelled, req, owner, registry, ids, mainQ>>
        /\ \A u \in Threads : u # t => pc'[u] = pc[u]
        /\ pc'[t] \in {"forgotten", "responding"}
    BY <1>7 DEF CompleteForget, TypeOK
  <2>2. \A a \in Accessors : inFlight'[a] \subseteq inFlight[a]
    <3>1. CASE inFlight' = [inFlight EXCEPT ![owner[pending[t]]] = @ \ {pending[t]}]
      BY <3>1 DEF TypeOK
    <3> QED
      BY <1>7, <3>1 DEF CompleteForget
  <2> QED
    BY <2>1, <2>2, StartingFrame DEF StartPcs
<1>8. ASSUME NEW t \in Threads, CompleteRelease(t) PROVE Starting'
  <2>1. accT[t] \in Accessors
    BY <1>8 DEF CompleteRelease, ThreadLocals
  <2> QED
    BY <1>8, <2>1, LettingGo, LettingGoStarting
<1>9. ASSUME NEW t \in Threads, CompleteRespond(t) PROVE Starting'
  BY <1>9, StartingFrame DEF CompleteRespond, TypeOK, StartPcs
<1>10. ASSUME NEW t \in Threads, CompletePost(t) PROVE Starting'
  <2>1. /\ UNCHANGED <<begun, cancelled, req, owner, registry, inFlight, ids>>
        /\ \A u \in Threads : u # t => pc'[u] = pc[u]
        /\ pc'[t] = "idle"
        /\ mainQ' = Append(mainQ, ResolveTask(pending[t]))
        /\ pending[t] \in Requests
    BY <1>10 DEF CompletePost, TypeOK, ThreadLocals, Completing, CompletePcs
  <2>2. \A i \in 1..Len(mainQ') : mainQ'[i].kind = "begin" =>
           \E j \in 1..Len(mainQ) : mainQ[j] = mainQ'[i]
    <3>1. ResolveTask(pending[t]) \in Tasks /\ ResolveTask(pending[t]).kind = "resolve"
      BY <2>1, TaskTypes DEF ResolveTask
    <3> QED
      BY <2>1, <3>1, BeginsOfAppend DEF TypeOK
  <2> QED
    BY <2>1, <2>2, StartingFrame DEF StartPcs
<1>11. ASSUME NEW t \in Threads, NEW a \in Accessors, CancelAll(t, a) PROVE Starting'
  BY <1>11, LettingGo, LettingGoStarting
<1>12. ASSUME NEW t \in Threads, NEW r \in Requests, CancelTake(t, r) PROVE Starting'
  <2>1. /\ UNCHANGED <<begun, cancelled, req, owner, inFlight, ids, mainQ, pc>>
        /\ registry' = registry \ {r} /\ r \in todo[t]
    BY <1>12 DEF CancelTake
  <2>2. \A u \in Threads : pc[u] = "registered" => req[u] # r
    BY <2>1 DEF Starting, SwappedOut
  <2> QED
    BY <2>1, <2>2, StartingFrame
<1>13. ASSUME NEW t \in Threads, CancelTaken(t) PROVE Starting'
  BY <1>13, StartingFrame DEF CancelTaken, TypeOK, StartPcs
<1>14. ASSUME NEW t \in Threads, NEW r \in Requests, CancelNotify(t, r) PROVE Starting'
  <2>1. /\ UNCHANGED <<begun, req, owner, registry, inFlight, ids, mainQ, pc>>
        /\ cancelled' = cancelled \cup {r} /\ r \in ids[t]
    BY <1>14 DEF CancelNotify, SwappedOut
  <2>2. r \in Requests /\ owner[r] # None
    BY <2>1 DEF SwappedOut, ThreadLocals, CancelPcs, TypeOK
  <2>3. \A u \in Threads : pc[u] = "registered" => req[u] # r
    BY <2>1 DEF Starting
  <2> QED
    BY <2>1, <2>2, <2>3 DEF Starting
<1>15. ASSUME NEW t \in Threads, CancelNotified(t) PROVE Starting'
  BY <1>15, StartingFrame DEF CancelNotified, TypeOK, StartPcs
<1>16. ASSUME NEW t \in Threads, NEW r \in Requests, CancelFail(t, r) PROVE Starting'
  <2>1. /\ UNCHANGED <<begun, cancelled, owner, registry, inFlight, ids, mainQ>>
        /\ \A u \in Threads : u # t => pc'[u] = pc[u] /\ req'[u] = req[u]
        /\ pc'[t] = "failPosting"
    BY <1>16 DEF CancelFail, TypeOK
  <2> QED
    BY <2>1 DEF Starting, StartPcs
<1>17. ASSUME NEW t \in Threads, CancelPost(t) PROVE Starting'
  <2>1. /\ UNCHANGED <<begun, cancelled, owner, registry, inFlight, ids>>
        /\ \A u \in Threads : u # t => pc'[u] = pc[u] /\ req'[u] = req[u]
        /\ pc'[t] = "failing"
        /\ mainQ' = Append(mainQ, ResolveTask(req[t]))
        /\ req[t] \in Requests
    BY <1>17 DEF CancelPost, TypeOK, ThreadLocals
  <2>2. \A i \in 1..Len(mainQ') : mainQ'[i].kind = "begin" =>
           \E j \in 1..Len(mainQ) : mainQ[j] = mainQ'[i]
    BY <2>1, TaskTypes, BeginsOfAppend DEF TypeOK, ResolveTask
  <2>3. \A u, v \in Threads :
           pc'[u] \in StartPcs /\ pc'[v] \in StartPcs /\ req'[u] = req'[v] => u = v
    BY <2>1 DEF Starting, StartPcs
  <2>4. ASSUME NEW u \in Threads, pc'[u] = "registered"
        PROVE  /\ req'[u] \in registry'
               /\ req'[u] \notin (begun \cup cancelled)'
               /\ \A b \in Accessors : req'[u] \notin inFlight'[b]
               /\ \A v \in Threads : req'[u] \notin ids'[v]
               /\ \A i \in 1..Len(mainQ') : mainQ'[i].kind = "begin" => mainQ'[i].id # req'[u]
    <3>1. pc[u] = "registered" /\ req'[u] = req[u]
      BY <2>1, <2>4
    <3> QED
      BY <2>1, <2>2, <3>1 DEF Starting
  <2> QED
    BY <2>1, <2>3, <2>4 DEF Starting
<1>18. ASSUME NEW t \in Threads, CancelReturn(t) PROVE Starting'
  BY <1>18, StartingFrame DEF CancelReturn, TypeOK, StartPcs
<1>19. ASSUME NEW t \in Threads, NEW a \in Accessors, DropHandle(t, a) PROVE Starting'
  BY <1>19, LettingGo, LettingGoStarting
<1>20. ASSUME DispatchBegin PROVE Starting'
  <2>1. /\ UNCHANGED <<cancelled, req, owner, registry, inFlight, ids>>
        /\ begun' \subseteq begun \cup {Head(mainQ).id}
        /\ \A u \in Threads : u # Main => pc'[u] = pc[u]
        /\ pc'[Main] \in {"idle", "inBegin"}
        /\ mainQ # <<>> /\ mainQ' = Tail(mainQ) /\ Head(mainQ).kind = "begin"
    BY <1>20 DEF DispatchBegin, TypeOK
  <2>2. \A i \in 1..Len(mainQ') : \E j \in 1..Len(mainQ) : mainQ'[i] = mainQ[j]
    BY <2>1, BeginsOfTail DEF TypeOK
  <2>3. PICK j \in 1..Len(mainQ) : Head(mainQ) = mainQ[j]
    BY <2>1, BeginsOfTail DEF TypeOK
  <2>4. owner[Head(mainQ).id] # None
    BY <2>3 DEF Owned
  <2>5. \A u \in Threads : pc[u] = "registered" => req[u] # Head(mainQ).id
    BY <2>1, <2>3 DEF Starting
  <2>6. \A q \in (begun \cup cancelled)' : owner'[q] # None
    BY <2>1, <2>4 DEF Starting
  <2>7. \A u, v \in Threads :
           pc'[u] \in StartPcs /\ pc'[v] \in StartPcs /\ req'[u] = req'[v] => u = v
    BY <2>1 DEF Starting, StartPcs
  <2>8. ASSUME NEW u \in Threads, pc'[u] = "registered"
        PROVE  /\ req'[u] \in registry'
               /\ req'[u] \notin (begun \cup cancelled)'
               /\ \A b \in Accessors : req'[u] \notin inFlight'[b]
               /\ \A v \in Threads : req'[u] \notin ids'[v]
               /\ \A i \in 1..Len(mainQ') : mainQ'[i].kind = "begin" => mainQ'[i].id # req'[u]
    <3>1. pc[u] = "registered" /\ req[u] # Head(mainQ).id
      BY <2>1, <2>5, <2>8
    <3> QED
      BY <2>1, <2>2, <3>1 DEF Starting
  <2> QED
    BY <2>6, <2>7, <2>8 DEF Starting
<1>21. ASSUME BeginReturn PROVE Starting'
  <2>1. accT[Main] \in Accessors
    BY <1>21 DEF BeginReturn, ThreadLocals
  <2> QED
    BY <1>21, <2>1, LettingGo, LettingGoStarting
<1>22. ASSUME DispatchResolve PROVE Starting'
  <2>1. UNCHANGED <<begun, cancelled, req, owner, registry, inFlight, ids, pc>> /\ mainQ' = Tail(mainQ)
        /\ mainQ # <<>>
    BY <1>22 DEF DispatchResolve
  <2>2. \A i \in 1..Len(mainQ') : \E j \in 1..Len(mainQ) : mainQ'[i] = mainQ[j]
    BY <2>1, BeginsOfTail DEF TypeOK
  <2> QED
    BY <2>1, <2>2, StartingFrame
<1>23. ASSUME NEW t \in Threads, NEW r \in Requests, ContinuationDone(t, r) PROVE Starting'
  <2>1. owner[r] \in Accessors
    BY <1>23 DEF ContinuationDone, Owned
  <2> QED
    BY <1>23, <2>1, LettingGo, LettingGoStarting
<1>24. CASE UNCHANGED vars
  BY <1>24 DEF vars, Starting
<1> QED
  BY <1>1, <1>2, <1>3, <1>4, <1>5, <1>6, <1>7, <1>8, <1>9, <1>10, <1>11, <1>12, <1>13, <1>14,
     <1>15, <1>16, <1>17, <1>18, <1>19, <1>20, <1>21, <1>22, <1>23, <1>24, Zenon
  DEF Next, Call, Finish, Dispatch

-----------------------------------------------------------------------------
(* What the cancellations swapped out.                                      *)

\* A step that only takes requests away, and leaves the cancellations where they are, keeps what
\* they swapped out.
LEMMA SwappedOutFrame ==
  ASSUME TypeOK, ThreadLocals, InFlightAgrees, SwappedOut, UNCHANGED <<cancelled, ids, todo, taken>>,
         \A a \in Accessors : inFlight'[a] \subseteq inFlight[a],
         \A r \in Requests : owner[r] # None => owner'[r] = owner[r],
         \A t \in Threads : pc[t] \in CancelPcs => pc'[t] = pc[t] /\ accT'[t] = accT[t]
  PROVE  SwappedOut'
<1>1. \A t \in Threads : \A r \in ids[t] \cup taken[t] :
         r \in Requests /\ pc[t] \in CancelPcs /\ owner[r] = accT[t] /\ accT[t] # None
  BY NoneAssumption DEF SwappedOut, ThreadLocals, CancelPcs, TypeOK
<1>2. \A a \in Accessors : \A r \in inFlight'[a] :
          r \notin cancelled' /\ \A t \in Threads : r \notin ids'[t]
  BY DEF SwappedOut
<1>3. \A t \in Threads : \A r \in ids'[t] :
          /\ pc'[t] \in {"retiring", "notifying"}
          /\ owner'[r] = accT'[t]
          /\ r \in cancelled' => pc'[t] = "notifying" /\ r \notin todo'[t]
          /\ \A u \in Threads : r \in ids'[u] => t = u
  BY <1>1 DEF SwappedOut
<1>4. \A t \in Threads : todo'[t] \subseteq ids'[t]
  BY DEF SwappedOut
<1>5. \A t \in Threads : \A r \in taken'[t] : owner'[r] = accT'[t]
  BY <1>1 DEF SwappedOut
<1> QED
  BY <1>2, <1>3, <1>4, <1>5 DEF SwappedOut

\* Every step keeps that a swapped-out request is of the accessor being cancelled, and in one swap
\* only.
LEMMA SwappedOutStep ==
  ASSUME LInv, [Next]_vars
  PROVE  SwappedOut'
<1>a. /\ TypeOK /\ ThreadLocals /\ Owned /\ Claims
      /\ Starting /\ SwappedOut /\ InFlightAgrees
  BY DEF LInv, IInv
<1> USE MainAssumption, NoneAssumption, <1>a
<1> USE DEF Goto, refVars, tableVars, futureVars, hostVars, threadVars, cancelVars
<1>1. ASSUME NEW t \in Threads, NEW a \in Accessors, NEW r \in Requests,
             StartWithoutTransport(t, a, r)
      PROVE  SwappedOut'
  BY <1>1, SwappedOutFrame DEF StartWithoutTransport, TypeOK
<1>2. ASSUME NEW t \in Threads, NEW a \in Accessors, NEW r \in Requests, StartRegister(t, a, r)
      PROVE  SwappedOut'
  BY <1>2, SwappedOutFrame DEF StartRegister, TypeOK, CancelPcs
<1>3. ASSUME NEW t \in Threads, StartInsert(t) PROVE SwappedOut'
  <2>1. /\ UNCHANGED <<cancelled, ids, todo, taken, owner, accT>>
        /\ pc[t] = "registered" /\ pc'[t] = "inserted"
        /\ \A u \in Threads : u # t => pc'[u] = pc[u]
        /\ \A b \in Accessors : inFlight'[b] \subseteq inFlight[b] \cup {req[t]}
    BY <1>3 DEF StartInsert, TypeOK
  <2>2. req[t] \notin cancelled /\ \A u \in Threads : req[t] \notin ids[u]
    BY <2>1 DEF Starting
  <2>3. \A b \in Accessors : \A r \in inFlight'[b] :
            r \notin cancelled' /\ \A u \in Threads : r \notin ids'[u]
    BY <2>1, <2>2 DEF SwappedOut
  <2>4. \A u \in Threads : \A r \in ids'[u] :
            /\ pc'[u] \in {"retiring", "notifying"}
            /\ owner'[r] = accT'[u]
            /\ r \in cancelled' => pc'[u] = "notifying" /\ r \notin todo'[u]
            /\ \A v \in Threads : r \in ids'[v] => u = v
    BY <2>1 DEF SwappedOut
  <2> QED
    BY <2>1, <2>3, <2>4 DEF SwappedOut
<1>4. ASSUME NEW t \in Threads, StartInvoke(t) PROVE SwappedOut'
  BY <1>4, SwappedOutFrame DEF StartInvoke, TypeOK, CancelPcs
<1>5. ASSUME NEW t \in Threads, NEW keep \in BOOLEAN, StartReturn(t, keep) PROVE SwappedOut'
  <2>1. accT[t] \in Accessors
    BY <1>5 DEF StartReturn, ThreadLocals, StartPcs
  <2> QED
    BY <1>5, <2>1, LettingGo, LettingGoSwappedOut
<1>6. ASSUME NEW t \in Threads, NEW r \in Requests, CompleteTake(t, r) PROVE SwappedOut'
  BY <1>6, SwappedOutFrame DEF CompleteTake, TypeOK, CancelPcs
<1>7. ASSUME NEW t \in Threads, CompleteForget(t) PROVE SwappedOut'
  <2>1. /\ UNCHANGED <<cancelled, ids, todo, taken, owner>> /\ pc[t] = "completing"
        /\ \A u \in Threads : u # t => pc'[u] = pc[u] /\ accT'[u] = accT[u]
    BY <1>7 DEF CompleteForget, TypeOK
  <2>2. \A a \in Accessors : inFlight'[a] \subseteq inFlight[a]
    <3>1. CASE inFlight' = [inFlight EXCEPT ![owner[pending[t]]] = @ \ {pending[t]}]
      BY <3>1 DEF TypeOK
    <3> QED
      BY <1>7, <3>1 DEF CompleteForget
  <2> QED
    BY <2>1, <2>2, SwappedOutFrame DEF CancelPcs
<1>8. ASSUME NEW t \in Threads, CompleteRelease(t) PROVE SwappedOut'
  <2>1. accT[t] \in Accessors
    BY <1>8 DEF CompleteRelease, ThreadLocals
  <2> QED
    BY <1>8, <2>1, LettingGo, LettingGoSwappedOut
<1>9. ASSUME NEW t \in Threads, CompleteRespond(t) PROVE SwappedOut'
  BY <1>9, SwappedOutFrame DEF CompleteRespond, TypeOK, CancelPcs
<1>10. ASSUME NEW t \in Threads, CompletePost(t) PROVE SwappedOut'
  BY <1>10, SwappedOutFrame DEF CompletePost, TypeOK, CancelPcs
<1>11. ASSUME NEW t \in Threads, NEW a \in Accessors, CancelAll(t, a) PROVE SwappedOut'
  BY <1>11, LettingGo, LettingGoSwappedOut
<1>12. ASSUME NEW t \in Threads, NEW r \in Requests, CancelTake(t, r) PROVE SwappedOut'
  <2>1. /\ UNCHANGED <<cancelled, ids, owner, inFlight, pc, accT>>
        /\ pc[t] = "retiring" /\ r \in todo[t]
        /\ todo' = [todo EXCEPT ![t] = @ \ {r}]
        /\ \A u \in Threads : taken'[u] \subseteq taken[u] \cup (IF u = t THEN {r} ELSE {})
    BY <1>12 DEF CancelTake, TypeOK
  <2>2. r \in ids[t] /\ owner[r] = accT[t]
    BY <2>1 DEF SwappedOut
  <2>3. \A u \in Threads : todo'[u] \subseteq todo[u]
    BY <2>1 DEF TypeOK
  <2>4. \A u \in Threads : \A q \in taken'[u] : owner'[q] = accT'[u]
    BY <2>1, <2>2 DEF SwappedOut
  <2> QED
    BY <2>1, <2>3, <2>4 DEF SwappedOut
<1>13. ASSUME NEW t \in Threads, CancelTaken(t) PROVE SwappedOut'
  <2>1. /\ UNCHANGED <<cancelled, ids, owner, inFlight, accT, taken>>
        /\ \A u \in Threads : u # t => pc'[u] = pc[u] /\ todo'[u] = todo[u]
        /\ pc[t] = "retiring" /\ pc'[t] = "notifying"
        /\ todo'[t] \subseteq ids[t]
    BY <1>13 DEF CancelTaken, TypeOK
  <2>2. \A r \in ids[t] : r \notin cancelled
    BY <2>1 DEF SwappedOut
  <2>3. \A u \in Threads : \A r \in ids'[u] :
            /\ pc'[u] \in {"retiring", "notifying"}
            /\ owner'[r] = accT'[u]
            /\ r \in cancelled' => pc'[u] = "notifying" /\ r \notin todo'[u]
            /\ \A v \in Threads : r \in ids'[v] => u = v
    BY <2>1, <2>2 DEF SwappedOut
  <2>4. \A u \in Threads : todo'[u] \subseteq ids'[u]
    BY <2>1 DEF SwappedOut
  <2> QED
    BY <2>1, <2>3, <2>4 DEF SwappedOut
<1>14. ASSUME NEW t \in Threads, NEW r \in Requests, CancelNotify(t, r) PROVE SwappedOut'
  <2>1. /\ UNCHANGED <<ids, owner, inFlight, pc, accT, taken>>
        /\ pc[t] = "notifying" /\ r \in todo[t]
        /\ todo' = [todo EXCEPT ![t] = @ \ {r}]
        /\ cancelled' = cancelled \cup {r}
    BY <1>14 DEF CancelNotify
  <2>2. r \in ids[t] /\ \A u \in Threads : r \in ids[u] => u = t
    BY <2>1 DEF SwappedOut
  <2>3. \A b \in Accessors : r \notin inFlight[b]
    BY <2>2 DEF SwappedOut
  <2>4. \A u \in Threads : todo'[u] \subseteq todo[u] /\ (u = t => r \notin todo'[u])
    BY <2>1 DEF TypeOK
  <2>5. \A u \in Threads : \A q \in ids'[u] :
            /\ pc'[u] \in {"retiring", "notifying"}
            /\ owner'[q] = accT'[u]
            /\ q \in cancelled' => pc'[u] = "notifying" /\ q \notin todo'[u]
            /\ \A v \in Threads : q \in ids'[v] => u = v
    BY <2>1, <2>2, <2>4 DEF SwappedOut
  <2> QED
    BY <2>1, <2>3, <2>4, <2>5 DEF SwappedOut
<1>15. ASSUME NEW t \in Threads, CancelNotified(t) PROVE SwappedOut'
  <2>1. /\ UNCHANGED <<cancelled, owner, inFlight, accT, taken, todo>>
        /\ \A u \in Threads : u # t => pc'[u] = pc[u] /\ ids'[u] = ids[u]
        /\ ids'[t] = {} /\ todo[t] = {}
    BY <1>15 DEF CancelNotified, TypeOK
  <2> QED
    BY <2>1 DEF SwappedOut
<1>16. ASSUME NEW t \in Threads, NEW r \in Requests, CancelFail(t, r) PROVE SwappedOut'
  <2>1. /\ UNCHANGED <<cancelled, owner, inFlight, accT, taken, todo, ids>>
        /\ \A u \in Threads : u # t => pc'[u] = pc[u]
        /\ pc[t] = "failing"
    BY <1>16 DEF CancelFail, TypeOK
  <2> QED
    BY <2>1 DEF SwappedOut
<1>17. ASSUME NEW t \in Threads, CancelPost(t) PROVE SwappedOut'
  <2>1. /\ UNCHANGED <<cancelled, owner, inFlight, accT, todo, ids>>
        /\ \A u \in Threads : (u # t => pc'[u] = pc[u]) /\ taken'[u] \subseteq taken[u]
        /\ pc[t] = "failPosting"
    BY <1>17 DEF CancelPost, TypeOK
  <2> QED
    BY <2>1 DEF SwappedOut
<1>18. ASSUME NEW t \in Threads, CancelReturn(t) PROVE SwappedOut'
  <2>1. /\ UNCHANGED <<cancelled, owner, inFlight, taken, todo, ids>>
        /\ \A u \in Threads : u # t => pc'[u] = pc[u] /\ accT'[u] = accT[u]
        /\ pc[t] = "failing" /\ taken[t] = {}
    BY <1>18 DEF CancelReturn, TypeOK
  <2> QED
    BY <2>1 DEF SwappedOut
<1>19. ASSUME NEW t \in Threads, NEW a \in Accessors, DropHandle(t, a) PROVE SwappedOut'
  BY <1>19, LettingGo, LettingGoSwappedOut
<1>20. ASSUME DispatchBegin PROVE SwappedOut'
  BY <1>20, SwappedOutFrame DEF DispatchBegin, TypeOK, CancelPcs
<1>21. ASSUME BeginReturn PROVE SwappedOut'
  <2>1. accT[Main] \in Accessors
    BY <1>21 DEF BeginReturn, ThreadLocals
  <2> QED
    BY <1>21, <2>1, LettingGo, LettingGoSwappedOut
<1>22. ASSUME DispatchResolve PROVE SwappedOut'
  BY <1>22, SwappedOutFrame DEF DispatchResolve
<1>23. ASSUME NEW t \in Threads, NEW r \in Requests, ContinuationDone(t, r) PROVE SwappedOut'
  <2>1. owner[r] \in Accessors
    BY <1>23 DEF ContinuationDone, Owned
  <2> QED
    BY <1>23, <2>1, LettingGo, LettingGoSwappedOut
<1>24. CASE UNCHANGED vars
  BY <1>24 DEF vars, SwappedOut
<1> QED
  BY <1>1, <1>2, <1>3, <1>4, <1>5, <1>6, <1>7, <1>8, <1>9, <1>10, <1>11, <1>12, <1>13, <1>14,
     <1>15, <1>16, <1>17, <1>18, <1>19, <1>20, <1>21, <1>22, <1>23, <1>24, Zenon
  DEF Next, Call, Finish, Dispatch

-----------------------------------------------------------------------------
(* The life of an accessor.                                                 *)

\* An accessor is alive while a handle, a thread or a kept continuation refers to it.
LEMMA AliveForm ==
  \A a \in Accessors :
     Alive(a) <=> \/ a \in handles
                  \/ \E t \in Threads : Holds(t, a)
                  \/ \E r \in kept : owner[r] = a
BY DEF Alive, Referrers, Continuations

\* The same in the next state.
LEMMA AliveFormNext ==
  \A a \in Accessors :
     Alive(a)' <=> \/ a \in handles'
                   \/ \E t \in Threads : Holds(t, a)'
                   \/ \E r \in kept' : owner'[r] = a
BY DEF Alive, Referrers, Continuations, Holds

\* An accessor's life does not change while its referrers do not.
LEMMA AliveKept ==
  ASSUME UNCHANGED <<handles, kept>>, \A r \in kept : owner'[r] = owner[r],
         NEW a \in Accessors,
         \A t \in Threads : Holds(t, a) => Holds(t, a)',
         \A t \in Threads : Holds(t, a)' => Alive(a)
  PROVE  Alive(a)' <=> Alive(a)
BY AliveForm, AliveFormNext

\* A step that drops no reference destroys no accessor.
LEMMA LifeFrame ==
  ASSUME TypeOK, Life, UNCHANGED <<destroyed, handles, kept>>, \A r \in kept : owner'[r] = owner[r],
         \A t \in Threads, a \in Accessors :
            /\ Holds(t, a) => Holds(t, a)'
            /\ Holds(t, a)' => Alive(a)
            /\ Canceller(t, a)' <=> Canceller(t, a),
         \A a \in Accessors : inFlight'[a] \subseteq inFlight[a] \/ Alive(a)
  PROVE  Life'
<1> SUFFICES ASSUME NEW a \in Accessors
             PROVE  /\ Alive(a)' => a \notin destroyed'
                    /\ Alive(a)' /\ a \notin handles' => \A t \in Threads : ~Canceller(t, a)'
                    /\ ~Alive(a)' =>
                         /\ inFlight'[a] = {}
                         /\ \A t, u \in Threads : Canceller(t, a)' /\ Canceller(u, a)' => t = u
                         /\ a \in destroyed' <=> \A t \in Threads : ~Canceller(t, a)'
  BY DEF Life
<1>1. Alive(a)' <=> Alive(a)
  BY AliveKept
<1>2. /\ Alive(a) => a \notin destroyed
      /\ Alive(a) /\ a \notin handles => \A t \in Threads : ~Canceller(t, a)
      /\ ~Alive(a) =>
           /\ inFlight[a] = {}
           /\ \A t, u \in Threads : Canceller(t, a) /\ Canceller(u, a) => t = u
           /\ a \in destroyed <=> \A t \in Threads : ~Canceller(t, a)
  BY DEF Life
<1> QED
  BY <1>1, <1>2

\* Dropping a reference either leaves another, or starts the one destructor.
LEMMA LifeRelease ==
  ASSUME TypeOK, Life, NEW t \in Threads, NEW a \in Accessors,
         NEW next \in {"idle", "responding"}, Release(t, a, next), pc[t] \notin CancelPcs,
         UNCHANGED <<destroyed, owner>>, Alive(a),
         a \notin handles' => \A u \in Threads : ~Canceller(u, a),
         \A b \in Accessors : b # a => ~Holds(t, b) /\ (b \in handles' <=> b \in handles),
         \A r \in Requests : owner[r] # a => (r \in kept' <=> r \in kept),
         kept \subseteq Requests, kept' \subseteq Requests
  PROVE  Life'
<1>1. /\ \A u \in Threads : u # t => pc'[u] = pc[u] /\ accT'[u] = accT[u]
      /\ pc'[t] \in {"idle", "responding", "retiring"}
      /\ pc'[t] = "retiring" => accT'[t] = a
      /\ \A b \in Accessors : b # a => inFlight'[b] = inFlight[b]
  BY DEF Release, SwapOut, Goto, TypeOK
<1>2. \A b \in Accessors : /\ \A u \in Threads : u # t => (Holds(u, b)' <=> Holds(u, b))
                           /\ ~Holds(t, b)'
  BY <1>1 DEF Holds, StartPcs
<1>3. \A b \in Accessors : \A u \in Threads :
         u # t \/ b # a => (Canceller(u, b)' <=> Canceller(u, b))
  BY <1>1 DEF Canceller, CancelPcs
<1>4. ASSUME NEW b \in Accessors, b # a
      PROVE  /\ Alive(b)' => b \notin destroyed'
             /\ Alive(b)' /\ b \notin handles' => \A u \in Threads : ~Canceller(u, b)'
             /\ ~Alive(b)' =>
                   /\ inFlight'[b] = {}
                   /\ \A u, v \in Threads : Canceller(u, b)' /\ Canceller(v, b)' => u = v
                   /\ b \in destroyed' <=> \A u \in Threads : ~Canceller(u, b)'
  <2>1. Alive(b)' <=> Alive(b)
    <3>1. \A u \in Threads : Holds(u, b)' <=> Holds(u, b)
      BY <1>2, <1>4
    <3>2. (\E r \in kept' : owner'[r] = b) <=> (\E r \in kept : owner[r] = b)
      BY <1>4
    <3> QED
      BY <1>4, <3>1, <3>2, AliveForm, AliveFormNext
  <2>2. /\ Alive(b) => b \notin destroyed
        /\ Alive(b) /\ b \notin handles => \A u \in Threads : ~Canceller(u, b)
        /\ ~Alive(b) =>
              /\ inFlight[b] = {}
              /\ \A u, v \in Threads : Canceller(u, b) /\ Canceller(v, b) => u = v
              /\ b \in destroyed <=> \A u \in Threads : ~Canceller(u, b)
    BY DEF Life
  <2> QED
    BY <1>1, <1>3, <1>4, <2>1, <2>2
<1>5. a \notin destroyed
  BY DEF Life
<1>6. CASE Orphaned(t, a)
  <2>1. ~Alive(a)'
    BY <1>2, <1>6, AliveFormNext DEF Orphaned, Referrers
  <2>2. Canceller(t, a)' /\ inFlight'[a] = {}
    BY <1>6 DEF Release, SwapOut, Goto, Canceller, CancelPcs, TypeOK
  <2>3. \A u \in Threads : Canceller(u, a)' => u = t
    BY <1>3, <1>6 DEF Orphaned
  <2> QED
    BY <1>4, <1>5, <2>1, <2>2, <2>3 DEF Life
<1>7. CASE ~Orphaned(t, a)
  <2>1. Alive(a)'
    BY <1>2, <1>7, AliveFormNext DEF Orphaned, Referrers
  <2>2. ~Canceller(t, a)'
    BY <1>7 DEF Release, Goto, Canceller, CancelPcs, TypeOK
  <2>3. a \notin handles' => \A u \in Threads : ~Canceller(u, a)'
    BY <1>3, <2>2
  <2> QED
    BY <1>4, <1>5, <2>1, <2>3 DEF Life
<1> QED
  BY <1>6, <1>7

\* Every step keeps that an accessor is destroyed once, and only when nothing refers to it.
LEMMA LifeStep ==
  ASSUME LInv, [Next]_vars
  PROVE  Life'
<1>a. TypeOK /\ ThreadLocals /\ Owned /\ Claims /\ Life
  BY DEF LInv, IInv
<1>b. /\ \A a \in Accessors, t \in Threads : Holds(t, a) => Alive(a)
      /\ \A a \in Accessors : a \in handles \/ (\E r \in kept : owner[r] = a) => Alive(a)
  BY AliveForm
<1>c. \A r \in kept : r \in Requests /\ owner[r] # None
  BY <1>a, NoneAssumption DEF TypeOK, Owned
<1>d. \A a \in Accessors : Alive(a) /\ a \notin handles => \A u \in Threads : ~Canceller(u, a)
  BY <1>a DEF Life
<1> USE MainAssumption, NoneAssumption, <1>a
<1> USE DEF Goto, refVars, tableVars, futureVars, hostVars, threadVars, cancelVars
<1>1. ASSUME NEW t \in Threads, NEW a \in Accessors, NEW r \in Requests,
             StartWithoutTransport(t, a, r)
      PROVE  Life'
  BY <1>1, <1>b, <1>c, LifeFrame DEF StartWithoutTransport, Holds, Canceller, TypeOK
<1>2. ASSUME NEW t \in Threads, NEW a \in Accessors, NEW r \in Requests, StartRegister(t, a, r)
      PROVE  Life'
  <2>1. /\ UNCHANGED <<destroyed, handles, kept, inFlight>> /\ Alive(a)
        /\ \A q \in kept : owner'[q] = owner[q]
        /\ \A u \in Threads : u # t => pc'[u] = pc[u] /\ accT'[u] = accT[u]
        /\ pc[t] = "idle" /\ pc'[t] = "registered" /\ accT'[t] = a
    BY <1>2, <1>c DEF StartRegister, TypeOK
  <2>2. \A u \in Threads, b \in Accessors :
            /\ Holds(u, b) => Holds(u, b)'
            /\ Holds(u, b)' => Alive(b)
            /\ Canceller(u, b)' <=> Canceller(u, b)
    BY <2>1, <1>b DEF Holds, Canceller, StartPcs, CancelPcs
  <2> QED
    BY <2>1, <2>2, LifeFrame
<1>3. ASSUME NEW t \in Threads, StartInsert(t) PROVE Life'
  <2>1. /\ UNCHANGED <<destroyed, handles, kept, owner, accT>>
        /\ \A u \in Threads : u # t => pc'[u] = pc[u]
        /\ pc[t] = "registered" /\ pc'[t] = "inserted"
        /\ accT[t] \in Accessors
        /\ \A b \in Accessors : b # accT[t] => inFlight'[b] = inFlight[b]
    BY <1>3 DEF StartInsert, TypeOK, ThreadLocals, StartPcs
  <2>2. \A u \in Threads, b \in Accessors :
            /\ Holds(u, b)' <=> Holds(u, b)
            /\ Canceller(u, b)' <=> Canceller(u, b)
    BY <2>1 DEF Holds, Canceller, StartPcs, CancelPcs
  <2>3. Alive(accT[t])
    BY <2>1, <1>b DEF Holds, StartPcs
  <2> QED
    BY <2>1, <2>2, <2>3, <1>b, LifeFrame
<1>4. ASSUME NEW t \in Threads, StartInvoke(t) PROVE Life'
  <2>1. /\ UNCHANGED <<destroyed, handles, kept, owner, accT, inFlight>>
        /\ \A u \in Threads : u # t => pc'[u] = pc[u]
        /\ pc[t] = "inserted" /\ pc'[t] = "invoked"
    BY <1>4 DEF StartInvoke, TypeOK
  <2> QED
    BY <2>1, <1>b, LifeFrame DEF Holds, Canceller, StartPcs, CancelPcs
<1>5. ASSUME NEW t \in Threads, NEW keep \in BOOLEAN, StartReturn(t, keep) PROVE Life'
  <2>1. /\ accT[t] \in Accessors /\ pc[t] = "invoked"
        /\ req[t] \in Requests /\ owner[req[t]] = accT[t]
        /\ Release(t, accT[t], "idle")
        /\ UNCHANGED <<destroyed, owner, handles>>
        /\ kept \subseteq Requests /\ kept \subseteq kept' /\ kept' \subseteq kept \cup {req[t]}
    BY <1>5 DEF StartReturn, ThreadLocals, StartPcs, TypeOK
  <2>2. Holds(t, accT[t]) /\ \A b \in Accessors : b # accT[t] => ~Holds(t, b)
    BY <2>1 DEF Holds, StartPcs
  <2> QED
    BY <2>1, <2>2, <1>b, <1>d, LifeRelease DEF CancelPcs
<1>6. ASSUME NEW t \in Threads, NEW r \in Requests, CompleteTake(t, r) PROVE Life'
  <2>1. /\ UNCHANGED <<destroyed, handles, kept, owner, accT, inFlight>>
        /\ \A u \in Threads : u # t => pc'[u] = pc[u]
        /\ pc[t] = "idle" /\ pc'[t] = "completing"
    BY <1>6 DEF CompleteTake, TypeOK
  <2> QED
    BY <2>1, <1>b, LifeFrame DEF Holds, Canceller, StartPcs, CancelPcs
<1>7. ASSUME NEW t \in Threads, CompleteForget(t) PROVE Life'
  <2> DEFINE a == owner[pending[t]]
  <2>1. /\ UNCHANGED <<destroyed, handles, kept, owner>>
        /\ \A u \in Threads : u # t => pc'[u] = pc[u] /\ accT'[u] = accT[u]
        /\ pc[t] = "completing"
        /\ \/ pc'[t] = "forgotten" /\ accT'[t] = a /\ Alive(a)
           \/ pc'[t] = "responding" /\ accT'[t] = accT[t]
    BY <1>7 DEF CompleteForget, TypeOK
  <2>2. \A b \in Accessors : inFlight'[b] \subseteq inFlight[b]
    <3>1. CASE inFlight' = [inFlight EXCEPT ![a] = @ \ {pending[t]}]
      BY <3>1 DEF TypeOK
    <3> QED
      BY <1>7, <3>1 DEF CompleteForget
  <2> HIDE DEF a
  <2>3. \A u \in Threads, b \in Accessors :
            /\ Holds(u, b) => Holds(u, b)'
            /\ Holds(u, b)' => Alive(b)
            /\ Canceller(u, b)' <=> Canceller(u, b)
    BY <2>1, <1>b DEF Holds, Canceller, StartPcs, CancelPcs
  <2> QED
    BY <2>1, <2>2, <2>3, LifeFrame
<1>8. ASSUME NEW t \in Threads, CompleteRelease(t) PROVE Life'
  <2>1. /\ accT[t] \in Accessors /\ pc[t] = "forgotten"
        /\ Release(t, accT[t], "responding")
        /\ UNCHANGED <<destroyed, owner, handles, kept>>
        /\ kept \subseteq Requests
    BY <1>8 DEF CompleteRelease, ThreadLocals, TypeOK
  <2>2. Holds(t, accT[t]) /\ \A b \in Accessors : b # accT[t] => ~Holds(t, b)
    BY <2>1 DEF Holds
  <2> QED
    BY <2>1, <2>2, <1>b, <1>d, LifeRelease DEF CancelPcs
<1>9. ASSUME NEW t \in Threads, CompleteRespond(t) PROVE Life'
  <2>1. /\ UNCHANGED <<destroyed, handles, kept, owner, accT, inFlight>>
        /\ \A u \in Threads : u # t => pc'[u] = pc[u]
        /\ pc[t] = "responding" /\ pc'[t] = "posting"
    BY <1>9 DEF CompleteRespond, TypeOK
  <2> QED
    BY <2>1, <1>b, LifeFrame DEF Holds, Canceller, StartPcs, CancelPcs
<1>10. ASSUME NEW t \in Threads, CompletePost(t) PROVE Life'
  <2>1. /\ UNCHANGED <<destroyed, handles, kept, owner, accT, inFlight>>
        /\ \A u \in Threads : u # t => pc'[u] = pc[u]
        /\ pc[t] = "posting" /\ pc'[t] = "idle"
    BY <1>10 DEF CompletePost, TypeOK
  <2> QED
    BY <2>1, <1>b, LifeFrame DEF Holds, Canceller, StartPcs, CancelPcs
<1>11. ASSUME NEW t \in Threads, NEW a \in Accessors, CancelAll(t, a) PROVE Life'
  <2>1. /\ UNCHANGED <<destroyed, handles, kept, owner>> /\ a \in handles
        /\ \A u \in Threads : u # t => pc'[u] = pc[u] /\ accT'[u] = accT[u]
        /\ pc[t] = "idle" /\ pc'[t] = "retiring" /\ accT'[t] = a
        /\ \A b \in Accessors : b # a => inFlight'[b] = inFlight[b]
    BY <1>11 DEF CancelAll, SwapOut, TypeOK
  <2>2. \A u \in Threads, b \in Accessors :
            /\ Holds(u, b)' <=> Holds(u, b)
            /\ b # a => (Canceller(u, b)' <=> Canceller(u, b))
    BY <2>1 DEF Holds, Canceller, StartPcs, CancelPcs
  <2>3. \A b \in Accessors : Alive(b)' <=> Alive(b)
    BY <2>1, <2>2, <1>b, AliveKept
  <2>4. Alive(a)
    BY <2>1, <1>b
  <2> QED
    BY <2>1, <2>2, <2>3, <2>4 DEF Life
<1>12. ASSUME NEW t \in Threads, NEW r \in Requests, CancelTake(t, r) PROVE Life'
  BY <1>12, <1>b, LifeFrame DEF CancelTake, Holds, Canceller
<1>13. ASSUME NEW t \in Threads, CancelTaken(t) PROVE Life'
  <2>1. /\ UNCHANGED <<destroyed, handles, kept, owner, accT, inFlight>>
        /\ \A u \in Threads : u # t => pc'[u] = pc[u]
        /\ pc[t] = "retiring" /\ pc'[t] = "notifying"
    BY <1>13 DEF CancelTaken, TypeOK
  <2> QED
    BY <2>1, <1>b, LifeFrame DEF Holds, Canceller, StartPcs, CancelPcs
<1>14. ASSUME NEW t \in Threads, NEW r \in Requests, CancelNotify(t, r) PROVE Life'
  BY <1>14, <1>b, LifeFrame DEF CancelNotify, Holds, Canceller
<1>15. ASSUME NEW t \in Threads, CancelNotified(t) PROVE Life'
  <2>1. /\ UNCHANGED <<destroyed, handles, kept, owner, accT, inFlight>>
        /\ \A u \in Threads : u # t => pc'[u] = pc[u]
        /\ pc[t] = "notifying" /\ pc'[t] = "failing"
    BY <1>15 DEF CancelNotified, TypeOK
  <2> QED
    BY <2>1, <1>b, LifeFrame DEF Holds, Canceller, StartPcs, CancelPcs
<1>16. ASSUME NEW t \in Threads, NEW r \in Requests, CancelFail(t, r) PROVE Life'
  <2>1. /\ UNCHANGED <<destroyed, handles, kept, owner, accT, inFlight>>
        /\ \A u \in Threads : u # t => pc'[u] = pc[u]
        /\ pc[t] = "failing" /\ pc'[t] = "failPosting"
    BY <1>16 DEF CancelFail, TypeOK
  <2> QED
    BY <2>1, <1>b, LifeFrame DEF Holds, Canceller, StartPcs, CancelPcs
<1>17. ASSUME NEW t \in Threads, CancelPost(t) PROVE Life'
  <2>1. /\ UNCHANGED <<destroyed, handles, kept, owner, accT, inFlight>>
        /\ \A u \in Threads : u # t => pc'[u] = pc[u]
        /\ pc[t] = "failPosting" /\ pc'[t] = "failing"
    BY <1>17 DEF CancelPost, TypeOK
  <2> QED
    BY <2>1, <1>b, LifeFrame DEF Holds, Canceller, StartPcs, CancelPcs
<1>18. ASSUME NEW t \in Threads, CancelReturn(t) PROVE Life'
  <2> DEFINE a == accT[t]
  <2>1. /\ UNCHANGED <<handles, kept, owner, inFlight>>
        /\ \A u \in Threads : u # t => pc'[u] = pc[u] /\ accT'[u] = accT[u]
        /\ pc[t] = "failing" /\ pc'[t] \in {"idle", "responding"}
        /\ destroyed' = IF Alive(a) THEN destroyed ELSE destroyed \cup {a}
        /\ a \in Accessors
    BY <1>18 DEF CancelReturn, TypeOK, ThreadLocals, CancelPcs
  <2> HIDE DEF a
  <2>2. Canceller(t, a)
    BY <2>1 DEF Canceller, CancelPcs, a
  <2>3. \A u \in Threads, b \in Accessors :
            /\ Holds(u, b)' <=> Holds(u, b)
            /\ Canceller(u, b)' <=> Canceller(u, b) /\ u # t
            /\ Canceller(t, b) => b = a
    BY <2>1 DEF Holds, Canceller, StartPcs, CancelPcs, a
  <2>4. \A b \in Accessors : Alive(b)' <=> Alive(b)
    BY <2>1, <2>3, <1>b, AliveKept
  <2>5. ASSUME NEW b \in Accessors
        PROVE  /\ Alive(b)' => b \notin destroyed'
               /\ Alive(b)' /\ b \notin handles' => \A u \in Threads : ~Canceller(u, b)'
               /\ ~Alive(b)' =>
                     /\ inFlight'[b] = {}
                     /\ \A u, v \in Threads : Canceller(u, b)' /\ Canceller(v, b)' => u = v
                     /\ b \in destroyed' <=> \A u \in Threads : ~Canceller(u, b)'
    <3>1. /\ Alive(b) => b \notin destroyed
          /\ Alive(b) /\ b \notin handles => \A u \in Threads : ~Canceller(u, b)
          /\ ~Alive(b) =>
                /\ inFlight[b] = {}
                /\ \A u, v \in Threads : Canceller(u, b) /\ Canceller(v, b) => u = v
                /\ b \in destroyed <=> \A u \in Threads : ~Canceller(u, b)
      BY DEF Life
    <3>2. CASE b = a
      BY <2>1, <2>2, <2>3, <2>4, <3>1, <3>2
    <3>3. CASE b # a
      BY <2>1, <2>3, <2>4, <3>1, <3>3
    <3> QED
      BY <3>2, <3>3
  <2> QED
    BY <2>5 DEF Life
<1>19. ASSUME NEW t \in Threads, NEW a \in Accessors, DropHandle(t, a) PROVE Life'
  <2>1. /\ pc[t] = "idle" /\ a \in handles
        /\ \A u \in Threads : ~Canceller(u, a)
        /\ Release(t, a, "idle")
        /\ UNCHANGED <<destroyed, owner, kept>> /\ handles' = handles \ {a}
        /\ kept \subseteq Requests
    BY <1>19 DEF DropHandle, Canceller, TypeOK
  <2>2. \A b \in Accessors : ~Holds(t, b)
    BY <2>1 DEF Holds, StartPcs
  <2> QED
    BY <2>1, <2>2, <1>b, LifeRelease DEF CancelPcs
<1>20. ASSUME DispatchBegin PROVE Life'
  <2>1. /\ UNCHANGED <<destroyed, handles, kept, owner, inFlight>>
        /\ \A u \in Threads : u # Main => pc'[u] = pc[u] /\ accT'[u] = accT[u]
        /\ pc[Main] = "idle"
        /\ \/ pc'[Main] = "inBegin" /\ Alive(accT'[Main])
           \/ pc'[Main] = "idle" /\ accT'[Main] = accT[Main]
    BY <1>20 DEF DispatchBegin, TypeOK
  <2>2. \A u \in Threads, b \in Accessors :
            /\ Holds(u, b) => Holds(u, b)'
            /\ Holds(u, b)' => Alive(b)
            /\ Canceller(u, b)' <=> Canceller(u, b)
    BY <2>1, <1>b DEF Holds, Canceller, StartPcs, CancelPcs
  <2> QED
    BY <2>1, <2>2, LifeFrame
<1>21. ASSUME BeginReturn PROVE Life'
  <2>1. /\ accT[Main] \in Accessors /\ pc[Main] = "inBegin"
        /\ Release(Main, accT[Main], "idle")
        /\ UNCHANGED <<destroyed, owner, handles, kept>>
        /\ kept \subseteq Requests
    BY <1>21 DEF BeginReturn, ThreadLocals, TypeOK
  <2>2. Holds(Main, accT[Main]) /\ \A b \in Accessors : b # accT[Main] => ~Holds(Main, b)
    BY <2>1 DEF Holds
  <2> QED
    BY <2>1, <2>2, <1>b, <1>d, LifeRelease DEF CancelPcs
<1>22. ASSUME DispatchResolve PROVE Life'
  BY <1>22, <1>b, LifeFrame DEF DispatchResolve, Holds, Canceller
<1>23. ASSUME NEW t \in Threads, NEW r \in Requests, ContinuationDone(t, r) PROVE Life'
  <2>1. /\ owner[r] \in Accessors /\ pc[t] = "idle" /\ r \in kept
        /\ Release(t, owner[r], "idle")
        /\ UNCHANGED <<destroyed, owner, handles>> /\ kept' = kept \ {r}
        /\ kept \subseteq Requests
    BY <1>23 DEF ContinuationDone, Owned, TypeOK
  <2>2. Alive(owner[r]) /\ \A b \in Accessors : ~Holds(t, b)
    BY <2>1, <1>b DEF Holds, StartPcs
  <2> QED
    BY <2>1, <2>2, <1>d, LifeRelease DEF CancelPcs
<1>24. CASE UNCHANGED vars
  BY <1>24, <1>b, LifeFrame DEF vars, Holds, Canceller
<1> QED
  BY <1>1, <1>2, <1>3, <1>4, <1>5, <1>6, <1>7, <1>8, <1>9, <1>10, <1>11, <1>12, <1>13, <1>14,
     <1>15, <1>16, <1>17, <1>18, <1>19, <1>20, <1>21, <1>22, <1>23, <1>24, Zenon
  DEF Next, Call, Finish, Dispatch

-----------------------------------------------------------------------------
\* No request is in any table and no accessor has lived.
LEMMA InitLInv == Init => LInv
<1> SUFFICES ASSUME Init PROVE LInv
  OBVIOUS
<1>1. IInv
  BY InitInv
<1>2. Starting /\ SwappedOut /\ InFlightAgrees
  BY DEF Init, Starting, SwappedOut, InFlightAgrees, StartPcs
<1>3. Life
  BY AliveForm DEF Init, Life, Canceller, CancelPcs
<1> QED
  BY <1>1, <1>2, <1>3 DEF LInv

\* The second strengthening, of what relates the tables, the cancellations and the lives of
\* the accessors, is inductive given the first.
THEOREM LifeInductive == Spec => []LInv
<1>1. LInv /\ [Next]_vars => LInv'
  BY StepType, StepInv, StartingStep, SwappedOutStep, InFlightStep, LifeStep DEF LInv
<1> QED
  BY InitLInv, <1>1, PTL DEF Spec

\* The accessor's list and the registry disagree only about a request that is between them:
\* the pending count is exact whenever no call is.
THEOREM InFlightAgreesAlways == Spec => []InFlightAgrees
<1>1. LInv => InFlightAgrees
  BY DEF LInv
<1> QED
  BY <1>1, LifeInductive, PTL

\* The last reference, wherever it drops, is followed by one destructor, which calls destroy
\* once nothing is left to settle but what a completion call already won.
THEOREM DestroyedSettledAlways == Spec => []DestroyedSettled
<1>1. ASSUME LInv PROVE DestroyedSettled
  <2>a. TypeOK /\ ThreadLocals /\ Claims /\ OneHolder /\ Starting /\ SwappedOut /\ InFlightAgrees /\ Life
    BY <1>1 DEF LInv, IInv
  <2> SUFFICES ASSUME NEW a \in Accessors
               PROVE  /\ \A t, u \in Threads : /\ ~Alive(a)
                                               /\ Canceller(t, a) /\ Canceller(u, a)
                                               => t = u
                      /\ ~Alive(a) /\ a \notin destroyed => \E t \in Threads : Canceller(t, a)
                      /\ a \in destroyed =>
                           /\ ~Alive(a)
                           /\ \A t \in Threads : ~Canceller(t, a)
                           /\ \A r \in Requests : owner[r] = a =>
                                 response[r] # "none" \/ \E t \in Threads : pending[t] = r
    BY DEF DestroyedSettled, Canceller
  <2>1. ASSUME a \in destroyed, NEW r \in Requests, owner[r] = a, response[r] = "none"
        PROVE  \E t \in Threads : pending[t] = r
    <3>1. ~Alive(a) /\ inFlight[a] = {} /\ \A t \in Threads : ~Canceller(t, a)
      BY <2>a, <2>1 DEF Life
    <3>2. r \notin registry
      <4>1. \A t \in Threads : ~(pc[t] = "registered" /\ req[t] = r)
        BY <2>a, <2>1, <3>1, AliveForm DEF ThreadLocals, Holds, StartPcs
      <4>2. \A t \in Threads : ~(pc[t] = "retiring" /\ r \in todo[t])
        BY <2>a, <2>1, <3>1 DEF SwappedOut, Canceller, CancelPcs
      <4> QED
        BY <2>a, <2>1, <3>1, <4>1, <4>2 DEF InFlightAgrees
    <3>3. \A t \in Threads : r \notin taken[t]
      BY <2>a, <2>1, <3>1 DEF SwappedOut, Canceller, ThreadLocals
    <3> QED
      BY <2>a, <2>1, <3>2, <3>3, NoneAssumption DEF OneHolder, HasTaken
  <2> QED
    BY <2>a, <2>1 DEF Life
<1> QED
  BY <1>1, LifeInductive, PTL

\* No two cancellations tell the host of the same id.
THEOREM CancelledOnceAlways == Spec => CancelledOnce
<1>1. ASSUME LInv, NEW t \in Threads, NEW r \in Requests, CancelNotify(t, r)
      PROVE  r \notin cancelled
  BY <1>1 DEF LInv, SwappedOut, CancelNotify
<1>2. LInv /\ [Next]_vars =>
         [\A t \in Threads, r \in Requests : CancelNotify(t, r) => r \notin cancelled]_vars
  BY <1>1
<1> QED
  BY <1>2, LifeInductive, PTL DEF Spec, CancelledOnce

\* Only three steps call the host about a request.
LEMMA HostCalls ==
  ASSUME [Next]_vars
  PROVE  \/ UNCHANGED <<begun, cancelled>>
         \/ \E t \in Threads : StartInvoke(t)
         \/ \E t \in Threads, r \in Requests : CancelNotify(t, r)
         \/ DispatchBegin
<1> USE DEF refVars, tableVars, futureVars, hostVars, threadVars, cancelVars
<1>1. ASSUME NEW t \in Threads, Call(t) PROVE UNCHANGED <<begun, cancelled>>
  BY <1>1 DEF Call, StartWithoutTransport, StartRegister, CompleteTake, CancelAll, DropHandle
<1>2. ASSUME NEW t \in Threads, Finish(t), ~StartInvoke(t), ~\E r \in Requests : CancelNotify(t, r)
      PROVE  UNCHANGED <<begun, cancelled>>
  BY <1>2 DEF Finish, StartInsert, StartReturn, CompleteForget, CompleteRelease, CompleteRespond,
              CompletePost, CancelTake, CancelTaken, CancelNotified, CancelFail, CancelPost,
              CancelReturn, BeginReturn
<1>3. CASE DispatchResolve
  BY <1>3 DEF DispatchResolve
<1>4. ASSUME NEW t \in Threads, NEW r \in Requests, ContinuationDone(t, r)
      PROVE  UNCHANGED <<begun, cancelled>>
  BY <1>4 DEF ContinuationDone
<1>5. CASE UNCHANGED vars
  BY <1>5 DEF vars
<1> QED
  BY <1>1, <1>2, <1>3, <1>4, <1>5 DEF Next, Dispatch

\* After destroy the host's struct is not called again, whatever is still queued or in flight.
THEOREM QuietAfterDestroyAlways == Spec => QuietAfterDestroy
<1>1. ASSUME LInv, [Next]_vars, NEW r \in Requests, owner[r] \in destroyed
      PROVE  (r \in begun' => r \in begun) /\ (r \in cancelled' => r \in cancelled)
  <2>a. TypeOK /\ ThreadLocals /\ SwappedOut /\ Life
    BY <1>1 DEF LInv, IInv
  <2> DEFINE a == owner[r]
  <2>1. a \in Accessors /\ ~Alive(a) /\ \A t \in Threads : ~Canceller(t, a) /\ ~Holds(t, a)
    BY <1>1, <2>a, AliveForm DEF Life, TypeOK
  <2>2. ASSUME NEW t \in Threads, StartInvoke(t)
        PROVE  (r \in begun' => r \in begun) /\ (r \in cancelled' => r \in cancelled)
    <3>1. req[t] # r
      BY <2>1, <2>2, <2>a DEF StartInvoke, ThreadLocals, Holds, StartPcs
    <3> QED
      BY <2>2, <3>1 DEF StartInvoke
  <2>3. ASSUME NEW t \in Threads, NEW q \in Requests, CancelNotify(t, q)
        PROVE  (r \in begun' => r \in begun) /\ (r \in cancelled' => r \in cancelled)
    <3>1. q # r
      BY <2>1, <2>3, <2>a DEF CancelNotify, SwappedOut, Canceller, CancelPcs
    <3> QED
      BY <2>3, <3>1 DEF CancelNotify
  <2>4. ASSUME DispatchBegin
        PROVE  (r \in begun' => r \in begun) /\ (r \in cancelled' => r \in cancelled)
    BY <2>1, <2>4 DEF DispatchBegin
  <2> QED
    BY <1>1, <2>2, <2>3, <2>4, HostCalls
<1>2. LInv /\ [Next]_vars =>
         [\A r \in Requests : owner[r] \in destroyed =>
             /\ r \in begun' => r \in begun
             /\ r \in cancelled' => r \in cancelled]_vars
  BY <1>1
<1> QED
  BY <1>2, LifeInductive, PTL DEF Spec, QuietAfterDestroy

=============================================================================
