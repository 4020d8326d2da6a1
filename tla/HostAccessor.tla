---------------------------- MODULE HostAccessor ----------------------------
(***************************************************************************)
(* The host-callback asset accessor (src/src/cesium_host_accessor.cpp): the *)
(* process-wide registry of requests, the accessors' lists of requests in   *)
(* flight, the C calls that complete, fail and cancel requests from any     *)
(* thread, the main-thread queue their results are marshalled through, and  *)
(* the reference-counted life of an accessor, whose destructor may run on   *)
(* whichever thread drops the last reference.                               *)
(*                                                                          *)
(* A thread executes one call at a time; pc[t] is the next atomic step of   *)
(* that call.  A host that calls back in from inside a callback behaves as  *)
(* another thread does between two steps, since no lock is held there.      *)
(***************************************************************************)
EXTENDS Naturals, Sequences, FiniteSets

CONSTANTS Accessors,   \* the CHostAssetAccessor objects
          Threads,     \* the threads that call into the library
          Main,        \* the one that dispatches main-thread tasks
          Requests,    \* the requests that can be issued, one per id drawn
          Hosts,       \* the CesiumAssetAccessorCallbacks a host may install
          None         \* no request, no accessor

ASSUME MainAssumption == Main \in Threads
ASSUME NoneAssumption == None \notin Requests \cup Accessors
\* transport: beginRequest # NULL; onWorker: allowBeginRequestOnWorkerThread;
\* notify: cancelRequest # NULL.
ASSUME HostsAssumption ==
    Hosts \subseteq [transport : BOOLEAN, onWorker : BOOLEAN, notify : BOOLEAN]

VARIABLES
    callbacks,  \* the callbacks each accessor was created with
    handles,    \* accessors whose C handle still holds its reference
    kept,       \* requests whose waiting continuation holds its accessor
    destroyed,  \* accessors whose destroy callback was called
    inFlight,   \* each accessor's _inFlight
    registry,   \* the live ids of CRequestRegistry::_pending
    owner,      \* the accessor that issued a request
    response,   \* CHostAssetRequest::_response
    resolved,   \* requests whose promise was resolved
    mainQ,      \* tasks given to runInMainThread and not yet dispatched
    begun,      \* requests the host got beginRequest for
    cancelled,  \* requests the host got cancelRequest for
    accepted,   \* how many completion calls returned 1 for a request
    pc,         \* the next step of each thread
    accT,       \* the accessor a thread's call is about
    req,        \* the id a thread registered, or its loop variable
    pending,    \* the CPendingRequest a completion call took
    ids,        \* cancelAllRequests: the ids swapped out of _inFlight
    todo,       \* cancelAllRequests: those its current loop has left
    taken,      \* cancelAllRequests: the CPendingRequests it took
    after       \* where a thread goes on when its cancelAllRequests is over

refVars  == <<callbacks, handles, kept, destroyed>>
tableVars == <<inFlight, registry, owner>>
futureVars == <<response, resolved, mainQ>>
hostVars == <<begun, cancelled, accepted>>
cancelVars == <<ids, todo, taken, after>>
threadVars == <<pc, accT, req, pending, cancelVars>>
vars == <<refVars, tableVars, futureVars, hostVars, threadVars>>

StartPcs    == {"registered", "inserted", "invoked"}
CompletePcs == {"completing", "forgotten", "responding", "posting"}
CancelPcs   == {"retiring", "notifying", "failing", "failPosting"}
Pcs == {"idle", "inBegin"} \cup StartPcs \cup CompletePcs \cup CancelPcs

Tasks == [kind : {"begin", "resolve"}, id : Requests]
BeginTask(r)   == [kind |-> "begin", id |-> r]
ResolveTask(r) == [kind |-> "resolve", id |-> r]

TypeOK ==
    /\ callbacks \in [Accessors -> Hosts]
    /\ handles \subseteq Accessors
    /\ kept \subseteq Requests
    /\ destroyed \subseteq Accessors
    /\ inFlight \in [Accessors -> SUBSET Requests]
    /\ registry \subseteq Requests
    /\ owner \in [Requests -> Accessors \cup {None}]
    /\ response \in [Requests -> {"none", "answered", "failed"}]
    /\ resolved \subseteq Requests
    /\ mainQ \in Seq(Tasks)
    /\ begun \subseteq Requests
    /\ cancelled \subseteq Requests
    /\ accepted \in [Requests -> Nat]
    /\ pc \in [Threads -> Pcs]
    /\ accT \in [Threads -> Accessors \cup {None}]
    /\ req \in [Threads -> Requests \cup {None}]
    /\ pending \in [Threads -> Requests \cup {None}]
    /\ ids \in [Threads -> SUBSET Requests]
    /\ todo \in [Threads -> SUBSET Requests]
    /\ taken \in [Threads -> SUBSET Requests]
    /\ after \in [Threads -> {"idle", "responding"}]

-----------------------------------------------------------------------------
(* Strong references.  A caller of start() holds one for the length of the  *)
(* call, the marshalled beginRequest lambda holds one while the callback    *)
(* runs, and completeRequest holds one from its weak_ptr::lock() on.        *)

Holds(t, a) == accT[t] = a /\ pc[t] \in StartPcs \cup {"forgotten", "inBegin"}

Referrers(a) == {t \in Threads : Holds(t, a)}
Continuations(a) == {r \in kept : owner[r] = a}

\* weak_ptr::lock() succeeds exactly while a strong reference is left.
Alive(a) == a \in handles \/ Referrers(a) # {} \/ Continuations(a) # {}

\* The step leaves no reference but the one t is letting go of.
Orphaned(t, a) == /\ a \notin handles'
                  /\ Referrers(a) \subseteq {t}
                  /\ \A r \in kept' : owner[r] # a

\* The thread's next step; its other locals change where the caller says.
Goto(t, label) == pc' = [pc EXCEPT ![t] = label]

\* Fault: the ids are copied out, not moved out.
SwapOutCopies(t, a, next) ==
    /\ ids' = [ids EXCEPT ![t] = inFlight[a]]
    /\ todo' = [todo EXCEPT ![t] = inFlight[a]]
    /\ accT' = [accT EXCEPT ![t] = a]
    /\ after' = [after EXCEPT ![t] = next]
    /\ Goto(t, "retiring")
    /\ UNCHANGED inFlight

\* cancelAllRequests' first step: the ids are moved out under _mutex.
SwapOut(t, a, next) ==
    /\ ids' = [ids EXCEPT ![t] = inFlight[a]]
    /\ todo' = [todo EXCEPT ![t] = inFlight[a]]
    /\ inFlight' = [inFlight EXCEPT ![a] = {}]
    /\ accT' = [accT EXCEPT ![t] = a]
    /\ after' = [after EXCEPT ![t] = next]
    /\ Goto(t, "retiring")

\* Fault: a destructor that leaves the requests in flight alone.
ReleaseWithoutCancel(t, a, next) ==
    /\ Goto(t, next)
    /\ accT' = [accT EXCEPT ![t] = None]
    /\ UNCHANGED <<inFlight, ids, todo, after>>

\* Thread t lets go of a strong reference.  If it was the last one, ~CHostAssetAccessor
\* runs here and now, on this thread, and t goes on at `next` when it is over.
Release(t, a, next) ==
    IF Orphaned(t, a) THEN SwapOut(t, a, next)
    ELSE /\ Goto(t, next)
         /\ accT' = [accT EXCEPT ![t] = None]
         /\ UNCHANGED <<inFlight, ids, todo, after>>

-----------------------------------------------------------------------------
(* CHostAssetAccessor::start, reached through get() and request().          *)

\* No transport installed: the request fails on the spot, without an id.
StartWithoutTransport(t, a, r) ==
    /\ pc[t] = "idle"
    /\ Alive(a)
    /\ owner[r] = None
    /\ ~callbacks[a].transport
    /\ owner' = [owner EXCEPT ![r] = a]
    /\ response' = [response EXCEPT ![r] = "failed"]
    /\ resolved' = resolved \cup {r}
    /\ UNCHANGED <<refVars, inFlight, registry, mainQ, hostVars, threadVars>>

\* CRequestRegistry::add draws a fresh id under the registry's mutex.
StartRegister(t, a, r) ==
    /\ pc[t] = "idle"
    /\ Alive(a)
    /\ owner[r] = None
    /\ callbacks[a].transport
    /\ owner' = [owner EXCEPT ![r] = a]
    /\ registry' = registry \cup {r}
    /\ Goto(t, "registered")
    /\ accT' = [accT EXCEPT ![t] = a]
    /\ req' = [req EXCEPT ![t] = r]
    /\ UNCHANGED <<refVars, inFlight, futureVars, hostVars, pending, cancelVars>>

\* The id enters _inFlight under the accessor's own mutex.
StartInsert(t) ==
    /\ pc[t] = "registered"
    /\ inFlight' = [inFlight EXCEPT ![accT[t]] = @ \cup {req[t]}]
    /\ Goto(t, "inserted")
    /\ UNCHANGED <<refVars, registry, owner, futureVars, hostVars, accT, req, pending, cancelVars>>

\* beginRequest is called on this thread, or marshalled to the main thread.
StartInvoke(t) ==
    /\ pc[t] = "inserted"
    /\ \/ /\ callbacks[accT[t]].onWorker
          /\ begun' = begun \cup {req[t]}
          /\ UNCHANGED mainQ
       \/ /\ ~callbacks[accT[t]].onWorker
          /\ mainQ' = Append(mainQ, BeginTask(req[t]))
          /\ UNCHANGED begun
    /\ Goto(t, "invoked")
    /\ UNCHANGED <<refVars, tableVars, response, resolved, cancelled, accepted,
                   accT, req, pending, cancelVars>>

\* The caller attaches its continuation to the future, which may hold the accessor until it
\* has run, and lets go of its own reference.
StartReturn(t, keep) ==
    LET a == accT[t]
        r == req[t]
        waiting == IF keep /\ r \notin resolved THEN {r} ELSE {}
    IN  /\ pc[t] = "invoked"
        /\ kept' = kept \cup waiting
        /\ req' = [req EXCEPT ![t] = None]
        /\ UNCHANGED <<callbacks, handles, destroyed, registry, owner, futureVars, hostVars,
                       pending, taken>>
        /\ Release(t, a, "idle")

-----------------------------------------------------------------------------
(* cesium_asset_request_complete and cesium_asset_request_fail.  An id that *)
(* is not in the registry makes either return 0 and change nothing.         *)

\* Fault: a retired id is answered again.
CompleteTakeRetired(t, r) ==
    /\ pc[t] = "idle"
    /\ r \in begun
    /\ registry' = registry \ {r}
    /\ pending' = [pending EXCEPT ![t] = r]
    /\ Goto(t, "completing")
    /\ UNCHANGED <<refVars, inFlight, owner, futureVars, hostVars, accT, req, cancelVars>>

\* CRequestRegistry::take: the erase decides who owns the request.
CompleteTake(t, r) ==
    /\ pc[t] = "idle"
    /\ r \in begun
    /\ r \in registry
    /\ registry' = registry \ {r}
    /\ pending' = [pending EXCEPT ![t] = r]
    /\ Goto(t, "completing")
    /\ UNCHANGED <<refVars, inFlight, owner, futureVars, hostVars, accT, req, cancelVars>>

\* weak_ptr::lock() and forgetRequest under the accessor's mutex.
CompleteForget(t) ==
    LET a == owner[pending[t]]
    IN  /\ pc[t] = "completing"
        /\ \/ /\ Alive(a)
              /\ inFlight' = [inFlight EXCEPT ![a] = @ \ {pending[t]}]
              /\ accT' = [accT EXCEPT ![t] = a]
              /\ Goto(t, "forgotten")
           \/ /\ ~Alive(a)
              /\ Goto(t, "responding")
              /\ UNCHANGED <<inFlight, accT>>
        /\ UNCHANGED <<refVars, registry, owner, futureVars, hostVars, req, pending, cancelVars>>

\* The locked pointer goes out of scope; the destructor may run inside this call.
CompleteRelease(t) ==
    LET a == accT[t]
    IN  /\ pc[t] = "forgotten"
        /\ UNCHANGED <<refVars, registry, owner, futureVars, hostVars, req, pending, taken>>
        /\ Release(t, a, "responding")

CompleteRespond(t) ==
    /\ pc[t] = "responding"
    /\ response' = [response EXCEPT ![pending[t]] = "answered"]
    /\ Goto(t, "posting")
    /\ UNCHANGED <<refVars, tableVars, resolved, mainQ, hostVars, accT, req, pending, cancelVars>>

\* Fault: the promise is dropped with the CPendingRequest.
CompletePostNothing(t) ==
    /\ pc[t] = "posting"
    /\ accepted' = [accepted EXCEPT ![pending[t]] = @ + 1]
    /\ pending' = [pending EXCEPT ![t] = None]
    /\ Goto(t, "idle")
    /\ UNCHANGED <<refVars, tableVars, futureVars, begun, cancelled, accT, req, cancelVars>>

\* The resolve is marshalled, never made inline, and the call returns 1.
CompletePost(t) ==
    /\ pc[t] = "posting"
    /\ mainQ' = Append(mainQ, ResolveTask(pending[t]))
    /\ accepted' = [accepted EXCEPT ![pending[t]] = @ + 1]
    /\ pending' = [pending EXCEPT ![t] = None]
    /\ Goto(t, "idle")
    /\ UNCHANGED <<refVars, tableVars, response, resolved, begun, cancelled, accT, req, cancelVars>>

-----------------------------------------------------------------------------
(* cancelAllRequests, called by cesium_asset_accessor_cancel_all_requests   *)
(* on a handle the host has not destroyed, or by the destructor.            *)

CancelAll(t, a) ==
    /\ pc[t] = "idle"
    /\ a \in handles
    /\ SwapOut(t, a, "idle")
    /\ UNCHANGED <<refVars, registry, owner, futureVars, hostVars, req, pending, taken>>

\* Fault: the cancellation fails every id it swapped out, whoever took it.
CancelTakeAll(t, r) ==
    /\ pc[t] = "retiring"
    /\ r \in todo[t]
    /\ todo' = [todo EXCEPT ![t] = @ \ {r}]
    /\ registry' = registry \ {r}
    /\ taken' = [taken EXCEPT ![t] = @ \cup {r}]
    /\ UNCHANGED <<refVars, inFlight, owner, futureVars, hostVars, pc, accT, req, pending, ids, after>>

\* First loop: take every id that is still live out of the registry.
CancelTake(t, r) ==
    /\ pc[t] = "retiring"
    /\ r \in todo[t]
    /\ todo' = [todo EXCEPT ![t] = @ \ {r}]
    /\ registry' = registry \ {r}
    /\ taken' = [taken EXCEPT ![t] = IF r \in registry THEN @ \cup {r} ELSE @]
    /\ UNCHANGED <<refVars, inFlight, owner, futureVars, hostVars, pc, accT, req, pending, ids, after>>

CancelTaken(t) ==
    /\ pc[t] = "retiring"
    /\ todo[t] = {}
    /\ IF callbacks[accT[t]].notify
       THEN todo' = [todo EXCEPT ![t] = ids[t]]
       ELSE UNCHANGED todo
    /\ Goto(t, "notifying")
    /\ UNCHANGED <<refVars, tableVars, futureVars, hostVars, accT, req, pending, ids, taken, after>>

\* Second loop: cancelRequest for every id that was swapped out, no lock held.
CancelNotify(t, r) ==
    /\ pc[t] = "notifying"
    /\ r \in todo[t]
    /\ todo' = [todo EXCEPT ![t] = @ \ {r}]
    /\ cancelled' = cancelled \cup {r}
    /\ UNCHANGED <<refVars, tableVars, futureVars, begun, accepted,
                   pc, accT, req, pending, ids, taken, after>>

CancelNotified(t) ==
    /\ pc[t] = "notifying"
    /\ todo[t] = {}
    /\ Goto(t, "failing")
    /\ ids' = [ids EXCEPT ![t] = {}]
    /\ UNCHANGED <<refVars, tableVars, futureVars, hostVars, accT, req, pending, todo, taken, after>>

\* Third loop: a status-0 response, then a marshalled resolve, for every request taken.
CancelFail(t, r) ==
    /\ pc[t] = "failing"
    /\ r \in taken[t]
    /\ response' = [response EXCEPT ![r] = "failed"]
    /\ req' = [req EXCEPT ![t] = r]
    /\ Goto(t, "failPosting")
    /\ UNCHANGED <<refVars, tableVars, resolved, mainQ, hostVars, accT, pending, cancelVars>>

CancelPost(t) ==
    /\ pc[t] = "failPosting"
    /\ mainQ' = Append(mainQ, ResolveTask(req[t]))
    /\ taken' = [taken EXCEPT ![t] = @ \ {req[t]}]
    /\ req' = [req EXCEPT ![t] = None]
    /\ Goto(t, "failing")
    /\ UNCHANGED <<refVars, tableVars, response, resolved, hostVars, accT, pending, ids, todo, after>>

\* The loops are over.  In the destructor, which runs once no reference is left, the
\* destroy callback comes last.
CancelReturn(t) ==
    /\ pc[t] = "failing"
    /\ taken[t] = {}
    /\ destroyed' = IF Alive(accT[t]) THEN destroyed ELSE destroyed \cup {accT[t]}
    /\ Goto(t, after[t])
    /\ accT' = [accT EXCEPT ![t] = None]
    /\ after' = [after EXCEPT ![t] = "idle"]
    /\ UNCHANGED <<callbacks, handles, kept, tableVars, futureVars, hostVars,
                   req, pending, ids, todo, taken>>

\* cesium_asset_accessor_destroy: the handle's reference goes.  A host does not destroy a
\* handle another of its calls is still using.
DropHandle(t, a) ==
    /\ pc[t] = "idle"
    /\ a \in handles
    /\ \A u \in Threads : ~(pc[u] \in CancelPcs /\ accT[u] = a)
    /\ handles' = handles \ {a}
    /\ UNCHANGED <<callbacks, kept, destroyed, registry, owner, futureVars, hostVars,
                   req, pending, taken>>
    /\ Release(t, a, "idle")

-----------------------------------------------------------------------------
(* The main thread runs what was marshalled to it, in order.                *)

\* Fault: the lambda captured a raw pointer to the accessor.
DispatchBeginRaw ==
    LET r == Head(mainQ).id
    IN  /\ pc[Main] = "idle"
        /\ mainQ # <<>>
        /\ Head(mainQ).kind = "begin"
        /\ mainQ' = Tail(mainQ)
        /\ begun' = begun \cup {r}
        /\ accT' = [accT EXCEPT ![Main] = owner[r]]
        /\ Goto(Main, "inBegin")
        /\ UNCHANGED <<refVars, tableVars, response, resolved, cancelled, accepted,
                       req, pending, cancelVars>>

\* The beginRequest lambda: it only checks that the accessor is still there.
DispatchBegin ==
    LET r == Head(mainQ).id
        a == owner[r]
    IN  /\ pc[Main] = "idle"
        /\ mainQ # <<>>
        /\ Head(mainQ).kind = "begin"
        /\ mainQ' = Tail(mainQ)
        /\ \/ /\ Alive(a)
              /\ begun' = begun \cup {r}
              /\ accT' = [accT EXCEPT ![Main] = a]
              /\ Goto(Main, "inBegin")
           \/ /\ ~Alive(a)
              /\ UNCHANGED <<begun, accT, pc>>
        /\ UNCHANGED <<refVars, tableVars, response, resolved, cancelled, accepted,
                       req, pending, cancelVars>>

\* The callback returns and the lambda lets go of the accessor.
BeginReturn ==
    LET a == accT[Main]
    IN  /\ pc[Main] = "inBegin"
        /\ UNCHANGED <<refVars, registry, owner, futureVars, hostVars, req, pending, taken>>
        /\ Release(Main, a, "idle")

\* The promise is resolved; the continuation sees the response.
DispatchResolve ==
    /\ pc[Main] = "idle"
    /\ mainQ # <<>>
    /\ Head(mainQ).kind = "resolve"
    /\ mainQ' = Tail(mainQ)
    /\ resolved' = resolved \cup {Head(mainQ).id}
    /\ UNCHANGED <<refVars, tableVars, response, hostVars, threadVars>>

\* A continuation that has run is destroyed, on the thread that ran it, with its reference.
ContinuationDone(t, r) ==
    LET a == owner[r]
    IN  /\ pc[t] = "idle"
        /\ r \in kept
        /\ r \in resolved
        /\ kept' = kept \ {r}
        /\ UNCHANGED <<callbacks, handles, destroyed, registry, owner, futureVars, hostVars,
                       req, pending, taken>>
        /\ Release(t, a, "idle")

-----------------------------------------------------------------------------
Init ==
    /\ callbacks \in [Accessors -> Hosts]
    /\ handles = Accessors
    /\ kept = {}
    /\ destroyed = {}
    /\ inFlight = [a \in Accessors |-> {}]
    /\ registry = {}
    /\ owner = [r \in Requests |-> None]
    /\ response = [r \in Requests |-> "none"]
    /\ resolved = {}
    /\ mainQ = <<>>
    /\ begun = {}
    /\ cancelled = {}
    /\ accepted = [r \in Requests |-> 0]
    /\ pc = [t \in Threads |-> "idle"]
    /\ accT = [t \in Threads |-> None]
    /\ req = [t \in Threads |-> None]
    /\ pending = [t \in Threads |-> None]
    /\ ids = [t \in Threads |-> {}]
    /\ todo = [t \in Threads |-> {}]
    /\ taken = [t \in Threads |-> {}]
    /\ after = [t \in Threads |-> "idle"]

\* What the host and the loaders may call, and when, is up to them ...
Call(t) ==
    \/ \E a \in Accessors, r \in Requests :
          StartWithoutTransport(t, a, r) \/ StartRegister(t, a, r)
    \/ \E r \in Requests : CompleteTake(t, r)
    \/ \E a \in Accessors : CancelAll(t, a) \/ DropHandle(t, a)

\* ... but a call once begun goes on to its end.
Finish(t) ==
    \/ StartInsert(t) \/ StartInvoke(t) \/ \E keep \in BOOLEAN : StartReturn(t, keep)
    \/ CompleteForget(t) \/ CompleteRelease(t) \/ CompleteRespond(t) \/ CompletePost(t)
    \/ \E r \in Requests : CancelTake(t, r) \/ CancelNotify(t, r) \/ CancelFail(t, r)
    \/ CancelTaken(t) \/ CancelNotified(t) \/ CancelPost(t) \/ CancelReturn(t)
    \/ t = Main /\ BeginReturn

Dispatch == DispatchBegin \/ DispatchResolve

Next ==
    \/ \E t \in Threads : Call(t) \/ Finish(t)
    \/ Dispatch
    \/ \E t \in Threads, r \in Requests : ContinuationDone(t, r)

Spec == Init /\ [][Next]_vars

\* Threads are scheduled, and the host pumps: between its other calls it keeps coming back to
\* cesium_async_system_dispatch_main_thread_tasks.
FairSpec == Spec /\ (\A t \in Threads : WF_vars(Finish(t))) /\ SF_vars(Dispatch)

-----------------------------------------------------------------------------
(* Properties.                                                              *)

\* Thread t is the one that took request r out of the registry.
HasTaken(t, r) == pending[t] = r \/ r \in taken[t]

\* A request that was registered and has no response yet is in exactly one place: in the
\* registry, or with the one thread whose take() won it.  "The erase, not the resolve, is the
\* single arbitration point": a completion racing a completion, a cancellation or the
\* destructor neither answers a request twice nor loses it.
OneHolder ==
    /\ \A r \in registry, t \in Threads : ~HasTaken(t, r)
    /\ \A r \in Requests, t, u \in Threads : HasTaken(t, r) /\ HasTaken(u, r) => t = u
    /\ \A t \in Threads : pending[t] \notin taken[t]
    /\ \A r \in Requests : owner[r] # None /\ response[r] = "none" =>
          r \in registry \/ \E t \in Threads : HasTaken(t, r)

\* setResponse happens once and nothing mutates the request afterwards (the rule the members
\* of CHostAssetRequest do without a lock by).
SettledOnce ==
    [][\A r \in Requests : response[r] # "none" => response'[r] = response[r]]_vars

\* Every marshalled resolve finds the response already set, and is the only one its promise
\* will ever get.
ResolveOnceAfterResponse ==
    /\ \A i \in 1..Len(mainQ) : mainQ[i].kind = "resolve" =>
          /\ response[mainQ[i].id] # "none"
          /\ mainQ[i].id \notin resolved
          /\ \A j \in 1..Len(mainQ) : mainQ[j] = mainQ[i] => i = j
    /\ \A r \in resolved : response[r] # "none"

\* completeRequest returns 1 at most once for an id, and only when the response the loader
\* gets is the one that call supplied.
AckMeansAnswered ==
    \A r \in Requests : accepted[r] <= 1 /\ (accepted[r] = 1 => response[r] = "answered")

\* The two tables, each with a mutex of its own, disagree only about requests some thread is
\* between them with; so the pending count is exact whenever the accessor is at rest.
InFlightAgrees ==
    /\ \A a \in Accessors : \A r \in inFlight[a] :
          /\ owner[r] = a
          /\ r \in registry \/ \E t \in Threads : pc[t] = "completing" /\ pending[t] = r
    /\ \A r \in registry :
          \/ r \in inFlight[owner[r]]
          \/ \E t \in Threads : pc[t] = "registered" /\ req[t] = r
          \/ \E t \in Threads : pc[t] = "retiring" /\ r \in todo[t]

\* The host is told to drop an id once, however many cancellations overlap.
CancelledOnce == [][\A t \in Threads, r \in Requests : CancelNotify(t, r) => r \notin cancelled]_vars

\* Exactly one thread runs the destructor of an accessor whose last reference is gone, and when
\* it called destroy every request of the accessor has been answered or failed, or is in the
\* hands of a completion call that already won it.
DestroyedSettled ==
    \A a \in Accessors :
       /\ \A t, u \in Threads : /\ ~Alive(a)
                                /\ pc[t] \in CancelPcs /\ accT[t] = a
                                /\ pc[u] \in CancelPcs /\ accT[u] = a
                                => t = u
       /\ ~Alive(a) /\ a \notin destroyed =>
             \E t \in Threads : pc[t] \in CancelPcs /\ accT[t] = a
       /\ a \in destroyed =>
             /\ ~Alive(a)
             /\ \A t \in Threads : ~(pc[t] \in CancelPcs /\ accT[t] = a)
             /\ \A r \in Requests : owner[r] = a =>
                   response[r] # "none" \/ \E t \in Threads : pending[t] = r

\* "Nothing in this struct is called again afterwards, so userData may be freed."
QuietAfterDestroy ==
    [][\A r \in Requests : owner[r] \in destroyed =>
          /\ r \in begun' => r \in begun
          /\ r \in cancelled' => r \in cancelled]_vars

\* When the last reference drops, destroy is called and every request of the accessor is
\* resolved, with no help from the host but the pump.
DeadAccessorSettles ==
    \A a \in Accessors :
       ~Alive(a) ~> /\ a \in destroyed
                    /\ \A r \in Requests : owner[r] = a => r \in resolved

-----------------------------------------------------------------------------
(* The accessor implements RequestLifecycle.                                *)

phaseBar == [r \in Requests |->
                IF response[r] # "none" THEN response[r]
                ELSE IF owner[r] # None THEN "open" ELSE "new"]

Lifecycle == INSTANCE RequestLifecycle
                WITH phase <- phaseBar, delivered <- resolved, acks <- accepted

\* Every request goes through the life RequestLifecycle describes, delivery included.
ImplementsLifecycle == Lifecycle!Spec

-----------------------------------------------------------------------------
(* What the header says and the code does not do.                           *)

\* "The host must eventually call exactly one of complete or fail [...] or neither, if
\* cancelRequest arrives first": a host that got cancelRequest for an id does not get
\* beginRequest for it afterwards.
NoBeginAfterCancel ==
    [][\A r \in Requests : r \in begun' \ begun => r \notin cancelled]_vars

=============================================================================
