---------------------------- MODULE IonConnection ----------------------------
(***************************************************************************)
(* src/src/cesium_ion.cpp: the calls that reach an ion server, from their   *)
(* arguments to the reply the host gets.  cesium_ion_connection_create      *)
(* blocks and polls; cesium_ion_connection_create_async, _authorize,        *)
(* _list_assets and _list_tokens answer through a callback, run by a        *)
(* continuation on the main thread.                                         *)
(*                                                                          *)
(* The transport below a call is RequestLifecycle, which HostAccessor       *)
(* implements.  Two threads call: the main one, which also dispatches, and  *)
(* a worker.  What the library calls on the main thread may call back into  *)
(* the library, so calls nest there.  A call is one record; its fields are   *)
(* set by one step each.                                                    *)
(***************************************************************************)
EXTENDS AppId, FiniteSets

CONSTANTS Calls,      \* the calls the host makes
          Mixes,      \* of which kinds: functions that give each call its own
          Texts,      \* the appID arguments it passes to authorize
          AssetLists, TokenLists,   \* lists a server may answer with
          MaxPolls    \* 5000 in the code

ASSUME PollsAssumption == MaxPolls \in Nat \ {0}
Kinds == {"blocking", "async", "authorize", "assets", "tokens"}

ASSUME KindsAssumption == Mixes \subseteq [Calls -> Kinds]
ASSUME TextsAssumption == Texts \subseteq AppIdText
\* An int counts the entries of a list.
ASSUME ListsAssumption == /\ \A items \in AssetLists : Len(items) \in 0 .. Half - 1
                          /\ \A items \in TokenLists : Len(items) \in 0 .. Half - 1

Threads == {"main", "worker"}
Outcomes == {"none", "value", "noValue", "rejected"}

VARIABLES threaded,   \* the build has threads
          calls,      \* what each call has come to
          phase,      \* RequestLifecycle: the request of each call
          delivered,  \* RequestLifecycle: requests whose future is ready
          due,        \* calls whose continuation has its result and has not run
          handles     \* the async system and the accessor, until the host destroys them

vars == <<threaded, calls, phase, delivered, due, handles>>

Transport == INSTANCE RequestLifecycle WITH Requests <- Calls, acks <- [c \in Calls |-> 0]

\* "refused" and "requested": the future is there, from an accessor without and with transport;
\* "inline" and "called": its continuation runs, or its callback has run, inside the chain;
\* "polling": in the dispatch of the loop of the blocking connect, which is else "chained".
CallStages == {"idle", "setup", "refused", "requested", "inline", "called", "chained", "polling",
               "returned"}

Call == [kind : Kinds, thread : Threads, at : CallStages,
         inside : BOOLEAN,       \* made by a host that was called from a dispatch
         within : SUBSET Calls,  \* the calls it was made from
         chained : BOOLEAN,      \* its continuation is attached
         outcome : Outcomes,     \* what its future resolves to
         signIn : {"no", "open", "over"},    \* authorize: the second future
         polls : 0..MaxPolls,
         gotAppData : BOOLEAN,
         reported : BOOLEAN,     \* *pReported
         made : {"no", "handed", "leaked"},  \* the connection or list created for the host
         connected : BOOLEAN,    \* the host holds the connection
         replies : 0..2,         \* callback invocations, or the value returned
         early : BOOLEAN,        \* its continuation replied before the call returned
         badArguments : BOOLEAN,
         threw : BOOLEAN,
         stale : BOOLEAN]        \* a continuation used something that is gone

TypeOK ==
    /\ threaded \in BOOLEAN
    /\ calls \in [Calls -> Call]
    /\ phase \in [Calls -> {"new", "open", "answered", "failed"}]
    /\ delivered \subseteq Calls
    /\ due \subseteq Calls
    /\ handles \subseteq {"asyncSystem", "accessor"}

\* c is at `stage` and becomes `call`.
At(c, stage) == calls[c].at = stage
Becomes(c, call) == calls' = [calls EXCEPT ![c] = call]

Running(c) == calls[c].at \notin {"idle", "returned"}
WorkerFree == \A c \in Calls : Running(c) => calls[c].thread # "worker"

\* The calls the main thread is in; of nested ones, the innermost goes on.
Callers == {c \in Calls : Running(c) /\ calls[c].thread = "main"}
Innermost(c) == \A d \in Calls : Running(d) => c \notin calls[d].within

\* The host has the main thread, to call, answer or dispatch: no call is there, or the innermost
\* one is in beginRequest, in a callback, or in a dispatch, which runs callbacks.
InCallback(c) == calls[c].at \in {"requested", "called", "polling"}
HostRuns == \A c \in Callers : Innermost(c) => InCallback(c)

\* The host hears of the call: through its callback, before the call returns or after, or by
\* what the call returns.
Replied(call) == [call EXCEPT !.replies = @ + 1,
                              !.early = @ \/ (call.kind = "async" /\ call.at # "returned"
                                                /\ ~call.badArguments)]
Handed(call) == [Replied(call) EXCEPT !.made = "handed", !.connected = call.kind \notin {"assets", "tokens"}]

Returned(call) == [call EXCEPT !.at = "returned", !.within = {}]

\* Fault: the flag is not looked at.
ReportAlways(call, connection) == IF connection THEN Handed(call) ELSE Replied(call)

\* report(): only the first one reaches the host; a connection made for a later one is leaked.
Report(call, connection) ==
    IF call.reported THEN [call EXCEPT !.made = IF connection THEN "leaked" ELSE @]
    ELSE [(IF connection THEN Handed(call) ELSE Replied(call)) EXCEPT !.reported = TRUE]

-----------------------------------------------------------------------------
(* The calls. *)

\* A call enters with the handles it needs: the two the host created, or a connection.  On the
\* main thread it may be made from a callback; on the other one only the asynchronous connect is.
Enter(c) ==
    /\ At(c, "idle")
    /\ IF calls[c].kind \in {"assets", "tokens"}
       THEN \E d \in Calls : calls[d].connected
       ELSE handles = {"asyncSystem", "accessor"}
    /\ \/ /\ HostRuns
          /\ \E inside \in BOOLEAN :
                /\ (\E d \in Callers : calls[d].inside \/ At(d, "polling")) => inside
                /\ Becomes(c, [calls[c] EXCEPT !.at = "setup", !.thread = "main",
                                               !.inside = inside, !.within = Callers])
       \/ /\ threaded /\ WorkerFree
          /\ calls[c].kind = "async"
          /\ Becomes(c, [calls[c] EXCEPT !.at = "setup", !.thread = "worker"])
    /\ UNCHANGED <<threaded, phase, delivered, due, handles>>

\* A required argument is null: only the asynchronous connect says so through its callback,
\* and the blocking one returns null.
RefuseArguments(c) ==
    /\ At(c, "idle")
    /\ HostRuns
    /\ LET call == [calls[c] EXCEPT !.badArguments = TRUE]
       IN  Becomes(c, Returned(IF call.kind \in {"blocking", "async"} THEN Replied(call) ELSE call))
    /\ UNCHANGED <<threaded, phase, delivered, due, handles>>

\* The texts authorize refuses as appID, those of no number of 64 bits.
Refused == {text \in Texts : ParseAppId(text) = None}

\* authorize: the appID is refused.
RefuseAppId(c) ==
    /\ At(c, "setup")
    /\ calls[c].kind = "authorize"
    /\ Refused # {}
    /\ Becomes(c, Returned(Replied(calls[c])))
    /\ UNCHANGED <<threaded, phase, delivered, due, handles>>

\* The request is made; where there is no transport its future is ready at once, with a
\* response that carries nothing.
Request(c) ==
    /\ At(c, "setup")
    /\ calls[c].kind = "authorize" => Refused # Texts
    /\ \/ /\ Transport!Open(c)
          /\ Becomes(c, [calls[c] EXCEPT !.at = "requested"])
       \/ /\ Transport!Refuse(c)
          /\ Becomes(c, [calls[c] EXCEPT !.at = "refused", !.outcome = "noValue"])
    /\ UNCHANGED <<threaded, due, handles>>

\* The continuation is attached.  If the future is ready it is due, and runs at once where the
\* call was made inside a dispatch.
Chain(c) ==
    /\ calls[c].at \in {"refused", "requested"}
    /\ Innermost(c)
    /\ Becomes(c, [calls[c] EXCEPT !.chained = TRUE,
                      !.at = IF calls[c].inside /\ c \in delivered THEN "inline" ELSE "chained"])
    /\ due' = IF c \in delivered THEN due \cup {c} ELSE due
    /\ UNCHANGED <<threaded, phase, delivered, handles>>

\* The chain is attached, and what of it ran inline has run.
Resumes(c) == calls[c].at \in {"chained", "called"} /\ Innermost(c)

Return(c) ==
    /\ Resumes(c)
    /\ calls[c].kind # "blocking"
    /\ Becomes(c, Returned(calls[c]))
    /\ UNCHANGED <<threaded, phase, delivered, due, handles>>

\* Before the chain was attached or after; of the blocking connect, where it builds the connection.
MayThrow(c) ==
    \/ calls[c].at \in {"setup", "refused", "requested"} /\ Innermost(c)
    \/ Resumes(c) /\ (calls[c].kind = "blocking" => calls[c].gotAppData)

\* Fault: CESIUM_TRY, which records the error and leaves it at that.
SetupThrowsSilently(c) ==
    /\ MayThrow(c)
    /\ Becomes(c, Returned([calls[c] EXCEPT !.threw = TRUE]))
    /\ UNCHANGED <<threaded, phase, delivered, due, handles>>

\* An exception leaves the call.  All record it; the asynchronous connect also reports it, the
\* blocking one returns null.
SetupThrows(c) ==
    /\ MayThrow(c)
    /\ LET call == [calls[c] EXCEPT !.threw = TRUE]
           told == CASE call.kind = "async" -> Report(call, FALSE)
                     [] call.kind = "blocking" -> Replied(call)
                     [] OTHER -> call
       IN  Becomes(c, Returned(told))
    /\ UNCHANGED <<threaded, phase, delivered, due, handles>>

-----------------------------------------------------------------------------
(* The transport. *)

\* Without threads it runs where the host has the one thread: below a dispatch, or in
\* beginRequest itself, from which a host may answer.
TransportRuns == threaded \/ HostRuns

Settle(c) ==
    /\ TransportRuns
    /\ Transport!Settle(c)
    /\ UNCHANGED <<threaded, calls, due, handles>>

\* The future is ready: with what the server sent, with a response that is no good, or, from
\* an accessor that rejects, with an exception.
Deliver(c) ==
    /\ TransportRuns
    /\ Transport!Deliver(c)
    /\ \E outcome \in IF phase[c] = "answered" THEN {"value", "noValue", "rejected"}
                                               ELSE {"noValue", "rejected"} :
          Becomes(c, [calls[c] EXCEPT !.outcome = outcome])
    /\ due' = IF calls[c].chained THEN due \cup {c} ELSE due
    /\ UNCHANGED <<threaded, handles>>

\* The user has signed in, or not, and the token has been exchanged.
SignInEnds(c) ==
    /\ TransportRuns
    /\ calls[c].signIn = "open"
    /\ \E outcome \in {"value", "noValue", "rejected"} :
          Becomes(c, [calls[c] EXCEPT !.signIn = "over", !.outcome = outcome])
    /\ due' = due \cup {c}
    /\ UNCHANGED <<threaded, phase, delivered, handles>>

-----------------------------------------------------------------------------
(* The continuations, run by a dispatch of the host, by the polls of a blocking connect, or *)
(* inline.  Those that wait in the queue and those that run as their future is resolved come *)
(* in any order.                                                                             *)

Due(c) ==
    /\ c \in due
    /\ "asyncSystem" \in handles
    /\ At(c, "inline") \/ HostRuns

\* A continuation that ran inline calls the host, but for the blocking connect's and for one of
\* the others that a rejection passes over.
Resumed(call) ==
    IF call.at # "inline" THEN call
    ELSE [call EXCEPT !.at =
             IF call.kind = "blocking" \/ (call.kind # "async" /\ call.outcome = "rejected")
             THEN "chained" ELSE "called"]

\* c's continuation makes `call` of it.
Continue(c, call) ==
    /\ Becomes(c, Resumed(call))
    /\ due' = due \ {c}
    /\ UNCHANGED <<threaded, phase, delivered, handles>>

\* It captured appData and gotAppData by reference: the frame of the blocking call.  Only a
\* value is written.
ContinueBlocking(c) ==
    /\ Due(c)
    /\ calls[c].kind = "blocking"
    /\ Continue(c, IF calls[c].outcome # "value" THEN calls[c]
                   ELSE IF Running(c) THEN [calls[c] EXCEPT !.gotAppData = TRUE]
                   ELSE [calls[c] EXCEPT !.stale = TRUE])

\* Fault: the wrapper of the accessor is captured, as in authorize.
ContinueAsyncRaw(c) ==
    /\ Due(c)
    /\ calls[c].kind = "async"
    /\ Continue(c, [Report(calls[c], calls[c].outcome = "value") EXCEPT
                       !.stale = calls[c].outcome = "value" /\ "accessor" \notin handles])

\* catchInMainThread makes a response without a value of a rejection, so there is one
\* continuation for every outcome; it holds the async system and the accessor by value.
ContinueAsync(c) ==
    /\ Due(c)
    /\ calls[c].kind = "async"
    /\ Continue(c, Report(calls[c], calls[c].outcome = "value"))

\* authorize, the application data is here: with it the sign-in starts, and the host is told
\* the URL to open; without it the host gets null.  A rejection reaches no continuation.
ContinueAuthorize(c) ==
    /\ Due(c)
    /\ calls[c].kind = "authorize"
    /\ calls[c].signIn = "no"
    /\ Continue(c, CASE calls[c].outcome = "value" ->
                           [calls[c] EXCEPT !.signIn = "open", !.outcome = "none",
                                            !.stale = @ \/ "accessor" \notin handles]
                     [] calls[c].outcome = "noValue" -> Replied(calls[c])
                     [] OTHER -> calls[c])

\* authorize, the sign-in is over: the connection is given the accessor of the wrapper.
ContinueSignedIn(c) ==
    /\ Due(c)
    /\ calls[c].kind = "authorize"
    /\ calls[c].signIn = "over"
    /\ Continue(c, CASE calls[c].outcome = "value" ->
                           [Handed(calls[c]) EXCEPT !.stale = @ \/ "accessor" \notin handles]
                     [] calls[c].outcome = "noValue" -> Replied(calls[c])
                     [] OTHER -> calls[c])

\* A list or null; nothing of the connection is captured.
Listed(call) == CASE call.outcome = "value" -> Handed(call)
                  [] call.outcome = "noValue" -> Replied(call)
                  [] OTHER -> call

ContinueAssets(c) == Due(c) /\ calls[c].kind = "assets" /\ Continue(c, Listed(calls[c]))
ContinueTokens(c) == Due(c) /\ calls[c].kind = "tokens" /\ Continue(c, Listed(calls[c]))

-----------------------------------------------------------------------------
(* The loop of the blocking connect: its test, a dispatch, which ends when nothing is due, and *)
(* a sleep.                                                                                   *)

Loops(c) == Resumes(c) /\ calls[c].kind = "blocking"

Poll(c) ==
    /\ Loops(c)
    /\ ~calls[c].gotAppData
    /\ calls[c].polls < MaxPolls
    /\ Becomes(c, [calls[c] EXCEPT !.polls = @ + 1, !.at = "polling"])
    /\ UNCHANGED <<threaded, phase, delivered, due, handles>>

PollEnds(c) ==
    /\ At(c, "polling") /\ Innermost(c)
    /\ due = {}
    /\ Becomes(c, [calls[c] EXCEPT !.at = "chained"])
    /\ UNCHANGED <<threaded, phase, delivered, due, handles>>

\* Fault: the count is looked at before the flag.
GiveUpCountFirst(c) ==
    /\ Loops(c)
    /\ calls[c].polls = MaxPolls
    /\ Becomes(c, Returned(Replied(calls[c])))
    /\ UNCHANGED <<threaded, phase, delivered, due, handles>>

GiveUp(c) ==
    /\ Loops(c)
    /\ ~calls[c].gotAppData
    /\ calls[c].polls = MaxPolls
    /\ Becomes(c, Returned(Replied(calls[c])))
    /\ UNCHANGED <<threaded, phase, delivered, due, handles>>

Connect(c) ==
    /\ Loops(c)
    /\ calls[c].gotAppData
    /\ Becomes(c, Returned(Handed(calls[c])))
    /\ UNCHANGED <<threaded, phase, delivered, due, handles>>

-----------------------------------------------------------------------------
(* The host destroys what it holds; not what a call that has not returned is using. *)

DestroyConnection(c) ==
    /\ calls[c].connected
    /\ \A d \in Calls : ~Running(d)
    /\ Becomes(c, [calls[c] EXCEPT !.connected = FALSE])
    /\ UNCHANGED <<threaded, phase, delivered, due, handles>>

DestroyHandle ==
    /\ \A d \in Calls : ~Running(d)
    /\ \E handle \in handles : handles' = handles \ {handle}
    /\ UNCHANGED <<threaded, calls, phase, delivered, due>>

-----------------------------------------------------------------------------
NewCall(kind) ==
    [kind |-> kind, thread |-> "main", at |-> "idle", inside |-> FALSE, within |-> {},
     chained |-> FALSE, outcome |-> "none", signIn |-> "no", polls |-> 0,
     gotAppData |-> FALSE, reported |-> FALSE, made |-> "no", connected |-> FALSE, replies |-> 0,
     early |-> FALSE, badArguments |-> FALSE, threw |-> FALSE, stale |-> FALSE]

Init ==
    /\ threaded \in BOOLEAN
    /\ \E kind \in Mixes : calls = [c \in Calls |-> NewCall(kind[c])]
    /\ Transport!Init
    /\ due = {}
    /\ handles = {"asyncSystem", "accessor"}

\* What a call does once it has entered, up to its return.
Setup(c) == RefuseAppId(c) \/ Request(c) \/ Chain(c) \/ Return(c)
Loop(c) == Poll(c) \/ PollEnds(c) \/ GiveUp(c) \/ Connect(c)
Dispatch(c) == ContinueBlocking(c) \/ ContinueAsync(c) \/ ContinueAuthorize(c)
               \/ ContinueSignedIn(c) \/ ContinueAssets(c) \/ ContinueTokens(c)

Next ==
    \/ \E c \in Calls : Enter(c) \/ RefuseArguments(c) \/ Setup(c) \/ SetupThrows(c)
                        \/ Settle(c) \/ Deliver(c) \/ SignInEnds(c) \/ Dispatch(c) \/ Loop(c)
                        \/ DestroyConnection(c)
    \/ DestroyHandle

Spec == Init /\ [][Next]_vars

\* Threads run, the host answers every request ("must eventually complete or fail it") and
\* pumps; that a user ever signs in is not assumed.
FairSpec == Spec /\ \A c \in Calls : /\ WF_vars(Setup(c) \/ Loop(c))
                                     /\ WF_vars(Settle(c) \/ Deliver(c))
                                     /\ WF_vars(Dispatch(c))

-----------------------------------------------------------------------------
(* Properties. *)

\* "Invoked exactly once when the attempt finishes", and no caller of the others gets a second
\* reply: not from the setup and the chain both, nor from the two stages of authorize.  What was
\* made for a reply that is not given is leaked, so that only happens where the setup threw.  The
\* asynchronous connect replies before it returns (which its header excludes for good arguments)
\* only on a worker, which the main thread may overtake, inside a dispatch, where its continuation
\* may run inline, or because the setup threw.
RepliesOnce ==
    \A c \in Calls :
       /\ calls[c].replies <= 1
       /\ calls[c].made = "leaked" => calls[c].threw
       /\ calls[c].early => calls[c].thread = "worker" \/ calls[c].inside \/ calls[c].threw

\* Continuations that capture by value need nothing the host may have destroyed by then.  Of
\* the others, the blocking connect's writes to its frame only once the polls gave up,
\* and authorize's use the accessor's wrapper, which the host must keep.
CapturesAlive ==
    \A c \in Calls : calls[c].stale =>
       \/ calls[c].kind = "blocking" /\ At(c, "returned") /\ calls[c].polls = MaxPolls
       \/ calls[c].kind = "authorize" /\ "accessor" \notin handles

\* A blocking connect that was made and not thrown out of returns without a connection only after
\* all its polls, none of which brought the data, the last one included.
BlockingHonest ==
    \A c \in Calls :
       calls[c].kind = "blocking" /\ At(c, "returned") /\ calls[c].made # "handed" =>
          \/ calls[c].badArguments \/ calls[c].threw
          \/ calls[c].polls = MaxPolls /\ ~calls[c].gotAppData

AppIdsExact == ParserExact(Texts)
ListsExact == IndexExact(AssetLists, TokenLists)

\* An authorize that is set up takes its appID for the number it denotes, or refuses it, at the
\* ends of the width too, and a list the host holds is read inside its bounds (see AppId).
NumbersExact ==
    \A c \in Calls :
       /\ calls[c].kind = "authorize" /\ At(c, "setup") => AppIdsExact
       /\ calls[c].kind \in {"assets", "tokens"} /\ calls[c].made = "handed" => ListsExact

\* A connect that is made, and its end: the callback, for which the async system is needed, or
\* the return.
Attempted(c) == IF calls[c].kind = "async" THEN At(c, "setup") ELSE calls[c].kind = "blocking" /\ Running(c)
Answered(c) ==
    IF calls[c].kind = "async" THEN calls[c].replies = 1 \/ "asyncSystem" \notin handles
                               ELSE At(c, "returned")

\* "so that no caller ever waits for an attempt that was never made": every asynchronous
\* connect is answered, whatever throws in its setup or is rejected, if the host keeps
\* dispatching; a blocking one returns.
AttemptsAnswered == \A c \in Calls : Attempted(c) ~> Answered(c)

=============================================================================
