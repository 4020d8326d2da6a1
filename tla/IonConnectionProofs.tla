------------------------ MODULE IonConnectionProofs ------------------------
(***************************************************************************)
(* What holds of IonConnection for every number of calls, of whichever      *)
(* kinds, and of its numbers for every width.                               *)
(***************************************************************************)
EXTENDS IonConnection, FiniteSetTheorems, TLAPS

\* How far a call has come, and what cannot have happened to it yet.
Stages(c) ==
    /\ At(c, "idle") => calls[c].thread = "main" /\ ~calls[c].early /\ calls[c].within = {}
    /\ calls[c].at \in {"idle", "setup"} => phase[c] = "new"
    /\ calls[c].at \in {"idle", "setup", "refused", "requested"} =>
          ~calls[c].chained /\ calls[c].replies = 0 /\ ~calls[c].reported
    /\ calls[c].at \in {"inline", "called", "chained", "polling"} => calls[c].chained
    /\ calls[c].at \in {"inline", "called"} => calls[c].inside
    /\ At(c, "polling") => calls[c].kind = "blocking"
    /\ At(c, "called") => calls[c].kind # "blocking"
    /\ calls[c].badArguments => At(c, "returned") /\ ~calls[c].chained
    /\ calls[c].thread = "worker" => calls[c].kind = "async"
    /\ phase[c] \in {"new", "open"} => c \notin delivered

\* A continuation waits only after its future became ready.
Waits(c) ==
    /\ c \in due => calls[c].chained /\ c \in delivered /\ calls[c].signIn # "open"
    /\ calls[c].signIn # "no" =>
          calls[c].chained /\ c \in delivered /\ calls[c].kind = "authorize"

\* When a call that has been replied to can still come to a reply: never, but for the
\* asynchronous connect, which is then told by its flag.
Answers(c) ==
    /\ calls[c].kind \in {"authorize", "assets", "tokens"} /\ calls[c].replies > 0 =>
          /\ c \notin due
          /\ calls[c].signIn # "open"
          /\ IF calls[c].chained THEN c \in delivered ELSE At(c, "returned")
    /\ calls[c].kind = "blocking" /\ calls[c].replies > 0 => At(c, "returned")
    /\ calls[c].kind = "async" /\ calls[c].replies > 0 => calls[c].reported \/ calls[c].badArguments
    /\ calls[c].reported => calls[c].kind = "async"
    /\ calls[c].reported /\ ~calls[c].threw => c \notin due /\ calls[c].chained /\ c \in delivered

\* What a blocking connect knows, and the only ways it has to return once it polls.
Polls(c) ==
    calls[c].kind = "blocking" =>
       /\ calls[c].gotAppData => calls[c].chained /\ c \in delivered /\ c \notin due
       /\ calls[c].chained /\ At(c, "returned") => calls[c].polls = MaxPolls \/ calls[c].gotAppData

\* The properties, of one call.
Once(c) ==
    /\ calls[c].replies <= 1
    /\ calls[c].made = "leaked" => calls[c].threw
    /\ calls[c].early => calls[c].thread = "worker" \/ calls[c].inside \/ calls[c].threw
Captures(c) ==
    calls[c].stale =>
       \/ calls[c].kind = "blocking" /\ At(c, "returned") /\ calls[c].polls = MaxPolls
       \/ calls[c].kind = "authorize" /\ "accessor" \notin handles
Honest(c) ==
    calls[c].kind = "blocking" /\ At(c, "returned") /\ calls[c].made # "handed" =>
       \/ calls[c].badArguments \/ calls[c].threw
       \/ calls[c].polls = MaxPolls /\ ~calls[c].gotAppData

CallInv(c) == /\ Stages(c) /\ Waits(c) /\ Answers(c) /\ Polls(c)
              /\ Once(c) /\ Captures(c) /\ Honest(c)

\* Calls nest: a call from which another one was made waits where the host runs.
Nested == \A c, d \in Calls : Running(d) /\ c \in calls[d].within => InCallback(c)

IInv == TypeOK /\ Nested /\ \A c \in Calls : CallInv(c)

-----------------------------------------------------------------------------
(* What the operators on a call's record leave it with.                     *)

\* What neither a reply nor the return touches, and what a reply does not.
Kept(x, y) ==
    /\ y.kind = x.kind /\ y.thread = x.thread /\ y.inside = x.inside /\ y.chained = x.chained
    /\ y.outcome = x.outcome /\ y.signIn = x.signIn /\ y.polls = x.polls
    /\ y.gotAppData = x.gotAppData /\ y.badArguments = x.badArguments
    /\ y.threw = x.threw /\ y.stale = x.stale
Untouched(x, y) == Kept(x, y) /\ y.at = x.at /\ y.within = x.within

\* A reply given now by the asynchronous connect comes before the call has returned.
Early(x) == x.kind = "async" /\ x.at # "returned" /\ ~x.badArguments

\* A reply counts once, and tells whether it came before the call returned.
LEMMA RepliedFields ==
  ASSUME NEW x \in Call, x.replies = 0
  PROVE  /\ Replied(x) \in Call /\ Untouched(x, Replied(x))
         /\ Replied(x).replies = 1
         /\ Replied(x).early = (x.early \/ Early(x))
         /\ Replied(x).reported = x.reported
         /\ Replied(x).made = x.made
<1> DEFINE y == [x EXCEPT !.replies = @ + 1, !.early = @ \/ Early(x)]
<1>1. Replied(x) = y
  BY DEF Replied, Early
<1>2. Early(x) \in BOOLEAN
  BY DEF Early
<1>3. 1 \in 0..2 /\ 0 + 1 = 1
  OBVIOUS
<1> HIDE DEF Early
<1>4. y \in Call
  BY <1>2, <1>3 DEF Call
<1>5. /\ Untouched(x, y) /\ y.replies = 1 /\ y.early = (x.early \/ Early(x))
      /\ y.reported = x.reported /\ y.made = x.made
  BY <1>3 DEF Call, Untouched, Kept
<1> QED
  BY <1>1, <1>4, <1>5

\* What was made is handed over with the reply.
LEMMA HandedFields ==
  ASSUME NEW x \in Call, x.replies = 0
  PROVE  /\ Handed(x) \in Call /\ Untouched(x, Handed(x))
         /\ Handed(x).replies = 1
         /\ Handed(x).early = (x.early \/ Early(x))
         /\ Handed(x).reported = x.reported
         /\ Handed(x).made = "handed"
<1> DEFINE y == Replied(x)
           z == [y EXCEPT !.made = "handed", !.connected = x.kind \notin {"assets", "tokens"}]
<1>1. /\ y \in Call /\ Untouched(x, y) /\ y.replies = 1
      /\ y.early = (x.early \/ Early(x)) /\ y.reported = x.reported
  BY RepliedFields
<1>2. Handed(x) = z
  BY DEF Handed
<1>3. z \in Call
  <2> DEFINE b == x.kind \notin {"assets", "tokens"}
  <2>1. b \in BOOLEAN
    OBVIOUS
  <2> HIDE DEF b, y
  <2>2. [y EXCEPT !.made = "handed", !.connected = b] \in Call
    BY <1>1, <2>1 DEF Call
  <2> QED
    BY <2>2 DEF b
<1> HIDE DEF y
<1>4. /\ Untouched(x, z) /\ z.replies = y.replies /\ z.early = y.early
      /\ z.reported = y.reported /\ z.made = "handed"
  BY <1>1 DEF Call, Untouched, Kept
<1> QED
  BY <1>1, <1>2, <1>3, <1>4

\* A report replies unless the call has reported; a second one leaks the connection it was given.
LEMMA ReportFields ==
  ASSUME NEW x \in Call, x.reported \/ x.replies = 0, NEW connection \in BOOLEAN
  PROVE  /\ Report(x, connection) \in Call /\ Untouched(x, Report(x, connection))
         /\ Report(x, connection).reported
         /\ x.reported =>
               /\ Report(x, connection).replies = x.replies
               /\ Report(x, connection).early = x.early
               /\ Report(x, connection).made # "leaked" => Report(x, connection).made = x.made
               /\ ~connection => Report(x, connection).made = x.made
         /\ ~x.reported =>
               /\ Report(x, connection).replies = 1
               /\ Report(x, connection).early = (x.early \/ Early(x))
               /\ Report(x, connection).made \in {x.made, "handed"}
<1>1. CASE x.reported
  <2>1. Report(x, connection) = [x EXCEPT !.made = IF connection THEN "leaked" ELSE @]
    BY <1>1 DEF Report
  <2> QED
    BY <1>1, <2>1 DEF Call, Untouched, Kept
<1>2. CASE ~x.reported
  <2> DEFINE y == IF connection THEN Handed(x) ELSE Replied(x)
             z == [y EXCEPT !.reported = TRUE]
  <2>1. Report(x, connection) = z
    BY <1>2 DEF Report
  <2>2. /\ y \in Call /\ Untouched(x, y) /\ y.replies = 1
        /\ y.early = (x.early \/ Early(x)) /\ y.made \in {x.made, "handed"}
    BY <1>2, RepliedFields, HandedFields
  <2> HIDE DEF y
  <2>3. z \in Call
    BY <2>2 DEF Call
  <2>4. Untouched(x, z) /\ z.replies = y.replies /\ z.early = y.early /\ z.reported /\ z.made = y.made
    BY <2>2 DEF Call, Untouched, Kept
  <2> QED
    BY <1>2, <2>1, <2>2, <2>3, <2>4
<1> QED
  BY <1>1, <1>2

\* The return leaves everything else as it is.
LEMMA ReturnedFields ==
  ASSUME NEW x \in Call
  PROVE  /\ Returned(x) \in Call /\ Returned(x).at = "returned" /\ Kept(x, Returned(x))
         /\ Returned(x).replies = x.replies /\ Returned(x).early = x.early
         /\ Returned(x).reported = x.reported /\ Returned(x).made = x.made
BY DEF Returned, Call, CallStages, Kept

\* What a continuation that ran inline changes of the call it ran in: how far that has come.
LEMMA ResumedFields ==
  ASSUME NEW x \in Call
  PROVE  /\ Resumed(x) \in Call /\ Kept(x, Resumed(x)) /\ Resumed(x).within = x.within
         /\ x.at # "inline" => Resumed(x).at = x.at
         /\ x.at = "inline" => /\ Resumed(x).at \in {"chained", "called"}
                               /\ Resumed(x).at = "called" => x.kind # "blocking"
         /\ Resumed(x).replies = x.replies /\ Resumed(x).early = x.early
         /\ Resumed(x).reported = x.reported /\ Resumed(x).made = x.made
<1>1. CASE x.at # "inline"
  <2>1. Resumed(x) = x /\ Kept(x, x)
    BY <1>1 DEF Resumed, Kept
  <2> QED
    BY <1>1, <2>1
<1>2. CASE x.at = "inline"
  <2> DEFINE stage == IF x.kind = "blocking" \/ (x.kind # "async" /\ x.outcome = "rejected")
                      THEN "chained" ELSE "called"
  <2>1. /\ Resumed(x) = [x EXCEPT !.at = stage] /\ stage \in CallStages
        /\ stage \in {"chained", "called"} /\ stage = "called" => x.kind # "blocking"
    BY <1>2 DEF Resumed, CallStages
  <2> HIDE DEF stage
  <2>2. /\ [x EXCEPT !.at = stage] \in Call /\ Kept(x, [x EXCEPT !.at = stage])
        /\ [x EXCEPT !.at = stage].at = stage
    BY <2>1 DEF Call, Kept
  <2> QED
    BY <1>2, <2>1, <2>2 DEF Call, stage
<1> QED
  BY <1>1, <1>2

\* A step that concerns one call leaves the invariant of the others as it was.
LEMMA OtherCall ==
  ASSUME NEW d \in Calls, CallInv(d), UNCHANGED threaded, handles' \subseteq handles,
         calls'[d] = calls[d], phase'[d] = phase[d], d \in delivered' <=> d \in delivered,
         d \in due' => d \in due
  PROVE  CallInv(d)'
<1> USE DEF CallInv, At
<1>1. Stages(d)' /\ Waits(d)' /\ Polls(d)'
  BY DEF Stages, Waits, Polls
<1>2. Answers(d)'
  BY DEF Answers
<1>3. Once(d)' /\ Captures(d)' /\ Honest(d)'
  BY DEF Once, Captures, Honest
<1> QED
  BY <1>1, <1>2, <1>3

\* A step of one call keeps the invariant if that call keeps its own part: the others keep theirs,
\* as they are untouched, and calls stay nested, as only an innermost one leaves its callback and
\* a new one is made where the host runs.
LEMMA StepOf ==
  ASSUME IInv, NEW c \in Calls, NEW x \in Call, Becomes(c, x),
         UNCHANGED threaded, handles' \subseteq handles,
         phase' \in [Calls -> {"new", "open", "answered", "failed"}], delivered' \subseteq Calls,
         due' \subseteq Calls,
         \A d \in Calls : d # c => /\ phase'[d] = phase[d]
                                   /\ d \in delivered' <=> d \in delivered
                                   /\ d \in due' => d \in due,
         x.at \notin {"idle", "returned"} =>
            \/ Running(c) /\ x.within = calls[c].within
            \/ ~Running(c) /\ x.within = {}
            \/ ~Running(c) /\ HostRuns /\ x.within = Callers,
         InCallback(c) => x.at = calls[c].at \/ Innermost(c),
         CallInv(c)'
  PROVE  IInv'
<1>a. TypeOK /\ Nested /\ \A d \in Calls : CallInv(d)
  BY DEF IInv
<1>1. calls'[c] = x /\ \A d \in Calls : d # c => calls'[d] = calls[d]
  BY <1>a DEF Becomes, TypeOK
<1>2. TypeOK'
  BY <1>a DEF TypeOK, Becomes
<1>3. Nested'
  <2> SUFFICES ASSUME NEW e \in Calls, NEW d \in Calls, Running(d)', e \in calls'[d].within
               PROVE  InCallback(e)'
    BY DEF Nested
  <2>1. ASSUME e # c, InCallback(e) PROVE InCallback(e)'
    BY <1>1, <2>1 DEF InCallback
  <2>2. CASE d # c
    <3>1. Running(d) /\ e \in calls[d].within
      BY <1>1, <2>2 DEF Running
    <3>2. InCallback(e) /\ ~Innermost(e)
      BY <1>a, <3>1 DEF Nested, Innermost
    <3>3. ASSUME e = c PROVE InCallback(e)'
      <4>1. x.at = calls[c].at
        BY <3>2, <3>3
      <4> QED
        BY <1>1, <3>2, <3>3, <4>1 DEF InCallback
    <3> QED
      BY <2>1, <3>2, <3>3
  <2>3. CASE d = c
    <3>1. x.at \notin {"idle", "returned"} /\ e \in x.within
      BY <1>1, <2>3 DEF Running
    <3>2. CASE Running(c) /\ x.within = calls[c].within
      <4>1. InCallback(e) /\ ~Innermost(e)
        BY <1>a, <3>1, <3>2 DEF Nested, Innermost
      <4>2. ASSUME e = c PROVE InCallback(e)'
        <5>1. x.at = calls[c].at
          BY <4>1, <4>2
        <5> QED
          BY <1>1, <4>1, <4>2, <5>1 DEF InCallback
      <4> QED
        BY <2>1, <4>1, <4>2
    <3>3. CASE ~Running(c) /\ HostRuns /\ x.within = Callers
      <4>1. e \in Callers /\ e # c
        BY <3>1, <3>3 DEF Callers
      <4>2. InCallback(e)
        BY <1>a, <3>3, <4>1 DEF HostRuns, Innermost, Nested
      <4> QED
        BY <2>1, <4>1, <4>2
    <3> QED
      BY <3>1, <3>2, <3>3
  <2> QED
    BY <2>2, <2>3
<1>4. \A d \in Calls : d # c => CallInv(d)'
  BY <1>a, <1>1, OtherCall
<1> QED
  BY <1>2, <1>3, <1>4 DEF IInv

\* No call is made and nothing is due.
LEMMA InitInv == Init => IInv
<1> SUFFICES ASSUME Init PROVE IInv
  OBVIOUS
<1>1. PICK kind \in Mixes : calls = [c \in Calls |-> NewCall(kind[c])]
  BY DEF Init
<1>2. \A k \in Kinds : NewCall(k) \in Call
  BY PollsAssumption DEF NewCall, Call, CallStages, Threads, Outcomes
<1>3. TypeOK
  <2>1. kind \in [Calls -> Kinds]
    BY <1>1, KindsAssumption
  <2>2. calls \in [Calls -> Call]
    BY <1>1, <1>2, <2>1
  <2> QED BY <2>2 DEF Init, TypeOK, Transport!Init
<1>4. Nested
  BY <1>1 DEF Nested, Running, NewCall
<1>5. ASSUME NEW c \in Calls PROVE CallInv(c)
  <2>1. calls[c] = NewCall(kind[c]) /\ c \notin due /\ phase[c] = "new" /\ c \notin delivered
    BY <1>1 DEF Init, Transport!Init
  <2> QED
    BY <2>1 DEF CallInv, Stages, Waits, Answers, Polls, Once, Captures, Honest, NewCall, At
<1> QED
  BY <1>3, <1>4, <1>5 DEF IInv

-----------------------------------------------------------------------------
(* The calls.                                                               *)

\* What the invariant says of one call.
LEMMA Known ==
  ASSUME IInv, NEW c \in Calls
  PROVE  /\ calls \in [Calls -> Call] /\ calls[c] \in Call
         /\ phase \in [Calls -> {"new", "open", "answered", "failed"}] /\ delivered \subseteq Calls
         /\ due \subseteq Calls /\ Nested
         /\ Stages(c) /\ Waits(c) /\ Answers(c) /\ Polls(c) /\ Once(c) /\ Captures(c) /\ Honest(c)
BY DEF IInv, TypeOK, CallInv

\* A step that only changes the record of a call.
LEMMA LocalStep ==
  ASSUME IInv, NEW c \in Calls, NEW x \in Call, Becomes(c, x),
         UNCHANGED <<threaded, phase, delivered, due, handles>>,
         x.at \notin {"idle", "returned"} =>
            \/ (Running(c) /\ x.within = calls[c].within)
            \/ ~Running(c) /\ x.within = {}
            \/ ~Running(c) /\ HostRuns /\ x.within = Callers,
         InCallback(c) => x.at = calls[c].at \/ Innermost(c),
         calls'[c] = x => CallInv(c)'
  PROVE  IInv'
<1>1. calls'[c] = x
  BY Known DEF Becomes
<1> QED
  BY <1>1, StepOf, Known

\* The host makes a call where it has the main thread, or on the other one.
LEMMA EnterStep ==
  ASSUME IInv, NEW c \in Calls, Enter(c)
  PROVE  IInv'
<1>1. PICK inside \in BOOLEAN, t \in Threads, within \in SUBSET Calls :
         /\ Becomes(c, [calls[c] EXCEPT !.at = "setup", !.thread = t, !.inside = inside,
                                       !.within = within])
         /\ t = "worker" => calls[c].kind = "async"
         /\ (within = {} \/ (HostRuns /\ within = Callers))
  <2>1. calls[c] \in Call /\ Stages(c)
    BY Known
  <2>2. CASE /\ threaded /\ WorkerFree
             /\ calls[c].kind = "async"
             /\ Becomes(c, [calls[c] EXCEPT !.at = "setup", !.thread = "worker"])
    <3>1. calls[c].within = {} /\ calls[c].inside \in BOOLEAN
      BY <2>1 DEF Enter, Stages, Call
    <3>2. [calls[c] EXCEPT !.at = "setup", !.thread = "worker"]
             = [calls[c] EXCEPT !.at = "setup", !.thread = "worker",
                                !.inside = calls[c].inside, !.within = {}]
      BY <2>1, <3>1 DEF Call
    <3> QED
      BY <2>2, <3>1, <3>2 DEF Threads
  <2>3. CASE /\ HostRuns
             /\ \E inside \in BOOLEAN :
                   Becomes(c, [calls[c] EXCEPT !.at = "setup", !.thread = "main",
                                               !.inside = inside, !.within = Callers])
    BY <2>3 DEF Threads, Callers
  <2> QED
    BY <2>2, <2>3 DEF Enter
<1> DEFINE x == [calls[c] EXCEPT !.at = "setup", !.thread = t, !.inside = inside, !.within = within]
<1>a. calls[c] \in Call
  BY Known
<1>2. x \in Call /\ x.within = within
  BY <1>a DEF Call, CallStages
<1>3. At(c, "idle") /\ UNCHANGED <<threaded, phase, delivered, due, handles>>
  BY DEF Enter
<1>4. calls'[c] = x => CallInv(c)'
  BY <1>1, <1>3, Known DEF CallInv, Stages, Waits, Answers, Polls, Once, Captures, Honest, At, Call
<1>5. ~Running(c) /\ ~InCallback(c)
  BY <1>3 DEF Running, InCallback, At
<1> QED
  BY <1>1, <1>2, <1>3, <1>4, <1>5, LocalStep

\* A call with a null argument ends at once; a connect replies null.
LEMMA RefuseArgumentsStep ==
  ASSUME IInv, NEW c \in Calls, RefuseArguments(c)
  PROVE  IInv'
<1> DEFINE w == [calls[c] EXCEPT !.badArguments = TRUE]
           y == IF w.kind \in {"blocking", "async"} THEN Replied(w) ELSE w
           x == Returned(y)
<1>1. Becomes(c, x) /\ At(c, "idle") /\ UNCHANGED <<threaded, phase, delivered, due, handles>>
  BY DEF RefuseArguments
<1>a. calls[c] \in Call
  BY Known
<1>b. calls[c].replies = 0 /\ ~calls[c].early /\ ~calls[c].chained
  BY <1>1, Known DEF Stages, At
<1>2. w \in Call
  BY <1>a DEF Call
<1>c. /\ w.replies = 0 /\ ~w.early /\ w.badArguments /\ ~w.chained
      /\ w.kind = calls[c].kind /\ w.thread = calls[c].thread /\ w.signIn = calls[c].signIn
      /\ w.reported = calls[c].reported /\ w.made = calls[c].made /\ w.threw = calls[c].threw
      /\ w.stale = calls[c].stale /\ w.gotAppData = calls[c].gotAppData
      /\ w.outcome = calls[c].outcome /\ w.polls = calls[c].polls
  BY <1>a, <1>b DEF Call
<1> HIDE DEF w
<1>3. /\ y \in Call /\ Untouched(w, y) /\ ~y.early /\ y.reported = w.reported /\ y.made = w.made
      /\ y.replies \in {0, 1}
      /\ y.replies = 1 => w.kind \in {"blocking", "async"}
  <2>1. CASE w.kind \in {"blocking", "async"}
    BY <1>2, <1>c, <2>1, RepliedFields DEF Early
  <2>2. CASE w.kind \notin {"blocking", "async"}
    <3>1. y = w
      BY <2>2
    <3>2. Untouched(w, w)
      BY DEF Untouched, Kept
    <3> HIDE DEF y
    <3> QED
      BY <1>2, <1>c, <2>2, <3>1, <3>2
  <2> QED
    BY <2>1, <2>2
<1> HIDE DEF y
<1>4. /\ x \in Call
      /\ x.at = "returned" /\ x.badArguments /\ ~x.chained /\ ~x.early
      /\ x.replies = y.replies /\ x.kind = calls[c].kind /\ x.thread = calls[c].thread
      /\ x.signIn = calls[c].signIn /\ x.reported = calls[c].reported
      /\ x.made = calls[c].made /\ x.threw = calls[c].threw
      /\ x.stale = calls[c].stale /\ x.gotAppData = calls[c].gotAppData
      /\ x.outcome = calls[c].outcome /\ x.polls = calls[c].polls
  BY <1>c, <1>3, ReturnedFields DEF Untouched, Kept
<1> HIDE DEF x
<1>5. calls'[c] = x => CallInv(c)'
  BY <1>1, <1>3, <1>4, Known
     DEF CallInv, Stages, Waits, Answers, Polls, Once, Captures, Honest, At
<1>6. ~InCallback(c)
  BY <1>1 DEF InCallback, At
<1> QED
  BY <1>1, <1>4, <1>5, <1>6, LocalStep

\* An appID that is not a number ends the call before anything is requested.
LEMMA RefuseAppIdStep ==
  ASSUME IInv, NEW c \in Calls, RefuseAppId(c)
  PROVE  IInv'
<1> DEFINE y == Replied(calls[c])
           x == Returned(y)
<1>1. /\ Becomes(c, x) /\ At(c, "setup") /\ calls[c].kind = "authorize"
      /\ UNCHANGED <<threaded, phase, delivered, due, handles>>
  BY DEF RefuseAppId
<1>2. /\ y \in Call /\ Untouched(calls[c], y) /\ y.early = calls[c].early /\ y.replies = 1
      /\ y.reported = calls[c].reported /\ y.made = calls[c].made
  BY <1>1, Known, RepliedFields DEF Early, Stages, At, Call
<1> HIDE DEF y
<1>3. /\ x \in Call /\ x.at = "returned" /\ Kept(calls[c], x) /\ x.replies = 1
      /\ x.early = calls[c].early /\ x.reported = calls[c].reported /\ x.made = calls[c].made
  BY <1>2, ReturnedFields DEF Untouched, Kept
<1> HIDE DEF x
<1>4. calls'[c] = x => CallInv(c)'
  BY <1>1, <1>3, Known
     DEF CallInv, Stages, Waits, Answers, Polls, Once, Captures, Honest, At, Kept
<1>5. ~InCallback(c)
  BY <1>1 DEF InCallback, At
<1> QED
  BY <1>1, <1>3, <1>4, <1>5, LocalStep

\* A call returns to the host; what it set going goes on.
LEMMA ReturnStep ==
  ASSUME IInv, NEW c \in Calls, Return(c)
  PROVE  IInv'
<1> DEFINE x == Returned(calls[c])
<1>1. /\ Becomes(c, x) /\ Innermost(c) /\ calls[c].kind # "blocking"
      /\ calls[c].at \in {"chained", "called"}
      /\ UNCHANGED <<threaded, phase, delivered, due, handles>>
  BY DEF Return, Resumes
<1>a. calls[c] \in Call
  BY Known
<1>2. /\ x \in Call /\ x.at = "returned" /\ Kept(calls[c], x) /\ x.replies = calls[c].replies
      /\ x.early = calls[c].early /\ x.reported = calls[c].reported /\ x.made = calls[c].made
  BY <1>a, ReturnedFields
<1> HIDE DEF x
<1>3. calls'[c] = x => CallInv(c)'
  BY <1>1, <1>2, Known
     DEF CallInv, Stages, Waits, Answers, Polls, Once, Captures, Honest, At, Kept
<1> QED
  BY <1>1, <1>2, <1>3, LocalStep

\* The request goes out, and has no answer yet.
LEMMA RequestStep ==
  ASSUME IInv, NEW c \in Calls, Request(c)
  PROVE  IInv'
<1>a. /\ calls[c] \in Call
      /\ phase \in [Calls -> {"new", "open", "answered", "failed"}] /\ delivered \subseteq Calls
      /\ due \subseteq Calls
      /\ Stages(c) /\ Waits(c) /\ Answers(c) /\ Polls(c) /\ Once(c) /\ Captures(c) /\ Honest(c)
  BY Known
<1>b. UNCHANGED due /\ ~InCallback(c) /\ Running(c)
  BY DEF Request, Transport!Open, Transport!Refuse, InCallback, Running, At
<1>1. CASE /\ Transport!Open(c)
           /\ Becomes(c, [calls[c] EXCEPT !.at = "requested"])
  <2> DEFINE x == [calls[c] EXCEPT !.at = "requested"]
  <2>1. x \in Call /\ x.at = "requested" /\ x.within = calls[c].within
    BY <1>a DEF Call, CallStages
  <2>2. /\ At(c, "setup") /\ UNCHANGED <<threaded, due, handles, delivered>>
        /\ phase' = [phase EXCEPT ![c] = "open"]
    BY <1>1 DEF Request, Transport!Open
  <2>3. calls'[c] = x
    BY <1>1, Known DEF Becomes
  <2>4. CallInv(c)'
    BY <1>a, <1>b, <2>2, <2>3 DEF CallInv, Stages, Waits, Answers, Polls, Once, Captures, Honest, At, Call
  <2> QED
    BY <1>1, <1>a, <1>b, <2>1, <2>2, <2>4, StepOf
<1>2. CASE /\ Transport!Refuse(c)
           /\ Becomes(c, [calls[c] EXCEPT !.at = "refused", !.outcome = "noValue"])
  <2> DEFINE x == [calls[c] EXCEPT !.at = "refused", !.outcome = "noValue"]
  <2>1. x \in Call /\ x.at = "refused" /\ x.within = calls[c].within
    BY <1>a DEF Call, CallStages, Outcomes
  <2>2. /\ At(c, "setup") /\ UNCHANGED <<threaded, due, handles>>
        /\ phase' = [phase EXCEPT ![c] = "failed"] /\ delivered' = delivered \cup {c}
    BY <1>2 DEF Request, Transport!Refuse
  <2>3. calls'[c] = x
    BY <1>2, Known DEF Becomes
  <2>4. CallInv(c)'
    BY <1>a, <1>b, <2>2, <2>3 DEF CallInv, Stages, Waits, Answers, Polls, Once, Captures, Honest, At, Call
  <2> QED
    BY <1>2, <1>a, <1>b, <2>1, <2>2, <2>4, StepOf
<1> QED
  BY <1>1, <1>2 DEF Request

\* The continuation is chained, on a request that may be answered already.
LEMMA ChainStep ==
  ASSUME IInv, NEW c \in Calls, Chain(c)
  PROVE  IInv'
<1>a. /\ calls[c] \in Call
      /\ phase \in [Calls -> {"new", "open", "answered", "failed"}] /\ delivered \subseteq Calls
      /\ due \subseteq Calls
      /\ Stages(c) /\ Waits(c) /\ Answers(c) /\ Polls(c) /\ Once(c) /\ Captures(c) /\ Honest(c)
  BY Known
<1> DEFINE stage == IF calls[c].inside /\ c \in delivered THEN "inline" ELSE "chained"
           x == [calls[c] EXCEPT !.chained = TRUE, !.at = stage]
<1>1. /\ Becomes(c, x) /\ calls[c].at \in {"refused", "requested"} /\ Innermost(c)
      /\ UNCHANGED <<threaded, phase, delivered, handles>>
      /\ due' = IF c \in delivered THEN due \cup {c} ELSE due
  BY DEF Chain
<1>2. stage \in {"inline", "chained"} /\ (stage = "inline" => calls[c].inside)
  OBVIOUS
<1>3. ~calls[c].chained /\ c \notin due
  BY <1>1, <1>a DEF Stages, Waits
<1>4. /\ due' \subseteq Calls
      /\ \A d \in Calls : d # c => (d \in due' => d \in due)
      /\ c \in due' => c \in delivered
  BY <1>1, <1>3, <1>a
<1>5. Becomes(c, x) /\ calls'[c] = x
  BY <1>1, Known DEF Becomes
<1> HIDE DEF stage
<1>6. x \in Call /\ x.within = calls[c].within
  BY <1>2, <1>a DEF Call, CallStages
<1>7. CallInv(c)'
  BY <1>1, <1>2, <1>3, <1>4, <1>5, <1>a
     DEF CallInv, Stages, Waits, Answers, Polls, Once, Captures, Honest, At, Call
<1>8. Running(c)
  BY <1>1 DEF Running
<1> QED
  BY <1>1, <1>4, <1>5, <1>6, <1>7, <1>8, <1>a, StepOf

\* The set-up throws: the asynchronous connect reports unless it has, the blocking one returns
\* null.
LEMMA SetupThrowsStep ==
  ASSUME IInv, NEW c \in Calls, SetupThrows(c)
  PROVE  IInv'
<1>a. /\ calls[c] \in Call
      /\ Stages(c) /\ Waits(c) /\ Answers(c) /\ Polls(c) /\ Once(c) /\ Captures(c) /\ Honest(c)
  BY Known
<1> DEFINE w == [calls[c] EXCEPT !.threw = TRUE]
           y == CASE w.kind = "async" -> Report(w, FALSE)
                  [] w.kind = "blocking" -> Replied(w)
                  [] OTHER -> w
           x == Returned(y)
<1>1. /\ Becomes(c, x) /\ MayThrow(c) /\ UNCHANGED <<threaded, phase, delivered, due, handles>>
  BY DEF SetupThrows
<1>2. /\ Innermost(c) /\ calls[c].at \in {"setup", "refused", "requested", "chained", "called"}
      /\ calls[c].kind = "blocking" => ~calls[c].chained \/ calls[c].gotAppData
  BY <1>1, <1>a DEF MayThrow, Resumes, Stages
<1>3. w \in Call
  BY <1>a DEF Call
<1>4. /\ w.threw /\ w.at = calls[c].at
      /\ w.kind = calls[c].kind /\ w.thread = calls[c].thread /\ w.chained = calls[c].chained
      /\ w.signIn = calls[c].signIn /\ w.reported = calls[c].reported /\ w.made = calls[c].made
      /\ w.stale = calls[c].stale /\ w.gotAppData = calls[c].gotAppData
      /\ w.outcome = calls[c].outcome /\ w.polls = calls[c].polls
      /\ w.badArguments = calls[c].badArguments /\ w.replies = calls[c].replies
  BY <1>a DEF Call
<1>5. /\ calls[c].kind = "blocking" => calls[c].replies = 0
      /\ ~calls[c].badArguments
      /\ calls[c].kind = "async" => calls[c].reported \/ calls[c].replies = 0
  BY <1>2, <1>a DEF Stages, Answers, At, Call
<1> HIDE DEF w
<1>6. /\ y \in Call /\ Untouched(w, y)
      /\ w.kind # "async" => y.reported = w.reported
      /\ w.kind = "async" => y.reported
      /\ y.made # "leaked" => y.made \in {w.made, "handed"}
      /\ w.kind = "blocking" => y.made = w.made
      /\ w.kind \notin {"blocking", "async"} => y.replies = w.replies
      /\ y.replies \in {w.replies, 1}
  <2>1. CASE w.kind = "async"
    <3>1. y = Report(w, FALSE)
      BY <2>1
    <3>2. w.reported \/ w.replies = 0
      BY <1>4, <1>5, <2>1
    <3>3. /\ y \in Call /\ Untouched(w, y) /\ y.reported
          /\ w.reported => y.replies = w.replies /\ y.made = w.made
          /\ ~w.reported => y.replies = 1 /\ y.made \in {w.made, "handed"}
      BY <1>3, <3>1, <3>2, ReportFields
    <3> HIDE DEF y
    <3> QED
      BY <2>1, <3>3
  <2>2. CASE w.kind = "blocking"
    <3>1. y = Replied(w)
      BY <2>2
    <3> QED
      BY <1>3, <1>4, <1>5, <2>2, <3>1, RepliedFields
  <2>3. CASE w.kind \notin {"async", "blocking"}
    <3>1. y = w
      BY <2>3
    <3>2. Untouched(w, w)
      BY DEF Untouched, Kept
    <3> HIDE DEF y
    <3> QED
      BY <1>3, <2>3, <3>1, <3>2
  <2> QED
    BY <2>1, <2>2, <2>3
<1> HIDE DEF y
<1>7. /\ x \in Call /\ x.at = "returned" /\ x.threw
      /\ x.kind = calls[c].kind /\ x.thread = calls[c].thread /\ x.chained = calls[c].chained
      /\ x.signIn = calls[c].signIn /\ x.stale = calls[c].stale
      /\ x.gotAppData = calls[c].gotAppData /\ x.outcome = calls[c].outcome
      /\ x.polls = calls[c].polls /\ x.badArguments = calls[c].badArguments
      /\ x.replies = y.replies /\ x.reported = y.reported /\ x.made = y.made
  BY <1>4, <1>6, ReturnedFields DEF Untouched, Kept
<1> HIDE DEF x
<1>8. ASSUME calls'[c] = x PROVE CallInv(c)'
  <2>1. Stages(c)' /\ Waits(c)'
    BY <1>1, <1>2, <1>5, <1>7, <1>8, <1>a DEF Stages, Waits, At
  <2>2. Answers(c)'
    BY <1>1, <1>2, <1>4, <1>5, <1>6, <1>7, <1>8, <1>a DEF Answers, Stages, At
  <2>3. Polls(c)' /\ Captures(c)'
    BY <1>1, <1>2, <1>7, <1>8, <1>a DEF Polls, Captures, At
  <2>4. Once(c)'
    BY <1>1, <1>4, <1>6, <1>7, <1>8, <1>a DEF Once
  <2>5. Honest(c)'
    BY <1>7, <1>8 DEF Honest
  <2> QED
    BY <2>1, <2>2, <2>3, <2>4, <2>5 DEF CallInv
<1> QED
  BY <1>1, <1>2, <1>7, <1>8, LocalStep

-----------------------------------------------------------------------------
(* The transport.                                                           *)

\* The network answers a request or fails it.
LEMMA SettleStep ==
  ASSUME IInv, NEW c \in Calls, Settle(c)
  PROVE  IInv'
<1>a. /\ calls \in [Calls -> Call] /\ calls[c] \in Call
      /\ phase \in [Calls -> {"new", "open", "answered", "failed"}] /\ delivered \subseteq Calls
      /\ due \subseteq Calls
      /\ Stages(c) /\ Waits(c) /\ Answers(c) /\ Polls(c) /\ Once(c) /\ Captures(c) /\ Honest(c)
  BY Known
<1>1. /\ UNCHANGED <<threaded, calls, due, handles, delivered>>
      /\ phase[c] = "open"
      /\ \E outcome \in {"answered", "failed"} : phase' = [phase EXCEPT ![c] = outcome]
  BY DEF Settle, Transport!Settle
<1>3. CallInv(c)'
  BY <1>1, <1>a DEF CallInv, Stages, Waits, Answers, Polls, Once, Captures, Honest, At
<1>4. /\ phase' \in [Calls -> {"new", "open", "answered", "failed"}]
      /\ \A d \in Calls : d # c => phase'[d] = phase[d]
  BY <1>1, <1>a
<1>5. Becomes(c, calls[c])
  BY <1>1, <1>a DEF Becomes
<1>6. calls[c].at \notin {"idle", "returned"} => Running(c)
  BY DEF Running
<1> QED
  BY <1>1, <1>3, <1>4, <1>5, <1>6, <1>a, StepOf

\* The future is ready: the continuation is due, once, if it is attached.
LEMMA DeliverStep ==
  ASSUME IInv, NEW c \in Calls, Deliver(c)
  PROVE  IInv'
<1>a. /\ calls[c] \in Call
      /\ phase \in [Calls -> {"new", "open", "answered", "failed"}] /\ delivered \subseteq Calls
      /\ due \subseteq Calls
      /\ Stages(c) /\ Waits(c) /\ Answers(c) /\ Polls(c) /\ Once(c) /\ Captures(c) /\ Honest(c)
  BY Known
<1>1. /\ UNCHANGED <<threaded, handles, phase>>
      /\ phase[c] \in {"answered", "failed"} /\ c \notin delivered
      /\ delivered' = delivered \cup {c}
      /\ due' = IF calls[c].chained THEN due \cup {c} ELSE due
  BY DEF Deliver, Transport!Deliver, Transport!Settled
<1>2. PICK outcome \in {"value", "noValue", "rejected"} :
         Becomes(c, [calls[c] EXCEPT !.outcome = outcome])
  BY DEF Deliver
<1> DEFINE x == [calls[c] EXCEPT !.outcome = outcome]
<1>3. x \in Call /\ x.within = calls[c].within /\ x.at = calls[c].at
  BY <1>a DEF Call, Outcomes
<1>4. calls'[c] = x
  BY <1>2, Known DEF Becomes
<1>5. c \notin due /\ calls[c].signIn = "no"
  BY <1>1, <1>a DEF Waits
<1>6. /\ due' \subseteq Calls
      /\ \A d \in Calls : d # c => (d \in due' => d \in due)
      /\ c \in due' => calls[c].chained
  BY <1>1, <1>5, <1>a
<1>7. calls[c].at \notin {"idle", "returned"} => Running(c)
  BY DEF Running
<1>8. CallInv(c)'
  BY <1>1, <1>4, <1>5, <1>6, <1>a
     DEF CallInv, Stages, Waits, Answers, Polls, Once, Captures, Honest, At, Call
<1> QED
  BY <1>1, <1>2, <1>3, <1>6, <1>7, <1>8, <1>a, StepOf

\* The user has signed in, or not: the second continuation of the authorization is due.
LEMMA SignInEndsStep ==
  ASSUME IInv, NEW c \in Calls, SignInEnds(c)
  PROVE  IInv'
<1>a. /\ calls[c] \in Call
      /\ phase \in [Calls -> {"new", "open", "answered", "failed"}] /\ delivered \subseteq Calls
      /\ due \subseteq Calls
      /\ Stages(c) /\ Waits(c) /\ Answers(c) /\ Polls(c) /\ Once(c) /\ Captures(c) /\ Honest(c)
  BY Known
<1>1. /\ calls[c].signIn = "open" /\ UNCHANGED <<threaded, phase, delivered, handles>>
      /\ due' = due \cup {c}
  BY DEF SignInEnds
<1>2. PICK outcome \in {"value", "noValue", "rejected"} :
         Becomes(c, [calls[c] EXCEPT !.signIn = "over", !.outcome = outcome])
  BY DEF SignInEnds
<1> DEFINE x == [calls[c] EXCEPT !.signIn = "over", !.outcome = outcome]
<1>3. x \in Call /\ x.within = calls[c].within /\ x.at = calls[c].at
  BY <1>a DEF Call, Outcomes
<1>4. calls'[c] = x
  BY <1>2, Known DEF Becomes
<1>5. c \notin due /\ calls[c].chained /\ c \in delivered /\ calls[c].kind = "authorize"
  BY <1>1, <1>a DEF Waits
<1>6. /\ due' \subseteq Calls
      /\ \A d \in Calls : d # c => (d \in due' => d \in due)
  BY <1>1, <1>a
<1>7. calls[c].replies = 0 /\ (calls[c].reported => calls[c].threw)
  BY <1>1, <1>5, <1>a DEF Answers, Call
<1>8. CallInv(c)'
  BY <1>1, <1>4, <1>5, <1>6, <1>7, <1>a
     DEF CallInv, Stages, Waits, Answers, Polls, Once, Captures, Honest, At, Call
<1>9. calls[c].at \notin {"idle", "returned"} => Running(c)
  BY DEF Running
<1> QED
  BY <1>1, <1>2, <1>3, <1>6, <1>8, <1>9, <1>a, StepOf

-----------------------------------------------------------------------------
(* The continuations.                                                       *)

\* What holds of a call whose continuation runs, and of the step that runs it.
LEMMA Continuing ==
  ASSUME IInv, NEW c \in Calls, Due(c), NEW x, Continue(c, x)
  PROVE  /\ Becomes(c, Resumed(x)) /\ calls'[c] = Resumed(x)
         /\ UNCHANGED <<threaded, phase, delivered, handles>>
         /\ due' \subseteq Calls /\ \A d \in Calls : d \in due' => d \in due
         /\ c \in due /\ c \notin due'
         /\ calls[c].chained /\ c \in delivered /\ calls[c].signIn # "open"
         /\ calls[c].kind # "async" => calls[c].replies = 0 \/ calls[c].kind = "blocking"
         /\ calls[c].kind = "async" =>
               /\ calls[c].reported => calls[c].threw
               /\ calls[c].reported \/ calls[c].replies = 0
<1>a. /\ due \subseteq Calls /\ calls \in [Calls -> Call] /\ calls[c] \in Call
      /\ Stages(c) /\ Waits(c) /\ Answers(c)
  BY Known
<1>b. /\ calls[c].replies \in 0..2
      /\ calls[c].kind \in {"blocking", "async", "authorize", "assets", "tokens"}
  BY <1>a DEF Call, Kinds
<1>1. c \in due /\ due' = due \ {c}
  BY DEF Due, Continue
<1>2. /\ Becomes(c, Resumed(x)) /\ calls'[c] = Resumed(x)
      /\ UNCHANGED <<threaded, phase, delivered, handles>>
  BY <1>a DEF Continue, Becomes
<1>3. calls[c].chained /\ c \in delivered /\ calls[c].signIn # "open"
  BY <1>1, <1>a DEF Waits
<1>4. calls[c].kind # "async" => calls[c].replies = 0 \/ calls[c].kind = "blocking"
  BY <1>1, <1>a, <1>b DEF Answers
<1>5. calls[c].kind = "async" => /\ calls[c].reported => calls[c].threw
                                 /\ calls[c].reported \/ calls[c].replies = 0
  BY <1>1, <1>3, <1>a, <1>b DEF Answers, Stages
<1> QED
  BY <1>1, <1>2, <1>3, <1>4, <1>5, <1>a

\* How far the call of a continuation that runs has come.
LEMMA ContinuingStages ==
  ASSUME IInv, NEW c \in Calls, c \in due, NEW x \in Call, x.at = calls[c].at, x.kind = calls[c].kind
  PROVE  /\ calls[c].at \in {"inline", "called", "chained", "polling", "returned"}
         /\ Resumed(x).at \in {"called", "chained", "polling", "returned"}
         /\ Resumed(x).at \in {calls[c].at, "chained", "called"}
         /\ Resumed(x).at = "called" => calls[c].inside /\ calls[c].kind # "blocking"
         /\ Resumed(x).at = "polling" <=> calls[c].at = "polling"
         /\ Resumed(x).at = "returned" <=> calls[c].at = "returned"
<1>a. calls[c] \in Call /\ Stages(c) /\ Waits(c)
  BY Known
<1>1. calls[c].at \in {"inline", "called", "chained", "polling", "returned"}
  BY <1>a DEF Waits, Stages, Call, CallStages
<1>2. calls[c].at \in {"inline", "called"} => calls[c].inside
  BY <1>a DEF Stages
<1>3. calls[c].at = "called" => calls[c].kind # "blocking"
  BY <1>a DEF Stages, At
<1>4. /\ x.at # "inline" => Resumed(x).at = x.at
      /\ x.at = "inline" => /\ Resumed(x).at \in {"chained", "called"}
                            /\ Resumed(x).at = "called" => x.kind # "blocking"
  BY ResumedFields
<1> QED
  BY <1>1, <1>2, <1>3, <1>4

\* A continuation that runs keeps the invariant if its own call does: it is due no more, and
\* leaves the call where it is, or takes it on from the chain it ran in.
LEMMA ContinueStep ==
  ASSUME IInv, NEW c \in Calls, Due(c), NEW x \in Call, Continue(c, x),
         x.at = calls[c].at, x.within = calls[c].within, CallInv(c)'
  PROVE  IInv'
<1>1. /\ Becomes(c, Resumed(x)) /\ UNCHANGED <<threaded, phase, delivered, handles>>
      /\ due' \subseteq Calls /\ \A d \in Calls : d \in due' => d \in due
  BY Continuing
<1>2. /\ phase \in [Calls -> {"new", "open", "answered", "failed"}] /\ delivered \subseteq Calls
  BY Known
<1>3. /\ Resumed(x) \in Call /\ Resumed(x).within = calls[c].within
      /\ Resumed(x).at = calls[c].at \/ ~InCallback(c)
      /\ Resumed(x).at \notin {"idle", "returned"} => Running(c)
  BY ResumedFields DEF InCallback, Running
<1> QED
  BY <1>1, <1>2, <1>3, StepOf

\* The blocking call's continuation sets the flag of the loop, or a flag in a frame that is gone.
LEMMA ContinueBlockingStep ==
  ASSUME IInv, NEW c \in Calls, ContinueBlocking(c)
  PROVE  IInv'
<1>a. /\ calls[c] \in Call
      /\ phase \in [Calls -> {"new", "open", "answered", "failed"}] /\ delivered \subseteq Calls
      /\ due \subseteq Calls
      /\ Stages(c) /\ Waits(c) /\ Answers(c) /\ Polls(c) /\ Once(c) /\ Captures(c) /\ Honest(c)
  BY Known
<1> DEFINE x == IF calls[c].outcome # "value" THEN calls[c]
                ELSE IF Running(c) THEN [calls[c] EXCEPT !.gotAppData = TRUE]
                ELSE [calls[c] EXCEPT !.stale = TRUE]
           z == Resumed(x)
<1>1. Due(c) /\ calls[c].kind = "blocking" /\ Continue(c, x)
  BY DEF ContinueBlocking
<1>2. /\ x \in Call /\ x.at = calls[c].at /\ x.within = calls[c].within
      /\ x.kind = calls[c].kind /\ x.thread = calls[c].thread /\ x.inside = calls[c].inside
      /\ x.chained = calls[c].chained /\ x.signIn = calls[c].signIn /\ x.polls = calls[c].polls
      /\ x.reported = calls[c].reported /\ x.made = calls[c].made /\ x.replies = calls[c].replies
      /\ x.early = calls[c].early /\ x.badArguments = calls[c].badArguments
      /\ x.threw = calls[c].threw
      /\ x.gotAppData => calls[c].gotAppData \/ Running(c)
      /\ calls[c].gotAppData => x.gotAppData
      /\ x.stale => calls[c].stale \/ ~Running(c)
  <2>1. CASE calls[c].outcome # "value"
    BY <2>1, <1>a
  <2>2. CASE calls[c].outcome = "value" /\ Running(c)
    BY <2>2, <1>a DEF Call
  <2>3. CASE calls[c].outcome = "value" /\ ~Running(c)
    BY <2>3, <1>a DEF Call
  <2> QED
    BY <2>1, <2>2, <2>3
<1> HIDE DEF x
<1>3. /\ calls'[c] = z /\ UNCHANGED <<threaded, phase, delivered, handles>>
      /\ c \in due /\ c \notin due' /\ calls[c].chained /\ c \in delivered
  BY <1>1, Continuing
<1>4. /\ calls[c].at \in {"inline", "called", "chained", "polling", "returned"}
      /\ z.at \in {"chained", "polling", "returned"}
      /\ z.at = "returned" <=> calls[c].at = "returned"
  BY <1>1, <1>2, <1>3, ContinuingStages
<1>5. /\ Kept(x, z) /\ z.replies = x.replies /\ z.early = x.early
      /\ z.reported = x.reported /\ z.made = x.made
  BY <1>2, ResumedFields
<1> HIDE DEF z
<1>6. ~calls[c].gotAppData /\ (At(c, "returned") => calls[c].polls = MaxPolls)
  BY <1>1, <1>3, <1>a DEF Polls
<1>7. ~Running(c) <=> At(c, "returned")
  BY <1>4 DEF Running, At
<1>8. CallInv(c)'
  <2>1. Stages(c)' /\ Waits(c)'
    BY <1>1, <1>2, <1>3, <1>4, <1>5, <1>a DEF Stages, Waits, At, Kept
  <2>2. Answers(c)' /\ Polls(c)'
    BY <1>1, <1>2, <1>3, <1>4, <1>5, <1>6, <1>7, <1>a DEF Answers, Polls, At, Kept
  <2>3. Once(c)' /\ Captures(c)'
    BY <1>1, <1>2, <1>3, <1>4, <1>5, <1>6, <1>7, <1>a DEF Once, Captures, At, Kept
  <2>4. Honest(c)'
    BY <1>1, <1>2, <1>3, <1>4, <1>5, <1>6, <1>7, <1>a DEF Honest, At, Kept
  <2> QED
    BY <2>1, <2>2, <2>3, <2>4 DEF CallInv
<1> QED
  BY <1>1, <1>2, <1>8, ContinueStep

\* A continuation runs before its call has returned on a worker only, or inside a dispatch: a
\* call of the main thread that has attached its chain outside leaves the host no time to dispatch.
LEMMA DispatchedEarly ==
  ASSUME IInv, NEW c \in Calls, Due(c), calls[c].kind = "async", calls[c].at # "returned"
  PROVE  calls[c].thread = "worker" \/ calls[c].inside
<1>a. calls[c] \in Call /\ Stages(c) /\ Waits(c) /\ Nested
  BY Known
<1> SUFFICES ASSUME calls[c].thread # "worker", ~calls[c].inside PROVE FALSE
  OBVIOUS
<1>1. At(c, "chained")
  BY <1>a DEF Due, Waits, Stages, At, Call, CallStages
<1>2. Running(c) /\ ~InCallback(c) /\ HostRuns
  BY <1>1 DEF Running, InCallback, At, Due
<1>3. c \in Callers
  BY <1>2, <1>a DEF Callers, Call, Threads
<1>4. ~Innermost(c)
  BY <1>2, <1>3 DEF HostRuns
<1> QED
  BY <1>2, <1>4, <1>a DEF Innermost, Nested

\* The asynchronous call's continuation reports, once.
LEMMA ContinueAsyncStep ==
  ASSUME IInv, NEW c \in Calls, ContinueAsync(c)
  PROVE  IInv'
<1>a. /\ calls[c] \in Call
      /\ phase \in [Calls -> {"new", "open", "answered", "failed"}] /\ delivered \subseteq Calls
      /\ due \subseteq Calls
      /\ Stages(c) /\ Waits(c) /\ Answers(c) /\ Polls(c) /\ Once(c) /\ Captures(c) /\ Honest(c)
  BY Known
<1> DEFINE connection == calls[c].outcome = "value"
           x == Report(calls[c], connection)
           z == Resumed(x)
<1>1. Due(c) /\ calls[c].kind = "async" /\ Continue(c, x)
  BY DEF ContinueAsync
<1>2. connection \in BOOLEAN
  OBVIOUS
<1>3. /\ calls'[c] = z /\ UNCHANGED <<threaded, phase, delivered, handles>>
      /\ c \in due /\ c \notin due' /\ calls[c].chained /\ c \in delivered
      /\ calls[c].signIn # "open"
      /\ calls[c].reported => calls[c].threw
      /\ calls[c].reported \/ calls[c].replies = 0
  BY <1>1, Continuing
<1> HIDE DEF connection
<1>4. /\ x \in Call /\ Untouched(calls[c], x) /\ x.reported
      /\ calls[c].reported => x.replies = calls[c].replies /\ x.early = calls[c].early
      /\ ~calls[c].reported =>
            /\ x.replies = 1 /\ x.early = (calls[c].early \/ Early(calls[c]))
            /\ x.made \in {calls[c].made, "handed"}
  BY <1>2, <1>3, <1>a, ReportFields
<1>5. Early(calls[c]) => calls[c].thread = "worker" \/ calls[c].inside
  BY <1>1, DispatchedEarly DEF Early
<1> HIDE DEF x
<1>6. /\ x.kind = "async" /\ x.at = calls[c].at /\ x.within = calls[c].within
  BY <1>1, <1>4 DEF Untouched, Kept
<1>7. /\ Kept(calls[c], z) /\ z.reported /\ z.replies = x.replies /\ z.early = x.early
      /\ z.made = x.made
  BY <1>4, ResumedFields DEF Untouched, Kept
<1>8. /\ z.at \in {"called", "chained", "polling", "returned"}
      /\ z.at = "called" => calls[c].inside
      /\ z.at = "polling" => calls[c].at = "polling"
      /\ z.at = "returned" <=> calls[c].at = "returned"
  BY <1>1, <1>3, <1>4, <1>6, ContinuingStages
<1> HIDE DEF z
<1>9. CallInv(c)'
  <2>1. Stages(c)' /\ Waits(c)'
    BY <1>1, <1>3, <1>7, <1>8, <1>a DEF Stages, Waits, At, Kept
  <2>2. Answers(c)' /\ Polls(c)' /\ Honest(c)'
    BY <1>1, <1>3, <1>7 DEF Answers, Polls, Honest, Kept
  <2>3. Captures(c)'
    BY <1>1, <1>3, <1>7, <1>a DEF Captures, Kept
  <2>4. Once(c)'
    <3>1. z.replies <= 1 /\ (z.made = "leaked" => z.threw)
      BY <1>3, <1>4, <1>7, <1>a DEF Once, Kept
    <3>2. z.early => z.thread = "worker" \/ z.inside \/ z.threw
      BY <1>4, <1>5, <1>7, <1>a DEF Once, Kept
    <3> QED
      BY <1>3, <3>1, <3>2 DEF Once
  <2> QED
    BY <2>1, <2>2, <2>3, <2>4 DEF CallInv
<1> QED
  BY <1>1, <1>4, <1>6, <1>9, ContinueStep

\* The other three continuations hand over what was made, report null, or let a rejection pass.
Replying(c, x) ==
    \/ x = calls[c]
    \/ x = Replied(calls[c])
    \/ x = Handed(calls[c])

\* The other continuations reply once at most and change nothing else of the call.
LEMMA ReplyingFields ==
  ASSUME NEW c \in Calls, calls[c] \in Call, calls[c].kind \in {"authorize", "assets", "tokens"},
         calls[c].replies = 0, NEW x, Replying(c, x)
  PROVE  /\ x \in Call /\ Untouched(calls[c], x)
         /\ x.replies \in {0, 1}
         /\ x.early = calls[c].early /\ x.reported = calls[c].reported
         /\ x.made \in {calls[c].made, "handed"}
<1>1. Untouched(calls[c], calls[c]) /\ ~Early(calls[c]) /\ calls[c].early \in BOOLEAN
  BY DEF Untouched, Kept, Early, Call
<1>2. CASE x = calls[c]
  BY <1>1, <1>2
<1>3. CASE x = Replied(calls[c])
  BY <1>1, <1>3, RepliedFields
<1>4. CASE x = Handed(calls[c])
  BY <1>1, <1>4, HandedFields
<1> QED
  BY <1>2, <1>3, <1>4 DEF Replying

\* So they keep the invariant, if only an authorization reads a wrapper the host has destroyed.
LEMMA ReplyingStep ==
  ASSUME IInv, NEW c \in Calls, Due(c), calls[c].kind \in {"authorize", "assets", "tokens"},
         NEW x \in Call, Continue(c, x),
         NEW y, Replying(c, y), Untouched([y EXCEPT !.stale = x.stale], x),
         x.replies = y.replies, x.early = y.early, x.reported = y.reported, x.made = y.made,
         x.stale => calls[c].stale \/ (calls[c].kind = "authorize" /\ "accessor" \notin handles)
  PROVE  IInv'
<1>a. /\ calls[c] \in Call
      /\ phase \in [Calls -> {"new", "open", "answered", "failed"}] /\ delivered \subseteq Calls
      /\ due \subseteq Calls
      /\ Stages(c) /\ Waits(c) /\ Answers(c) /\ Polls(c) /\ Once(c) /\ Captures(c) /\ Honest(c)
  BY Known
<1> DEFINE z == Resumed(x)
<1>1. /\ calls'[c] = z /\ UNCHANGED <<threaded, phase, delivered, handles>>
      /\ c \in due /\ c \notin due' /\ calls[c].chained /\ c \in delivered
      /\ calls[c].signIn # "open" /\ calls[c].replies = 0
  BY Continuing
<1>2. /\ y \in Call /\ Untouched(calls[c], y)
      /\ y.replies \in {0, 1}
      /\ y.early = calls[c].early /\ y.reported = calls[c].reported
      /\ y.made \in {calls[c].made, "handed"}
  BY <1>1, <1>a, ReplyingFields
<1>3. /\ x.at = calls[c].at /\ x.within = calls[c].within /\ x.kind = calls[c].kind
      /\ x.thread = calls[c].thread /\ x.inside = calls[c].inside
      /\ x.signIn = calls[c].signIn /\ x.threw = calls[c].threw /\ x.chained = calls[c].chained
      /\ x.badArguments = calls[c].badArguments
  BY <1>2 DEF Untouched, Kept, Call
<1>4. /\ Kept(x, z) /\ z.replies = y.replies /\ z.early = y.early /\ z.reported = y.reported
      /\ z.made = y.made
  BY ResumedFields
<1>5. /\ z.at \in {"called", "chained", "polling", "returned"}
      /\ z.at = "called" => calls[c].inside
      /\ z.at = "polling" => calls[c].at = "polling"
      /\ z.at = "returned" <=> calls[c].at = "returned"
  BY <1>1, <1>3, ContinuingStages
<1> HIDE DEF z
<1>6. CallInv(c)'
  <2>1. Stages(c)' /\ Waits(c)'
    BY <1>1, <1>3, <1>4, <1>5, <1>a DEF Stages, Waits, At, Kept
  <2>2. Answers(c)' /\ Polls(c)' /\ Honest(c)'
    BY <1>1, <1>2, <1>3, <1>4, <1>a DEF Answers, Polls, Honest, Kept
  <2>3. Captures(c)'
    BY <1>1, <1>3, <1>4, <1>a DEF Captures, At, Kept
  <2>4. Once(c)'
    BY <1>1, <1>2, <1>3, <1>4, <1>a DEF Once, Kept
  <2> QED
    BY <2>1, <2>2, <2>3, <2>4 DEF CallInv
<1> QED
  BY <1>3, <1>6, ContinueStep

\* A list, of assets or of tokens, is handed over once, or null.
LEMMA ContinueListStep ==
  ASSUME IInv, NEW c \in Calls, ContinueAssets(c) \/ ContinueTokens(c)
  PROVE  IInv'
<1>a. /\ calls[c] \in Call
      /\ phase \in [Calls -> {"new", "open", "answered", "failed"}] /\ delivered \subseteq Calls
      /\ due \subseteq Calls
      /\ Stages(c) /\ Waits(c) /\ Answers(c) /\ Polls(c) /\ Once(c) /\ Captures(c) /\ Honest(c)
  BY Known
<1> DEFINE x == Listed(calls[c])
<1>1. Due(c) /\ calls[c].kind \in {"assets", "tokens"} /\ Continue(c, x)
  BY DEF ContinueAssets, ContinueTokens
<1>2. Replying(c, x)
  BY DEF Listed, Replying
<1>3. calls[c].replies = 0
  BY <1>1, Continuing
<1>4. x \in Call /\ Untouched(calls[c], x)
  BY <1>1, <1>2, <1>3, <1>a, ReplyingFields
<1> HIDE DEF x
<1>5. Untouched([x EXCEPT !.stale = x.stale], x) /\ (x.stale => calls[c].stale)
  BY <1>4 DEF Untouched, Kept, Call
<1> QED
  BY <1>1, <1>2, <1>4, <1>5, ReplyingStep

\* A sign-in that succeeded hands over the connection, one that failed replies null.
LEMMA ContinueSignedInStep ==
  ASSUME IInv, NEW c \in Calls, ContinueSignedIn(c)
  PROVE  IInv'
<1>a. /\ calls[c] \in Call
      /\ phase \in [Calls -> {"new", "open", "answered", "failed"}] /\ delivered \subseteq Calls
      /\ due \subseteq Calls
      /\ Stages(c) /\ Waits(c) /\ Answers(c) /\ Polls(c) /\ Once(c) /\ Captures(c) /\ Honest(c)
  BY Known
<1> DEFINE y == Handed(calls[c])
           z == [y EXCEPT !.stale = @ \/ "accessor" \notin handles]
           x == CASE calls[c].outcome = "value" -> z
                  [] calls[c].outcome = "noValue" -> Replied(calls[c])
                  [] OTHER -> calls[c]
<1>1. Due(c) /\ calls[c].kind = "authorize" /\ Continue(c, x)
  BY DEF ContinueSignedIn
<1>2. calls[c].replies = 0
  BY <1>1, Continuing
<1>3. CASE calls[c].outcome = "value"
  <2>1. y \in Call /\ Untouched(calls[c], y) /\ Replying(c, y)
    BY <1>1, <1>2, <1>a, ReplyingFields DEF Replying
  <2>2. y.stale = calls[c].stale
    BY <2>1 DEF Untouched, Kept
  <2>3. x = z
    BY <1>3
  <2> HIDE DEF x, y
  <2>4. z \in Call
    <3> DEFINE b == y.stale \/ "accessor" \notin handles
    <3>1. b \in BOOLEAN /\ z = [y EXCEPT !.stale = b]
      BY <2>1 DEF Call
    <3> HIDE DEF b, z
    <3> QED
      BY <2>1, <3>1 DEF Call
  <2>5. /\ Untouched([y EXCEPT !.stale = z.stale], z)
        /\ z.replies = y.replies /\ z.early = y.early /\ z.reported = y.reported /\ z.made = y.made
    BY <2>1 DEF Untouched, Kept, Call
  <2>6. z.stale => calls[c].stale \/ "accessor" \notin handles
    BY <2>1, <2>2 DEF Call
  <2> HIDE DEF z
  <2> QED
    BY <1>1, <2>1, <2>3, <2>4, <2>5, <2>6, ReplyingStep
<1>4. CASE calls[c].outcome # "value"
  <2>1. Replying(c, x)
    BY <1>4 DEF Replying
  <2>2. x \in Call /\ Untouched(calls[c], x)
    BY <1>1, <1>2, <1>a, <2>1, ReplyingFields
  <2> HIDE DEF x
  <2>3. Untouched([x EXCEPT !.stale = x.stale], x) /\ (x.stale => calls[c].stale)
    BY <2>2 DEF Untouched, Kept, Call
  <2> QED
    BY <1>1, <2>1, <2>2, <2>3, ReplyingStep
<1> QED
  BY <1>3, <1>4

\* Application data starts the sign-in; without it the host gets null.
LEMMA ContinueAuthorizeStep ==
  ASSUME IInv, NEW c \in Calls, ContinueAuthorize(c)
  PROVE  IInv'
<1>a. /\ calls[c] \in Call
      /\ phase \in [Calls -> {"new", "open", "answered", "failed"}] /\ delivered \subseteq Calls
      /\ due \subseteq Calls
      /\ Stages(c) /\ Waits(c) /\ Answers(c) /\ Polls(c) /\ Once(c) /\ Captures(c) /\ Honest(c)
  BY Known
<1> DEFINE z == [calls[c] EXCEPT !.signIn = "open", !.outcome = "none",
                                 !.stale = @ \/ "accessor" \notin handles]
           x == CASE calls[c].outcome = "value" -> z
                  [] calls[c].outcome = "noValue" -> Replied(calls[c])
                  [] OTHER -> calls[c]
<1>1. Due(c) /\ calls[c].kind = "authorize" /\ Continue(c, x)
  BY DEF ContinueAuthorize
<1>2. calls[c].replies = 0
  BY <1>1, Continuing
<1>3. CASE calls[c].outcome = "value"
  <2>1. x = z
    BY <1>3
  <2>2. z \in Call
    <3> DEFINE b == calls[c].stale \/ "accessor" \notin handles
    <3>1. b \in BOOLEAN
             /\ z = [calls[c] EXCEPT !.signIn = "open", !.outcome = "none", !.stale = b]
      BY <1>a DEF Call
    <3> HIDE DEF b, z
    <3> QED
      BY <1>a, <3>1 DEF Call, Outcomes
  <2>3. z.stale => calls[c].stale \/ "accessor" \notin handles
    BY <1>a DEF Call
  <2>4. /\ z.at = calls[c].at /\ z.within = calls[c].within /\ z.kind = "authorize"
        /\ z.thread = calls[c].thread /\ z.inside = calls[c].inside
        /\ z.threw = calls[c].threw /\ z.chained = calls[c].chained
        /\ z.badArguments = calls[c].badArguments /\ z.replies = 0
        /\ z.early = calls[c].early /\ z.reported = calls[c].reported /\ z.made = calls[c].made
    BY <1>1, <1>2, <1>a DEF Call
  <2> HIDE DEF z, x
  <2>5. Continue(c, z)
    BY <1>1, <2>1
  <2>6. /\ calls'[c] = Resumed(z) /\ UNCHANGED <<threaded, phase, delivered, handles>>
        /\ c \in due /\ c \notin due' /\ calls[c].chained /\ c \in delivered
    BY <1>1, <2>5, Continuing
  <2> DEFINE r == Resumed(z)
  <2>7. /\ Kept(z, r) /\ r.replies = 0 /\ r.early = calls[c].early
        /\ r.reported = calls[c].reported /\ r.made = calls[c].made
    BY <2>2, <2>4, ResumedFields
  <2>8. /\ r.at \in {"called", "chained", "polling", "returned"}
        /\ r.at = "called" => calls[c].inside
        /\ r.at = "polling" => calls[c].at = "polling"
        /\ r.at = "returned" <=> calls[c].at = "returned"
    BY <1>1, <2>2, <2>4, <2>6, ContinuingStages
  <2>9. calls'[c] = r
    BY <2>6
  <2> HIDE DEF r
  <2>10. CallInv(c)'
    <3>1. Stages(c)' /\ Waits(c)'
      BY <1>1, <1>a, <2>4, <2>6, <2>7, <2>8, <2>9 DEF Stages, Waits, At, Kept
    <3>2. Answers(c)' /\ Polls(c)' /\ Honest(c)'
      BY <1>1, <1>a, <2>4, <2>6, <2>7, <2>9 DEF Answers, Polls, Honest, Kept
    <3>3. Captures(c)' /\ Once(c)'
      BY <1>1, <1>a, <2>3, <2>4, <2>6, <2>7, <2>9 DEF Captures, Once, Kept
    <3> QED
      BY <3>1, <3>2, <3>3 DEF CallInv
  <2> QED
    BY <1>1, <2>2, <2>4, <2>5, <2>10, ContinueStep
<1>4. CASE calls[c].outcome # "value"
  <2>1. Replying(c, x)
    BY <1>4 DEF Replying
  <2>2. x \in Call /\ Untouched(calls[c], x)
    BY <1>1, <1>2, <1>a, <2>1, ReplyingFields
  <2> HIDE DEF x
  <2>3. Untouched([x EXCEPT !.stale = x.stale], x) /\ (x.stale => calls[c].stale)
    BY <2>2 DEF Untouched, Kept, Call
  <2> QED
    BY <1>1, <2>1, <2>2, <2>3, ReplyingStep
<1> QED
  BY <1>3, <1>4

-----------------------------------------------------------------------------
(* The loop of the blocking connect, and what the host destroys.            *)

\* A blocking call polls once more while it has no result.
LEMMA PollStep ==
  ASSUME IInv, NEW c \in Calls, Poll(c)
  PROVE  IInv'
<1>a. /\ calls[c] \in Call
      /\ Stages(c) /\ Waits(c) /\ Answers(c) /\ Polls(c) /\ Once(c) /\ Captures(c) /\ Honest(c)
  BY Known
<1> DEFINE x == [calls[c] EXCEPT !.polls = @ + 1, !.at = "polling"]
<1>1. /\ Becomes(c, x) /\ calls[c].at \in {"chained", "called"} /\ Innermost(c)
      /\ calls[c].kind = "blocking" /\ calls[c].polls < MaxPolls
      /\ UNCHANGED <<threaded, phase, delivered, due, handles>>
  BY DEF Poll, Loops, Resumes
<1>2. calls[c].polls + 1 \in 0..MaxPolls
  BY <1>1, <1>a, PollsAssumption DEF Call
<1>3. x \in Call /\ x.within = calls[c].within
  BY <1>2, <1>a DEF Call, CallStages
<1>4. Running(c)
  BY <1>1 DEF Running
<1>5. calls'[c] = x => CallInv(c)'
  BY <1>1, <1>a DEF CallInv, Stages, Waits, Answers, Polls, Once, Captures, Honest, At, Call
<1> QED
  BY <1>1, <1>3, <1>4, <1>5, LocalStep

\* Its dispatch has run all that was due.
LEMMA PollEndsStep ==
  ASSUME IInv, NEW c \in Calls, PollEnds(c)
  PROVE  IInv'
<1>a. /\ calls[c] \in Call
      /\ Stages(c) /\ Waits(c) /\ Answers(c) /\ Polls(c) /\ Once(c) /\ Captures(c) /\ Honest(c)
  BY Known
<1> DEFINE x == [calls[c] EXCEPT !.at = "chained"]
<1>1. /\ Becomes(c, x) /\ At(c, "polling") /\ Innermost(c)
      /\ UNCHANGED <<threaded, phase, delivered, due, handles>>
  BY DEF PollEnds
<1>2. x \in Call /\ x.within = calls[c].within
  BY <1>a DEF Call, CallStages
<1>3. Running(c)
  BY <1>1 DEF Running, At
<1>4. calls'[c] = x => CallInv(c)'
  BY <1>1, <1>a DEF CallInv, Stages, Waits, Answers, Polls, Once, Captures, Honest, At, Call
<1> QED
  BY <1>1, <1>2, <1>3, <1>4, LocalStep

\* A blocking call that has polled as often as it may returns null.
LEMMA GiveUpStep ==
  ASSUME IInv, NEW c \in Calls, GiveUp(c)
  PROVE  IInv'
<1>a. /\ calls[c] \in Call
      /\ Stages(c) /\ Waits(c) /\ Answers(c) /\ Polls(c) /\ Once(c) /\ Captures(c) /\ Honest(c)
  BY Known
<1> DEFINE y == Replied(calls[c])
           x == Returned(y)
<1>1. /\ Becomes(c, x) /\ ~calls[c].gotAppData /\ Innermost(c)
      /\ calls[c].at \in {"chained", "called"} /\ calls[c].kind = "blocking"
      /\ calls[c].polls = MaxPolls
      /\ UNCHANGED <<threaded, phase, delivered, due, handles>>
  BY DEF GiveUp, Loops, Resumes
<1>2. calls[c].replies = 0 /\ calls[c].chained /\ ~calls[c].badArguments /\ ~calls[c].stale
  BY <1>1, <1>a DEF Stages, Answers, Captures, At, Call
<1>3. /\ y \in Call /\ Untouched(calls[c], y) /\ y.replies = 1
      /\ y.early = calls[c].early /\ y.reported = calls[c].reported /\ y.made = calls[c].made
  BY <1>1, <1>2, <1>a, RepliedFields DEF Early, Call
<1> HIDE DEF y
<1>4. /\ x \in Call /\ x.at = "returned" /\ Kept(calls[c], x) /\ x.replies = 1
      /\ x.early = calls[c].early /\ x.reported = calls[c].reported /\ x.made = calls[c].made
  BY <1>3, ReturnedFields DEF Untouched, Kept
<1> HIDE DEF x
<1>5. calls'[c] = x => CallInv(c)'
  <2> HAVE calls'[c] = x
  <2>1. /\ calls'[c].kind = "blocking" /\ calls'[c].at = "returned"
        /\ calls'[c].chained /\ calls'[c].replies = 1 /\ ~calls'[c].badArguments
        /\ ~calls'[c].stale /\ calls'[c].early = calls[c].early
        /\ calls'[c].thread = calls[c].thread /\ calls'[c].inside = calls[c].inside
        /\ calls'[c].threw = calls[c].threw /\ calls'[c].signIn = calls[c].signIn
        /\ calls'[c].reported = calls[c].reported /\ calls'[c].outcome = calls[c].outcome
        /\ calls'[c].polls = calls[c].polls /\ calls'[c].gotAppData = calls[c].gotAppData
        /\ calls'[c].made = calls[c].made
    BY <1>1, <1>2, <1>4 DEF Kept
  <2>2. Stages(c)' /\ Waits(c)'
    BY <2>1, <1>1, <1>a DEF Stages, Waits, At
  <2>3. Answers(c)' /\ Polls(c)'
    BY <2>1, <1>1, <1>a DEF Answers, Polls, At
  <2>4. Once(c)' /\ Captures(c)' /\ Honest(c)'
    BY <2>1, <1>1, <1>a DEF Once, Captures, Honest, At
  <2> QED
    BY <2>2, <2>3, <2>4 DEF CallInv
<1> QED
  BY <1>1, <1>4, <1>5, LocalStep

\* A blocking call that found its result returns the connection.
LEMMA ConnectStep ==
  ASSUME IInv, NEW c \in Calls, Connect(c)
  PROVE  IInv'
<1>a. /\ calls[c] \in Call
      /\ Stages(c) /\ Waits(c) /\ Answers(c) /\ Polls(c) /\ Once(c) /\ Captures(c) /\ Honest(c)
  BY Known
<1> DEFINE y == Handed(calls[c])
           x == Returned(y)
<1>1. /\ Becomes(c, x) /\ calls[c].gotAppData /\ Innermost(c)
      /\ calls[c].at \in {"chained", "called"} /\ calls[c].kind = "blocking"
      /\ UNCHANGED <<threaded, phase, delivered, due, handles>>
  BY DEF Connect, Loops, Resumes
<1>2. calls[c].replies = 0 /\ calls[c].chained /\ ~calls[c].badArguments /\ ~calls[c].stale
  BY <1>1, <1>a DEF Stages, Answers, Captures, At, Call
<1>3. /\ y \in Call /\ Untouched(calls[c], y) /\ y.replies = 1
      /\ y.early = calls[c].early /\ y.reported = calls[c].reported /\ y.made = "handed"
  BY <1>1, <1>2, <1>a, HandedFields DEF Early, Call
<1> HIDE DEF y
<1>4. /\ x \in Call /\ x.at = "returned" /\ Kept(calls[c], x) /\ x.replies = 1
      /\ x.early = calls[c].early /\ x.reported = calls[c].reported /\ x.made = "handed"
  BY <1>3, ReturnedFields DEF Untouched, Kept
<1> HIDE DEF x
<1>5. calls'[c] = x => CallInv(c)'
  <2> HAVE calls'[c] = x
  <2>1. /\ calls'[c].kind = "blocking" /\ calls'[c].at = "returned"
        /\ calls'[c].chained /\ calls'[c].replies = 1 /\ ~calls'[c].badArguments
        /\ ~calls'[c].stale /\ calls'[c].early = calls[c].early
        /\ calls'[c].thread = calls[c].thread /\ calls'[c].inside = calls[c].inside
        /\ calls'[c].threw = calls[c].threw /\ calls'[c].signIn = calls[c].signIn
        /\ calls'[c].reported = calls[c].reported /\ calls'[c].outcome = calls[c].outcome
        /\ calls'[c].polls = calls[c].polls /\ calls'[c].gotAppData = calls[c].gotAppData
        /\ calls'[c].made = "handed"
    BY <1>1, <1>2, <1>4 DEF Kept
  <2>2. Stages(c)' /\ Waits(c)'
    BY <2>1, <1>1, <1>a DEF Stages, Waits, At
  <2>3. Answers(c)' /\ Polls(c)'
    BY <2>1, <1>1, <1>a DEF Answers, Polls, At
  <2>4. Once(c)' /\ Captures(c)' /\ Honest(c)'
    BY <2>1, <1>1, <1>a DEF Once, Captures, Honest, At
  <2> QED
    BY <2>2, <2>3, <2>4 DEF CallInv
<1> QED
  BY <1>1, <1>4, <1>5, LocalStep

\* The host destroys a connection it was given.
LEMMA DestroyConnectionStep ==
  ASSUME IInv, NEW c \in Calls, DestroyConnection(c)
  PROVE  IInv'
<1>a. /\ calls[c] \in Call
      /\ Stages(c) /\ Waits(c) /\ Answers(c) /\ Polls(c) /\ Once(c) /\ Captures(c) /\ Honest(c)
  BY Known
<1> DEFINE x == [calls[c] EXCEPT !.connected = FALSE]
<1>1. Becomes(c, x) /\ UNCHANGED <<threaded, phase, delivered, due, handles>>
  BY DEF DestroyConnection
<1>2. x \in Call /\ x.within = calls[c].within /\ x.at = calls[c].at
  BY <1>a DEF Call
<1>3. calls'[c] = x => CallInv(c)'
  BY <1>1, <1>a DEF CallInv, Stages, Waits, Answers, Polls, Once, Captures, Honest, At, Call
<1> QED
  BY <1>1, <1>2, <1>3, LocalStep DEF Running

\* The host destroys a handle: the calls do not change.
LEMMA HandlesStep ==
  ASSUME IInv, UNCHANGED <<threaded, calls, phase, delivered, due>>, handles' \subseteq handles
  PROVE  IInv'
<1>a. TypeOK /\ Nested /\ \A c \in Calls : CallInv(c)
  BY DEF IInv
<1>1. TypeOK' /\ Nested'
  BY <1>a DEF TypeOK, Nested, Running, InCallback
<1>2. \A c \in Calls : CallInv(c)'
  BY <1>a, OtherCall
<1> QED
  BY <1>1, <1>2 DEF IInv

\* Every step of a call, the network or the host keeps the invariant.
LEMMA StepInv == IInv /\ [Next]_vars => IInv'
<1> SUFFICES ASSUME IInv, [Next]_vars PROVE IInv'
  OBVIOUS
<1>1. ASSUME NEW c \in Calls, Setup(c) PROVE IInv'
  BY <1>1, RefuseAppIdStep, RequestStep, ChainStep, ReturnStep DEF Setup
<1>2. ASSUME NEW c \in Calls, Loop(c) PROVE IInv'
  BY <1>2, PollStep, PollEndsStep, GiveUpStep, ConnectStep DEF Loop
<1>3. ASSUME NEW c \in Calls, Dispatch(c) PROVE IInv'
  BY <1>3, ContinueBlockingStep, ContinueAsyncStep, ContinueAuthorizeStep, ContinueSignedInStep,
     ContinueListStep DEF Dispatch
<1>4. ASSUME DestroyHandle PROVE IInv'
  <2>1. UNCHANGED <<threaded, calls, phase, delivered, due>> /\ handles' \subseteq handles
    BY <1>4 DEF DestroyHandle
  <2> QED
    BY <2>1, HandlesStep
<1>5. CASE UNCHANGED vars
  BY <1>5, HandlesStep DEF vars
<1> QED
  BY <1>1, <1>2, <1>3, <1>4, <1>5, EnterStep, RefuseArgumentsStep, SetupThrowsStep, SettleStep,
     DeliverStep, SignInEndsStep, DestroyConnectionStep DEF Next

-----------------------------------------------------------------------------
\* The strengthening of the safety properties is inductive.
THEOREM Inductive == Spec => []IInv
BY InitInv, StepInv, PTL DEF Spec

\* Every call's record keeps to its type: no reply is counted twice, no poll past the last.
THEOREM TypeCorrect == Spec => []TypeOK
<1>1. IInv => TypeOK
  BY DEF IInv
<1> QED
  BY <1>1, Inductive, PTL

\* Whatever throws, is rejected or comes late, no call answers its host twice, nothing is leaked
\* but where the setup threw, and the asynchronous connect replies before it returns only on a
\* worker, inside a dispatch, or because its setup threw.
THEOREM RepliesOnceAlways == Spec => []RepliesOnce
<1>1. IInv => RepliesOnce
  BY DEF IInv, CallInv, Once, RepliesOnce
<1> QED
  BY <1>1, Inductive, PTL

\* What a continuation captured is there when it runs, but for the frame of a blocking connect
\* that gave up and the wrapper authorize relies on the host to keep.
THEOREM CapturesAliveAlways == Spec => []CapturesAlive
<1>1. IInv => CapturesAlive
  BY DEF IInv, CallInv, Captures, CapturesAlive
<1> QED
  BY <1>1, Inductive, PTL

\* A blocking connect that was made and not thrown out of returns without a connection only after
\* all its polls, none of which, the last included, brought the data.
THEOREM BlockingHonestAlways == Spec => []BlockingHonest
<1>1. IInv => BlockingHonest
  BY DEF IInv, CallInv, Honest, BlockingHonest
<1> QED
  BY <1>1, Inductive, PTL

-----------------------------------------------------------------------------
(* The numbers.                                                             *)

\* One round of the parser is exact at every width: from a value of the sign read so far it
\* goes to the value with the digit appended, or gives up if that one is out of the width.
THEOREM DigitStepExact ==
  ASSUME NEW value \in Signed, NEW digit \in Digits, NEW negative \in BOOLEAN,
         IF negative THEN value <= 0 ELSE value >= 0
  PROVE  LET next == IF negative THEN 10 * value - digit ELSE 10 * value + digit
         IN  DigitStep(negative, value, digit) = IF next \in Signed THEN next ELSE None
<1> USE HalfAssumption DEF Signed, Digits
<1>1. CASE ~negative
  <2>1. \/ Half - 1 - digit >= 0 
    OBVIOUS
  <2>2. value > DivTen(Half - 1 - digit) <=> 10 * value + digit > Half - 1
    BY <1>1, <2>1 DEF DivTen
  <2> QED
    BY <1>1, <2>2 DEF DigitStep
<1>2. CASE negative
  <2>1. Half - digit >= 1
    OBVIOUS
  <2>2. DivTen(-Half + digit) = -((Half - digit) \div 10)
    BY <2>1 DEF DivTen
  <2>3. value < DivTen(-Half + digit) <=> 10 * value - digit < -Half
    BY <1>2, <2>1, <2>2
  <2> QED
    BY <1>2, <2>3 DEF DigitStep
<1> QED
  BY <1>1, <1>2

\* A number that has left the width never comes back into it, so giving up at once loses none.
LEMMA NoWayBack ==
  ASSUME NEW number \in Int, number \notin Signed, NEW digit \in Digits
  PROVE  /\ number > 0 => 10 * number + digit \notin Signed
         /\ number < 0 => 10 * number - digit \notin Signed
BY HalfAssumption DEF Signed, Digits

\* A set of numbers that holds one holds a least one.
LEMMA LeastNumber ==
    ASSUME NEW T, T \subseteq Nat, T # {}
    PROVE  \E m \in T : \A k \in T : m <= k
<1> DEFINE F == {0..n : n \in T}
           S == FiniteSubsetsOf(Nat)
           R == StrictSubsetOrdering(Nat)
<1>1. IsWellFoundedOn(R, S)
  BY FS_StrictSubsetOrderingWellFounded
<1>2. F \subseteq S /\ F # {}
  <2>1. ASSUME NEW n \in T PROVE 0..n \in S
    <3>1. IsFiniteSet(0..n)
      BY FS_Interval
    <3>2. 0..n \subseteq Nat
      OBVIOUS
    <3> QED BY <3>1, <3>2 DEF FiniteSubsetsOf
  <2> QED BY <2>1
<1>3. \E x \in F : \A y \in F : ~(<<y, x>> \in R)
  <2> HIDE DEF F, S, R
  <2> QED BY <1>1, <1>2, WFMin
<1>4. PICK m \in T : \A y \in F : ~(<<y, 0..m>> \in R)
  BY <1>3
<1>5. ASSUME NEW k \in T, k < m PROVE FALSE
  <2>1. 0..k \in F /\ 0..k \subseteq 0..m /\ 0..k # 0..m
    <3>1. m \in 0..m /\ m \notin 0..k
      BY <1>5
    <3> QED BY <1>5, <3>1
  <2>2. <<0..k, 0..m>> \in R
    BY <2>1 DEF StrictSubsetOrdering
  <2> QED BY <1>4, <2>1, <2>2
<1> QED BY <1>5

\* Steps of a recursion up to `last`, and the function that starts with `first` and goes on by
\* `step`.
Steps(X, last) == [X \X (1..last) -> X]
Recurs(g, X, first, last, step) ==
    /\ g \in [0..last -> X]
    /\ g[0] = first
    /\ \A n \in 1..last : g[n] = step[<<g[n - 1], n>>]

\* A function on 0..last that starts with `first` and goes on by `step` exists.
LEMMA RecursionExists ==
    ASSUME NEW X, NEW first \in X, NEW last \in Nat, NEW step \in Steps(X, last)
    PROVE  \E g : Recurs(g, X, first, last, step)
<1> USE DEF Steps
<1> DEFINE Sol(g, k) == /\ g \in [0..k -> X]
                        /\ g[0] = first
                        /\ \A n \in 1..k : g[n] = step[<<g[n - 1], n>>]
           T == {k \in 0..last : ~\E g : Sol(g, k)}
<1>1. T = {}
  <2> SUFFICES ASSUME T # {} PROVE FALSE
    OBVIOUS
  <2>1. PICK k \in T : \A j \in T : k <= j
    <3>1. T \subseteq Nat
      OBVIOUS
    <3> HIDE DEF T
    <3> QED BY <3>1, LeastNumber
  <2>2. \E g : Sol(g, 0)
    <3>1. Sol([n \in 0..0 |-> first], 0)
      OBVIOUS
    <3> HIDE DEF Sol
    <3> QED BY <3>1
  <2>3. k # 0 /\ k - 1 \in 0..last /\ k - 1 \notin T /\ k \in 1..last
    <3>1. k # 0
      BY <2>1, <2>2
    <3>2. k - 1 \in 0..last /\ k \in 1..last /\ ~(k <= k - 1)
      BY <3>1
    <3> QED BY <2>1, <3>1, <3>2
  <2>4. PICK g : Sol(g, k - 1)
    BY <2>3
  <2> DEFINE h == [n \in 0..k |-> IF n = k THEN step[<<g[k - 1], k>>] ELSE g[n]]
  <2>5. g[k - 1] \in X
    BY <2>3, <2>4
  <2>6. step[<<g[k - 1], k>>] \in X
    BY <2>3, <2>5
  <2>7. h \in [0..k -> X] /\ h[0] = first
    BY <2>3, <2>4, <2>6
  <2>8. ASSUME NEW n \in 1..k PROVE h[n] = step[<<h[n - 1], n>>]
    <3>1. h[n - 1] = g[n - 1]
      BY <2>3
    <3>2. CASE n = k
      <4>1. h[k] = step[<<g[k - 1], k>>]
        BY <2>3
      <4> HIDE DEF h
      <4> QED BY <3>1, <3>2, <4>1
    <3>3. CASE n # k
      <4>1. n \in 1..k - 1 /\ h[n] = g[n]
        BY <3>3
      <4> QED BY <2>4, <3>1, <4>1
    <3> QED BY <3>2, <3>3
  <2>9. Sol(h, k)
    BY <2>7, <2>8
  <2> QED BY <2>1, <2>9
<1>2. PICK g : Sol(g, last)
  BY <1>1
<1> QED BY <1>2 DEF Recurs

\* Induction up to `last`, the hypothesis being membership of a set.
LEMMA UpTo ==
    ASSUME NEW last \in Nat, NEW P, 0 \in P, \A n \in 1..last : n - 1 \in P => n \in P
    PROVE  \A n \in 0..last : n \in P
<1> DEFINE T == {n \in 0..last : n \notin P}
<1> SUFFICES ASSUME T # {} PROVE FALSE
  OBVIOUS
<1>1. T \subseteq Nat
  OBVIOUS
<1>2. PICK m \in T : \A k \in T : m <= k
  <2> HIDE DEF T
  <2> QED BY <1>1, LeastNumber
<1>3. m \in 1..last /\ m - 1 \in 0..last /\ ~(m <= m - 1)
  BY <1>2
<1>4. m - 1 \in P
  BY <1>2, <1>3
<1> QED BY <1>2, <1>3, <1>4

\* One round of the parser gives an integer or gives up.
LEMMA DigitStepValue ==
    ASSUME NEW negative \in BOOLEAN, NEW value \in Int, NEW digit \in Digits
    PROVE  DigitStep(negative, value, digit) \in Int \cup {None}
<1>1. 10 * value - digit \in Int /\ 10 * value + digit \in Int
  BY DEF Digits
<1> DEFINE down == 10 * value - digit
           up == 10 * value + digit
           low == value < DivTen(-Half + digit)
           high == value > DivTen(Half - 1 - digit)
<1>2. DigitStep(negative, value, digit) =
          IF negative THEN IF low THEN None ELSE down ELSE IF high THEN None ELSE up
  BY DEF DigitStep
<1> HIDE DEF down, up, low, high
<1>3. DigitStep(negative, value, digit) \in {None, down, up}
  BY <1>2
<1> QED BY <1>1, <1>3 DEF down, up

\* The parser's prefixes, up to the first that is refused.
LEMMA Parsed ==
    ASSUME NEW text
    PROVE  \E value \in [0..Len(text.chars) -> Int \cup {None}] :
              /\ value[0] = 0
              /\ \A n \in 1..Len(text.chars) :
                    value[n] = IF value[n - 1] = None \/ text.chars[n] \notin Digits THEN None
                               ELSE DigitStep(text.sign = "-", value[n - 1], text.chars[n])
              /\ ParseAppId(text) = IF text.chars = <<>> THEN None ELSE value[Len(text.chars)]
<1> DEFINE chars == text.chars
           last == Len(chars)
           X == Int \cup {None}
           Round(v, n) == IF v = None \/ chars[n] \notin Digits THEN None
                          ELSE DigitStep(text.sign = "-", v, chars[n])
           step == [p \in X \X (1..last) |-> Round(p[1], p[2])]
           value[n \in 0..Len(chars)] ==
             IF n = 0 THEN 0
             ELSE IF value[n - 1] = None \/ chars[n] \notin Digits THEN None
             ELSE DigitStep(text.sign = "-", value[n - 1], chars[n])
<1>1. last \in Nat /\ 0 \in X
  OBVIOUS
<1>2. ASSUME NEW v \in X, NEW n \in 1..last PROVE Round(v, n) \in X
  <2> HIDE DEF value
  <2>1. CASE v = None \/ chars[n] \notin Digits
    BY <2>1
  <2>2. CASE ~(v = None \/ chars[n] \notin Digits)
    <3>1. v \in Int /\ chars[n] \in Digits
      BY <2>2
    <3>2. (text.sign = "-") \in BOOLEAN
      OBVIOUS
    <3>3. DigitStep(text.sign = "-", v, chars[n]) \in X
      BY <3>1, <3>2, DigitStepValue
    <3> QED BY <2>2, <3>3
  <2> QED BY <2>1, <2>2
<1>3. step \in Steps(X, last)
  BY <1>2 DEF Steps
<1>4. \A v \in X, n \in 1..last : step[<<v, n>>] = Round(v, n)
  OBVIOUS
<1>5. PICK g \in [0..last -> X] : g[0] = 0 /\ \A n \in 1..last : g[n] = step[<<g[n - 1], n>>]
  <2> DEFINE first == 0
  <2>1. first \in X
    BY <1>1
  <2> HIDE DEF step, last, X, first, Round, value
  <2>2. \E g : Recurs(g, X, first, last, step)
    BY <1>1, <1>3, <2>1, RecursionExists
  <2> QED BY <2>2 DEF Recurs, first
<1>6. \A n \in 1..last : n - 1 \in 0..last /\ n \in 0..last /\ n # 0
  BY <1>1
<1>7. \A n \in 1..last : g[n] = Round(g[n - 1], n)
  <2> HIDE DEF step, last, X, Round
  <2> QED BY <1>4, <1>5, <1>6
<1>8. g = [n \in 0..last |-> IF n = 0 THEN 0 ELSE Round(g[n - 1], n)]
  <2>1. g[0] = 0
    BY <1>1, <1>5
  <2>2. \A n \in 0..last : n = 0 \/ n \in 1..last
    BY <1>1
  <2> HIDE DEF step, last, X, Round
  <2> QED BY <1>5, <1>7, <2>1, <2>2
<1>9. value = [n \in 0..last |-> IF n = 0 THEN 0 ELSE Round(value[n - 1], n)]
  BY <1>8
<1>10. value \in [0..last -> X] /\ value[0] = 0 /\ \A n \in 1..last : value[n] = Round(value[n - 1], n)
  <2> DEFINE f == value
             P == {n \in 0..last : f[n] \in X}
  <2>1. f = [n \in 0..last |-> IF n = 0 THEN 0 ELSE Round(f[n - 1], n)]
    BY <1>9
  <2> HIDE DEF value, f, Round, last, X
  <2>2. f[0] = 0 /\ \A n \in 1..last : f[n] = Round(f[n - 1], n)
    BY <1>1, <1>6, <2>1
  <2>3. 0 \in P /\ \A n \in 1..last : n - 1 \in P => n \in P
    BY <1>1, <1>2, <1>6, <2>2
  <2>4. \A n \in 0..last : n \in P
    <3> HIDE DEF P
    <3> QED BY <1>1, <2>3, UpTo
  <2> QED BY <2>1, <2>2, <2>4 DEF f
<1>11. ParseAppId(text) = IF chars = <<>> THEN None ELSE value[last]
  BY DEF ParseAppId
<1> QED
  <2> HIDE DEF value
  <2> QED BY <1>10, <1>11

\* What the text denotes, digit by digit.
LEMMA Denoted ==
    ASSUME NEW text, IsNumber(text)
    PROVE  \E number \in [0..Len(text.chars) -> Int] :
              /\ number[0] = 0
              /\ \A n \in 1..Len(text.chars) : number[n] = 10 * number[n - 1] + text.chars[n]
              /\ Denotes(text) = IF text.sign = "-" THEN -number[Len(text.chars)]
                                                   ELSE number[Len(text.chars)]
<1> DEFINE chars == text.chars
           last == Len(chars)
           X == Int
           Round(v, n) == 10 * v + chars[n]
           step == [p \in X \X (1..last) |-> Round(p[1], p[2])]
           number[n \in 0..Len(chars)] == IF n = 0 THEN 0 ELSE 10 * number[n - 1] + chars[n]
<1>1. last \in Nat /\ 0 \in X
  OBVIOUS
<1>2. ASSUME NEW v \in X, NEW n \in 1..last PROVE Round(v, n) \in X
  <2> HIDE DEF number
  <2>1. chars[n] \in Digits
    BY DEF IsNumber
  <2>2. \A digit \in Digits : 10 * v + digit \in Int
    BY DEF Digits
  <2> QED BY <2>1, <2>2
<1>3. step \in Steps(X, last)
  BY <1>2 DEF Steps
<1>4. \A v \in X, n \in 1..last : step[<<v, n>>] = Round(v, n)
  OBVIOUS
<1>5. PICK g \in [0..last -> X] : g[0] = 0 /\ \A n \in 1..last : g[n] = step[<<g[n - 1], n>>]
  <2> DEFINE first == 0
  <2>1. first \in X
    BY <1>1
  <2> HIDE DEF step, last, X, first, Round, number
  <2>2. \E g : Recurs(g, X, first, last, step)
    BY <1>1, <1>3, <2>1, RecursionExists
  <2> QED BY <2>2 DEF Recurs, first
<1>6. \A n \in 1..last : n - 1 \in 0..last /\ n \in 0..last /\ n # 0
  BY <1>1
<1>7. \A n \in 1..last : g[n] = Round(g[n - 1], n)
  <2> HIDE DEF step, last, X, Round
  <2> QED BY <1>4, <1>5, <1>6
<1>8. g = [n \in 0..last |-> IF n = 0 THEN 0 ELSE Round(g[n - 1], n)]
  <2>1. \A n \in 0..last : n = 0 \/ n \in 1..last
    BY <1>1
  <2> HIDE DEF step, last, X, Round
  <2> QED BY <1>5, <1>7, <2>1
<1>9. number = [n \in 0..last |-> IF n = 0 THEN 0 ELSE Round(number[n - 1], n)]
  BY <1>8
<1>10. number \in [0..last -> X] /\ number[0] = 0 /\ \A n \in 1..last : number[n] = Round(number[n - 1], n)
  <2> DEFINE f == number
             P == {n \in 0..last : f[n] \in X}
  <2>1. f = [n \in 0..last |-> IF n = 0 THEN 0 ELSE Round(f[n - 1], n)]
    BY <1>9
  <2> HIDE DEF number, f, Round, last, X
  <2>2. f[0] = 0 /\ \A n \in 1..last : f[n] = Round(f[n - 1], n)
    BY <1>1, <1>6, <2>1
  <2>3. 0 \in P /\ \A n \in 1..last : n - 1 \in P => n \in P
    BY <1>1, <1>2, <1>6, <2>2
  <2>4. \A n \in 0..last : n \in P
    <3> HIDE DEF P
    <3> QED BY <1>1, <2>3, UpTo
  <2> QED BY <2>1, <2>2, <2>4 DEF f
<1>11. Denotes(text) = IF text.sign = "-" THEN -number[last] ELSE number[last]
  BY DEF Denotes
<1> QED
  <2> HIDE DEF number
  <2> QED BY <1>10, <1>11

\* A text of digits: as far as it has been read, the value is the number read, if that one is of
\* the width, and None if not.
LEMMA NumberParsed ==
    ASSUME NEW text, IsNumber(text)
    PROVE  ParseAppId(text) = IF Denotes(text) \in Signed THEN Denotes(text) ELSE None
<1> DEFINE chars == text.chars
           last == Len(chars)
           negative == text.sign = "-"
<1>1. PICK value \in [0..last -> Int \cup {None}] :
        /\ value[0] = 0
        /\ \A n \in 1..last :
              value[n] = IF value[n - 1] = None \/ chars[n] \notin Digits THEN None
                         ELSE DigitStep(negative, value[n - 1], chars[n])
        /\ ParseAppId(text) = IF chars = <<>> THEN None ELSE value[last]
  BY Parsed
<1>2. PICK number \in [0..last -> Int] :
        /\ number[0] = 0
        /\ \A n \in 1..last : number[n] = 10 * number[n - 1] + chars[n]
        /\ Denotes(text) = IF negative THEN -number[last] ELSE number[last]
  BY Denoted
<1> DEFINE signed(n) == IF negative THEN -number[n] ELSE number[n]
           P == {n \in 0..last : /\ number[n] >= 0
                                 /\ value[n] = IF signed(n) \in Signed THEN signed(n) ELSE None}
<1>3. last \in Nat
  OBVIOUS
<1>4. 0 \in P
  BY <1>1, <1>2, <1>3, HalfAssumption DEF Signed
<1>5. ASSUME NEW n \in 1..last, n - 1 \in P PROVE n \in P
  <2>1. PICK digit \in Digits : digit = chars[n]
    BY DEF IsNumber
  <2>2. PICK before \in Int : before = number[n - 1]
    <3>1. n - 1 \in 0..last
      BY <1>3
    <3> QED BY <1>2, <3>1
  <2>3. number[n] = 10 * before + digit
    BY <1>2, <2>1, <2>2
  <2>4. before >= 0 /\ digit \in 0..9
    BY <1>5, <2>1, <2>2 DEF Digits
  <2>5. value[n] = IF value[n - 1] = None THEN None ELSE DigitStep(negative, value[n - 1], digit)
    BY <1>1, <2>1
  <2>6. value[n - 1] = IF signed(n - 1) \in Signed THEN signed(n - 1) ELSE None
    BY <1>5
  <2>7. PICK was \in Int : was = signed(n - 1) /\ was = IF negative THEN -before ELSE before
    BY <2>2
  <2>8. signed(n) = IF negative THEN 10 * was - digit ELSE 10 * was + digit
    <3> HIDE DEF negative
    <3>1. signed(n) = IF negative THEN -(10 * before + digit) ELSE 10 * before + digit
      BY <2>3
    <3> HIDE DEF signed
    <3> QED BY <2>4, <2>7, <3>1
  <2> HIDE DEF negative
  <2>9. CASE was \in Signed
    <3>1. was # None
      BY NoneAssumption
    <3>2. value[n] = DigitStep(negative, was, digit)
      BY <2>5, <2>6, <2>7, <2>9, <3>1
    <3>3. IF negative THEN was <= 0 ELSE was >= 0
      BY <2>4, <2>7
    <3>4. negative \in BOOLEAN
      BY DEF negative
    <3>5. DigitStep(negative, was, digit) =
            IF signed(n) \in Signed THEN signed(n) ELSE None
      BY <2>8, <2>9, <3>3, <3>4, DigitStepExact
    <3> QED
      BY <1>3, <2>3, <2>4, <3>2, <3>5
  <2>10. CASE was \notin Signed
    <3>1. value[n] = None
      BY <2>5, <2>6, <2>7, <2>10
    <3>2. was # 0 /\ IF negative THEN was < 0 ELSE was > 0
      BY <2>4, <2>7, <2>10, HalfAssumption DEF Signed
    <3>3. signed(n) \notin Signed
      BY <2>8, <2>10, <3>2, NoWayBack
    <3> QED
      BY <1>3, <2>3, <2>4, <3>1, <3>3
  <2> QED
    BY <2>9, <2>10
<1>6. last \in P
  <2>1. \A n \in 0..last : n \in P
    <3> HIDE DEF P, last
    <3> QED BY <1>3, <1>4, <1>5, UpTo
  <2> QED
    BY <1>3, <2>1
<1> QED
  BY <1>1, <1>2, <1>6 DEF IsNumber

\* A text with something else than a digit: from there on there is no value.
LEMMA OtherRefused ==
    ASSUME NEW text \in AppIdText, ~IsNumber(text)
    PROVE  ParseAppId(text) = None
<1> DEFINE chars == text.chars
           last == Len(chars)
<1>1. PICK value \in [0..last -> Int \cup {None}] :
        /\ \A n \in 1..last :
              value[n] = IF value[n - 1] = None \/ chars[n] \notin Digits THEN None
                         ELSE DigitStep(text.sign = "-", value[n - 1], chars[n])
        /\ ParseAppId(text) = IF chars = <<>> THEN None ELSE value[last]
  BY Parsed
<1>2. CASE chars = <<>>
  BY <1>1, <1>2
<1>3. CASE chars # <<>>
  <2>1. PICK i \in 1..last : chars[i] \notin Digits
    BY <1>3 DEF IsNumber
  <2> DEFINE P == {n \in 0..last : n >= i => value[n] = None}
  <2>2. last \in Nat /\ 0 \in P
    OBVIOUS
  <2>3. ASSUME NEW n \in 1..last, n - 1 \in P PROVE n \in P
    <3>1. CASE n = i
      BY <1>1, <2>1, <3>1
    <3>2. CASE n > i
      BY <1>1, <2>3, <3>2
    <3> QED
      BY <3>1, <3>2
  <2>4. \A n \in 0..last : n \in P
    <3> HIDE DEF P, last
    <3> QED BY <2>2, <2>3, UpTo
  <2> QED
    BY <1>1, <1>3, <2>2, <2>4
<1> QED
  BY <1>2, <1>3

\* Every text is parsed to the number it denotes if that one is of the width, and refused if it
\* is not or if the text denotes none, at every width and for texts of any length.
THEOREM ParserExactAlways ==
  ASSUME NEW texts, texts \subseteq AppIdText
  PROVE  ParserExact(texts)
BY NumberParsed, OtherRefused DEF ParserExact

\* The unsigned comparison accepts the indices of the list and no others, whatever the width
\* and the lists, as long as a list has no more entries than an int counts.
THEOREM IndexExactAlways ==
  ASSUME NEW assetLists, NEW tokenLists,
         \A items \in assetLists \cup tokenLists : Len(items) \in 0..Half
  PROVE  IndexExact(assetLists, tokenLists)
<1>1. ASSUME NEW index \in Signed, NEW size \in 0..Half
      PROVE  InList(index, size) <=> index \in 0..size - 1
  BY <1>1, HalfAssumption DEF InList, AsUnsigned, Signed
<1> QED
  BY <1>1 DEF IndexExact, ListCount, AssetId, AssetName, AssetType, TokenName, TokenValue

\* So whatever the host passes to authorize, and whatever list it holds, its numbers are exact.
THEOREM NumbersExactAlways == Spec => []NumbersExact
<1>1. AppIdsExact
  BY TextsAssumption, ParserExactAlways DEF AppIdsExact
<1>2. ListsExact
  <2>1. \A items \in AssetLists \cup TokenLists : Len(items) \in 0..Half
    BY ListsAssumption, HalfAssumption
  <2> QED
    BY <2>1, IndexExactAlways DEF ListsExact
<1>3. NumbersExact
  BY <1>1, <1>2 DEF NumbersExact
<1> QED
  BY <1>3, PTL

=============================================================================
