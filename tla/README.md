# CesiumC: a verification development

CesiumC wraps cesium-native in a C API (`src/include/cesium/*.h`, `src/src/*.cpp`). The part with
logic of its own is the part that has threads, callbacks and shared state: the host-callback asset
accessor, the task processors behind the async system, the continuations that report to the host,
the pointers and cached values it lends out, and the model it rewrites in place. The modules here
model that part, TLC checks them on small instances, and TLAPS proves all but one of the safety properties
those runs check, and the refinement of the queue and the safety half of the accessor's, for every value of the
constants.

## 1. Inventory

| Component | Source | State it keeps | Operations | Interacts with |
|---|---|---|---|---|
| Host-callback asset accessor | `cesium_host_accessor.{h,cpp}` | process-wide registry (id -> promise, request), one `_inFlight` set per accessor, a mutex for each; the response of each request (no lock); the reference count of each accessor | `get`/`request` (start), `cesium_asset_request_complete`/`_fail`, `cancel_all_requests`, pending count, destructor | host callbacks `beginRequest`, `cancelRequest`, `destroy`; the main-thread queue; cesium-native's loaders, which wait on the promise |
| Lock-free task queue | `cesium_async.cpp` 31-89 | cells with a sequence number each, `_head`, `_tail` | `tryPush`, `tryPop` | the thread pool |
| Thread pool | `cesium_async.cpp` 91-141 | `_stop`, `_version`, the threads | `startTask`, `workerLoop`, destructor | cesium-native starts tasks, from workers too |
| Deferred task processor, dispatch | `cesium_async.cpp` 149-225 | `_queue` | `startTask`, `drainDeferredTasks`, `dispatch_main_thread_tasks` | the host's frame loop |
| Asset accessor handles | `cesium_asset_accessor.cpp` | the handle's reference | create (libcurl), destroy | accessor |
| ion connection | `cesium_ion.cpp` | one attempt's continuation chain; connection, lists | connect (blocking, asynchronous), authorize, list assets and tokens | accessor, dispatch, host callbacks |
| Tileset and externals | `cesium_tileset.cpp`, `cesium_wrappers.h` | root-tile callback slot, borrowed view result, scratch buffers | create, destroy, update view, set callback, sample heights, trim | dispatch, renderer resources |
| Tileset options | `cesium_tileset_options.cpp` | the native structure, the load-error closure | create, destroy, setters, getters | tileset, which copies them |
| Renderer resources | `cesium_renderer_resources.{h,cpp}` | the callback table | prepare (load thread, main thread), free, attach, detach, set and clear callbacks | worker threads, host |
| Raster overlays | `cesium_raster_overlays.cpp` | overlay handles | create, add, remove, destroy | tileset |
| Credit system | `cesium_credit_system.cpp` | strings cached by the last count | count, get, next frame | host |
| glTF access and writing | `cesium_gltf.cpp` | the model, renamed while it is written | reader, getters, `write_glb`, `strip_feature_ids` | host |
| Error state | `cesium_errors.cpp`, `cesium_errors_internal.h` | one thread-local string | set, get, clear, `CESIUM_TRY_*` | every entry point |
| View state, tiles, geospatial | the other `.cpp` files | none of their own | getters, setters, geometry | |

What is hard here, and what would make each part correct:

* **The accessor.** Any thread may complete, fail or cancel while another starts requests, the
  main thread dispatches, and the last reference is dropped somewhere. Two tables with a mutex
  each and no lock across them; a destructor that runs inside whichever call lets go last. Correct
  means: every request gets one response, set before its promise is resolved; the promise is
  resolved once, and is resolved; the host is told the truth by return values and callbacks, and
  nothing more after `destroy`.
* **The queue.** Plain moves protected only by sequence numbers and compare-and-swap. Correct:
  no two threads in one cell, each task out once, in order, no false "full" or "empty" beyond
  what a concurrent operation explains.
* **The pool.** A version counter instead of a condition variable; a bounded queue that workers
  also push to; a stop flag. Correct: no lost wakeup, every started task runs, shutdown returns.
* **Deferred tasks.** A bounded drain over a queue that grows while it is drained, by tasks that
  may call back into it. Correct: each task once, in order, none lost across frames.
* **ion.** Continuations that outlive the call that made them. Correct: the callback exactly
  once, nothing used after it is gone, handles free to be destroyed.
* **Tileset, renderer resources, credits.** Borrowed pointers and cached values, with a host that
  may pump or destroy between two steps. Correct: what is prepared is freed by the table that
  prepared it; what is borrowed is what the header says it is for as long as it says.
* **glTF.** An in-place rename with a restoration. Correct: the model is what it was.

`PROJECT.json` lists the hazards line by line, with the properties that cover each.

## 2. Modules

| Module | What it is | Role |
|---|---|---|
| `HostAccessor` | registry, accessors, C calls, main-thread queue, reference counts | model |
| `RequestLifecycle` | what the accessor promises about one request | abstract specification |
| `HostAccessorProofs`, `LockFreeQueueProofs`, `ThreadPoolProofs`, `DeferredTasksProofs`, `IonConnectionProofs`, `TilesetProofs`, `ResourcesProofs`, `GltfProofs` | inductive invariants and theorems, one module per component | proofs |
| `LockFreeQueue` | `tryPush`/`tryPop`, one action per shared-memory access | model |
| `TaskQueue` | bounded FIFO with claim/publish and take/recycle | abstract specification of the queue |
| `ThreadPool` | `startTask`, `workerLoop`, destructor, over an instance of `TaskQueue` | model, composition |
| `DeferredTasks` | the build without threads: drain and dispatch | model |
| `IonConnection` | connect (blocking, asynchronous), authorize, lists: from the call to the reply | model, composed with `RequestLifecycle` and `AppId` |
| `AppId` | the appID parser and the list indices, at a width that is a parameter | pure algorithms with their reference |
| `Tileset` | root-tile callback, view updates, heights, the tileset's life | model, composed with the next two |
| `TilesetOptions` | setters, getters, fallbacks | operators |
| `CreditSystem` | count and get over a snapshot that changes | model |
| `RendererResources` | the callback table, the life of a tile and of a raster tile | model, composed with the next |
| `RasterOverlays` | handles, collection, reference counts, options | model |
| `GltfModel` | GLB writer with the exceptions it may be left by, removal of feature ids, getters of meshes and accessors | model |
| `GltfScene` | getters of scenes, nodes, materials, textures, images | operators |
| `MC*` | constants and symmetry for TLC | model checking |

How they are put together:

* `LockFreeQueue` implements `TaskQueue` (property `ImplementsFifo`), and `ThreadPool` is built on
  `TaskQueue`: so the pool is checked over everything the real queue can do, without its steps.
* `HostAccessor` implements `RequestLifecycle` (property `ImplementsLifecycle`, theorem
  `RefinesLifecycle`), and `IonConnection` is built on an instance of it: each ion call has a
  request that the transport opens, settles and delivers as the accessor promises.
* `RendererResources` extends `RasterOverlays`: a raster tile holds a reference to its overlay.
* `Tileset` extends `TilesetOptions` and `CreditSystem`; `GltfModel` extends `GltfScene`.

### 2.1 HostAccessor

A thread executes one API call at a time; `pc[t]` is its next step, and a step ends where a mutex
is released or shared state is touched.

| Actions | Code |
|---|---|
| `StartWithoutTransport` | `start` with `beginRequest == NULL`: an immediate status-0 answer |
| `StartRegister`, `StartInsert`, `StartInvoke`, `StartReturn` | `CRequestRegistry::add`; the insertion under `_mutex`; `beginRequest` inline or marshalled; the future returned to a caller that attaches its continuation |
| `CompleteTake`, `CompleteForget`, `CompleteRelease`, `CompleteRespond`, `CompletePost` | `completeRequest`, shared by complete and fail: `take`, `weak_ptr::lock` and `forgetRequest`, the pointer going out of scope, `setResponse`, the marshalled resolve and `return 1` |
| `CancelAll`, `SwapOut`, `CancelTake`, `CancelTaken`, `CancelNotify`, `CancelNotified`, `CancelFail`, `CancelPost`, `CancelReturn` | `cancelAllRequests`: swap under `_mutex`, the loop over `take`, the loop over `cancelRequest`, the loop that fails what was taken; then, in the destructor, `destroy` |
| `DropHandle`, `Release`, `Orphaned` | `cesium_asset_accessor_destroy`, and every place a strong reference goes; the last one runs the destructor on that thread, inside that call |
| `DispatchBegin`, `BeginReturn`, `DispatchResolve` | the two lambdas `runInMainThread` marshals |
| `ContinuationDone` | cesium-native destroys a continuation that has run, with what it captured (external) |

State and code: `registry` is `CRequestRegistry::_pending`, `inFlight[a]` is `_inFlight`, `response`
is `_response` (status and body abstracted to answered or failed), `resolved` stands for the
promises resolved, `mainQ` for the tasks given to `runInMainThread`. `handles`, `kept`, and the
calls under way (`Holds`) are the strong references, so `Alive(a)` is "`weak_ptr::lock` succeeds".

Abstractions, each on the side of more behaviour unless said otherwise:

* A host that calls back in from inside a callback is an extra thread between two steps, as no
  lock is held there. A continuation may or may not keep its accessor (`keep`).
* Ids are requests; `_next` is 64 bits and ids are not reused.
* Two steps of `completeRequest` are merged: `lock()` and `forgetRequest`. The pointer is a
  strong reference from the one to the other, so nothing can happen to it between them.
* `runInMainThread` appends to one queue that is dispatched in order. cesium-native runs the
  function at once when called from inside a dispatch; that is the interleaving in which the main
  thread dispatches next, except that the rest of the calling function comes after it. For
  `complete` the rest is only `return 1`; what it means for an ion call, whose continuation may run
  before the call returns, is modelled in `IonConnection`.
* A host does not destroy a handle while another of its own calls is using the same handle
  (`DropHandle`'s guard), and does not complete ids it was never given (`CompleteTake`'s
  `r \in begun`; an unknown id returns 0 and changes nothing, as does one already taken).
* Header and body conversions, and `fail` setting the last error, are not modelled.

### 2.2 LockFreeQueue, TaskQueue, ThreadPool

`LockFreeQueue` has one action per load, compare-and-swap, move and store. The relaxed loads of
`_head` and `_tail` may return any earlier value (`StaleLoad`); `compare_exchange_weak` may fail
spuriously; the sequence numbers, acquire and release, are read and written in one order.
Positions are unbounded: `size_t` wraps after 2^64 pushes, and `Capacity` divides 2^64.

`ThreadPool` models `_version.wait` by the set `asleep`: a worker sleeps only if the version is
still the one it saw, and a notification wakes a waiter only if the version has changed since,
which is what `std::atomic::wait` promises; the C++ library's spurious returns are hidden in
`wait` itself. `TryPush` is the successful end of the retry loop. Tasks are opaque: while one
runs it may start others (`StartTask` on a worker). The destructor runs on a host thread; a task
that holds the last copy of the `AsyncSystem` would make a worker join itself, and whether any
does is up to cesium-native.

### 2.3 DeferredTasks

One thread, so no interleaving: the state is a stack of pump calls, as a task, a continuation or
a callback may pump again. `MaxNesting` bounds the stack. `RunContinuation` and
`ContinuationReturns` are cesium-native's `dispatchMainThreadTasks`.

### 2.4 IonConnection and AppId

A call is one record; `at` is how far it has come. The main thread makes calls and dispatches; a worker
makes asynchronous connects, one at a time.

| Actions | Code (`cesium_ion.cpp`) |
|---|---|
| `Enter`, `RefuseArguments` | the null tests at the head of each call |
| `RefuseAppId` | `authorize`'s digit loop giving up |
| `Request`, `Chain`, `Return` | the `appData`/`authorize`/`assets`/`tokens` future, with transport or without; its continuation attached; the return |
| `SetupThrows` | the `catch` of each entry point |
| `ContinueBlocking`, `ContinueAsync`, `ContinueAuthorize`, `ContinueSignedIn`, `ContinueAssets`, `ContinueTokens` | the lambdas |
| `Poll`, `PollEnds`, `GiveUp`, `Connect` | the blocking connect's loop: the test, the dispatch until nothing is due, the sleep, up to 5000 times |
| `Settle`, `Deliver`, `SignInEnds` | the transport and cesium-native (external) |
| `DestroyConnection`, `DestroyHandle` | the host lets go of what it holds |

Calls nest on the main thread. A host may call, answer a request or dispatch wherever the library has
called it (`HostRuns`): in `beginRequest` (a call that is `requested`), in a callback that ran before
the call returned (`called`), and in whatever the loop of a blocking connect dispatches (`polling`).
`within` names the calls a call was made from; only the innermost goes on (`Innermost`). `inside` says
that the thread was in a dispatch, of the host or of the polls, when the call was made. There a
continuation whose future is ready runs inline, inside `Chain` (`inline`), which is what
`thenInMainThread` does; elsewhere it waits in `due` for the next dispatch.

`due` is a set: the model runs what is due in any order. The queue is dispatched in order, but a
continuation that becomes due inside a dispatch runs as its future is resolved, ahead of the queue, and
the order between the two is not kept track of.

`Report` is the `report` lambda with its shared flag. A continuation that captured something by
reference or by a raw pointer sets `stale` when it uses it after it is gone. `threaded` is the
build: without threads the transport runs only where the host has the one thread
(`TransportRuns == threaded \/ HostRuns`); the polls of a blocking connect are such a place, since what
they dispatch includes the marshalled `beginRequest` and resolve. What a server sends is reduced to
value, no value, or a rejection. An exception of the last lambda of a chain, or inside the polls (a
failed allocation), is not modelled.

`AppId` has the guards of the parser over `-Half .. Half - 1`, with division that truncates, and
the unsigned comparison of a signed index. `ParserExact` compares with the number the text denotes,
`IndexExact` with the list itself.

### 2.5 Tileset, TilesetOptions, CreditSystem

Everything runs on the main thread; the hard part is what happens between two of its calls.

* Root tile: `slot` and `forwarder` are `rootTileCallback` and the one continuation
  `cesium_tileset_set_root_tile_available_callback` registers; `RunForwarder` reads the slot
  through the wrapper's address and sets `strayed` if that is gone.
* Views: `UpdateView` gathers the non-null views, has cesium-native update its result in place,
  and copies the fading tiles; an exception may come before or after the in-place update. The host
  then holds no result (`heldFrame = 0`).
* Heights: `SampleHeight`, `HeightsSampled`, `RunHeights`, `RunHeightsCatch` are the call, the
  native future, the continuation with the two thread-local buffers, and the catch. cesium-native may
  answer with fewer flags than positions.
* Options: the fields are those of the C structure; the copy is made in `CreateTileset`, with the
  load-error closure. `SetOption` does nothing on a null handle, as the code.
* Credits: `CountCredits` refills the cache, `GetCredit` reads it; the snapshot changes at any time.

Host disciplines the model assumes, each a constant or a guard with the reason beside it: with
`HostWaits` a tileset is destroyed only after its forwarder ran (run `tileset_forwarder` drops this);
the height callback does not pump.

### 2.6 RendererResources and RasterOverlays

An object is a tile or the raster tile of an overlay, and carries one opaque pointer from
`unloaded` through `loading`, `loaded` and `ready` back. `PrepareIn...` and `Free...` are the
overrides of `CCallbackRendererResources`; whether a callback is called depends on the table of that moment
(`SetCallbacks` replaces it between any two steps, but not while a load thread runs, which would be
a data race). `owned` is the host's side: what it made and has not taken back. The order in which
cesium-native asks (prepare, attach, detach, free) is external. `RasterOverlays` counts references:
one for the handle, one for each time in the collection, one for a raster tile.

### 2.7 GltfModel and GltfScene

A model is a record of meshes, accessors, buffer views, buffers, extensions and the scene. A name is
`<<prefix, number>>`; a buffer is a sequence of tokens for bytes.

| Actions | Code (`cesium_gltf.cpp`) |
|---|---|
| `Read` | `cesium_gltf_reader_read`: a model of `Models`, or none |
| `RenameOverlays`, `CollapseToSingleBuffer`, `Serialize`, `RestoreOverlays` | the stages of `writeGlbFromModel` |
| `RenameThrows` | an exception in the renaming: at one primitive, with some or all of its overlays erased and some of them renamed, the primitives before it done |
| `WriteThrows` | one of the collapse or of the writer |
| `RestoreThrows` | one of the restoration, after a texture coordinate was erased and before its overlay is back |
| `StripFeatureIds` | `cesium_gltf_model_strip_feature_ids`: the attributes, the two extensions, then the unused accessors, views, buffers and bytes |

The order in which a hash map is iterated is any order, for each primitive its own. `ValidModel` is what
glTF asks of a file as far as this code relies on it, and is assumed of `Models`: a primitive's accessors
are there, and an accessor with a view has a buffer in which its data begin. `Compacted` removes any set
of the bytes no view covers, since how many `compactBuffers` removes depends on alignments that are left
out. `Seen` is everything the host can read through the getters; the properties compare it with what was
seen when the model was read, or after the last write that threw (`known`), and when the last write began
(`before`). `GltfScene!NodeMatrix` and its neighbours are the getters whose defaults depend on one another.

Left out: strides and component types, which come from an accessor and its view as the number of
components does; the padding between buffers the collapse joins; buffer views of images, which are decoded
when they are read; where an extension stands (the primitive, the root, the two lists), as one set stands
for all; numbers of texture coordinates at the end of an `int32_t` (`WriteBegins`), beyond which the
increment is undefined; an exception half-way through the collapse or through the removal of feature ids.

## 3. What TLC checks

| Run | Instance | Shows |
|---|---|---|
| `host_accessor_safety` | 3 threads (one is main), 1 accessor, 2 requests, all callback tables | `OneHolder`, `SettledOnce`, `ResolveOnceAfterResponse`, `AckMeansAnswered`, `CancelledOnce`, `InFlightAgrees`, `DestroyedSettled`, `QuietAfterDestroy` |
| `host_accessor_liveness` | 2 threads, 1 accessor, 2 requests, fair | `DeadAccessorSettles`, `ImplementsLifecycle` |
| `lock_free_queue` | 3 threads, 5 tasks, 2 cells | data-race freedom, exactly once, honest refusals, `ImplementsFifo` |
| `thread_pool` | 3 workers, 1 client, 2 tasks, 2 places, fair | `EachTaskOnce`, `NoLostWakeup`, `RunsUnlessStopped` |
| `deferred_tasks` | 4 tasks, 2 rounds, 2 nested calls, fair host | `EachTaskOnce`, `InOrder`, `OneCallPerFrame`, `LeftoverRuns` |
| `ion` | 2 calls, 10 pairs of kinds, nested or not, both builds, fair | `RepliesOnce`, `CapturesAlive`, `BlockingHonest`, `NumbersExact`, `AttemptsAnswered` |
| `tileset` | 2 callbacks, 2 height requests, 2 frames, 2 credits, fair | `OptionsFrozen`, `ViewConsistent`, `HeightsOwn`, `CreditsReadable`, `RootCallbackCurrent`, `HeightsAnswered` |
| `renderer` | 3 tiles, one without a model, 1 overlay, 3 tables | `ResourcesHeld`, `NoneLost`, `OverlayHeld`, `OptionsKept` |
| `gltf` | 3 models, 3 writes | `ModelKept`, `ThrowKeepsRest`, `GlbComplete`, `NodesPlaced` |
| `host_accessor_begin_after_cancel`, `thread_pool_destructor`, `tileset_forwarder` | | statements of the docs the code does not keep (section 5) |

Why the bounds are enough to be interesting:

* Three threads are a completion, a cancellation and the main thread at once, with two requests,
  so that a cancellation takes one and loses the other. A second accessor only matters through the
  registry, where ids are never shared; the theorems of section 4 hold for every number of threads,
  accessors and requests.
* Two cells and five tasks are two and a half laps; with three threads one can be parked in a cell
  while the other two lap it.
* Three workers with two tasks let one worker be woken for another's task and one sleep through
  it; the tasks may start one another, so pushes come from the client and from workers at once.
* `maxRoundsPerDrain` is 8 in the code and 2 here; the chain of four tasks is longer than that.
* `ion`: two calls interleave and nest in every pair of the three kinds that connect, and each of the
  three with an asset list of its connection (a token list does the same and is paired with one; two
  lists at once would need a third call that connects); `MaxPolls = 2` is the 5000 of the code, with
  a first poll, a last one, and an answer after it. `Half = 16`: three characters reach past both
  ends of the width, digit by digit around the two guards.
* `tileset`: `MaxParts = 2`, since the parts of the wrapper (options, root, views, heights, credits)
  share nothing but the tileset itself, and each pair is explored. Two frames give an update that
  fails over one that succeeded; requests of two and one positions give the shared buffer a longer
  and a shorter user.
* `renderer`: `MaxAdded = 2` adds an overlay twice; the tables leave out one callback of each stage.
* `gltf`: `MaxWrites = 3` writes a model, writes it again after a failure or after the feature ids
  went, and once more. The models have buffers, views and bytes only a feature id uses, a byte no view
  covers between two views, a view of two accessors, gaps below a texture coordinate, two and three
  overlays in a primitive, and nodes with every combination of absent, default and other values.

Symmetry is used in `host_accessor_safety` and `lock_free_queue` only, over threads other than main,
requests and tasks, which the modules treat alike; `ion` takes each pair of kinds it checks (`Mixes`) once.
`CHECK_DEADLOCK FALSE` is set where the system may stop: everything answered and every handle gone, every worker asleep, or a bound reached.

**Fairness.** `HostAccessor!FairSpec`: a call once begun runs to its end (weak fairness of
`Finish(t)`: threads are scheduled and callbacks return), and the host dispatches again and again
(strong fairness of `Dispatch`, since between two dispatches the main thread makes calls of its
own; the header asks for a dispatch per frame). Nothing makes the host answer a request or destroy
a handle. `ThreadPool!FairSpec`: every thread is scheduled and every task returns. Nothing makes
the host start tasks or destroy the pool. `DeferredTasks!FairSpec`: tasks return, and the host
pumps each frame. `IonConnection!FairSpec`: a call runs to its end, the transport settles and
delivers each request (the host must "eventually complete or fail it"; delivery is what
`HostAccessor` promises), the loop of a blocking connect goes on, and what is due is dispatched, by the
host or by the polls. That a user signs in is not assumed. Without threads delivery and dispatch are
possible only where the host has the thread, which a blocking connect gives back at the latest when its
polls are over.
`Tileset!FairSpec`: cesium-native finishes each height request and the host pumps.

The type invariants are proved (section 4) and part of no run. Every property of a passing run has a
mutant in `PROJECT.json`: a fault of the kind a programmer makes, written next to the definition it
replaces, under which the same run reports the property violated.

## 4. What is proved

Every theorem is of the module's `Spec`, with no bound but those the module names, and for every value of
the constants its assumptions allow. The eight proof modules extend the component they are about.

| Module | Theorem | Statement |
|---|---|---|
| `HostAccessorProofs` | `TypeCorrect` | `[]TypeOK` |
| | `OneHolderAlways` | `[]OneHolder` |
| | `ResolveOnceAlways` | `[]ResolveOnceAfterResponse` |
| | `AckMeansAnsweredAlways` | `[]AckMeansAnswered` |
| | `SettledOnceAlways` | `SettledOnce` |
| | `InFlightAgreesAlways` | `[]InFlightAgrees` |
| | `DestroyedSettledAlways` | `[]DestroyedSettled` |
| | `CancelledOnceAlways` | `CancelledOnce` |
| | `QuietAfterDestroyAlways` | `QuietAfterDestroy` |
| | `RefinesLifecycle` | `Lifecycle!SafeSpec`, the safety half of `ImplementsLifecycle` |
| `LockFreeQueueProofs` | `TypeCorrect` | `[]TypeOK` |
| | `CellsExclusiveAlways` | `[]CellsExclusive` |
| | `ExactlyOnceAlways` | `[]ExactlyOnce` |
| | `HonestRefusalAlways` | `HonestRefusal` |
| | `RefinesFifo` | `ImplementsFifo`: the queue implements `TaskQueue` |
| `ThreadPoolProofs` | `TypeCorrect` | `[]TypeOK` |
| | `NoLostWakeupAlways` | `[]NoLostWakeup` |
| | `EachTaskOnceAlways` | `[]EachTaskOnce` |
| `DeferredTasksProofs` | `TypeCorrect` | `[]TypeOK` |
| | `EachTaskOnceAlways` | `[]EachTaskOnce` |
| | `InOrderAlways` | `[]InOrder` |
| | `OneCallPerFrameAlways` | `OneCallPerFrame` |
| `IonConnectionProofs` | `TypeCorrect` | `[]TypeOK` |
| | `RepliesOnceAlways` | `[]RepliesOnce` |
| | `CapturesAliveAlways` | `[]CapturesAlive` |
| | `BlockingHonestAlways` | `[]BlockingHonest` |
| | `NumbersExactAlways` | `[]NumbersExact`, from `DigitStepExact`, `ParserExactAlways`, `IndexExactAlways` |
| `TilesetProofs` | `OptionsFrozenAlways` | `[]OptionsFrozen` |
| | `ViewConsistentAlways` | `[]ViewConsistent` |
| | `HeightsOwnAlways` | `[]HeightsOwn` |
| | `RootCallbackAlways` | `RootCallbackCurrent` |
| | `CreditsReadableAlways` | `[]CreditsReadable` |
| | `WaitingSuffices` | `HostWaits /\ Spec => []ForwarderFindsWrapper`: what the host can do about the fault of section 5 |
| `ResourcesProofs` | `TypeCorrect` | `[]TypeOK` |
| | `ResourcesHeldAlways` | `[]ResourcesHeld` |
| | `OverlayHeldAlways` | `[]OverlayHeld` |
| | `NoneLostAlways` | `NoneLost` |
| | `OptionsKeptAlways` | `[]OptionsKept` |
| `GltfProofs` | `ModelKeptAlways` | `[]ModelKept` |
| | `GlbCompleteAlways` | `[]GlbComplete` |
| | `NodesPlacedAlways` | `[]NodesPlaced` |
| | `TexCoordNamesFresh`, `RestoredIs`, `SeenIs`, `CollapsedIs`, `PackedIs`, `ViewsPackedIs`, `BuffersPackedIs`, `CompactedIs` | what each operation does to a primitive, see below |

**Assumptions.** Each is named, stands in the module that declares the constant, and is evaluated by TLC
in the run of that component.

* `HostAccessor`: `Main` is a thread, `None` is neither request nor accessor, the callback tables are
  records of flags. `ThreadPool`: there is a worker, and no thread is both worker and client.
* `LockFreeQueue`: the capacity is a power of two, at least 2 (the code's is 4096; a queue of one cell
  could not tell a filled cell from a free one, as both sequences would be the same number).
* `AppId`: the width holds a digit (`Half >= 10`). `IonConnection`: an appID is a sign and a sequence of
  characters that are digits or not, and an `int` can count the entries of a list.
* `RasterOverlays`: the options have the fields and types of `CesiumRasterOverlayOptions`; no value is
  excluded. `RendererResources`: tiles and overlays are disjoint, a null pointer is no resource.
* `Tileset`: the positions of a request are a sequence, the fields set are fields, and every field but
  the callback has a native default (`NativeDefaults`), whatever the getters say of a null handle.
* `GltfModel`: the files are valid (`ValidModel`). Without it `cesium_gltf_accessor_get_data` reads
  past the accessors, as the getter does not check the index.
* The rest say that a null value is none of the values, and that a bound is positive.

### 4.1 The accessor

The inductive invariant adds to the properties what a step relies on from an earlier step of another
thread:

* `ThreadLocals`: a thread's locals at each pc. Without it `CompleteRespond` might answer `None`.
* `Owned`: what waits in `kept` and `mainQ` was issued by an accessor, so `Release` and the lambdas
  speak of real ones.
* `Claims`: the response of a request given the place its `CPendingRequest` is in. This is the link
  from "the erase is the arbitration point" to "the response is set once": whoever holds the request
  knows that its response is unset, since nobody else can hold it (`OneHolder`).
* `Acks`: an acknowledged request is in no completion call's hands.
* `Posts`: a request whose resolve is queued or done is in no call's hands, so no second resolve can
  be posted.

`LInv` adds to it what the end of an accessor relies on:

* `Starting`: a request that has been registered and not yet inserted is unknown to everybody but the
  thread that starts it, so that no cancellation can have swapped it out.
* `SwappedOut`: an id is in the hands of one cancellation, which tells the host of it once. That is
  `CancelledOnce`; the table and the cancellations' lists never share an id.
* `Life`: without a reference an accessor has an empty table and one canceller, its destructor, until
  it is destroyed. `DestroyedSettled` follows with `InFlightAgrees` and `Claims`: an unanswered request
  would be in the registry, hence in the table, which is empty.

### 4.2 Queue, pool, deferred tasks

The queue's invariant says of every position between `_tail` and `_head`, and of every one of the lap to
come, what the sequence of its cell is and whether its pusher or its popper is still there (`Claimed`,
`Vacant`, `Pushers`, `Poppers`, `Alone`). `Trying` is about threads that have read and not yet claimed:
what a thread saw of a cell still holds if the counter is where it was, which is what makes the
compare-and-swap safe. Two positions share a cell only if they are a capacity apart, by lemmas on `%`.
`RefinesFifo` maps the positions from `_tail` to `_head` to the abstract queue, a push taking effect at
its claim; every other step but the last of each operation stutters.

The pool's invariant adds to `NoLostWakeup` what the workers on their way to sleep have seen: if a worker
waits on the version of now while a task is queued, some starter has yet to add to the version
(`Awake`), and a place that is claimed and not published has its starter still publishing (`Published`).

The deferred tasks' invariant orders everything pending by start (`Order`), says that a call in its second
half has nothing left of its batch (`Stack`), and that what was started before the outermost call is out
of the queue once it has swapped (`Frame`): so one call suffices for it, whatever pumps inside it.

For `ExactlyOnce` and `EachTaskOnce`, which count places, the invariants say that the places are at most
one each and at least one in all (`OnePlace`, `Located`); a lemma turns that into the sum.

### 4.3 ion

`CallInv` says of one call how far it has come and what cannot have happened to it yet (`Stages`), that
its continuation waits only once its future is ready (`Waits`), that a call which has replied is past every
place from which it could reply again, or has its flag set (`Answers`), and what a blocking connect knows
and by which ways it returns (`Polls`); `Once`, `Captures` and `Honest` are the three properties, of one
call. `Nested` is about two: a call from which another was made waits where the host runs, so that the
stage of the outer one cannot change while the inner one goes on.

`NumbersExact` is an induction over the text. The library's induction theorem cannot be used (it takes an
operator), so the argument is the least counterexample: the prefixes the parser is right about are a set
of numbers, and a least prefix outside it would contradict `DigitStepExact`. That lemma is the arithmetic
of the two overflow guards, at both ends and for every width.

### 4.4 Tileset, resources, glTF

The tileset's invariant says what the flags in a handle and in a tileset are (`Options`), that nothing was
called before the forwarder ran (`Forwarder`), that the two halves of a held result go together (`Held`),
and that a reply, once given, is the one built from the request's own final result (`Heights`); the
shared buffer does not occur in it. `NoneBehind` is the invariant of the host that waits.

The resources' adds `Pointers`: a pointer is a resource of the object that carries it, so that giving back
one takes nothing from another; and an object that has not been loaded carries none, so that the load
thread's result overwrites nothing. The types need `OverlayHeld`: a count is a natural number only because
each release has a holder.

A glTF primitive is reasoned about by its content, which gives each attribute's name the data its accessor
leads to. `SeenIs`: the host sees the content, by place as by name, whatever the order of the hash map.
`TexCoordNamesFresh`: the names given to overlays are distinct and no attribute has one, whatever gaps the
texture coordinates have. `RestoredIs`: restoring undoes renaming. `CollapsedIs`, `PackedIs`,
`ViewsPackedIs`, `BuffersPackedIs`, `CompactedIs`: one buffer instead of many, and accessors, views,
buffers and bytes moved down, leave every content alone (`FlattenSeq`, which is recursive, by the least
place that fails again; `Keeping`, by its being the inverse of `MovedTo`). The invariant then says that the
attributes a primitive has between the calls, or will have when the write's restoration has run (`Own`),
are those of the model the host last knew (`FromFile`), without the feature ids once they are removed.
During a write it says that the names are those given to these attributes (`InWrite`), so that the
restoration finds what it renamed. After a write that threw, the host knows what is left (`GivenUp`), and
the invariant starts from there: what is left refers to accessors as before, so it is a valid model. How
much a throw may take is `ThrowKeepsRest`, which is model-checked.

### 4.5 What is only model-checked

Liveness: `DeadAccessorSettles`, `RunsUnlessStopped`, `LeftoverRuns`, `AttemptsAnswered`,
`HeightsAnswered`, and the fair half of `ImplementsLifecycle`. It rests on fairness and ENABLED, which the
prover does not handle. Of the safety properties, `ThrowKeepsRest`: what is missing after a throw is a
count over one primitive half-way through a loop. The three runs of section 5 are counterexamples, which TLC
finds.

## 5. Where code and documentation part

Three are runs TLC refutes; `PROJECT.json` quotes the lines.

* `NoBeginAfterCancel`: the marshalled `beginRequest` lambda checks that the accessor is alive, not
  that its id is. Start, cancel, dispatch on one thread is enough for `cancelRequest` to be followed
  by `beginRequest` for the same id.
* `DestructorReturns`: a worker that read `_stop` before it was set, and snapshots `_version`
  after it was bumped, sleeps on; `join` never returns.
* `ForwarderFindsWrapper`: a tileset destroyed while its root-tile forwarder is registered leaves
  it the address of a freed wrapper, even if the callback was cleared first.

Met while modelling, and no run of their own:

* The pending count (`cesium_tileset.h:418`) includes requests still in the main-thread queue.
* `cancelRequest` goes to every id swapped out, also one a completion won; `cesium_tileset.h:393`
  speaks only of requests that are failed as well.
* A task pushed between a worker's empty pop and its look at `_stop` is dropped if the pool is then
  destroyed (`cesium_async.cpp:124`).
* With the queue full and every worker inside a task that starts another, all spin in `startTask`
  (`cesium_async.cpp:110`).
* `cesium_ion_connection_create_async` says its callback is "never invoked before this function
  returns" but for an invalid argument (`cesium_ion.h:110-112`). It is where the setup throws, which is
  said elsewhere; on a worker, which the main thread may overtake; and inside a dispatch: over an
  accessor without transport, whose future is ready at once (`cesium_host_accessor.cpp:226`), a connect
  made from a main-thread callback runs its continuation inline. `RepliesOnce` allows these three and no
  other; without the exceptions TLC refutes it in either case.
* Without threads the blocking connect is said to be unable to make progress (`cesium_ion.h:87-89`, and
  119: the asynchronous one "is the only form that works"). Its polls dispatch the marshalled
  `beginRequest` and resolve, so a host that answers from inside `beginRequest`, as the tests have one do
  (`tests/test_cesium_native_c.cpp:2374`), makes it succeed.
* The overlays are said to be "restored afterwards" (`cesium_gltf.h:497-500`). An exception between the
  renaming and the end of the restoration leaves them renamed, or missing, for good: `WriteThrows`,
  `RenameThrows` and `RestoreThrows` do this, and `ThrowKeepsRest` is what still holds.
* Authorize and the lists have no catch on their chains: a rejection reaches no callback.
* A root-tile callback set after the forwarder ran on an empty slot is never called.
* A height callback that pumps has its two arrays overwritten by the next continuation.
* An accessor's `byteLength` is that of the whole buffer view although `data` starts at the
  accessor's offset (`cesium_gltf.cpp:291-327`).

## 6. Not modelled, and what could follow

Not modelled for good: the libcurl accessor and cesium-native itself (external), floating-point
geometry (view state, tiles, geospatial), getters and setters of plain values, file formats and the
glTF reader with its errors and warnings, the conversion of headers and bodies, trimming the cache
and the statistics. The error state is one thread-local string that a failing call sets and the same
thread reads; no other part depends on it.

Five hazards have no property. A task that holds the last copy of the `AsyncSystem` depends on
cesium-native. A callback table replaced while a load thread runs is a data race, and a height
callback that pumps breaks the header's promise of its arrays: the models have the host do neither.
Workers that all spin on a full queue need as many tasks as workers, places and pushes together (six
with two workers and two places): the run's instance stays below that, and says nothing of it. An id that
a completion won may be notified as cancelled all the same; `HostAccessor` has that behaviour, in which
the completion returns 1 and the request gets the response it brought.

What could be added:

* `TaskQueue`: that tasks are taken in the order of their claims, stated with the claims remembered, and
  through `RefinesFifo` of the queue itself. `RequestLifecycle`: its own invariants, through
  `RefinesLifecycle`.
* `HostAccessor`: how far the guarantee the header gives on `beginRequest` after `cancelRequest` holds:
  for which steps of the two calls, and which host discipline excludes the fault of section 5.
* `ThreadPool`: that the destructor can hang only with a worker between its look at `_stop` and its
  snapshot of `_version`, which is the run `thread_pool_destructor` turned into an invariant.
* `IonConnection`: that its requests go through the steps `RequestLifecycle` allows, as a theorem rather
  than by the composition alone.
* `GltfModel`: `ThrowKeepsRest` as a theorem.
