# SensCord core in TLA+

SensCord is a C++ library through which an application receives *frames* from
sensors. The application opens a *stream*; a *component* (a driver for a camera,
a player of recorded data, the client of a remote server) sends frames to it
through a *port*. This directory models the part of the library where threads of
the application, of the component and of the library meet: the frame buffers, the
life of a stream, the port that shares frames between streams, the locks on
properties, the frame callbacks and the recorder of a stream, the core that opens
and deletes streams, and the client and the server that carry a stream over a
connection. The modules are checked with TLC on small instances. The safety properties of all of them
are proved with TLAPS for every value of their constants; liveness, and what is about ENABLED, stays with TLC.

Paths below are relative to `src/lib/core/` unless they begin with `src/`.

## 1. Inventory of the system

| Part | State it keeps | Operations | What is hard about it |
|---|---|---|---|
| Frame manager (`frame/frame_manager_*.cpp`) | `incoming_queue_`, `outgoing_queue_`, `reserved_count_`, `initialized_`, skip rate and counter | `Init`, `Exit`, `Set`, `Get`, `Remove`, `Clear`, `SetSkipRate`; `GetBuffer` of four policies | buffers must survive refusals, evictions, Exit and a second Init; notifications are fewer than frames |
| Frame observer (`stream/frame_observer_order.cpp`) | number of notified callbacks, a worker thread | `Start`, `Stop`, `Notify`, the worker | a frame without a notification is never fetched; the worker is joined with a mutex held; observers are deleted while frames are notified |
| Stream function lock (`stream/stream_function_lock_manager.cpp`) | `running_functions_`, current and destination state | lock for a state, core or component function, `WaitAccessDone`, begin/commit/cancel of a state change | the order of the list decides who may run, refused calls are in the list too |
| Stream core (`stream/stream_core.cpp`) | adapter, frame manager, observers, recorder | `Init`, `Open`, `Start`, `Stop`, `Close`, `Exit`, `GetFrame`, `ReleaseFrame`, `ClearFrames`, the property functions, `SendFrames` | state is tested without the mutex under which it is used; every step of Open and Close may fail |
| Component port (`component/component_port_core.cpp`) | opened and started streams, `sent_frames_` | `Open`, `Start`, `Stop`, `Close`, `SendFrames`, `ReleaseFrame` | one frame in several streams, released while it is still being sent to others |
| Property lock manager (`component/property_lock_manager.cpp`) | a lock entry per key, `resources_` | `LockProperty`, `UnlockProperty`, `ForceUnlockProperty`, access counts | hold and wait over several keys, callbacks without the mutex, Close of a waiting stream |
| Component manager and adapter (`component/component_manager.cpp`) | open counts, loaded components | `OpenComponent`, `CloseComponent` | the last Close unloads what another thread opens |
| Core (`core/senscord.cpp`, `core/core_behavior.cpp`, `core/core_function_lock_manager.cpp`, `core/stream_manager.cpp`) | `core_initialized_`, `running_functions_`, `close_stream_info_`, configuration, `stream_list_`, `released_stream_list_` | `Init`, `Exit`, `OpenStream`, `CloseStream`, the functions that read, the publisher functions | Exit against OpenStream; several threads close one stream; released streams are deleted late and their addresses used again |
| Stream source adapter (`component/stream_source_adapter.cpp`) | state of a StreamSource component, its own function lock | port functions, property accessors | a second lock below the first |
| Property history book (`stream/property_history_book.cpp`) | values of properties by sequence number | append, search, removal | pruning while frames still refer to old values |
| Recorder (`record/frame_recorder.cpp`) | queue of cloned frames, a worker | `Start`, `Stop`, `PushFrame` | a recording ends by its count, by the application and by Stop of the stream; frames in flight at Stop |
| Allocators (`allocator/`) | free areas, mapping counts | `Allocate`, `Free`, `Mapping`, `Unmapping` | merging of free areas, counts across users |
| Client component and its messenger (`src/lib/component/client`, `messenger/client_messenger.cpp`) | messengers with their waiting commands, port sendings, frames per port (`frame_manager_`), allocators | open, start, stop and close of a port, release of a frame, the port sending thread, the receiving thread | frames under way at Stop and restart, late or missing replies, a connection lost in the middle of a call |
| Server (`src/lib/server`) | clients and clients to be released, listeners, stream adapters, secondary adapters | `Open`, `Close`, accept, register, release, requests of clients, frames to clients | who deletes whom when clients go while the server closes; threads that join one another |
| Messenger topics (`messenger/messenger_topic.cpp`, `publisher_core.cpp`) | callbacks by topic | subscribe, publish | used by ClosePublisher beside Exit |
| Configuration, loaders, serialization, logger, searcher, C API, bindings | - | sequential conversion and calls of the operating system | not concurrent |

How they interact. The application calls the stream core; each public function
registers itself with the function lock of the stream. `Open` opens the component
through the component manager, makes a frame manager and opens the port. A
component calls `SendFrames` of its port from a thread of its own; the port
offers the frames to every started stream (`StreamCore::SendFrames`), which puts them into its frame manager
under `mutex_frame_` and wakes the threads in `GetFrame` and the observer. A
release goes the other way: stream, frame manager, port, component. `LockProperty`
and `SetProperty` pass through the port to its property lock manager. `Close`
undoes all this and must not outrun any function still on its way.
A frame that arrives is also notified to the frame observer, whose worker runs the
callback of the application; what GetFrame returns is pushed into the recorder.
If the component is the client component, its port is a stream of a server: every
call becomes a request and waits for the reply, frames come as messages and go
back as requests, or by the reply to a copied frame.

What makes the parts correct, in a sentence each: no buffer and no frame is lost or
counted twice; state functions exclude one another and always return; a function
that passed its test reaches the component it wants; a frame goes back to its
component once, and not before every stream has given it up; property locks are
exclusive, can be released, and end with the stream; Init and Exit of the core run
alone, no stream is deleted with a thread in it, and CloseStream closes the stream
it was given; a callback or a recorder is quiet when its stream has stopped and is never
used after it was deleted; client and server agree, memory stays mapped while a
frame is used and every frame comes back to the server; a client that has gone leaves
neither a stream nor a lock behind. The hazards that threaten
these are listed, each at its line, in `PROJECT.json`.

## 2. Modules and the code they model

The modules, from the bottom up:

```
FrameBuffer ---- FrameManager ---- FrameQueueProofs
     \
      ComponentPort ---- ComponentPortProofs      (INSTANCE FrameOwnership)
                   \---- MCComponentPort
StreamFunctionLock ---- StreamCore ---- StreamCoreProofs
PropertyLock ---- PropertyLockProofs
            \---- MCPropertyLock
CoreFunctionLock ---- Core ---- CoreProofs
                         \---- MCCore
FrameCallback ---- FrameCallbackProofs
FrameRecorder ---- FrameQueueProofs
Server ---- ServerProofs
      \---- MCServer
RemotePort ---- RemotePortProofs
```

**FrameBuffer** holds the queues of one `FrameManagerCore` as a record and its
member functions as operators on it: `SetFrame`/`SetResult` (`Set`), `GetFrame`,
`RemoveFrame`, `ClearFrames`, `InitManager`, `ExitManager`, the skip rate, and
`GetBuffer` of the policies overwrite, discard, realtime and unlimited. A frame is
its sequence number. `outgoing_queue_` is only searched and drained, so it is a
set. Every one of these functions runs under `mutex_frame_`, hence is indivisible.

**FrameManager** makes a state machine of it: one action per function, plus
`Callback`, a callback of the observer's worker that gets at most one frame.
`Remove` may be refused by the component. `Exit` and `Reinit` are the two
halves of a Close that the port refuses. `released`, `dropped` and `offered` are
history: what went back through `ReleaseFrame`, what `Set` refused, how many
frames were offered since the skip rate was set.

**StreamFunctionLock** is `StreamFunctionLockManager`: the list of running
functions with thread and type, the current and the destination state, and what
each critical section does with them. The waits of the class are guards: every
change that can end one is followed by a broadcast in the same section.

**StreamCore** is one stream called from any number of threads. `pc[t]` is the
place of thread `t` in the function it called; an action is a critical section, a
call into the component or an extension (which may fail if `FailingCalls` says so),
or a test of the local state. The wait of `GetFrame` on `cond_frame_` is modelled with an explicit set of
waiting threads, because not every change of the state it depends on signals it.
`adapter`, `frame_manager`, `port_opened` and `port_started` say which resources the
stream has; the arrived frames are only counted here, their queues are
FrameManager's subject. `SendBegin`, `SendSet` and `SendNotify` are the three
places where the component's thread looks at the state of the stream.

**ComponentPort** composes a port with several streams, each with a FrameBuffer.
`sent_frames` is the map from a frame to the sending state of every stream;
`sender` is the progress of the one `SendFrames` call, stream by stream and frame
by frame; `phase` is the local state of each stream with the steps of its Start,
Stop and Close that matter to the port. The sender holds `mutex_streams_started_`
throughout and `mutex_frame_` of the stream it is setting; `StartPort` and
`StopPort` of the component are called under `mutex_state_change_`. The function
lock of a stream is represented by the phases alone, since StreamCore shows that
state functions are serialized.

**FrameOwnership** is the abstract specification of what the port promises a
component: frames are *lent* to streams, each stream *leaves* a frame once, and
the component gets it back once, when nobody has it. ComponentPort implements it
with the refinement mapping "stream `s` has frame `f` while its sending state is
`kNotSendingYet`".

**PropertyLock** is the property lock manager of a port with the Close of its
streams. A key is a property and its append information (`roi[ch=1]`); the
property alone conflicts with all its parts. `Acquire` is the loop of
`LockProperty` up to its end or its next wait, `LockCallback` and `UnlockCallback`
are the returns of the callbacks during which `mutex_` is free, and the `Close*`
actions are the places of `StreamCore::Close` and `ComponentPortCore::Close` at
which the state of the locks or the set of opened streams changes. A use of a
deleted resource (possible in `UnlockProperty` after its callback) sets
`undefined` and ends the behaviour, since C++ says nothing about what follows.

**CoreFunctionLock** is `CoreFunctionLockManager`: the function each thread is
running (an entry is absent until the lock is granted), whether Init is complete,
which threads are waiting, and the closing threads of each stream with
the status the first of them obtained. `Waits` and `Grants` are the loops of the four
lock functions.

**Core** is a Core called from any number of threads, with its stream manager.
A step is a critical section of `CoreFunctionLockManager::mutex_` or of
`StreamManager::list_mutex_`, or a call of a stream between two of them. A stream
is kept at an *address*; the allocator may use the address of a deleted stream again,
so streams also have an id, which the code has not. The states of a stream
are those of StreamCore as the stream manager sees them, and a function of a stream (`function`,
or `refused` if the stream is closing) stands for any of its calls. `Exit` closes the streams one by one,
then takes `list_mutex_` and keeps it until every released stream was deleted. What components,
messenger and extensions answer is a free choice. `stream_list_` is a set: its
order decides only in which order Exit closes the streams.
The application keeps *handles* of the streams it opened and forgets those that an
Exit closed. With `SharedClose = FALSE` it also closes a stream from one thread at
a time and not during an Exit; with `TRUE` it may do both. `usage` says
which functions the application calls and how often; it is there to bound two instances in one run. `reused` is a history variable: the ids of the streams
that `GetStream` made at an address where a CloseStream of the former stream had not returned.
`ClosePublisher` goes on when its lock was refused, as the code does. A
call of a core function from inside another one on the same thread is not modelled.

**FrameCallback** is the frame callback of one stream. The mutexes that are held over
a wait for something else (`mutex_frame_`, `mutex_callback_frame_`, those of the
notifier and of each observer) are variables, because that is what can go wrong here;
everything else happens in one section. `RegisterFrameCallback` is cut where it reads
the state of the stream, where it locks, and inside `UnregisterFrameCallback` which it
calls: disable, stop, join, delete. `WorkerLoop` and `Callback` are the worker of
`FrameObserverOrder`; in the callback the application calls GetFrame, with or without a
wait, and ReleaseFrame. `SendFrames` to `NotifyDone` are the component's thread from
the queue to the notifications. A callback that a removed observer was about to run
still runs: the count of notifications is reset, the one in progress is not. A worker's thread may fail
to be created: `RegisterFailed` then leaves the old callback, and `StartFrameObserver` goes on without one, as
Start ignores its status. `unstarted` is a history variable that only `RegisteredRuns` reads.

**FrameRecorder** is the recorder with the property that starts and stops it
(`StreamCore::Set`), with Start and Stop of the stream, and with GetFrame, which pushes.
`thread_` and who has taken it are the subject: the end of a recording with a count
detaches it, `Stop` joins it. For each frame in the queue the model keeps the recording
that `PushFrame` saw, which the code does not.

**RemotePort** is one port of the client component with the stream it opened on a server:
the application's thread in Open, Start, Stop and Close, a user's thread in
ReleaseFrame, the port sending thread, the receiving thread of the messenger, and on
the server the receiving thread of the client adapter, the worker of the stream adapter
and its frame callback. A *message* is its type, its request and its frames. `frame[f]` says
where the frame is from the server's point of view: with the component, arrived,
pending at the client, or back. Frames in shared memory are released by a request, copied
ones by the reply to the message that carried them. `Break` loses the connection and
what is under way in it; a reply may be given up (the time limit of a request),
both counted by `MaxFaults`. The streams of the two cores are environment: the client's may drop or keep any
frame, the server's may refuse what `Refused` lists. A stream adapter that could not start its
threads again after a refused Close leaves requests or drops them (`worker`).

**Server** is the life of the clients of a server: `Server::Open` and `Close`, the listeners'
threads, the manager that releases clients, the receiving thread of each adapter, the
thread of a stream adapter that locks and unlocks properties, and the attachment of a
secondary connection to a primary one. A `Misused` step marks the use of an object that was
deleted; as in PropertyLock the behaviour ends there. What is deleted twice, joined or started
after its deletion is thereby visible, and so are the callbacks of a deleted stream adapter. A thread
is created in two steps: it may run before `thread_` of its adapter is written (listener place
`started`, `Handle`), and Stop may find no thread where there is one when the adapter is deleted
(`passed`). A stream adapter whose threads or callback fail goes again when its stream was just opened,
and stays without threads after a refused close (`locking = "none"`). A failure is counted, but for a second
one that follows from it in the same step. The core below only opens streams,
may refuse to close them, and grants one lock.

## 3. Runs

| Run | Instance | Question |
|---|---|---|
| `frame_manager` | all four policies, 2 buffers, rates 0, 1, 3, 5 frames | Are buffers and frames conserved, does every arrived frame have a notification left, and are only the oldest frames pushed out? |
| `stream_core` | 3 threads, 4 calls, 1 frame, every external call may fail, fair threads | Do state functions exclude each other; do the functions that passed a state test still find port and component; does the state match the resources after every failure; is no thread left in `GetFrame`; does every state function return with other threads in `GetFrame`? |
| `component_port` | 2 streams (overwrite, discard) with 1 buffer, 4 frames in batches of 1 or 2, fair sender | Does the port implement FrameOwnership (every frame back once, never while a stream has it); is no entry orphaned and no frame left in a stopped stream; does a frame that nobody has go back at last? |
| `property_lock` | 2 streams, 3 threads (with symmetry), keys `a`, `a[ch=1]`, `b`, 4 calls, both callbacks | Are locks exclusive and accounted for, are the wakeups enough, is there no circular wait, with `mutex_` released in the middle of the calls? |
| `property_lock_leak` | 3 calls, lock callback | A violation: see section 6. |
| `core` | 3 threads, 2 addresses, 2 keys on 2 ports, shared CloseStream; 5 calls of all functions, or 6 of Init, Exit, OpenStream and CloseStream | Do Init and Exit run alone and functions of a port one by one; is every sleeper waiting for somebody; is no stream deleted with a thread in it; is a stream of which CloseStream said OK closed, but for one that is `reused`? |
| `core_close` | both keys on one port, 5 calls, no shared CloseStream, fair threads | Does every call return? |
| `frame_callback` | 2 threads, 2 observers, 5 calls, 2 frames, a careful application and a careless one, fair threads | Has a running stream a running callback, but for the two known exceptions; is a removed observer quiet and never used again; and, if the application is careful, is no worker left when the stream has stopped, is there no circular wait, does Stop return with a callback in GetFrame? |
| `frame_callback_deadlock` | the same with 4 calls and a careless application | A violation: see section 6. |
| `recorder` | 3 threads, counts 0 (none) and 1, queues of 1 and 2, 2 frames, 5 calls, careful application, fair threads | Is each worker joined or detached once; is none left when the stream has stopped; does Stop return however the recording ends? |
| `remote_port` | 2 frames, shared or copied, 4 calls, 1 fault (connection lost or reply given up), any refusal | Is memory mapped while a frame is used; do both sides agree between calls; is each frame the server waits for somewhere, and none taken back that the client has or expects; does every frame come back; does every call return, unless the stream adapter has no threads? |
| `server` | two primaries with 2 lock requests and no failure, or a primary and a secondary with 1 of each; 1 Open, 2 streams | Are the uses of deleted objects only those that `NoUseAfterDelete` lists; does Close leave no client; has every open stream an owner; is only a wait for a lock able to hang the server (`StuckOnlyByLock`, with `GoesOn` for what it takes for stuck)? |

Why the bounds are enough to be interesting. Five frames are two full
queues and one more, or one period of rate 3 with an overlap. Four calls let a stream be
opened, started and closed with a thread in `GetFrame`, or opened and closed with calls of
other threads in any gap; three threads are what it takes for a state function to
wait behind one function and be overtaken by another. Two streams with one buffer
each and four frames make every outcome of a send occur in every order: taken by
both, by one, by none, evicted while the batch is still being sent. Four property calls
are two locks in opposite orders, an access and a release. Five calls of the core
are an Init, an OpenStream and three calls that meet (two CloseStreams and a
function of the stream, or an Exit, a CloseStream and a second OpenStream); with six, two
CloseStreams of a stream meet a second OpenStream and a CloseStream of what it opens; two
addresses let a new stream take the place of a deleted one while another exists.
Five calls of a callback's owner are a Register, Start, Unregister, Stop and one more, two
observers an old and a new one, and three of the calls a Register, a Start and a second Register beside it; two frames one being handled while the next is notified. Five calls
around the recorder are a Start of the stream, a recording, two Stops that meet, and a second recording; two frames
complete a recording of one and leave one behind. Four calls of the application are open, start, stop and close, or
a restart; two frames allow one in use and one under way; one fault is enough because after it the
port only winds up. Two clients are enough to have one go while the other is being
released, or to lock each other out; the second of the two worlds keeps the failures and the secondary
connection apart from the locks, since neither touches the state of the other.
Threads and addresses are interchangeable, so the runs of the core and of the property locks use their
symmetry, those with liveness excepted. TLC is told no
bound that the code has not, apart from these numbers; each is a constant and a
guard of the action it limits.

A careful application (`careful` in FrameCallback, `Careful` in FrameRecorder) is an assumption, not a bound. In
FrameCallback it does not register beside Start and Stop and replaces a callback only on a stopped
stream; in FrameRecorder it does not set the property that starts a recording beside Start and Stop.
Section 6 says what happens otherwise. The run of FrameCallback has both kinds of application, and the properties
that need a careful one say so.

Deadlock is checked in every run but `server`. In FrameCallback a careless application may end in a
`CircularWait`, and in no other deadlock. `Finished` in StreamCore,
PropertyLock, Core, FrameCallback, FrameRecorder and RemotePort is the stuttering end of a bounded
behaviour, which is not a deadlock. In StreamCore it allows a thread to wait in `GetFrame` for a frame
that never comes, as the code does. A server may stand still, open or closed, with nothing
asked of it; there the invariant `StuckOnlyByLock` says in which states its threads may all be
blocked, which is stronger than the absence of deadlock. It is about `CanGoOn`, which names for each thread what
it waits for; that this is exactly when a thread has a step is the invariant `GoesOn`.

Every property has a mutant: a definition with a plausible fault (a guard
dropped, a wakeup missing, a wait skipped, an order reversed) under which the same
run finds the property violated. They stand above the definition they
replace, with a comment that begins with *Mutant*.

## 4. Fairness

StreamCore assumes weak fairness of the steps of a thread that is inside a
function, and of the rest of a `SendFrames` call that has queued its frame: mutexes are held for a
bounded time and external calls return. It does *not* assume that anybody calls
a function, sends a frame, or uses a time limit in `GetFrame` (the timeout step has
no fairness), so that the claim that Close returns rests on the wakeup in
`StopCore` only. In ComponentPort only
the steps of a `SendFrames` call in progress are fair. Core assumes weak fairness of the
steps of each thread inside a call, functions of streams included: they are assumed to return,
which StreamCore shows for its state functions. No fairness is needed to get the function lock:
in the bounded run nobody can be overtaken for ever.

FrameCallback assumes that threads inside Start, Stop, Register and Unregister, workers and the
component's thread go on when they can. Strong fairness is used once: a callback calls GetFrame
a finite number of times and then returns, as the application that wrote it must see to. It
is not assumed that a waiting GetFrame gets a frame. FrameRecorder assumes weak fairness of
threads inside a call and of the worker; the latter needs no frame, for `PopFrame` waits with a time limit.

RemotePort assumes it of the threads on both sides. A thread that waits for a reply is only
assumed to go on when the reply is there or the connection is lost: time limits are not relied on. The user is assumed
to release the frames it has, which `FramesComeBack` needs. No fairness is
assumed of calls, of frames that arrive, nor of `Break`.
PropertyLock, `core` and Server have no liveness run: `WaitersAreBlocked` and `StuckOnlyByLock` state as
invariants that whoever sleeps has somebody to wait for.

## 5. What is proved

Every theorem below holds for every value of the constants that the named assumptions of the
modules allow: any number of threads, streams, keys, frames, calls. Those assumptions say that bounds are
natural numbers and that null values are none of the real ones; where more is assumed it is said here. A module
with proofs states first the parts of its inductive invariant, then one lemma for each action or group of actions.

**FrameQueueProofs** holds the proofs of FrameManager and of FrameRecorder, the two queues of frames of a
stream; the state machine of FrameManager has names that begin with `FM` (`FMInit`, `FMNext`, `FMSpec`) because
this module extends both. *FrameManager:* `FrameManagerCorrect` (types, `SlotsConserved`, `EveryFrameAccounted`, `DeliveredInOrder`,
`NoStrandedFrame`), `FramesAccounted` and `CallbacksSuffice` (two of them alone), `OldestEvicted` (`EvictsOldest`)
and `SkipsPeriodically` (`SkipPeriod`). `SlotsConserved` is not inductive:
`Get` moves a frame to the frames in use, and the sum stays the same only if it was
not there already. That follows from the order of delivery, which in turn needs
every frame held to be older than the next sequence number; both are part of `Inv`.
`Exit` and `Reinit` need the further invariant `Drained`, that a manager that is not
initialized holds no frame. The lemma `SetResultCases` reduces the four policies to what they
do to the queue: refuse, append, replace the oldest, replace all. `SkipPeriod` needs lemmas on the
remainder of a division by the rate, and that the counter of the code is this remainder (`Counted`).

*FrameRecorder:* `SpecWorkersAccounted` (`WorkersAccounted`) for any application: a recording that is not the last one has ended (`LastOnly`),
its thread is in `thread_`, or with one Stop, or detached (`Handled`), and one that ends while in `thread_` ends by
its count (`Ending`). `SpecQuietWhenStopped`
assumes `Careful`, since a recording may otherwise begin on a stopped stream (section 6).

**StreamCoreProofs.**

* `StateFunctionsSerialized`: `StateFunctionsExclusive` always holds. The inductive
  invariant `LockInv` says that a thread has one entry in the list, of the type of
  its function, and that only core functions stand in front of a state function
  that was granted. Exclusion follows, because of two granted functions one would
  stand in front of the other.
* `StreamSafe`: `ReleaseReachesComponent`, `PropertyReachesComponent`,
  `SendableOnlyIfStarted`, `StateMatchesResources` (alone: `StreamStateTrue`) and
  `NoLostWakeup` (`StreamWakesAll`). `StreamInv` adds to `LockInv` a description of states and
  resources at every place inside a state function (`InPhase`), that after each
  `WaitAccessDone` no function of that type is left that passed its test
  (`Drained`, with `Tested`), and that the stream is opened once. The interesting
  step is Close: new functions are refused once the destination state is Init, so
  what `WaitAccessDone` has seen drained stays drained.

**ComponentPortProofs.** `PortHasNoOrphan`, `PortArrivals`, and the refinement `PortLendsFrames`: every step of the port
is a step of FrameOwnership or a stutter. The sender's `SendBegin` lends, each way in which a frame leaves a stream
(fetched and released, evicted, refused, cleared by Stop or Close) leaves it, the last
of these returns the frame; the component never gets it while a stream has it. `PortInv` relates the
queues of the streams to `sent_frames_` in both directions (`HeldSent`: what a stream
holds was sent to it and not given up; `PendingSent`: what is still to be offered to a stream waits for it
and is not held there; `NoOrphan`: an entry that waits is one or the other), and says where the sender is (`SenderSane`): the batch in progress is the
only one with entries of streams that have not seen it.

**PropertyLockProofs.** `SpecLocksExclusive`, `SpecLocksAccounted`, `SpecWaitersAreBlocked` and `SpecNoCircularWait`. `Inv`
ties the lock entries of the keys to their owners: a resource handed out or a
`LockProperty` in progress (`OwnersLock`, `OneOwner`, `SomeOwner`), counts the accesses
(`AccessesCounted`), and says what a thread may ask for at each place (`Asked`). `LocksAccounted` is then a consequence, although
the mutex is given up around both callbacks. `NoCircularWait` needs two hypotheses. `KeysGrouped`
says that the order of the full keys keeps a property together with its parts; section 6 says why the predefined keys
have that order (they all end in `_property`) and that arbitrary keys would not. The other one is that there are
finitely many threads. `InOrder` says that every key a waiting call has taken comes before every
one it has yet to take; the first thread of a circle would then wait for a later one.

**CoreProofs.** The lock of functions: `SpecExclusive` (`FunctionsExclusive`), `SpecConfigThere`
(`ConfigThere`) and `SpecWaitersAreBlocked` (`WaitersAreBlocked`). The inductive
invariant `CoreInv` says that a thread in the body of a function has the entry of
that function in `running_functions_` (`Entered`), that the entries exclude one
another (`TableExclusive`), which function a label belongs to
(`Labelled`), and that an initialized core has a configuration unless an Exit is about to clear it
(`Loaded`). `ConfigThere` needs all four: a body excludes an
Exit only through the table. `WaitersAreBlocked` is inductive together with `Shape`,
because every `Unlock` wakes all and every other change of the table adds to it. The
assumption that a configuration has a stream is what `Init` demands ("stream is not registered").

The streams: `SpecNoUseAfterDelete` and `SpecStreamsAccounted`, for SharedClose or not. `StreamInv` rests on ownership: a thread owns a
stream from `GetStream` until it is opened or not, and while its Close waits in state Closing. An owned
stream is neither open nor closed nor free, so that nobody else can take it, and OpenStream, which deletes closed streams only, does not
delete it; Exit, which deletes all, runs alone (`OwnedThere`, `OwnersApart`). What deletes asks for threads in the functions of the stream.

CloseStream: `SpecCloseMeansClosed` (`CloseMeansClosed`) without a hypothesis: for any ports, with shared CloseStream and
Exit meanwhile. `ClosedInv` says that a CloseStream which was not refused is announced in `close_stream_info_` from before its lock
until it returns (`CloserThere`), and that whoever has found the status OK or has closed the stream, and the status itself, stand for a
stream that is *settled*: closed, deleted, or `reused` (`Status`, `CloserThere`). A settled stream leaves that state
only when a new one is made at its address, and that one is `reused` as long as a CloseStream is announced there. Ids tell the new
stream from the old one (`Ids`, `ClosedSettled`).

**FrameCallbackProofs.** `CallbackSafe` (`NoUseAfterDelete`) for any application: `CallbackInv` says which observer a thread is removing and at which
place, and that what is deleted was disabled, stopped and joined first. `CallbackRuns` (`RegisteredRuns`) is for any application too.
`StartedInv` adds that state functions are one at a time, that a worker ends only while a StopFrameObserver
waits for it (`WorkersGoOn`), and that from StartFrameObserver on every observer which is registered or about to be has a worker,
and every Register that will create one without is among the exceptions (`WorkersStarted`). `CallbackQuiet` and `CallbackNoCircularWait`
are about a careful application (`SpecCarefulInv`): for another the first does not hold and TLC finds the deadlock of section 6.
`CarefulInv` adds that one registration is under way at most and none beside Start or Stop (`Apart`), what
the state of the stream is at each place (`StateKnown`) and that a new worker has nothing to do until the port
starts (`NewWorkerRests`). There is no circle of waits because each process waits only for processes of a lower `Rank`.

**ServerProofs.** `SpecNoUseAfterDelete`, `SpecCloseReleasesClients` and `SpecOpenStreamsOwned`. `ServerInv` says in which of the two lists a
client is and at which places in none (`InOneList`), at which phase of Open and Close which thread may still run (`Phases`), what the
threads of an adapter are doing in each state of it, and who owns an open stream.
The uses of deleted objects are steps of the model that say so; the theorem is that there are none but those of section 6.
The thread of a client that has been released has ended, so that only `ReleaseAllClients` can delete an adapter with a running
one (`DeleteMisuse`); that a callback finds no adapter only for a `leaked` stream follows from `OpenStreamsOwned`.

`SpecStuckOnlyByLock` is the absence of deadlock for any number of clients. Four facts are added
(`WindingInv`): Close and the manager's thread find each other in the right places, with `end_flag_`
set before the join (`Winding`); a thread that closes streams has told their threads to end, if there are any (`Closing`); the
thread of a registered client runs, or a listener is about to start it (`Running`). The argument then follows
the waits downwards. Without a wait for a lock no receiving thread waits in CloseAllStream (`NobodyCloses`);
hence nobody who stops clients waits for one (`NobodyReleased`); hence neither the manager's thread nor the one in Close
waits for another (`ServerIdle`).

**RemotePortProofs.** `SpecMappedWhileHeld`, `SpecFramesAccounted` and `SpecStatesAgree`, for any number of frames, calls
and faults, shared or copied frames, and whatever the server refuses. `PortInv` has these parts:

* which threads and queues exist together (`Connection`, `Woken`), where the four threads of the client may be at the
  same time (`Places`) and what the user and the port sending thread have in their hands there (`Hands`);
* the entry of `frame_manager_` and the mapping (`Memory`). `MappedWhileHeld` is not inductive alone: that
  RemoveFrame of one frame leaves the others needs that no frame is in two places (`FramesApart`: in the stream,
  with the user, in a batch, in the port sendings or on its way), and that StartPort finds no old frames needs
  that a stopped entry has some (the empty one is erased);
* where the frames are on the server's side: what messages carry (`Carried`), that a closed stream waits for
  none (`NoStream`), that nothing is left of an earlier stream when Open is answered (`Opening`) and that
  a Close is sent after the port sendings have gone (`Closing`), so that requests are dropped only
  without them (`Served`). `FramesAccounted` follows step by
  step, for each of its two directions needs one of these;
* the requests: ids grow (`Numbers`), no other message has the id that the application waits for (`Foreign`),
  and, unless a reply was given up (`Agree`), there is one request about the state of the stream at a time
  (`OneRequest`); before it is dealt with the server's stream is as before the call, afterwards as the reply
  says, wherever that is (`AsAnswered`). When the reply is taken, `Between` holds, of which
  `StatesAgree` is a part.

The queues of messages are handled by what Append and Tail do to the set of their messages and of their frames
(`AppendFacts`, `TailFacts`, `EmptyFacts`); no other proof looks at positions.

Proved for every value of the constants and therefore in no run any more:
`DeliveredInOrder`, `PropertyReachesComponent`, `SendableOnlyIfStarted`, `ConfigThere`, `SkipPeriod`,
`StreamsAccounted` and the types of the components with proofs.

Model-checked only: all liveness (`StateFunctionsReturn`, `EveryFrameComesBack`, both `StopReturns`, `FramesComeBack`,
both `CallsReturn`), for TLAPS proves no liveness under fairness; and `GoesOn`, which is about ENABLED.

## 6. What the models show about the code

* A lock can outlive its stream (`property_lock_leak`). `LockProperty` gives `mutex_` up around
  the lock callback (`component/property_lock_manager.cpp:154`) and registers the
  resource afterwards without asking whether the stream is still opened. If the
  stream is closed meanwhile, `ForceUnlockProperty` has run already, and the keys
  stay locked for a stream nobody can use any more. The client component
  registers this callback.
* In the same way `UnlockProperty` may use a resource that a Close or a second
  `UnlockProperty` deleted during its callback; the model marks the place as undefined.
* A Close whose `CloseComponent` fails leaves the stream in state Ready without a
  port (`half_closed`): a later Close fails at the port, and so does Start.
  `StateMatchesResources` makes the exception explicit.
* `FrameArrived` wakes nobody once a state change has begun. `NoLostWakeup`
  shows that the frames left behind are cleared by that state change.
* A RegisterFrameCallback that replaces the callback of a running stream can deadlock
  (`frame_callback_deadlock`). It joins the old worker with `mutex_callback_frame_` held
  (`stream/stream_core.cpp:1069`); the worker's GetFrame waits for `mutex_frame_`, which the component holds in
  SendFrames while it waits for `mutex_callback_frame_`. GetFrame in a callback is what
  StopCore is prepared for (the comment at line 431).
* RegisterFrameCallback reads whether the stream runs before it takes the mutex (line 1056). A Start in
  between leaves the new observer without a worker, and so does a Start for which no thread can be created
  (lines 383 and `frame_observer_order.cpp:97-104`): the stream runs, its callback is never called, and no
  status says so. `RegisteredRuns` excepts both until the next Start; the run `frame_callback` reaches them.
* Setting the record property tests the state of the stream and starts the recorder afterwards
  (`stream/stream_core.cpp:1531`). A Stop in between has stopped the recorder already, and a recording begins on
  a stopped stream, although it is "Startable only in the stream running state"
  (`src/include/senscord/property_types.h:409`). Without `Careful`, `QuietWhenStopped` is violated by this order.
* A frame can end in the next recording: `PushFrame` asks for the state of the recorder in
  one section and pushes in another (`record/frame_recorder.cpp:337-350`); in between a worker may drain the queue
  and end. The model reaches it; no text of the repository says otherwise.
* GetFrame hands a frame to the extension and to the recorder without a mutex
  (`stream/stream_core.cpp:513`). Close waits for functions of type Component, deletes the frames, and only then waits for
  those of type Internal, to which GetFrame belongs.
* The status of a CloseStream is kept under the address of the stream until the last closing thread
  unlocks (`core/senscord.cpp:308`). With two ports, an OpenStream between the release and that unlock
  may delete the stream and get its address for a new one, and a CloseStream of the new one takes the
  old status for its own: it returns OK and closes nothing. The run `core` reaches this: without the exception of
  `reused` streams TLC finds `CloseMeansClosed` violated. With the exception it holds, so that this is the only order of calls
  after which CloseStream says OK of a stream that is not closed.
* A CloseStream may close what is closed already. It looks the
  stream up and announces itself in two sections (`core/core_function_lock_manager.cpp:454`).
  If the Close of another thread is over in between, no status is found, and Close is
  called on a stream that is released or, after an OpenStream, deleted.
* A refused ClosePort leaves the client's port deaf: its port sendings have ended before the
  server was asked (`src/lib/component/client/src/component_client.cpp:383`), and Start does not make
  them again. `FramesComeBack` names this state. After a reply that came too late, client and
  server disagree about the state of the stream; `StatesAgree` leaves those calls out.
* The server may use deleted objects, in the ways that `NoUseAfterDelete` of Server lists as the only ones. `server`
  reaches each: without any one of the exceptions TLC finds the property violated.
  * A client whose thread cannot be created is deleted by the listener and by the manager
    (`src/lib/server/src/client_listener.cpp:129`).
  * `ReleaseAllClients` may delete an adapter that the listener has registered and is about to start.
  * Stop tests `thread_` (`src/lib/server/src/client_adapter.cpp:62`), and the manager deletes the adapter
    (`src/lib/server/src/client_adapter_manager.cpp:187`). A thread that the listener creates in between runs on a
    deleted adapter.
  * `thread_` is written when the new thread already runs (`src/lib/server/src/client_adapter.cpp:48`): the
    client may have gone again by then, and its adapter be deleted by the manager's thread.
  * A client accepted after the manager has stopped is not registered, and outlives the core
    (`src/lib/server/src/server.cpp:173`).
  * A secondary adapter finds its primary by the id of a stream that may be closed by then, and leaves a pointer
    to itself behind (`src/lib/server/src/secondary_client_adapter.cpp:135`).
  * After a close that the core refused, `CloseAllStream` deletes the stream adapter all the same
    (`src/lib/server/src/client_adapter.cpp:526-531`). Its callbacks were registered with its address
    (`src/lib/server/src/stream_adapter.cpp:92`) and stay registered with the running stream.
* `Server::Close` may hang: it stops client after client, the last first, and one that waits without a limit for a
  lock may come before the one that has it.
* `CloseAllStream` of a client adapter ignores a refused CloseStream; the stream then stays open in the core
  without an owner (`leaked`). So does a stream whose adapter could not be made, when the close at
  `src/lib/server/src/client_adapter.cpp:385` is refused (`unstarted`).
* The status of StartMonitoring after a refused close is ignored (`src/lib/server/src/client_adapter.cpp:420`): the adapter
  may be left without threads. Its requests wait or are dropped, and the client's calls end by their time limit
  only, 30 seconds by default (`Unserved` in RemotePort, the exception of `CallsReturn`).
* Two further places, seen while modelling and not stated as properties. A stream that could not be
  opened is deleted only by Exit: its state is Init, and `IsReleasable` wants NotInit
  (`stream/stream_core.cpp:1294`). And `LockForStream` reads the port of a key before it
  waits (`core/core_function_lock_manager.cpp:314`): after an Exit and an Init with another configuration the
  thread is entered under the old port, so that two functions of one port may run together.
  `FunctionsExclusive`, by the ports they were granted under, is what holds.
* `LockForStream` refuses a call until Init is complete, also while Init is running.
* `NoCircularWait` rests on the order of full keys keeping a property and its parts
  together. The predefined keys all end in `_property` and have that order; keys such as
  `p`, `p.q` and `p[ch=1]` would not.

## 7. What is not modelled, and why

User data, the channel mask and drop events decorate frames and influence no
control. `SendEvent` and the table of property accessors of the port are left out:
they are lookups under a mutex. Sequence numbers are unique in ComponentPort, which components
promise; the port does not check it, and two frames with one number would share an entry
(`component/component_port_core.cpp:344`). Mutexes, condition variables and threads of the
OS layer are taken as atomic steps and waits; a condition that is a guard may therefore stand for a
wait with its broadcast in the same section. Event observers are the frame observers once
more, with a queue of arguments. Unsynchronized reads are not torn: `LockForStream` searches
the configuration without its mutex (`core/config_manager.cpp:186`), `GetAdapter` its list
(`component/component_manager.cpp:186`); the serialized property functions take no function lock
(`stream/stream_core.cpp:739`). The time limit of `LockProperty` is there or over; its arithmetic on unsigned numbers
(`component/property_lock_manager.cpp:136`) is not modelled. That callers who keep coming may keep
`WaitAccessDone` waiting (`stream/stream_core.cpp:318`) is not excluded by the fairness assumed.

RemotePort has a messenger for each port (the threading "parallel"); the modes that share a
messenger, secondary connections, property requests and events are left out. Server leaves
out the requests that return by themselves and the destructors of `Server` and of its manager, and the core is a
set of open streams and a lock. That the server's stream may stay open after a failed OpenStream is in Server and
not in RemotePort, whose client sees no difference. FrameRecorder leaves out channels, formats and files.

Configuration, XML, loaders, serialization, logging, discovery, the C API and the language bindings are
sequential conversions or calls of the operating system; they make up most of the lines of the repository, and
have no interleaving to check. The connections are sockets. Components other than the client appear as an arbitrary
sender. The stream source adapter (a second function lock of the same kind), the property history book and
the allocators (sections under one mutex or semaphore) are the parts with state of their own that are still missing.

## 8. Plan

Done: FrameBuffer, FrameManager, StreamFunctionLock, StreamCore, FrameOwnership,
ComponentPort, PropertyLock, CoreFunctionLock, Core, FrameCallback, FrameRecorder, RemotePort and Server, and
the proofs of section 5, which cover every safety property of a run but `GoesOn`.

Left are the stream source adapter with its function lock, composed below StreamCore; the property history book,
whose list of updated properties looks at the newest value and not at that of the frame
(`stream/property_history_book.cpp:411`); and the first-fit allocator against a reference definition.
