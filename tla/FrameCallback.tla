--------------------------- MODULE FrameCallback ---------------------------
(***************************************************************************)
(* The frame callback of a stream: RegisterFrameCallback and               *)
(* UnregisterFrameCallback called by several threads, Start and Stop, the  *)
(* component's thread in SendFrames, and the worker of each                *)
(* FrameObserverOrder, which runs the callback of the application.         *)
(*                                                                         *)
(* Four mutexes are held over a wait for something else and are variables: *)
(* mutex_frame_, mutex_callback_frame_, the one of frame_notifier_ and the *)
(* one of each observer.  The parameter of a worker is only locked for a   *)
(* moment.  Within a callback the application calls GetFrame, waiting or   *)
(* polling, and ReleaseFrame.                                              *)
(***************************************************************************)
EXTENDS Naturals, Sequences, SequencesExt, FiniteSets

CONSTANTS
  Threads,     \* threads of the application
  Observers,   \* observers that may be created, none twice
  Care,        \* whether the application may be careful: it calls Register never
               \* beside Start and Stop, and replaces a callback only on a stopped
               \* stream; and whether it may be careless
  MaxCalls,    \* bound: calls of the application
  MaxFrames    \* bound: frames the component sends

ASSUME FrameCallbackAssumption ==
  /\ Care \subseteq BOOLEAN
  /\ MaxCalls \in Nat
  /\ MaxFrames \in Nat
  /\ Threads \cap Observers = {}
  /\ {"sender", "none"} \cap (Threads \cup Observers) = {}
  /\ {"frame", "callback", "notifier"} \cap Observers = {}

VARIABLES
  careful,          \* whether the application is
  state,            \* the current state of the stream, Ready or Running
  queue,            \* number of arrived frames
  frame_observer,
  observer_list,    \* the list of frame_notifier_
  life,             \* life[o]: "unused", "live" or "deleted"
  worker,           \* worker[o]: where the thread of observer o is
  is_start,         \* is_start[o], callback_count[o]: the parameter of the
  callback_count,   \* worker of o
  held,             \* held[m]: who holds mutex m
  pc,               \* pc[t]: where thread t is
  is_running,       \* local of RegisterFrameCallback
  next_observer,    \* local of RegisterFrameCallback
  observer,         \* the observer that thread t takes away or stops
  unstarted,        \* history: observers that a Start left without a worker, and
                    \* threads that are going to register such a one
  send,             \* where the component's thread is
  position,         \* its place in observer_list
  sent,
  calls

stream_vars   == <<state, queue>>
observer_vars == <<frame_observer, observer_list, life>>
worker_vars   == <<worker, is_start, callback_count>>
local_vars    == <<is_running, next_observer, observer, unstarted>>
send_vars     == <<send, position, sent>>
step_vars == <<stream_vars, observer_vars, worker_vars, held, pc, local_vars, send_vars, calls>>
vars == <<careful, step_vars>>

None == "none"

Mutexes == {"frame", "callback", "notifier"} \cup Observers

\* Threads use "register" to "add" in RegisterFrameCallback and "remove" to
\* "join" in both; the other labels are of Start and Stop.
Labels ==
  {"idle", "register", "remove", "stop", "join", "add", "start_observer", "start_port",
   "stop_port", "stop_commit", "stop_observer", "stop_join"}

StateFunction ==
  {"start_observer", "start_port", "stop_port", "stop_commit", "stop_observer", "stop_join"}

Registering == {"register", "add"}

\* The state of the observers and of every thread.
TypeOK ==
  /\ careful \in Care
  /\ state \in {"Ready", "Running"}
  /\ queue \in 0 .. MaxFrames
  /\ frame_observer \in Observers \cup {None}
  /\ observer_list \in Seq([observer : Observers, enabled : BOOLEAN])
  /\ life \in [Observers -> {"unused", "live", "deleted"}]
  /\ worker \in [Observers -> {"none", "loop", "callback", "get", "wait", "release", "ended"}]
  /\ is_start \in [Observers -> BOOLEAN]
  /\ callback_count \in [Observers -> Nat]
  /\ held \in [Mutexes -> Threads \cup {"sender", None}]
  /\ pc \in [Threads -> Labels]
  /\ is_running \in [Threads -> BOOLEAN]
  /\ next_observer \in [Threads -> Observers \cup {None}]
  /\ observer \in [Threads -> Observers \cup {None}]
  /\ unstarted \subseteq Threads \cup Observers
  /\ send \in {"idle", "arrived", "callback", "notifier", "notify"}
  /\ position \in Nat
  /\ sent \in 0 .. MaxFrames
  /\ calls \in 0 .. MaxCalls

Init ==
  /\ careful \in Care
  /\ state = "Ready"
  /\ queue = 0
  /\ frame_observer = None
  /\ observer_list = <<>>
  /\ life = [o \in Observers |-> "unused"]
  /\ worker = [o \in Observers |-> "none"]
  /\ is_start = [o \in Observers |-> FALSE]
  /\ callback_count = [o \in Observers |-> 0]
  /\ held = [m \in Mutexes |-> None]
  /\ pc = [t \in Threads |-> "idle"]
  /\ is_running = [t \in Threads |-> FALSE]
  /\ next_observer = [t \in Threads |-> None]
  /\ observer = [t \in Threads |-> None]
  /\ unstarted = {}
  /\ send = "idle"
  /\ position = 1
  /\ sent = 0
  /\ calls = 0

Free(m) == held[m] = None

Go(t, label) == pc' = [pc EXCEPT ![t] = label]

Settled == \A t \in Threads : pc[t] \notin StateFunction

\* IsSendableState: Stop has changed the destination state before "stop_port",
\* and changes the current one at "stop_commit".
IsSendableState ==
  state = "Running" /\ \A t \in Threads : pc[t] \notin {"stop_port", "stop_commit"}

Call(t) ==
  /\ pc[t] = "idle"
  /\ calls < MaxCalls
  /\ calls' = calls + 1

---------------------------------------------------------------------------
(***************************************************************************)
(* FrameObserverOrder and ObservedSubject                                  *)
(***************************************************************************)
\* FrameObserverOrder::Start; a thread that exists goes on.  The callers say
\* what follows when no thread can be created.
StartWorker(o) ==
  /\ worker' = [worker EXCEPT ![o] = IF @ = "none" THEN "loop" ELSE @]
  /\ is_start' = [is_start EXCEPT ![o] = IF worker[o] = "none" THEN TRUE ELSE @]
  /\ callback_count' = [callback_count EXCEPT ![o] = IF worker[o] = "none" THEN 0 ELSE @]

\* FrameObserverOrder::Stop, before the thread is joined
StopWorker(o) ==
  /\ is_start' = [is_start EXCEPT ![o] = FALSE]
  /\ callback_count' = [callback_count EXCEPT ![o] = 0]
  /\ UNCHANGED worker

Joined(o) == worker[o] \in {"none", "ended"}

\* WakeupWaitFrame: every wait on cond_frame_ is over.
Wakeup == worker' = [o \in Observers |-> IF worker[o] = "wait" THEN "get" ELSE worker[o]]

\* NotifyCallbackOrderFrame
WorkerLoop(o) ==
  /\ worker[o] = "loop"
  /\ IF ~is_start[o]
     THEN worker' = [worker EXCEPT ![o] = "ended"] /\ UNCHANGED callback_count
     ELSE /\ callback_count[o] > 0
          /\ callback_count' = [callback_count EXCEPT ![o] = @ - 1]
          /\ worker' = [worker EXCEPT ![o] = "callback"]
  /\ UNCHANGED <<stream_vars, observer_vars, is_start, held, pc, local_vars, send_vars, calls>>

\* The callback returns, or calls GetFrame.
Callback(o, label) ==
  /\ worker[o] = "callback"
  /\ worker' = [worker EXCEPT ![o] = label]
  /\ UNCHANGED <<stream_vars, observer_vars, is_start, callback_count, held, pc, local_vars,
                 send_vars, calls>>

\* GetFrame in the callback: the frame, or "invalid state", or nothing yet.
GetFrame(o) ==
  /\ worker[o] = "get"
  /\ Free("frame")
  /\ IF state # "Running"
     THEN worker' = [worker EXCEPT ![o] = "callback"] /\ UNCHANGED queue
     ELSE IF queue > 0
     THEN queue' = queue - 1 /\ worker' = [worker EXCEPT ![o] = "release"]
     ELSE /\ \E label \in {"wait", "callback"} : worker' = [worker EXCEPT ![o] = label]
          /\ UNCHANGED queue
  /\ UNCHANGED <<state, observer_vars, is_start, callback_count, held, pc, local_vars,
                 send_vars, calls>>

ReleaseFrame(o) ==
  /\ worker[o] = "release"
  /\ Free("frame")
  /\ worker' = [worker EXCEPT ![o] = "callback"]
  /\ UNCHANGED <<stream_vars, observer_vars, is_start, callback_count, held, pc, local_vars,
                 send_vars, calls>>

---------------------------------------------------------------------------
(***************************************************************************)
(* RegisterFrameCallback and UnregisterFrameCallback                       *)
(***************************************************************************)
\* Nothing that would take an observer of a running stream away, or change the
\* state of the stream meanwhile.
MayRegister ==
  /\ \A t \in Threads : pc[t] \notin StateFunction \cup Registering /\ next_observer[t] = None
  /\ frame_observer = None \/ state = "Ready"

\* The state is read before mutex_callback_frame_ is locked, maybe while a Start
\* has started the observer of before.
CallRegister(t) ==
  /\ Call(t)
  /\ Cardinality({o \in Observers : life[o] = "unused"})
       > Cardinality({u \in Threads : pc[u] = "register"})
  /\ careful => MayRegister
  /\ is_running' = [is_running EXCEPT ![t] = (state = "Running")]
  /\ unstarted' = unstarted \cup {u \in {t} : \E v \in Threads : pc[v] = "start_port"}
  /\ Go(t, "register")
  /\ UNCHANGED <<stream_vars, observer_vars, worker_vars, held, next_observer, observer, send_vars>>

NewUnstarted(t, o) == IF t \in unstarted THEN (unstarted \ {t}) \cup {o} ELSE unstarted

\* Mutant: the new observer is never started.
NewObserverStopped(t, o) ==
  /\ life' = [life EXCEPT ![o] = "live"]
  /\ next_observer' = [next_observer EXCEPT ![t] = o]
  /\ unstarted' = NewUnstarted(t, o)
  /\ UNCHANGED worker_vars

NewObserver(t, o) ==
  /\ life' = [life EXCEPT ![o] = "live"]
  /\ next_observer' = [next_observer EXCEPT ![t] = o]
  /\ unstarted' = NewUnstarted(t, o)
  /\ IF is_running[t] THEN StartWorker(o) ELSE UNCHANGED worker_vars

\* SetupFrameObserver fails when the thread of the new observer cannot be
\* created; that observer is deleted, and the registered one stays.
RegisterFailed(t) ==
  /\ pc[t] = "register"
  /\ Free("callback")
  /\ is_running[t]
  /\ is_running' = [is_running EXCEPT ![t] = FALSE]
  /\ Go(t, "idle")
  /\ UNCHANGED <<stream_vars, observer_vars, worker_vars, held, next_observer, observer, unstarted,
                 send_vars, calls>>

\* A registered observer is unregistered first, with mutex_callback_frame_ held.
Register(t, o) ==
  /\ pc[t] = "register"
  /\ Free("callback")
  /\ life[o] = "unused"
  /\ NewObserver(t, o)
  /\ held' = [held EXCEPT !["callback"] = t]
  /\ \/ /\ frame_observer = None
        /\ frame_observer' = o
        /\ Go(t, "add")
        /\ UNCHANGED observer
     \/ /\ frame_observer # None
        /\ frame_observer' = None
        /\ observer' = [observer EXCEPT ![t] = frame_observer]
        /\ Go(t, "remove")
  /\ UNCHANGED <<stream_vars, observer_list, is_running, send_vars, calls>>

\* AddObserver, and the return
AddObserver(t) ==
  /\ pc[t] = "add"
  /\ Free("notifier")
  /\ observer_list' = Append(observer_list, [observer |-> next_observer[t], enabled |-> TRUE])
  /\ held' = [held EXCEPT !["callback"] = None]
  /\ next_observer' = [next_observer EXCEPT ![t] = None]
  /\ is_running' = [is_running EXCEPT ![t] = FALSE]
  /\ Go(t, "idle")
  /\ UNCHANGED <<stream_vars, frame_observer, life, worker_vars, observer, unstarted, send_vars, calls>>

\* Mutant: mutex_callback_frame_ is held until the end.
UnregisterHolding(t) ==
  /\ Call(t)
  /\ Free("callback")
  /\ frame_observer # None
  /\ frame_observer' = None
  /\ observer' = [observer EXCEPT ![t] = frame_observer]
  /\ held' = [held EXCEPT !["callback"] = t]
  /\ Go(t, "remove")
  /\ UNCHANGED <<stream_vars, observer_list, life, worker_vars, is_running, next_observer,
                 unstarted, send_vars>>

\* UnregisterFrameCallback; with no callback registered it does nothing.
Unregister(t) ==
  /\ Call(t)
  /\ Free("callback")
  /\ frame_observer # None
  /\ frame_observer' = None
  /\ observer' = [observer EXCEPT ![t] = frame_observer]
  /\ Go(t, "remove")
  /\ UNCHANGED <<stream_vars, observer_list, life, worker_vars, held, is_running, next_observer,
                 unstarted, send_vars>>

\* Mutant: the observer stays in the list.
RemoveObserverNot(t) ==
  /\ pc[t] = "remove"
  /\ Free("notifier")
  /\ Go(t, "stop")
  /\ UNCHANGED <<stream_vars, observer_vars, worker_vars, held, local_vars, send_vars, calls>>

\* The element is erased by the next NotifyObservers.
RemoveObserver(t) ==
  /\ pc[t] = "remove"
  /\ Free("notifier")
  /\ observer_list' = [i \in DOMAIN observer_list |->
       IF observer_list[i].observer = observer[t]
       THEN [observer_list[i] EXCEPT !.enabled = FALSE] ELSE observer_list[i]]
  /\ Go(t, "stop")
  /\ UNCHANGED <<stream_vars, frame_observer, life, worker_vars, held, local_vars, send_vars, calls>>

StopObserver(t) ==
  /\ pc[t] = "stop"
  /\ Free(observer[t])
  /\ StopWorker(observer[t])
  /\ held' = [held EXCEPT ![observer[t]] = t]
  /\ Go(t, "join")
  /\ UNCHANGED <<stream_vars, observer_vars, local_vars, send_vars, calls>>

\* The end of FrameObserverOrder::Stop, and the deletion of the observer
DeleteObserver(t) ==
  LET o == observer[t] IN
  /\ pc[t] = "join"
  /\ Joined(o)
  /\ worker' = [worker EXCEPT ![o] = "none"]
  /\ life' = [life EXCEPT ![o] = "deleted"]
  /\ held' = [held EXCEPT ![o] = None]
  /\ observer' = [observer EXCEPT ![t] = None]
  /\ \/ /\ next_observer[t] = None
        /\ Go(t, "idle")
        /\ UNCHANGED frame_observer
     \/ /\ next_observer[t] # None
        /\ frame_observer' = next_observer[t]
        /\ Go(t, "add")
  /\ UNCHANGED <<stream_vars, observer_list, is_start, callback_count, is_running, next_observer,
                 unstarted, send_vars, calls>>

---------------------------------------------------------------------------
(***************************************************************************)
(* Start and Stop                                                          *)
(***************************************************************************)
\* State functions are serialized by the function lock of the stream.
CallStateFunction(t, from, label) ==
  /\ Call(t)
  /\ Settled
  /\ state = from
  /\ careful => \A u \in Threads : pc[u] \notin Registering /\ next_observer[u] = None
  /\ Go(t, label)
  /\ UNCHANGED <<stream_vars, observer_vars, worker_vars, held, local_vars, send_vars>>

CallStart(t) == CallStateFunction(t, "Ready", "start_observer")

CallStop(t) == CallStateFunction(t, "Running", "stop_port")

\* The threads that have read the state before this Start have not seen it run.
Overtaken == unstarted \cup {u \in Threads : pc[u] = "register" /\ ~is_running[u]}

\* Start does not look at the status: without a thread it goes on.
StartFrameObserver(t) ==
  /\ pc[t] = "start_observer"
  /\ Free("callback")
  /\ \/ /\ frame_observer = None
        /\ unstarted' = Overtaken
        /\ UNCHANGED worker_vars
     \/ /\ frame_observer # None
        /\ Free(frame_observer)
        /\ StartWorker(frame_observer)
        /\ unstarted' = Overtaken \ {frame_observer}
     \/ /\ frame_observer # None
        /\ Free(frame_observer)
        /\ worker[frame_observer] = "none"
        /\ unstarted' = Overtaken \cup {frame_observer}
        /\ UNCHANGED worker_vars
  /\ Go(t, "start_port")
  /\ UNCHANGED <<stream_vars, observer_vars, held, is_running, next_observer, observer, send_vars,
                 calls>>

\* The port starts the stream, or the component refuses.
StartPort(t) ==
  /\ pc[t] = "start_port"
  /\ \/ state' = "Running" /\ Go(t, "idle")
     \/ state' = state /\ Go(t, "stop_observer")
  /\ UNCHANGED <<queue, observer_vars, worker_vars, held, local_vars, send_vars, calls>>

\* The port waits for SendFrames in progress, which holds mutex_streams_started_.
StopPort(t) ==
  /\ pc[t] = "stop_port"
  /\ send = "idle"
  /\ \E label \in {"stop_commit", "idle"} : Go(t, label)
  /\ UNCHANGED <<stream_vars, observer_vars, worker_vars, held, local_vars, send_vars, calls>>

\* Mutant: threads in GetFrame are not woken.
StopCommitQuietly(t) ==
  /\ pc[t] = "stop_commit"
  /\ Free("frame")
  /\ state' = "Ready"
  /\ Go(t, "stop_observer")
  /\ UNCHANGED <<queue, observer_vars, worker_vars, held, local_vars, send_vars, calls>>

StopCommit(t) ==
  /\ pc[t] = "stop_commit"
  /\ Free("frame")
  /\ state' = "Ready"
  /\ Wakeup
  /\ Go(t, "stop_observer")
  /\ UNCHANGED <<queue, observer_vars, is_start, callback_count, held, local_vars, send_vars, calls>>

\* StopFrameObserver; mutex_callback_frame_ and the observer stay locked.
StopFrameObserver(t) ==
  /\ pc[t] = "stop_observer"
  /\ Free("callback")
  /\ IF frame_observer = None
     THEN Go(t, "idle") /\ UNCHANGED <<worker_vars, held, observer>>
     ELSE /\ Free(frame_observer)
          /\ StopWorker(frame_observer)
          /\ held' = [held EXCEPT !["callback"] = t, ![frame_observer] = t]
          /\ observer' = [observer EXCEPT ![t] = frame_observer]
          /\ Go(t, "stop_join")
  /\ UNCHANGED <<stream_vars, observer_vars, is_running, next_observer, unstarted, send_vars, calls>>

\* Mutant: the worker is not joined.
StopDoneEarly(t) ==
  /\ pc[t] = "stop_join"
  /\ held' = [held EXCEPT !["callback"] = None, ![observer[t]] = None]
  /\ observer' = [observer EXCEPT ![t] = None]
  /\ Go(t, "idle")
  /\ UNCHANGED <<stream_vars, observer_vars, worker_vars, is_running, next_observer, unstarted,
                 send_vars, calls>>

StopDone(t) ==
  /\ pc[t] = "stop_join"
  /\ Joined(observer[t])
  /\ worker' = [worker EXCEPT ![observer[t]] = "none"]
  /\ held' = [held EXCEPT !["callback"] = None, ![observer[t]] = None]
  /\ observer' = [observer EXCEPT ![t] = None]
  /\ Go(t, "idle")
  /\ UNCHANGED <<stream_vars, observer_vars, is_start, callback_count, is_running, next_observer,
                 unstarted, send_vars, calls>>

---------------------------------------------------------------------------
(***************************************************************************)
(* SendFrames of the component, one frame at a time                        *)
(***************************************************************************)
\* The frame is set with mutex_frame_ locked, which is kept to the end.
SendFrames ==
  /\ send = "idle"
  /\ sent < MaxFrames
  /\ IsSendableState
  /\ Free("frame")
  /\ sent' = sent + 1
  /\ queue' = queue + 1
  /\ held' = [held EXCEPT !["frame"] = "sender"]
  /\ send' = "arrived"
  /\ UNCHANGED <<state, observer_vars, worker_vars, pc, local_vars, position, calls>>

SendDone ==
  /\ held' = [m \in Mutexes |-> IF held[m] = "sender" THEN None ELSE held[m]]
  /\ send' = "idle"
  /\ position' = 1

\* FrameArrived asks again, and wakes the threads in GetFrame.
FrameArrived ==
  /\ send = "arrived"
  /\ IF IsSendableState
     THEN Wakeup /\ send' = "callback" /\ UNCHANGED <<held, position>>
     ELSE SendDone /\ UNCHANGED worker
  /\ UNCHANGED <<stream_vars, observer_vars, is_start, callback_count, pc, local_vars, sent, calls>>

SendLock(from, m, to) ==
  /\ send = from
  /\ Free(m)
  /\ held' = [held EXCEPT ![m] = "sender"]
  /\ send' = to
  /\ UNCHANGED <<stream_vars, observer_vars, worker_vars, pc, local_vars, position, sent, calls>>

LockCallback == SendLock("callback", "callback", "notifier")

LockNotifier == SendLock("notifier", "notifier", "notify")

\* One element of the list: FrameObserverOrder::Notify, or an erasure
NotifyObserver ==
  /\ send = "notify"
  /\ position <= Len(observer_list)
  /\ LET e == observer_list[position] IN
     \/ /\ e.enabled
        /\ Free(e.observer)
        /\ callback_count' = [callback_count EXCEPT ![e.observer] =
             IF worker[e.observer] # "none" /\ is_start[e.observer] THEN @ + 1 ELSE @]
        /\ position' = position + 1
        /\ UNCHANGED observer_list
     \/ /\ ~e.enabled
        /\ observer_list' = RemoveAt(observer_list, position)
        /\ UNCHANGED <<callback_count, position>>
  /\ UNCHANGED <<stream_vars, frame_observer, life, worker, is_start, held, pc, local_vars, send,
                 sent, calls>>

NotifyDone ==
  /\ send = "notify"
  /\ position > Len(observer_list)
  /\ SendDone
  /\ UNCHANGED <<stream_vars, observer_vars, worker_vars, pc, local_vars, sent, calls>>

---------------------------------------------------------------------------
ThreadStep(t) ==
  \/ \E o \in Observers : Register(t, o)
  \/ RegisterFailed(t)
  \/ AddObserver(t)
  \/ RemoveObserver(t)
  \/ StopObserver(t)
  \/ DeleteObserver(t)
  \/ StartFrameObserver(t)
  \/ StartPort(t)
  \/ StopPort(t)
  \/ StopCommit(t)
  \/ StopFrameObserver(t)
  \/ StopDone(t)

WorkerStep(o) ==
  \/ WorkerLoop(o)
  \/ Callback(o, "loop")
  \/ GetFrame(o)
  \/ ReleaseFrame(o)

SenderStep == FrameArrived \/ LockCallback \/ LockNotifier \/ NotifyObserver \/ NotifyDone

---------------------------------------------------------------------------
(***************************************************************************)
(* The waits                                                               *)
(***************************************************************************)
Holder(m) == {held[m]} \ {None}

SenderWaitsFor ==
  CASE send = "callback" -> Holder("callback")
    [] send = "notifier" -> Holder("notifier")
    [] send = "notify" /\ position <= Len(observer_list) ->
         IF observer_list[position].enabled
         THEN Holder(observer_list[position].observer) ELSE {}
    [] OTHER -> {}

WorkerWaitsFor(o) == IF worker[o] \in {"get", "release"} THEN Holder("frame") ELSE {}

ThreadWaitsFor(t) ==
  CASE pc[t] = "register" -> Holder("callback")
    [] pc[t] \in {"start_observer", "stop_observer"} ->
         Holder("callback") \cup
           (IF frame_observer = None THEN {} ELSE Holder(frame_observer))
    [] pc[t] \in {"add", "remove"} -> Holder("notifier")
    [] pc[t] = "stop" -> Holder(observer[t])
    [] pc[t] \in {"join", "stop_join"} ->
         IF Joined(observer[t]) THEN {} ELSE {observer[t]}
    [] pc[t] = "stop_port" -> IF send = "idle" THEN {} ELSE {"sender"}
    [] pc[t] = "stop_commit" -> Holder("frame")
    [] OTHER -> {}

\* The processes that p waits for; a wait for a frame is not one.
WaitsFor(p) ==
  CASE p = "sender"   -> SenderWaitsFor
    [] p \in Observers -> WorkerWaitsFor(p)
    [] p \in Threads   -> ThreadWaitsFor(p)

CircularWait ==
  \E S \in (SUBSET (Threads \cup Observers \cup {"sender"})) \ {{}} :
    \A p \in S : WaitsFor(p) \cap S # {}

---------------------------------------------------------------------------
\* The end of a bounded behaviour: a worker may wait for a frame for ever, and
\* the threads of a careless application for each other.
Finished ==
  /\ \/ /\ \A t \in Threads :
             pc[t] = "idle" \/ (pc[t] = "join" /\ worker[observer[t]] = "wait")
        /\ send = "idle"
     \/ ~careful /\ CircularWait
  /\ UNCHANGED vars

Step ==
  \/ \E t \in Threads :
       CallRegister(t) \/ Unregister(t) \/ CallStart(t) \/ CallStop(t) \/ ThreadStep(t)
  \/ \E o \in Observers : WorkerStep(o) \/ Callback(o, "get")
  \/ SendFrames
  \/ SenderStep

Next ==
  \/ Step /\ UNCHANGED careful
  \/ Finished

\* A callback calls GetFrame a finite number of times and returns.
Fairness ==
  /\ \A t \in Threads : WF_step_vars(ThreadStep(t))
  /\ \A o \in Observers :
       /\ WF_step_vars(WorkerLoop(o) \/ GetFrame(o) \/ ReleaseFrame(o))
       /\ SF_step_vars(Callback(o, "loop"))
  /\ WF_step_vars(SenderStep)

Spec == Init /\ [][Next]_vars

FairSpec == Spec /\ Fairness

---------------------------------------------------------------------------
(***************************************************************************)
(* Properties                                                              *)
(***************************************************************************)
\* No application thread, worker and component thread wait for one another in
\* a circle: not through the four mutexes, nor through the join of a worker
\* whose callback wants mutex_frame_ (StreamCore::RegisterFrameCallback joins
\* with mutex_callback_frame_ held, FrameArrived locks it with mutex_frame_ held).
\* It holds for a careful application.
NoCircularWait == careful => ~CircularWait

\* The same for every application: GetFrame may be called in a callback, whatever
\* RegisterFrameCallback is doing meanwhile.
NeverCircularWait == ~CircularWait

\* While the stream runs and no state function is under way, the registered
\* callback has a worker that takes notifications, however Start, Stop and
\* RegisterFrameCallback of several threads interleave; but for an observer
\* whose thread Start could not create, the status of which it ignores, and one
\* whose RegisterFrameCallback read the state before a Start that started the
\* observer of before.  The next Start ends either exception.
RegisteredRuns ==
  (state = "Running" /\ Settled /\ frame_observer \notin unstarted \cup {None})
    => worker[frame_observer] \notin {"none", "ended"} /\ is_start[frame_observer]

\* An observer that UnregisterFrameCallback deleted is not notified again, not
\* registered, and has no worker left that would run the old callback.
NoUseAfterDelete ==
  \A o \in Observers : life[o] = "deleted" =>
    /\ worker[o] = "none"
    /\ o # frame_observer
    /\ \A i \in DOMAIN observer_list :
         observer_list[i].observer = o => ~observer_list[i].enabled

\* When Stop has returned to a careful application no callback is running, except
\* that of an observer which an UnregisterFrameCallback in another thread is still
\* waiting for.
QuietWhenStopped ==
  (careful /\ state = "Ready" /\ Settled) =>
    \A o \in Observers : worker[o] \in {"callback", "get", "wait", "release"} =>
      \E t \in Threads : pc[t] \in {"remove", "stop", "join"} /\ observer[t] = o

\* Stop returns to a careful application although a callback waits in GetFrame
\* without a time limit: StopCore changes the state first and wakes it ("the
\* process required for GetFrame() in FrameCallback").
StopReturns ==
  \A t \in Threads : careful /\ pc[t] = "stop_port" ~> pc[t] = "idle"

=============================================================================
