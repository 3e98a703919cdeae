------------------------ MODULE FrameCallbackProofs ------------------------
(***************************************************************************)
(* The proofs about FrameCallback.  Which thread answers for which         *)
(* observer, and who holds mutex_callback_frame_, is an invariant of any   *)
(* application (CallbackInv), and so is that the registered observer runs  *)
(* with the stream (StartedInv); that it rests with the stream is one of a *)
(* careful application (CarefulInv).                                       *)
(***************************************************************************)
EXTENDS FrameCallback, TLAPS

Removing == {"remove", "stop", "join"}

\* Thread t takes the old observer away and has a new one to register.
Replacing(t) == pc[t] \in Removing /\ next_observer[t] # None

HoldsCallback(t) == pc[t] \in {"add", "stop_join"} \/ Replacing(t)

\* The list, the worker parameters and the counters without their bounds.
Typed ==
  /\ state \in {"Ready", "Running"}
  /\ frame_observer \in Observers \cup {None}
  /\ observer_list \in Seq([observer : Observers, enabled : BOOLEAN])
  /\ life \in [Observers -> {"unused", "live", "deleted"}]
  /\ worker \in [Observers -> {"none", "loop", "callback", "get", "wait", "release", "ended"}]
  /\ is_start \in [Observers -> BOOLEAN]
  /\ held \in [Mutexes -> Threads \cup {"sender", None}]
  /\ pc \in [Threads -> Labels]
  /\ is_running \in [Threads -> BOOLEAN]
  /\ next_observer \in [Threads -> Observers \cup {None}]
  /\ observer \in [Threads -> Observers \cup {None}]
  /\ unstarted \subseteq Threads \cup Observers
  /\ send \in {"idle", "arrived", "callback", "notifier", "notify"}
  /\ position \in Nat \ {0}

\* Each observer that a thread holds on to is its own: the new one, the one it
\* removes, the one it stops while it stays registered.
NextPlaced ==
  \A t \in Threads :
    /\ next_observer[t] # None => pc[t] \in Removing \cup {"add"}
    /\ pc[t] = "add" => next_observer[t] # None /\ frame_observer = next_observer[t]
    /\ Replacing(t) => frame_observer = None

StopPlaced ==
  \A t \in Threads :
    pc[t] = "stop_join" => observer[t] # None /\ observer[t] = frame_observer

RemovedPlaced ==
  \A t \in Threads : pc[t] \in Removing =>
    /\ observer[t] # None
    /\ observer[t] # frame_observer
    /\ \A u \in Threads : observer[t] # next_observer[u]
    /\ \A u \in Threads : u # t /\ pc[u] \in Removing => observer[u] # observer[t]

\* mutex_callback_frame_ is held by the thread that has it for long.
CallbackMutex == \A t \in Threads : held["callback"] = t <=> HoldsCallback(t)

Lives ==
  /\ frame_observer # None => life[frame_observer] = "live"
  /\ \A t \in Threads :
       /\ pc[t] \in Removing => life[observer[t]] = "live"
       /\ next_observer[t] # None => life[next_observer[t]] = "live"
  /\ \A o \in Observers : life[o] # "live" => worker[o] = "none"

\* Nothing is in the list that is neither registered nor about to be removed.
Enabled ==
  \A i \in DOMAIN observer_list : observer_list[i].enabled =>
    \/ observer_list[i].observer = frame_observer
    \/ \E t \in Threads : pc[t] = "remove" /\ observer[t] = observer_list[i].observer

CallbackInv ==
  Typed /\ NextPlaced /\ StopPlaced /\ RemovedPlaced /\ CallbackMutex /\ Lives /\ Enabled

\* The new observer of a thread is registered soon, or is already.
Kept(o) == o = frame_observer \/ \E t \in Threads : next_observer[t] = o

\* One state function at a time, which knows the state.
OneStateFunction ==
  /\ \A t, u \in Threads : pc[t] \in StateFunction /\ pc[u] \in StateFunction => t = u
  /\ \A t \in Threads :
       /\ pc[t] \in {"stop_port", "stop_commit"} => state = "Running"
       /\ pc[t] \in {"start_observer", "start_port", "stop_observer", "stop_join"} =>
            state = "Ready"

\* A worker ends only where a thread waits for it.
WorkersGoOn ==
  \A o \in Observers : Kept(o) /\ worker[o] # "none" =>
    \/ is_start[o] /\ worker[o] # "ended"
    \/ \E t \in Threads : pc[t] = "stop_join" /\ observer[t] = o

\* The stream runs, or Start has started the observer and not yet the port.
Starting == state = "Running" \/ \E t \in Threads : pc[t] = "start_port"

WorkersStarted ==
  Starting =>
    /\ \A o \in Observers : Kept(o) /\ o \notin unstarted => worker[o] # "none"
    /\ \A t \in Threads : pc[t] = "register" /\ ~is_running[t] => t \in unstarted

StartedInv == CallbackInv /\ OneStateFunction /\ WorkersGoOn /\ WorkersStarted

\* No live observer is forgotten.
Placed ==
  \A o \in Observers : life[o] = "live" =>
    \/ o = frame_observer
    \/ \E t \in Threads : pc[t] \in Removing /\ observer[t] = o
    \/ \E t \in Threads : next_observer[t] = o

Busy(t) == pc[t] \in Registering \/ next_observer[t] # None

\* A careful application: one registration at a time, and none beside a state
\* function, of which there is one.
Apart ==
  /\ \A t, u \in Threads : pc[t] \in StateFunction /\ pc[u] \in StateFunction => t = u
  /\ \A t, u \in Threads : pc[t] \in StateFunction => ~Busy(u)
  /\ \A t, u \in Threads : Busy(t) /\ Busy(u) => t = u

StateKnown ==
  \A t \in Threads :
    /\ pc[t] \in {"stop_port", "stop_commit"} => state = "Running"
    /\ pc[t] \in {"start_observer", "start_port", "stop_observer", "stop_join"} =>
         state = "Ready"
    /\ pc[t] = "register" =>
         /\ is_running[t] <=> (state = "Running")
         /\ frame_observer = None \/ state = "Ready"
    /\ Replacing(t) => state = "Ready"

\* The worker of the registered observer, and of one about to be.
WorkerRests ==
  /\ frame_observer # None
  /\ state = "Ready"
  /\ \A t \in Threads : pc[t] \notin {"start_port", "stop_observer", "stop_join"}
  => worker[frame_observer] = "none"

NewWorkerRests ==
  \A t \in Threads :
    Replacing(t) => worker[next_observer[t]] = "none"

\* The component sends only while the stream runs; its thread holds what it
\* has locked, and a thread that waits in FrameObserverOrder::Stop its observer.
Sending ==
  /\ send # "idle" => state = "Running" /\ \A t \in Threads : pc[t] # "stop_commit"
  /\ held["frame"] \in {None, "sender"}
  /\ held["notifier"] \in {None, "sender"}
  /\ held["notifier"] = "sender" => send = "notify"
  /\ held["callback"] = "sender" => send \in {"notifier", "notify"}
  /\ \A o \in Observers : held[o] # None =>
       \E t \in Threads : held[o] = t /\ observer[t] = o /\ pc[t] \in {"join", "stop_join"}

CarefulInv ==
  CallbackInv /\ Placed /\ Apart /\ StateKnown /\ WorkerRests /\ NewWorkerRests /\ Sending

---------------------------------------------------------------------------
\* Threads, observers and mutexes are told apart.
LEMMA Names ==
  /\ None \notin Threads /\ None \notin Observers
  /\ "sender" \notin Threads /\ "sender" \notin Observers /\ None # "sender"
  /\ {"frame", "callback", "notifier"} \cap Observers = {}
  /\ Threads \cap Observers = {}
BY FrameCallbackAssumption DEF None

\* What RemoveAt, the erasure in NotifyObservers, leaves was there before.
LEMMA RemoveAtElements ==
  ASSUME NEW S, NEW s \in Seq(S), NEW i \in 1 .. Len(s)
  PROVE  /\ RemoveAt(s, i) \in Seq(S)
         /\ \A j \in DOMAIN RemoveAt(s, i) : \E k \in DOMAIN s : RemoveAt(s, i)[j] = s[k]
<1> DEFINE a == SubSeq(s, 1, i - 1)
           b == SubSeq(s, i + 1, Len(s))
<1>0. RemoveAt(s, i) = a \o b
  BY DEF RemoveAt
<1>1. a \in Seq(S) /\ Len(a) = i - 1 /\ \A j \in 1 .. i - 1 : a[j] = s[j]
  OBVIOUS
<1>2. b \in Seq(S) /\ Len(b) = Len(s) - i /\ \A j \in 1 .. Len(s) - i : b[j] = s[i + j]
  OBVIOUS
<1> HIDE DEF a, b
<1>3. a \o b \in Seq(S)
  BY <1>1, <1>2
<1>4. ASSUME NEW j \in DOMAIN (a \o b)
      PROVE  \E k \in DOMAIN s : (a \o b)[j] = s[k]
  <2>1. j \in 1 .. (Len(s) - 1)
    BY <1>1, <1>2, <1>4
  <2>2. CASE j <= i - 1
    BY <2>1, <2>2, <1>1, <1>2
  <2>3. CASE j > i - 1
    <3>1. (a \o b)[j] = b[j - (i - 1)]
      BY <2>1, <2>3, <1>1, <1>2
    <3>2. j - (i - 1) \in 1 .. Len(s) - i /\ j + 1 \in DOMAIN s /\ i + (j - (i - 1)) = j + 1
      BY <2>1, <2>3
    <3> QED BY <3>1, <3>2, <1>2
  <2> QED BY <2>1, <2>2, <2>3
<1> QED BY <1>0, <1>3, <1>4

\* observer_list with every element of an observer disabled
Disabled(s, o) ==
  [i \in DOMAIN s |-> IF s[i].observer = o THEN [s[i] EXCEPT !.enabled = FALSE] ELSE s[i]]

\* RemoveObserver leaves the elements where they are and disables some.
LEMMA DisabledType ==
  ASSUME NEW o, NEW s \in Seq([observer : Observers, enabled : BOOLEAN])
  PROVE  /\ Disabled(s, o) \in Seq([observer : Observers, enabled : BOOLEAN])
         /\ DOMAIN Disabled(s, o) = DOMAIN s
         /\ \A i \in DOMAIN s :
              /\ Disabled(s, o)[i].observer = s[i].observer
              /\ Disabled(s, o)[i].enabled => s[i].enabled /\ s[i].observer # o
<1> DEFINE E == [observer : Observers, enabled : BOOLEAN]
<1>1. ASSUME NEW i \in DOMAIN s
      PROVE  LET e == IF s[i].observer = o THEN [s[i] EXCEPT !.enabled = FALSE] ELSE s[i]
             IN  e \in E /\ e.observer = s[i].observer
                 /\ (e.enabled => s[i].enabled /\ s[i].observer # o)
  <2>1. s[i] \in E
    <3>1. s \in Seq(E) /\ i \in 1 .. Len(s)
      OBVIOUS
    <3> HIDE DEF E
    <3> QED BY <3>1
  <2>2. [s[i] EXCEPT !.enabled = FALSE] \in E
        /\ [s[i] EXCEPT !.enabled = FALSE].observer = s[i].observer
        /\ ~[s[i] EXCEPT !.enabled = FALSE].enabled
    BY <2>1
  <2> QED BY <2>1, <2>2
<1>2. DOMAIN Disabled(s, o) = DOMAIN s
  BY DEF Disabled
<1>3. \A i \in DOMAIN s : Disabled(s, o)[i] =
          IF s[i].observer = o THEN [s[i] EXCEPT !.enabled = FALSE] ELSE s[i]
  BY DEF Disabled
<1>4. \A i \in DOMAIN s : Disabled(s, o)[i] \in E
  BY <1>1, <1>3
<1>5. Disabled(s, o) \in Seq(E)
  <2>1. DOMAIN s = 1 .. Len(s) /\ Len(s) \in Nat
    OBVIOUS
  <2>2. Disabled(s, o) \in [1 .. Len(s) -> E]
    BY <1>1, <2>1 DEF Disabled
  <2> QED BY <2>1, <2>2
<1> QED BY <1>1, <1>2, <1>3, <1>5

---------------------------------------------------------------------------
(***************************************************************************)
(* The types                                                               *)
(***************************************************************************)
LEMMA InitTyped == Init => Typed
BY Names, FrameCallbackAssumption DEF Init, Typed, Mutexes, Labels, None

\* RegisterFrameCallback and UnregisterFrameCallback keep the types.
LEMMA RegisterTyped ==
  ASSUME Typed, NextPlaced, NEW t \in Threads,
         \/ CallRegister(t) \/ Unregister(t) \/ AddObserver(t) \/ RemoveObserver(t)
         \/ StopObserver(t) \/ DeleteObserver(t) \/ RegisterFailed(t)
         \/ \E o \in Observers : Register(t, o)
  PROVE  Typed'
<1>1. CASE CallRegister(t)
  BY <1>1 DEF CallRegister, Call, Go, Typed, Labels, stream_vars, observer_vars, worker_vars,
              send_vars
<1>2. CASE Unregister(t)
  BY <1>2 DEF Unregister, Call, Go, Typed, Labels, stream_vars, observer_vars, worker_vars,
              send_vars
<1>3. CASE AddObserver(t)
  <2>1. observer_list' \in Seq([observer : Observers, enabled : BOOLEAN])
    <3>1. [observer |-> next_observer[t], enabled |-> TRUE]
            \in [observer : Observers, enabled : BOOLEAN]
      <4>1. next_observer[t] \in Observers
        BY <1>3 DEF AddObserver, Typed, NextPlaced
      <4> QED BY <4>1
    <3> QED BY <1>3, <3>1 DEF AddObserver, Typed
  <2> QED
    BY <1>3, <2>1 DEF AddObserver, Go, Typed, Labels, Mutexes, stream_vars, worker_vars, send_vars
<1>4. CASE RemoveObserver(t)
  <2>1. observer_list' \in Seq([observer : Observers, enabled : BOOLEAN])
    <3>1. observer_list' = Disabled(observer_list, observer[t])
      BY <1>4 DEF RemoveObserver, Disabled
    <3>2. observer_list \in Seq([observer : Observers, enabled : BOOLEAN])
      BY DEF Typed
    <3> QED BY <3>1, <3>2, DisabledType
  <2> QED
    BY <1>4, <2>1 DEF RemoveObserver, Go, Typed, Labels, stream_vars, worker_vars, local_vars,
                      send_vars
<1>5. CASE StopObserver(t)
  BY <1>5 DEF StopObserver, StopWorker, Go, Typed, Labels, Mutexes, stream_vars, observer_vars,
              local_vars, send_vars
<1>6. CASE DeleteObserver(t)
  BY <1>6 DEF DeleteObserver, Go, Typed, Labels, Mutexes, stream_vars, send_vars
<1>7. ASSUME NEW o \in Observers, Register(t, o)
      PROVE  Typed'
  <2>1. worker' \in [Observers -> {"none", "loop", "callback", "get", "wait", "release", "ended"}]
        /\ is_start' \in [Observers -> BOOLEAN]
    <3>1. CASE is_running[t]
      <4>1. StartWorker(o)
        BY <1>7, <3>1 DEF Register, NewObserver
      <4> QED BY <4>1 DEF StartWorker, Typed
    <3>2. CASE ~is_running[t]
      BY <1>7, <3>2 DEF Register, NewObserver, worker_vars, Typed
    <3> QED BY <3>1, <3>2
  <2>2. life' \in [Observers -> {"unused", "live", "deleted"}]
        /\ next_observer' \in [Threads -> Observers \cup {None}]
    BY <1>7 DEF Register, NewObserver, Typed
  <2>3. held' \in [Mutexes -> Threads \cup {"sender", None}]
    BY <1>7 DEF Register, Typed, Mutexes
  <2>4. frame_observer' \in Observers \cup {None} /\ pc' \in [Threads -> Labels]
        /\ observer' \in [Threads -> Observers \cup {None}]
        /\ unstarted' \subseteq Threads \cup Observers
    BY <1>7 DEF Register, NewObserver, NewUnstarted, Go, Typed, Labels
  <2> QED
    BY <1>7, <2>1, <2>2, <2>3, <2>4 DEF Register, Typed, stream_vars, send_vars
<1>8. CASE RegisterFailed(t)
  BY <1>8 DEF RegisterFailed, Go, Typed, Labels, stream_vars, observer_vars, worker_vars, send_vars
<1> QED BY <1>1, <1>2, <1>3, <1>4, <1>5, <1>6, <1>7, <1>8

\* Start and Stop keep the types.
LEMMA StateFunctionTyped ==
  ASSUME Typed, NEW t \in Threads,
         \/ CallStart(t) \/ CallStop(t) \/ StartFrameObserver(t) \/ StartPort(t) \/ StopPort(t)
         \/ StopCommit(t) \/ StopFrameObserver(t) \/ StopDone(t)
  PROVE  Typed'
<1>1. CASE CallStart(t) \/ CallStop(t)
  BY <1>1 DEF CallStart, CallStop, CallStateFunction, Call, Go, Typed, Labels, stream_vars,
              observer_vars, worker_vars, local_vars, send_vars
<1>2. CASE StartFrameObserver(t)
  <2>1. /\ worker' \in [Observers -> {"none", "loop", "callback", "get", "wait", "release",
                                      "ended"}]
        /\ is_start' \in [Observers -> BOOLEAN]
    <3>1. CASE UNCHANGED worker_vars
      BY <1>2, <3>1 DEF StartFrameObserver, Typed, worker_vars
    <3>2. CASE ~UNCHANGED worker_vars
      <4>1. StartWorker(frame_observer)
        BY <1>2, <3>2 DEF StartFrameObserver
      <4>2. worker \in [Observers -> {"none", "loop", "callback", "get", "wait", "release",
                                      "ended"}]
            /\ is_start \in [Observers -> BOOLEAN]
        BY DEF Typed
      <4> QED BY <4>1, <4>2 DEF StartWorker
    <3> QED BY <3>1, <3>2
  <2>2. pc' \in [Threads -> Labels]
    BY <1>2 DEF StartFrameObserver, Go, Typed, Labels
  <2>3. UNCHANGED <<stream_vars, observer_vars, held, is_running, next_observer, observer, send_vars>>
    BY <1>2 DEF StartFrameObserver
  <2>4. unstarted' \subseteq Threads \cup Observers
    BY <1>2 DEF StartFrameObserver, Overtaken, Typed
  <2> QED BY <2>1, <2>2, <2>3, <2>4 DEF Typed, stream_vars, observer_vars, send_vars
<1>3. CASE StartPort(t) \/ StopPort(t)
  BY <1>3 DEF StartPort, StopPort, Go, Typed, Labels, stream_vars, observer_vars, worker_vars,
              local_vars, send_vars
<1>4. CASE StopCommit(t)
  BY <1>4 DEF StopCommit, Wakeup, Go, Typed, Labels, stream_vars, observer_vars, worker_vars,
              local_vars, send_vars
<1>5. CASE StopFrameObserver(t)
  <2>1. worker' = worker /\ is_start' \in [Observers -> BOOLEAN]
    BY <1>5 DEF StopFrameObserver, StopWorker, Typed, worker_vars
  <2>2. pc' \in [Threads -> Labels]
    BY <1>5 DEF StopFrameObserver, Go, Typed, Labels
  <2>3. held' \in [Mutexes -> Threads \cup {"sender", None}]
    BY <1>5 DEF StopFrameObserver, Typed, Mutexes
  <2>4. observer' \in [Threads -> Observers \cup {None}]
    BY <1>5 DEF StopFrameObserver, Typed
  <2>5. UNCHANGED <<stream_vars, observer_vars, is_running, next_observer, unstarted, send_vars>>
    BY <1>5 DEF StopFrameObserver
  <2> QED BY <2>1, <2>2, <2>3, <2>4, <2>5 DEF Typed, stream_vars, observer_vars, send_vars
<1>6. CASE StopDone(t)
  BY <1>6 DEF StopDone, Go, Typed, Labels, Mutexes, stream_vars, observer_vars, worker_vars,
              local_vars, send_vars
<1> QED BY <1>1, <1>2, <1>3, <1>4, <1>5, <1>6

\* The workers and the callback in them keep the types.
LEMMA WorkerTyped ==
  ASSUME Typed, NEW o \in Observers, WorkerStep(o) \/ Callback(o, "get")
  PROVE  Typed'
<1>1. CASE WorkerLoop(o)
  BY <1>1 DEF WorkerLoop, Typed, stream_vars, observer_vars, local_vars, send_vars
<1>2. CASE Callback(o, "loop") \/ Callback(o, "get")
  BY <1>2 DEF Callback, Typed, stream_vars, observer_vars, local_vars, send_vars
<1>3. CASE GetFrame(o)
  BY <1>3 DEF GetFrame, Typed, stream_vars, observer_vars, local_vars, send_vars
<1>4. CASE ReleaseFrame(o)
  BY <1>4 DEF ReleaseFrame, Typed, stream_vars, observer_vars, local_vars, send_vars
<1> QED BY <1>1, <1>2, <1>3, <1>4 DEF WorkerStep

\* SendFrames keeps the types.
LEMMA SenderTyped ==
  ASSUME Typed, SendFrames \/ SenderStep
  PROVE  Typed'
<1>1. CASE SendFrames
  BY <1>1 DEF SendFrames, Typed, Mutexes, observer_vars, worker_vars, local_vars
<1>2. CASE FrameArrived
  <2>1. CASE IsSendableState
    BY <1>2, <2>1 DEF FrameArrived, Wakeup, Typed, stream_vars, observer_vars, local_vars
  <2>2. CASE ~IsSendableState
    BY <1>2, <2>2 DEF FrameArrived, SendDone, Typed, stream_vars, observer_vars, local_vars
  <2> QED BY <2>1, <2>2
<1>3. CASE LockCallback \/ LockNotifier
  BY <1>3 DEF LockCallback, LockNotifier, SendLock, Typed, Mutexes, stream_vars, observer_vars,
              local_vars, worker_vars
<1>4. CASE NotifyObserver
  <2>1. position \in 1 .. Len(observer_list)
    BY <1>4 DEF NotifyObserver, Typed
  <2>2. observer_list' \in Seq([observer : Observers, enabled : BOOLEAN])
    BY <1>4, <2>1, RemoveAtElements DEF NotifyObserver, Typed
  <2>3. position' \in Nat \ {0}
    BY <1>4 DEF NotifyObserver, Typed
  <2> QED
    BY <1>4, <2>2, <2>3 DEF NotifyObserver, Typed, stream_vars, local_vars
<1>5. CASE NotifyDone
  BY <1>5 DEF NotifyDone, SendDone, Typed, Mutexes, stream_vars, observer_vars, local_vars,
              worker_vars
<1> QED BY <1>1, <1>2, <1>3, <1>4, <1>5 DEF SenderStep

LEMMA NextTyped ==
  ASSUME Typed, NextPlaced, [Next]_vars
  PROVE  Typed'
<1>1. CASE UNCHANGED vars
  BY <1>1 DEF vars, step_vars, stream_vars, observer_vars, worker_vars, local_vars, send_vars, Typed
<1>2. CASE Next
  BY <1>1, <1>2, RegisterTyped, StateFunctionTyped, WorkerTyped, SenderTyped
     DEF Next, Step, ThreadStep, Finished
<1> QED BY <1>1, <1>2

---------------------------------------------------------------------------
(***************************************************************************)
(* Whose observer it is                                                    *)
(***************************************************************************)
Loose == Labels \ (Removing \cup {"add", "stop_join"})

\* A step after which everybody answers for the observer it answered for.
Unmoved ==
  /\ UNCHANGED <<frame_observer, life, next_observer, observer>>
  /\ \A t \in Threads : pc'[t] = pc[t] \/ (pc[t] \in Loose /\ pc'[t] \in Loose)
  /\ \A t \in Threads : held'["callback"] = t <=> held["callback"] = t
  /\ \A o \in Observers : worker[o] = "none" /\ life[o] # "live" => worker'[o] = "none"
  /\ \A i \in DOMAIN observer_list' : observer_list'[i].enabled =>
       \E j \in DOMAIN observer_list : observer_list[j] = observer_list'[i]

LEMMA UnmovedInv ==
  ASSUME CallbackInv, Unmoved, Typed'
  PROVE  CallbackInv'
<1>1. NextPlaced'
  BY DEF CallbackInv, NextPlaced, Replacing, Unmoved, Loose, Labels, Removing
<1>2. StopPlaced'
  BY DEF CallbackInv, StopPlaced, Unmoved, Loose, Labels, Removing
<1>3. RemovedPlaced'
  BY DEF CallbackInv, RemovedPlaced, Unmoved, Loose, Labels, Removing
<1>4. CallbackMutex'
  BY DEF CallbackInv, CallbackMutex, HoldsCallback, Replacing, Unmoved, Loose, Labels, Removing
<1>5. Lives'
  BY DEF CallbackInv, Lives, Unmoved, Loose, Labels, Removing
<1>6. Enabled'
  <2>1. \A t \in Threads : pc[t] = "remove" => pc'[t] = "remove"
    BY DEF Unmoved, Loose, Labels, Removing
  <2>2. ASSUME NEW i \in DOMAIN observer_list', observer_list'[i].enabled
        PROVE  \/ observer_list'[i].observer = frame_observer'
               \/ \E t \in Threads : pc'[t] = "remove" /\ observer'[t] = observer_list'[i].observer
    <3>1. PICK j \in DOMAIN observer_list : observer_list[j] = observer_list'[i]
      BY <2>2 DEF Unmoved
    <3> QED BY <2>1, <2>2, <3>1 DEF CallbackInv, Enabled, Unmoved
  <2> QED BY <2>2 DEF Enabled
<1> QED BY <1>1, <1>2, <1>3, <1>4, <1>5, <1>6 DEF CallbackInv

\* Most steps are of that kind: calls, the port, workers and the component.
LEMMA ThreadUnmoved ==
  ASSUME CallbackInv, NEW t \in Threads,
         \/ CallRegister(t) \/ CallStart(t) \/ CallStop(t) \/ StartFrameObserver(t)
         \/ StartPort(t) \/ StopPort(t) \/ StopCommit(t) \/ RegisterFailed(t)
  PROVE  Unmoved
<1>0. Typed
  BY DEF CallbackInv
<1>1. /\ UNCHANGED <<frame_observer, life, next_observer, observer, observer_list, held>>
      /\ \E label \in Loose : Go(t, label)
      /\ pc[t] \in Loose
  BY DEF CallRegister, CallStart, CallStop, CallStateFunction, Call, StartFrameObserver,
         StartPort, StopPort, StopCommit, RegisterFailed, Loose, Labels, Removing, observer_vars, local_vars
<1>2. \A u \in Threads : pc'[u] = pc[u] \/ (pc[u] \in Loose /\ pc'[u] \in Loose)
  BY <1>0, <1>1 DEF Go, Typed
<1>3. \A o \in Observers : worker[o] = "none" /\ life[o] # "live" => worker'[o] = "none"
  <2>1. CASE StartFrameObserver(t)
    <3>1. CASE UNCHANGED worker_vars
      BY <2>1, <3>1 DEF StartFrameObserver, worker_vars
    <3>2. CASE ~UNCHANGED worker_vars
      <4>1. StartWorker(frame_observer) /\ life[frame_observer] = "live"
        BY <2>1, <3>2 DEF StartFrameObserver, CallbackInv, Lives
      <4> QED BY <1>0, <4>1 DEF StartWorker, Typed
    <3> QED BY <3>1, <3>2
  <2>2. CASE StopCommit(t)
    BY <2>2 DEF StopCommit, Wakeup
  <2>3. CASE UNCHANGED worker
    BY <2>3
  <2> QED
    BY <2>1, <2>2, <2>3 DEF CallRegister, CallStart, CallStop, CallStateFunction, StartPort,
                            StopPort, RegisterFailed, worker_vars
<1> QED BY <1>0, <1>1, <1>2, <1>3 DEF Unmoved

LEMMA WorkerUnmoved ==
  ASSUME CallbackInv, NEW o \in Observers, WorkerStep(o) \/ Callback(o, "get")
  PROVE  Unmoved
<1>0. Typed
  BY DEF CallbackInv
<1>1. UNCHANGED <<frame_observer, life, next_observer, observer, observer_list, held, pc>>
  BY DEF WorkerStep, WorkerLoop, Callback, GetFrame, ReleaseFrame, observer_vars, local_vars
<1>2. worker[o] # "none" /\ \E label : worker' = [worker EXCEPT ![o] = label]
  BY DEF WorkerStep, WorkerLoop, Callback, GetFrame, ReleaseFrame
<1>3. \A p \in Observers : worker[p] = "none" => worker'[p] = "none"
  BY <1>0, <1>2 DEF Typed
<1> QED BY <1>1, <1>3 DEF Unmoved

LEMMA SenderUnmoved ==
  ASSUME CallbackInv, SendFrames \/ SenderStep
  PROVE  Unmoved
<1>0. Typed
  BY DEF CallbackInv
<1>1. /\ UNCHANGED <<frame_observer, life, next_observer, observer, pc>>
      /\ worker' = worker \/ Wakeup
  BY DEF SendFrames, SenderStep, FrameArrived, LockCallback, LockNotifier, SendLock,
         NotifyObserver, NotifyDone, observer_vars, local_vars, worker_vars
<1>2. \A t \in Threads : held'["callback"] = t <=> held["callback"] = t
  <2>1. CASE SendDone
    BY <1>0, <2>1, Names DEF SendDone, Typed, Mutexes
  <2>2. CASE UNCHANGED held
    BY <2>2
  <2>3. CASE \E m \in Mutexes : Free(m) /\ held' = [held EXCEPT ![m] = "sender"]
    BY <1>0, <2>3, Names DEF Free, Typed, Mutexes
  <2> QED
    BY <2>1, <2>2, <2>3 DEF SendFrames, SenderStep, FrameArrived, LockCallback, LockNotifier,
                            SendLock, NotifyObserver, NotifyDone, Mutexes
<1>3. \A i \in DOMAIN observer_list' : observer_list'[i].enabled =>
        \E j \in DOMAIN observer_list : observer_list[j] = observer_list'[i]
  <2>1. CASE UNCHANGED observer_list
    BY <2>1
  <2>2. CASE NotifyObserver /\ observer_list' # observer_list
    <3>1. position \in 1 .. Len(observer_list)
          /\ observer_list' = RemoveAt(observer_list, position)
      BY <1>0, <2>2 DEF NotifyObserver, Typed
    <3>2. observer_list \in Seq([observer : Observers, enabled : BOOLEAN])
      BY <1>0 DEF Typed
    <3>3. \A j \in DOMAIN observer_list' :
            \E k \in DOMAIN observer_list : observer_list'[j] = observer_list[k]
      BY <3>1, <3>2, RemoveAtElements
    <3> QED BY <3>3
  <2> QED
    BY <2>1, <2>2 DEF SendFrames, SenderStep, FrameArrived, LockCallback, LockNotifier, SendLock,
                      NotifyDone, observer_vars
<1>4. \A o \in Observers : worker[o] = "none" => worker'[o] = "none"
  BY <1>1 DEF Wakeup
<1> QED BY <1>1, <1>2, <1>3, <1>4 DEF Unmoved

\* RegisterFrameCallback has created observer o; a registered one is taken away.
LEMMA RegisterInv ==
  ASSUME CallbackInv, Typed', NEW t \in Threads, NEW o \in Observers, Register(t, o)
  PROVE  CallbackInv'
<1>0. Typed
  BY DEF CallbackInv
<1>1. /\ pc[t] = "register" /\ life[o] = "unused" /\ observer_list' = observer_list
      /\ \A u \in Threads : held["callback"] # u
      /\ held'["callback"] = t
      /\ life'[o] = "live" /\ \A p \in Observers \ {o} : life'[p] = life[p]
      /\ next_observer'[t] = o /\ \A u \in Threads \ {t} : next_observer'[u] = next_observer[u]
      /\ \A u \in Threads \ {t} : pc'[u] = pc[u] /\ observer'[u] = observer[u]
  BY <1>0, Names DEF Register, NewObserver, Free, Go, Typed, Mutexes
<1>2. \/ frame_observer = None /\ frame_observer' = o /\ pc'[t] = "add"
      \/ /\ frame_observer # None /\ frame_observer' = None
         /\ pc'[t] = "remove" /\ observer'[t] = frame_observer
  BY <1>0 DEF Register, Go, Typed
<1>3. \A u \in Threads : pc[u] \notin {"add", "stop_join"} /\ next_observer[u] = None
  BY <1>0, <1>1 DEF CallbackInv, CallbackMutex, HoldsCallback, Replacing, NextPlaced
<1>4. \A p \in Observers \ {o} : worker'[p] = worker[p]
  <2>1. CASE StartWorker(o)
    BY <1>0, <2>1 DEF StartWorker, Typed
  <2>2. CASE UNCHANGED worker_vars
    BY <2>2 DEF worker_vars
  <2> QED BY <2>1, <2>2 DEF Register, NewObserver
<1>5. NextPlaced'
  BY <1>1, <1>2, <1>3, Names DEF NextPlaced, Replacing, Removing
<1>6. StopPlaced'
  BY <1>1, <1>2, <1>3 DEF StopPlaced
<1>7. RemovedPlaced'
  <2>1. \A u \in Threads : pc[u] \in Removing => observer[u] # o /\ observer[u] # frame_observer
                                                 /\ observer[u] # None
    BY <1>1 DEF CallbackInv, RemovedPlaced, Lives
  <2>2. frame_observer # o
    BY <1>1, Names DEF CallbackInv, Lives
  <2>3. \A u \in Threads : pc[u] \in Removing =>
           /\ u # t
           /\ \A v \in Threads : v # u /\ pc[v] \in Removing => observer[v] # observer[u]
    BY <1>1 DEF CallbackInv, RemovedPlaced, Removing
  <2>4. CASE frame_observer = None
    <3>1. \A u \in Threads : pc'[u] \in Removing => u # t
      BY <1>2, <2>4 DEF Removing
    <3> QED BY <1>1, <1>2, <1>3, <2>1, <2>3, <2>4, <3>1, Names DEF RemovedPlaced
  <2>5. CASE frame_observer # None
    <3>1. frame_observer' = None /\ observer'[t] = frame_observer
      BY <1>2, <2>5
    <3> QED BY <1>1, <1>3, <2>1, <2>2, <2>3, <2>5, <3>1, Names DEF RemovedPlaced
  <2> QED BY <2>4, <2>5
<1>8. CallbackMutex'
  BY <1>1, <1>2, <1>3, Names DEF CallbackMutex, HoldsCallback, Replacing, Removing
<1>9. Lives'
  <2>1. frame_observer' # None => life'[frame_observer'] = "live"
    BY <1>1, <1>2
  <2>2. ASSUME NEW u \in Threads
        PROVE  /\ pc'[u] \in Removing => life'[observer'[u]] = "live"
               /\ next_observer'[u] # None => life'[next_observer'[u]] = "live"
    <3>1. CASE u = t
      <4>1. frame_observer # None => life[frame_observer] = "live" /\ frame_observer \in Observers
        BY <1>0 DEF CallbackInv, Lives, Typed
      <4> QED BY <3>1, <4>1, <1>1, <1>2 DEF Removing
    <3>2. CASE u # t
      <4>1. pc[u] \in Removing => life[observer[u]] = "live" /\ observer[u] \in Observers
        BY <1>0 DEF CallbackInv, Lives, RemovedPlaced, Typed
      <4> QED BY <3>2, <4>1, <1>1, <1>3
    <3> QED BY <3>1, <3>2
  <2>3. \A p \in Observers : life'[p] # "live" => worker'[p] = "none"
    BY <1>1, <1>4 DEF CallbackInv, Lives
  <2> QED BY <2>1, <2>2, <2>3 DEF Lives
<1>10. Enabled'
  <2>1. \A u \in Threads : pc[u] = "remove" => pc'[u] = "remove" /\ observer'[u] = observer[u]
    BY <1>1
  <2>2. ASSUME NEW i \in DOMAIN observer_list
        PROVE  observer_list[i].observer # None
    <3> DEFINE E == [observer : Observers, enabled : BOOLEAN]
    <3>1. observer_list \in Seq(E)
      BY <1>0 DEF Typed
    <3>2. \A e \in E : e.observer \in Observers
      OBVIOUS
    <3> HIDE DEF E
    <3>3. observer_list[i] \in E
      BY <3>1
    <3> QED BY <3>2, <3>3, Names
  <2> QED BY <1>1, <1>2, <2>1, <2>2 DEF CallbackInv, Enabled
<1> QED BY <1>5, <1>6, <1>7, <1>8, <1>9, <1>10 DEF CallbackInv

\* The new observer is in the list, and mutex_callback_frame_ released.
LEMMA AddObserverInv ==
  ASSUME CallbackInv, Typed', NEW t \in Threads, AddObserver(t)
  PROVE  CallbackInv'
<1>0. Typed
  BY DEF CallbackInv
<1>1. /\ UNCHANGED <<frame_observer, life, worker, observer>>
      /\ pc[t] = "add" /\ pc'[t] = "idle" /\ next_observer'[t] = None
      /\ held'["callback"] = None
      /\ \A u \in Threads \ {t} : pc'[u] = pc[u] /\ next_observer'[u] = next_observer[u]
  BY <1>0 DEF AddObserver, Go, Typed, Mutexes, worker_vars
<1>2. held["callback"] = t /\ \A u \in Threads \ {t} : ~HoldsCallback(u)
  BY <1>1 DEF CallbackInv, CallbackMutex, HoldsCallback
<1>3. frame_observer = next_observer[t]
  BY <1>1 DEF CallbackInv, NextPlaced
<1>4. NextPlaced'
  BY <1>1 DEF CallbackInv, NextPlaced, Replacing, Removing
<1>5. StopPlaced'
  BY <1>1 DEF CallbackInv, StopPlaced
<1>6. RemovedPlaced'
  BY <1>1 DEF CallbackInv, RemovedPlaced, Removing
<1>7. CallbackMutex'
  BY <1>1, <1>2, Names DEF CallbackMutex, HoldsCallback, Replacing, Removing
<1>8. Lives'
  BY <1>1 DEF CallbackInv, Lives, Removing
<1>9. Enabled'
  <2> DEFINE e == [observer |-> next_observer[t], enabled |-> TRUE]
  <2>1. observer_list' = Append(observer_list, e)
    BY DEF AddObserver
  <2>2. e.observer = frame_observer
    BY <1>3
  <2> HIDE DEF e
  <2>3. \A i \in DOMAIN observer_list' :
          observer_list'[i] = e \/ (i \in DOMAIN observer_list /\ observer_list'[i] = observer_list[i])
    BY <1>0, <2>1 DEF Typed
  <2>4. \A u \in Threads : pc[u] = "remove" => pc'[u] = "remove"
    BY <1>1
  <2> QED BY <1>1, <2>2, <2>3, <2>4 DEF CallbackInv, Enabled
<1> QED BY <1>4, <1>5, <1>6, <1>7, <1>8, <1>9 DEF CallbackInv

\* UnregisterFrameCallback takes the registered observer.
LEMMA UnregisterInv ==
  ASSUME CallbackInv, Typed', NEW t \in Threads, Unregister(t)
  PROVE  CallbackInv'
<1>0. Typed
  BY DEF CallbackInv
<1>1. /\ UNCHANGED <<life, worker, next_observer, held, observer_list>>
      /\ pc[t] = "idle" /\ pc'[t] = "remove"
      /\ frame_observer # None /\ frame_observer' = None /\ observer'[t] = frame_observer
      /\ \A u \in Threads : held["callback"] # u
      /\ \A u \in Threads \ {t} : pc'[u] = pc[u] /\ observer'[u] = observer[u]
  BY <1>0, Names DEF Unregister, Call, Free, Go, Typed, worker_vars
<1>2. \A u \in Threads : pc[u] \notin {"add", "stop_join"} /\ next_observer[u] = None
  BY <1>0, <1>1 DEF CallbackInv, CallbackMutex, HoldsCallback, Replacing, NextPlaced
<1>3. NextPlaced'
  BY <1>1, <1>2 DEF NextPlaced, Replacing, Removing
<1>4. StopPlaced'
  BY <1>1, <1>2 DEF StopPlaced
<1>5. RemovedPlaced'
  BY <1>0, <1>1, <1>2, Names DEF CallbackInv, RemovedPlaced, Removing, Typed
<1>6. CallbackMutex'
  BY <1>1, <1>2 DEF CallbackInv, CallbackMutex, HoldsCallback, Replacing, Removing
<1>7. Lives'
  BY <1>1, <1>2 DEF CallbackInv, Lives, Removing
<1>8. Enabled'
  <2>1. \A u \in Threads : pc[u] = "remove" => pc'[u] = "remove" /\ observer'[u] = observer[u]
    BY <1>1
  <2> QED BY <1>1, <2>1 DEF CallbackInv, Enabled
<1> QED BY <1>3, <1>4, <1>5, <1>6, <1>7, <1>8 DEF CallbackInv

\* After RemoveObserver nothing in the list notifies the observer.
LEMMA RemoveObserverInv ==
  ASSUME CallbackInv, Typed', NEW t \in Threads, RemoveObserver(t)
  PROVE  CallbackInv'
<1>0. Typed
  BY DEF CallbackInv
<1>1. /\ UNCHANGED <<frame_observer, life, worker, next_observer, observer, held>>
      /\ pc[t] = "remove" /\ pc'[t] = "stop"
      /\ \A u \in Threads \ {t} : pc'[u] = pc[u]
  BY <1>0 DEF RemoveObserver, Go, Typed, worker_vars, local_vars
<1>2. NextPlaced'
  BY <1>1 DEF CallbackInv, NextPlaced, Replacing, Removing
<1>3. StopPlaced'
  BY <1>1 DEF CallbackInv, StopPlaced
<1>4. RemovedPlaced'
  BY <1>1 DEF CallbackInv, RemovedPlaced, Removing
<1>5. CallbackMutex'
  BY <1>1 DEF CallbackInv, CallbackMutex, HoldsCallback, Replacing, Removing
<1>6. Lives'
  BY <1>1 DEF CallbackInv, Lives, Removing
<1>7. Enabled'
  <2>1. observer_list' = Disabled(observer_list, observer[t])
    BY DEF RemoveObserver, Disabled
  <2>2. observer_list \in Seq([observer : Observers, enabled : BOOLEAN])
    BY <1>0 DEF Typed
  <2>3. DOMAIN observer_list' = DOMAIN observer_list
        /\ \A i \in DOMAIN observer_list :
             /\ observer_list'[i].observer = observer_list[i].observer
             /\ observer_list'[i].enabled =>
                  observer_list[i].enabled /\ observer_list[i].observer # observer[t]
    <3>1. /\ DOMAIN Disabled(observer_list, observer[t]) = DOMAIN observer_list
          /\ \A i \in DOMAIN observer_list :
               /\ Disabled(observer_list, observer[t])[i].observer = observer_list[i].observer
               /\ Disabled(observer_list, observer[t])[i].enabled =>
                    observer_list[i].enabled /\ observer_list[i].observer # observer[t]
      BY <2>2, DisabledType
    <3> HIDE DEF Disabled
    <3> QED BY <2>1, <3>1
  <2> QED BY <1>1, <2>3 DEF CallbackInv, Enabled
<1> QED BY <1>2, <1>3, <1>4, <1>5, <1>6, <1>7 DEF CallbackInv

LEMMA StopObserverInv ==
  ASSUME CallbackInv, Typed', NEW t \in Threads, StopObserver(t)
  PROVE  CallbackInv'
<1>0. Typed
  BY DEF CallbackInv
<1>1. /\ UNCHANGED <<frame_observer, life, worker, next_observer, observer, observer_list>>
      /\ pc[t] = "stop" /\ pc'[t] = "join"
      /\ \A u \in Threads \ {t} : pc'[u] = pc[u]
  BY <1>0 DEF StopObserver, StopWorker, Go, Typed, observer_vars, local_vars
<1>2. held'["callback"] = held["callback"]
  <2>1. observer[t] \in Observers
    BY <1>0, <1>1 DEF CallbackInv, RemovedPlaced, Removing, Typed
  <2> QED BY <1>0, <2>1, Names DEF StopObserver, Typed, Mutexes
<1>3. NextPlaced'
  BY <1>1 DEF CallbackInv, NextPlaced, Replacing, Removing
<1>4. StopPlaced'
  BY <1>1 DEF CallbackInv, StopPlaced
<1>5. RemovedPlaced'
  BY <1>1 DEF CallbackInv, RemovedPlaced, Removing
<1>6. CallbackMutex'
  BY <1>1, <1>2 DEF CallbackInv, CallbackMutex, HoldsCallback, Replacing, Removing
<1>7. Lives'
  BY <1>1 DEF CallbackInv, Lives, Removing
<1>8. Enabled'
  <2>1. \A u \in Threads : pc[u] = "remove" => pc'[u] = "remove"
    BY <1>1
  <2> QED BY <1>1, <2>1 DEF CallbackInv, Enabled
<1> QED BY <1>3, <1>4, <1>5, <1>6, <1>7, <1>8 DEF CallbackInv

\* The observer is deleted; a thread with a new one registers that instead.
LEMMA DeleteObserverInv ==
  ASSUME CallbackInv, Typed', NEW t \in Threads, DeleteObserver(t)
  PROVE  CallbackInv'
<1>0. Typed
  BY DEF CallbackInv
<1>1. /\ pc[t] = "join" /\ observer[t] \in Observers /\ observer[t] # frame_observer
      /\ \A u \in Threads : observer[t] # next_observer[u]
      /\ \A u \in Threads : u # t /\ pc[u] \in Removing => observer[u] # observer[t]
  BY <1>0 DEF DeleteObserver, CallbackInv, RemovedPlaced, Removing, Typed
<1>2. /\ UNCHANGED <<next_observer, observer_list>>
      /\ worker'[observer[t]] = "none" /\ life'[observer[t]] = "deleted"
      /\ \A o \in Observers \ {observer[t]} : worker'[o] = worker[o] /\ life'[o] = life[o]
      /\ observer'[t] = None
      /\ \A u \in Threads \ {t} : pc'[u] = pc[u] /\ observer'[u] = observer[u]
      /\ held'["callback"] = held["callback"]
  BY <1>0, <1>1, Names DEF DeleteObserver, Go, Typed, Mutexes
<1>3. \/ next_observer[t] = None /\ pc'[t] = "idle" /\ frame_observer' = frame_observer
      \/ /\ next_observer[t] # None /\ pc'[t] = "add" /\ frame_observer' = next_observer[t]
         /\ frame_observer = None
  <2>1. next_observer[t] # None => frame_observer = None
    BY <1>1 DEF CallbackInv, NextPlaced, Replacing, Removing
  <2> QED BY <1>0, <2>1 DEF DeleteObserver, Go, Typed
\* with a new one, this thread holds mutex_callback_frame_
<1>4. next_observer[t] # None => \A u \in Threads \ {t} : ~HoldsCallback(u)
  <2>1. ASSUME next_observer[t] # None
        PROVE  held["callback"] = t
    BY <1>1, <2>1 DEF CallbackInv, CallbackMutex, HoldsCallback, Replacing, Removing
  <2> QED BY <2>1 DEF CallbackInv, CallbackMutex
<1>5. \A u \in Threads \ {t} : next_observer[t] # None => next_observer[u] = None
  BY <1>4 DEF CallbackInv, NextPlaced, HoldsCallback, Replacing
<1>6. NextPlaced'
  BY <1>2, <1>3, <1>4, <1>5 DEF CallbackInv, NextPlaced, HoldsCallback, Replacing, Removing
<1>7. StopPlaced'
  BY <1>1, <1>2, <1>3, <1>4 DEF CallbackInv, StopPlaced, HoldsCallback
<1>8. RemovedPlaced'
  BY <1>1, <1>2, <1>3 DEF CallbackInv, RemovedPlaced, Removing
<1>9. CallbackMutex'
  BY <1>1, <1>2, <1>3 DEF CallbackInv, CallbackMutex, HoldsCallback, Replacing, Removing
<1>10. Lives'
  <2>1. frame_observer' # None => life'[frame_observer'] = "live"
    BY <1>0, <1>1, <1>2, <1>3 DEF CallbackInv, Lives, Typed
  <2>2. ASSUME NEW u \in Threads
        PROVE  /\ pc'[u] \in Removing => life'[observer'[u]] = "live"
               /\ next_observer'[u] # None => life'[next_observer'[u]] = "live"
    <3>1. next_observer[u] # None => life'[next_observer[u]] = "live"
      BY <1>0, <1>1, <1>2 DEF CallbackInv, Lives, Typed
    <3>2. CASE u = t
      BY <3>1, <3>2, <1>2, <1>3 DEF Removing
    <3>3. CASE u # t
      <4>1. pc[u] \in Removing => life[observer[u]] = "live" /\ observer[u] \in Observers
        BY <1>0 DEF CallbackInv, Lives, RemovedPlaced, Typed
      <4> QED BY <3>1, <3>3, <4>1, <1>1, <1>2
    <3> QED BY <3>2, <3>3
  <2>3. \A o \in Observers : life'[o] # "live" => worker'[o] = "none"
    BY <1>2 DEF CallbackInv, Lives
  <2> QED BY <2>1, <2>2, <2>3 DEF Lives
<1>11. Enabled'
  <2>1. \A u \in Threads : pc[u] = "remove" => pc'[u] = "remove" /\ observer'[u] = observer[u]
    BY <1>1, <1>2
  <2>2. ASSUME NEW i \in DOMAIN observer_list, frame_observer = None
        PROVE  observer_list[i].observer # frame_observer
    <3> DEFINE E == [observer : Observers, enabled : BOOLEAN]
    <3>1. observer_list \in Seq(E)
      BY <1>0 DEF Typed
    <3>2. \A e \in E : e.observer \in Observers
      OBVIOUS
    <3> HIDE DEF E
    <3>3. observer_list[i] \in E
      BY <3>1
    <3> QED BY <2>2, <3>2, <3>3, Names
  <2> QED BY <1>2, <1>3, <2>1, <2>2 DEF CallbackInv, Enabled
<1> QED BY <1>6, <1>7, <1>8, <1>9, <1>10, <1>11 DEF CallbackInv

\* StopFrameObserver leaves the observer registered, and waits for its worker.
LEMMA StopFrameObserverInv ==
  ASSUME CallbackInv, Typed', NEW t \in Threads, StopFrameObserver(t)
  PROVE  CallbackInv'
<1>0. Typed
  BY DEF CallbackInv
<1>1. /\ UNCHANGED <<frame_observer, life, worker, next_observer, observer_list>>
      /\ pc[t] = "stop_observer"
      /\ \A u \in Threads : held["callback"] # u
      /\ \A u \in Threads \ {t} : pc'[u] = pc[u] /\ observer'[u] = observer[u]
  BY <1>0, Names DEF StopFrameObserver, StopWorker, Free, Go, Typed, observer_vars, worker_vars
<1>2. CASE frame_observer = None
  <2>1. Unmoved
    BY <1>0, <1>1, <1>2 DEF StopFrameObserver, Go, Typed, Unmoved, Loose, Labels, Removing
  <2> QED BY <2>1, UnmovedInv
<1>3. CASE frame_observer # None
  <2>1. pc'[t] = "stop_join" /\ observer'[t] = frame_observer /\ held'["callback"] = t
    BY <1>0, <1>3, Names DEF StopFrameObserver, Go, Typed, Mutexes
  <2>2. NextPlaced'
    BY <1>1, <2>1 DEF CallbackInv, NextPlaced, Replacing, Removing
  <2>3. StopPlaced'
    BY <1>1, <1>3, <2>1 DEF CallbackInv, StopPlaced
  <2>4. RemovedPlaced'
    BY <1>1, <2>1 DEF CallbackInv, RemovedPlaced, Removing
  <2>5. CallbackMutex'
    BY <1>1, <2>1, Names DEF CallbackInv, CallbackMutex, HoldsCallback, Replacing, Removing
  <2>6. Lives'
    BY <1>1, <2>1 DEF CallbackInv, Lives, Removing
  <2>7. Enabled'
    <3>1. \A u \in Threads : pc[u] = "remove" => pc'[u] = "remove" /\ observer'[u] = observer[u]
      BY <1>1
    <3> QED BY <1>1, <3>1 DEF CallbackInv, Enabled
  <2> QED BY <2>2, <2>3, <2>4, <2>5, <2>6, <2>7 DEF CallbackInv
<1> QED BY <1>2, <1>3

LEMMA StopDoneInv ==
  ASSUME CallbackInv, Typed', NEW t \in Threads, StopDone(t)
  PROVE  CallbackInv'
<1>0. Typed
  BY DEF CallbackInv
<1>1. observer[t] \in Observers
  BY <1>0 DEF StopDone, CallbackInv, StopPlaced, Typed
<1>2. /\ UNCHANGED <<frame_observer, life, next_observer, observer_list>>
      /\ pc[t] = "stop_join" /\ pc'[t] = "idle"
      /\ worker'[observer[t]] = "none"
      /\ \A o \in Observers \ {observer[t]} : worker'[o] = worker[o]
      /\ held'["callback"] = None
      /\ \A u \in Threads \ {t} : pc'[u] = pc[u] /\ observer'[u] = observer[u]
  BY <1>0, <1>1, Names DEF StopDone, Go, Typed, Mutexes, observer_vars
<1>3. \A u \in Threads \ {t} : ~HoldsCallback(u)
  BY <1>2 DEF CallbackInv, CallbackMutex, HoldsCallback
<1>4. NextPlaced'
  BY <1>2 DEF CallbackInv, NextPlaced, Replacing, Removing
<1>5. StopPlaced'
  BY <1>2 DEF CallbackInv, StopPlaced
<1>6. RemovedPlaced'
  BY <1>2 DEF CallbackInv, RemovedPlaced, Removing
<1>7. CallbackMutex'
  BY <1>2, <1>3, Names DEF CallbackInv, CallbackMutex, HoldsCallback, Replacing, Removing
<1>8. Lives'
  BY <1>2 DEF CallbackInv, Lives, Removing
<1>9. Enabled'
  <2>1. \A u \in Threads : pc[u] = "remove" => pc'[u] = "remove" /\ observer'[u] = observer[u]
    BY <1>2
  <2> QED BY <1>2, <2>1 DEF CallbackInv, Enabled
<1> QED BY <1>4, <1>5, <1>6, <1>7, <1>8, <1>9 DEF CallbackInv

LEMMA InitCallbackInv == Init => CallbackInv
<1> SUFFICES ASSUME Init
             PROVE  CallbackInv
  OBVIOUS
<1>1. Typed
  BY InitTyped
<1>2. NextPlaced /\ StopPlaced /\ RemovedPlaced
  BY DEF Init, NextPlaced, StopPlaced, RemovedPlaced, Replacing, Removing
<1>3. CallbackMutex
  BY Names DEF Init, CallbackMutex, HoldsCallback, Replacing, Removing, Mutexes
<1>4. Lives /\ Enabled
  BY DEF Init, Lives, Enabled, Removing
<1> QED BY <1>1, <1>2, <1>3, <1>4 DEF CallbackInv

LEMMA NextCallbackInv ==
  ASSUME CallbackInv, [Next]_vars
  PROVE  CallbackInv'
<1>0. Typed'
  BY NextTyped DEF CallbackInv
<1>1. CASE UNCHANGED vars
  BY <1>0, <1>1, UnmovedInv
     DEF vars, step_vars, observer_vars, worker_vars, local_vars, Unmoved
<1>2. CASE Next
  BY <1>0, <1>1, <1>2, ThreadUnmoved, WorkerUnmoved, SenderUnmoved, UnmovedInv, RegisterInv,
     AddObserverInv, UnregisterInv, RemoveObserverInv, StopObserverInv, DeleteObserverInv,
     StopFrameObserverInv, StopDoneInv
     DEF Next, Step, ThreadStep, Finished
<1> QED BY <1>1, <1>2

\* An observer that UnregisterFrameCallback deleted is not notified again, not
\* registered, and has no worker: for any threads, observers and calls, of a
\* careful application or not.
THEOREM CallbackSafe == Spec => []NoUseAfterDelete
<1>1. CallbackInv => NoUseAfterDelete
  <2> SUFFICES ASSUME CallbackInv, NEW o \in Observers, life[o] = "deleted"
               PROVE  /\ worker[o] = "none" /\ o # frame_observer
                      /\ \A i \in DOMAIN observer_list :
                           observer_list[i].observer = o => ~observer_list[i].enabled
    BY DEF NoUseAfterDelete
  <2>1. worker[o] = "none" /\ o # frame_observer
    BY Names DEF CallbackInv, Lives
  <2>2. \A t \in Threads : pc[t] = "remove" => observer[t] # o
    BY DEF CallbackInv, Lives, Removing
  <2> QED BY <2>1, <2>2 DEF CallbackInv, Enabled
<1> QED BY <1>1, InitCallbackInv, NextCallbackInv, PTL DEF Spec

---------------------------------------------------------------------------
(***************************************************************************)
(* The worker of the registered observer, of any application               *)
(***************************************************************************)
\* The steps of the workers and of the component, as the threads see them.
Aside ==
  /\ UNCHANGED <<state, frame_observer, life, is_start, pc, is_running, next_observer, observer>>
  /\ \A o \in Observers : worker'[o] = "none" <=> worker[o] = "none"

LEMMA WorkerAside ==
  ASSUME Typed, NEW o \in Observers, WorkerStep(o) \/ Callback(o, "get")
  PROVE  Aside /\ UNCHANGED <<held, send>>
<1>1. UNCHANGED <<state, frame_observer, life, is_start, pc, is_running, next_observer, observer,
                  held, send>>
  BY DEF WorkerStep, WorkerLoop, Callback, GetFrame, ReleaseFrame, stream_vars, observer_vars,
         local_vars, send_vars
<1>2. worker[o] # "none" /\ \E label \in {"loop", "callback", "get", "wait", "release", "ended"} :
                              worker' = [worker EXCEPT ![o] = label]
  BY DEF WorkerStep, WorkerLoop, Callback, GetFrame, ReleaseFrame
<1> QED BY <1>1, <1>2 DEF Aside, Typed

LEMMA SenderAside ==
  ASSUME Typed, SendFrames \/ SenderStep
  PROVE  Aside
<1>1. /\ UNCHANGED <<state, frame_observer, life, is_start, pc, is_running, next_observer,
                     observer>>
      /\ worker' = worker \/ Wakeup
  BY DEF SendFrames, SenderStep, FrameArrived, LockCallback, LockNotifier, SendLock,
         NotifyObserver, NotifyDone, stream_vars, observer_vars, local_vars, worker_vars
<1> QED BY <1>1 DEF Aside, Wakeup

\* State functions are serialized, whatever else threads do.
LEMMA OneStateFunctionStep ==
  ASSUME CallbackInv, OneStateFunction, [Next]_vars
  PROVE  OneStateFunction'
<1>0. Typed
  BY DEF CallbackInv
<1>1. ASSUME state' = state,
             \A t \in Threads : pc'[t] \in StateFunction => pc'[t] = pc[t]
      PROVE  OneStateFunction'
  BY <1>1 DEF OneStateFunction, StateFunction
<1>2. CASE Aside \/ UNCHANGED vars
  BY <1>1, <1>2 DEF Aside, vars, step_vars, stream_vars
<1>3. ASSUME NEW t \in Threads,
             \/ CallRegister(t) \/ Unregister(t) \/ AddObserver(t) \/ RemoveObserver(t)
             \/ StopObserver(t) \/ DeleteObserver(t) \/ RegisterFailed(t)
             \/ \E o \in Observers : Register(t, o)
      PROVE  OneStateFunction'
  <2>1. /\ state' = state
        /\ pc'[t] \in {"idle", "register", "remove", "stop", "join", "add"}
        /\ \A u \in Threads \ {t} : pc'[u] = pc[u]
    BY <1>0, <1>3 DEF CallRegister, Unregister, AddObserver, RemoveObserver, StopObserver,
                      DeleteObserver, RegisterFailed, Register, Go, Typed, stream_vars
  <2> QED BY <1>1, <2>1 DEF StateFunction
<1>4. ASSUME NEW t \in Threads, CallStart(t) \/ CallStop(t)
      PROVE  OneStateFunction'
  <2>1. /\ \A u \in Threads : pc[u] \notin StateFunction
        /\ UNCHANGED state
        /\ \/ pc'[t] = "start_observer" /\ state = "Ready"
           \/ pc'[t] = "stop_port" /\ state = "Running"
        /\ \A u \in Threads \ {t} : pc'[u] = pc[u]
    BY <1>0, <1>4 DEF CallStart, CallStop, CallStateFunction, Settled, Go, Typed, stream_vars
  <2> QED BY <2>1 DEF OneStateFunction, StateFunction
<1>5. ASSUME NEW t \in Threads, \/ StartFrameObserver(t) \/ StartPort(t) \/ StopPort(t)
                                \/ StopCommit(t) \/ StopFrameObserver(t) \/ StopDone(t)
      PROVE  OneStateFunction'
  <2>1. /\ pc[t] \in StateFunction
        /\ \A u \in Threads \ {t} : pc'[u] = pc[u]
        /\ \/ pc'[t] = "idle"
           \/ pc'[t] \in {"start_port", "stop_observer", "stop_join"} /\ state' = "Ready"
           \/ pc'[t] = "stop_commit" /\ state' = "Running"
    BY <1>0, <1>5 DEF StartFrameObserver, StartPort, StopPort, StopCommit, StopFrameObserver,
                      StopDone, Go, Typed, StateFunction, OneStateFunction, stream_vars
  <2>2. \A u \in Threads \ {t} : pc[u] \notin StateFunction
    BY <2>1 DEF OneStateFunction
  <2> QED BY <2>1, <2>2 DEF OneStateFunction, StateFunction
<1> QED
  BY <1>0, <1>2, <1>3, <1>4, <1>5, WorkerAside, SenderAside DEF Next, Step, ThreadStep, Finished

\* No worker of a registered observer ends but in a Stop that waits for it.
LEMMA WorkersGoOnStep ==
  ASSUME CallbackInv, WorkersGoOn, [Next]_vars
  PROVE  WorkersGoOn'
<1>0. Typed /\ NextPlaced /\ RemovedPlaced /\ StopPlaced
  BY DEF CallbackInv
<1> DEFINE Joining(o) == \E t \in Threads : pc[t] = "stop_join" /\ observer[t] = o
<1>1. ASSUME \A o \in Observers : Kept(o)' => Kept(o),
             \A t \in Threads : pc[t] = "stop_join" =>
                                  pc'[t] = "stop_join" /\ observer'[t] = observer[t],
             \A o \in Observers : Kept(o)' /\ worker'[o] # "none" /\ ~Joining(o) =>
               /\ worker[o] # "none"
               /\ is_start[o] /\ worker[o] # "ended" => is_start'[o] /\ worker'[o] # "ended"
      PROVE  WorkersGoOn'
  <2>1. \A o \in Observers : Joining(o) => Joining(o)'
    BY <1>1
  <2> QED BY <1>1, <2>1 DEF WorkersGoOn
<1>2. CASE UNCHANGED vars
  BY <1>1, <1>2 DEF vars, step_vars, observer_vars, worker_vars, local_vars, Kept
<1>3. ASSUME NEW o \in Observers, WorkerStep(o) \/ Callback(o, "get")
      PROVE  WorkersGoOn'
  <2>1. UNCHANGED <<frame_observer, next_observer, pc, observer, is_start>>
    BY <1>0, <1>3, WorkerAside DEF Aside
  <2>2. /\ \A p \in Observers \ {o} : worker'[p] = worker[p]
        /\ worker[o] # "none"
        /\ worker'[o] = "ended" => ~is_start[o]
    BY <1>0, <1>3 DEF WorkerStep, WorkerLoop, Callback, GetFrame, ReleaseFrame, Typed
  <2> QED BY <1>1, <2>1, <2>2 DEF Kept
<1>4. CASE SendFrames \/ SenderStep
  <2>1. UNCHANGED <<frame_observer, next_observer, pc, observer, is_start>>
    BY <1>0, <1>4, SenderAside DEF Aside
  <2>2. worker' = worker \/ Wakeup
    BY <1>4 DEF SendFrames, SenderStep, FrameArrived, LockCallback, LockNotifier, SendLock,
                NotifyObserver, NotifyDone, worker_vars
  <2>3. \A p \in Observers : /\ worker'[p] = "none" <=> worker[p] = "none"
                             /\ worker'[p] = "ended" <=> worker[p] = "ended"
    BY <2>2 DEF Wakeup
  <2> QED BY <1>1, <2>1, <2>3 DEF Kept
<1>5. ASSUME NEW t \in Threads,
             \/ CallRegister(t) \/ RegisterFailed(t) \/ AddObserver(t) \/ Unregister(t)
             \/ RemoveObserver(t) \/ CallStart(t) \/ CallStop(t) \/ StartPort(t) \/ StopPort(t)
      PROVE  WorkersGoOn'
  <2>1. /\ UNCHANGED <<worker, is_start>>
        /\ frame_observer' \in {None, frame_observer}
        /\ \A u \in Threads : next_observer'[u] \in {None, next_observer[u]}
        /\ pc[t] # "stop_join"
        /\ \A u \in Threads \ {t} : pc'[u] = pc[u] /\ observer'[u] = observer[u]
    BY <1>0, <1>5 DEF CallRegister, RegisterFailed, AddObserver, Unregister, RemoveObserver,
                      CallStart, CallStop, CallStateFunction, Call, StartPort, StopPort, Go, Typed,
                      observer_vars, worker_vars, local_vars
  <2>2. \A o \in Observers : Kept(o)' => Kept(o)
    BY <2>1, Names DEF Kept
  <2> QED BY <1>1, <2>1, <2>2
<1>6. ASSUME NEW t \in Threads, NEW o \in Observers, Register(t, o)
      PROVE  WorkersGoOn'
  <2>1. /\ pc[t] = "register" /\ life[o] = "unused" /\ next_observer'[t] = o
        /\ frame_observer' \in {o, None}
        /\ \A u \in Threads \ {t} : pc'[u] = pc[u] /\ observer'[u] = observer[u]
                                    /\ next_observer'[u] = next_observer[u]
    BY <1>0, <1>6 DEF Register, NewObserver, Go, Typed
  <2>2. worker[o] = "none"
    BY <2>1 DEF CallbackInv, Lives
  <2>3. /\ worker'[o] = "none" \/ (worker'[o] = "loop" /\ is_start'[o])
        /\ \A p \in Observers \ {o} : worker'[p] = worker[p] /\ is_start'[p] = is_start[p]
    <3>1. CASE StartWorker(o)
      BY <1>0, <2>2, <3>1 DEF StartWorker, Typed
    <3>2. CASE UNCHANGED worker_vars
      BY <2>2, <3>2 DEF worker_vars
    <3> QED BY <1>6, <3>1, <3>2 DEF Register, NewObserver
  <2>4. \A p \in Observers \ {o} : Kept(p)' => Kept(p)
    BY <2>1, Names DEF Kept
  <2>5. \A p \in Observers : Joining(p) => Joining(p)'
    BY <2>1
  <2> QED BY <2>2, <2>3, <2>4, <2>5 DEF WorkersGoOn
<1>7. ASSUME NEW t \in Threads, StopObserver(t)
      PROVE  WorkersGoOn'
  <2>1. pc[t] = "stop" /\ observer[t] \in Observers /\ ~Kept(observer[t])
    BY <1>0, <1>7 DEF StopObserver, RemovedPlaced, Removing, Kept, Typed
  <2>2. /\ UNCHANGED <<worker, frame_observer, next_observer, observer>>
        /\ \A o \in Observers \ {observer[t]} : is_start'[o] = is_start[o]
        /\ \A u \in Threads \ {t} : pc'[u] = pc[u]
    BY <1>0, <1>7, <2>1 DEF StopObserver, StopWorker, Go, Typed, observer_vars, local_vars
  <2> QED BY <1>1, <2>1, <2>2 DEF Kept
<1>8. ASSUME NEW t \in Threads, DeleteObserver(t)
      PROVE  WorkersGoOn'
  <2>1. /\ UNCHANGED <<is_start, next_observer>>
        /\ pc[t] = "join" /\ observer[t] \in Observers
        /\ frame_observer' \in {frame_observer, next_observer[t]}
        /\ worker'[observer[t]] = "none"
        /\ \A o \in Observers \ {observer[t]} : worker'[o] = worker[o]
        /\ \A u \in Threads \ {t} : pc'[u] = pc[u] /\ observer'[u] = observer[u]
    BY <1>0, <1>8 DEF DeleteObserver, RemovedPlaced, Removing, Go, Typed
  <2> QED BY <1>1, <2>1 DEF Kept
<1>9. ASSUME NEW t \in Threads, StartFrameObserver(t)
      PROVE  WorkersGoOn'
  <2>1. /\ UNCHANGED <<frame_observer, next_observer, observer>>
        /\ pc[t] = "start_observer"
        /\ \A u \in Threads \ {t} : pc'[u] = pc[u]
    BY <1>0, <1>9 DEF StartFrameObserver, Go, Typed, observer_vars
  <2>2. CASE UNCHANGED worker_vars
    BY <1>1, <2>1, <2>2 DEF Kept, worker_vars
  <2>3. CASE ~UNCHANGED worker_vars
    <3>1. StartWorker(frame_observer) /\ frame_observer \in Observers
      BY <1>0, <1>9, <2>3 DEF StartFrameObserver, Typed
    <3>2. /\ \A p \in Observers : worker[p] # "none" =>
                worker'[p] = worker[p] /\ is_start'[p] = is_start[p]
          /\ \A p \in Observers : worker[p] = "none" =>
                worker'[p] = "none" \/ (worker'[p] = "loop" /\ is_start'[p])
      BY <1>0, <3>1 DEF StartWorker, Typed
    <3>3. \A p \in Observers : (Kept(p)' <=> Kept(p)) /\ (Joining(p) => Joining(p)')
      BY <2>1 DEF Kept
    <3> QED BY <3>2, <3>3 DEF WorkersGoOn
  <2> QED BY <2>2, <2>3
<1>10. ASSUME NEW t \in Threads, StopCommit(t)
       PROVE  WorkersGoOn'
  <2>1. /\ UNCHANGED <<frame_observer, next_observer, observer, is_start>> /\ Wakeup
        /\ pc[t] = "stop_commit"
        /\ \A u \in Threads \ {t} : pc'[u] = pc[u]
    BY <1>0, <1>10 DEF StopCommit, Go, Typed, observer_vars, local_vars
  <2>2. \A p \in Observers : /\ worker'[p] = "none" <=> worker[p] = "none"
                             /\ worker'[p] = "ended" <=> worker[p] = "ended"
    BY <2>1 DEF Wakeup
  <2> QED BY <1>1, <2>1, <2>2 DEF Kept
<1>11. ASSUME NEW t \in Threads, StopFrameObserver(t)
       PROVE  WorkersGoOn'
  <2>1. /\ UNCHANGED <<worker, frame_observer, next_observer>>
        /\ pc[t] = "stop_observer"
        /\ \A u \in Threads \ {t} : pc'[u] = pc[u] /\ observer'[u] = observer[u]
    BY <1>0, <1>11 DEF StopFrameObserver, StopWorker, Go, Typed, observer_vars, worker_vars
  <2>2. \/ frame_observer = None /\ UNCHANGED is_start
        \/ /\ frame_observer # None /\ pc'[t] = "stop_join" /\ observer'[t] = frame_observer
           /\ \A o \in Observers \ {frame_observer} : is_start'[o] = is_start[o]
    BY <1>0, <1>11 DEF StopFrameObserver, StopWorker, Go, Typed, worker_vars
  <2>3. \A p \in Observers : Joining(p) => Joining(p)'
    BY <2>1
  <2>4. \A p \in Observers : Kept(p)' <=> Kept(p)
    BY <2>1 DEF Kept
  <2>5. frame_observer # None => Joining(frame_observer)'
    BY <2>1, <2>2
  <2>6. \A p \in Observers : is_start'[p] = is_start[p] \/ Joining(p)'
    BY <2>2
  <2> QED BY <2>1, <2>3, <2>4, <2>6 DEF WorkersGoOn
<1>12. ASSUME NEW t \in Threads, StopDone(t)
       PROVE  WorkersGoOn'
  <2>1. /\ UNCHANGED <<frame_observer, next_observer, is_start>>
        /\ observer[t] \in Observers
        /\ worker'[observer[t]] = "none"
        /\ \A o \in Observers \ {observer[t]} : worker'[o] = worker[o]
        /\ \A u \in Threads \ {t} : pc'[u] = pc[u] /\ observer'[u] = observer[u]
    BY <1>0, <1>12 DEF StopDone, StopPlaced, Go, Typed, observer_vars
  <2>2. \A p \in Observers \ {observer[t]} : Joining(p) => Joining(p)'
    BY <2>1
  <2>3. \A p \in Observers : Kept(p)' <=> Kept(p)
    BY <2>1 DEF Kept
  <2> QED BY <2>1, <2>2, <2>3 DEF WorkersGoOn
<1> QED
  BY <1>2, <1>3, <1>4, <1>5, <1>6, <1>7, <1>8, <1>9, <1>10, <1>11, <1>12
     DEF Next, Step, ThreadStep, Finished

\* With the stream running or its port about to start, the registered observer
\* and one about to be have a worker, and no caller will register one without.
LEMMA WorkersStartedStep ==
  ASSUME CallbackInv, OneStateFunction, WorkersStarted, [Next]_vars
  PROVE  WorkersStarted'
<1>0. Typed /\ NextPlaced /\ RemovedPlaced /\ StopPlaced
  BY DEF CallbackInv
<1>1. ASSUME Starting' => Starting,
             unstarted \subseteq unstarted',
             \A o \in Observers : Kept(o)' => Kept(o) /\ (worker'[o] = "none" => worker[o] = "none"),
             \A t \in Threads : pc'[t] = "register" /\ ~is_running'[t] =>
                                  pc[t] = "register" /\ ~is_running[t]
      PROVE  WorkersStarted'
  BY <1>1 DEF WorkersStarted
<1>2. CASE (Aside /\ UNCHANGED unstarted) \/ UNCHANGED vars
  BY <1>1, <1>2 DEF Aside, vars, step_vars, stream_vars, observer_vars, worker_vars, local_vars, Kept, Starting
<1>3. ASSUME NEW o \in Observers, WorkerStep(o) \/ Callback(o, "get")
      PROVE  WorkersStarted'
  <2>1. UNCHANGED unstarted
    BY <1>3 DEF WorkerStep, WorkerLoop, Callback, GetFrame, ReleaseFrame, local_vars
  <2> QED BY <1>0, <1>2, <1>3, <2>1, WorkerAside
<1>4. CASE SendFrames \/ SenderStep
  <2>1. UNCHANGED unstarted
    BY <1>4 DEF SendFrames, SenderStep, FrameArrived, LockCallback, LockNotifier, SendLock,
                NotifyObserver, NotifyDone, local_vars
  <2> QED BY <1>0, <1>2, <1>4, <2>1, SenderAside
<1>5. ASSUME NEW t \in Threads, CallRegister(t)
      PROVE  WorkersStarted'
  <2>1. /\ UNCHANGED <<state, frame_observer, next_observer, worker>>
        /\ unstarted \subseteq unstarted'
        /\ pc[t] = "idle" /\ pc'[t] = "register"
        /\ is_running'[t] <=> state = "Running"
        /\ \A u \in Threads \ {t} : pc'[u] = pc[u] /\ is_running'[u] = is_running[u]
    BY <1>0, <1>5 DEF CallRegister, Call, Go, Typed, stream_vars, observer_vars, worker_vars
  <2>2. Starting' => Starting
    BY <2>1 DEF Starting
  <2>3. Starting /\ ~is_running'[t] => t \in unstarted'
    BY <1>5, <2>1 DEF CallRegister, Starting
  <2> QED BY <2>1, <2>2, <2>3 DEF WorkersStarted, Kept
<1>6. ASSUME NEW t \in Threads,
             \/ RegisterFailed(t) \/ AddObserver(t) \/ Unregister(t) \/ RemoveObserver(t)
             \/ StopObserver(t) \/ CallStart(t) \/ CallStop(t) \/ StartPort(t) \/ StopPort(t)
      PROVE  WorkersStarted'
  <2>1. /\ UNCHANGED <<worker, unstarted>>
        /\ frame_observer' \in {None, frame_observer}
        /\ \A u \in Threads : next_observer'[u] \in {None, next_observer[u]}
        /\ pc'[t] \notin {"register", "start_port"}
        /\ state' = state \/ pc[t] = "start_port"
        /\ \A u \in Threads \ {t} : pc'[u] = pc[u] /\ is_running'[u] = is_running[u]
    BY <1>0, <1>6 DEF RegisterFailed, AddObserver, Unregister, RemoveObserver, StopObserver,
                      StopWorker, CallStart, CallStop, CallStateFunction, Call, StartPort,
                      StopPort, Go, Typed, stream_vars, observer_vars, worker_vars, local_vars
  <2>2. \A o \in Observers : Kept(o)' => Kept(o)
    BY <2>1, Names DEF Kept
  <2>3. Starting' => Starting
    BY <2>1 DEF Starting
  <2> QED BY <1>1, <2>1, <2>2, <2>3
<1>7. ASSUME NEW t \in Threads, NEW o \in Observers, Register(t, o)
      PROVE  WorkersStarted'
  <2>1. /\ pc[t] = "register" /\ life[o] = "unused" /\ next_observer'[t] = o
        /\ UNCHANGED <<state, is_running>>
        /\ pc'[t] \in {"add", "remove"}
        /\ unstarted' = NewUnstarted(t, o)
        /\ frame_observer' \in {o, None}
        /\ \A u \in Threads \ {t} : pc'[u] = pc[u] /\ next_observer'[u] = next_observer[u]
    BY <1>0, <1>7 DEF Register, NewObserver, Go, Typed, stream_vars
  <2>2. worker[o] = "none"
    BY <2>1 DEF CallbackInv, Lives
  <2>3. /\ is_running[t] => worker'[o] = "loop"
        /\ \A p \in Observers \ {o} : worker'[p] = worker[p]
    <3>1. CASE is_running[t]
      BY <1>0, <1>7, <2>2, <3>1 DEF Register, NewObserver, StartWorker, Typed
    <3>2. CASE ~is_running[t]
      BY <1>7, <3>2 DEF Register, NewObserver, worker_vars
    <3> QED BY <3>1, <3>2
  <2>4. \A p \in Observers \ {o} : Kept(p)' => Kept(p)
    BY <2>1, Names DEF Kept
  <2>5. Starting' => Starting
    BY <2>1 DEF Starting
  <2>6. /\ \A p \in Observers \ {o} : p \in unstarted => p \in unstarted'
        /\ \A u \in Threads \ {t} : u \in unstarted => u \in unstarted'
        /\ t \in unstarted => o \in unstarted'
    BY <2>1, Names DEF NewUnstarted
  <2>7. Starting /\ o \notin unstarted' => worker'[o] # "none"
    BY <2>1, <2>3, <2>6 DEF WorkersStarted
  <2>8. \A u \in Threads : pc'[u] = "register" => u # t
    BY <2>1
  <2> QED BY <2>1, <2>3, <2>4, <2>5, <2>6, <2>7, <2>8 DEF WorkersStarted
<1>8. ASSUME NEW t \in Threads, DeleteObserver(t)
      PROVE  WorkersStarted'
  <2>1. /\ UNCHANGED <<state, unstarted, next_observer, is_running>>
        /\ pc[t] = "join" /\ pc'[t] \in {"idle", "add"}
        /\ observer[t] \in Observers /\ observer[t] # frame_observer
        /\ \A u \in Threads : observer[t] # next_observer[u]
        /\ frame_observer' \in {frame_observer, next_observer[t]}
        /\ \A o \in Observers \ {observer[t]} : worker'[o] = worker[o]
        /\ \A u \in Threads \ {t} : pc'[u] = pc[u]
    BY <1>0, <1>8 DEF DeleteObserver, RemovedPlaced, Removing, Go, Typed, stream_vars
  <2>2. \A o \in Observers : Kept(o)' => Kept(o) /\ o # observer[t]
    BY <2>1 DEF Kept
  <2>3. Starting' => Starting
    BY <2>1 DEF Starting
  <2> QED BY <1>1, <2>1, <2>2, <2>3
<1>9. ASSUME NEW t \in Threads, StartFrameObserver(t)
      PROVE  WorkersStarted'
  <2>1. /\ UNCHANGED <<state, frame_observer, next_observer, is_running>>
        /\ pc[t] = "start_observer" /\ pc'[t] = "start_port"
        /\ \A u \in Threads : held["callback"] # u
        /\ \A u \in Threads \ {t} : pc'[u] = pc[u]
    BY <1>0, <1>9, Names DEF StartFrameObserver, Free, Go, Typed, stream_vars, observer_vars
  <2>2. \A u \in Threads : next_observer[u] = None
    BY <1>0, <2>1 DEF CallbackInv, CallbackMutex, HoldsCallback, Replacing, NextPlaced
  <2>3. ASSUME NEW o \in Observers, Kept(o)', o \notin unstarted'
        PROVE  worker'[o] # "none"
    <3>1. o = frame_observer
      BY <2>1, <2>2, <2>3, Names DEF Kept
    <3>2. StartWorker(o)
      BY <1>9, <2>3, <3>1, Names DEF StartFrameObserver
    <3> QED BY <1>0, <3>2 DEF StartWorker, Typed
  <2>4. ASSUME NEW u \in Threads, pc'[u] = "register", ~is_running'[u]
        PROVE  u \in unstarted'
    <3>1. pc[u] = "register" /\ ~is_running[u]
      BY <2>1, <2>4
    <3>2. u # frame_observer
      BY <1>0, Names DEF Typed
    <3> QED BY <1>9, <3>1, <3>2 DEF StartFrameObserver, Overtaken
  <2> QED BY <2>3, <2>4 DEF WorkersStarted
<1>10. ASSUME NEW t \in Threads, StopCommit(t) \/ StopFrameObserver(t) \/ StopDone(t)
       PROVE  WorkersStarted'
  <2>1. /\ pc[t] \in {"stop_commit", "stop_observer", "stop_join"}
        /\ state' = "Ready"
        /\ pc'[t] # "start_port"
        /\ \A u \in Threads \ {t} : pc'[u] = pc[u]
    BY <1>0, <1>10 DEF StopCommit, StopFrameObserver, StopDone, OneStateFunction, Go, Typed,
                       stream_vars
  <2>2. \A u \in Threads \ {t} : pc[u] # "start_port"
    BY <2>1 DEF OneStateFunction, StateFunction
  <2> QED BY <2>1, <2>2 DEF WorkersStarted, Starting
<1> QED
  BY <1>2, <1>3, <1>4, <1>5, <1>6, <1>7, <1>8, <1>9, <1>10 DEF Next, Step, ThreadStep, Finished

LEMMA InitStartedInv == Init => StartedInv
<1> SUFFICES ASSUME Init
             PROVE  StartedInv
  OBVIOUS
<1>1. OneStateFunction /\ WorkersGoOn /\ WorkersStarted
  BY DEF Init, OneStateFunction, StateFunction, WorkersGoOn, WorkersStarted, Starting
<1> QED BY <1>1, InitCallbackInv DEF StartedInv

\* While the stream runs, the registered callback has a worker that takes
\* notifications (StartFrameObserver, SetupFrameObserver), of any application:
\* but where Start got no thread, or Register read the state before that Start.
THEOREM CallbackRuns == Spec => []RegisteredRuns
<1>1. StartedInv => RegisteredRuns
  <2> SUFFICES ASSUME StartedInv, state = "Running", Settled,
                      frame_observer # None, frame_observer \notin unstarted
               PROVE  worker[frame_observer] \notin {"none", "ended"} /\ is_start[frame_observer]
    BY DEF RegisteredRuns
  <2>1. frame_observer \in Observers /\ Kept(frame_observer)
    BY DEF StartedInv, CallbackInv, Typed, Kept
  <2>2. worker[frame_observer] # "none"
    BY <2>1 DEF StartedInv, WorkersStarted, Starting
  <2>3. \A t \in Threads : pc[t] # "stop_join"
    BY DEF Settled, StateFunction
  <2> QED BY <2>1, <2>2, <2>3 DEF StartedInv, WorkersGoOn
<1>2. StartedInv /\ [Next]_vars => StartedInv'
  BY NextCallbackInv, OneStateFunctionStep, WorkersGoOnStep, WorkersStartedStep DEF StartedInv
<1> QED BY <1>1, <1>2, InitStartedInv, PTL DEF Spec

---------------------------------------------------------------------------
(***************************************************************************)
(* A careful application                                                   *)
(***************************************************************************)
LEMMA PlacedStep ==
  ASSUME CallbackInv, Placed, [Next]_vars
  PROVE  Placed'
<1>0. Typed /\ RemovedPlaced /\ NextPlaced
  BY DEF CallbackInv
<1>1. ASSUME Unmoved
      PROVE  Placed'
  <2>1. \A t \in Threads : pc[t] \in Removing => pc'[t] \in Removing
    BY <1>1 DEF Unmoved, Loose, Removing, Labels
  <2> QED BY <1>1, <2>1 DEF Unmoved, Placed
<1>2. ASSUME NEW t \in Threads, NEW o \in Observers, Register(t, o)
      PROVE  Placed'
  <2>1. /\ pc[t] = "register" /\ next_observer'[t] = o
        /\ \A p \in Observers \ {o} : life'[p] = life[p]
        /\ \A u \in Threads \ {t} : pc'[u] = pc[u] /\ observer'[u] = observer[u]
                                    /\ next_observer'[u] = next_observer[u]
        /\ \/ frame_observer = None
           \/ (pc'[t] = "remove" /\ observer'[t] = frame_observer)
    BY <1>0, <1>2 DEF Register, NewObserver, Go, Typed
  <2>2. next_observer[t] = None
    BY <1>0, <2>1 DEF NextPlaced, Removing
  <2> QED BY <2>1, <2>2, Names DEF Placed, Removing
<1>3. ASSUME NEW t \in Threads, AddObserver(t)
      PROVE  Placed'
  <2>1. /\ UNCHANGED <<frame_observer, life, observer>> /\ pc[t] = "add"
        /\ \A u \in Threads \ {t} : pc'[u] = pc[u] /\ next_observer'[u] = next_observer[u]
    BY <1>0, <1>3 DEF AddObserver, Go, Typed
  <2>2. frame_observer = next_observer[t]
    BY <1>0, <2>1 DEF NextPlaced
  <2> QED BY <2>1, <2>2 DEF Placed, Removing
<1>4. ASSUME NEW t \in Threads, Unregister(t)
      PROVE  Placed'
  <2>1. /\ UNCHANGED <<life, next_observer>> /\ pc[t] = "idle" /\ pc'[t] = "remove"
        /\ observer'[t] = frame_observer
        /\ \A u \in Threads \ {t} : pc'[u] = pc[u] /\ observer'[u] = observer[u]
    BY <1>0, <1>4 DEF Unregister, Call, Go, Typed
  <2> QED BY <2>1 DEF Placed, Removing
<1>5. ASSUME NEW t \in Threads, RemoveObserver(t) \/ StopObserver(t)
      PROVE  Placed'
  <2>1. /\ UNCHANGED <<frame_observer, life, next_observer, observer>>
        /\ pc'[t] \in Removing
        /\ \A u \in Threads \ {t} : pc'[u] = pc[u]
    BY <1>0, <1>5 DEF RemoveObserver, StopObserver, Go, Typed, Removing, local_vars, observer_vars
  <2> QED BY <2>1 DEF Placed
<1>6. ASSUME NEW t \in Threads, DeleteObserver(t)
      PROVE  Placed'
  <2>1. /\ UNCHANGED next_observer
        /\ pc[t] = "join" /\ life'[observer[t]] = "deleted"
        /\ \A o \in Observers \ {observer[t]} : life'[o] = life[o]
        /\ \A u \in Threads \ {t} : pc'[u] = pc[u] /\ observer'[u] = observer[u]
        /\ frame_observer' = frame_observer \/ next_observer[t] # None
    BY <1>0, <1>6 DEF DeleteObserver, Go, Typed, RemovedPlaced, Removing
  <2>2. frame_observer' # frame_observer => frame_observer = None
    BY <1>0, <2>1 DEF NextPlaced, Replacing, Removing
  <2>3. \A o \in Observers : life'[o] = "live" => life[o] = "live" /\ o # observer[t]
    BY <2>1
  <2> QED BY <2>1, <2>2, <2>3, Names DEF Placed
<1>7. ASSUME NEW t \in Threads, StopFrameObserver(t) \/ StopDone(t)
      PROVE  Placed'
  <2>1. /\ UNCHANGED <<frame_observer, life, next_observer>>
        /\ pc[t] \in {"stop_observer", "stop_join"}
        /\ \A u \in Threads \ {t} : pc'[u] = pc[u] /\ observer'[u] = observer[u]
    BY <1>0, <1>7 DEF StopFrameObserver, StopDone, Go, Typed, observer_vars
  <2> QED BY <2>1 DEF Placed, Removing
<1>8. CASE UNCHANGED vars
  BY <1>8, <1>1 DEF vars, step_vars, observer_vars, worker_vars, local_vars, Unmoved
<1> QED
  BY <1>1, <1>2, <1>3, <1>4, <1>5, <1>6, <1>7, <1>8, ThreadUnmoved, WorkerUnmoved, SenderUnmoved
     DEF Next, Step, ThreadStep, Finished

\* One registration or one state function is under way.
LEMMA ApartStep ==
  ASSUME careful, CallbackInv, Apart, [Next]_vars
  PROVE  Apart'
<1>0. Typed /\ NextPlaced /\ RemovedPlaced
  BY DEF CallbackInv
<1>1. ASSUME \A t \in Threads : pc'[t] \in StateFunction => pc[t] \in StateFunction,
             \A t \in Threads : pc'[t] \in Registering \/ next_observer'[t] # None =>
                                  pc[t] \in Registering \/ next_observer[t] # None
      PROVE  Apart'
  BY <1>1 DEF Apart, Busy
<1>2. ASSUME NEW t \in Threads, CallRegister(t)
      PROVE  Apart'
  <2>1. /\ \A u \in Threads : pc[u] \notin StateFunction \cup Registering
                              /\ next_observer[u] = None
        /\ UNCHANGED next_observer
        /\ pc'[t] = "register" /\ \A u \in Threads \ {t} : pc'[u] = pc[u]
    BY <1>0, <1>2 DEF CallRegister, MayRegister, Go, Typed
  <2> QED BY <2>1 DEF Apart, Busy, StateFunction
<1>3. ASSUME NEW t \in Threads, CallStart(t) \/ CallStop(t)
      PROVE  Apart'
  <2>1. /\ \A u \in Threads : pc[u] \notin StateFunction \cup Registering
                              /\ next_observer[u] = None
        /\ UNCHANGED next_observer
        /\ pc'[t] \in StateFunction /\ \A u \in Threads \ {t} : pc'[u] = pc[u]
    BY <1>0, <1>3 DEF CallStart, CallStop, CallStateFunction, Settled, Go, Typed, StateFunction,
                      local_vars
  <2> QED BY <2>1 DEF Apart, Busy, StateFunction, Registering
<1>4. ASSUME NEW t \in Threads, \/ StartFrameObserver(t) \/ StartPort(t) \/ StopPort(t)
                                \/ StopCommit(t) \/ StopFrameObserver(t) \/ StopDone(t)
      PROVE  Apart'
  <2>1. /\ UNCHANGED next_observer
        /\ pc[t] \in StateFunction /\ pc'[t] \in StateFunction \cup {"idle"}
        /\ \A u \in Threads \ {t} : pc'[u] = pc[u]
    BY <1>0, <1>4 DEF StartFrameObserver, StartPort, StopPort, StopCommit, StopFrameObserver,
                      StopDone, Go, Typed, StateFunction, local_vars
  <2>2. pc'[t] \notin Registering
    BY <2>1 DEF StateFunction, Registering
  <2> QED BY <1>1, <2>1, <2>2
<1>5. ASSUME NEW t \in Threads, NEW o \in Observers, Register(t, o)
      PROVE  Apart'
  <2>1. /\ pc[t] = "register" /\ pc'[t] \in {"add", "remove"}
        /\ \A u \in Threads \ {t} : pc'[u] = pc[u] /\ next_observer'[u] = next_observer[u]
    BY <1>0, <1>5 DEF Register, NewObserver, Go, Typed
  <2> QED BY <1>1, <2>1 DEF Registering, StateFunction
<1>6. ASSUME NEW t \in Threads,
             Unregister(t) \/ RemoveObserver(t) \/ StopObserver(t) \/ AddObserver(t)
      PROVE  Apart'
  <2>1. /\ pc'[t] \in {"idle", "remove", "stop", "join"}
        /\ next_observer'[t] \in {None, next_observer[t]}
        /\ \A u \in Threads \ {t} : pc'[u] = pc[u] /\ next_observer'[u] = next_observer[u]
    BY <1>0, <1>6 DEF Unregister, RemoveObserver, StopObserver, AddObserver, Go, Typed, local_vars
  <2> QED BY <1>1, <2>1 DEF Registering, StateFunction
<1>7. ASSUME NEW t \in Threads, DeleteObserver(t)
      PROVE  Apart'
  <2>1. /\ UNCHANGED next_observer
        /\ pc'[t] = "idle" \/ (pc'[t] = "add" /\ next_observer[t] # None)
        /\ \A u \in Threads \ {t} : pc'[u] = pc[u]
    BY <1>0, <1>7 DEF DeleteObserver, Go, Typed
  <2> QED BY <1>1, <2>1 DEF Registering, StateFunction
<1>8. CASE Aside \/ UNCHANGED vars
  BY <1>8, <1>1 DEF Aside, vars, step_vars, local_vars
<1>9. ASSUME NEW t \in Threads, RegisterFailed(t)
      PROVE  Apart'
  <2>1. UNCHANGED next_observer /\ pc'[t] = "idle" /\ \A u \in Threads \ {t} : pc'[u] = pc[u]
    BY <1>0, <1>9 DEF RegisterFailed, Go, Typed
  <2> QED BY <1>1, <2>1 DEF Registering, StateFunction
<1> QED
  BY <1>0, <1>2, <1>3, <1>4, <1>5, <1>6, <1>7, <1>8, <1>9, WorkerAside, SenderAside
     DEF Next, Step, ThreadStep, Finished

\* What a thread knows of the state of the stream where it is.
LEMMA StateKnownStep ==
  ASSUME careful, CallbackInv, Apart, StateKnown, [Next]_vars
  PROVE  StateKnown'
<1>0. Typed /\ NextPlaced /\ RemovedPlaced
  BY DEF CallbackInv
<1>1. CASE Aside \/ UNCHANGED vars
  BY <1>1 DEF Aside, vars, step_vars, stream_vars, observer_vars, local_vars, StateKnown, Replacing
<1>2. ASSUME NEW t \in Threads, CallRegister(t)
      PROVE  StateKnown'
  <2>1. /\ \A u \in Threads : pc[u] \notin StateFunction \cup Registering
                              /\ next_observer[u] = None
        /\ frame_observer = None \/ state = "Ready"
        /\ UNCHANGED <<state, frame_observer, next_observer>>
        /\ is_running'[t] <=> state = "Running"
        /\ pc'[t] = "register"
        /\ \A u \in Threads \ {t} : pc'[u] = pc[u] /\ is_running'[u] = is_running[u]
    BY <1>0, <1>2 DEF CallRegister, MayRegister, Go, Typed, stream_vars, observer_vars
  <2> QED BY <2>1 DEF StateKnown, Replacing, StateFunction, Registering
<1>3. ASSUME NEW t \in Threads, CallStart(t) \/ CallStop(t)
      PROVE  StateKnown'
  <2>1. /\ \A u \in Threads : pc[u] \notin StateFunction \cup Registering
                              /\ next_observer[u] = None
        /\ UNCHANGED <<state, next_observer>>
        /\ \/ pc'[t] = "start_observer" /\ state = "Ready"
           \/ pc'[t] = "stop_port" /\ state = "Running"
        /\ \A u \in Threads \ {t} : pc'[u] = pc[u]
    BY <1>0, <1>3 DEF CallStart, CallStop, CallStateFunction, Settled, Go, Typed, stream_vars,
                      local_vars
  <2> QED BY <2>1 DEF StateKnown, Replacing, StateFunction, Registering
<1>4. ASSUME NEW t \in Threads, \/ StartFrameObserver(t) \/ StartPort(t) \/ StopPort(t)
                                \/ StopCommit(t) \/ StopFrameObserver(t) \/ StopDone(t)
      PROVE  StateKnown'
  <2>1. /\ UNCHANGED next_observer
        /\ pc[t] \in StateFunction
        /\ \A u \in Threads \ {t} : pc'[u] = pc[u]
        /\ \/ pc'[t] = "idle"
           \/ pc'[t] \in {"start_port", "stop_observer", "stop_join"} /\ state' = "Ready"
           \/ pc'[t] = "stop_commit" /\ state' = "Running"
    BY <1>0, <1>4 DEF StartFrameObserver, StartPort, StopPort, StopCommit, StopFrameObserver,
                      StopDone, Go, Typed, StateFunction, StateKnown, stream_vars, local_vars
  <2>2. \A u \in Threads \ {t} : pc[u] \notin StateFunction
    BY <2>1 DEF Apart
  <2>3. \A u \in Threads : pc[u] \notin Registering /\ next_observer[u] = None
    BY <2>1 DEF Apart, Busy
  <2> QED BY <2>1, <2>2, <2>3 DEF StateKnown, Replacing, StateFunction, Registering
<1>5. ASSUME NEW t \in Threads, NEW o \in Observers, Register(t, o)
      PROVE  StateKnown'
  <2>1. /\ pc[t] = "register" /\ state' = state /\ is_running' = is_running
        /\ \/ frame_observer = None /\ pc'[t] = "add"
           \/ frame_observer # None /\ pc'[t] = "remove"
        /\ \A u \in Threads \ {t} : pc'[u] = pc[u] /\ next_observer'[u] = next_observer[u]
    BY <1>0, <1>5 DEF Register, NewObserver, Go, Typed, stream_vars
  <2>2. \A u \in Threads \ {t} : pc[u] # "register"
    BY <2>1 DEF Apart, Busy, Registering
  <2> QED BY <2>1, <2>2 DEF StateKnown, Replacing, Removing
<1>6. ASSUME NEW t \in Threads,
             Unregister(t) \/ RemoveObserver(t) \/ StopObserver(t) \/ AddObserver(t)
      PROVE  StateKnown'
  <2>1. /\ state' = state
        /\ frame_observer' \in {None, frame_observer}
        /\ \/ pc'[t] = "idle" /\ pc[t] = "add"
           \/ pc'[t] = "remove" /\ pc[t] = "idle" /\ next_observer'[t] = next_observer[t]
           \/ pc'[t] \in Removing /\ pc[t] \in Removing /\ next_observer'[t] = next_observer[t]
        /\ \A u \in Threads \ {t} : pc'[u] = pc[u] /\ next_observer'[u] = next_observer[u]
                                    /\ is_running'[u] = is_running[u]
    BY <1>0, <1>6 DEF Unregister, RemoveObserver, StopObserver, AddObserver, Call, Go, Typed,
                      local_vars, stream_vars, observer_vars, Removing
  <2>2. pc[t] = "idle" => next_observer[t] = None
    BY <1>0 DEF NextPlaced, Removing
  <2> QED BY <2>1, <2>2 DEF StateKnown, Replacing, Removing
<1>7. ASSUME NEW t \in Threads, DeleteObserver(t)
      PROVE  StateKnown'
  <2>1. /\ state' = state /\ UNCHANGED <<next_observer, is_running>>
        /\ \/ pc'[t] = "idle" /\ frame_observer' = frame_observer
           \/ pc'[t] = "add" /\ next_observer[t] # None
        /\ \A u \in Threads \ {t} : pc'[u] = pc[u]
    BY <1>0, <1>7 DEF DeleteObserver, Go, Typed, stream_vars
  <2>2. next_observer[t] # None => \A u \in Threads \ {t} : pc[u] # "register"
    BY DEF Apart, Busy, Registering
  <2> QED BY <2>1, <2>2 DEF StateKnown, Replacing, Removing
<1>8. ASSUME NEW t \in Threads, RegisterFailed(t)
      PROVE  StateKnown'
  <2>1. /\ UNCHANGED <<state, frame_observer, next_observer>> /\ pc'[t] = "idle"
        /\ \A u \in Threads \ {t} : pc'[u] = pc[u] /\ is_running'[u] = is_running[u]
    BY <1>0, <1>8 DEF RegisterFailed, Go, Typed, stream_vars, observer_vars
  <2> QED BY <2>1 DEF StateKnown, Replacing, Removing
<1> QED
  BY <1>0, <1>1, <1>2, <1>3, <1>4, <1>5, <1>6, <1>7, <1>8, WorkerAside, SenderAside
     DEF Next, Step, ThreadStep, Finished

\* The new observer of a replaced one rests until it is registered.
LEMMA NewWorkerRestsStep ==
  ASSUME careful, CallbackInv, Apart, StateKnown, NewWorkerRests, [Next]_vars
  PROVE  NewWorkerRests'
<1>0. Typed /\ NextPlaced /\ RemovedPlaced
  BY DEF CallbackInv
<1>1. ASSUME \A o \in Observers : worker[o] = "none" => worker'[o] = "none",
             \A t \in Threads : pc'[t] \in Removing /\ next_observer'[t] # None =>
                next_observer'[t] = next_observer[t] /\ pc[t] \in Removing
      PROVE  NewWorkerRests'
  BY <1>0, <1>1 DEF NewWorkerRests, Replacing, Typed
<1>2. CASE Aside \/ UNCHANGED vars
  BY <1>1, <1>2 DEF Aside, vars, step_vars, worker_vars, local_vars
<1>3. ASSUME NEW t \in Threads, \/ CallRegister(t) \/ CallStart(t) \/ CallStop(t)
                                \/ StartPort(t) \/ StopPort(t) \/ StopCommit(t)
                                \/ StopFrameObserver(t) \/ RegisterFailed(t)
      PROVE  NewWorkerRests'
  <2>1. /\ UNCHANGED next_observer /\ pc'[t] \notin Removing
        /\ \A u \in Threads \ {t} : pc'[u] = pc[u]
    BY <1>0, <1>3 DEF CallRegister, CallStart, CallStop, CallStateFunction, StartPort, StopPort,
                      StopCommit, StopFrameObserver, RegisterFailed, Go, Typed, Removing,
                      local_vars
  <2>2. \A o \in Observers : worker[o] = "none" => worker'[o] = "none"
    BY <1>3 DEF CallRegister, CallStart, CallStop, CallStateFunction, StartPort, StopPort,
                StopCommit, StopFrameObserver, RegisterFailed, StopWorker, Wakeup, worker_vars
  <2> QED BY <1>1, <2>1, <2>2
<1>4. ASSUME NEW t \in Threads, StartFrameObserver(t)
      PROVE  NewWorkerRests'
  <2>1. /\ UNCHANGED next_observer /\ pc[t] \in StateFunction /\ pc'[t] = "start_port"
        /\ \A u \in Threads \ {t} : pc'[u] = pc[u]
    BY <1>0, <1>4 DEF StartFrameObserver, Go, Typed, StateFunction
  <2> QED BY <2>1 DEF Apart, Busy, NewWorkerRests, Replacing, Removing
<1>5. ASSUME NEW t \in Threads, StopDone(t) \/ DeleteObserver(t)
      PROVE  NewWorkerRests'
  <2>1. /\ UNCHANGED next_observer /\ pc'[t] \notin Removing
        /\ \A u \in Threads \ {t} : pc'[u] = pc[u]
    BY <1>0, <1>5 DEF StopDone, DeleteObserver, Go, Typed, Removing
  <2>2. \A o \in Observers : worker[o] = "none" => worker'[o] = "none"
    BY <1>0, <1>5 DEF StopDone, DeleteObserver, Typed
  <2> QED BY <1>1, <2>1, <2>2
<1>6. ASSUME NEW t \in Threads, Unregister(t) \/ RemoveObserver(t) \/ StopObserver(t)
      PROVE  NewWorkerRests'
  <2>1. /\ UNCHANGED <<next_observer, worker>>
        /\ pc[t] \in Removing \cup {"idle"}
        /\ \A u \in Threads \ {t} : pc'[u] = pc[u]
    BY <1>0, <1>6 DEF Unregister, RemoveObserver, StopObserver, StopWorker, Call, Go, Typed,
                      Removing, local_vars, worker_vars
  <2>2. pc[t] = "idle" => next_observer[t] = None
    BY <1>0 DEF NextPlaced, Removing
  <2> QED BY <1>1, <2>1, <2>2
<1>7. ASSUME NEW t \in Threads, AddObserver(t)
      PROVE  NewWorkerRests'
  <2>1. /\ UNCHANGED worker /\ next_observer'[t] = None
        /\ \A u \in Threads \ {t} : pc'[u] = pc[u] /\ next_observer'[u] = next_observer[u]
    BY <1>0, <1>7 DEF AddObserver, Go, Typed, worker_vars
  <2> QED BY <1>1, <2>1
<1>8. ASSUME NEW t \in Threads, NEW o \in Observers, Register(t, o)
      PROVE  NewWorkerRests'
  <2>1. /\ pc[t] = "register" /\ life[o] = "unused" /\ next_observer'[t] = o
        /\ \A u \in Threads \ {t} : pc'[u] = pc[u] /\ next_observer'[u] = next_observer[u]
    BY <1>0, <1>8 DEF Register, NewObserver, Go, Typed
  <2>2. worker[o] = "none"
    BY <2>1 DEF CallbackInv, Lives
  <2>3. \A u \in Threads \ {t} : next_observer[u] = None
    BY <2>1 DEF Apart, Busy, Registering
  <2>4. CASE frame_observer = None
    <3>1. pc'[t] = "add"
      BY <1>0, <1>8, <2>4 DEF Register, Go, Typed
    <3> QED BY <2>1, <2>3, <3>1 DEF NewWorkerRests, Replacing, Removing
  <2>5. CASE frame_observer # None
    <3>1. ~is_running[t]
      BY <1>0, <2>1, <2>5 DEF StateKnown, Typed
    <3>2. UNCHANGED worker
      BY <1>8, <3>1 DEF Register, NewObserver, worker_vars
    <3> QED BY <2>1, <2>2, <2>3, <3>2 DEF NewWorkerRests, Replacing
  <2> QED BY <2>4, <2>5
<1> QED
  BY <1>0, <1>2, <1>3, <1>4, <1>5, <1>6, <1>7, <1>8, WorkerAside, SenderAside
     DEF Next, Step, ThreadStep, Finished

\* The worker of the registered observer rests when the stream does.
LEMMA WorkerRestsStep ==
  ASSUME careful, CallbackInv, Apart, StateKnown, NewWorkerRests, WorkerRests, [Next]_vars
  PROVE  WorkerRests'
<1>0. Typed /\ NextPlaced /\ RemovedPlaced /\ StopPlaced
  BY DEF CallbackInv
<1> DEFINE Around == {"start_port", "stop_observer", "stop_join"}
<1>1. ASSUME state' = state, frame_observer' = frame_observer,
             \A t \in Threads : pc'[t] = pc[t] \/ (pc[t] \notin Around /\ pc'[t] \notin Around),
             frame_observer # None /\ worker[frame_observer] = "none" =>
               worker'[frame_observer] = "none"
      PROVE  WorkerRests'
  BY <1>1 DEF WorkerRests
<1>2. CASE Aside \/ UNCHANGED vars
  <2>1. /\ UNCHANGED <<state, frame_observer, pc>>
        /\ \A o \in Observers : worker'[o] = "none" <=> worker[o] = "none"
    BY <1>2 DEF Aside, vars, step_vars, stream_vars, observer_vars, worker_vars
  <2> QED BY <1>0, <1>1, <2>1 DEF Typed
<1>3. ASSUME NEW t \in Threads, \/ CallRegister(t) \/ RegisterFailed(t)
                                \/ CallStart(t) \/ CallStop(t) \/ StopPort(t)
      PROVE  WorkerRests'
  <2>1. /\ UNCHANGED <<state, frame_observer, worker>>
        /\ pc[t] \notin Around /\ pc'[t] \notin Around
        /\ \A u \in Threads \ {t} : pc'[u] = pc[u]
    BY <1>0, <1>3 DEF CallRegister, RegisterFailed, CallStart, CallStop, CallStateFunction, Call,
                      StopPort, Go, Typed, stream_vars, observer_vars, worker_vars
  <2> QED BY <1>1, <2>1
<1>4. ASSUME NEW t \in Threads, NEW o \in Observers, Register(t, o)
      PROVE  WorkerRests'
  <2>1. /\ pc[t] = "register" /\ life[o] = "unused" /\ state' = state
        /\ pc'[t] \in {"add", "remove"}
        /\ frame_observer' = o \/ frame_observer' = None
        /\ \A u \in Threads \ {t} : pc'[u] = pc[u]
    BY <1>0, <1>4 DEF Register, NewObserver, Go, Typed, stream_vars
  <2>2. \A u \in Threads : pc'[u] # "start_port"
    BY <2>1 DEF Apart, Busy, Registering, StateFunction
  <2>3. worker[o] = "none"
    BY <2>1 DEF CallbackInv, Lives
  <2>4. CASE state = "Running"
    BY <2>1, <2>4 DEF WorkerRests
  <2>5. CASE state = "Ready"
    <3>1. ~is_running[t]
      BY <1>0, <2>1, <2>5 DEF StateKnown, Typed
    <3>2. UNCHANGED worker
      BY <1>4, <3>1 DEF Register, NewObserver, worker_vars
    <3> QED BY <2>1, <2>2, <2>3, <2>5, <3>2 DEF WorkerRests
  <2> QED BY <1>0, <2>4, <2>5 DEF Typed
<1>5. ASSUME NEW t \in Threads, Unregister(t)
      PROVE  WorkerRests'
  BY <1>5 DEF Unregister, WorkerRests
<1>6. ASSUME NEW t \in Threads, AddObserver(t) \/ RemoveObserver(t) \/ StopObserver(t)
      PROVE  WorkerRests'
  <2>1. /\ UNCHANGED <<state, frame_observer, worker>>
        /\ pc[t] \notin Around /\ pc'[t] \notin Around
        /\ \A u \in Threads \ {t} : pc'[u] = pc[u]
    BY <1>0, <1>6 DEF AddObserver, RemoveObserver, StopObserver, StopWorker, Go, Typed,
                      stream_vars, observer_vars, worker_vars
  <2> QED BY <1>1, <2>1
<1>7. ASSUME NEW t \in Threads, DeleteObserver(t)
      PROVE  WorkerRests'
  <2>1. /\ pc[t] = "join" /\ observer[t] # frame_observer /\ observer[t] # next_observer[t]
        /\ observer[t] \in Observers
    BY <1>0, <1>7 DEF DeleteObserver, RemovedPlaced, Removing, Typed
  <2>2. /\ UNCHANGED <<state, is_start>>
        /\ \A o \in Observers \ {observer[t]} : worker'[o] = worker[o]
        /\ \A u \in Threads \ {t} : pc'[u] = pc[u]
        /\ \/ pc'[t] = "idle" /\ frame_observer' = frame_observer
           \/ pc'[t] = "add" /\ next_observer[t] # None /\ frame_observer' = next_observer[t]
    BY <1>0, <1>7 DEF DeleteObserver, Go, Typed, stream_vars
  <2>3. CASE pc'[t] = "idle" /\ frame_observer' = frame_observer
    BY <1>0, <1>1, <2>1, <2>2, <2>3 DEF Typed
  <2>4. CASE pc'[t] = "add" /\ next_observer[t] # None /\ frame_observer' = next_observer[t]
    <3>1. Replacing(t)
      BY <2>1, <2>4 DEF Replacing, Removing
    <3>2. state = "Ready" /\ worker[next_observer[t]] = "none" /\ next_observer[t] \in Observers
      BY <1>0, <2>4, <3>1 DEF StateKnown, NewWorkerRests, Typed
    <3>3. \A u \in Threads : pc'[u] # "start_port"
      BY <2>2, <2>4 DEF Apart, Busy, StateFunction
    <3> QED BY <2>1, <2>2, <2>4, <3>2, <3>3 DEF WorkerRests
  <2> QED BY <2>2, <2>3, <2>4
<1>8. ASSUME NEW t \in Threads, StartFrameObserver(t)
      PROVE  WorkerRests'
  <2>1. /\ UNCHANGED <<state, frame_observer>>
        /\ pc[t] = "start_observer" /\ pc'[t] = "start_port"
        /\ \A u \in Threads \ {t} : pc'[u] = pc[u]
    BY <1>0, <1>8 DEF StartFrameObserver, Go, Typed, stream_vars, observer_vars
  <2> QED BY <2>1 DEF WorkerRests
\* The others end in a state function's last part, or with the stream running.
<1>9. ASSUME NEW t \in Threads, StartPort(t) \/ StopCommit(t)
      PROVE  WorkerRests'
  <2>1. /\ UNCHANGED frame_observer
        /\ pc[t] \in {"start_port", "stop_commit"}
        /\ \/ pc'[t] = "stop_observer" /\ state' = "Ready"
           \/ pc[t] = "start_port" /\ pc'[t] = "idle" /\ state' = "Running" /\ worker' = worker
        /\ \A u \in Threads \ {t} : pc'[u] = pc[u]
    BY <1>0, <1>9 DEF StartPort, StopCommit, StateKnown, Go, Typed, observer_vars, worker_vars
  <2>2. \A u \in Threads \ {t} : pc[u] # "start_port"
    BY <2>1 DEF Apart, StateFunction
  <2> QED BY <2>1, <2>2 DEF WorkerRests
<1>10. ASSUME NEW t \in Threads, StopFrameObserver(t) \/ StopDone(t)
       PROVE  WorkerRests'
  <2>1. /\ UNCHANGED <<state, frame_observer>>
        /\ pc[t] \in {"stop_observer", "stop_join"}
        /\ \/ pc'[t] = "idle" /\ frame_observer = None
           \/ pc'[t] = "stop_join"
           \/ pc'[t] = "idle" /\ worker'[frame_observer] = "none"
        /\ \A u \in Threads \ {t} : pc'[u] = pc[u]
    BY <1>0, <1>10, Names DEF StopFrameObserver, StopDone, StopPlaced, Go, Typed, stream_vars,
                              observer_vars
  <2>2. state = "Ready" /\ \A u \in Threads \ {t} : pc[u] # "start_port"
    BY <2>1 DEF StateKnown, Apart, StateFunction
  <2> QED BY <2>1, <2>2 DEF WorkerRests
<1> QED
  BY <1>0, <1>2, <1>3, <1>4, <1>5, <1>6, <1>7, <1>8, <1>9, <1>10, WorkerAside, SenderAside
     DEF Next, Step, ThreadStep, Finished

\* The component sends only while the stream runs and Stop is not under way.
LEMMA SendingStep ==
  ASSUME careful, CallbackInv, StateKnown, Sending, [Next]_vars
  PROVE  Sending'
<1>0. Typed /\ NextPlaced /\ RemovedPlaced /\ StopPlaced
  BY DEF CallbackInv
<1>1. ASSUME state' = state \/ send = "idle", send' = send,
             \A t \in Threads : pc'[t] = "stop_commit" => pc[t] = "stop_commit" \/ send = "idle",
             held'["frame"] = held["frame"], held'["notifier"] = held["notifier"],
             held'["callback"] = held["callback"] \/ held'["callback"] # "sender",
             \A o \in Observers : held'[o] # None =>
               \E t \in Threads : held'[o] = t /\ observer'[t] = o /\ pc'[t] \in {"join", "stop_join"}
      PROVE  Sending'
  BY <1>1 DEF Sending
<1>2. ASSUME held' = held,
             \A t \in Threads : pc[t] \in {"join", "stop_join"} =>
                                  pc'[t] = pc[t] /\ observer'[t] = observer[t]
      PROVE  \A o \in Observers : held'[o] # None =>
               \E t \in Threads : held'[o] = t /\ observer'[t] = o /\ pc'[t] \in {"join", "stop_join"}
  BY <1>2 DEF Sending
<1>3. CASE UNCHANGED vars
  BY <1>3 DEF vars, step_vars, stream_vars, local_vars, send_vars, Sending
<1>4. ASSUME NEW o \in Observers, WorkerStep(o) \/ Callback(o, "get")
      PROVE  Sending'
  BY <1>0, <1>4, WorkerAside DEF Aside, Sending
<1>5. ASSUME NEW t \in Threads,
             \/ CallRegister(t) \/ RegisterFailed(t) \/ CallStart(t) \/ CallStop(t)
             \/ Unregister(t) \/ RemoveObserver(t) \/ StartFrameObserver(t) \/ StopPort(t)
      PROVE  Sending'
  <2>1. /\ UNCHANGED <<state, send, held>>
        /\ pc'[t] = "stop_commit" => send = "idle"
        /\ pc[t] \notin {"join", "stop_join"}
        /\ \A u \in Threads \ {t} : pc'[u] = pc[u] /\ observer'[u] = observer[u]
    BY <1>0, <1>5 DEF CallRegister, RegisterFailed, CallStart, CallStop, CallStateFunction,
                      Unregister, RemoveObserver, StartFrameObserver, StopPort, Call, Go, Typed, stream_vars,
                      local_vars, send_vars
  <2> QED BY <1>1, <1>2, <2>1
<1>6. ASSUME NEW t \in Threads, StartPort(t) \/ StopCommit(t)
      PROVE  Sending'
  <2>1. /\ UNCHANGED <<send, held, observer>>
        /\ pc[t] \in {"start_port", "stop_commit"} /\ pc'[t] # "stop_commit"
        /\ \A u \in Threads \ {t} : pc'[u] = pc[u]
    BY <1>0, <1>6 DEF StartPort, StopCommit, Go, Typed, local_vars, send_vars
  <2>2. send = "idle"
    BY <1>0, <2>1 DEF Sending, StateKnown, Typed
  <2> QED BY <1>1, <1>2, <2>1, <2>2
<1>7. ASSUME NEW t \in Threads, AddObserver(t) \/ \E o \in Observers : Register(t, o)
      PROVE  Sending'
  <2>1. /\ UNCHANGED <<state, send>>
        /\ pc[t] \in {"register", "add"} /\ pc'[t] # "stop_commit"
        /\ held'["callback"] # "sender"
        /\ \A m \in Mutexes \ {"callback"} : held'[m] = held[m]
        /\ \A u \in Threads \ {t} : pc'[u] = pc[u] /\ observer'[u] = observer[u]
    BY <1>0, <1>7, Names DEF AddObserver, Register, Go, Typed, Mutexes, stream_vars, send_vars
  <2>2. ASSUME NEW o \in Observers, held'[o] # None
        PROVE  \E u \in Threads : held'[o] = u /\ observer'[u] = o /\ pc'[u] \in {"join", "stop_join"}
    <3>1. held'[o] = held[o]
      BY <2>1, Names DEF Mutexes
    <3>2. PICK u \in Threads : held[o] = u /\ observer[u] = o /\ pc[u] \in {"join", "stop_join"}
      BY <2>2, <3>1 DEF Sending
    <3>3. u # t
      BY <2>1, <3>2
    <3> QED BY <2>1, <3>1, <3>2, <3>3
  <2> QED BY <1>1, <2>1, <2>2, Names DEF Mutexes
<1>8. ASSUME NEW t \in Threads, StopObserver(t) \/ StopFrameObserver(t)
      PROVE  Sending'
  <2>1. /\ UNCHANGED <<state, send>>
        /\ pc[t] \in {"stop", "stop_observer"} /\ pc'[t] # "stop_commit"
        /\ \A u \in Threads \ {t} : pc'[u] = pc[u] /\ observer'[u] = observer[u]
    BY <1>0, <1>8 DEF StopObserver, StopFrameObserver, Go, Typed, stream_vars, local_vars,
                      send_vars
  <2>2. CASE held' = held
    <3>1. \A u \in Threads : pc[u] \in {"join", "stop_join"} => u # t
      BY <2>1
    <3> QED BY <1>1, <1>2, <2>1, <2>2, <3>1
  <2>3. ASSUME held' # held
        PROVE  Sending'
    <3>1. PICK o \in Observers : /\ held'[o] = t
                                 /\ observer'[t] = o /\ pc'[t] \in {"join", "stop_join"}
                                 /\ \A m \in Mutexes \ {o, "callback"} : held'[m] = held[m]
                                 /\ held'["callback"] \in {t, held["callback"]}
      <4>1. CASE StopObserver(t)
        <5>1. observer[t] \in Observers
          BY <1>0, <4>1 DEF StopObserver, RemovedPlaced, Removing, Typed
        <5> QED BY <1>0, <4>1, <5>1, Names DEF StopObserver, Go, Typed, Mutexes, local_vars
      <4>2. CASE StopFrameObserver(t)
        <5>1. frame_observer # None
          BY <2>3, <4>2 DEF StopFrameObserver
        <5>2. frame_observer \in Observers
          BY <1>0, <5>1 DEF Typed
        <5> QED BY <1>0, <4>2, <5>1, <5>2, Names DEF StopFrameObserver, Go, Typed, Mutexes
      <4> QED BY <1>8, <4>1, <4>2
    <3>2. ASSUME NEW p \in Observers, held'[p] # None
          PROVE  \E u \in Threads : held'[p] = u /\ observer'[u] = p /\ pc'[u] \in {"join", "stop_join"}
      <4>1. CASE p = o
        BY <3>1, <4>1
      <4>2. CASE p # o
        <5>1. held'[p] = held[p]
          BY <3>1, <4>2, Names DEF Mutexes
        <5>2. PICK u \in Threads : held[p] = u /\ observer[u] = p /\ pc[u] \in {"join", "stop_join"}
          BY <3>2, <5>1 DEF Sending
        <5>3. u # t
          BY <2>1, <5>2
        <5> QED BY <2>1, <5>1, <5>2, <5>3
      <4> QED BY <4>1, <4>2
    <3>3. held'["frame"] = held["frame"] /\ held'["notifier"] = held["notifier"]
      BY <3>1, Names DEF Mutexes
    <3>4. held'["callback"] = held["callback"] \/ held'["callback"] # "sender"
      BY <3>1, Names
    <3> QED BY <1>1, <2>1, <3>2, <3>3, <3>4
  <2> QED BY <2>2, <2>3
<1>9. ASSUME NEW t \in Threads, DeleteObserver(t) \/ StopDone(t)
      PROVE  Sending'
  <2>1. observer[t] \in Observers
    BY <1>0, <1>9 DEF DeleteObserver, StopDone, RemovedPlaced, StopPlaced, Removing, Typed
  <2>2. /\ UNCHANGED <<state, send>> /\ pc'[t] # "stop_commit"
        /\ held'[observer[t]] = None
        /\ held'["callback"] \in {None, held["callback"]}
        /\ \A m \in Mutexes \ {observer[t], "callback"} : held'[m] = held[m]
        /\ \A u \in Threads \ {t} : pc'[u] = pc[u] /\ observer'[u] = observer[u]
    BY <1>0, <1>9, <2>1, Names DEF DeleteObserver, StopDone, Go, Typed, Mutexes, stream_vars,
                                   send_vars
  <2>3. ASSUME NEW o \in Observers, held'[o] # None
        PROVE  \E u \in Threads : held'[o] = u /\ observer'[u] = o /\ pc'[u] \in {"join", "stop_join"}
    <3>1. o # observer[t] /\ held'[o] = held[o]
      BY <2>2, <2>3, Names DEF Mutexes
    <3>2. PICK u \in Threads : held[o] = u /\ observer[u] = o /\ pc[u] \in {"join", "stop_join"}
      BY <2>3, <3>1 DEF Sending
    <3>3. u # t
      BY <3>1, <3>2
    <3> QED BY <2>2, <3>1, <3>2, <3>3
  <2>4. held'["frame"] = held["frame"] /\ held'["notifier"] = held["notifier"]
    BY <2>1, <2>2, Names DEF Mutexes
  <2>5. held'["callback"] = held["callback"] \/ held'["callback"] # "sender"
    BY <2>2, Names
  <2> QED BY <1>1, <2>2, <2>3, <2>4, <2>5
<1>10. ASSUME SendFrames \/ SenderStep
       PROVE  Sending'
  <2>1. UNCHANGED <<state, pc, observer>>
    BY <1>0, <1>10, SenderAside DEF Aside
  <2>2. ASSUME \A o \in Observers : held'[o] = held[o] \/ held'[o] = None
        PROVE  \A o \in Observers : held'[o] # None =>
                 \E t \in Threads : held'[o] = t /\ observer'[t] = o
                                   /\ pc'[t] \in {"join", "stop_join"}
    BY <2>1, <2>2 DEF Sending
  <2>3. CASE SendDone
    <3>1. /\ send' = "idle"
          /\ \A m \in {"frame", "notifier", "callback"} : held'[m] # "sender"
          /\ \A m \in {"frame", "notifier", "callback"} : held'[m] = None \/ held'[m] = held[m]
          /\ \A o \in Observers : held'[o] = held[o] \/ held'[o] = None
      BY <2>3, Names DEF SendDone, Mutexes
    <3>2. held'["frame"] = None /\ held'["notifier"] = None
      BY <3>1 DEF Sending
    <3> QED BY <2>1, <2>2, <3>1, <3>2, Names DEF Sending
  <2>4. CASE /\ held' = held /\ send' # "idle"
             /\ send' = send \/ (send = "arrived" /\ send' = "callback")
    <3>1. held["notifier"] = "sender" => send' = "notify"
      BY <2>4 DEF Sending
    <3>2. held["callback"] = "sender" => send' \in {"notifier", "notify"}
      BY <2>4 DEF Sending
    <3>3. send # "idle"
      BY <2>4
    <3> QED BY <2>1, <2>2, <2>4, <3>1, <3>2, <3>3 DEF Sending
  <2>5. CASE SendFrames
    <3>1. /\ send = "idle" /\ IsSendableState /\ send' = "arrived" /\ held'["frame"] = "sender"
          /\ held'["notifier"] = held["notifier"] /\ held'["callback"] = held["callback"]
          /\ \A o \in Observers : held'[o] = held[o]
      BY <1>0, <2>5, Names DEF SendFrames, Typed, Mutexes
    <3> QED BY <2>1, <2>2, <3>1 DEF Sending, IsSendableState
  <2>6. CASE LockCallback
    <3>1. /\ send = "callback" /\ send' = "notifier" /\ held'["callback"] = "sender"
          /\ held'["notifier"] = held["notifier"] /\ held'["frame"] = held["frame"]
          /\ \A o \in Observers : held'[o] = held[o]
      BY <1>0, <2>6, Names DEF LockCallback, SendLock, Typed, Mutexes
    <3> QED BY <2>1, <2>2, <3>1 DEF Sending
  <2>7. CASE LockNotifier
    <3>1. /\ send = "notifier" /\ send' = "notify" /\ held'["notifier"] = "sender"
          /\ held'["callback"] = held["callback"] /\ held'["frame"] = held["frame"]
          /\ \A o \in Observers : held'[o] = held[o]
      BY <1>0, <2>7, Names DEF LockNotifier, SendLock, Typed, Mutexes
    <3> QED BY <2>1, <2>2, <3>1 DEF Sending
  <2>8. CASE FrameArrived \/ NotifyObserver
    BY <2>3, <2>4, <2>8 DEF FrameArrived, NotifyObserver
  <2>9. CASE NotifyDone
    BY <2>3, <2>9 DEF NotifyDone
  <2> QED BY <1>10, <2>5, <2>6, <2>7, <2>8, <2>9 DEF SenderStep
<1> QED
  BY <1>3, <1>4, <1>5, <1>6, <1>7, <1>8, <1>9, <1>10 DEF Next, Step, ThreadStep, Finished

---------------------------------------------------------------------------
LEMMA InitCarefulInv == Init => CarefulInv
<1> SUFFICES ASSUME Init
             PROVE  CarefulInv
  OBVIOUS
<1>1. Placed /\ Apart /\ StateKnown /\ WorkerRests /\ NewWorkerRests
  BY DEF Init, Placed, Apart, Busy, StateKnown, WorkerRests, NewWorkerRests, Replacing, Removing,
         StateFunction, Registering
<1>2. Sending
  BY Names DEF Init, Sending, Mutexes
<1> QED BY <1>1, <1>2, InitCallbackInv DEF CarefulInv

LEMMA NextCarefulInv ==
  ASSUME careful, CarefulInv, [Next]_vars
  PROVE  CarefulInv'
BY NextCallbackInv, PlacedStep, ApartStep, StateKnownStep, NewWorkerRestsStep, WorkerRestsStep,
   SendingStep DEF CarefulInv

\* A careful application stays careful.
LEMMA NextCareful ==
  (careful => CarefulInv) /\ [Next]_vars => (careful => CarefulInv)'
<1>1. [Next]_vars => careful' = careful
  BY DEF Next, Finished, vars
<1> QED BY <1>1, NextCarefulInv

\* The invariant of a careful application holds in every state.
THEOREM SpecCarefulInv == Spec => [](careful => CarefulInv)
<1>1. Init => (careful => CarefulInv)
  BY InitCarefulInv
<1> QED BY <1>1, NextCareful, PTL DEF Spec

\* When Stop has returned to a careful application no callback is running, but
\* one that UnregisterFrameCallback still waits for (StopFrameObserver).
THEOREM CallbackQuiet == Spec => []QuietWhenStopped
<1>1. (careful => CarefulInv) => QuietWhenStopped
  <2> SUFFICES ASSUME CarefulInv, state = "Ready", Settled, NEW o \in Observers,
                      worker[o] # "none"
               PROVE  \E t \in Threads : pc[t] \in Removing /\ observer[t] = o
    BY DEF QuietWhenStopped, Removing
  <2>1. life[o] = "live"
    BY DEF CarefulInv, CallbackInv, Lives
  <2>2. o # frame_observer
    BY Names DEF CarefulInv, WorkerRests, Settled, StateFunction
  <2>3. \A t \in Threads : next_observer[t] # o
    <3>1. ASSUME NEW t \in Threads, next_observer[t] = o
          PROVE  FALSE
      <4>1. pc[t] \in Removing \cup {"add"} /\ (pc[t] = "add" => frame_observer = o)
        BY <3>1, Names DEF CarefulInv, CallbackInv, NextPlaced
      <4>2. Replacing(t)
        BY <2>2, <3>1, <4>1, Names DEF Replacing
      <4> QED BY <3>1, <4>2 DEF CarefulInv, NewWorkerRests
    <3> QED BY <3>1
  <2> QED BY <2>1, <2>2, <2>3 DEF CarefulInv, Placed
<1> QED BY <1>1, SpecCarefulInv, PTL

\* A process waits only for processes of a lower rank: the callers for the
\* holder of mutex_callback_frame_, the joins for a worker, that for the
\* component, and the component for a thread which adds an observer.
Rank(p) ==
  IF p = "sender" THEN (IF send = "callback" THEN 2 ELSE 0)
  ELSE IF p \in Observers THEN 3
  ELSE IF pc[p] \in {"join", "stop_join", "stop_port", "stop_commit"} THEN 4
  ELSE IF pc[p] \in {"register", "start_observer", "stop_observer"} THEN 5
  ELSE 1

LEMMA WaitsDown ==
  ASSUME CarefulInv, NEW p \in Threads \cup Observers \cup {"sender"}, NEW q \in WaitsFor(p)
  PROVE  Rank(q) < Rank(p)
<1>0. Typed /\ NextPlaced /\ StopPlaced /\ RemovedPlaced /\ CallbackMutex /\ Enabled /\ Sending
      /\ StateKnown
  BY DEF CarefulInv, CallbackInv
\* who may hold what
<1>1. ASSUME NEW o \in Observers, q \in Holder(o)
      PROVE  /\ q \in Threads /\ observer[q] = o /\ pc[q] \in {"join", "stop_join"}
             /\ Rank(q) = 4
  <2>1. q \in Threads /\ observer[q] = o /\ pc[q] \in {"join", "stop_join"}
    BY <1>0, <1>1 DEF Holder, Sending
  <2> QED BY <2>1, Names DEF Rank
<1>2. ASSUME q \in Holder("callback")
      PROVE  \/ q = "sender" /\ send \in {"notifier", "notify"}
             \/ q \in Threads /\ HoldsCallback(q)
  BY <1>0, <1>2, Names DEF Holder, Sending, CallbackMutex, Typed, Mutexes
<1>3. ASSUME q \in Holder("notifier")
      PROVE  q = "sender" /\ send = "notify" /\ Rank(q) = 0
  BY <1>0, <1>3 DEF Holder, Sending, Rank
<1>4. ASSUME q \in Holder("frame")
      PROVE  q = "sender" /\ Rank(q) < 3
  BY <1>0, <1>4 DEF Holder, Sending, Rank
<1>5. CASE p = "sender"
  <2>0. q \in SenderWaitsFor
    BY <1>5, Names DEF WaitsFor
  <2>1. CASE send = "callback" /\ q \in Holder("callback")
    <3>1. q \in Threads /\ HoldsCallback(q) /\ state = "Running"
      BY <2>1, <1>0, <1>2 DEF Sending
    <3>2. pc[q] = "add"
      BY <3>1, <1>0 DEF HoldsCallback, StateKnown
    <3> QED BY <2>1, <3>1, <3>2, <1>5, Names DEF Rank
  <2>2. CASE send = "notifier" /\ q \in Holder("notifier")
    BY <2>2, <1>3
  <2>3. CASE /\ send = "notify" /\ position <= Len(observer_list)
             /\ observer_list[position].enabled /\ q \in Holder(observer_list[position].observer)
    <3> DEFINE o == observer_list[position].observer
    <3>1. position \in DOMAIN observer_list
      BY <1>0, <2>3 DEF Typed
    <3>2. o \in Observers
      <4> DEFINE E == [observer : Observers, enabled : BOOLEAN]
      <4>1. observer_list \in Seq(E)
        BY <1>0 DEF Typed
      <4>2. \A e \in E : e.observer \in Observers
        OBVIOUS
      <4> HIDE DEF E
      <4>3. observer_list[position] \in E
        BY <3>1, <4>1
      <4> QED BY <4>2, <4>3
    <3>3. o = frame_observer \/ \E t \in Threads : pc[t] = "remove" /\ observer[t] = o
      BY <1>0, <2>3, <3>1 DEF Enabled
    <3>4. q \in Threads /\ observer[q] = o /\ pc[q] \in {"join", "stop_join"}
      BY <1>1, <2>3, <3>2
    <3> HIDE DEF o
    <3>5. pc[q] = "join"
      BY <1>0, <2>3, <3>4 DEF Sending, StateKnown
    <3>6. \A t \in Threads : pc[t] = "remove" => observer[t] # o
      BY <1>0, <3>4, <3>5 DEF RemovedPlaced, Removing
    <3> QED BY <1>0, <3>3, <3>4, <3>5, <3>6 DEF RemovedPlaced, Removing
  <2>4. CASE send \in {"idle", "arrived"}
    BY <2>0, <2>4 DEF SenderWaitsFor
  <2>5. CASE send = "callback"
    BY <2>0, <2>1, <2>5 DEF SenderWaitsFor
  <2>6. CASE send = "notifier"
    BY <2>0, <2>2, <2>6 DEF SenderWaitsFor
  <2>7. CASE send = "notify"
    BY <2>0, <2>3, <2>7 DEF SenderWaitsFor
  <2> QED BY <1>0, <2>4, <2>5, <2>6, <2>7 DEF Typed
<1>6. CASE p \in Observers
  <2>1. q \in Holder("frame")
    BY <1>6, Names DEF WaitsFor, WorkerWaitsFor
  <2>2. Rank(p) = 3
    BY <1>6, Names DEF Rank
  <2> QED BY <2>1, <2>2, <1>4
<1>7. CASE p \in Threads
  <2>0. p # "sender" /\ p \notin Observers /\ q \in ThreadWaitsFor(p)
    BY <1>7, Names DEF WaitsFor
  <2>1. CASE pc[p] \in {"register", "start_observer", "stop_observer"}
    <3>1. Rank(p) = 5
      BY <2>0, <2>1 DEF Rank
    <3>2. CASE q \in Holder("callback")
      <4>1. CASE q = "sender"
        BY <3>1, <4>1 DEF Rank
      <4>2. CASE q \in Threads /\ HoldsCallback(q)
        <5>1. pc[q] \in Removing \cup {"add", "stop_join"}
          BY <4>2 DEF HoldsCallback, Replacing
        <5> QED BY <3>1, <4>2, <5>1, Names DEF Rank, Removing
      <4> QED BY <3>2, <4>1, <4>2, <1>2
    <3>3. CASE frame_observer # None /\ q \in Holder(frame_observer)
      <4>1. Rank(q) = 4
        BY <1>0, <1>1, <3>3 DEF Typed
      <4> QED BY <3>1, <4>1
    <3> QED BY <2>0, <2>1, <3>2, <3>3, <1>7 DEF ThreadWaitsFor
  <2>2. CASE pc[p] \in {"add", "remove"}
    <3>1. Rank(p) = 1
      BY <2>0, <2>2 DEF Rank
    <3>2. q \in Holder("notifier")
      BY <2>0, <2>2, <1>7 DEF ThreadWaitsFor
    <3> QED BY <3>1, <3>2, <1>3
  <2>3. CASE pc[p] = "stop"
    <3>1. q \in Holder(observer[p])
      BY <2>0, <2>3, <1>7 DEF ThreadWaitsFor
    <3>2. observer[p] \in Observers /\ observer[p] # frame_observer
      BY <1>0, <1>7, <2>3 DEF RemovedPlaced, Removing, Typed
    <3>3. q \in Threads /\ observer[q] = observer[p] /\ pc[q] \in {"join", "stop_join"}
      BY <1>1, <3>1, <3>2
    <3>4. pc[q] = "join" /\ q # p
      BY <1>0, <2>3, <3>2, <3>3 DEF StopPlaced
    <3> QED BY <1>0, <1>7, <2>3, <3>3, <3>4 DEF RemovedPlaced, Removing
  <2>4. CASE pc[p] \in {"join", "stop_join"}
    <3>1. q = observer[p] /\ q \in Observers
      BY <2>0, <2>4, <1>0, <1>7 DEF ThreadWaitsFor, RemovedPlaced, StopPlaced, Removing, Typed
    <3>2. Rank(q) = 3 /\ Rank(p) = 4
      BY <2>0, <2>4, <3>1, Names DEF Rank
    <3> QED BY <3>2
  <2>5. CASE pc[p] = "stop_port"
    <3>1. q = "sender"
      BY <2>0, <2>5, <1>7 DEF ThreadWaitsFor
    <3> QED BY <2>0, <2>5, <3>1 DEF Rank
  <2>6. CASE pc[p] = "stop_commit"
    <3>1. q \in Holder("frame") /\ Rank(p) = 4
      BY <2>0, <2>6, <1>7 DEF ThreadWaitsFor, Rank
    <3> QED BY <3>1, <1>4 DEF Rank
  <2>7. CASE pc[p] \in {"idle", "start_port"}
    BY <2>0, <2>7, <1>7 DEF ThreadWaitsFor
  <2> QED BY <1>0, <1>7, <2>1, <2>2, <2>3, <2>4, <2>5, <2>6, <2>7 DEF Typed, Labels
<1> QED BY <1>5, <1>6, <1>7

\* No thread of a careful application, worker and component thread wait for
\* one another in a circle, through the mutexes or the join of a worker.
THEOREM CallbackNoCircularWait == Spec => []NoCircularWait
<1>1. (careful => CarefulInv) => NoCircularWait
  <2> SUFFICES ASSUME CarefulInv, NEW S \in SUBSET (Threads \cup Observers \cup {"sender"}),
                      S # {}
               PROVE  \E p \in S : WaitsFor(p) \cap S = {}
    BY DEF NoCircularWait, CircularWait
  <2>1. \A p \in S : Rank(p) \in 0 .. 5
    BY DEF Rank
  <2>2. PICK p \in S : \A q \in S : Rank(p) <= Rank(q)
    <3> HIDE DEF Rank
    <3>1. CASE \E p \in S : Rank(p) = 0
      BY <2>1, <3>1
    <3>2. CASE (\E p \in S : Rank(p) = 1) /\ \A p \in S : Rank(p) > 0
      BY <2>1, <3>2
    <3>3. CASE (\E p \in S : Rank(p) = 2) /\ \A p \in S : Rank(p) > 1
      BY <2>1, <3>3
    <3>4. CASE (\E p \in S : Rank(p) = 3) /\ \A p \in S : Rank(p) > 2
      BY <2>1, <3>4
    <3>5. CASE (\E p \in S : Rank(p) = 4) /\ \A p \in S : Rank(p) > 3
      BY <2>1, <3>5
    <3>6. CASE \A p \in S : Rank(p) > 4
      BY <2>1, <3>6
    <3> QED BY <2>1, <3>1, <3>2, <3>3, <3>4, <3>5, <3>6
  <2>3. ASSUME NEW q \in WaitsFor(p) \cap S
        PROVE  FALSE
    <3>1. Rank(q) < Rank(p) /\ Rank(p) <= Rank(q)
      BY <2>2, <2>3, WaitsDown
    <3> QED BY <2>1, <2>2, <2>3, <3>1
  <2> QED BY <2>2, <2>3
<1> QED BY <1>1, SpecCarefulInv, PTL
=============================================================================
