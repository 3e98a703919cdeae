----------------------------- MODULE StreamCore -----------------------------
(***************************************************************************)
(* The life of one StreamCore: Open (Init), Start, Stop and Close against  *)
(* GetFrame, ReleaseFrame, LockProperty and the component's SendFrames,    *)
(* called from any number of threads and serialized only by the stream's   *)
(* StreamFunctionLockManager and mutex_frame_.                             *)
(*                                                                         *)
(* A step is a critical section, a call into the component (external, may  *)
(* fail where FailingCalls says so) or a test of the local state.  The     *)
(* waits of the lock manager are guards: every change that can end one is  *)
(* followed by a broadcast of its condition variable in the same section.  *)
(* The wait of GetFrame is explicit, because cond_frame_ is not signalled  *)
(* by every change of the state it depends on.                             *)
(***************************************************************************)
EXTENDS StreamFunctionLock

CONSTANTS
  FailingCalls,   \* the external calls that may return an error
  MaxCalls,       \* bound: calls of public functions
  MaxFrames       \* bound: frames sent

ExternalCalls ==
  {"OpenComponent", "OpenPort", "OpenExtension", "StartPort", "StopPort",
   "CloseExtension", "ClosePort", "CloseComponent"}

ASSUME FailingCallsAssumption == FailingCalls \subseteq ExternalCalls
ASSUME BoundsAssumption == MaxCalls \in Nat /\ MaxFrames \in Nat

VARIABLES
  pc,             \* pc[t]: where thread t is in the function it called
  call,           \* call[t]: that function
  adapter,        \* adapter_ is set and its component is open
  frame_manager,  \* frame_manager_: none, usable, or after its Exit
  port_opened,    \* the stream is in the port's streams_opened_
  port_started,   \* the stream is in the port's streams_started_
  incoming,       \* number of arrived frames
  waiting,        \* threads waiting on cond_frame_
  published,      \* OpenStream handed the stream to the application
  half_closed,    \* CloseComponent failed after the port was closed
  calls,          \* number of calls so far
  sending,        \* where the component is in SendFrames, with the mutexes
                  \* mutex_streams_started_ of the port and mutex_frame_
  sent            \* number of frames sent

resource_vars == <<adapter, frame_manager, port_opened, port_started, half_closed>>
frame_vars    == <<incoming, waiting, sending, sent>>

vars == <<lock_vars, pc, call, resource_vars, frame_vars, published, calls>>

StateFunctions == {"Open", "Start", "Stop", "Close"}
Functions == StateFunctions \cup {"GetFrame", "ReleaseFrame", "LockProperty"}

FunctionType(f) ==
  CASE f \in StateFunctions -> State
    [] f = "ReleaseFrame"   -> Component
    [] OTHER                -> Internal

Labels ==
  {"idle", "locking", "return", "init", "open_begin", "open_component",
   "open_port", "open_extension", "start_begin", "start_port", "start_commit",
   "stop_begin", "stop_port", "stop_commit", "stop_done", "close_begin",
   "close_extension", "close_begin_init", "close_wait_component",
   "close_frames", "close_port", "close_destroy", "close_wait_internal",
   "close_component", "get_loop", "get_wait", "release_check", "release_frame",
   "property_check", "property_use"}

\* The function list, the resources and the place every thread has reached.
TypeOK ==
  /\ LockTypeOK
  /\ pc \in [Threads -> Labels]
  /\ call \in [Threads -> Functions]
  /\ adapter \in BOOLEAN
  /\ frame_manager \in {"none", "initialized", "exited"}
  /\ port_opened \in BOOLEAN
  /\ port_started \in BOOLEAN
  /\ incoming \in Nat
  /\ waiting \subseteq Threads
  /\ published \in BOOLEAN
  /\ half_closed \in BOOLEAN
  /\ calls \in Nat
  /\ sending \in {"idle", "set", "notify"}
  /\ sent \in Nat

Init ==
  /\ LockInit
  /\ pc = [t \in Threads |-> "idle"]
  /\ call = [t \in Threads |-> "Open"]
  /\ adapter = FALSE
  /\ frame_manager = "none"
  /\ port_opened = FALSE
  /\ port_started = FALSE
  /\ incoming = 0
  /\ waiting = {}
  /\ published = FALSE
  /\ half_closed = FALSE
  /\ calls = 0
  /\ sending = "idle"
  /\ sent = 0

---------------------------------------------------------------------------
Goto(t, label) == pc' = [pc EXCEPT ![t] = label]

\* An external call either succeeds or, if it may, fails.
Outcomes(c) == IF c \in FailingCalls THEN {TRUE, FALSE} ELSE {TRUE}

NoStateChange == UNCHANGED <<current_state, dest_state>>

\* mutex_frame_ of the stream and mutex_streams_started_ of the port are free.
NotSending == sending = "idle"

(***************************************************************************)
(* StreamFunctionLock: the constructor and the destructor.  The core calls *)
(* Init and Open once, before any other thread knows the stream (one call  *)
(* here); a stream whose Open failed is handed to nobody.  Once it         *)
(* is open every function may be called at any time, also while closing.   *)
(***************************************************************************)
MayCall(f) == IF f = "Open" THEN calls = 0 ELSE published

CallState(t, f) ==
  /\ pc[t] = "idle"
  /\ calls < MaxCalls
  /\ f \in StateFunctions /\ MayCall(f)
  /\ Insert(t, State)
  /\ Goto(t, "locking")
  /\ call' = [call EXCEPT ![t] = f]
  /\ calls' = calls + 1
  /\ NoStateChange
  /\ UNCHANGED <<resource_vars, frame_vars, published>>

FirstLabel(f) ==
  CASE f = "Open"         -> "init"
    [] f = "Start"        -> "start_begin"
    [] f = "Stop"         -> "stop_begin"
    [] f = "Close"        -> "close_begin"
    [] f = "GetFrame"     -> "get_loop"
    [] f = "ReleaseFrame" -> "release_check"
    [] f = "LockProperty" -> "property_check"

GrantState(t) ==
  /\ pc[t] = "locking"
  /\ LockForStateGranted(t)
  /\ Goto(t, FirstLabel(call[t]))
  /\ UNCHANGED <<lock_vars, call, resource_vars, frame_vars, published, calls>>

\* A refused function goes straight to its return, with its entry in the list.
CallOther(t, f) ==
  /\ pc[t] = "idle"
  /\ calls < MaxCalls
  /\ f \in Functions \ StateFunctions /\ MayCall(f)
  /\ Insert(t, FunctionType(f))
  /\ Goto(t, IF LockForOtherGranted(t) THEN FirstLabel(f) ELSE "return")
  /\ call' = [call EXCEPT ![t] = f]
  /\ calls' = calls + 1
  /\ NoStateChange
  /\ UNCHANGED <<resource_vars, frame_vars, published>>

Return(t) ==
  /\ pc[t] = "return"
  /\ Unlock(t)
  /\ Goto(t, "idle")
  /\ NoStateChange
  /\ UNCHANGED <<call, resource_vars, frame_vars, published, calls>>

---------------------------------------------------------------------------
\* StreamCore::Init
InitStream(t) ==
  /\ pc[t] = "init"
  /\ CanBegin(Init_)
  /\ current_state' = Init_
  /\ dest_state' = Init_
  /\ Goto(t, "open_begin")
  /\ UNCHANGED <<running_functions, call, resource_vars, frame_vars, published, calls>>

\* The BeginLocalStateChange at the top of Open, Start and Stop.
BeginOrReturn(t, label, state, then) ==
  /\ pc[t] = label
  /\ IF CanBegin(state)
     THEN BeginStateChange(state) /\ Goto(t, then)
     ELSE NoStateChange /\ Goto(t, "return")
  /\ UNCHANGED <<running_functions, call, resource_vars, frame_vars, published, calls>>

Begin(t) ==
  \/ BeginOrReturn(t, "open_begin", Ready, "open_component")
  \/ BeginOrReturn(t, "start_begin", Running, "start_port")
  \/ BeginOrReturn(t, "stop_begin", Ready, "stop_port")

\* Open: OpenComponent, then CreateFrameManager.
OpenComponent(t) ==
  /\ pc[t] = "open_component"
  /\ \E ok \in Outcomes("OpenComponent") :
       \/ /\ ok
          /\ adapter' = TRUE
          /\ frame_manager' = "initialized"
          /\ Goto(t, "open_port")
          /\ NoStateChange
       \/ /\ ~ok
          /\ CancelStateChange
          /\ Goto(t, "return")
          /\ UNCHANGED <<adapter, frame_manager>>
  /\ UNCHANGED <<running_functions, call, port_opened, port_started, half_closed,
                 frame_vars, published, calls>>

\* Open: the port; a failure destroys the frame manager and the component.
OpenPort(t) ==
  /\ pc[t] = "open_port"
  /\ \E ok \in Outcomes("OpenPort") :
       \/ /\ ok
          /\ port_opened' = TRUE
          /\ CommitStateChange
          /\ Goto(t, "open_extension")
          /\ UNCHANGED <<adapter, frame_manager>>
       \/ /\ ~ok
          /\ adapter' = FALSE
          /\ frame_manager' = "none"
          /\ CancelStateChange
          /\ Goto(t, "return")
          /\ UNCHANGED port_opened
  /\ UNCHANGED <<running_functions, call, port_started, half_closed, frame_vars,
                 published, calls>>

\* Open: OpenStreamExtension; a failure closes the stream again.
OpenExtension(t) ==
  /\ pc[t] = "open_extension"
  /\ \E ok \in Outcomes("OpenExtension") :
       /\ published' = ok
       /\ Goto(t, IF ok THEN "return" ELSE "close_begin")
  /\ UNCHANGED <<lock_vars, call, resource_vars, frame_vars, calls>>

---------------------------------------------------------------------------
\* Start: the port adds the stream to the started ones.
StartPort(t) ==
  /\ pc[t] = "start_port"
  /\ NotSending
  /\ \E ok \in (IF port_opened THEN Outcomes("StartPort") ELSE {FALSE}) :
       \/ ok /\ port_started' = TRUE /\ Goto(t, "start_commit") /\ NoStateChange
       \/ ~ok /\ CancelStateChange /\ Goto(t, "return") /\ UNCHANGED port_started
  /\ UNCHANGED <<running_functions, call, adapter, frame_manager, port_opened,
                 half_closed, frame_vars, published, calls>>

\* The last CommitLocalStateChange of Start and of Stop.
Commit(t) ==
  /\ pc[t] \in {"start_commit", "stop_done"}
  /\ CommitStateChange
  /\ Goto(t, "return")
  /\ UNCHANGED <<running_functions, call, resource_vars, frame_vars, published, calls>>

\* Mutant: the arrived frames stay in the queue of the stream.
StopPortKeepingFrames(t) ==
  /\ pc[t] = "stop_port"
  /\ NotSending
  /\ \E ok \in Outcomes("StopPort") :
       \/ ok /\ port_started' = FALSE /\ Goto(t, "stop_commit") /\ NoStateChange
       \/ ~ok /\ CancelStateChange /\ Goto(t, "return") /\ UNCHANGED port_started
  /\ UNCHANGED <<running_functions, call, adapter, frame_manager, port_opened,
                 half_closed, frame_vars, published, calls>>

\* StopCore: the port clears the arrived frames and removes the stream from
\* the started ones; if the component's StopPort fails, it is put back.
StopPort(t) ==
  /\ pc[t] = "stop_port"
  /\ NotSending
  /\ incoming' = 0
  /\ \E ok \in Outcomes("StopPort") :
       \/ ok /\ port_started' = FALSE /\ Goto(t, "stop_commit") /\ NoStateChange
       \/ ~ok /\ CancelStateChange /\ Goto(t, "return") /\ UNCHANGED port_started
  /\ UNCHANGED <<running_functions, call, adapter, frame_manager, port_opened,
                 half_closed, waiting, sending, sent, published, calls>>

\* Mutant: the threads in GetFrame are not woken.
StopCommitQuietly(t) ==
  /\ pc[t] = "stop_commit"
  /\ NotSending
  /\ CommitStateChange
  /\ Goto(t, IF call[t] = "Stop" THEN "stop_done" ELSE "close_extension")
  /\ UNCHANGED <<running_functions, call, resource_vars, frame_vars, published, calls>>

\* StopCore, under mutex_frame_: commit, and wake the threads in GetFrame.
StopCommit(t) ==
  /\ pc[t] = "stop_commit"
  /\ NotSending
  /\ CommitStateChange
  /\ waiting' = {}
  /\ Goto(t, IF call[t] = "Stop" THEN "stop_done" ELSE "close_extension")
  /\ UNCHANGED <<running_functions, call, resource_vars, incoming, sending, sent,
                 published, calls>>

---------------------------------------------------------------------------
\* Close: a running stream is stopped first; only Ready can be closed.
CloseBegin(t) ==
  /\ pc[t] = "close_begin"
  /\ IF CanBegin(Ready)
     THEN BeginStateChange(Ready) /\ Goto(t, "stop_port")
     ELSE /\ NoStateChange
          /\ Goto(t, IF current_state = Ready THEN "close_extension" ELSE "return")
  /\ UNCHANGED <<running_functions, call, resource_vars, frame_vars, published, calls>>

CloseExtension(t) ==
  /\ pc[t] = "close_extension"
  /\ \E ok \in Outcomes("CloseExtension") :
       \/ ok /\ NoStateChange /\ Goto(t, "close_begin_init")
       \/ ~ok /\ CancelStateChange /\ Goto(t, "return")
  /\ UNCHANGED <<running_functions, call, resource_vars, frame_vars, published, calls>>

CloseBeginInit(t) ==
  /\ pc[t] = "close_begin_init"
  /\ IF CanBegin(Init_)
     THEN BeginStateChange(Init_) /\ Goto(t, "close_wait_component")
     ELSE NoStateChange /\ Goto(t, "return")
  /\ UNCHANGED <<running_functions, call, resource_vars, frame_vars, published, calls>>

\* Mutant: Close does not wait for the component functions in progress.
CloseWaitComponentSkipped(t) ==
  /\ pc[t] = "close_wait_component"
  /\ Goto(t, "close_frames")
  /\ UNCHANGED <<lock_vars, call, resource_vars, frame_vars, published, calls>>

CloseWaitComponent(t) ==
  /\ pc[t] = "close_wait_component"
  /\ AccessDone(t, Component)
  /\ Goto(t, "close_frames")
  /\ UNCHANGED <<lock_vars, call, resource_vars, frame_vars, published, calls>>

\* Close, under mutex_frame_: FrameManagerCore::Exit releases every frame.
CloseFrames(t) ==
  /\ pc[t] = "close_frames"
  /\ NotSending
  /\ frame_manager' = IF frame_manager = "none" THEN "none" ELSE "exited"
  /\ incoming' = 0
  /\ Goto(t, "close_port")
  /\ UNCHANGED <<lock_vars, call, adapter, port_opened, port_started, half_closed,
                 waiting, sending, sent, published, calls>>

\* Mutant: after a failure the frame manager stays as its Exit left it.
ClosePortWithoutInit(t) ==
  /\ pc[t] = "close_port"
  /\ \E ok \in (IF port_opened THEN Outcomes("ClosePort") ELSE {FALSE}) :
       \/ ok /\ port_opened' = FALSE /\ Goto(t, "close_destroy") /\ NoStateChange
       \/ ~ok /\ CancelStateChange /\ Goto(t, "return") /\ UNCHANGED port_opened
  /\ UNCHANGED <<running_functions, call, adapter, frame_manager, port_started,
                 half_closed, frame_vars, published, calls>>

\* Close: the port; a failure brings the frame manager back.
ClosePort(t) ==
  /\ pc[t] = "close_port"
  /\ \E ok \in (IF port_opened THEN Outcomes("ClosePort") ELSE {FALSE}) :
       \/ /\ ok
          /\ port_opened' = FALSE
          /\ Goto(t, "close_destroy")
          /\ NoStateChange
          /\ UNCHANGED frame_manager
       \/ /\ ~ok
          /\ frame_manager' = IF frame_manager = "none" THEN "none" ELSE "initialized"
          /\ CancelStateChange
          /\ Goto(t, "return")
          /\ UNCHANGED port_opened
  /\ UNCHANGED <<running_functions, call, adapter, port_started, half_closed,
                 frame_vars, published, calls>>

CloseDestroy(t) ==
  /\ pc[t] = "close_destroy"
  /\ NotSending
  /\ frame_manager' = "none"
  /\ Goto(t, "close_wait_internal")
  /\ UNCHANGED <<lock_vars, call, adapter, port_opened, port_started, half_closed,
                 frame_vars, published, calls>>

CloseWaitInternal(t) ==
  /\ pc[t] = "close_wait_internal"
  /\ AccessDone(t, Internal)
  /\ Goto(t, "close_component")
  /\ UNCHANGED <<lock_vars, call, resource_vars, frame_vars, published, calls>>

\* Close: the component; then Exit takes the stream to NotInit.
CloseComponent(t) ==
  /\ pc[t] = "close_component"
  /\ \E ok \in Outcomes("CloseComponent") :
       \/ /\ ok
          /\ adapter' = FALSE
          /\ current_state' = NotInit
          /\ dest_state' = NotInit
          /\ UNCHANGED half_closed
       \/ /\ ~ok
          /\ half_closed' = TRUE
          /\ CancelStateChange
          /\ UNCHANGED adapter
  /\ Goto(t, "return")
  /\ UNCHANGED <<running_functions, call, frame_manager, port_opened, port_started,
                 frame_vars, published, calls>>

---------------------------------------------------------------------------
\* GetFrame, one turn of its loop under mutex_frame_.
GetFrameLoop(t) ==
  /\ pc[t] = "get_loop"
  /\ NotSending
  /\ IF frame_manager = "none" \/ current_state # Running
     THEN Goto(t, "return") /\ UNCHANGED <<incoming, waiting>>
     ELSE IF incoming > 0
     THEN incoming' = incoming - 1 /\ Goto(t, "return") /\ UNCHANGED waiting
     ELSE waiting' = waiting \cup {t} /\ Goto(t, "get_wait") /\ UNCHANGED incoming
  /\ UNCHANGED <<lock_vars, call, resource_vars, sending, sent, published, calls>>

GetFrameWoken(t) ==
  /\ pc[t] = "get_wait"
  /\ t \notin waiting
  /\ Goto(t, "get_loop")
  /\ UNCHANGED <<lock_vars, call, resource_vars, frame_vars, published, calls>>

\* GetFrame with a time limit: OSTimedWaitCond gives up.
GetFrameTimeout(t) ==
  /\ pc[t] = "get_wait"
  /\ NotSending
  /\ waiting' = waiting \ {t}
  /\ Goto(t, "return")
  /\ UNCHANGED <<lock_vars, call, resource_vars, incoming, sending, sent,
                 published, calls>>

\* ReleaseFrame: the test of the local state, without a mutex.
ReleaseCheck(t) ==
  /\ pc[t] = "release_check"
  /\ Goto(t, IF current_state \in {Running, Ready} THEN "release_frame" ELSE "return")
  /\ UNCHANGED <<lock_vars, call, resource_vars, frame_vars, published, calls>>

\* ReleaseFrame: FrameManagerCore::Remove calls the port and the component.
ReleaseFrame(t) ==
  /\ pc[t] = "release_frame"
  /\ NotSending
  /\ Goto(t, "return")
  /\ UNCHANGED <<lock_vars, call, resource_vars, frame_vars, published, calls>>

\* LockProperty and the other functions of the core that use adapter_.
PropertyCheck(t) ==
  /\ pc[t] = "property_check"
  /\ Goto(t, IF current_state = NotInit THEN "return" ELSE "property_use")
  /\ UNCHANGED <<lock_vars, call, resource_vars, frame_vars, published, calls>>

PropertyUse(t) ==
  /\ pc[t] = "property_use"
  /\ Goto(t, "return")
  /\ UNCHANGED <<lock_vars, call, resource_vars, frame_vars, published, calls>>

(***************************************************************************)
(* The component sends a frame: ComponentPortCore::SendFrames for a        *)
(* started stream.  The stream is asked whether it is sendable before the  *)
(* frame is queued and, by FrameArrived, once more before the threads in   *)
(* GetFrame are woken; a state function may begin in between.              *)
(***************************************************************************)
SendBegin ==
  /\ sending = "idle"
  /\ sent < MaxFrames
  /\ port_started
  /\ sent' = sent + 1
  /\ sending' = IF IsSendableState /\ frame_manager # "none" THEN "set" ELSE "idle"
  /\ UNCHANGED <<lock_vars, pc, call, resource_vars, incoming, waiting, published, calls>>

\* FrameManagerCore::Set
SendSet ==
  /\ sending = "set"
  /\ IF frame_manager = "initialized"
     THEN incoming' = incoming + 1 /\ sending' = "notify"
     ELSE sending' = "idle" /\ UNCHANGED incoming
  /\ UNCHANGED <<lock_vars, pc, call, resource_vars, waiting, sent, published, calls>>

\* FrameArrived
SendNotify ==
  /\ sending = "notify"
  /\ sending' = "idle"
  /\ waiting' = IF IsSendableState THEN {} ELSE waiting
  /\ UNCHANGED <<lock_vars, pc, call, resource_vars, incoming, sent, published, calls>>

\* No call is left to be made: the bounded system has finished.
Finished ==
  /\ calls = MaxCalls \/ (calls > 0 /\ ~published)
  /\ \A t \in Threads : pc[t] \in {"idle", "get_wait"}
  /\ UNCHANGED vars

StateStep(t) ==
  \/ GrantState(t) \/ InitStream(t) \/ Begin(t)
  \/ OpenComponent(t) \/ OpenPort(t) \/ OpenExtension(t)
  \/ StartPort(t) \/ Commit(t) \/ StopPort(t) \/ StopCommit(t)
  \/ CloseBegin(t) \/ CloseExtension(t) \/ CloseBeginInit(t)
  \/ CloseWaitComponent(t) \/ CloseFrames(t) \/ ClosePort(t)
  \/ CloseDestroy(t) \/ CloseWaitInternal(t) \/ CloseComponent(t)

OtherStep(t) ==
  \/ GetFrameLoop(t) \/ GetFrameWoken(t)
  \/ ReleaseCheck(t) \/ ReleaseFrame(t)
  \/ PropertyCheck(t) \/ PropertyUse(t)

ThreadStep(t) == StateStep(t) \/ OtherStep(t) \/ Return(t)

Next ==
  \/ \E t \in Threads, f \in Functions : CallState(t, f) \/ CallOther(t, f)
  \/ \E t \in Threads : ThreadStep(t)
  \/ \E t \in Threads : GetFrameTimeout(t)
  \/ SendBegin \/ SendSet \/ SendNotify
  \/ Finished

Spec == Init /\ [][Next]_vars

\* A thread inside a function, and the component inside SendFrames, keep
\* running; nobody has to make a call, send a frame or set a time limit.
FairSpec ==
  /\ Spec
  /\ \A t \in Threads : WF_vars(ThreadStep(t))
  /\ WF_vars(SendSet \/ SendNotify)

---------------------------------------------------------------------------
\* The state functions a thread may be executing, past LockForState.
InStateFunction(t) ==
  pc[t] \notin {"idle", "locking"} /\ call[t] \in StateFunctions

(***************************************************************************)
(* State functions exclude one another: the threads past LockForState are  *)
(* at most one, although every function, refused ones too, is in the list. *)
(***************************************************************************)
StateFunctionsExclusive ==
  \A t, u \in Threads : InStateFunction(t) /\ InStateFunction(u) => t = u

(***************************************************************************)
(* ReleaseFrame tested the local state before it took mutex_frame_.  When  *)
(* it gets there the frame manager is gone, or it is usable and the port   *)
(* and the component it will call are still open: Close waited for it.     *)
(***************************************************************************)
ReleaseReachesComponent ==
  \A t \in Threads :
    pc[t] = "release_frame" /\ frame_manager # "none" =>
      frame_manager = "initialized" /\ port_opened /\ adapter

(***************************************************************************)
(* A core function that passed its state test, such as LockProperty, still *)
(* has its component when it calls it, with a Close under way or not.      *)
(***************************************************************************)
PropertyReachesComponent ==
  \A t \in Threads : pc[t] = "property_use" => adapter

(***************************************************************************)
(* Frames are taken only from a started port: a stream that accepts frames *)
(* is among the started streams of an open port with a frame manager.      *)
(***************************************************************************)
SendableOnlyIfStarted ==
  IsSendableState => port_started /\ port_opened /\ frame_manager = "initialized"

(***************************************************************************)
(* Between state functions the local state tells the truth about the port, *)
(* the frame manager and the component, whichever calls failed; the one    *)
(* exception is a Close whose CloseComponent failed.                       *)
(***************************************************************************)
StateMatchesResources ==
  (\A t \in Threads : ~InStateFunction(t)) /\ ~half_closed =>
    /\ current_state = dest_state
    /\ port_started <=> current_state = Running
    /\ port_opened <=> current_state \in {Ready, Running}
    /\ adapter <=> port_opened
    /\ frame_manager = IF port_opened THEN "initialized" ELSE "none"

(***************************************************************************)
(* No wakeup is lost: a thread waits in GetFrame only on a running stream, *)
(* and with frames there only while a state function is about to clear     *)
(* them (FrameArrived wakes nobody once the state is changing).            *)
(***************************************************************************)
NoLostWakeup ==
  waiting # {} =>
    /\ current_state = Running
    /\ incoming > 0 /\ NotSending => dest_state # Running

(***************************************************************************)
(* Every state function returns: Close gets past its two waits although    *)
(* other threads sit in GetFrame without a time limit.                     *)
(***************************************************************************)
StateFunctionsReturn ==
  \A t \in Threads : InStateFunction(t) ~> pc[t] = "idle"
=============================================================================
