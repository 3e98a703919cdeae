--------------------------- MODULE FrameRecorder ---------------------------
(***************************************************************************)
(* The FrameRecorder of a stream.  GetFrame pushes every frame it returns  *)
(* into the queue of the recorder; a worker thread of the recorder writes  *)
(* them to files.  A recording is started and stopped by setting the       *)
(* property record_property, and stopped by StreamCore::Stop; one with a   *)
(* count of frames also ends by itself, and then detaches its own thread.  *)
(*                                                                         *)
(* An action is a section under mutex_state_ or mutex_frames_, or a test   *)
(* of the state of the stream.  RecorderStart holds mutex_state_           *)
(* throughout, files and recorders included.  Files, channels and formats  *)
(* are left out: whether they can be created is a free choice.             *)
(***************************************************************************)
EXTENDS Naturals, Sequences, FiniteSets

CONSTANTS
  Threads,     \* threads of the application
  Counts,      \* frames a recording may be limited to; 0 is no limit
  BufferNums,  \* sizes of the queue, as they are applied
  Careful,     \* whether the application sets the property to start a
               \* recording never beside Start and Stop of the stream
  MaxGets,     \* bound: frames received
  MaxCalls     \* bound: other calls

ASSUME FrameRecorderAssumption ==
  /\ Counts \subseteq Nat
  /\ BufferNums \subseteq Nat \ {0}
  /\ Careful \in BOOLEAN
  /\ MaxGets \in Nat
  /\ MaxCalls \in Nat

None == "none"
Recordings == 1 .. MaxCalls

ASSUME NoneAssumption == None \notin Threads

VARIABLES
  stream,          \* the state of the stream, Ready or Running
  state_function,  \* the thread that is in Start or Stop of the stream
  pc,              \* pc[t]: where thread t is
  seen,            \* seen[t]: what PushFrame saw of the recording
  joining,         \* the worker that thread t has taken over from thread_
  thread_state,    \* thread_state_
  thread,          \* thread_: the recording whose worker it is, or 0
  setting,         \* setting_: count and buffer_num
  frames,          \* frames_: for each frame the recording PushFrame saw
  recording,       \* number of recordings so far
  worker,          \* worker[r]: pc, count and max_count of MonitorFrames
  handles,         \* how often the thread of a recording was joined or detached
  gets,
  calls

stream_vars   == <<stream, state_function>>
local_vars    == <<seen, joining>>
recorder_vars == <<thread_state, thread, setting, recording>>
bound_vars    == <<gets, calls>>
vars == <<stream_vars, pc, local_vars, recorder_vars, frames, worker, handles,
          bound_vars>>

Labels == {"idle", "push", "push_frame", "start", "stop_core", "stop", "join"}

WorkerLabels == {"none", "begin", "pop", "update", "drain", "finish", "done"}

NoSetting == [count |-> 0, buffer_num |-> 0]
Unseen    == [recording |-> 0, buffer_num |-> 0]

\* The stream, the threads, the recorder and its workers.
TypeOK ==
  /\ stream \in {"Ready", "Running"}
  /\ state_function \in Threads \cup {None}
  /\ pc \in [Threads -> Labels]
  /\ seen \in [Threads -> [recording : Nat, buffer_num : Nat]]
  /\ joining \in [Threads -> 0 .. MaxCalls]
  /\ thread_state \in {"Ready", "Running", "Stopping"}
  /\ thread \in 0 .. MaxCalls
  /\ setting \in [count : Nat, buffer_num : Nat]
  /\ frames \in Seq(Recordings)
  /\ recording \in 0 .. MaxCalls
  /\ worker \in [Recordings -> [pc : WorkerLabels, count : Nat, max_count : Nat]]
  /\ handles \in [Recordings -> Nat]
  /\ gets \in 0 .. MaxGets
  /\ calls \in 0 .. MaxCalls

Init ==
  /\ stream = "Ready"
  /\ state_function = None
  /\ pc = [t \in Threads |-> "idle"]
  /\ seen = [t \in Threads |-> Unseen]
  /\ joining = [t \in Threads |-> 0]
  /\ thread_state = "Ready"
  /\ thread = 0
  /\ setting = NoSetting
  /\ frames = << >>
  /\ recording = 0
  /\ worker = [r \in Recordings |-> [pc |-> "none", count |-> 0, max_count |-> 0]]
  /\ handles = [r \in Recordings |-> 0]
  /\ gets = 0
  /\ calls = 0

Goto(t, from, to) == pc[t] = from /\ pc' = [pc EXCEPT ![t] = to]

Call == calls < MaxCalls /\ calls' = calls + 1 /\ UNCHANGED gets

---------------------------------------------------------------------------
(***************************************************************************)
(* StreamCore::GetFrame and FrameRecorder::PushFrame                       *)
(***************************************************************************)
\* A frame has arrived, and the stream is running.
CallGetFrame(t) ==
  /\ Goto(t, "idle", "push")
  /\ stream = "Running"
  /\ gets < MaxGets
  /\ gets' = gets + 1
  /\ UNCHANGED <<stream_vars, local_vars, recorder_vars, frames, worker, handles, calls>>

PushCheck(t) ==
  /\ IF thread_state = "Running"
     THEN /\ Goto(t, "push", "push_frame")
          /\ seen' = [seen EXCEPT ![t] =
                        [recording |-> recording, buffer_num |-> setting.buffer_num]]
     ELSE Goto(t, "push", "idle") /\ UNCHANGED seen
  /\ UNCHANGED <<stream_vars, joining, recorder_vars, frames, worker, handles, bound_vars>>

PushFrame(t) ==
  /\ Goto(t, "push_frame", "idle")
  /\ frames' = IF Len(frames) >= seen[t].buffer_num THEN frames
               ELSE Append(frames, seen[t].recording)
  /\ seen' = [seen EXCEPT ![t] = Unseen]
  /\ UNCHANGED <<stream_vars, joining, recorder_vars, worker, handles, bound_vars>>

---------------------------------------------------------------------------
(***************************************************************************)
(* FrameRecorder::Start, called by StreamCore::Set                         *)
(***************************************************************************)
\* The property is set to enabled.  A stream that is not running refuses it.
CallStart(t) ==
  /\ Call
  /\ Careful => state_function = None
  /\ stream = "Running"
  /\ Goto(t, "idle", "start")
  /\ UNCHANGED <<stream_vars, local_vars, recorder_vars, frames, worker, handles>>

\* A stopping recorder is busy.  A running one only gets more formats, and
\* keeps its count and buffers.  Otherwise anything from the directory to the
\* thread may fail; nothing is left of that.
RecorderStart(t) ==
  /\ Goto(t, "start", "idle")
  /\ \/ /\ thread_state = "Ready"
        /\ \E count \in Counts, buffer_num \in BufferNums :
             setting' = [count |-> count, buffer_num |-> buffer_num]
        /\ thread_state' = "Running"
        /\ recording' = recording + 1
        /\ thread' = recording'
        /\ worker' = [worker EXCEPT ![recording'].pc = "begin"]
     \/ UNCHANGED <<recorder_vars, worker>>
  /\ UNCHANGED <<stream_vars, local_vars, frames, handles, bound_vars>>

---------------------------------------------------------------------------
(***************************************************************************)
(* FrameRecorder::Stop, called by StreamCore::Set and StopCore             *)
(***************************************************************************)
\* The property is set to disabled.
CallRecorderStop(t) ==
  /\ Call
  /\ Goto(t, "idle", "stop")
  /\ UNCHANGED <<stream_vars, local_vars, recorder_vars, frames, worker, handles>>

\* Return to the caller, and from Stop of the stream.
Return(t, from) ==
  /\ Goto(t, from, "idle")
  /\ state_function' = IF state_function = t THEN None ELSE state_function
  /\ UNCHANGED stream

\* Mutant: there is nothing to do if the recording is ending already.
RecorderStopIfRunning(t) ==
  /\ IF thread = 0 \/ thread_state # "Running"
     THEN Return(t, "stop") /\ UNCHANGED <<joining, thread, thread_state>>
     ELSE /\ Goto(t, "stop", "join")
          /\ joining' = [joining EXCEPT ![t] = thread]
          /\ thread' = 0
          /\ thread_state' = "Stopping"
          /\ UNCHANGED stream_vars
  /\ UNCHANGED <<seen, setting, recording, frames, worker, handles, bound_vars>>

\* Without a thread it is stopped already; else this call takes it over.
RecorderStop(t) ==
  /\ IF thread = 0
     THEN Return(t, "stop") /\ UNCHANGED <<joining, thread, thread_state>>
     ELSE /\ Goto(t, "stop", "join")
          /\ joining' = [joining EXCEPT ![t] = thread]
          /\ thread' = 0
          /\ thread_state' = IF thread_state = "Running" THEN "Stopping" ELSE thread_state
          /\ UNCHANGED stream_vars
  /\ UNCHANGED <<seen, setting, recording, frames, worker, handles, bound_vars>>

RecorderJoin(t) ==
  /\ pc[t] = "join"
  /\ worker[joining[t]].pc = "done"
  /\ Return(t, "join")
  /\ handles' = [handles EXCEPT ![joining[t]] = @ + 1]
  /\ joining' = [joining EXCEPT ![t] = 0]
  /\ UNCHANGED <<seen, recorder_vars, frames, worker, bound_vars>>

---------------------------------------------------------------------------
(***************************************************************************)
(* StreamCore::Start and Stop, which the function lock keeps apart         *)
(***************************************************************************)
CallStateFunction(t) ==
  /\ Call
  /\ state_function = None
  /\ Careful => \A u \in Threads : pc[u] # "start"
  /\ UNCHANGED <<local_vars, recorder_vars, frames, worker, handles>>

StreamStart(t) ==
  /\ CallStateFunction(t)
  /\ pc[t] = "idle"
  /\ stream = "Ready"
  /\ stream' = "Running"
  /\ UNCHANGED <<state_function, pc>>

StreamStop(t) ==
  /\ CallStateFunction(t)
  /\ Goto(t, "idle", "stop_core")
  /\ stream = "Running"
  /\ state_function' = t
  /\ UNCHANGED stream

\* The port may refuse to stop; else the state is changed before the recorder
\* is told to stop.
StopCore(t) ==
  /\ \/ Return(t, "stop_core")
     \/ Goto(t, "stop_core", "stop") /\ stream' = "Ready" /\ UNCHANGED state_function
  /\ UNCHANGED <<local_vars, recorder_vars, frames, worker, handles, bound_vars>>

---------------------------------------------------------------------------
(***************************************************************************)
(* FrameRecorder::MonitorFrames, the worker of recording r                 *)
(***************************************************************************)
At(r, label) == worker[r].pc = label

Begin(r) ==
  /\ At(r, "begin")
  /\ worker' = [worker EXCEPT ![r] = [pc |-> "pop", count |-> 0, max_count |-> setting.count]]
  /\ UNCHANGED <<stream_vars, pc, local_vars, recorder_vars, frames, handles, bound_vars>>

\* PopFrame and WriteFrame.  With no frame there PopFrame waits until a push,
\* a Stop or its time limit, and returns none.
Write(r) ==
  /\ At(r, "pop")
  /\ IF frames = << >>
     THEN worker' = [worker EXCEPT ![r].pc = "update"] /\ UNCHANGED frames
     ELSE /\ worker' = [worker EXCEPT ![r].pc = "update", ![r].count = @ + 1]
          /\ frames' = Tail(frames)
  /\ UNCHANGED <<stream_vars, pc, local_vars, recorder_vars, handles, bound_vars>>

Complete(r) == worker[r].max_count # 0 /\ worker[r].count >= worker[r].max_count

\* Mutant: only the number of frames ends the loop.
UpdateCountOnly(r) ==
  /\ At(r, "update")
  /\ thread_state' = IF Complete(r) THEN "Stopping" ELSE thread_state
  /\ worker' = [worker EXCEPT ![r].pc = IF Complete(r) THEN "drain" ELSE "pop"]
  /\ UNCHANGED <<stream_vars, pc, local_vars, thread, setting, recording, frames,
                 handles, bound_vars>>

Update(r) ==
  /\ At(r, "update")
  /\ thread_state' = IF Complete(r) THEN "Stopping" ELSE thread_state
  /\ worker' = [worker EXCEPT ![r].pc = IF thread_state' = "Running" THEN "pop" ELSE "drain"]
  /\ UNCHANGED <<stream_vars, pc, local_vars, thread, setting, recording, frames,
                 handles, bound_vars>>

\* The frames left are written up to the count, the others deleted; then the
\* event is sent.
Drain(r) ==
  /\ At(r, "drain")
  /\ IF frames = << >>
     THEN worker' = [worker EXCEPT ![r].pc = "finish"] /\ UNCHANGED frames
     ELSE /\ frames' = Tail(frames)
          /\ worker' = [worker EXCEPT ![r].count =
                          IF @ < worker[r].max_count THEN @ + 1 ELSE @]
  /\ UNCHANGED <<stream_vars, pc, local_vars, recorder_vars, handles, bound_vars>>

\* Mutant: the thread of a recording with a count is not detached.
FinishAttached(r) ==
  /\ At(r, "finish")
  /\ worker' = [worker EXCEPT ![r].pc = "done"]
  /\ setting' = NoSetting
  /\ thread_state' = "Ready"
  /\ UNCHANGED <<stream_vars, pc, local_vars, thread, handles, recording, frames, bound_vars>>

\* A recording with a count detaches its thread unless a Stop has taken it.
Finish(r) ==
  /\ At(r, "finish")
  /\ IF worker[r].max_count # 0 /\ thread # 0
     THEN /\ handles' = [handles EXCEPT ![thread] = @ + 1]
          /\ thread' = 0
     ELSE UNCHANGED <<handles, thread>>
  /\ worker' = [worker EXCEPT ![r].pc = "done"]
  /\ setting' = NoSetting
  /\ thread_state' = "Ready"
  /\ UNCHANGED <<stream_vars, pc, local_vars, recording, frames, bound_vars>>

---------------------------------------------------------------------------
Worker(r) == Begin(r) \/ Write(r) \/ Update(r) \/ Drain(r) \/ Finish(r)

CallStep(t) ==
  \/ CallGetFrame(t) \/ CallStart(t) \/ CallRecorderStop(t) \/ StreamStart(t) \/ StreamStop(t)

ThreadStep(t) ==
  \/ PushCheck(t) \/ PushFrame(t) \/ RecorderStart(t)
  \/ RecorderStop(t) \/ RecorderJoin(t) \/ StopCore(t)

\* Every call has returned and no further one may be made.
Finished ==
  /\ calls = MaxCalls
  /\ \A t \in Threads : pc[t] = "idle"
  /\ UNCHANGED vars

Next ==
  \/ \E t \in Threads : CallStep(t) \/ ThreadStep(t)
  \/ \E r \in Recordings : Worker(r)
  \/ Finished

Spec == Init /\ [][Next]_vars

\* A thread inside a call and the worker keep running, for PopFrame has a time
\* limit; nobody has to make a call or receive a frame.
FairSpec ==
  /\ Spec
  /\ \A t \in Threads : WF_vars(ThreadStep(t))
  /\ \A r \in Recordings : WF_vars(Worker(r))

---------------------------------------------------------------------------
Unfinished == {r \in Recordings : worker[r].pc \notin {"none", "done"}}

Joining(r) == {t \in Threads : joining[t] = r}

(***************************************************************************)
(* The thread of every recording is joined or detached, once: until then   *)
(* it is in thread_ or with one Stop, so that the end of a recording with  *)
(* a count, a Stop of the application and one of the stream never both     *)
(* take it, and Start never overwrites it.  Only one worker uses the queue *)
(* and the settings, and none while the recorder is Ready.                 *)
(***************************************************************************)
WorkersAccounted ==
  /\ \A r \in 1 .. recording :
       handles[r] + Cardinality(Joining(r)) + (IF thread = r THEN 1 ELSE 0) = 1
  /\ Cardinality(Unfinished) <= 1
  /\ thread_state = "Ready" <=> Unfinished = {}

(***************************************************************************)
(* "Startable only in the stream running state", and StopCore stops the    *)
(* recorder by force: when Stop of the stream has returned, no worker      *)
(* writes any more but one that a Stop in another thread still waits for.  *)
(***************************************************************************)
QuietWhenStopped ==
  stream = "Ready" /\ state_function = None =>
    \A r \in Unfinished : \E t \in Threads : pc[t] = "join" /\ joining[t] = r

(***************************************************************************)
(* Stop of the recorder returns, whether frames come or not and however    *)
(* the recording would have ended, and with it Stop of the stream.         *)
(***************************************************************************)
StopReturns ==
  \A t \in Threads : pc[t] \in {"stop", "join"} ~> pc[t] = "idle"
=============================================================================
