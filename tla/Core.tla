-------------------------------- MODULE Core --------------------------------
(***************************************************************************)
(* A Core with its function lock, its stream manager and the life of its   *)
(* streams: Init, Exit, OpenStream, CloseStream, the functions that only   *)
(* read, and the publisher functions, called by several threads while      *)
(* others are inside a function of a stream.                               *)
(*                                                                         *)
(* A step is a critical section of CoreFunctionLockManager::mutex_ or of   *)
(* StreamManager::list_mutex_, or a call of a stream between two of them.  *)
(* What a component answers is a free choice.                              *)
(***************************************************************************)
EXTENDS CoreFunctionLock, Naturals

CONSTANTS
  Keys,         \* stream keys
  Configs,      \* configurations: the port of every stream key, or NoPort
  Usages,       \* how the application may use the core: functions and a bound
  SharedClose,  \* whether CloseStream of a stream may be called by several
                \* threads at a time, and while another thread calls Exit
  MaxCalls      \* bound: calls of the application, in every usage

AllFunctions ==
  {"Init", "Exit", "ReadOnly", "StreamKey", "ClosePublisher", "OpenStream",
   "CloseStream", "StreamFunction"}

ASSUME CoreAssumption ==
  /\ Configs \subseteq [Keys -> Ports \cup {NoPort}]
  /\ \A c \in Configs : \E k \in Keys : c[k] # NoPort
  /\ SharedClose \in BOOLEAN
  /\ MaxCalls \in Nat
  /\ Usages \subseteq [functions : SUBSET AllFunctions, calls : 0 .. MaxCalls]
  /\ NoPort \notin Ports
  /\ "null" \notin Addresses

VARIABLES
  usage,                  \* the functions the application calls, and how often
  config,                 \* core_config_, NoConfig when it is not loaded
  stream_list,            \* without the order, which only Exit uses
  released_stream_list,
  streams,                \* what is in the memory of every address
  pc,
  fun,                    \* fun[t]: the function that t has called
  key,                    \* key[t]: the stream key of the call,
  port,                   \* port[t]: and its instance_key
  target,                 \* target[t]: the stream of the call
  ok,                     \* ok[t]: the status of the call so far
  handles,                \* opened streams the application may use
  closed,                 \* ids of streams whose CloseStream returned OK
  created,                \* number of streams created
  reused,                 \* history: ids of streams created at the address of
                          \* one whose CloseStream had not returned
  undefined,              \* a deleted stream was closed
  calls

manager_vars == <<stream_list, released_stream_list, streams, created, reused>>
local_vars   == <<fun, key, port, target, ok>>
app_vars     == <<handles, closed, calls>>
vars == <<usage, lock_vars, config, manager_vars, pc, local_vars, app_vars, undefined>>

NoConfig == [k \in Keys |-> NoPort]

AnyKey == CHOOSE k \in Keys : TRUE

\* Streams are told apart by an id, for an address is used again.
NoStream == [id |-> 0, key |-> AnyKey, state |-> "free"]

Handle(a) == [stream |-> a, id |-> streams[a].id]

NoAddress == "null"

NoHandle == [stream |-> NoAddress, id |-> 0]

StreamStates == {"free", "Init", "Open", "Closing", "NotInit"}

LockType(f) == IF f \in {"Init", "Exit", "ReadOnly"} THEN f ELSE "Stream"

Labels ==
  {"idle", "lock", "waiting", "unlock", "init", "set_initialized", "read",
   "publisher", "gc", "new", "open", "open_release", "get_stream_key",
   "insert_closing", "close_status", "close", "close_wait", "release",
   "close_set", "exit", "release_all", "exit_rest", "clear_initialized",
   "function", "refused"}

\* The state of the lock, of the stream manager and of the calls.
TypeOK ==
  /\ usage \in Usages
  /\ LockTypeOK
  /\ config \in Configs \cup {NoConfig}
  /\ stream_list \subseteq Addresses
  /\ released_stream_list \subseteq Addresses
  /\ streams \in [Addresses -> [id : 0 .. MaxCalls, key : Keys, state : StreamStates]]
  /\ pc \in [Threads -> Labels]
  /\ fun \in [Threads -> AllFunctions]
  /\ key \in [Threads -> Keys]
  /\ port \in [Threads -> Ports \cup {NoPort}]
  /\ target \in [Threads -> [stream : Addresses \cup {NoAddress}, id : 0 .. MaxCalls]]
  /\ ok \in [Threads -> BOOLEAN]
  /\ handles \subseteq [stream : Addresses, id : 1 .. MaxCalls]
  /\ closed \subseteq 1 .. MaxCalls
  /\ created \in 0 .. MaxCalls
  /\ reused \subseteq 1 .. MaxCalls
  /\ undefined \in BOOLEAN
  /\ calls \in 0 .. MaxCalls

Init ==
  /\ usage \in Usages
  /\ LockInit
  /\ config = NoConfig
  /\ stream_list = {}
  /\ released_stream_list = {}
  /\ streams = [a \in Addresses |-> NoStream]
  /\ pc = [t \in Threads |-> "idle"]
  /\ fun = [t \in Threads |-> "Init"]
  /\ key = [t \in Threads |-> AnyKey]
  /\ port = [t \in Threads |-> NoPort]
  /\ target = [t \in Threads |-> NoHandle]
  /\ ok = [t \in Threads |-> TRUE]
  /\ handles = {}
  /\ closed = {}
  /\ created = 0
  /\ reused = {}
  /\ undefined = FALSE
  /\ calls = 0

Go(t, label) == pc' = [pc EXCEPT ![t] = label]

\* The call returns; what it has kept is gone.
Return(t) ==
  /\ pc' = [pc EXCEPT ![t] = "idle"]
  /\ fun' = [fun EXCEPT ![t] = "Init"]
  /\ key' = [key EXCEPT ![t] = AnyKey]
  /\ port' = [port EXCEPT ![t] = NoPort]
  /\ target' = [target EXCEPT ![t] = NoHandle]
  /\ ok' = [ok EXCEPT ![t] = TRUE]

Result(t, status) == ok' = [ok EXCEPT ![t] = status]

SetState(a, state) == streams' = [streams EXCEPT ![a].state = state]

\* ReleaseStreamAll holds list_mutex_ while it waits.
ListFree(t) == \A u \in Threads \ {t} : pc[u] # "release_all"

\* Entries of the stream's own function lock; "function" ones were granted.
Running(a) == {t \in Threads : pc[t] = "function" /\ target[t].stream = a}
Accessing(a) ==
  {t \in Threads : pc[t] \in {"function", "refused"} /\ target[t].stream = a}

Calling(f) == {t \in Threads : pc[t] # "idle" /\ fun[t] = f}

---------------------------------------------------------------------------
(***************************************************************************)
(* Calls of the application                                                *)
(***************************************************************************)
Call(t, f, label) ==
  /\ pc[t] = "idle"
  /\ calls < usage.calls
  /\ f \in usage.functions
  /\ calls' = calls + 1
  /\ fun' = [fun EXCEPT ![t] = f]
  /\ Go(t, label)
  /\ UNCHANGED <<lock_vars, config, manager_vars, port, ok, closed, undefined>>

CallInit(t) == Call(t, "Init", "lock") /\ UNCHANGED <<key, target, handles>>

CallExit(t) ==
  /\ SharedClose \/ Calling("CloseStream") = {}
  /\ Call(t, "Exit", "lock")
  /\ UNCHANGED <<key, target, handles>>

\* GetStreamList, GetVersion, GetConfig
CallReadOnly(t) == Call(t, "ReadOnly", "lock") /\ UNCHANGED <<key, target, handles>>

CallWithKey(t, f, k) ==
  /\ Call(t, f, "lock")
  /\ key' = [key EXCEPT ![t] = k]
  /\ UNCHANGED <<target, handles>>

\* GetOpenedStreamCount, OpenPublisher
CallStreamKey(t, k) == CallWithKey(t, "StreamKey", k)

CallClosePublisher(t, k) == CallWithKey(t, "ClosePublisher", k)

\* There is memory for one stream more than the calls under way may create.
CallOpenStream(t, k) ==
  /\ Cardinality({a \in Addresses : streams[a].state = "free"})
       > Cardinality(Calling("OpenStream"))
  /\ CallWithKey(t, "OpenStream", k)

CallCloseStream(t, h) ==
  /\ h \in handles
  /\ SharedClose \/ Calling("Exit") = {}
  /\ Call(t, "CloseStream", "get_stream_key")
  /\ target' = [target EXCEPT ![t] = h]
  /\ handles' = IF SharedClose THEN handles ELSE handles \ {h}
  /\ UNCHANGED key

\* A function of a stream: refused while the stream is being closed.
CallStreamFunction(t, h) ==
  LET s == streams[h.stream] IN
  /\ h \in handles
  /\ s.id = h.id
  /\ s.state \in {"Open", "Closing"}
  /\ Call(t, "StreamFunction", IF s.state = "Open" THEN "function" ELSE "refused")
  /\ target' = [target EXCEPT ![t] = h]
  /\ UNCHANGED <<key, handles>>

StreamFunctionReturn(t) ==
  /\ pc[t] \in {"function", "refused"}
  /\ Return(t)
  /\ UNCHANGED <<lock_vars, config, manager_vars, app_vars, undefined>>

---------------------------------------------------------------------------
(***************************************************************************)
(* CoreFunctionLock                                                        *)
(***************************************************************************)
Body(f) ==
  CASE f = "Init"           -> "init"
    [] f = "Exit"           -> "exit"
    [] f = "OpenStream"     -> "gc"
    [] f = "CloseStream"    -> "close_status"
    [] f = "ClosePublisher" -> "publisher"
    [] OTHER                -> "read"

\* ClosePublisher alone does not ask whether the lock was refused.
Refused(t) ==
  /\ Go(t, IF fun[t] = "ClosePublisher" THEN "publisher" ELSE "unlock")
  /\ Result(t, fun[t] = "ClosePublisher")
  /\ UNCHANGED <<running_functions, waiting>>

\* The loop of LockForInit, LockForExit, LockForReadOnly and LockForStream,
\* up to the end or to a wait.
Decide(t, type, p) ==
  IF Waits(type, p)
  THEN /\ Go(t, "waiting")
       /\ waiting' = waiting \cup {t}
       /\ UNCHANGED <<running_functions, ok>>
  ELSE IF Grants(type, p)
  THEN /\ Insert(t, type, p)
       /\ Go(t, Body(fun[t]))
       /\ UNCHANGED <<waiting, ok>>
  ELSE Refused(t)

lock_unchanged ==
  <<core_initialized, close_stream_info, config, manager_vars, fun, key, target,
    app_vars, undefined>>

\* LockForStream needs an initialized core and a key of the configuration.
Lock(t) ==
  LET type == LockType(fun[t])
      p    == IF type = "Stream" THEN config[key[t]] ELSE NoPort IN
  /\ pc[t] = "lock"
  /\ IF type = "Stream" /\ (~core_initialized \/ p = NoPort)
     THEN Refused(t) /\ UNCHANGED port
     ELSE Decide(t, type, p) /\ port' = [port EXCEPT ![t] = p]
  /\ UNCHANGED lock_unchanged

\* A woken thread goes on with the instance_key it had.
Woken(t) ==
  /\ pc[t] = "waiting"
  /\ t \notin waiting
  /\ Decide(t, LockType(fun[t]), port[t])
  /\ UNCHANGED <<lock_unchanged, port>>

\* What the application may use from now on.  It forgets the streams that an
\* Exit has closed.
ReturnedHandles(t) ==
  CASE fun[t] = "OpenStream" /\ ok[t]   -> handles \cup {target[t]}
    [] fun[t] = "CloseStream" /\ ok[t]  -> handles \ {target[t]}
    [] fun[t] = "CloseStream" /\ ~ok[t] ->
         handles \cup (IF SharedClose THEN {} ELSE {target[t]})
    [] fun[t] = "Exit" ->
         {h \in handles : h.stream \in stream_list /\ streams[h.stream].id = h.id}
    [] OTHER                            -> handles

\* Mutant: the waiting threads are not woken.
UnlockQuietly(t) ==
  /\ pc[t] = "unlock"
  /\ Remove(t)
  /\ IF fun[t] = "CloseStream" THEN RemoveClosingStream(t, target[t].stream)
     ELSE UNCHANGED close_stream_info
  /\ handles' = ReturnedHandles(t)
  /\ closed' = IF fun[t] = "CloseStream" /\ ok[t] THEN closed \cup {target[t].id}
               ELSE closed
  /\ Return(t)
  /\ UNCHANGED <<waiting, core_initialized, config, manager_vars, calls, undefined>>

\* The destructor of CoreFunctionLock, and the return of the function.
Unlock(t) ==
  /\ pc[t] = "unlock"
  /\ Remove(t)
  /\ IF fun[t] = "CloseStream" THEN RemoveClosingStream(t, target[t].stream)
     ELSE UNCHANGED close_stream_info
  /\ waiting' = {}
  /\ handles' = ReturnedHandles(t)
  /\ closed' = IF fun[t] = "CloseStream" /\ ok[t] THEN closed \cup {target[t].id}
               ELSE closed
  /\ Return(t)
  /\ UNCHANGED <<core_initialized, config, manager_vars, calls, undefined>>

---------------------------------------------------------------------------
(***************************************************************************)
(* Core::Init, and the functions that only read                            *)
(***************************************************************************)
body_unchanged ==
  <<core_initialized, running_functions, close_stream_info, waiting, fun, key,
    port, app_vars>>

\* A configuration that is still loaded is used again.
LoadedConfigs == IF config = NoConfig THEN Configs ELSE {config}

InitDone(t) ==
  /\ pc[t] = "init"
  /\ config' \in LoadedConfigs
  /\ Go(t, "set_initialized")
  /\ UNCHANGED <<body_unchanged, manager_vars, target, ok, undefined>>

\* No configuration, or a manager that fails: DefaultCoreBehavior::Exit runs,
\* and clears the configuration unless it fails as well.
InitFailed(t) ==
  /\ pc[t] = "init"
  /\ config' \in LoadedConfigs \cup {NoConfig}
  /\ Result(t, FALSE)
  /\ Go(t, "unlock")
  /\ UNCHANGED <<body_unchanged, manager_vars, target, undefined>>

SetCoreInitialized(t) ==
  /\ \/ pc[t] = "set_initialized" /\ core_initialized' = TRUE
     \/ pc[t] = "clear_initialized" /\ core_initialized' = FALSE
  /\ Go(t, "unlock")
  /\ UNCHANGED <<running_functions, close_stream_info, waiting, config, manager_vars,
                 local_vars, app_vars, undefined>>

\* GetStreamList, GetVersion, GetConfig, GetOpenedStreamCount and the two
\* publisher functions change nothing of the core.
ReadDone(t) ==
  /\ pc[t] \in {"read", "publisher"}
  /\ \E status \in BOOLEAN : Result(t, status)
  /\ Go(t, "unlock")
  /\ UNCHANGED <<body_unchanged, config, manager_vars, target, undefined>>

---------------------------------------------------------------------------
(***************************************************************************)
(* OpenStream                                                              *)
(***************************************************************************)
\* The configuration of the stream is not valid.
OpenInvalid(t) ==
  /\ pc[t] = "gc"
  /\ Result(t, FALSE)
  /\ Go(t, "unlock")
  /\ UNCHANGED <<body_unchanged, config, manager_vars, target, undefined>>

\* Mutant: a stream is deleted although threads are in its functions.
IsReleasableByState(a) == streams[a].state = "NotInit"

IsReleasable(a) == streams[a].state = "NotInit" /\ Accessing(a) = {}

DeleteReleasedStream(t) ==
  LET garbage == {a \in released_stream_list : IsReleasable(a)} IN
  /\ pc[t] = "gc"
  /\ ListFree(t)
  /\ released_stream_list' = released_stream_list \ garbage
  /\ streams' = [a \in Addresses |-> IF a \in garbage THEN NoStream ELSE streams[a]]
  /\ Go(t, "new")
  /\ UNCHANGED <<body_unchanged, config, stream_list, created, reused, target, ok, undefined>>

\* GetStream: the new stream may get the memory of a deleted one.
GetStream(t, a) ==
  /\ pc[t] = "new"
  /\ ListFree(t)
  /\ streams[a].state = "free"
  /\ created' = created + 1
  /\ reused' = reused \cup (IF close_stream_info[a].threads = {} THEN {} ELSE {created + 1})
  /\ streams' = [streams EXCEPT ![a] =
                   [id |-> created + 1, key |-> key[t], state |-> "Init"]]
  /\ stream_list' = stream_list \cup {a}
  /\ target' = [target EXCEPT ![t] = [stream |-> a, id |-> created + 1]]
  /\ Go(t, "open")
  /\ UNCHANGED <<body_unchanged, config, released_stream_list, ok, undefined>>

OpenDone(t) ==
  /\ pc[t] = "open"
  /\ SetState(target[t].stream, "Open")
  /\ Go(t, "unlock")
  /\ UNCHANGED <<body_unchanged, config, stream_list, released_stream_list, created, reused,
                 target, ok, undefined>>

\* The component fails, and the state goes back to Init; or an extension
\* fails, and the stream is closed, unless that is refused as well.
OpenFailed(t) ==
  /\ pc[t] = "open"
  /\ \E state \in {"Init", "NotInit", "Open"} : SetState(target[t].stream, state)
  /\ Result(t, FALSE)
  /\ Go(t, "open_release")
  /\ UNCHANGED <<body_unchanged, config, stream_list, released_stream_list, created, reused,
                 target, undefined>>

\* StreamManager::ReleaseStream
ReleaseStream(a) ==
  /\ stream_list' = stream_list \ {a}
  /\ released_stream_list' = released_stream_list \cup (stream_list \cap {a})

OpenRelease(t) ==
  /\ pc[t] = "open_release"
  /\ ListFree(t)
  /\ ReleaseStream(target[t].stream)
  /\ Go(t, "unlock")
  /\ UNCHANGED <<body_unchanged, config, streams, created, reused, target, ok, undefined>>

---------------------------------------------------------------------------
(***************************************************************************)
(* CloseStream                                                             *)
(***************************************************************************)
\* The address must be that of a registered stream.
GetStreamKey(t) ==
  LET a == target[t].stream IN
  /\ pc[t] = "get_stream_key"
  /\ ListFree(t)
  /\ IF a \in stream_list
     THEN /\ key' = [key EXCEPT ![t] = streams[a].key]
          /\ Go(t, "insert_closing")
          /\ UNCHANGED ok
     ELSE Result(t, FALSE) /\ Go(t, "unlock") /\ UNCHANGED key
  /\ UNCHANGED <<lock_vars, config, manager_vars, fun, port, target, app_vars, undefined>>

InsertClosing(t) ==
  /\ pc[t] = "insert_closing"
  /\ InsertClosingStream(t, target[t].stream)
  /\ Go(t, "lock")
  /\ UNCHANGED <<core_initialized, running_functions, waiting, config, manager_vars,
                 local_vars, app_vars, undefined>>

\* A stream that another thread has closed meanwhile is not closed again.
GetCloseStreamStatus(t) ==
  LET info == close_stream_info[target[t].stream] IN
  /\ pc[t] = "close_status"
  /\ IF info.closed THEN Result(t, info.ok) /\ Go(t, "unlock")
     ELSE Go(t, "close") /\ UNCHANGED ok
  /\ UNCHANGED <<body_unchanged, config, manager_vars, target, undefined>>

\* Where a Close that was refused or has failed goes on.
Failed(t) ==
  /\ Result(t, FALSE)
  /\ Go(t, IF fun[t] = "Exit" THEN "unlock" ELSE "close_set")

\* StreamCore::Close, up to its wait; also of each stream that Exit closes.
CloseBegin(t) ==
  LET a == target[t].stream IN
  /\ pc[t] = "close"
  /\ CASE streams[a].state = "Open" ->
            SetState(a, "Closing") /\ Go(t, "close_wait") /\ UNCHANGED <<ok, undefined>>
       [] streams[a].state = "free" ->
            undefined' = TRUE /\ UNCHANGED <<streams, pc, ok>>
       [] OTHER -> Failed(t) /\ UNCHANGED <<streams, undefined>>
  /\ UNCHANGED <<body_unchanged, config, stream_list, released_stream_list, created, reused, target>>

\* WaitAccessDone, and the component, which may refuse to close.
CloseEnd(t) ==
  LET a == target[t].stream IN
  /\ pc[t] = "close_wait"
  /\ Running(a) = {}
  /\ \/ SetState(a, "NotInit") /\ Go(t, "release") /\ UNCHANGED ok
     \/ SetState(a, "Open") /\ Failed(t)
  /\ UNCHANGED <<body_unchanged, config, stream_list, released_stream_list, created, reused,
                 target, undefined>>

CloseRelease(t) ==
  /\ pc[t] = "release"
  /\ ListFree(t)
  /\ ReleaseStream(target[t].stream)
  /\ IF target[t].stream \notin stream_list THEN Failed(t)
     ELSE UNCHANGED ok /\ Go(t, IF fun[t] = "Exit" THEN "exit" ELSE "close_set")
  /\ UNCHANGED <<body_unchanged, config, streams, created, reused, target, undefined>>

CloseSet(t) ==
  /\ pc[t] = "close_set"
  /\ SetCloseStreamStatus(target[t].stream, ok[t])
  /\ Go(t, "unlock")
  /\ UNCHANGED <<core_initialized, running_functions, waiting, config, manager_vars,
                 local_vars, app_vars, undefined>>

---------------------------------------------------------------------------
(***************************************************************************)
(* Exit                                                                    *)
(***************************************************************************)
ExitStream(t, a) ==
  /\ pc[t] = "exit"
  /\ a \in stream_list
  /\ target' = [target EXCEPT ![t] = Handle(a)]
  /\ Go(t, "close")
  /\ UNCHANGED <<body_unchanged, config, manager_vars, ok, undefined>>

\* ReleaseStreamAll takes list_mutex_ and keeps it.
ReleaseStreamAll(t) ==
  /\ pc[t] = "exit"
  /\ stream_list = {}
  /\ Go(t, "release_all")
  /\ UNCHANGED <<body_unchanged, config, manager_vars, target, ok, undefined>>

\* WaitForReleasable, whatever the state of the stream, and delete.
DeleteStream(t, a) ==
  /\ pc[t] = "release_all"
  /\ a \in released_stream_list
  /\ Accessing(a) = {}
  /\ released_stream_list' = released_stream_list \ {a}
  /\ streams' = [streams EXCEPT ![a] = NoStream]
  /\ UNCHANGED <<body_unchanged, pc, config, stream_list, created, reused, target, ok, undefined>>

AllDeleted(t) ==
  /\ pc[t] = "release_all"
  /\ released_stream_list = {}
  /\ Go(t, "exit_rest")
  /\ UNCHANGED <<body_unchanged, config, manager_vars, target, ok, undefined>>

\* The messenger and the extensions may refuse to end.
ExitRest(t) ==
  /\ pc[t] = "exit_rest"
  /\ \/ config' = NoConfig /\ Go(t, "clear_initialized") /\ UNCHANGED ok
     \/ Result(t, FALSE) /\ Go(t, "unlock") /\ UNCHANGED config
  /\ UNCHANGED <<body_unchanged, manager_vars, target, undefined>>

---------------------------------------------------------------------------
Finished ==
  /\ undefined \/ \A t \in Threads : pc[t] = "idle"
  /\ UNCHANGED vars

Calls(t) ==
  /\ UNCHANGED usage
  /\ \/ CallInit(t) \/ CallExit(t) \/ CallReadOnly(t)
     \/ \E k \in Keys : CallStreamKey(t, k) \/ CallClosePublisher(t, k) \/ CallOpenStream(t, k)
     \/ \E h \in handles : CallCloseStream(t, h) \/ CallStreamFunction(t, h)

Step(t) ==
  /\ UNCHANGED usage
  /\ \/ Lock(t) \/ Woken(t) \/ Unlock(t) \/ StreamFunctionReturn(t)
     \/ InitDone(t) \/ InitFailed(t) \/ SetCoreInitialized(t) \/ ReadDone(t)
     \/ OpenInvalid(t) \/ DeleteReleasedStream(t) \/ OpenDone(t) \/ OpenFailed(t) \/ OpenRelease(t)
     \/ GetStreamKey(t) \/ InsertClosing(t) \/ GetCloseStreamStatus(t)
     \/ CloseBegin(t) \/ CloseEnd(t) \/ CloseRelease(t) \/ CloseSet(t)
     \/ ReleaseStreamAll(t) \/ AllDeleted(t) \/ ExitRest(t)
     \/ \E a \in Addresses : GetStream(t, a) \/ ExitStream(t, a) \/ DeleteStream(t, a)

Next ==
  \/ ~undefined /\ \E t \in Threads : Calls(t) \/ Step(t)
  \/ Finished

Spec == Init /\ [][Next]_vars

\* Every thread goes on: it gets the mutexes, and components return.
FairSpec == Spec /\ \A t \in Threads : WF_vars(Step(t))

---------------------------------------------------------------------------
\* Between the lock, if it was granted, and the end of the function.
InBody(t) ==
  pc[t] \notin {"idle", "lock", "waiting", "unlock", "publisher", "get_stream_key",
                "insert_closing", "function", "refused"}

InStreamBody(t) == InBody(t) /\ LockType(fun[t]) = "Stream"

(***************************************************************************)
(* Init and Exit run alone, and functions of streams of the same port one  *)
(* after the other, by the keys they were granted under.                   *)
(***************************************************************************)
FunctionsExclusive ==
  \A t, u \in Threads :
    t # u /\ InBody(t) /\ InBody(u) =>
      /\ fun[t] \notin {"Init", "Exit"}
      /\ InStreamBody(t) /\ InStreamBody(u) => port[t] # port[u]

(***************************************************************************)
(* A function that reads the configuration through the pointer that Exit   *)
(* clears runs only between a complete Init and the next Exit.             *)
(***************************************************************************)
ConfigThere ==
  \A t \in Threads :
    InBody(t) /\ fun[t] \notin {"Init", "Exit"} =>
      core_initialized /\ config # NoConfig

(***************************************************************************)
(* A thread sleeps in a lock only while a function that it has to wait for *)
(* is running: no end of a function is missed.                             *)
(***************************************************************************)
WaitersAreBlocked ==
  \A t \in waiting : Waits(LockType(fun[t]), port[t])

(***************************************************************************)
(* Neither OpenStream nor Exit deletes a stream while a thread is in one   *)
(* of its functions, refused ones included.                                *)
(***************************************************************************)
NoUseAfterDelete ==
  \A t \in Threads :
    pc[t] \in {"function", "refused"} => streams[target[t].stream].id = target[t].id

(***************************************************************************)
(* Every stream in memory is in one of the two lists, and in one only; a   *)
(* core that is not initialized has none.                                  *)
(***************************************************************************)
StreamsAccounted ==
  /\ stream_list \cap released_stream_list = {}
  /\ \A a \in Addresses :
       streams[a].state # "free" <=> a \in stream_list \cup released_stream_list
  /\ ~core_initialized => \A a \in Addresses : streams[a].state = "free"

(***************************************************************************)
(* A stream for which CloseStream has returned OK is closed, whoever else  *)
(* closes it or exits meanwhile; but for a stream that was created at the  *)
(* address of one whose CloseStream had not returned, for which the status *)
(* kept by address may be that of the former stream.                       *)
(***************************************************************************)
CloseMeansClosed ==
  \A a \in Addresses :
    streams[a].id \in closed \ reused => streams[a].state = "NotInit"

(***************************************************************************)
(* Every call returns, though Exit waits for the calls under way and       *)
(* keeps list_mutex_ while it waits for the functions of streams.          *)
(***************************************************************************)
CallsReturn == \A t \in Threads : pc[t] # "idle" ~> pc[t] = "idle" \/ undefined
=============================================================================
