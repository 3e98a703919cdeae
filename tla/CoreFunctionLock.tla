-------------------------- MODULE CoreFunctionLock --------------------------
(***************************************************************************)
(* CoreFunctionLockManager: which functions of a Core run, one entry for   *)
(* each thread, and the CloseStream calls under way, by the address of     *)
(* their stream.  Each operator is one critical section of mutex_.         *)
(***************************************************************************)
EXTENDS FiniteSets

CONSTANTS
  Threads,
  Ports,       \* instance keys: instance name, port type and port id
  Addresses    \* memory in which a stream may be created

VARIABLES
  core_initialized,
  running_functions,   \* by thread
  close_stream_info,   \* by stream
  waiting              \* threads waiting on cond_

lock_vars == <<core_initialized, running_functions, close_stream_info, waiting>>

FunctionTypes == {"Init", "Exit", "ReadOnly", "Stream"}

NoPort == "none"

NoFunction == [type |-> "none", key |-> NoPort]

FunctionInfo == [type : FunctionTypes, key : Ports \cup {NoPort}]

\* An entry without threads is one that is not in the map.
NoClosing == [threads |-> {}, closed |-> FALSE, ok |-> TRUE]

CloseStreamStatusInfo ==
  [threads : SUBSET Threads, closed : BOOLEAN, ok : BOOLEAN]

LockTypeOK ==
  /\ core_initialized \in BOOLEAN
  /\ running_functions \in [Threads -> FunctionInfo \cup {NoFunction}]
  /\ close_stream_info \in [Addresses -> CloseStreamStatusInfo]
  /\ waiting \subseteq Threads

LockInit ==
  /\ core_initialized = FALSE
  /\ running_functions = [t \in Threads |-> NoFunction]
  /\ close_stream_info = [a \in Addresses |-> NoClosing]
  /\ waiting = {}

---------------------------------------------------------------------------
Contains(types) == \E t \in Threads : running_functions[t].type \in types

\* The functions in progress that make a lock of this type fail,
FailsOn(type) == IF type = "Init" THEN {"Init", "ReadOnly", "Stream"} ELSE {"Exit"}

\* and those it waits for, whatever their key.
WaitsOn(type) ==
  CASE type = "Init" -> {"Exit"}
    [] type = "Exit" -> {"Init", "ReadOnly", "Stream"}
    [] OTHER         -> {"Init"}

Fails(type) == Contains(FailsOn(type))

\* Mutant: functions of the same stream do not wait for each other.
WaitsForTypesOnly(type, key) == ~Fails(type) /\ Contains(WaitsOn(type))

Waits(type, key) ==
  /\ ~Fails(type)
  /\ \/ Contains(WaitsOn(type))
     \/ /\ type = "Stream"
        /\ \E t \in Threads :
             running_functions[t].type = "Stream" /\ running_functions[t].key = key

\* After waiting: Init needs a core that is not initialized, all others one
\* that is.
Grants(type, key) ==
  /\ ~Fails(type)
  /\ ~Waits(type, key)
  /\ core_initialized <=> type # "Init"

Insert(t, type, key) ==
  running_functions' = [running_functions EXCEPT ![t] = [type |-> type, key |-> key]]

\* Unlock, which the destructor calls after a refused lock too: the entry of
\* the thread is erased, and its mark in the information on the stream.
Remove(t) == running_functions' = [running_functions EXCEPT ![t] = NoFunction]

InsertClosingStream(t, a) ==
  close_stream_info' = [close_stream_info EXCEPT ![a].threads = @ \cup {t}]

ClosingWithout(t, a) ==
  LET left == close_stream_info[a].threads \ {t} IN
  IF left = {} THEN NoClosing ELSE [close_stream_info[a] EXCEPT !.threads = left]

\* Mutant: the last thread that leaves does not erase the information.
RemoveClosingStreamKeeping(t, a) ==
  close_stream_info' = [close_stream_info EXCEPT ![a].threads = @ \ {t}]

RemoveClosingStream(t, a) ==
  close_stream_info' = [close_stream_info EXCEPT ![a] = ClosingWithout(t, a)]

\* SetCloseStreamStatus does nothing if there is no information.
SetCloseStreamStatus(a, ok) ==
  close_stream_info' =
    IF close_stream_info[a].threads = {} THEN close_stream_info
    ELSE [close_stream_info EXCEPT ![a].closed = TRUE, ![a].ok = ok]
=============================================================================
