------------------------- MODULE StreamFunctionLock -------------------------
(***************************************************************************)
(* StreamFunctionLockManager of one stream: the list of running functions  *)
(* (running_functions_, under mutex_) and the local state of the stream    *)
(* with the state it is changing to (under mutex_state_).  Each operator   *)
(* is what one critical section of the class does.                         *)
(***************************************************************************)
EXTENDS Naturals, Sequences

CONSTANT Threads

VARIABLES
  running_functions,   \* entries of the functions in progress, oldest first
  current_state,
  dest_state

lock_vars == <<running_functions, current_state, dest_state>>

State     == "State"        \* functions that change the state of the stream
Internal  == "Internal"     \* functions of the core
Component == "Component"    \* functions that call the component

FunctionTypes == {State, Internal, Component}

NotInit == "NotInit"
Init_   == "Init"
Ready   == "Ready"
Running == "Running"

LocalStates == {NotInit, Init_, Ready, Running}

LockTypeOK ==
  /\ running_functions \in Seq([thread : Threads, type : FunctionTypes])
  /\ current_state \in LocalStates
  /\ dest_state \in LocalStates

LockInit ==
  /\ running_functions = << >>
  /\ current_state = NotInit
  /\ dest_state = NotInit

---------------------------------------------------------------------------
Positions == 1 .. Len(running_functions)

\* An entry of one of these types stands in the list before t's own entry.
Ahead(t, types) ==
  \E i, j \in Positions :
    /\ i < j
    /\ running_functions[j].thread = t
    /\ running_functions[i].type \in types

\* Insert: the entry goes to the end of the list.
Insert(t, type) ==
  running_functions' =
    Append(running_functions, [thread |-> t, type |-> type])

\* Unlock: the entry of the thread is removed, the others keep their order.
Unlock(t) ==
  \E k \in Positions :
    /\ running_functions[k].thread = t
    /\ running_functions' =
         [i \in 1 .. Len(running_functions) - 1 |->
            running_functions[IF i < k THEN i ELSE i + 1]]

\* Mutant: a state function does not wait for other state functions.
LockForStateGrantedUnlessComponent(t) == ~Ahead(t, {Component})

\* LockForState: wait for the state and component functions that came first.
LockForStateGranted(t) == ~Ahead(t, {State, Component})

\* LockForInternal and LockForComponent, evaluated in the section that
\* inserted the entry: refused while a state function is closing the stream.
LockForOtherGranted(t) ==
  (\E i \in Positions : running_functions[i].type = State) =>
    dest_state \in {Ready, Running}

\* WaitAccessDone: no other thread runs a function of this type.
AccessDone(t, type) ==
  \A i \in Positions :
    running_functions[i].thread = t \/ running_functions[i].type # type

---------------------------------------------------------------------------
\* The state changes BeginStateChange allows.
Transitions ==
  {<<NotInit, Init_>>, <<Init_, NotInit>>, <<Init_, Ready>>,
   <<Ready, Init_>>, <<Ready, Running>>, <<Running, Ready>>}

\* The state a change starts from; a change not committed counts as done.
CanBegin(state) == <<dest_state, state>> \in Transitions

BeginStateChange(state) ==
  /\ CanBegin(state)
  /\ current_state' = dest_state
  /\ dest_state' = state

CommitStateChange == current_state' = dest_state /\ UNCHANGED dest_state

CancelStateChange == dest_state' = current_state /\ UNCHANGED current_state

\* StreamCore::IsSendableState: running, and not changing to another state.
IsSendableState == current_state = Running /\ dest_state = Running
=============================================================================
