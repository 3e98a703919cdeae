---------------------------- MODULE PropertyLock ----------------------------
(***************************************************************************)
(* PropertyLockManager of one port: the streams of the port lock sets of   *)
(* properties (LockProperty, UnlockProperty), set properties, and are      *)
(* closed.  A key is a property with its append information, as in         *)
(* "roi[ch=1]"; the empty append information stands for the whole property *)
(* and conflicts with every other one of it.                               *)
(*                                                                         *)
(* A step is one critical section of mutex_.  LockProperty takes the keys  *)
(* in the order of their full names and keeps the ones it has while it     *)
(* waits for the next; it calls the registered callback with mutex_        *)
(* released, as UnlockProperty does.                                       *)
(***************************************************************************)
EXTENDS Naturals, FiniteSets

CONSTANTS
  Streams,
  Threads,
  Keys,        \* records of a property and an append information
  Rank,        \* Rank[k]: place of k in the order of the full keys
  Callbacks,   \* which of the two callbacks the component registered
  MaxCalls     \* bound: calls of LockProperty, UnlockProperty, SetProperty

ASSUME KeysAssumption ==
  /\ Keys \subseteq [property : STRING, append : STRING]
  /\ Rank \in [Keys -> Nat]
  /\ \A k, l \in Keys : Rank[k] = Rank[l] => k = l

ASSUME CallbacksAssumption ==
  Callbacks \subseteq {"lock", "unlock"} /\ MaxCalls \in Nat

NoStream == "none"

ASSUME NoStreamAssumption == NoStream \notin Streams

VARIABLES
  phase,           \* the Close of each stream
  locked_stream,   \* LockInfo of each key: the stream that locked it,
  accessing,       \* and the number of SetProperty in progress
  resources,       \* resources_: the locks handed out
  pc,
  req,             \* req[t]: the stream and the keys of the call of t
  got,             \* got[t]: the keys an unfinished LockProperty has locked
  waiting,         \* threads waiting on cond_
  undefined,       \* a resource was used after it was deleted
  calls

vars == <<phase, locked_stream, accessing, resources, pc, req, got, waiting,
          undefined, calls>>

Phases == {"opened", "closing", "removed", "forced", "left", "closed"}

\* A resource is its stream and its keys: an address that was freed may be
\* handed out again, so two equal resources are not told apart.
Resources == [stream : Streams, keys : SUBSET Keys]

NoRequest == [stream |-> NoStream, keys |-> {}]

\* The lock table, the resources and what the threads have asked for.
TypeOK ==
  /\ phase \in [Streams -> Phases]
  /\ locked_stream \in [Keys -> Streams \cup {NoStream}]
  /\ accessing \in [Keys -> Nat]
  /\ resources \subseteq Resources
  /\ pc \in [Threads -> {"idle", "lock", "wait", "lock_callback", "unlock",
                         "unlock_callback", "set"}]
  /\ req \in [Threads -> Resources \cup {NoRequest}]
  /\ got \in [Threads -> SUBSET Keys]
  /\ waiting \subseteq Threads
  /\ undefined \in BOOLEAN
  /\ calls \in Nat

Init ==
  /\ phase = [s \in Streams |-> "opened"]
  /\ locked_stream = [k \in Keys |-> NoStream]
  /\ accessing = [k \in Keys |-> 0]
  /\ resources = {}
  /\ pc = [t \in Threads |-> "idle"]
  /\ req = [t \in Threads |-> NoRequest]
  /\ got = [t \in Threads |-> {}]
  /\ waiting = {}
  /\ undefined = FALSE
  /\ calls = 0

---------------------------------------------------------------------------
\* The whole property conflicts with each of its parts, a part with itself.
Conflict(k, l) ==
  /\ k.property = l.property
  /\ k.append = l.append \/ k.append = "" \/ l.append = ""

IsLockable(k) == locked_stream[k] = NoStream /\ accessing[k] = 0

\* Mutant: only the entry of the key itself is looked at.
LockableAlone(k) == locked_stream[k] = NoStream /\ accessing[k] = 0

\* AcquireLockInfoForLockProperty: every entry in conflict must be free.
Lockable(k) == \A l \in Keys : Conflict(k, l) => IsLockable(l)

\* AcquireLockInfoForSetProperty: no entry in conflict is locked by another.
Settable(s, k) ==
  \A l \in Keys : Conflict(k, l) => locked_stream[l] \in {NoStream, s}

\* CheckDoubleLock
DoubleLock(s, keys) ==
  \E k \in keys, l \in Keys : Conflict(k, l) /\ locked_stream[l] = s

\* ComponentPortCore::IsOpenedStream
IsOpenedStream(s) == phase[s] \in {"opened", "closing"}

\* StreamCore::LockProperty refuses a property together with its parts.
Requests ==
  {keys \in SUBSET Keys :
     /\ keys # {}
     /\ \A k, l \in keys : k # l => ~Conflict(k, l)}

\* The function lock of a stream that is being closed refuses new calls.
MayCall(t, s) == pc[t] = "idle" /\ phase[s] = "opened" /\ calls < MaxCalls

Unlocked(keys) ==
  [k \in Keys |-> IF k \in keys THEN NoStream ELSE locked_stream[k]]

Leave(t) ==
  /\ pc' = [pc EXCEPT ![t] = "idle"]
  /\ req' = [req EXCEPT ![t] = NoRequest]
  /\ got' = [got EXCEPT ![t] = {}]

---------------------------------------------------------------------------
(***************************************************************************)
(* LockProperty                                                            *)
(***************************************************************************)
\* Mutant: a key that cannot be locked does not hold up those after it.
ObtainableInAnyOrder(keys) == {k \in keys : Lockable(k)}

\* The keys that can be locked before the first one that cannot.
Obtainable(keys) ==
  {k \in keys : \A l \in keys : Rank[l] <= Rank[k] => Lockable(l)}

\* The loop over the keys, up to the end or to a wait.
Acquire(t, r, had) ==
  LET new == Obtainable(r.keys \ had) IN
  /\ locked_stream' =
       [k \in Keys |-> IF k \in new THEN r.stream ELSE locked_stream[k]]
  /\ IF had \cup new # r.keys
     THEN /\ pc' = [pc EXCEPT ![t] = "wait"]
          /\ req' = [req EXCEPT ![t] = r]
          /\ got' = [got EXCEPT ![t] = had \cup new]
          /\ waiting' = waiting \cup {t}
          /\ UNCHANGED resources
     ELSE IF "lock" \in Callbacks
     THEN /\ pc' = [pc EXCEPT ![t] = "lock_callback"]
          /\ req' = [req EXCEPT ![t] = r]
          /\ got' = [got EXCEPT ![t] = r.keys]
          /\ UNCHANGED <<waiting, resources>>
     ELSE /\ resources' = resources \cup {r}
          /\ Leave(t)
          /\ UNCHANGED waiting

\* Mutant: the keys obtained so far stay locked.
RollbackKeepingKeys(t) ==
  /\ waiting' = {}
  /\ Leave(t)
  /\ UNCHANGED <<locked_stream, resources>>

\* The rollback of a LockProperty that fails.
Rollback(t) ==
  /\ locked_stream' = Unlocked(got[t])
  /\ waiting' = {}
  /\ Leave(t)
  /\ UNCHANGED resources

\* StreamCore::LockProperty: the function lock and the test of the state.
CallLockProperty(t, s, keys) ==
  /\ MayCall(t, s)
  /\ calls' = calls + 1
  /\ pc' = [pc EXCEPT ![t] = "lock"]
  /\ req' = [req EXCEPT ![t] = [stream |-> s, keys |-> keys]]
  /\ UNCHANGED <<phase, locked_stream, accessing, resources, got, waiting, undefined>>

\* The first section of mutex_, which may come after the stream has left.
LockProperty(t) ==
  /\ pc[t] = "lock"
  /\ IF DoubleLock(req[t].stream, req[t].keys)
     THEN Leave(t) /\ UNCHANGED <<locked_stream, resources, waiting>>
     ELSE IF IsOpenedStream(req[t].stream) THEN Acquire(t, req[t], {}) ELSE Rollback(t)
  /\ UNCHANGED <<phase, accessing, undefined, calls>>

\* A thread that was woken fails if its stream has left the port.
LockWoken(t) ==
  /\ pc[t] = "wait"
  /\ t \notin waiting
  /\ IF IsOpenedStream(req[t].stream) THEN Acquire(t, req[t], got[t]) ELSE Rollback(t)
  /\ UNCHANGED <<phase, accessing, undefined, calls>>

LockTimeout(t) ==
  /\ pc[t] = "wait"
  /\ Rollback(t)
  /\ UNCHANGED <<phase, accessing, undefined, calls>>

\* The callback returns, and mutex_ is taken again.
LockCallback(t) ==
  /\ pc[t] = "lock_callback"
  /\ \/ /\ resources' = resources \cup {req[t]}
        /\ Leave(t)
        /\ UNCHANGED <<locked_stream, waiting>>
     \/ Rollback(t)
  /\ UNCHANGED <<phase, accessing, undefined, calls>>

---------------------------------------------------------------------------
(***************************************************************************)
(* UnlockProperty                                                          *)
(***************************************************************************)
ReleaseResource(r) ==
  /\ locked_stream' = Unlocked(r.keys)
  /\ resources' = resources \ {r}
  /\ waiting' = {}

\* StreamCore::UnlockProperty: the function lock and the test of the state.
CallUnlockProperty(t, r) ==
  /\ MayCall(t, r.stream)
  /\ calls' = calls + 1
  /\ pc' = [pc EXCEPT ![t] = "unlock"]
  /\ req' = [req EXCEPT ![t] = r]
  /\ UNCHANGED <<phase, locked_stream, accessing, resources, got, waiting, undefined>>

\* A resource that is gone, or whose keys are another stream's, is refused.
UnlockProperty(t) ==
  LET r == req[t] IN
  /\ pc[t] = "unlock"
  /\ IF r \notin resources \/ \E k \in r.keys : locked_stream[k] # r.stream
     THEN Leave(t) /\ UNCHANGED <<locked_stream, resources, waiting>>
     ELSE IF "unlock" \in Callbacks
     THEN /\ pc' = [pc EXCEPT ![t] = "unlock_callback"]
          /\ UNCHANGED <<req, got, locked_stream, resources, waiting>>
     ELSE Leave(t) /\ ReleaseResource(r)
  /\ UNCHANGED <<phase, accessing, undefined, calls>>

\* The callback returns.  If the resource has been deleted meanwhile, the
\* behaviour from here on is undefined.
UnlockCallback(t) ==
  /\ pc[t] = "unlock_callback"
  /\ \/ UNCHANGED <<locked_stream, resources, waiting, undefined>>
     \/ /\ req[t] \in resources
        /\ ReleaseResource(req[t])
        /\ UNCHANGED undefined
     \/ /\ req[t] \notin resources
        /\ undefined' = TRUE
        /\ UNCHANGED <<locked_stream, resources, waiting>>
  /\ Leave(t)
  /\ UNCHANGED <<phase, accessing, calls>>

---------------------------------------------------------------------------
(***************************************************************************)
(* StartPropertyAccess and EndPropertyAccess, around a SetProperty.  The   *)
(* serialized SetProperty takes no function lock: it may still be called   *)
(* while the stream is being closed.                                       *)
(***************************************************************************)
StartPropertyAccess(t, s, k) ==
  /\ pc[t] = "idle"
  /\ calls < MaxCalls
  /\ phase[s] # "closed"
  /\ Settable(s, k)
  /\ accessing' = [accessing EXCEPT ![k] = @ + 1]
  /\ pc' = [pc EXCEPT ![t] = "set"]
  /\ req' = [req EXCEPT ![t] = [stream |-> s, keys |-> {k}]]
  /\ calls' = calls + 1
  /\ UNCHANGED <<phase, locked_stream, resources, got, waiting, undefined>>

\* Mutant: the threads in LockProperty are not woken.
EndPropertyAccessQuietly(t) ==
  /\ pc[t] = "set"
  /\ accessing' = [k \in Keys |->
                     IF k \in req[t].keys THEN accessing[k] - 1 ELSE accessing[k]]
  /\ Leave(t)
  /\ UNCHANGED <<phase, locked_stream, resources, waiting, undefined, calls>>

EndPropertyAccess(t) ==
  /\ pc[t] = "set"
  /\ accessing' = [k \in Keys |->
                     IF k \in req[t].keys THEN accessing[k] - 1 ELSE accessing[k]]
  /\ waiting' = {}
  /\ Leave(t)
  /\ UNCHANGED <<phase, locked_stream, resources, undefined, calls>>

---------------------------------------------------------------------------
(***************************************************************************)
(* Close of a stream, as far as property locks go.                         *)
(***************************************************************************)
close_vars == <<accessing, pc, req, got, undefined, calls>>

\* StreamCore::Close: BeginLocalStateChange.
CloseBegin(s) ==
  /\ phase[s] = "opened"
  /\ phase' = [phase EXCEPT ![s] = "closing"]
  /\ UNCHANGED <<locked_stream, resources, waiting, close_vars>>

\* ComponentPortCore::Close: the stream leaves the port.
CloseRemove(s) ==
  /\ phase[s] = "closing"
  /\ \A u \in Streams : phase[u] \notin {"removed", "forced"}
  /\ phase' = [phase EXCEPT ![s] = "removed"]
  /\ UNCHANGED <<locked_stream, resources, waiting, close_vars>>

ForceUnlockProperty(s) ==
  LET mine == {r \in resources : r.stream = s} IN
  /\ phase[s] = "removed"
  /\ phase' = [phase EXCEPT ![s] = "forced"]
  /\ locked_stream' = Unlocked(UNION {r.keys : r \in mine})
  /\ resources' = resources \ mine
  /\ waiting' = {}
  /\ UNCHANGED close_vars

\* The last stream closes the component's port, and stays if that fails.
ClosePortFailed(s) ==
  /\ phase[s] = "forced"
  /\ \A u \in Streams : ~IsOpenedStream(u)
  /\ phase' = [phase EXCEPT ![s] = "opened"]
  /\ UNCHANGED <<locked_stream, resources, waiting, close_vars>>

ClosePortDone(s) ==
  /\ phase[s] = "forced"
  /\ phase' = [phase EXCEPT ![s] = "left"]
  /\ UNCHANGED <<locked_stream, resources, waiting, close_vars>>

\* StreamCore::Close: WaitAccessDone for LockProperty and UnlockProperty.
CloseDone(s) ==
  /\ phase[s] = "left"
  /\ \A t \in Threads : req[t].stream = s => pc[t] \in {"idle", "set"}
  /\ phase' = [phase EXCEPT ![s] = "closed"]
  /\ UNCHANGED <<locked_stream, resources, waiting, close_vars>>

\* Every stream is closed, or undefined behaviour has begun.
Finished ==
  /\ \/ undefined
     \/ /\ \A s \in Streams : phase[s] = "closed"
        /\ \A t \in Threads : pc[t] = "idle"
  /\ UNCHANGED vars

Call(t) ==
  \/ \E s \in Streams, keys \in Requests : CallLockProperty(t, s, keys)
  \/ \E r \in resources : CallUnlockProperty(t, r)
  \/ \E s \in Streams, k \in Keys : StartPropertyAccess(t, s, k)

ThreadStep(t) ==
  \/ LockProperty(t) \/ LockWoken(t) \/ LockCallback(t)
  \/ UnlockProperty(t) \/ UnlockCallback(t)
  \/ EndPropertyAccess(t)

CloseStep(s) ==
  \/ CloseRemove(s) \/ ForceUnlockProperty(s)
  \/ ClosePortFailed(s) \/ ClosePortDone(s) \/ CloseDone(s)

Next ==
  \/ /\ ~undefined
     /\ \/ \E t \in Threads : Call(t) \/ ThreadStep(t) \/ LockTimeout(t)
        \/ \E s \in Streams : CloseBegin(s) \/ CloseStep(s)
  \/ Finished

Spec == Init /\ [][Next]_vars

---------------------------------------------------------------------------
InLock(t) == pc[t] \in {"wait", "lock_callback"}

(***************************************************************************)
(* A lock is exclusive: of two keys in conflict at most one is locked, and *)
(* while a stream has locked a key, no other stream is inside a            *)
(* SetProperty of a key in conflict with it.                               *)
(***************************************************************************)
LocksExclusive ==
  \A k, l \in Keys :
    Conflict(k, l) /\ locked_stream[k] # NoStream =>
      /\ l = k \/ locked_stream[l] = NoStream
      /\ \A t \in Threads :
           pc[t] = "set" /\ l \in req[t].keys => req[t].stream = locked_stream[k]

(***************************************************************************)
(* No lock is stranded: whoever has locked a key can give it up, either    *)
(* with a resource or in the LockProperty that is still running, and each  *)
(* locked key belongs to one of them only.                                 *)
(***************************************************************************)
LocksAccounted ==
  \A k \in Keys :
    LET holders == {r \in resources : k \in r.keys}
        takers  == {t \in Threads : InLock(t) /\ k \in got[t]}
    IN
    /\ \A r \in holders : r.stream = locked_stream[k]
    /\ \A t \in takers : req[t].stream = locked_stream[k]
    /\ Cardinality(holders) + Cardinality(takers)
         = IF locked_stream[k] = NoStream THEN 0 ELSE 1

(***************************************************************************)
(* The wakeups suffice: a thread waits on cond_ only while the key it is   *)
(* at cannot be locked and its stream is in the port, unless Close is just *)
(* about to wake it.                                                       *)
(***************************************************************************)
WaitersAreBlocked ==
  \A t \in waiting :
    LET missing == req[t].keys \ got[t] IN
    /\ pc[t] = "wait"
    /\ phase[req[t].stream] \in {"opened", "closing", "removed"}
    /\ Obtainable(missing) = {}

(***************************************************************************)
(* LockProperty holds keys while it waits for others, yet no set of calls  *)
(* waits for itself: in every one some thread waits for a key that no      *)
(* unfinished call of the set has.  The order of the full keys gives this  *)
(* as long as it keeps the keys of one property together.                  *)
(***************************************************************************)
NoCircularWait ==
  \A set \in SUBSET {t \in Threads : pc[t] = "wait"} :
    set # {} =>
      \E t \in set :
        \E k \in req[t].keys \ got[t] :
          /\ \A l \in req[t].keys \ got[t] : Rank[k] <= Rank[l]
          /\ \A u \in set : \A l \in got[u] : ~Conflict(k, l)

(***************************************************************************)
(* Closing a stream unlocks its properties: a closed stream has no lock,   *)
(* which nobody could release any more.                                    *)
(***************************************************************************)
ClosedHoldsNoLock ==
  \A s \in Streams, k \in Keys : phase[s] = "closed" => locked_stream[k] # s
=============================================================================
