------------------------- MODULE PropertyLockProofs -------------------------
(***************************************************************************)
(* Property locks for any streams, threads, keys and number of calls.      *)
(***************************************************************************)
EXTENDS PropertyLock, FiniteSetTheorems, WellFoundedInduction, TLAPS

\* What the call of a thread has asked for and got.
Asked ==
  \A t \in Threads :
    /\ pc[t] # "idle" => req[t] \in Resources
    /\ got[t] \subseteq req[t].keys
    /\ ~InLock(t) => got[t] = {}
    /\ pc[t] = "lock_callback" => got[t] = req[t].keys
    /\ pc[t] \in {"lock", "wait"} =>
         \A k, l \in req[t].keys : k # l => ~Conflict(k, l)

\* A key is locked for the stream of the resource or of the call that has it.
OwnersLock ==
  /\ \A r \in resources : \A k \in r.keys : locked_stream[k] = r.stream
  /\ \A t \in Threads : InLock(t) => \A k \in got[t] : locked_stream[k] = req[t].stream

\* No key has two owners.
OneOwner ==
  /\ \A r, q \in resources : \A k \in r.keys : k \in q.keys => r = q
  /\ \A t, u \in Threads : InLock(t) /\ InLock(u) =>
       \A k \in got[t] : k \in got[u] => t = u
  /\ \A t \in Threads, r \in resources : InLock(t) => \A k \in got[t] : k \notin r.keys

\* Every locked key has an owner.
SomeOwner ==
  \A k \in Keys : locked_stream[k] # NoStream =>
    \/ \E r \in resources : k \in r.keys
    \/ \E t \in Threads : InLock(t) /\ k \in got[t]

Setters(k) == {t \in Threads : pc[t] = "set" /\ k \in req[t].keys}

\* The count of an entry is the number of threads that set the property.
AccessesCounted ==
  \A k \in Keys : IsFiniteSet(Setters(k)) /\ accessing[k] = Cardinality(Setters(k))

Inv ==
  /\ TypeOK /\ Asked /\ OwnersLock /\ OneOwner /\ SomeOwner
  /\ AccessesCounted /\ LocksExclusive /\ WaitersAreBlocked

---------------------------------------------------------------------------
\* Conflict is symmetric, and every key is in conflict with itself.
LEMMA ConflictSymmetric ==
  ASSUME NEW k, NEW l
  PROVE  Conflict(k, k) /\ (Conflict(k, l) => Conflict(l, k))
BY DEF Conflict

\* The keys LockProperty takes are missing ones, and can be locked.
LEMMA ObtainableLockable ==
  ASSUME NEW keys, keys \subseteq Keys
  PROVE  Obtainable(keys) \subseteq keys /\ \A k \in Obtainable(keys) : Lockable(k)
BY KeysAssumption DEF Obtainable

\* While keys are only locked or set, no key becomes lockable that was not.
LEMMA ObtainableShrinks ==
  ASSUME NEW keys, keys \subseteq Keys, Obtainable(keys) = {},
         \A k \in Keys : IsLockable(k)' => IsLockable(k)
  PROVE  Obtainable(keys)' = {}
BY DEF Obtainable, Lockable

\* A key that is being set is not lockable.
LEMMA SetNotLockable ==
  ASSUME AccessesCounted, NEW l \in Keys, accessing[l] = 0,
         NEW t \in Threads, pc[t] = "set"
  PROVE  l \notin req[t].keys
BY FS_EmptySet DEF AccessesCounted, Setters

---------------------------------------------------------------------------
ThreadTypes ==
  /\ pc \in [Threads -> {"idle", "lock", "wait", "lock_callback", "unlock",
                         "unlock_callback", "set"}]
  /\ req \in [Threads -> Resources \cup {NoRequest}]
  /\ got \in [Threads -> SUBSET Keys]

\* A step of thread t leaves the other threads where they are.
OneThread(t) ==
  /\ ThreadTypes'
  /\ \A u \in Threads \ {t} : pc'[u] = pc[u] /\ req'[u] = req[u] /\ got'[u] = got[u]

Goes(t, label, r, keys) ==
  /\ pc' = [pc EXCEPT ![t] = label]
  /\ req' = [req EXCEPT ![t] = r]
  /\ got' = [got EXCEPT ![t] = keys]

\* Where a step leaves its thread.
LEMMA ThreadGoes ==
  ASSUME TypeOK, NEW t \in Threads,
         NEW label \in {"idle", "lock", "wait", "lock_callback", "unlock",
                        "unlock_callback", "set"},
         NEW r \in Resources \cup {NoRequest}, NEW keys \in SUBSET Keys,
         Goes(t, label, r, keys)
  PROVE  /\ OneThread(t)
         /\ pc'[t] = label /\ req'[t] = r /\ got'[t] = keys
<1>1. pc'[t] = label /\ req'[t] = r /\ got'[t] = keys
  BY DEF TypeOK, Goes
<1>2. \A u \in Threads \ {t} : pc'[u] = pc[u] /\ req'[u] = req[u] /\ got'[u] = got[u]
  BY DEF TypeOK, Goes
<1>3. ThreadTypes'
  BY DEF TypeOK, Goes, ThreadTypes
<1> QED BY <1>1, <1>2, <1>3 DEF OneThread

\* Every call ends in Leave.
LEMMA ThreadLeaves ==
  ASSUME TypeOK, NEW t \in Threads, Leave(t)
  PROVE  /\ OneThread(t)
         /\ pc'[t] = "idle" /\ req'[t] = NoRequest /\ got'[t] = {}
<1>1. Goes(t, "idle", NoRequest, {})
  BY DEF Leave, Goes
<1> QED BY <1>1, ThreadGoes

\* What thread t asks for and has is in order when the others are untouched.
LEMMA AskedStep ==
  ASSUME Asked, NEW t \in Threads, OneThread(t),
         pc'[t] # "idle" => req'[t] \in Resources,
         got'[t] \subseteq req'[t].keys,
         ~InLock(t)' => got'[t] = {},
         pc'[t] = "lock_callback" => got'[t] = req'[t].keys,
         pc'[t] \in {"lock", "wait"} =>
           \A k, l \in req'[t].keys : k # l => ~Conflict(k, l)
  PROVE  Asked'
BY DEF Asked, OneThread, InLock

\* A call that has ended asks for nothing.
LEMMA AskedLeave ==
  ASSUME Asked, TypeOK, NEW t \in Threads, Leave(t)
  PROVE  Asked'
<1>1. /\ OneThread(t)
      /\ pc'[t] = "idle" /\ req'[t] = NoRequest /\ got'[t] = {}
  BY ThreadLeaves
<1> QED BY <1>1, AskedStep DEF InLock

\* Steps outside SetProperty leave the counts alone.
LEMMA SameSetters ==
  ASSUME AccessesCounted, NEW t \in Threads, OneThread(t), accessing' = accessing,
         pc[t] # "set", pc'[t] # "set"
  PROVE  AccessesCounted'
<1>1. \A k \in Keys : Setters(k)' = Setters(k)
  BY DEF Setters, OneThread
<1> QED BY <1>1 DEF AccessesCounted

---------------------------------------------------------------------------
(***************************************************************************)
(* A step that gives up the keys "gone": it unlocks them, their owners     *)
(* have them no longer, the other owners have none of them, and every      *)
(* waiting thread is woken.                                                *)
(***************************************************************************)
Frees(gone) ==
  /\ locked_stream' = Unlocked(gone)
  /\ waiting' = {}
  /\ resources' \subseteq resources
  /\ \A r \in resources \ resources' : r.keys \subseteq gone
  /\ \A r \in resources' : r.keys \cap gone = {}
  /\ \A u \in Threads :
       /\ InLock(u)' => /\ InLock(u) /\ got[u] \cap gone = {}
                        /\ got'[u] = got[u] /\ req'[u] = req[u]
       /\ InLock(u) /\ ~InLock(u)' => got[u] \subseteq gone
       /\ pc'[u] = "set" => pc[u] = "set" /\ req'[u] = req[u]

\* Giving up keys preserves what relates the locks and their owners.
LEMMA FreeInv ==
  ASSUME Inv, NEW gone, Frees(gone), TypeOK', Asked', AccessesCounted'
  PROVE  Inv'
<1>0. /\ TypeOK /\ Asked /\ OwnersLock /\ OneOwner /\ SomeOwner /\ LocksExclusive
  BY DEF Inv
<1>1. \A k \in Keys : locked_stream'[k] = IF k \in gone THEN NoStream ELSE locked_stream[k]
  BY DEF Frees, Unlocked
<1>2. /\ \A r \in resources : r.keys \subseteq Keys
      /\ \A u \in Threads : got[u] \subseteq Keys
  BY <1>0 DEF TypeOK, Resources
<1>3. OwnersLock'
  <2>1. ASSUME NEW r \in resources', NEW k \in r.keys
        PROVE  locked_stream'[k] = r.stream
    BY <1>0, <1>1, <1>2 DEF Frees, OwnersLock
  <2>2. ASSUME NEW u \in Threads, InLock(u)', NEW k \in got'[u]
        PROVE  locked_stream'[k] = req'[u].stream
    BY <1>0, <1>1, <1>2, <2>2 DEF Frees, OwnersLock
  <2> QED BY <2>1, <2>2 DEF OwnersLock
<1>4. OneOwner'
  BY <1>0 DEF Frees, OneOwner
<1>5. SomeOwner'
  <2> SUFFICES ASSUME NEW k \in Keys, locked_stream'[k] # NoStream
               PROVE  \/ \E r \in resources' : k \in r.keys
                      \/ \E t \in Threads : InLock(t)' /\ k \in got'[t]
    BY DEF SomeOwner
  <2>1. k \notin gone /\ locked_stream[k] # NoStream
    BY <1>1
  <2>2. CASE \E r \in resources : k \in r.keys
    BY <2>1, <2>2 DEF Frees
  <2>3. CASE \E t \in Threads : InLock(t) /\ k \in got[t]
    <3>1. PICK t \in Threads : InLock(t) /\ k \in got[t]
      BY <2>3
    <3>2. InLock(t)' /\ got'[t] = got[t]
      BY <3>1, <2>1 DEF Frees
    <3> QED BY <3>1, <3>2
  <2> QED BY <1>0, <2>1, <2>2, <2>3 DEF SomeOwner
<1>6. LocksExclusive'
  <2> SUFFICES ASSUME NEW k \in Keys, NEW l \in Keys, Conflict(k, l),
                      locked_stream'[k] # NoStream
               PROVE  /\ l = k \/ locked_stream'[l] = NoStream
                      /\ \A t \in Threads : pc'[t] = "set" /\ l \in req'[t].keys =>
                           req'[t].stream = locked_stream'[k]
    BY DEF LocksExclusive
  <2> QED BY <1>0, <1>1 DEF LocksExclusive, Frees
<1>7. WaitersAreBlocked'
  BY DEF Frees, WaitersAreBlocked
<1> QED BY <1>3, <1>4, <1>5, <1>6, <1>7 DEF Inv

\* The rollback of a LockProperty gives up what it has got.
LEMMA RollbackInv ==
  ASSUME Inv, NEW t \in Threads, pc[t] \in {"lock", "wait", "lock_callback"},
         Rollback(t), UNCHANGED <<phase, accessing, undefined, calls>>
  PROVE  Inv'
<1>0. /\ TypeOK /\ Asked /\ AccessesCounted /\ OneOwner
  BY DEF Inv
<1>1. /\ OneThread(t)
      /\ pc'[t] = "idle" /\ req'[t] = NoRequest /\ got'[t] = {}
  BY <1>0, ThreadLeaves DEF Rollback
<1>2. Asked' /\ AccessesCounted'
  BY <1>0, <1>1, AskedLeave, SameSetters DEF Rollback
<1>3. TypeOK'
  BY <1>0, <1>1 DEF TypeOK, OneThread, ThreadTypes, Rollback, Unlocked
<1>4. InLock(t) \/ got[t] = {}
  BY <1>0 DEF Asked
<1>5. Frees(got[t])
  <2>1. /\ locked_stream' = Unlocked(got[t]) /\ waiting' = {} /\ resources' = resources
    BY DEF Rollback
  <2>2. \A r \in resources : r.keys \cap got[t] = {}
    BY <1>0, <1>4 DEF OneOwner
  <2>3. ~InLock(t)' /\ pc'[t] # "set"
    BY <1>1 DEF InLock
  <2>4. ASSUME NEW u \in Threads, u # t
        PROVE  /\ InLock(u)' <=> InLock(u)
               /\ InLock(u) => got[u] \cap got[t] = {}
               /\ got'[u] = got[u] /\ req'[u] = req[u] /\ pc'[u] = pc[u]
    BY <1>0, <1>1, <1>4, <2>4 DEF OneThread, OneOwner, InLock
  <2> QED BY <2>1, <2>2, <2>3, <2>4 DEF Frees
<1> QED BY <1>2, <1>3, <1>5, FreeInv

---------------------------------------------------------------------------
(***************************************************************************)
(* A step that takes the keys "new" for thread t: they could be locked,    *)
(* and are locked now for the stream of the call, which has them           *)
(* in its list or in a new resource.                                       *)
(***************************************************************************)
Takes(t, new) ==
  /\ locked_stream' = [k \in Keys |-> IF k \in new THEN req[t].stream ELSE locked_stream[k]]
  /\ accessing' = accessing
  /\ OneThread(t)
  /\ pc'[t] # "set"
  /\ \/ /\ InLock(t)'
        /\ got'[t] = got[t] \cup new /\ req'[t] = req[t]
        /\ resources' = resources
     \/ /\ ~InLock(t)'
        /\ got[t] \cup new = req[t].keys
        /\ resources' = resources \cup {req[t]}

\* Taking keys that can be locked preserves what relates locks and owners.
LEMMA TakeInv ==
  ASSUME Inv, NEW t \in Threads, pc[t] \in {"lock", "wait"}, NEW new,
         new \subseteq req[t].keys \ got[t], \A k \in new : Lockable(k),
         Takes(t, new)
  PROVE  OwnersLock' /\ OneOwner' /\ SomeOwner' /\ LocksExclusive'
<1> DEFINE s == req[t].stream
<1>0. /\ TypeOK /\ Asked /\ OwnersLock /\ OneOwner /\ SomeOwner
      /\ AccessesCounted /\ LocksExclusive
  BY DEF Inv
<1>1. /\ req[t] \in Resources /\ s \in Streams /\ s # NoStream
      /\ req[t].keys \subseteq Keys /\ new \subseteq Keys
      /\ got[t] \subseteq req[t].keys
      /\ \A k, l \in req[t].keys : k # l => ~Conflict(k, l)
  BY <1>0, NoStreamAssumption DEF Asked, Resources
<1>2. /\ \A r \in resources : r.keys \subseteq Keys /\ r.stream \in Streams
      /\ \A u \in Threads : got[u] \subseteq Keys
  BY <1>0 DEF TypeOK, Resources
<1>3. \A k \in Keys : locked_stream'[k] = IF k \in new THEN s ELSE locked_stream[k]
  BY DEF Takes
<1>4. \A k \in new : \A l \in Keys : Conflict(k, l) =>
        locked_stream[l] = NoStream /\ accessing[l] = 0
  BY DEF Lockable, IsLockable
<1>5. \A k \in new : locked_stream[k] = NoStream
  BY <1>1, <1>4, ConflictSymmetric
<1>6. \A r \in resources : \A k \in r.keys : k \notin new
  BY <1>0, <1>2, <1>5, NoStreamAssumption DEF OwnersLock
<1>7. \A u \in Threads : InLock(u) => \A k \in got[u] : k \notin new
  <2> SUFFICES ASSUME NEW u \in Threads, InLock(u), NEW k \in got[u] PROVE k \notin new
    OBVIOUS
  <2>1. locked_stream[k] = req[u].stream /\ req[u].stream \in Streams
    BY <1>0 DEF OwnersLock, Asked, InLock, Resources
  <2> QED BY <2>1, <1>5, NoStreamAssumption
<1>8. InLock(t) \/ got[t] = {}
  BY <1>0 DEF Asked
<1>9. \A u \in Threads \ {t} :
        (InLock(u)' <=> InLock(u)) /\ got'[u] = got[u] /\ req'[u] = req[u] /\ pc'[u] = pc[u]
  BY DEF Takes, OneThread, InLock
<1>10. OwnersLock'
  <2>1. \A k \in got[t] \cup new : locked_stream'[k] = s
    BY <1>0, <1>1, <1>3, <1>5, <1>8 DEF OwnersLock
  <2>2. \A r \in resources : \A k \in r.keys : locked_stream'[k] = r.stream
    BY <1>0, <1>2, <1>3, <1>6 DEF OwnersLock
  <2>3. \A u \in Threads \ {t} :
          InLock(u)' => \A k \in got'[u] : locked_stream'[k] = req'[u].stream
    BY <1>0, <1>2, <1>3, <1>7, <1>9 DEF OwnersLock
  <2>4. \A r \in resources' : \A k \in r.keys : locked_stream'[k] = r.stream
    BY <2>1, <2>2 DEF Takes
  <2>5. InLock(t)' => \A k \in got'[t] : locked_stream'[k] = req'[t].stream
    BY <2>1 DEF Takes
  <2> QED BY <2>3, <2>4, <2>5 DEF OwnersLock
<1>11. OneOwner'
  <2>1. \A k \in got[t] \cup new :
          /\ \A r \in resources : k \notin r.keys
          /\ \A u \in Threads \ {t} : InLock(u) => k \notin got[u]
    BY <1>0, <1>6, <1>7, <1>8 DEF OneOwner
  <2>2. CASE InLock(t)'
    <3>1. got'[t] = got[t] \cup new /\ resources' = resources
      BY <2>2 DEF Takes
    <3>2. \A r, q \in resources' : \A k \in r.keys : k \in q.keys => r = q
      BY <3>1, <1>0 DEF OneOwner
    <3>3. \A u, v \in Threads : InLock(u)' /\ InLock(v)' =>
            \A k \in got'[u] : k \in got'[v] => u = v
      BY <3>1, <2>1, <1>0, <1>9 DEF OneOwner
    <3>4. \A u \in Threads, r \in resources' : InLock(u)' => \A k \in got'[u] : k \notin r.keys
      BY <3>1, <2>1, <1>0, <1>9 DEF OneOwner
    <3> QED BY <3>2, <3>3, <3>4 DEF OneOwner
  <2>3. CASE ~InLock(t)'
    <3>1. got[t] \cup new = req[t].keys /\ resources' = resources \cup {req[t]}
      BY <2>3 DEF Takes
    <3>2. \A r, q \in resources' : \A k \in r.keys : k \in q.keys => r = q
      BY <3>1, <2>1, <1>0 DEF OneOwner
    <3>3. \A u, v \in Threads : InLock(u)' /\ InLock(v)' =>
            \A k \in got'[u] : k \in got'[v] => u = v
      BY <2>3, <1>0, <1>9 DEF OneOwner
    <3>4. \A u \in Threads, r \in resources' : InLock(u)' => \A k \in got'[u] : k \notin r.keys
      BY <3>1, <2>1, <2>3, <1>0, <1>9 DEF OneOwner
    <3> QED BY <3>2, <3>3, <3>4 DEF OneOwner
  <2> QED BY <2>2, <2>3
<1>12. SomeOwner'
  <2> SUFFICES ASSUME NEW k \in Keys, locked_stream'[k] # NoStream
               PROVE  \/ \E r \in resources' : k \in r.keys
                      \/ \E u \in Threads : InLock(u)' /\ k \in got'[u]
    BY DEF SomeOwner
  <2>1. CASE k \in got[t] \cup new
    BY <2>1 DEF Takes
  <2>2. CASE k \notin got[t] \cup new
    <3>1. locked_stream[k] # NoStream
      BY <2>2, <1>3
    <3>2. CASE \E r \in resources : k \in r.keys
      BY <3>2 DEF Takes
    <3>3. CASE \E u \in Threads : InLock(u) /\ k \in got[u]
      <4>1. PICK u \in Threads : InLock(u) /\ k \in got[u]
        BY <3>3
      <4>2. u # t
        BY <4>1, <2>2
      <4> QED BY <4>1, <4>2, <1>9
    <3> QED BY <1>0, <3>1, <3>2, <3>3 DEF SomeOwner
  <2> QED BY <2>1, <2>2
<1>13. LocksExclusive'
  <2> SUFFICES ASSUME NEW k \in Keys, NEW l \in Keys, Conflict(k, l),
                      locked_stream'[k] # NoStream
               PROVE  /\ l = k \/ locked_stream'[l] = NoStream
                      /\ \A u \in Threads : pc'[u] = "set" /\ l \in req'[u].keys =>
                           req'[u].stream = locked_stream'[k]
    BY DEF LocksExclusive
  <2>1. \A u \in Threads : pc'[u] = "set" => pc[u] = "set" /\ req'[u] = req[u]
    BY <1>9 DEF Takes
  <2>2. CASE k \in new
    <3>1. locked_stream[l] = NoStream /\ accessing[l] = 0
      BY <2>2, <1>4
    <3>2. l = k \/ locked_stream'[l] = NoStream
      BY <3>1, <2>2, <1>1, <1>3
    <3>3. \A u \in Threads : ~(pc'[u] = "set" /\ l \in req'[u].keys)
      BY <3>1, <2>1, <1>0, SetNotLockable
    <3> QED BY <3>2, <3>3
  <2>3. CASE k \notin new
    <3>1. locked_stream'[k] = locked_stream[k] /\ l \notin new
      BY <2>3, <1>3, <1>4, ConflictSymmetric
    <3> QED BY <3>1, <2>1, <1>0, <1>3 DEF LocksExclusive
  <2> QED BY <2>2, <2>3
<1> QED BY <1>10, <1>11, <1>12, <1>13

\* After the loop over the keys the thread waits for a key that is locked,
\* and those that were waiting still have to.
LEMMA AcquireWaiters ==
  ASSUME Inv, NEW t \in Threads, pc[t] \in {"lock", "wait"}, t \notin waiting,
         IsOpenedStream(req[t].stream), phase' = phase, accessing' = accessing,
         OneThread(t),
         NEW new, new = Obtainable(req[t].keys \ got[t]),
         locked_stream' = [k \in Keys |-> IF k \in new THEN req[t].stream ELSE locked_stream[k]],
         \/ waiting' = waiting
         \/ /\ waiting' = waiting \cup {t}
            /\ pc'[t] = "wait" /\ req'[t] = req[t] /\ got'[t] = got[t] \cup new
  PROVE  WaitersAreBlocked'
<1>0. TypeOK /\ Asked /\ WaitersAreBlocked
  BY DEF Inv
<1>1. req[t].stream # NoStream /\ req[t].keys \subseteq Keys /\ new \subseteq req[t].keys \ got[t]
  BY <1>0, ObtainableLockable, NoStreamAssumption DEF Asked, Resources
<1>2. \A k \in Keys : IsLockable(k)' => IsLockable(k) /\ k \notin new
  BY <1>1 DEF IsLockable
<1>3. ASSUME NEW u \in waiting
      PROVE  /\ pc'[u] = "wait"
             /\ phase'[req'[u].stream] \in {"opened", "closing", "removed"}
             /\ Obtainable(req[u].keys \ got[u])' = {}
  <2>1. u \in Threads /\ u # t
    BY <1>0 DEF TypeOK
  <2>2. pc'[u] = pc[u] /\ req'[u] = req[u] /\ got'[u] = got[u]
    BY <2>1 DEF OneThread
  <2> DEFINE missing == req[u].keys \ got[u]
  <2>3. missing \subseteq Keys /\ Obtainable(missing) = {}
    BY <1>0, <2>1 DEF TypeOK, Resources, NoRequest, WaitersAreBlocked
  <2> HIDE DEF missing
  <2>4. \A k \in Keys : Lockable(k)' => Lockable(k)
    BY <1>2 DEF Lockable
  <2>5. {k \in missing : \A l \in missing : Rank[l] <= Rank[k] => Lockable(l)'} = {}
    BY <2>3, <2>4 DEF Obtainable
  <2>6. Obtainable(req[u].keys \ got[u])' = {}
    BY <2>2, <2>5 DEF Obtainable, missing
  <2> QED BY <1>0, <2>2, <2>6 DEF WaitersAreBlocked
<1>4. ASSUME pc'[t] = "wait", req'[t] = req[t], got'[t] = got[t] \cup new
      PROVE  /\ pc'[t] = "wait"
             /\ phase'[req'[t].stream] \in {"opened", "closing", "removed"}
             /\ Obtainable(req[t].keys \ got[t])' = {}
  <2> DEFINE before == req[t].keys \ got[t]
             after == req[t].keys \ (got[t] \cup new)
  <2>1. \A k \in Keys : Lockable(k)' => Lockable(k)
    BY <1>2 DEF Lockable
  <2>2. ASSUME NEW k \in after, \A l \in after : Rank[l] <= Rank[k] => Lockable(l)'
        PROVE  FALSE
    <3>1. PICK l \in before : Rank[l] <= Rank[k] /\ ~Lockable(l)
      BY <2>2 DEF Obtainable
    <3>2. l \notin new
      BY <3>1, <1>1, ObtainableLockable
    <3>3. l \in after /\ l \in Keys
      BY <3>1, <3>2, <1>1
    <3> QED BY <3>1, <3>3, <2>1, <2>2
  <2>3. Obtainable(req[t].keys \ got[t])' = {}
    BY <2>2, <1>4 DEF Obtainable
  <2> QED BY <2>3, <1>4 DEF IsOpenedStream
<1> QED BY <1>3, <1>4 DEF WaitersAreBlocked

\* LockProperty, from its start or from a wakeup to its end or to a wait.
LEMMA AcquireInv ==
  ASSUME Inv, NEW t \in Threads, pc[t] \in {"lock", "wait"}, t \notin waiting,
         IsOpenedStream(req[t].stream), Acquire(t, req[t], got[t]),
         UNCHANGED <<phase, accessing, undefined, calls>>
  PROVE  Inv'
<1> DEFINE r == req[t]
           new == Obtainable(r.keys \ got[t])
<1>0. TypeOK /\ Asked /\ AccessesCounted
  BY DEF Inv
<1>1. /\ r \in Resources /\ r.keys \subseteq Keys /\ r.stream \in Streams
      /\ got[t] \subseteq r.keys /\ got[t] \in SUBSET Keys
      /\ \A k, l \in r.keys : k # l => ~Conflict(k, l)
  BY <1>0 DEF Asked, Resources
<1>2. new \subseteq r.keys \ got[t] /\ \A k \in new : Lockable(k)
  BY <1>1, ObtainableLockable
<1>3. locked_stream' = [k \in Keys |-> IF k \in new THEN r.stream ELSE locked_stream[k]]
  BY DEF Acquire
<1>4. \/ /\ Goes(t, "wait", r, got[t] \cup new)
         /\ waiting' = waiting \cup {t} /\ resources' = resources
      \/ /\ got[t] \cup new = r.keys
         /\ Goes(t, "lock_callback", r, r.keys)
         /\ waiting' = waiting /\ resources' = resources
      \/ /\ got[t] \cup new = r.keys
         /\ Leave(t)
         /\ waiting' = waiting /\ resources' = resources \cup {r}
  BY DEF Acquire, Goes
<1> HIDE DEF new
<1>5. /\ OneThread(t) /\ Takes(t, new) /\ Asked' /\ pc'[t] # "set"
      /\ \/ waiting' = waiting
         \/ /\ waiting' = waiting \cup {t}
            /\ pc'[t] = "wait" /\ req'[t] = req[t] /\ got'[t] = got[t] \cup new
      /\ resources' \subseteq resources \cup {r}
  <2>1. CASE /\ Goes(t, "wait", r, got[t] \cup new)
             /\ waiting' = waiting \cup {t} /\ resources' = resources
    <3>1. /\ OneThread(t)
          /\ pc'[t] = "wait" /\ req'[t] = r /\ got'[t] = got[t] \cup new
      <4>1. got[t] \cup new \in SUBSET Keys
        BY <1>1, <1>2
      <4> QED BY <1>0, <1>1, <4>1, <2>1, ThreadGoes
    <3>2. Takes(t, new)
      BY <3>1, <2>1, <1>3 DEF Takes, InLock
    <3>3. Asked'
      <4>1. got'[t] \subseteq req'[t].keys
        BY <3>1, <1>1, <1>2
      <4> QED BY <1>0, <1>1, <3>1, <4>1, AskedStep DEF InLock
    <3> QED BY <3>1, <3>2, <3>3, <2>1
  <2>2. CASE /\ got[t] \cup new = r.keys
             /\ Goes(t, "lock_callback", r, r.keys)
             /\ waiting' = waiting /\ resources' = resources
    <3>1. /\ OneThread(t)
          /\ pc'[t] = "lock_callback" /\ req'[t] = r /\ got'[t] = r.keys
      BY <1>0, <1>1, <2>2, ThreadGoes
    <3>2. Takes(t, new)
      BY <3>1, <2>2, <1>3 DEF Takes, InLock
    <3>3. Asked'
      BY <1>0, <1>1, <3>1, AskedStep DEF InLock
    <3> QED BY <3>1, <3>2, <3>3, <2>2
  <2>3. CASE /\ got[t] \cup new = r.keys
             /\ Leave(t)
             /\ waiting' = waiting /\ resources' = resources \cup {r}
    <3>1. /\ OneThread(t)
          /\ pc'[t] = "idle" /\ req'[t] = NoRequest /\ got'[t] = {}
      BY <1>0, <2>3, ThreadLeaves
    <3>2. Takes(t, new)
      BY <3>1, <2>3, <1>3 DEF Takes, InLock
    <3>3. Asked'
      BY <1>0, <2>3, AskedLeave
    <3> QED BY <3>1, <3>2, <3>3, <2>3
  <2> QED BY <1>4, <2>1, <2>2, <2>3
<1>6. TypeOK'
  BY <1>0, <1>1, <1>3, <1>5 DEF TypeOK, OneThread, ThreadTypes
<1>7. AccessesCounted'
  BY <1>0, <1>5, SameSetters
<1>8. OwnersLock' /\ OneOwner' /\ SomeOwner' /\ LocksExclusive'
  BY <1>2, <1>5, TakeInv
<1>9. WaitersAreBlocked'
  <2>1. new = Obtainable(req[t].keys \ got[t]) /\ phase' = phase /\ accessing' = accessing
    BY DEF new
  <2>2. /\ OneThread(t)
        /\ \/ waiting' = waiting
           \/ /\ waiting' = waiting \cup {t}
              /\ pc'[t] = "wait" /\ req'[t] = req[t] /\ got'[t] = got[t] \cup new
    BY <1>5
  <2>3. locked_stream' =
          [k \in Keys |-> IF k \in new THEN req[t].stream ELSE locked_stream[k]]
    BY <1>3
  <2> QED BY <2>1, <2>2, <2>3, AcquireWaiters, Zenon
<1> QED BY <1>5, <1>6, <1>7, <1>8, <1>9 DEF Inv

---------------------------------------------------------------------------
(***************************************************************************)
(* A step of a thread that has no key, before or after, and leaves the     *)
(* lock table alone.                                                       *)
(***************************************************************************)
NoLockStep(t) ==
  /\ OneThread(t) /\ Asked'
  /\ ~InLock(t) /\ ~InLock(t)' /\ pc[t] # "set" /\ pc'[t] # "set"
  /\ UNCHANGED <<phase, locked_stream, accessing, resources, waiting>>
  /\ undefined' \in BOOLEAN /\ calls' \in Nat

\* Such a step preserves the invariant.
LEMMA NoLockInv ==
  ASSUME Inv, NEW t \in Threads, NoLockStep(t)
  PROVE  Inv'
<1>0. /\ TypeOK /\ Asked /\ OwnersLock /\ OneOwner /\ SomeOwner
      /\ AccessesCounted /\ LocksExclusive /\ WaitersAreBlocked
  BY DEF Inv
<1>1. /\ phase' = phase /\ locked_stream' = locked_stream /\ accessing' = accessing
      /\ resources' = resources /\ waiting' = waiting
      /\ ~InLock(t) /\ ~InLock(t)' /\ pc[t] # "set" /\ pc'[t] # "set"
      /\ OneThread(t) /\ Asked'
  BY DEF NoLockStep
<1>2. \A u \in Threads :
        /\ InLock(u)' <=> InLock(u)
        /\ InLock(u) => got'[u] = got[u] /\ req'[u] = req[u]
        /\ pc'[u] = "set" => pc[u] = "set" /\ req'[u] = req[u]
  BY <1>1 DEF OneThread, InLock
<1>3. TypeOK'
  BY <1>0, <1>1 DEF TypeOK, OneThread, ThreadTypes, NoLockStep
<1>4. AccessesCounted'
  BY <1>0, <1>1, SameSetters
<1>5. OwnersLock' /\ OneOwner' /\ SomeOwner'
  BY <1>0, <1>1, <1>2 DEF OwnersLock, OneOwner, SomeOwner
<1>6. LocksExclusive'
  BY <1>0, <1>1, <1>2 DEF LocksExclusive
<1>7. WaitersAreBlocked'
  <2> SUFFICES ASSUME NEW u \in waiting
               PROVE  /\ pc'[u] = "wait"
                      /\ phase'[req'[u].stream] \in {"opened", "closing", "removed"}
                      /\ Obtainable(req[u].keys \ got[u])' = {}
    BY <1>1 DEF WaitersAreBlocked
  <2>1. u \in Threads /\ u # t
    BY <1>0, <1>1 DEF TypeOK, WaitersAreBlocked, InLock
  <2>2. pc'[u] = pc[u] /\ req'[u] = req[u] /\ got'[u] = got[u]
    BY <1>1, <2>1 DEF OneThread
  <2>3. \A k \in Keys : Lockable(k)' = Lockable(k)
    BY <1>1 DEF Lockable, IsLockable
  <2>4. req[u].keys \ got[u] \subseteq Keys
    BY <1>0, <2>1 DEF TypeOK, Resources, NoRequest
  <2>5. Obtainable(req[u].keys \ got[u])' = Obtainable(req[u].keys \ got[u])
    BY <2>2, <2>3, <2>4 DEF Obtainable
  <2> QED BY <1>0, <1>1, <2>2, <2>5 DEF WaitersAreBlocked
<1> QED BY <1>1, <1>3, <1>4, <1>5, <1>6, <1>7 DEF Inv

\* A step of the Close of a stream that leaves the lock table alone.
LEMMA PhaseInv ==
  ASSUME Inv, NEW s \in Streams, NEW p \in Phases,
         phase' = [phase EXCEPT ![s] = p],
         \/ phase[s] \notin {"opened", "closing", "removed"}
         \/ p \in {"opened", "closing", "removed"},
         UNCHANGED <<locked_stream, resources, waiting, close_vars>>
  PROVE  Inv'
<1>0. /\ TypeOK /\ Asked /\ OwnersLock /\ OneOwner /\ SomeOwner
      /\ AccessesCounted /\ LocksExclusive /\ WaitersAreBlocked
  BY DEF Inv
<1>1. /\ locked_stream' = locked_stream /\ accessing' = accessing
      /\ resources' = resources /\ waiting' = waiting /\ pc' = pc
      /\ req' = req /\ got' = got /\ undefined' = undefined /\ calls' = calls
  BY DEF close_vars
<1>2. TypeOK'
  BY <1>0, <1>1 DEF TypeOK
<1>3. Asked' /\ OwnersLock' /\ OneOwner' /\ SomeOwner'
  BY <1>0, <1>1 DEF Asked, OwnersLock, OneOwner, SomeOwner, InLock
<1>4. AccessesCounted' /\ LocksExclusive'
  <2>1. \A k \in Keys : Setters(k)' = Setters(k)
    BY <1>1 DEF Setters
  <2> QED BY <1>0, <1>1, <2>1 DEF AccessesCounted, LocksExclusive
<1>5. WaitersAreBlocked'
  <2>1. ASSUME NEW u \in waiting
        PROVE  phase'[req[u].stream] \in {"opened", "closing", "removed"}
    <3>1. req[u].stream \in Streams
      BY <1>0 DEF TypeOK, Asked, WaitersAreBlocked, Resources
    <3>2. phase[req[u].stream] \in {"opened", "closing", "removed"}
      BY <1>0 DEF WaitersAreBlocked
    <3> QED BY <1>0, <3>1, <3>2 DEF TypeOK
  <2>2. \A keys : Obtainable(keys)' = Obtainable(keys)
    BY <1>1 DEF Obtainable, Lockable, IsLockable
  <2> QED BY <1>0, <1>1, <2>1, <2>2 DEF WaitersAreBlocked
<1> QED BY <1>2, <1>3, <1>4, <1>5 DEF Inv

\* UnlockProperty: the keys of one resource are given up.
LEMMA ReleaseInv ==
  ASSUME Inv, NEW t \in Threads, pc[t] \in {"unlock", "unlock_callback"},
         req[t] \in resources, ReleaseResource(req[t]), Leave(t),
         UNCHANGED <<phase, accessing, undefined, calls>>
  PROVE  Inv'
<1>0. /\ TypeOK /\ Asked /\ AccessesCounted /\ OneOwner
  BY DEF Inv
<1>1. /\ OneThread(t)
      /\ pc'[t] = "idle" /\ req'[t] = NoRequest /\ got'[t] = {}
  BY <1>0, ThreadLeaves
<1>2. Asked' /\ AccessesCounted'
  BY <1>0, <1>1, AskedLeave, SameSetters
<1>3. TypeOK'
  BY <1>0, <1>1 DEF TypeOK, OneThread, ThreadTypes, ReleaseResource, Unlocked
<1>4. Frees(req[t].keys)
  <2>1. /\ locked_stream' = Unlocked(req[t].keys) /\ waiting' = {}
        /\ resources' = resources \ {req[t]}
    BY DEF ReleaseResource
  <2>2. \A r \in resources' : r.keys \cap req[t].keys = {}
    BY <1>0, <2>1 DEF OneOwner
  <2>3. \A u \in Threads :
          /\ InLock(u)' <=> InLock(u)
          /\ InLock(u) => /\ got[u] \cap req[t].keys = {}
                          /\ got'[u] = got[u] /\ req'[u] = req[u]
          /\ pc'[u] = "set" => pc[u] = "set" /\ req'[u] = req[u]
    BY <1>0, <1>1 DEF OneThread, OneOwner, InLock
  <2> QED BY <2>1, <2>2, <2>3 DEF Frees
<1> QED BY <1>2, <1>3, <1>4, FreeInv

\* The Close of a stream takes its resources away.
LEMMA ForceUnlockInv ==
  ASSUME Inv, NEW s \in Streams, ForceUnlockProperty(s)
  PROVE  Inv'
<1> DEFINE mine == {r \in resources : r.stream = s}
           gone == UNION {r.keys : r \in mine}
<1>0. /\ TypeOK /\ Asked /\ AccessesCounted /\ OneOwner
  BY DEF Inv
<1>1. /\ phase' = [phase EXCEPT ![s] = "forced"]
      /\ locked_stream' = Unlocked(gone) /\ resources' = resources \ mine /\ waiting' = {}
      /\ accessing' = accessing /\ pc' = pc
      /\ req' = req /\ got' = got /\ undefined' = undefined /\ calls' = calls
  BY DEF ForceUnlockProperty, close_vars
<1>2. TypeOK'
  BY <1>0, <1>1 DEF TypeOK, Unlocked, Phases
<1>3. Asked' /\ AccessesCounted'
  <2>1. \A k \in Keys : Setters(k)' = Setters(k)
    BY <1>1 DEF Setters
  <2> QED BY <1>0, <1>1, <2>1 DEF Asked, AccessesCounted, InLock
<1>4. Frees(gone)
  <2>1. \A r \in resources' : r.keys \cap gone = {}
    BY <1>0, <1>1 DEF OneOwner
  <2>2. \A u \in Threads : InLock(u) => got[u] \cap gone = {}
    BY <1>0 DEF OneOwner
  <2>3. \A r \in resources \ resources' : r.keys \subseteq gone
    BY <1>1
  <2> HIDE DEF gone
  <2> QED BY <1>1, <2>1, <2>2, <2>3 DEF Frees, InLock
<1> QED BY <1>2, <1>3, <1>4, FreeInv

\* StartPropertyAccess: nobody else has the property, and it is counted.
LEMMA StartAccessInv ==
  ASSUME Inv, NEW t \in Threads, NEW s \in Streams, NEW k \in Keys,
         StartPropertyAccess(t, s, k)
  PROVE  Inv'
<1>0. /\ TypeOK /\ Asked /\ OwnersLock /\ OneOwner /\ SomeOwner
      /\ AccessesCounted /\ LocksExclusive /\ WaitersAreBlocked
  BY DEF Inv
<1> DEFINE r == [stream |-> s, keys |-> {k}]
<1>1. r \in Resources
  BY DEF Resources
<1>2. /\ pc[t] = "idle" /\ got[t] = {} /\ got' = got
      /\ phase' = phase /\ locked_stream' = locked_stream /\ resources' = resources
      /\ waiting' = waiting /\ undefined' = undefined /\ calls' = calls + 1
      /\ accessing' = [accessing EXCEPT ![k] = @ + 1]
      /\ Settable(s, k)
  BY <1>0 DEF StartPropertyAccess, Asked, InLock
<1>3. Goes(t, "set", r, {})
  BY <1>0, <1>2 DEF StartPropertyAccess, Goes, TypeOK
<1>4. OneThread(t) /\ pc'[t] = "set" /\ req'[t] = r /\ got'[t] = {}
  BY <1>0, <1>1, <1>3, ThreadGoes
<1>5. \A u \in Threads \ {t} : /\ pc'[u] = pc[u] /\ req'[u] = req[u] /\ got'[u] = got[u]
                               /\ InLock(u)' <=> InLock(u)
  BY <1>4 DEF OneThread, InLock
<1>6. ~InLock(t) /\ ~InLock(t)'
  BY <1>2, <1>4 DEF InLock
<1>7. TypeOK'
  BY <1>0, <1>2, <1>4 DEF TypeOK, OneThread, ThreadTypes
<1>8. Asked'
  BY <1>0, <1>1, <1>4, AskedStep DEF InLock
<1>9. OwnersLock' /\ OneOwner' /\ SomeOwner'
  <2>1. \A u \in Threads : /\ InLock(u)' <=> InLock(u)
                           /\ InLock(u) => got'[u] = got[u] /\ req'[u] = req[u]
    BY <1>5, <1>6
  <2> QED BY <2>1, <1>0, <1>2 DEF OwnersLock, OneOwner, SomeOwner
<1>10. AccessesCounted'
  <2> SUFFICES ASSUME NEW l \in Keys
               PROVE  IsFiniteSet(Setters(l)') /\ accessing'[l] = Cardinality(Setters(l)')
    BY DEF AccessesCounted
  <2>1. IsFiniteSet(Setters(l)) /\ accessing[l] = Cardinality(Setters(l))
    BY <1>0 DEF AccessesCounted
  <2>2. CASE l = k
    <3>1. Setters(l)' = Setters(l) \cup {t} /\ t \notin Setters(l)
      BY <2>2, <1>2, <1>4, <1>5 DEF Setters
    <3>2. /\ IsFiniteSet(Setters(l) \cup {t})
          /\ Cardinality(Setters(l) \cup {t}) = Cardinality(Setters(l)) + 1
      BY <2>1, <3>1, FS_AddElement
    <3>3. accessing'[l] = accessing[l] + 1
      BY <2>2, <1>0, <1>2 DEF TypeOK
    <3> QED BY <2>1, <3>1, <3>2, <3>3
  <2>3. CASE l # k
    <3>1. Setters(l)' = Setters(l)
      BY <2>3, <1>2, <1>4, <1>5 DEF Setters
    <3>2. accessing'[l] = accessing[l]
      BY <2>3, <1>0, <1>2 DEF TypeOK
    <3> QED BY <2>1, <3>1, <3>2
  <2> QED BY <2>2, <2>3
<1>11. LocksExclusive'
  <2> SUFFICES ASSUME NEW i \in Keys, NEW j \in Keys, Conflict(i, j),
                      locked_stream[i] # NoStream
               PROVE  /\ j = i \/ locked_stream[j] = NoStream
                      /\ \A u \in Threads : pc'[u] = "set" /\ j \in req'[u].keys =>
                           req'[u].stream = locked_stream[i]
    BY <1>2 DEF LocksExclusive
  <2>1. j \in req'[t].keys => req'[t].stream = locked_stream[i]
    BY <1>2, <1>4, ConflictSymmetric DEF Settable
  <2> QED BY <2>1, <1>0, <1>5 DEF LocksExclusive
<1>12. WaitersAreBlocked'
  <2> SUFFICES ASSUME NEW u \in waiting
               PROVE  /\ pc'[u] = "wait"
                      /\ phase'[req'[u].stream] \in {"opened", "closing", "removed"}
                      /\ Obtainable(req[u].keys \ got[u])' = {}
    BY <1>2 DEF WaitersAreBlocked
  <2>1. u \in Threads /\ u # t
    BY <1>0, <1>2 DEF TypeOK, WaitersAreBlocked
  <2>2. pc'[u] = pc[u] /\ req'[u] = req[u] /\ got'[u] = got[u]
    BY <1>5, <2>1
  <2>3. \A l \in Keys : IsLockable(l)' => IsLockable(l)
    BY <1>0, <1>2 DEF IsLockable, TypeOK
  <2>4. \A l \in Keys : Lockable(l)' => Lockable(l)
    BY <2>3 DEF Lockable
  <2>5. req[u].keys \ got[u] \subseteq Keys
    BY <1>0, <2>1 DEF TypeOK, Resources, NoRequest
  <2>6. Obtainable(req[u].keys \ got[u]) = {}
    BY <1>0 DEF WaitersAreBlocked
  <2>7. Obtainable(req[u].keys \ got[u])' = {}
    BY <2>2, <2>4, <2>5, <2>6 DEF Obtainable
  <2> QED BY <1>0, <1>2, <2>2, <2>7 DEF WaitersAreBlocked
<1> QED BY <1>7, <1>8, <1>9, <1>10, <1>11, <1>12 DEF Inv

\* EndPropertyAccess: the count of the entry goes down, and all are woken.
LEMMA EndAccessInv ==
  ASSUME Inv, NEW t \in Threads, EndPropertyAccess(t)
  PROVE  Inv'
<1>0. TypeOK /\ Asked /\ AccessesCounted
  BY DEF Inv
<1>1. /\ pc[t] = "set" /\ Leave(t) /\ waiting' = {}
      /\ accessing' = [k \in Keys |->
                         IF k \in req[t].keys THEN accessing[k] - 1 ELSE accessing[k]]
      /\ phase' = phase /\ locked_stream' = locked_stream /\ resources' = resources
      /\ undefined' = undefined /\ calls' = calls
  BY DEF EndPropertyAccess
<1>2. /\ OneThread(t)
      /\ pc'[t] = "idle" /\ req'[t] = NoRequest /\ got'[t] = {}
  BY <1>0, <1>1, ThreadLeaves
<1>3. Asked'
  BY <1>0, <1>1, AskedLeave
<1>4. ASSUME NEW k \in Keys
      PROVE  /\ accessing'[k] \in Nat
             /\ IsFiniteSet(Setters(k)') /\ accessing'[k] = Cardinality(Setters(k)')
  <2>1. /\ IsFiniteSet(Setters(k)) /\ accessing[k] = Cardinality(Setters(k))
        /\ accessing[k] \in Nat
    BY <1>0 DEF AccessesCounted, TypeOK
  <2>2. Setters(k)' = Setters(k) \ {t}
    BY <1>2 DEF Setters, OneThread
  <2>3. /\ IsFiniteSet(Setters(k) \ {t})
        /\ Cardinality(Setters(k) \ {t}) =
             IF t \in Setters(k) THEN Cardinality(Setters(k)) - 1 ELSE Cardinality(Setters(k))
    BY <2>1, FS_RemoveElement
  <2>4. Cardinality(Setters(k) \ {t}) \in Nat
    BY <2>3, FS_CardinalityType
  <2>5. t \in Setters(k) <=> k \in req[t].keys
    BY <1>1 DEF Setters
  <2> QED BY <1>1, <2>1, <2>2, <2>3, <2>4, <2>5
<1>5. AccessesCounted'
  BY <1>4 DEF AccessesCounted
<1>6. TypeOK'
  <2>1. accessing' \in [Keys -> Nat]
    BY <1>1, <1>4
  <2> QED BY <1>0, <1>1, <1>2, <2>1 DEF TypeOK, OneThread, ThreadTypes
<1>7. Frees({})
  <2>1. locked_stream' = Unlocked({})
    <3>1. locked_stream = [k \in Keys |-> locked_stream[k]]
      BY <1>0 DEF TypeOK
    <3> QED BY <1>1, <3>1 DEF Unlocked
  <2>2. \A u \in Threads :
          /\ InLock(u)' <=> InLock(u)
          /\ InLock(u) => got'[u] = got[u] /\ req'[u] = req[u]
          /\ pc'[u] = "set" => pc[u] = "set" /\ req'[u] = req[u]
    BY <1>1, <1>2 DEF OneThread, InLock
  <2> QED BY <1>1, <2>1, <2>2 DEF Frees
<1> QED BY <1>3, <1>5, <1>6, <1>7, FreeInv

---------------------------------------------------------------------------
\* The port starts with no lock and no call.
LEMMA InitInv == Init => Inv
<1> SUFFICES ASSUME Init PROVE Inv
  OBVIOUS
<1>1. TypeOK
  BY DEF Init, TypeOK, Phases
<1>2. \A t \in Threads : pc[t] = "idle" /\ got[t] = {} /\ ~InLock(t)
  BY DEF Init, InLock
<1>3. Asked /\ OwnersLock /\ OneOwner /\ SomeOwner /\ LocksExclusive /\ WaitersAreBlocked
  BY <1>2 DEF Init, Asked, OwnersLock, OneOwner, SomeOwner, LocksExclusive, WaitersAreBlocked
<1>4. AccessesCounted
  <2>1. \A k \in Keys : Setters(k) = {}
    BY <1>2 DEF Setters
  <2> QED BY <2>1, FS_EmptySet DEF Init, AccessesCounted
<1> QED BY <1>1, <1>3, <1>4 DEF Inv

\* The steps of a thread.
LEMMA ThreadInv ==
  ASSUME Inv, NEW t \in Threads, Call(t) \/ ThreadStep(t) \/ LockTimeout(t)
  PROVE  Inv'
<1>0. TypeOK /\ Asked /\ WaitersAreBlocked
  BY DEF Inv
<1>1. ASSUME NEW s \in Streams, NEW keys \in Requests, CallLockProperty(t, s, keys)
      PROVE  Inv'
  <2> DEFINE r == [stream |-> s, keys |-> keys]
  <2>1. /\ r \in Resources
        /\ \A k, l \in r.keys : k # l => ~Conflict(k, l)
    BY DEF Requests, Resources
  <2>2. pc[t] = "idle" /\ got[t] = {} /\ got' = got /\ calls' \in Nat
    BY <1>0, <1>1 DEF CallLockProperty, MayCall, Asked, InLock, TypeOK
  <2>3. Goes(t, "lock", r, {})
    BY <1>0, <1>1, <2>2 DEF CallLockProperty, Goes, TypeOK
  <2>4. OneThread(t) /\ pc'[t] = "lock" /\ req'[t] = r /\ got'[t] = {}
    BY <1>0, <2>1, <2>3, ThreadGoes
  <2>5. Asked'
    BY <1>0, <2>1, <2>4, AskedStep DEF InLock
  <2>6. NoLockStep(t)
    BY <1>0, <1>1, <2>2, <2>4, <2>5 DEF NoLockStep, CallLockProperty, InLock, TypeOK
  <2> QED BY <2>6, NoLockInv
<1>2. ASSUME NEW r \in resources, CallUnlockProperty(t, r)
      PROVE  Inv'
  <2>1. r \in Resources
    BY <1>0 DEF TypeOK
  <2>2. pc[t] = "idle" /\ got[t] = {} /\ got' = got /\ calls' \in Nat
    BY <1>0, <1>2 DEF CallUnlockProperty, MayCall, Asked, InLock, TypeOK
  <2>3. Goes(t, "unlock", r, {})
    BY <1>0, <1>2, <2>2 DEF CallUnlockProperty, Goes, TypeOK
  <2>4. OneThread(t) /\ pc'[t] = "unlock" /\ req'[t] = r /\ got'[t] = {}
    BY <1>0, <2>1, <2>3, ThreadGoes
  <2>5. Asked'
    BY <1>0, <2>1, <2>4, AskedStep DEF InLock
  <2>6. NoLockStep(t)
    BY <1>0, <1>2, <2>2, <2>4, <2>5 DEF NoLockStep, CallUnlockProperty, InLock, TypeOK
  <2> QED BY <2>6, NoLockInv
<1>3. ASSUME Leave(t), pc[t] \in {"lock", "unlock", "unlock_callback"},
             UNCHANGED <<phase, locked_stream, accessing, resources, waiting, calls>>,
             undefined' \in BOOLEAN
      PROVE  Inv'
  <2>1. OneThread(t) /\ pc'[t] = "idle"
    BY <1>0, <1>3, ThreadLeaves
  <2>2. Asked'
    BY <1>0, <1>3, AskedLeave
  <2>3. NoLockStep(t)
    BY <1>0, <1>3, <2>1, <2>2 DEF NoLockStep, InLock, TypeOK
  <2> QED BY <2>3, NoLockInv
<1>4. ASSUME LockProperty(t) PROVE Inv'
  <2>1. pc[t] = "lock" /\ t \notin waiting /\ got[t] = {}
    BY <1>0, <1>4 DEF LockProperty, WaitersAreBlocked, Asked, InLock
  <2>2. UNCHANGED <<phase, accessing, undefined, calls>>
    BY <1>4 DEF LockProperty
  <2>3. CASE DoubleLock(req[t].stream, req[t].keys)
    <3>1. Leave(t) /\ UNCHANGED <<locked_stream, resources, waiting>>
      BY <1>4, <2>3 DEF LockProperty
    <3> QED BY <3>1, <2>1, <2>2, <1>0, <1>3 DEF TypeOK
  <2>4. CASE ~DoubleLock(req[t].stream, req[t].keys) /\ IsOpenedStream(req[t].stream)
    <3>1. Acquire(t, req[t], {})
      BY <1>4, <2>4 DEF LockProperty
    <3>2. Acquire(t, req[t], got[t])
      BY <3>1, <2>1
    <3> QED BY <3>2, <2>1, <2>2, <2>4, AcquireInv
  <2>5. CASE ~DoubleLock(req[t].stream, req[t].keys) /\ ~IsOpenedStream(req[t].stream)
    <3>1. Rollback(t)
      BY <1>4, <2>5 DEF LockProperty
    <3> QED BY <3>1, <2>1, <2>2, RollbackInv
  <2> QED BY <2>3, <2>4, <2>5
<1>5. ASSUME LockWoken(t) PROVE Inv'
  <2>1. /\ pc[t] = "wait" /\ t \notin waiting
        /\ UNCHANGED <<phase, accessing, undefined, calls>>
    BY <1>5 DEF LockWoken
  <2>2. CASE IsOpenedStream(req[t].stream)
    <3>1. Acquire(t, req[t], got[t])
      BY <1>5, <2>2 DEF LockWoken
    <3> QED BY <3>1, <2>1, <2>2, AcquireInv
  <2>3. CASE ~IsOpenedStream(req[t].stream)
    <3>1. Rollback(t)
      BY <1>5, <2>3 DEF LockWoken
    <3> QED BY <3>1, <2>1, RollbackInv
  <2> QED BY <2>2, <2>3
<1>6. ASSUME LockTimeout(t) PROVE Inv'
  BY <1>6, RollbackInv DEF LockTimeout
<1>7. ASSUME LockCallback(t) PROVE Inv'
  <2>1. /\ pc[t] = "lock_callback"
        /\ UNCHANGED <<phase, accessing, undefined, calls>>
    BY <1>7 DEF LockCallback
  <2>2. CASE Rollback(t)
    BY <2>1, <2>2, RollbackInv
  <2>3. CASE /\ resources' = resources \cup {req[t]} /\ Leave(t)
             /\ UNCHANGED <<locked_stream, waiting>>
    <3>1. /\ OneThread(t)
          /\ pc'[t] = "idle" /\ req'[t] = NoRequest /\ got'[t] = {}
      BY <1>0, <2>3, ThreadLeaves
    <3>2. got[t] = req[t].keys /\ req[t] \in Resources
      BY <1>0, <2>1 DEF Asked
    <3>3. Asked'
      BY <1>0, <2>3, AskedLeave
    <3>4. AccessesCounted'
      BY <3>1, <2>1, SameSetters DEF Inv
    <3>5. TypeOK'
      BY <1>0, <2>1, <2>3, <3>1, <3>2 DEF TypeOK, OneThread, ThreadTypes
    <3>6. OwnersLock /\ OneOwner /\ SomeOwner /\ LocksExclusive
      BY DEF Inv
    <3>7. InLock(t) /\ ~InLock(t)'
      BY <2>1, <3>1 DEF InLock
    <3>8. \A u \in Threads \ {t} :
            /\ pc'[u] = pc[u] /\ req'[u] = req[u] /\ got'[u] = got[u]
            /\ InLock(u)' <=> InLock(u)
      BY <3>1 DEF OneThread, InLock
    <3>9. OwnersLock' /\ OneOwner' /\ SomeOwner'
      <4>1. OwnersLock'
        BY <3>2, <3>6, <3>7, <3>8, <2>3 DEF OwnersLock
      <4>2. OneOwner'
        BY <3>2, <3>6, <3>7, <3>8, <2>3 DEF OneOwner
      <4>3. SomeOwner'
        <5> SUFFICES ASSUME NEW k \in Keys, locked_stream[k] # NoStream
                     PROVE  \/ \E r \in resources' : k \in r.keys
                            \/ \E u \in Threads : InLock(u)' /\ k \in got'[u]
          BY <2>3 DEF SomeOwner
        <5>1. CASE \E r \in resources : k \in r.keys
          BY <5>1, <2>3
        <5>2. CASE \E u \in Threads : InLock(u) /\ k \in got[u]
          <6>1. PICK u \in Threads : InLock(u) /\ k \in got[u]
            BY <5>2
          <6>2. CASE u = t
            BY <6>1, <6>2, <3>2, <2>3
          <6>3. CASE u # t
            BY <6>1, <6>3, <3>8
          <6> QED BY <6>2, <6>3
        <5> QED BY <5>1, <5>2, <3>6 DEF SomeOwner
      <4> QED BY <4>1, <4>2, <4>3
    <3>10. LocksExclusive'
      BY <3>1, <3>6, <3>8, <2>3 DEF LocksExclusive
    <3>11. WaitersAreBlocked'
      <4>1. \A u \in waiting : u \in Threads /\ u # t
        BY <1>0, <2>1 DEF TypeOK, WaitersAreBlocked
      <4>2. \A u \in waiting :
              Obtainable(req[u].keys \ got[u])' = Obtainable(req[u].keys \ got[u])
        BY <2>1, <2>3, <3>8, <4>1 DEF Obtainable, Lockable, IsLockable
      <4>3. \A u \in waiting :
              /\ pc'[u] = "wait"
              /\ phase'[req'[u].stream] \in {"opened", "closing", "removed"}
              /\ Obtainable(req[u].keys \ got[u])' = {}
        BY <1>0, <2>1, <3>8, <4>1, <4>2, ZenonT(30) DEF WaitersAreBlocked
      <4> QED BY <4>3, <2>3 DEF WaitersAreBlocked
    <3> QED BY <3>3, <3>4, <3>5, <3>9, <3>10, <3>11 DEF Inv
  <2> QED BY <1>7, <2>2, <2>3 DEF LockCallback
<1>8. ASSUME UnlockProperty(t) PROVE Inv'
  <2>1. pc[t] = "unlock" /\ UNCHANGED <<phase, accessing, undefined, calls>>
    BY <1>8 DEF UnlockProperty
  <2>2. CASE Leave(t) /\ UNCHANGED <<locked_stream, resources, waiting>>
    BY <2>1, <2>2, <1>0, <1>3 DEF TypeOK
  <2>3. CASE Leave(t) /\ ReleaseResource(req[t]) /\ req[t] \in resources
    BY <2>1, <2>3, ReleaseInv
  <2>4. CASE /\ pc' = [pc EXCEPT ![t] = "unlock_callback"]
             /\ UNCHANGED <<req, got, locked_stream, resources, waiting>>
    <3>1. got[t] = {} /\ req[t] \in Resources
      BY <1>0, <2>1 DEF Asked, InLock
    <3>2. Goes(t, "unlock_callback", req[t], {})
      BY <1>0, <2>4, <3>1 DEF Goes, TypeOK
    <3>3. /\ OneThread(t)
          /\ pc'[t] = "unlock_callback" /\ req'[t] = req[t] /\ got'[t] = {}
      BY <1>0, <3>1, <3>2, ThreadGoes
    <3>4. Asked'
      BY <1>0, <3>1, <3>3, AskedStep DEF InLock
    <3>5. NoLockStep(t)
      BY <1>0, <2>1, <2>4, <3>3, <3>4 DEF NoLockStep, InLock, TypeOK
    <3> QED BY <3>5, NoLockInv
  <2> QED BY <1>8, <2>2, <2>3, <2>4 DEF UnlockProperty
<1>9. ASSUME UnlockCallback(t) PROVE Inv'
  <2>1. pc[t] = "unlock_callback" /\ Leave(t) /\ UNCHANGED <<phase, accessing, calls>>
    BY <1>9 DEF UnlockCallback
  <2>2. CASE UNCHANGED <<locked_stream, resources, waiting>> /\ undefined' \in BOOLEAN
    BY <2>1, <2>2, <1>3
  <2>3. CASE req[t] \in resources /\ ReleaseResource(req[t]) /\ undefined' = undefined
    BY <2>1, <2>3, ReleaseInv
  <2> QED BY <1>0, <1>9, <2>2, <2>3 DEF UnlockCallback, TypeOK
<1> QED BY <1>1, <1>2, <1>4, <1>5, <1>6, <1>7, <1>8, <1>9, StartAccessInv, EndAccessInv
           DEF Call, ThreadStep

\* The invariant is preserved by every step.
LEMMA NextInv == Inv /\ [Next]_vars => Inv'
<1> SUFFICES ASSUME Inv, [Next]_vars PROVE Inv'
  OBVIOUS
<1>0. TypeOK
  BY DEF Inv
<1>1. ASSUME NEW t \in Threads, Call(t) \/ ThreadStep(t) \/ LockTimeout(t)
      PROVE  Inv'
  BY <1>1, ThreadInv
<1>2. ASSUME NEW s \in Streams, CloseBegin(s) \/ CloseStep(s)
      PROVE  Inv'
  <2>1. CASE CloseBegin(s)
    BY <2>1, PhaseInv DEF CloseBegin, Phases
  <2>2. CASE CloseRemove(s)
    BY <2>2, PhaseInv DEF CloseRemove, Phases
  <2>3. CASE ForceUnlockProperty(s)
    BY <2>3, ForceUnlockInv
  <2>4. CASE ClosePortFailed(s)
    BY <2>4, PhaseInv DEF ClosePortFailed, Phases
  <2>5. CASE ClosePortDone(s)
    BY <2>5, PhaseInv DEF ClosePortDone, Phases
  <2>6. CASE CloseDone(s)
    BY <2>6, PhaseInv DEF CloseDone, Phases
  <2> QED BY <1>2, <2>1, <2>2, <2>3, <2>4, <2>5, <2>6 DEF CloseStep
<1>3. CASE UNCHANGED vars
  <2>1. /\ phase' = phase /\ locked_stream' = locked_stream /\ accessing' = accessing
        /\ resources' = resources /\ waiting' = waiting /\ pc' = pc
        /\ req' = req /\ got' = got /\ undefined' = undefined /\ calls' = calls
    BY <1>3 DEF vars
  <2>2. TypeOK' /\ Asked' /\ OwnersLock' /\ OneOwner' /\ SomeOwner' /\ LocksExclusive'
    BY <2>1 DEF Inv, TypeOK, Asked, OwnersLock, OneOwner, SomeOwner, LocksExclusive, InLock
  <2>3. AccessesCounted' /\ WaitersAreBlocked'
    BY <2>1 DEF Inv, AccessesCounted, Setters, WaitersAreBlocked, Obtainable,
                Lockable, IsLockable
  <2> QED BY <2>2, <2>3 DEF Inv
<1> QED BY <1>1, <1>2, <1>3 DEF Next, Finished

---------------------------------------------------------------------------
\* One owner, and one when the key is locked, is what the accounts say.
LEMMA InvAccounts == Inv => LocksAccounted
<1> SUFFICES ASSUME Inv, NEW k \in Keys
             PROVE  LET holders == {r \in resources : k \in r.keys}
                        takers  == {t \in Threads : InLock(t) /\ k \in got[t]}
                    IN  /\ \A r \in holders : r.stream = locked_stream[k]
                        /\ \A t \in takers : req[t].stream = locked_stream[k]
                        /\ Cardinality(holders) + Cardinality(takers)
                             = IF locked_stream[k] = NoStream THEN 0 ELSE 1
  BY DEF LocksAccounted
<1> DEFINE holders == {r \in resources : k \in r.keys}
           takers  == {t \in Threads : InLock(t) /\ k \in got[t]}
<1>0. TypeOK /\ Asked /\ OwnersLock /\ OneOwner /\ SomeOwner
  BY DEF Inv
<1>1. /\ \A r \in holders : r.stream = locked_stream[k] /\ r.stream \in Streams
      /\ \A t \in takers : req[t].stream = locked_stream[k] /\ req[t].stream \in Streams
  BY <1>0 DEF TypeOK, Resources, OwnersLock, Asked, InLock
<1>2. /\ \A r, q \in holders : r = q
      /\ \A t, u \in takers : t = u
      /\ holders = {} \/ takers = {}
  BY <1>0 DEF OneOwner
<1>3. CASE locked_stream[k] = NoStream
  <2>1. holders = {} /\ takers = {}
    BY <1>1, <1>3, NoStreamAssumption
  <2> HIDE DEF holders, takers
  <2>2. Cardinality(holders) = 0 /\ Cardinality(takers) = 0
    BY <2>1, FS_EmptySet
  <2>3. Cardinality(holders) + Cardinality(takers) = 0
    BY <2>2
  <2> QED BY <2>3, <1>1, <1>3 DEF holders, takers
<1>4. CASE locked_stream[k] # NoStream
  <2>1. holders # {} \/ takers # {}
    BY <1>0, <1>4 DEF SomeOwner
  <2>2. \/ takers = {} /\ \E r : holders = {r}
        \/ holders = {} /\ \E t : takers = {t}
    <3>1. CASE holders # {}
      <4>1. PICK r \in holders : TRUE
        BY <3>1
      <4>2. holders = {r} /\ takers = {}
        BY <4>1, <3>1, <1>2
      <4> HIDE DEF holders, takers
      <4> QED BY <4>2
    <3>2. CASE takers # {}
      <4>1. PICK t \in takers : TRUE
        BY <3>2
      <4>2. takers = {t} /\ holders = {}
        BY <4>1, <3>2, <1>2
      <4> HIDE DEF holders, takers
      <4> QED BY <4>2
    <3> QED BY <2>1, <3>1, <3>2
  <2> HIDE DEF holders, takers
  <2>3. \/ Cardinality(holders) = 1 /\ Cardinality(takers) = 0
        \/ Cardinality(holders) = 0 /\ Cardinality(takers) = 1
    BY <2>2, FS_EmptySet, FS_Singleton
  <2>4. Cardinality(holders) + Cardinality(takers) = 1
    BY <2>3
  <2> QED BY <2>4, <1>1, <1>4 DEF holders, takers
<1> QED BY <1>3, <1>4

\* A property lock is exclusive, the whole property against its parts too,
\* and no other stream is inside SetProperty: for any streams, threads, keys
\* and calls, with waits, timeouts, failing callbacks and Close at any time.
THEOREM SpecLocksExclusive == Spec => []LocksExclusive
<1>1. Inv => LocksExclusive
  BY DEF Inv
<1> QED BY <1>1, InitInv, NextInv, PTL DEF Spec

\* No lock is stranded and none is given up twice: a locked key belongs to
\* exactly one resource or one LockProperty in progress, of the same stream.
THEOREM SpecLocksAccounted == Spec => []LocksAccounted
BY InvAccounts, InitInv, NextInv, PTL DEF Spec

\* The wakeups of UnlockProperty, of EndPropertyAccess, of a rollback and of
\* Close suffice: no thread sleeps in LockProperty while the next key it needs
\* is free.
THEOREM SpecWaitersAreBlocked == Spec => []WaitersAreBlocked
<1>1. Inv => WaitersAreBlocked
  BY DEF Inv
<1> QED BY <1>1, InitInv, NextInv, PTL DEF Spec

---------------------------------------------------------------------------
(***************************************************************************)
(* No circular wait.  LockProperty takes the keys in their order, so a     *)
(* call that waits has none after the key it waits for.                    *)
(***************************************************************************)
InOrder ==
  \A t \in Threads : pc[t] = "wait" =>
    /\ got[t] # req[t].keys
    /\ \A k \in got[t], l \in req[t].keys \ got[t] : Rank[k] < Rank[l]

\* What the order of the full keys must give: a property sorts before its
\* parts, and no key of another property between them.
KeysGrouped ==
  \A k, l \in Keys : k.property = l.property =>
    /\ k.append = "" => Rank[k] <= Rank[l]
    /\ \A m \in Keys : Rank[k] <= Rank[m] /\ Rank[m] <= Rank[l] => m.property = k.property

\* A step that sends no thread to wait keeps the order.
LEMMA OrderKept ==
  ASSUME InOrder,
         \A u \in Threads : pc'[u] = "wait" =>
           pc[u] = "wait" /\ req'[u] = req[u] /\ got'[u] = got[u]
  PROVE  InOrder'
BY DEF InOrder

\* The loop of LockProperty stops at the first key it cannot have.
LEMMA AcquireOrder ==
  ASSUME Inv, InOrder, NEW t \in Threads, pc[t] \in {"lock", "wait"},
         Acquire(t, req[t], got[t])
  PROVE  InOrder'
<1> DEFINE missing == req[t].keys \ got[t]
           new == Obtainable(missing)
<1>0. TypeOK /\ Asked
  BY DEF Inv
<1>1. /\ req[t] \in Resources /\ req[t].keys \subseteq Keys /\ got[t] \subseteq req[t].keys
      /\ Rank \in [Keys -> Nat]
  BY <1>0, KeysAssumption DEF Asked, Resources
<1>2. new = {k \in missing : \A l \in missing : Rank[l] <= Rank[k] => Lockable(l)}
  BY DEF Obtainable
<1>3. \A k \in got[t], l \in missing : Rank[k] < Rank[l]
  BY <1>0 DEF InOrder, Asked, InLock
<1>4. \A k \in new, l \in missing \ new : Rank[k] < Rank[l]
  <2> SUFFICES ASSUME NEW k \in new, NEW l \in missing \ new, ~(Rank[k] < Rank[l])
               PROVE  FALSE
    OBVIOUS
  <2>1. k \in missing /\ \A i \in missing : Rank[i] <= Rank[k] => Lockable(i)
    BY <1>2
  <2>2. PICK i \in missing : Rank[i] <= Rank[l] /\ ~Lockable(i)
    BY <1>2
  <2>3. Rank[i] \in Nat /\ Rank[l] \in Nat /\ Rank[k] \in Nat
    BY <1>1, <2>1
  <2>4. Rank[i] <= Rank[k]
    BY <2>2, <2>3
  <2> QED BY <2>1, <2>2, <2>4
<1>5. /\ \/ Goes(t, "wait", req[t], got[t] \cup new) /\ got[t] \cup new # req[t].keys
         \/ Goes(t, "lock_callback", req[t], req[t].keys)
         \/ Leave(t)
  BY DEF Acquire, Goes
<1> HIDE DEF new
<1>6. CASE Goes(t, "wait", req[t], got[t] \cup new) /\ got[t] \cup new # req[t].keys
  <2>1. got[t] \cup new \in SUBSET Keys
    BY <1>1, <1>2
  <2>2. /\ OneThread(t)
        /\ pc'[t] = "wait" /\ req'[t] = req[t] /\ got'[t] = got[t] \cup new
    BY <1>0, <1>1, <1>6, <2>1, ThreadGoes
  <2>3. \A k \in got'[t], l \in req'[t].keys \ got'[t] : Rank[k] < Rank[l]
    BY <2>2, <1>3, <1>4
  <2> QED BY <2>2, <2>3, <1>6 DEF InOrder, OneThread
<1>7. CASE Goes(t, "lock_callback", req[t], req[t].keys) \/ Leave(t)
  <2>1. OneThread(t) /\ pc'[t] # "wait"
    <3>1. CASE Goes(t, "lock_callback", req[t], req[t].keys)
      BY <1>0, <1>1, <3>1, ThreadGoes
    <3>2. CASE Leave(t)
      BY <1>0, <3>2, ThreadLeaves
    <3> QED BY <1>7, <3>1, <3>2
  <2> QED BY <2>1, OrderKept DEF OneThread
<1> QED BY <1>5, <1>6, <1>7

\* The order is kept by every step.
LEMMA OrderStep ==
  ASSUME Inv, InOrder, [Next]_vars
  PROVE  InOrder'
<1>0. TypeOK /\ Asked
  BY DEF Inv
<1>1. ASSUME NEW t \in Threads, Leave(t)
      PROVE  InOrder'
  BY <1>0, <1>1, ThreadLeaves, OrderKept DEF OneThread
<1>2. ASSUME NEW t \in Threads, NEW label, label # "wait",
             pc' = [pc EXCEPT ![t] = label], got' = got,
             \A u \in Threads \ {t} : req'[u] = req[u]
      PROVE  InOrder'
  BY <1>0, <1>2, OrderKept DEF TypeOK
<1>3. ASSUME NEW t \in Threads, Call(t)
      PROVE  InOrder'
  <2>1. /\ got' = got
        /\ \E label \in {"lock", "unlock", "set"} : pc' = [pc EXCEPT ![t] = label]
        /\ \E r : req' = [req EXCEPT ![t] = r]
    BY <1>3 DEF Call, CallLockProperty, CallUnlockProperty, StartPropertyAccess
  <2>2. \A u \in Threads \ {t} : req'[u] = req[u]
    BY <1>0, <2>1 DEF TypeOK
  <2> QED BY <2>1, <2>2, <1>2
<1>4. ASSUME NEW t \in Threads, LockProperty(t) \/ LockWoken(t)
      PROVE  InOrder'
  <2>1. \/ Leave(t)
        \/ pc[t] \in {"lock", "wait"} /\ Acquire(t, req[t], got[t])
    <3>1. CASE LockProperty(t)
      <4>1. pc[t] = "lock" /\ got[t] = {}
        BY <1>0, <3>1 DEF LockProperty, Asked, InLock
      <4>2. Leave(t) \/ Acquire(t, req[t], {})
        BY <3>1 DEF LockProperty, Rollback
      <4> QED BY <4>1, <4>2
    <3>2. CASE LockWoken(t)
      BY <3>2 DEF LockWoken, Rollback
    <3> QED BY <1>4, <3>1, <3>2
  <2> QED BY <2>1, <1>1, AcquireOrder
<1>5. ASSUME NEW t \in Threads, UnlockProperty(t)
      PROVE  InOrder'
  <2>1. \/ Leave(t)
        \/ pc' = [pc EXCEPT ![t] = "unlock_callback"] /\ got' = got /\ req' = req
    BY <1>5 DEF UnlockProperty
  <2> QED BY <2>1, <1>1, <1>2
<1>6. ASSUME NEW t \in Threads,
             LockTimeout(t) \/ LockCallback(t) \/ UnlockCallback(t) \/ EndPropertyAccess(t)
      PROVE  InOrder'
  BY <1>1, <1>6 DEF LockTimeout, LockCallback, UnlockCallback, EndPropertyAccess, Rollback
<1>7. CASE (\E s \in Streams : CloseBegin(s) \/ CloseStep(s)) \/ UNCHANGED vars
  <2>1. pc' = pc /\ req' = req /\ got' = got
    BY <1>7 DEF CloseBegin, CloseStep, CloseRemove, ForceUnlockProperty, ClosePortFailed,
                ClosePortDone, CloseDone, close_vars, vars
  <2> QED BY <2>1, OrderKept
<1> QED BY <1>3, <1>4, <1>5, <1>6, <1>7 DEF Next, ThreadStep, Finished

\* A finite set of numbers has a largest one.
LEMMA LargestNat ==
  ASSUME NEW S, S \subseteq Nat, S # {}, IsFiniteSet(S)
  PROVE  \E m \in S : \A n \in S : n <= m
<1> DEFINE Above(m) == {n \in S : n > m}
           T == {Above(m) : m \in S}
           R == StrictSubsetOrdering(S)
<1>1. IsWellFoundedOn(R, SUBSET S)
  BY FS_StrictSubsetOrderingWellFounded, FS_FiniteSubsetsOfFinite
<1>2. T \subseteq SUBSET S /\ T # {}
  OBVIOUS
<1>3. PICK x \in T : \A y \in T : ~(<<y, x>> \in R)
  <2> HIDE DEF T, R
  <2> QED BY <1>1, <1>2, WFMin
<1>4. PICK m \in S : x = Above(m)
  OBVIOUS
<1>5. ASSUME NEW n \in S, n > m PROVE FALSE
  <2>1. Above(n) \in T
    OBVIOUS
  <2>2. Above(n) \subseteq Above(m)
    <3>1. m \in Nat /\ n \in Nat
      BY <1>4
    <3>2. \A i \in S : i > n => i > m
      BY <3>1, <1>5
    <3> QED BY <3>2
  <2>3. n \in Above(m) /\ n \notin Above(n)
    BY <1>5
  <2>4. Above(n) \in SUBSET S /\ Above(m) \in SUBSET S
    OBVIOUS
  <2> HIDE DEF Above
  <2>5. <<Above(n), x>> \in R
    BY <2>2, <2>3, <2>4, <1>4 DEF StrictSubsetOrdering
  <2> QED BY <2>1, <2>5, <1>3
<1> QED BY <1>5

\* Every set of numbers has a smallest one.
LEMMA SmallestNat ==
  ASSUME NEW S, S \subseteq Nat, S # {}
  PROVE  \E m \in S : \A n \in S : m <= n
<1>1. PICK b \in S : TRUE
  OBVIOUS
<1> DEFINE Gaps == {i \in 0 .. b : b - i \in S}
<1>2. IsFiniteSet(Gaps)
  <2>1. IsFiniteSet(0 .. b)
    BY <1>1, FS_Interval
  <2> QED BY <2>1, FS_Subset
<1>3. Gaps \subseteq Nat /\ 0 \in Gaps
  BY <1>1
<1>4. PICK i \in Gaps : \A j \in Gaps : j <= i
  <2> HIDE DEF Gaps
  <2> QED BY <1>2, <1>3, LargestNat
<1>5. ASSUME NEW n \in S PROVE b - i <= n
  <2>1. CASE n <= b
    <3>1. b - n \in Gaps
      BY <2>1, <1>1
    <3> QED BY <3>1, <1>4, <1>1
  <2>2. CASE ~(n <= b)
    BY <2>2, <1>1, <1>4
  <2> QED BY <2>1, <2>2
<1> QED BY <1>4, <1>5

\* Of any threads that wait, the one whose next key comes last waits for
\* nothing the others have: a part of its property that another call has
\* got would put that call at a part of the same property, before the whole.
LEMMA NoCycle ==
  ASSUME Inv, InOrder, KeysGrouped, IsFiniteSet(Threads)
  PROVE  NoCircularWait
<1> SUFFICES ASSUME NEW set \in SUBSET {t \in Threads : pc[t] = "wait"}, set # {}
             PROVE  \E t \in set :
                      \E k \in req[t].keys \ got[t] :
                        /\ \A l \in req[t].keys \ got[t] : Rank[k] <= Rank[l]
                        /\ \A u \in set : \A l \in got[u] : ~Conflict(k, l)
  BY DEF NoCircularWait
<1> DEFINE Missing(t) == req[t].keys \ got[t]
           Next1(t) == CHOOSE k \in Missing(t) : \A l \in Missing(t) : Rank[k] <= Rank[l]
<1>1. ASSUME NEW t \in set
      PROVE  /\ Missing(t) # {} /\ Missing(t) \subseteq Keys /\ got[t] \subseteq Keys
             /\ Missing(t) \subseteq req[t].keys /\ got[t] \subseteq req[t].keys
             /\ \A k, l \in req[t].keys : k # l => ~Conflict(k, l)
             /\ \A k \in got[t], l \in Missing(t) : Rank[k] < Rank[l]
  <2>1. pc[t] = "wait" /\ t \in Threads
    OBVIOUS
  <2>2. /\ req[t] \in Resources /\ got[t] \subseteq req[t].keys
        /\ \A k, l \in req[t].keys : k # l => ~Conflict(k, l)
    BY <2>1 DEF Inv, Asked
  <2>3. /\ got[t] # req[t].keys
        /\ \A k \in got[t], l \in Missing(t) : Rank[k] < Rank[l]
    BY <2>1 DEF InOrder
  <2> QED BY <2>2, <2>3 DEF Resources
<1>2. /\ \A k \in Keys : Rank[k] \in Nat
      /\ \A k, l \in Keys : Rank[k] = Rank[l] => k = l
  BY KeysAssumption
<1>3. ASSUME NEW t \in set
      PROVE  Next1(t) \in Missing(t) /\ \A l \in Missing(t) : Rank[Next1(t)] <= Rank[l]
  <2> DEFINE S == {Rank[k] : k \in Missing(t)}
  <2>1. S \subseteq Nat /\ S # {}
    BY <1>1, <1>2
  <2>2. PICK m \in S : \A n \in S : m <= n
    <3> HIDE DEF S
    <3> QED BY <2>1, SmallestNat
  <2>3. PICK k \in Missing(t) : m = Rank[k]
    OBVIOUS
  <2>4. \A l \in Missing(t) : Rank[k] <= Rank[l]
    BY <2>2, <2>3
  <2> HIDE DEF Missing
  <2> QED BY <2>4
<1> HIDE DEF Next1
<1>4. PICK t \in set : \A u \in set : Rank[Next1(u)] <= Rank[Next1(t)]
  <2> DEFINE S == {Rank[Next1(u)] : u \in set}
  <2>1. \A u \in set : Next1(u) \in Keys
    BY <1>1, <1>3
  <2>2. S \subseteq Nat /\ S # {}
    BY <2>1, <1>2
  <2>3. IsFiniteSet(S)
    <3>1. IsFiniteSet(set)
      <4>1. set \subseteq Threads
        OBVIOUS
      <4> QED BY <4>1, FS_Subset
    <3> DEFINE f == [u \in set |-> Rank[Next1(u)]]
    <3>2. f \in Surjection(set, S)
      BY DEF Surjection
    <3> HIDE DEF f, S
    <3> QED BY <3>1, <3>2, FS_Surjection
  <2>4. PICK m \in S : \A n \in S : n <= m
    <3> HIDE DEF S
    <3> QED BY <2>2, <2>3, LargestNat
  <2>5. PICK t \in set : m = Rank[Next1(t)]
    OBVIOUS
  <2> QED BY <2>4, <2>5
<1> DEFINE k == Next1(t)
<1>5. k \in Missing(t) /\ k \in Keys /\ \A l \in Missing(t) : Rank[k] <= Rank[l]
  BY <1>1, <1>3
<1>6. ASSUME NEW u \in set, NEW l \in got[u], Conflict(k, l)
      PROVE  FALSE
  <2> DEFINE m == Next1(u)
  <2>1. m \in Missing(u) /\ m \in Keys /\ l \in Keys /\ Rank[l] < Rank[m] /\ Rank[m] <= Rank[k]
    BY <1>1, <1>3, <1>4
  <2> HIDE DEF k, m
  <2>2. k.property = l.property
    BY <1>6 DEF Conflict
  <2>3. Rank[l] \in Nat /\ Rank[m] \in Nat /\ Rank[k] \in Nat
    BY <1>2, <1>5, <2>1
  <2>4. Rank[l] < Rank[k]
    BY <2>1, <2>3
  <2>5. m.property = l.property
    <3>1. Rank[l] <= Rank[m] /\ Rank[m] <= Rank[k]
      BY <2>1, <2>3
    <3> QED BY <3>1, <1>5, <2>1, <2>2, Zenon DEF KeysGrouped
  <2>6. m # l /\ ~Conflict(m, l)
    BY <1>1, <2>1
  <2>7. l.append # ""
    BY <2>5, <2>6 DEF Conflict
  <2>8. k.append # ""
    <3>1. k.append = "" => Rank[k] <= Rank[l]
      BY <1>5, <2>1, <2>2, Zenon DEF KeysGrouped
    <3>2. ~(Rank[k] <= Rank[l])
      BY <2>3, <2>4
    <3> QED BY <3>1, <3>2, Zenon
  <2>9. k = l
    <3>1. k.append = l.append
      BY <1>6, <2>7, <2>8 DEF Conflict
    <3> QED BY <3>1, <2>1, <2>2, <1>5, KeysAssumption
  <2> QED BY <2>4, <2>9, <2>3
<1> QED BY <1>5, <1>6

\* Threads that hold keys while they wait for others never wait for each
\* other in a circle, if the full keys of a property sort next to each other,
\* the whole property first; the number of threads need only be finite.
THEOREM SpecNoCircularWait ==
  ASSUME KeysGrouped, IsFiniteSet(Threads)
  PROVE  Spec => []NoCircularWait
<1>1. Init => Inv /\ InOrder
  BY InitInv DEF Init, InOrder
<1>2. (Inv /\ InOrder) /\ [Next]_vars => (Inv /\ InOrder)'
  BY NextInv, OrderStep
<1>3. Inv /\ InOrder => NoCircularWait
  BY NoCycle
<1> QED BY <1>1, <1>2, <1>3, PTL DEF Spec
=============================================================================
