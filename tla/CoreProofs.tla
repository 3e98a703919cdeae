----------------------------- MODULE CoreProofs -----------------------------
(***************************************************************************)
(* The function lock of a Core, for any number of threads, streams,        *)
(* configurations and calls: what runs together, on which state of the     *)
(* core, and who sleeps.  Then its streams: where they are and when they   *)
(* are deleted, and what CloseStream has done when it returns OK.          *)
(***************************************************************************)
EXTENDS Core, TLAPS

\* Before a lock is granted, and in the functions of a stream.
Outside == {"idle", "lock", "waiting", "get_stream_key", "insert_closing",
            "function", "refused"}

\* After the lock, granted or not, the entry is about to be erased; in
\* ClosePublisher there may be none.
After == {"unlock", "publisher"}

ExitLabels == {"exit", "release_all", "exit_rest", "clear_initialized"}

Shape ==
  /\ running_functions = [t \in Threads |-> running_functions[t]]
  /\ pc   = [t \in Threads |-> pc[t]]
  /\ fun  = [t \in Threads |-> fun[t]]
  /\ port = [t \in Threads |-> port[t]]
  /\ core_initialized \in BOOLEAN
  /\ waiting \subseteq Threads

\* Each thread has an entry if and only if it is in a function.
Entered ==
  \A t \in Threads :
    /\ pc[t] \in Outside => running_functions[t] = NoFunction
    /\ InBody(t) => running_functions[t] = [type |-> LockType(fun[t]), key |-> port[t]]
    /\ running_functions[t].type \in FunctionTypes \cup {"none"}

\* What the entries in the list allow each other.
TableExclusive ==
  \A t, u \in Threads : t # u =>
    /\ running_functions[t].type \in {"Init", "Exit"} =>
         running_functions[u].type = "none"
    /\ running_functions[t].type = "Stream" /\ running_functions[u].type = "Stream" =>
         running_functions[t].key # running_functions[u].key

\* The labels of Init and Exit, and the state of the core at them.
Labelled ==
  \A t \in Threads :
    /\ pc[t] \in {"init", "set_initialized"} => fun[t] = "Init" /\ ~core_initialized
    /\ pc[t] = "set_initialized" => config # NoConfig
    /\ pc[t] \in ExitLabels => fun[t] = "Exit"
    /\ t \in waiting => pc[t] = "waiting"

\* Only at the end of Exit is the core initialized without a configuration.
Loaded ==
  core_initialized /\ config = NoConfig =>
    \E t \in Threads : pc[t] = "clear_initialized"

CoreInv ==
  /\ Shape /\ Entered /\ TableExclusive /\ Labelled /\ Loaded
  /\ ConfigThere /\ WaitersAreBlocked

---------------------------------------------------------------------------
\* A configuration of the application is not the empty one.
LEMMA LoadedIsThere == \A c \in Configs : c # NoConfig
BY CoreAssumption DEF NoConfig

\* The locks of all functions have one of the four types.
LEMMA LockTypes == \A f : LockType(f) \in FunctionTypes /\ LockType(f) # "none"
BY DEF LockType, FunctionTypes

\* Initially nobody is in a function.
LEMMA InitCoreInv == Init => CoreInv
<1> SUFFICES ASSUME Init PROVE CoreInv
  OBVIOUS
<1>1. /\ running_functions = [t \in Threads |-> NoFunction]
      /\ pc = [t \in Threads |-> "idle"]
      /\ waiting = {}
      /\ core_initialized = FALSE
  BY DEF Init, LockInit
<1>2. Shape
  BY <1>1 DEF Shape, Init
<1>3. \A t \in Threads : pc[t] = "idle" /\ running_functions[t] = NoFunction
  BY <1>1
<1>4. Entered /\ Labelled /\ ConfigThere
  BY <1>1, <1>3 DEF Entered, Labelled, ConfigThere, InBody, ExitLabels, NoFunction
<1>5. TableExclusive
  BY <1>3 DEF TableExclusive, NoFunction
<1>6. Loaded /\ WaitersAreBlocked
  BY <1>1 DEF Loaded, WaitersAreBlocked
<1> QED BY <1>2, <1>4, <1>5, <1>6 DEF CoreInv

\* The invariant gives the exclusion of the functions.
LEMMA CoreInvExcludes == CoreInv => FunctionsExclusive
<1> SUFFICES ASSUME CoreInv, NEW t \in Threads, NEW u \in Threads,
                    t # u, InBody(t), InBody(u)
             PROVE  /\ fun[t] \notin {"Init", "Exit"}
                    /\ InStreamBody(t) /\ InStreamBody(u) => port[t] # port[u]
  BY DEF FunctionsExclusive
<1>0. /\ running_functions[t] = [type |-> LockType(fun[t]), key |-> port[t]]
      /\ running_functions[u] = [type |-> LockType(fun[u]), key |-> port[u]]
  BY DEF CoreInv, Entered
<1>1. /\ running_functions[t].type = LockType(fun[t])
      /\ running_functions[t].key = port[t]
      /\ running_functions[u].type = LockType(fun[u])
      /\ running_functions[u].key = port[u]
  BY <1>0
<1>2. running_functions[u].type # "none"
  BY <1>1, LockTypes
<1>3. fun[t] \notin {"Init", "Exit"}
  BY <1>1, <1>2 DEF CoreInv, TableExclusive, LockType
<1>4. InStreamBody(t) /\ InStreamBody(u) => port[t] # port[u]
  BY <1>1 DEF CoreInv, TableExclusive, InStreamBody
<1> QED BY <1>3, <1>4

---------------------------------------------------------------------------
(***************************************************************************)
(* Steps of a thread that leave the lock, the state of the core and the    *)
(* configuration alone.                                                    *)
(***************************************************************************)
OthersStay(t) ==
  \A u \in Threads \ {t} : pc'[u] = pc[u] /\ fun'[u] = fun[u] /\ port'[u] = port[u]

Quiet(t) ==
  /\ Shape'
  /\ OthersStay(t)
  /\ UNCHANGED <<core_initialized, running_functions, waiting, config>>
  /\ t \notin waiting
  /\ pc[t] # "clear_initialized"
  /\ pc'[t] \in Outside => pc[t] \in Outside
  /\ pc'[t] \notin Outside \cup After =>
       /\ pc[t] \notin Outside \cup After
       /\ pc'[t] \notin {"init", "set_initialized", "clear_initialized"}
       /\ fun'[t] = fun[t] /\ port'[t] = port[t]
       /\ pc'[t] \in ExitLabels => fun[t] = "Exit"

\* The labels of bodies are the remaining ones.
LEMMA BodyLabels ==
  /\ \A t : InBody(t) <=> pc[t] \notin Outside \cup After
  /\ \A t : InBody(t)' <=> pc'[t] \notin Outside \cup After
BY DEF InBody, Outside, After

\* Such steps keep the invariant.
LEMMA QuietInv ==
  ASSUME CoreInv, NEW t \in Threads, Quiet(t)
  PROVE  CoreInv'
<1>1. \A u \in Threads :
        InBody(u)' => InBody(u) /\ fun'[u] = fun[u] /\ port'[u] = port[u]
  BY BodyLabels DEF Quiet, OthersStay
<1>2. \A u \in Threads : pc'[u] \in Outside => pc[u] \in Outside
  BY DEF Quiet, OthersStay
<1>3. running_functions' = running_functions
  BY DEF Quiet
<1>4. Entered'
  <2> SUFFICES ASSUME NEW u \in Threads
               PROVE  /\ pc'[u] \in Outside => running_functions'[u] = NoFunction
                      /\ InBody(u)' => running_functions'[u] =
                           [type |-> LockType(fun'[u]), key |-> port'[u]]
                      /\ running_functions'[u].type \in FunctionTypes \cup {"none"}
    BY DEF Entered, NoFunction, NoPort, LockType, FunctionTypes
  <2> QED BY <1>1, <1>2, <1>3 DEF CoreInv, Entered
<1>5. TableExclusive'
  BY <1>3 DEF CoreInv, TableExclusive
<1>6. Labelled'
  <2>1. ASSUME NEW u \in Threads, u # t
        PROVE  /\ pc'[u] \in {"init", "set_initialized"} => fun'[u] = "Init" /\ ~core_initialized'
               /\ pc'[u] = "set_initialized" => config' # NoConfig
               /\ pc'[u] \in ExitLabels => fun'[u] = "Exit"
               /\ u \in waiting' => pc'[u] = "waiting"
    BY <2>1 DEF CoreInv, Labelled, Quiet, OthersStay
  <2>2. /\ pc'[t] \notin {"init", "set_initialized"}
        /\ pc'[t] \in ExitLabels => fun'[t] = "Exit"
        /\ t \notin waiting'
    BY DEF Quiet, Outside, After, ExitLabels
  <2> QED BY <2>1, <2>2 DEF Labelled, NoConfig
<1>7. Loaded'
  <2> SUFFICES ASSUME core_initialized, config = NoConfig
               PROVE  \E u \in Threads : pc'[u] = "clear_initialized"
    BY DEF Loaded, NoConfig, Quiet
  <2> QED BY DEF CoreInv, Loaded, Quiet, OthersStay
<1>8. ConfigThere'
  BY <1>1 DEF CoreInv, ConfigThere, Quiet, NoConfig
<1>9. WaitersAreBlocked'
  <2> SUFFICES ASSUME NEW u \in waiting
               PROVE  Waits(LockType(fun[u]), port[u])'
    BY DEF Quiet, WaitersAreBlocked
  <2>1. u \in Threads \ {t}
    BY DEF Quiet, CoreInv, Shape
  <2>2. fun'[u] = fun[u] /\ port'[u] = port[u]
    BY <2>1 DEF Quiet, OthersStay
  <2>3. Waits(LockType(fun[u]), port[u])
    BY DEF CoreInv, WaitersAreBlocked
  <2> QED BY <1>3, <2>2, <2>3
          DEF Waits, Fails, Contains, FailsOn, WaitsOn, LockType
<1> QED BY <1>4, <1>5, <1>6, <1>7, <1>8, <1>9 DEF CoreInv, Quiet

---------------------------------------------------------------------------
(***************************************************************************)
(* The decision of the lock                                                *)
(***************************************************************************)
\* A granted lock stands beside the entries that are there.
LEMMA GrantedBeside ==
  ASSUME NEW type \in FunctionTypes, NEW p, Grants(type, p), NEW u \in Threads,
         running_functions[u].type \in FunctionTypes \cup {"none"}
  PROVE  /\ type \in {"Init", "Exit"} => running_functions[u].type = "none"
         /\ running_functions[u].type \notin {"Init", "Exit"}
         /\ type = "Stream" /\ running_functions[u].type = "Stream" =>
              running_functions[u].key # p
BY DEF Grants, Fails, Waits, Contains, FailsOn, WaitsOn, FunctionTypes

\* No lock is granted that would make a waiting one fail.
LEMMA GrantedKeepsWaiters ==
  ASSUME CoreInv, NEW t \in Threads, running_functions[t] = NoFunction,
         NEW type \in FunctionTypes, NEW p, Grants(type, p), Insert(t, type, p),
         NEW w \in FunctionTypes, NEW k, Waits(w, k)
  PROVE  Waits(w, k)'
<1>1. running_functions[t].type = "none"
  BY DEF NoFunction
<1>2. /\ running_functions'[t].type = type
      /\ \A v \in Threads \ {t} : running_functions'[v] = running_functions[v]
  BY DEF CoreInv, Shape, Insert
<1>3. PICK v \in Threads :
        \/ running_functions[v].type \in WaitsOn(w)
        \/ w = "Stream" /\ running_functions[v].type = "Stream" /\ running_functions[v].key = k
  BY DEF Waits, Contains
<1>4. running_functions[v].type # "none"
  BY <1>3 DEF WaitsOn
<1>5. v # t /\ running_functions'[v] = running_functions[v]
  BY <1>1, <1>2, <1>4
<1>6. type \notin FailsOn(w)
  <2>1. running_functions[v].type \in FunctionTypes \cup {"none"}
    BY DEF CoreInv, Entered
  <2>2. /\ type \in {"Init", "Exit"} => running_functions[v].type = "none"
        /\ running_functions[v].type \notin {"Init", "Exit"}
    BY <2>1, GrantedBeside
  <2> QED BY <1>3, <1>4, <2>2 DEF FailsOn, WaitsOn, FunctionTypes
<1>7. ~Fails(w)'
  BY <1>2, <1>6 DEF Waits, Fails, Contains, FailsOn
<1> QED BY <1>3, <1>5, <1>7 DEF Waits, Contains, WaitsOn

GetsLock(t, p) ==
  /\ pc[t] \in {"lock", "waiting"} /\ t \notin waiting
  /\ Grants(LockType(fun[t]), p)
  /\ Insert(t, LockType(fun[t]), p)
  /\ pc' = [pc EXCEPT ![t] = Body(fun[t])]
  /\ port' = [port EXCEPT ![t] = p]
  /\ UNCHANGED <<core_initialized, config, waiting, fun>>

\* A granted lock keeps the invariant.
LEMMA GrantInv ==
  ASSUME CoreInv, NEW t \in Threads, NEW p, GetsLock(t, p)
  PROVE  CoreInv'
<1> USE DEF GetsLock
<1> DEFINE type == LockType(fun[t])
<1>0. type \in FunctionTypes /\ type # "none"
  BY LockTypes
<1>1. /\ running_functions[t] = NoFunction
      /\ \A u \in Threads : running_functions[u].type \in FunctionTypes \cup {"none"}
  BY DEF CoreInv, Entered, Outside
<1>2. /\ Shape'
      /\ pc'[t] = Body(fun[t]) /\ port'[t] = p
      /\ running_functions'[t] = [type |-> type, key |-> p]
      /\ \A u \in Threads \ {t} :
           /\ pc'[u] = pc[u] /\ port'[u] = port[u]
           /\ running_functions'[u] = running_functions[u]
  BY DEF CoreInv, Shape, Insert
<1>3. /\ running_functions'[t].type = type
      /\ running_functions'[t].key = p
  BY <1>2
<1>4. pc'[t] \notin Outside /\ pc'[t] \notin {"set_initialized", "clear_initialized", "waiting"}
  BY <1>2 DEF Body, Outside
<1>5. Entered'
  <2> SUFFICES ASSUME NEW u \in Threads
               PROVE  /\ pc'[u] \in Outside => running_functions'[u] = NoFunction
                      /\ InBody(u)' => running_functions'[u] =
                           [type |-> LockType(fun'[u]), key |-> port'[u]]
                      /\ running_functions'[u].type \in FunctionTypes \cup {"none"}
    BY DEF Entered, NoFunction, NoPort, LockType, FunctionTypes
  <2>1. CASE u = t
    BY <2>1, <1>0, <1>2, <1>3, <1>4
  <2>2. CASE u # t
    BY <2>2, <1>2, BodyLabels DEF CoreInv, Entered
  <2> QED BY <2>1, <2>2
<1>6. TableExclusive'
  <2>1. \A u \in Threads \ {t} :
          /\ type \in {"Init", "Exit"} => running_functions[u].type = "none"
          /\ running_functions[u].type \notin {"Init", "Exit"}
          /\ type = "Stream" /\ running_functions[u].type = "Stream" =>
               running_functions[u].key # p
    BY <1>0, <1>1, GrantedBeside
  <2> QED BY <2>1, <1>2, <1>3 DEF CoreInv, TableExclusive
<1>7. Labelled'
  <2>1. /\ pc'[t] = "init" => fun[t] = "Init"
        /\ pc'[t] \in ExitLabels => fun[t] = "Exit"
    BY <1>2 DEF Body, ExitLabels
  <2>2. fun[t] = "Init" => ~core_initialized
    BY DEF Grants, LockType
  <2> QED BY <1>2, <1>4, <2>1, <2>2 DEF CoreInv, Labelled, NoConfig, ExitLabels
<1>8. Loaded'
  BY <1>2, <1>4 DEF CoreInv, Loaded, NoConfig
<1>9. ConfigThere'
  <2>1. ASSUME fun[t] \notin {"Init", "Exit"}
        PROVE  core_initialized /\ config # NoConfig
    <3>1. core_initialized /\ ~Fails(type) /\ type \in {"ReadOnly", "Stream"}
      BY <2>1 DEF Grants, LockType
    <3>2. ASSUME NEW u \in Threads, pc[u] = "clear_initialized"
          PROVE  FALSE
      <4>1. running_functions[u] = [type |-> LockType("Exit"), key |-> port[u]]
        BY <3>2, BodyLabels DEF CoreInv, Entered, Labelled, ExitLabels, Outside, After
      <4>2. running_functions[u].type = "Exit"
        BY <4>1 DEF LockType
      <4> QED BY <3>1, <4>2 DEF Fails, Contains, FailsOn
    <3> QED BY <3>1, <3>2 DEF CoreInv, Loaded
  <2> QED BY <1>2, <2>1, BodyLabels DEF CoreInv, ConfigThere, NoConfig
<1>10. WaitersAreBlocked'
  <2> SUFFICES ASSUME NEW u \in waiting
               PROVE  Waits(LockType(fun[u]), port[u])'
    BY DEF WaitersAreBlocked
  <2>1. u \in Threads \ {t} /\ port'[u] = port[u]
    BY <1>2 DEF CoreInv, Shape
  <2>2. Waits(LockType(fun[u]), port[u]) /\ LockType(fun[u]) \in FunctionTypes
    BY LockTypes DEF CoreInv, WaitersAreBlocked
  <2>3. ASSUME NEW w \in FunctionTypes, NEW k, Waits(w, k)
        PROVE  Waits(w, k)'
    BY <1>0, <1>1, <2>3, GrantedKeepsWaiters
  <2>4. PICK w, k : w = LockType(fun[u]) /\ k = port[u]
    OBVIOUS
  <2>5. Waits(w, k)'
    BY <2>2, <2>3, <2>4
  <2>6. w = LockType(fun'[u]) /\ k = port'[u]
    BY <2>1, <2>4
  <2> QED BY <2>5, <2>6 DEF LockType, Waits, Fails, Contains, FailsOn, WaitsOn
<1> QED BY <1>2, <1>5, <1>6, <1>7, <1>8, <1>9, <1>10 DEF CoreInv

GoesToSleep(t, p) ==
  /\ pc[t] \in {"lock", "waiting"}
  /\ Waits(LockType(fun[t]), p)
  /\ pc' = [pc EXCEPT ![t] = "waiting"]
  /\ port' = [port EXCEPT ![t] = p]
  /\ waiting' = waiting \cup {t}
  /\ UNCHANGED <<core_initialized, config, running_functions, fun>>

\* A thread that goes to sleep has to.
LEMMA WaitInv ==
  ASSUME CoreInv, NEW t \in Threads, NEW p, GoesToSleep(t, p)
  PROVE  CoreInv'
<1> USE DEF GoesToSleep
<1>1. /\ Shape'
      /\ pc'[t] = "waiting" /\ port'[t] = p
      /\ \A u \in Threads \ {t} : pc'[u] = pc[u] /\ port'[u] = port[u]
  BY DEF CoreInv, Shape
<1>2. \A u \in Threads : InBody(u)' => InBody(u) /\ port'[u] = port[u]
  BY <1>1, BodyLabels DEF Outside
<1>3. \A u \in Threads : pc'[u] \in Outside => pc[u] \in Outside
  BY <1>1 DEF Outside
<1>4. Entered'
  <2> SUFFICES ASSUME NEW u \in Threads
               PROVE  /\ pc'[u] \in Outside => running_functions'[u] = NoFunction
                      /\ InBody(u)' => running_functions'[u] =
                           [type |-> LockType(fun'[u]), key |-> port'[u]]
                      /\ running_functions'[u].type \in FunctionTypes \cup {"none"}
    BY DEF Entered, NoFunction, NoPort, LockType, FunctionTypes
  <2> QED BY <1>2, <1>3 DEF CoreInv, Entered
<1>5. TableExclusive'
  BY DEF CoreInv, TableExclusive
<1>6. Labelled' /\ Loaded'
  BY <1>1 DEF CoreInv, Labelled, Loaded, NoConfig, ExitLabels
<1>7. ConfigThere'
  BY <1>2 DEF CoreInv, ConfigThere, NoConfig
<1>8. WaitersAreBlocked'
  <2> SUFFICES ASSUME NEW u \in waiting \cup {t}
               PROVE  Waits(LockType(fun[u]), port[u])'
    BY DEF WaitersAreBlocked
  <2>1. PICK w, k : w = LockType(fun[u]) /\ k = IF u = t THEN p ELSE port[u]
    OBVIOUS
  <2>2. Waits(w, k)
    BY <2>1 DEF CoreInv, WaitersAreBlocked
  <2>3. Waits(w, k)'
    BY <2>2 DEF Waits, Fails, Contains, FailsOn, WaitsOn
  <2>4. w = LockType(fun'[u]) /\ k = port'[u]
    BY <1>1, <2>1 DEF CoreInv, Shape
  <2> QED BY <2>3, <2>4 DEF LockType, Waits, Fails, Contains, FailsOn, WaitsOn
<1> QED BY <1>1, <1>4, <1>5, <1>6, <1>7, <1>8 DEF CoreInv

Decides(t, p) ==
  /\ pc[t] \in {"lock", "waiting"} /\ t \notin waiting
  /\ Decide(t, LockType(fun[t]), p)
  /\ port' = [port EXCEPT ![t] = p]
  /\ UNCHANGED <<core_initialized, config, fun>>

\* The three outcomes together.
LEMMA DecideInv ==
  ASSUME CoreInv, NEW t \in Threads, NEW p, Decides(t, p)
  PROVE  CoreInv'
<1>1. CASE Waits(LockType(fun[t]), p)
  <2>1. GoesToSleep(t, p)
    BY <1>1 DEF GoesToSleep, Decides, Decide, Go
  <2> QED BY <2>1, WaitInv
<1>2. CASE ~Waits(LockType(fun[t]), p) /\ Grants(LockType(fun[t]), p)
  <2>1. GetsLock(t, p)
    BY <1>2 DEF GetsLock, Decides, Decide, Go
  <2> QED BY <2>1, GrantInv
<1>3. CASE ~Waits(LockType(fun[t]), p) /\ ~Grants(LockType(fun[t]), p)
  <2>1. Refused(t)
    BY <1>3 DEF Decides, Decide
  <2>2. Quiet(t)
    BY <2>1 DEF Decides, Refused, Go, Quiet, OthersStay, Outside, After, CoreInv, Shape
  <2> QED BY <2>2, QuietInv
<1> QED BY <1>1, <1>2, <1>3

\* The first attempt.
LEMMA LockInv ==
  ASSUME CoreInv, NEW t \in Threads, Lock(t)
  PROVE  CoreInv'
<1>1. /\ pc[t] = "lock" /\ t \notin waiting
      /\ UNCHANGED <<core_initialized, config, fun>>
  BY DEF Lock, lock_unchanged, CoreInv, Labelled
<1>2. CASE Refused(t) /\ UNCHANGED port
  <2>1. Quiet(t)
    BY <1>1, <1>2 DEF Refused, Go, Quiet, OthersStay, Outside, After, CoreInv, Shape
  <2> QED BY <2>1, QuietInv
<1>3. CASE \E p : Decide(t, LockType(fun[t]), p) /\ port' = [port EXCEPT ![t] = p]
  <2>1. PICK p : Decide(t, LockType(fun[t]), p) /\ port' = [port EXCEPT ![t] = p]
    BY <1>3
  <2>2. Decides(t, p)
    BY <1>1, <2>1 DEF Decides
  <2> QED BY <2>2, DecideInv
<1> QED BY <1>2, <1>3 DEF Lock

\* The attempts after a wait.
LEMMA WokenInv ==
  ASSUME CoreInv, NEW t \in Threads, Woken(t)
  PROVE  CoreInv'
<1>1. PICK p : p = port[t]
  OBVIOUS
<1>2. port' = [port EXCEPT ![t] = p]
  BY <1>1 DEF Woken, CoreInv, Shape
<1>3. /\ pc[t] = "waiting" /\ t \notin waiting
      /\ UNCHANGED <<core_initialized, config, fun>>
  BY DEF Woken, lock_unchanged
<1>4. Decide(t, LockType(fun[t]), p)
  BY <1>1 DEF Woken
<1>5. Decides(t, p)
  BY <1>2, <1>3, <1>4 DEF Decides
<1> QED BY <1>5, DecideInv

\* The end of a function: its entry goes, and all wake up.
LEMMA UnlockInv ==
  ASSUME CoreInv, NEW t \in Threads, Unlock(t)
  PROVE  CoreInv'
<1>1. /\ pc[t] = "unlock" /\ waiting' = {}
      /\ UNCHANGED <<core_initialized, config>>
  BY DEF Unlock
<1>2. /\ Shape'
      /\ pc'[t] = "idle" /\ running_functions'[t] = NoFunction
      /\ \A u \in Threads \ {t} :
           /\ pc'[u] = pc[u] /\ port'[u] = port[u] /\ fun'[u] = fun[u]
           /\ running_functions'[u] = running_functions[u]
  BY <1>1 DEF Unlock, Return, Remove, CoreInv, Shape
<1>3. Entered'
  <2> SUFFICES ASSUME NEW u \in Threads
               PROVE  /\ pc'[u] \in Outside => running_functions'[u] = NoFunction
                      /\ InBody(u)' => running_functions'[u] =
                           [type |-> LockType(fun'[u]), key |-> port'[u]]
                      /\ running_functions'[u].type \in FunctionTypes \cup {"none"}
    BY DEF Entered, NoFunction, NoPort, LockType, FunctionTypes
  <2>1. CASE u = t
    BY <2>1, <1>2, BodyLabels DEF Outside, NoFunction
  <2>2. CASE u # t
    BY <2>2, <1>2, BodyLabels DEF CoreInv, Entered
  <2> QED BY <2>1, <2>2
<1>4. TableExclusive'
  <2>1. running_functions'[t].type = "none"
    BY <1>2 DEF NoFunction
  <2> QED BY <2>1, <1>2 DEF CoreInv, TableExclusive
<1>5. Labelled' /\ Loaded'
  BY <1>1, <1>2 DEF CoreInv, Labelled, Loaded, NoConfig, ExitLabels
<1>6. ConfigThere'
  BY <1>1, <1>2, BodyLabels DEF CoreInv, ConfigThere, NoConfig, Outside
<1>7. WaitersAreBlocked'
  BY <1>1 DEF WaitersAreBlocked
<1> QED BY <1>2, <1>3, <1>4, <1>5, <1>6, <1>7 DEF CoreInv

---------------------------------------------------------------------------
(***************************************************************************)
(* Init and Exit change the state of the core while nobody else is in a    *)
(* function.                                                               *)
(***************************************************************************)
Alone(t, l) ==
  /\ InBody(t) /\ fun[t] \in {"Init", "Exit"}
  /\ pc' = [pc EXCEPT ![t] = l]
  /\ UNCHANGED <<running_functions, waiting, fun, port>>
  /\ core_initialized' \in BOOLEAN
  /\ l \notin Outside
  /\ l \in {"init", "set_initialized"} => fun[t] = "Init" /\ ~core_initialized'
  /\ l = "set_initialized" => config' # NoConfig
  /\ l \in ExitLabels => fun[t] = "Exit"
  /\ Loaded'

\* The others are outside or about to leave.
LEMMA AloneInv ==
  ASSUME CoreInv, NEW t \in Threads, NEW l, Alone(t, l)
  PROVE  CoreInv'
<1> USE DEF Alone
<1>1. /\ Shape'
      /\ pc'[t] = l
      /\ \A u \in Threads \ {t} : pc'[u] = pc[u]
  BY DEF CoreInv, Shape
<1>2. running_functions[t] = [type |-> LockType(fun[t]), key |-> port[t]]
  BY DEF CoreInv, Entered
<1>3. running_functions[t].type \in {"Init", "Exit"}
  BY <1>2 DEF LockType
<1>4. ASSUME NEW u \in Threads \ {t}
      PROVE  ~InBody(u)
  <2>1. running_functions[u].type = "none"
    BY <1>3 DEF CoreInv, TableExclusive
  <2>2. SUFFICES ASSUME InBody(u) PROVE FALSE
    OBVIOUS
  <2>3. running_functions[u] = [type |-> LockType(fun[u]), key |-> port[u]]
    BY <2>2 DEF CoreInv, Entered
  <2>4. running_functions[u].type = LockType(fun[u])
    BY <2>3
  <2> QED BY <2>1, <2>4, LockTypes
<1>5. \A u \in Threads \ {t} : pc[u] \in Outside \cup After /\ ~InBody(u)'
  BY <1>1, <1>4, BodyLabels
<1>6. Entered'
  <2> SUFFICES ASSUME NEW u \in Threads
               PROVE  /\ pc'[u] \in Outside => running_functions'[u] = NoFunction
                      /\ InBody(u)' => running_functions'[u] =
                           [type |-> LockType(fun'[u]), key |-> port'[u]]
                      /\ running_functions'[u].type \in FunctionTypes \cup {"none"}
    BY DEF Entered, NoFunction, NoPort, LockType, FunctionTypes
  <2>1. CASE u = t
    BY <2>1, <1>1, <1>2, <1>3 DEF FunctionTypes
  <2>2. CASE u # t
    BY <2>2, <1>1, <1>5 DEF CoreInv, Entered
  <2> QED BY <2>1, <2>2
<1>7. TableExclusive'
  BY DEF CoreInv, TableExclusive
<1>8. t \notin waiting
  BY DEF CoreInv, Labelled, InBody
<1>9. Labelled'
  <2>1. ASSUME NEW u \in Threads \ {t}
        PROVE  /\ pc'[u] \notin {"init", "set_initialized"} \cup ExitLabels
               /\ u \in waiting' => pc'[u] = "waiting"
    BY <1>1, <1>5 DEF CoreInv, Labelled, Outside, After, ExitLabels
  <2> QED BY <1>1, <1>8, <2>1 DEF Labelled, NoConfig, ExitLabels
<1>10. ConfigThere'
  BY <1>1, <1>5 DEF ConfigThere, NoConfig
<1>11. WaitersAreBlocked'
  BY DEF CoreInv, WaitersAreBlocked, Waits, Fails, Contains, FailsOn, WaitsOn, LockType
<1> QED BY <1>1, <1>6, <1>7, <1>9, <1>10, <1>11 DEF CoreInv

\* Init, whether it succeeds or not.
LEMMA InitStepInv ==
  ASSUME CoreInv, NEW t \in Threads, InitDone(t) \/ InitFailed(t)
  PROVE  CoreInv'
<1>1. /\ InBody(t) /\ fun[t] = "Init" /\ ~core_initialized
      /\ UNCHANGED <<core_initialized, running_functions, waiting, fun, port>>
  BY DEF InitDone, InitFailed, body_unchanged, CoreInv, Labelled, InBody
<1>2. Loaded'
  BY <1>1 DEF Loaded
<1>3. CASE InitDone(t)
  <2>1. config' # NoConfig
    BY <1>3, LoadedIsThere DEF InitDone, LoadedConfigs
  <2>2. Alone(t, "set_initialized")
    BY <1>1, <1>2, <1>3, <2>1 DEF Alone, InitDone, Go, Outside, ExitLabels, CoreInv, Shape
  <2> QED BY <2>2, AloneInv
<1>4. CASE InitFailed(t)
  <2>1. Alone(t, "unlock")
    BY <1>1, <1>2, <1>4 DEF Alone, InitFailed, Go, Outside, ExitLabels, CoreInv, Shape
  <2> QED BY <2>1, AloneInv
<1> QED BY <1>3, <1>4

\* The state of the core changes at the end of Init and of Exit.
LEMMA SetCoreInitializedInv ==
  ASSUME CoreInv, NEW t \in Threads, SetCoreInitialized(t)
  PROVE  CoreInv'
<1>1. /\ InBody(t) /\ fun[t] \in {"Init", "Exit"} /\ config' = config
      /\ UNCHANGED <<running_functions, waiting, fun, port>>
  BY DEF SetCoreInitialized, local_vars, CoreInv, Labelled, ExitLabels, InBody
<1>2. Loaded'
  <2>1. CASE pc[t] = "set_initialized"
    BY <1>1, <2>1 DEF CoreInv, Labelled, Loaded, NoConfig
  <2>2. CASE pc[t] = "clear_initialized"
    BY <2>2 DEF SetCoreInitialized, Loaded
  <2> QED BY <2>1, <2>2 DEF SetCoreInitialized
<1>3. Alone(t, "unlock")
  BY <1>1, <1>2 DEF Alone, SetCoreInitialized, Go, Outside, ExitLabels
<1> QED BY <1>3, AloneInv

\* The configuration is cleared at the end of Exit.
LEMMA ExitRestInv ==
  ASSUME CoreInv, NEW t \in Threads, ExitRest(t)
  PROVE  CoreInv'
<1>1. /\ pc[t] = "exit_rest" /\ InBody(t) /\ fun[t] = "Exit" /\ t \notin waiting
      /\ UNCHANGED <<core_initialized, running_functions, waiting, fun, port>>
  BY DEF ExitRest, body_unchanged, CoreInv, Labelled, ExitLabels, InBody
<1>2. CASE Go(t, "clear_initialized")
  <2>1. pc'[t] = "clear_initialized"
    BY <1>2 DEF Go, CoreInv, Shape
  <2>2. Loaded'
    BY <2>1 DEF Loaded
  <2>3. Alone(t, "clear_initialized")
    BY <1>1, <1>2, <2>2 DEF Alone, Go, Outside, CoreInv, Shape
  <2> QED BY <2>3, AloneInv
<1>3. CASE Go(t, "unlock") /\ UNCHANGED config
  <2>1. Quiet(t)
    BY <1>1, <1>3 DEF Quiet, OthersStay, Go, Outside, After, CoreInv, Shape
  <2> QED BY <2>1, QuietInv
<1> QED BY <1>2, <1>3 DEF ExitRest

---------------------------------------------------------------------------
(***************************************************************************)
(* The remaining steps leave the lock and the core alone.                  *)
(***************************************************************************)
\* A step from one label to another, in the same function.
Moves(t, l) ==
  /\ pc' = [pc EXCEPT ![t] = l]
  /\ UNCHANGED <<core_initialized, running_functions, waiting, config, fun, port>>
  /\ pc[t] \notin {"waiting", "clear_initialized"}
  /\ l \in Outside => pc[t] \in Outside
  /\ l \notin Outside \cup After =>
       /\ pc[t] \notin Outside \cup After
       /\ l \notin {"init", "set_initialized", "clear_initialized"}
       /\ l \in ExitLabels => pc[t] \in ExitLabels \/ fun[t] = "Exit"

\* Such a step is quiet.
LEMMA MovesQuiet ==
  ASSUME CoreInv, NEW t \in Threads, NEW l, Moves(t, l)
  PROVE  CoreInv'
<1>1. t \notin waiting /\ (pc[t] \in ExitLabels => fun[t] = "Exit")
  BY DEF Moves, CoreInv, Labelled
<1>2. /\ pc'[t] = l /\ Shape'
      /\ OthersStay(t)
  BY DEF Moves, CoreInv, Shape, OthersStay
<1>3. Quiet(t)
  BY <1>1, <1>2 DEF Moves, Quiet
<1> QED BY <1>3, QuietInv

\* The calls of the application, and the return from a function of a stream.
LEMMA CallsInv ==
  ASSUME CoreInv, NEW t \in Threads, Calls(t) \/ StreamFunctionReturn(t)
  PROVE  CoreInv'
<1>1. CASE Calls(t)
  <2>1. \/ Call(t, "Init", "lock") \/ Call(t, "Exit", "lock") \/ Call(t, "ReadOnly", "lock")
        \/ Call(t, "StreamKey", "lock") \/ Call(t, "ClosePublisher", "lock")
        \/ Call(t, "OpenStream", "lock") \/ Call(t, "CloseStream", "get_stream_key")
        \/ Call(t, "StreamFunction", "function") \/ Call(t, "StreamFunction", "refused")
    <3> HIDE DEF Call
    <3>1. CASE CallInit(t) \/ CallExit(t) \/ CallReadOnly(t)
      BY <3>1 DEF CallInit, CallExit, CallReadOnly
    <3>2. CASE \E k \in Keys : CallStreamKey(t, k) \/ CallClosePublisher(t, k)
                                \/ CallOpenStream(t, k)
      BY <3>2 DEF CallWithKey, CallStreamKey, CallClosePublisher, CallOpenStream
    <3>3. CASE \E h \in handles : CallCloseStream(t, h) \/ CallStreamFunction(t, h)
      BY <3>3 DEF CallCloseStream, CallStreamFunction
    <3> QED BY <1>1, <3>1, <3>2, <3>3 DEF Calls
  <2>2. PICK f, l : Call(t, f, l) /\ l \in Outside \ {"waiting"}
    <3> HIDE DEF Call
    <3> QED BY <2>1 DEF Outside
  <2>3. Quiet(t)
    BY <2>2 DEF Call, Go, Quiet, OthersStay, Outside, After, lock_vars, CoreInv, Shape,
                Labelled
  <2> QED BY <2>3, QuietInv
<1>2. CASE StreamFunctionReturn(t)
  <2>1. Quiet(t)
    BY <1>2 DEF StreamFunctionReturn, Return, Quiet, OthersStay, Outside, After,
                lock_vars, CoreInv, Shape, Labelled
  <2> QED BY <2>1, QuietInv
<1> QED BY <1>1, <1>2

BodyStep(t) ==
  \/ OpenInvalid(t) \/ ReadDone(t) \/ DeleteReleasedStream(t) \/ OpenDone(t)
  \/ OpenFailed(t) \/ OpenRelease(t) \/ GetStreamKey(t)
  \/ InsertClosing(t) \/ GetCloseStreamStatus(t) \/ CloseBegin(t)
  \/ CloseEnd(t) \/ CloseRelease(t) \/ CloseSet(t)
  \/ ReleaseStreamAll(t) \/ AllDeleted(t)
  \/ \E a \in Addresses : GetStream(t, a) \/ ExitStream(t, a) \/ DeleteStream(t, a)

\* The steps inside the functions.
LEMMA BodyStepsInv ==
  ASSUME CoreInv, NEW t \in Threads, BodyStep(t)
  PROVE  CoreInv'
<1>0. \A l : Moves(t, l) => CoreInv'
  BY MovesQuiet
<1> USE DEF Moves, Go, Outside, After, ExitLabels, body_unchanged, lock_vars, local_vars
<1>1. CASE ReadDone(t)
  <2>1. Moves(t, "unlock")
    BY <1>1 DEF ReadDone
  <2> HIDE DEF Moves
  <2> QED BY <1>0, <2>1
<1>2. CASE DeleteReleasedStream(t)
  <2>1. Moves(t, "new")
    BY <1>2 DEF DeleteReleasedStream
  <2> HIDE DEF Moves
  <2> QED BY <1>0, <2>1
<1>3. CASE OpenDone(t)
  <2>1. Moves(t, "unlock")
    BY <1>3 DEF OpenDone
  <2> HIDE DEF Moves
  <2> QED BY <1>0, <2>1
<1>4. CASE OpenFailed(t)
  <2>1. Moves(t, "open_release")
    BY <1>4 DEF OpenFailed
  <2> HIDE DEF Moves
  <2> QED BY <1>0, <2>1
<1>5. CASE OpenRelease(t)
  <2>1. Moves(t, "unlock")
    BY <1>5 DEF OpenRelease
  <2> HIDE DEF Moves
  <2> QED BY <1>0, <2>1
<1>6. CASE GetStreamKey(t)
  <2>1. Moves(t, "insert_closing") \/ Moves(t, "unlock")
    BY <1>6 DEF GetStreamKey
  <2> HIDE DEF Moves
  <2> QED BY <1>0, <2>1
<1>7. CASE InsertClosing(t)
  <2>1. Moves(t, "lock")
    BY <1>7 DEF InsertClosing
  <2> HIDE DEF Moves
  <2> QED BY <1>0, <2>1
<1>8. CASE GetCloseStreamStatus(t)
  <2>1. Moves(t, "unlock") \/ Moves(t, "close")
    BY <1>8 DEF GetCloseStreamStatus
  <2> HIDE DEF Moves
  <2> QED BY <1>0, <2>1
<1>9. CASE CloseBegin(t)
  <2>1. Moves(t, "close_wait") \/ Moves(t, "close") \/ Moves(t, "unlock") \/ Moves(t, "close_set")
    BY <1>9 DEF CloseBegin, Failed, CoreInv, Shape
  <2> HIDE DEF Moves
  <2> QED BY <1>0, <2>1
<1>10. CASE CloseEnd(t)
  <2>1. Moves(t, "release") \/ Moves(t, "unlock") \/ Moves(t, "close_set")
    BY <1>10 DEF CloseEnd, Failed
  <2> HIDE DEF Moves
  <2> QED BY <1>0, <2>1
<1>11. CASE CloseRelease(t)
  <2>1. Moves(t, "exit") \/ Moves(t, "close_set") \/ Moves(t, "unlock")
    BY <1>11 DEF CloseRelease, Failed
  <2> HIDE DEF Moves
  <2> QED BY <1>0, <2>1
<1>12. CASE CloseSet(t)
  <2>1. Moves(t, "unlock")
    BY <1>12 DEF CloseSet
  <2> HIDE DEF Moves
  <2> QED BY <1>0, <2>1
<1>13. CASE ReleaseStreamAll(t)
  <2>1. Moves(t, "release_all")
    BY <1>13 DEF ReleaseStreamAll
  <2> HIDE DEF Moves
  <2> QED BY <1>0, <2>1
<1>14. CASE AllDeleted(t)
  <2>1. Moves(t, "exit_rest")
    BY <1>14 DEF AllDeleted
  <2> HIDE DEF Moves
  <2> QED BY <1>0, <2>1
<1>15. ASSUME NEW a \in Addresses, GetStream(t, a)
      PROVE  CoreInv'
  <2>1. Moves(t, "open")
    BY <1>15 DEF GetStream
  <2> HIDE DEF Moves
  <2> QED BY <1>0, <2>1
<1>16. ASSUME NEW a \in Addresses, ExitStream(t, a)
      PROVE  CoreInv'
  <2>1. Moves(t, "close")
    BY <1>16 DEF ExitStream
  <2> HIDE DEF Moves
  <2> QED BY <1>0, <2>1
<1>17. ASSUME NEW a \in Addresses, DeleteStream(t, a)
      PROVE  CoreInv'
  <2>1. Moves(t, "release_all")
    BY <1>17 DEF DeleteStream, CoreInv, Shape
  <2> HIDE DEF Moves
  <2> QED BY <1>0, <2>1
<1>18. CASE OpenInvalid(t)
  <2>1. Moves(t, "unlock")
    BY <1>18 DEF OpenInvalid
  <2> HIDE DEF Moves
  <2> QED BY <1>0, <2>1
<1> QED BY <1>1, <1>2, <1>3, <1>4, <1>5, <1>6, <1>7, <1>8, <1>9, <1>10,
          <1>11, <1>12, <1>13, <1>14, <1>15, <1>16, <1>17, <1>18 DEF BodyStep

---------------------------------------------------------------------------
\* Every step keeps the invariant.
LEMMA NextCoreInv == CoreInv /\ [Next]_vars => CoreInv'
<1> SUFFICES ASSUME CoreInv, [Next]_vars PROVE CoreInv'
  OBVIOUS
<1>1. CASE UNCHANGED vars
  <2>1. UNCHANGED <<core_initialized, running_functions, waiting, config, pc, fun, port>>
    BY <1>1 DEF vars, lock_vars, local_vars
  <2>2. Shape' /\ Entered' /\ TableExclusive'
    BY <2>1 DEF CoreInv, Shape, Entered, TableExclusive, InBody, NoFunction, LockType
  <2>3. Labelled' /\ Loaded' /\ ConfigThere'
    BY <2>1 DEF CoreInv, Labelled, Loaded, ConfigThere, InBody, NoConfig
  <2>4. WaitersAreBlocked'
    BY <2>1 DEF CoreInv, WaitersAreBlocked, Waits, Fails, Contains, FailsOn, WaitsOn,
                LockType
  <2> QED BY <2>2, <2>3, <2>4 DEF CoreInv
<1>2. ASSUME NEW t \in Threads, Calls(t) \/ Step(t)
      PROVE  CoreInv'
  <2>1. CASE Lock(t) \/ Woken(t) \/ Unlock(t)
    BY <2>1, LockInv, WokenInv, UnlockInv
  <2>2. CASE InitDone(t) \/ InitFailed(t) \/ SetCoreInitialized(t) \/ ExitRest(t)
    BY <2>2, InitStepInv, SetCoreInitializedInv, ExitRestInv
  <2>3. CASE Calls(t) \/ StreamFunctionReturn(t)
    BY <2>3, CallsInv
  <2>4. CASE BodyStep(t)
    BY <2>4, BodyStepsInv
  <2> QED BY <1>2, <2>1, <2>2, <2>3, <2>4 DEF Step, BodyStep
<1> QED BY <1>1, <1>2 DEF Next, Finished

\* The invariant holds in every state.
THEOREM SpecCoreInv == Spec => []CoreInv
BY InitCoreInv, NextCoreInv, PTL DEF Spec

\* Init and Exit run alone, and two functions of streams never have the lock
\* of one port (CoreFunctionLockManager).
THEOREM SpecExclusive == Spec => []FunctionsExclusive
BY SpecCoreInv, CoreInvExcludes, PTL

\* The functions that read the configuration find it (the pointer that
\* DefaultCoreBehavior::Exit clears).
THEOREM SpecConfigThere == Spec => []ConfigThere
<1>1. CoreInv => ConfigThere
  BY DEF CoreInv
<1> QED BY <1>1, SpecCoreInv, PTL

\* No thread sleeps in a lock without a function that it has to wait for
\* (Unlock wakes all).
THEOREM SpecWaitersAreBlocked == Spec => []WaitersAreBlocked
<1>1. CoreInv => WaitersAreBlocked
  BY DEF CoreInv
<1> QED BY <1>1, SpecCoreInv, PTL

---------------------------------------------------------------------------
(***************************************************************************)
(* The streams and the two lists.  A thread owns a stream from GetStream   *)
(* until the stream is opened or not, and while its Close waits; an owned  *)
(* stream is never opened, closed or free, so that nobody else can take    *)
(* it, and OpenStream deletes only closed ones.  What deletes streams asks *)
(* for threads in their functions besides.                                 *)
(***************************************************************************)
Streams == [id : Nat, key : Keys \cup {AnyKey}, state : StreamStates]

AnyHandle == [stream : Addresses, id : Nat \ {0}]

StreamShape ==
  /\ streams \in [Addresses -> Streams]
  /\ created \in Nat
  /\ stream_list \subseteq Addresses
  /\ released_stream_list \subseteq Addresses
  /\ key \in [Threads -> Keys \cup {AnyKey}]
  /\ target = [t \in Threads |-> target[t]]
  /\ ok = [t \in Threads |-> ok[t]]
  /\ handles \subseteq AnyHandle

Owns(t) == pc[t] \in {"open", "close_wait"}

OwnedState(l) == IF l = "open" THEN "Init" ELSE "Closing"

\* What a thread knows of its stream.
OwnedThere(t) == Owns(t) => streams[target[t].stream].state = OwnedState(pc[t])

\* The function of a label, and the calls that have a stream.
Placed(t) ==
  /\ pc[t] \in {"gc", "new", "open", "open_release"} => fun[t] = "OpenStream"
  /\ pc[t] \in {"get_stream_key", "insert_closing", "close_status", "close_set"} =>
       fun[t] = "CloseStream"
  /\ pc[t] \in {"close", "close_wait", "release"} => fun[t] \in {"CloseStream", "Exit"}
  /\ pc[t] \in {"function", "refused"} => fun[t] = "StreamFunction"
  /\ pc[t] \in {"read", "publisher"} => fun[t] \notin {"OpenStream", "CloseStream"}
  /\ pc[t] = "idle" => fun[t] = "Init"
  /\ \/ fun[t] \in {"CloseStream", "StreamFunction"}
     \/ fun[t] = "Exit" /\ pc[t] \in {"close", "close_wait", "release"}
     \/ pc[t] \in {"open", "open_release"}
     \/ pc[t] = "unlock" /\ fun[t] = "OpenStream" /\ ok[t]
     => target[t] \in AnyHandle

\* Exit empties one list and then the other one.
Emptied(t) ==
  /\ pc[t] \in {"release_all", "exit_rest", "clear_initialized"} => stream_list = {}
  /\ pc[t] \in {"exit_rest", "clear_initialized"} => released_stream_list = {}

Initialized(t) == InBody(t) /\ fun[t] # "Init" => core_initialized

Local(t) == OwnedThere(t) /\ Placed(t) /\ Emptied(t) /\ Initialized(t)

OwnersApart ==
  \A t, u \in Threads :
    t # u /\ Owns(t) /\ Owns(u) => target[t].stream # target[u].stream

\* The free addresses are those in none of the lists, and have no id.
ListsExact ==
  /\ stream_list \cap released_stream_list = {}
  /\ \A a \in Addresses :
       /\ streams[a].state # "free" <=> a \in stream_list \cup released_stream_list
       /\ streams[a].state = "free" <=> streams[a].id = 0

\* Without an initialized core there are no streams.
NothingLeft ==
  ~core_initialized => stream_list = {} /\ released_stream_list = {}

StreamInv ==
  /\ StreamShape
  /\ \A t \in Threads : Local(t)
  /\ OwnersApart /\ ListsExact /\ NothingLeft /\ NoUseAfterDelete

\* Initially there are no streams.
LEMMA InitStreamInv == Init => StreamInv
<1> SUFFICES ASSUME Init PROVE StreamInv
  OBVIOUS
<1>1. /\ streams = [a \in Addresses |-> NoStream]
      /\ stream_list = {} /\ released_stream_list = {} /\ created = 0
      /\ pc = [t \in Threads |-> "idle"] /\ fun = [t \in Threads |-> "Init"]
      /\ key = [t \in Threads |-> AnyKey] /\ target = [t \in Threads |-> NoHandle]
      /\ ok = [t \in Threads |-> TRUE] /\ handles = {}
  BY DEF Init
<1>2. NoStream \in Streams
  BY DEF NoStream, Streams, StreamStates
<1>3. StreamShape
  BY <1>1, <1>2 DEF StreamShape
<1>4. ASSUME NEW t \in Threads
      PROVE  Local(t) /\ ~Owns(t) /\ pc[t] = "idle"
  BY <1>1 DEF Local, OwnedThere, Owns, Placed, Emptied, Initialized, InBody
<1>5. \A a \in Addresses : streams[a].state = "free" /\ streams[a].id = 0
  BY <1>1 DEF NoStream
<1>6. OwnersApart /\ ListsExact /\ NothingLeft /\ NoUseAfterDelete
  BY <1>1, <1>4, <1>5 DEF OwnersApart, ListsExact, NothingLeft, NoUseAfterDelete
<1> QED BY <1>3, <1>4, <1>6 DEF StreamInv

\* A step of t leaves the calls of the other threads alone.
OthersKeep(t) ==
  \A u \in Threads \ {t} :
    pc'[u] = pc[u] /\ fun'[u] = fun[u] /\ target'[u] = target[u] /\ ok'[u] = ok[u]

\* What the other threads know stays true if their streams, the lists that
\* they have emptied and the state of the core do.
LEMMA OthersLocal ==
  ASSUME StreamInv, NEW t \in Threads, OthersKeep(t), NEW u \in Threads \ {t},
         Owns(u) => streams'[target[u].stream].state = streams[target[u].stream].state,
         pc[u] \in {"release_all", "exit_rest", "clear_initialized"} =>
           stream_list' \subseteq stream_list /\ released_stream_list' \subseteq released_stream_list,
         Initialized(u) /\ InBody(u) /\ fun[u] # "Init" => core_initialized'
  PROVE  Local(u)'
<1>1. Local(u) /\ pc'[u] = pc[u] /\ fun'[u] = fun[u] /\ target'[u] = target[u] /\ ok'[u] = ok[u]
  BY DEF StreamInv, OthersKeep
<1>2. OwnedThere(u)'
  BY <1>1 DEF Local, OwnedThere, Owns, OwnedState
<1>3. Placed(u)'
  BY <1>1 DEF Local, Placed, AnyHandle
<1>4. Emptied(u)' /\ Initialized(u)'
  BY <1>1 DEF Local, Emptied, Initialized, InBody
<1> QED BY <1>2, <1>3, <1>4 DEF Local

(***************************************************************************)
(* Steps that leave the streams and the lists alone.                       *)
(***************************************************************************)
Aside(t) ==
  /\ UNCHANGED <<streams, stream_list, released_stream_list, created, core_initialized>>
  /\ OthersKeep(t)
  /\ StreamShape'
  /\ Local(t)'
  /\ Owns(t)' => Owns(t) /\ target'[t].stream = target[t].stream
  /\ pc'[t] \in {"function", "refused"} => streams[target'[t].stream].id = target'[t].id

\* Such steps keep the invariant.
LEMMA AsideInv ==
  ASSUME StreamInv, NEW t \in Threads, Aside(t)
  PROVE  StreamInv'
<1> USE DEF Aside
<1>1. ASSUME NEW u \in Threads
      PROVE  Local(u)'
  <2>1. CASE u = t
    BY <2>1
  <2>2. CASE u # t
    <3>1. Local(u)
      BY DEF StreamInv
    <3> QED BY <2>2, <3>1, OthersLocal DEF Local, OwnedThere, Initialized
  <2> QED BY <2>1, <2>2
<1>2. \A u \in Threads : Owns(u)' => Owns(u) /\ target'[u].stream = target[u].stream
  BY DEF OthersKeep, Owns
<1>3. OwnersApart'
  BY <1>2 DEF StreamInv, OwnersApart
<1>4. ListsExact' /\ NothingLeft'
  BY DEF StreamInv, ListsExact, NothingLeft
<1>5. NoUseAfterDelete'
  BY DEF StreamInv, NoUseAfterDelete, OthersKeep
<1> QED BY <1>1, <1>3, <1>4, <1>5 DEF StreamInv

(***************************************************************************)
(* Steps that change the state of the stream of the call.                  *)
(***************************************************************************)
SetsState(t, a, state) ==
  /\ target[t].stream = a /\ target'[t] = target[t]
  /\ a \in Addresses
  /\ Owns(t) \/ streams[a].state = "Open"
  /\ state \in StreamStates \ {"free"}
  /\ SetState(a, state)
  /\ UNCHANGED <<stream_list, released_stream_list, created, core_initialized>>
  /\ OthersKeep(t)
  /\ StreamShape'
  /\ Local(t)'
  /\ pc'[t] \notin {"function", "refused"}

\* Nobody else owns a stream that is owned or opened.
LEMMA SoleOwner ==
  ASSUME StreamInv, NEW t \in Threads, NEW u \in Threads \ {t}, Owns(u),
         Owns(t) \/ streams[target[t].stream].state \in {"Open", "free"}
  PROVE  target[u].stream # target[t].stream
<1>1. OwnedThere(u)
  BY DEF StreamInv, Local
<1>2. streams[target[u].stream].state \notin {"Open", "free"}
  BY <1>1 DEF OwnedThere, OwnedState, Owns
<1> QED BY <1>2 DEF StreamInv, OwnersApart

\* Such steps keep the invariant.
LEMMA SetsStateInv ==
  ASSUME StreamInv, NEW t \in Threads, NEW a, NEW state, SetsState(t, a, state)
  PROVE  StreamInv'
<1> USE DEF SetsState
<1>1. /\ a \in Addresses
      /\ streams'[a].state = state /\ streams'[a].id = streams[a].id
      /\ \A b \in Addresses \ {a} : streams'[b] = streams[b]
  BY DEF StreamInv, StreamShape, SetState, Streams
<1>2. ASSUME NEW u \in Threads \ {t}, Owns(u)
      PROVE  target[u].stream # a /\ target[u].stream \in Addresses
  <2>1. target[u] \in AnyHandle
    BY <1>2 DEF StreamInv, Local, Placed, Owns
  <2> QED BY <1>2, <2>1, SoleOwner DEF AnyHandle
<1>3. streams[a].state # "free"
  BY DEF StreamInv, Local, OwnedThere, OwnedState
<1>4. ASSUME NEW u \in Threads
      PROVE  Local(u)'
  <2>1. CASE u = t
    BY <2>1
  <2>2. CASE u # t
    <3>1. Owns(u) => streams'[target[u].stream].state = streams[target[u].stream].state
      BY <1>1, <1>2, <2>2
    <3> QED BY <2>2, <3>1, OthersLocal DEF Initialized
  <2> QED BY <2>1, <2>2
<1>5. OwnersApart'
  <2>1. \A u \in Threads \ {t} : Owns(u)' => Owns(u) /\ target'[u].stream = target[u].stream
    BY DEF OthersKeep, Owns
  <2>2. \A u, v \in Threads \ {t} : u # v /\ Owns(u)' /\ Owns(v)' =>
          target'[u].stream # target'[v].stream
    BY <2>1 DEF StreamInv, OwnersApart
  <2>3. \A u \in Threads \ {t} : Owns(u)' => target'[u].stream # target'[t].stream
    BY <2>1, <1>2
  <2> QED BY <2>2, <2>3 DEF OwnersApart
<1>6. ListsExact'
  BY <1>1, <1>3 DEF StreamInv, StreamShape, ListsExact
<1>7. NothingLeft'
  BY DEF StreamInv, NothingLeft
<1>8. NoUseAfterDelete'
  <2> SUFFICES ASSUME NEW u \in Threads, pc'[u] \in {"function", "refused"}
               PROVE  streams'[target'[u].stream].id = target'[u].id
    BY DEF NoUseAfterDelete
  <2>1. u # t /\ pc'[u] = pc[u] /\ target'[u] = target[u]
    BY DEF OthersKeep
  <2>2. streams[target[u].stream].id = target[u].id /\ target[u] \in AnyHandle
    BY <2>1 DEF StreamInv, NoUseAfterDelete, Local, Placed
  <2> QED BY <1>1, <2>1, <2>2 DEF AnyHandle
<1> QED BY <1>4, <1>5, <1>6, <1>7, <1>8 DEF StreamInv

---------------------------------------------------------------------------
(***************************************************************************)
(* Steps that create, move and delete streams                              *)
(***************************************************************************)
\* Nobody else is at the end of an Exit while a thread is in a function.
LEMMA NoExitBeside ==
  ASSUME CoreInv, NEW t \in Threads, InBody(t), NEW u \in Threads \ {t}
  PROVE  pc[u] \notin {"release_all", "exit_rest", "clear_initialized"}
<1>1. FunctionsExclusive
  BY CoreInvExcludes
<1>2. pc[u] \in {"release_all", "exit_rest", "clear_initialized"} =>
        InBody(u) /\ fun[u] = "Exit"
  BY DEF CoreInv, Labelled, ExitLabels, InBody
<1> QED BY <1>1, <1>2 DEF FunctionsExclusive

\* The new stream has a new id, and an address that nobody uses.
LEMMA GetStreamInv ==
  ASSUME CoreInv, StreamInv, NEW t \in Threads, NEW a \in Addresses, GetStream(t, a)
  PROVE  StreamInv'
<1>1. /\ pc[t] = "new" /\ InBody(t) /\ fun[t] = "OpenStream" /\ core_initialized
      /\ streams[a].state = "free" /\ streams[a].id = 0
      /\ a \notin stream_list \cup released_stream_list
  BY DEF GetStream, InBody, StreamInv, Local, Placed, Initialized, ListsExact
<1>2. /\ stream_list' = stream_list \cup {a}
      /\ released_stream_list' = released_stream_list
      /\ created' = created + 1
      /\ core_initialized' = core_initialized
      /\ UNCHANGED <<fun, key, ok, handles>>
  BY DEF GetStream, body_unchanged, app_vars
<1>3. /\ streams'[a].id = created + 1 /\ streams'[a].state = "Init"
      /\ streams'[a] \in Streams /\ streams' \in [Addresses -> Streams]
      /\ \A b \in Addresses \ {a} : streams'[b] = streams[b]
  BY DEF GetStream, StreamInv, StreamShape, Streams, StreamStates
<1>4. /\ pc'[t] = "open" /\ target'[t] = [stream |-> a, id |-> created + 1]
      /\ target' = [u \in Threads |-> target'[u]]
      /\ OthersKeep(t)
  BY <1>2 DEF GetStream, Go, CoreInv, Shape, StreamInv, StreamShape, OthersKeep
<1>5. /\ created + 1 \in Nat \ {0}
      /\ target'[t].stream = a /\ target'[t] \in AnyHandle
  BY <1>4 DEF StreamInv, StreamShape, AnyHandle
<1>6. StreamShape'
  BY <1>2, <1>3, <1>4, <1>5 DEF StreamInv, StreamShape, AnyHandle, AnyKey
<1>7. Local(t)'
  BY <1>1, <1>2, <1>3, <1>4, <1>5
     DEF Local, OwnedThere, Owns, OwnedState, Placed, Emptied, Initialized
<1>8. ASSUME NEW u \in Threads \ {t}
      PROVE  /\ Owns(u) => target[u].stream # a
             /\ Local(u)'
  <2>1. Owns(u) => target[u].stream \in Addresses /\ target[u].stream # a
    <3>1. Owns(u) => target[u] \in AnyHandle
      BY DEF StreamInv, Local, Placed, Owns
    <3> QED BY <1>1, <3>1 DEF StreamInv, Local, OwnedThere, OwnedState, AnyHandle
  <2>2. Owns(u) => streams'[target[u].stream].state = streams[target[u].stream].state
    BY <1>3, <2>1
  <2>3. pc[u] \notin {"release_all", "exit_rest", "clear_initialized"}
    BY <1>1, NoExitBeside
  <2>4. Local(u)'
    BY <1>2, <1>4, <2>2, <2>3, OthersLocal DEF Initialized
  <2> QED BY <2>1, <2>4
<1>9. OwnersApart'
  <2>1. \A u \in Threads \ {t} : Owns(u)' => Owns(u) /\ target'[u].stream = target[u].stream
    BY <1>4 DEF OthersKeep, Owns
  <2> QED BY <1>5, <1>8, <2>1 DEF StreamInv, OwnersApart
<1>10. ListsExact' /\ NothingLeft'
  BY <1>1, <1>2, <1>3, <1>5 DEF StreamInv, StreamShape, ListsExact, NothingLeft
<1>11. NoUseAfterDelete'
  <2> SUFFICES ASSUME NEW u \in Threads, pc'[u] \in {"function", "refused"}
               PROVE  streams'[target'[u].stream].id = target'[u].id
    BY DEF NoUseAfterDelete
  <2>1. u # t /\ pc'[u] = pc[u] /\ target'[u] = target[u]
    BY <1>4 DEF OthersKeep
  <2>2. streams[target[u].stream].id = target[u].id /\ target[u] \in AnyHandle
    BY <2>1 DEF StreamInv, NoUseAfterDelete, Local, Placed
  <2> QED BY <1>1, <1>3, <2>1, <2>2 DEF AnyHandle
<1> QED BY <1>6, <1>7, <1>8, <1>9, <1>10, <1>11 DEF StreamInv

Releases(t) ==
  /\ InBody(t) /\ pc[t] \in {"open_release", "release"}
  /\ ReleaseStream(target[t].stream)
  /\ UNCHANGED <<streams, created, core_initialized, fun, key, target, handles>>
  /\ OthersKeep(t)
  /\ ok' = [u \in Threads |-> ok'[u]]
  /\ \/ pc'[t] \in {"unlock", "close_set"} /\ fun[t] = "CloseStream"
     \/ pc'[t] \in {"unlock", "exit"} /\ fun[t] = "Exit"
     \/ pc'[t] = "unlock" /\ fun[t] = "OpenStream"

\* A thread moves a stream, if it is in stream_list, that nobody owns.
LEMMA ReleasesInv ==
  ASSUME CoreInv, StreamInv, NEW t \in Threads, Releases(t)
  PROVE  StreamInv'
<1> USE DEF Releases
<1> DEFINE a == target[t].stream
<1>1. Local(t) /\ a \in Addresses /\ target[t] \in AnyHandle /\ core_initialized
  <2>1. Local(t) /\ target[t] \in AnyHandle
    BY DEF StreamInv, Local, Placed
  <2>2. fun[t] # "Init"
    BY <2>1 DEF Local, Placed
  <2> QED BY <2>1, <2>2 DEF Local, Initialized, AnyHandle
<1>2. /\ stream_list' = stream_list \ {a}
      /\ released_stream_list' = released_stream_list \cup (stream_list \cap {a})
  BY DEF ReleaseStream
<1>3. StreamShape'
  BY <1>1, <1>2 DEF StreamInv, StreamShape, AnyHandle, AnyKey
<1>4. Local(t)'
  <2>1. ~Owns(t)' /\ pc'[t] \notin {"release_all", "exit_rest", "clear_initialized"}
    BY DEF Owns
  <2>2. OwnedThere(t)' /\ Emptied(t)' /\ Initialized(t)'
    BY <1>1, <2>1 DEF OwnedThere, Emptied, Initialized
  <2>3. Placed(t)'
    BY <1>1 DEF Placed, AnyHandle
  <2> QED BY <2>2, <2>3 DEF Local
<1>5. ASSUME NEW u \in Threads \ {t}
      PROVE  Local(u)'
  <2>1. pc[u] \notin {"release_all", "exit_rest", "clear_initialized"}
    BY NoExitBeside
  <2> QED BY <2>1, OthersLocal DEF Initialized
<1>6. OwnersApart'
  <2>1. ~Owns(t)' /\ \A u \in Threads \ {t} : Owns(u)' => Owns(u)
    BY DEF OthersKeep, Owns
  <2> QED BY <2>1 DEF StreamInv, OwnersApart
<1>7. ListsExact' /\ NothingLeft'
  BY <1>1, <1>2 DEF StreamInv, ListsExact, NothingLeft
<1>8. NoUseAfterDelete'
  BY DEF StreamInv, NoUseAfterDelete, OthersKeep
<1> QED BY <1>3, <1>4, <1>5, <1>6, <1>7, <1>8 DEF StreamInv

Deletes(t, garbage) ==
  /\ garbage \subseteq released_stream_list
  /\ \A a \in garbage : Accessing(a) = {}
  /\ released_stream_list' = released_stream_list \ garbage
  /\ streams' = [a \in Addresses |-> IF a \in garbage THEN NoStream ELSE streams[a]]
  /\ UNCHANGED <<stream_list, created, core_initialized, fun, key, target, ok, handles>>
  /\ OthersKeep(t)
  /\ \/ /\ pc[t] = "gc" /\ pc'[t] = "new"
        /\ \A a \in garbage : streams[a].state = "NotInit"
     \/ pc[t] = "release_all" /\ pc'[t] = "release_all"

\* Only streams that nobody owns and nobody is in are deleted.
LEMMA DeletesInv ==
  ASSUME CoreInv, StreamInv, NEW t \in Threads, NEW garbage, Deletes(t, garbage)
  PROVE  StreamInv'
<1> USE DEF Deletes
<1>1. /\ Local(t)
      /\ NoStream \in Streams /\ NoStream.state = "free" /\ NoStream.id = 0
  BY DEF StreamInv, NoStream, Streams, StreamStates
<1>2. \A a \in Addresses : streams'[a] = IF a \in garbage THEN NoStream ELSE streams[a]
  OBVIOUS
<1>3. StreamShape'
  BY <1>1, <1>2 DEF StreamInv, StreamShape, AnyHandle, AnyKey
<1>4. Local(t)'
  <2>1. ~Owns(t)' /\ OwnedThere(t)'
    BY DEF Owns, OwnedThere
  <2>2. Placed(t)'
    BY <1>1 DEF Local, Placed, AnyHandle
  <2>3. Emptied(t)' /\ Initialized(t)'
    BY <1>1 DEF Local, Emptied, Initialized, InBody
  <2> QED BY <2>1, <2>2, <2>3 DEF Local
<1>5. ASSUME NEW u \in Threads \ {t}
      PROVE  Local(u)'
  <2>1. Owns(u) => target[u].stream \in Addresses \ garbage
    <3>1. ASSUME Owns(u)
          PROVE  InBody(u) /\ target[u] \in AnyHandle
                 /\ streams[target[u].stream].state # "NotInit"
      BY <3>1 DEF InBody, StreamInv, Local, OwnedThere, OwnedState, Placed, Owns
    <3>2. Owns(u) => pc[t] # "release_all"
      BY <3>1, NoExitBeside
    <3> QED BY <3>1, <3>2 DEF AnyHandle
  <2>2. Owns(u) => streams'[target[u].stream] = streams[target[u].stream]
    BY <1>2, <2>1
  <2> QED BY <2>1, <2>2, OthersLocal DEF Initialized
<1>6. OwnersApart'
  <2>1. \A u \in Threads : Owns(u)' => Owns(u)
    BY DEF OthersKeep, Owns
  <2> QED BY <2>1 DEF StreamInv, OwnersApart
<1>7. ListsExact' /\ NothingLeft'
  BY <1>1, <1>2 DEF StreamInv, StreamShape, ListsExact, NothingLeft
<1>8. NoUseAfterDelete'
  <2> SUFFICES ASSUME NEW u \in Threads, pc'[u] \in {"function", "refused"}
               PROVE  streams'[target[u].stream].id = target[u].id
    BY DEF NoUseAfterDelete
  <2>1. pc[u] \in {"function", "refused"}
    BY DEF OthersKeep
  <2>2. /\ streams[target[u].stream].id = target[u].id /\ target[u] \in AnyHandle
        /\ u \in Accessing(target[u].stream)
    BY <2>1 DEF StreamInv, NoUseAfterDelete, Local, Placed, Accessing
  <2>3. target[u].stream \notin garbage
    BY <2>2
  <2> QED BY <1>2, <2>2, <2>3 DEF AnyHandle
<1> QED BY <1>3, <1>4, <1>5, <1>6, <1>7, <1>8 DEF StreamInv

\* The core is initialized, or no longer: at the end of Exit there is no stream.
LEMMA CoreSetInv ==
  ASSUME CoreInv, StreamInv, NEW t \in Threads, SetCoreInitialized(t)
  PROVE  StreamInv'
<1>1. /\ UNCHANGED <<streams, stream_list, released_stream_list, created, fun, key, target,
                     ok, handles>>
      /\ pc'[t] = "unlock" /\ OthersKeep(t)
  BY DEF SetCoreInitialized, Go, manager_vars, local_vars, app_vars, OthersKeep, CoreInv, Shape
<1>2. /\ Local(t) /\ InBody(t) /\ fun[t] \in {"Init", "Exit"}
      /\ pc[t] = "clear_initialized" => stream_list = {} /\ released_stream_list = {}
  BY DEF StreamInv, Local, Emptied, SetCoreInitialized, InBody, CoreInv, Labelled, ExitLabels
<1>3. StreamShape'
  BY <1>1 DEF StreamInv, StreamShape, AnyHandle, AnyKey
<1>4. Local(t)'
  BY <1>1, <1>2 DEF Local, OwnedThere, Owns, Placed, Emptied, Initialized, InBody
<1>5. ASSUME NEW u \in Threads \ {t}
      PROVE  Local(u)'
  <2>1. ~InBody(u)
    BY <1>2, CoreInvExcludes DEF FunctionsExclusive
  <2>2. Local(u)
    BY DEF StreamInv
  <2> QED BY <1>1, <2>1, <2>2, OthersLocal DEF Local, OwnedThere
<1>6. OwnersApart'
  <2>1. \A u \in Threads : Owns(u)' => Owns(u)
    BY <1>1 DEF OthersKeep, Owns
  <2> QED BY <1>1, <2>1 DEF StreamInv, OwnersApart
<1>7. ListsExact' /\ NothingLeft'
  BY <1>1, <1>2 DEF StreamInv, ListsExact, NothingLeft, SetCoreInitialized
<1>8. NoUseAfterDelete'
  BY <1>1 DEF StreamInv, NoUseAfterDelete, OthersKeep
<1> QED BY <1>3, <1>4, <1>5, <1>6, <1>7, <1>8 DEF StreamInv

---------------------------------------------------------------------------
(***************************************************************************)
(* The steps, one group after the other                                    *)
(***************************************************************************)
\* A call of the application: a stream function starts in a stream that is
\* there.
LEMMA CallsStreamInv ==
  ASSUME CoreInv, StreamInv, NEW t \in Threads, Calls(t)
  PROVE  StreamInv'
<1> DEFINE Starts(f, l) ==
      /\ Call(t, f, l)
      /\ key' \in [Threads -> Keys \cup {AnyKey}]
      /\ target' = [target EXCEPT ![t] = target'[t]]
      /\ handles' \subseteq AnyHandle
      /\ f \in {"CloseStream", "StreamFunction"} => target'[t] \in AnyHandle
<1>1. ASSUME NEW f, NEW l, Starts(f, l),
             \/ l = "lock" /\ f \notin {"CloseStream", "StreamFunction"}
             \/ l = "get_stream_key" /\ f = "CloseStream"
             \/ /\ l \in {"function", "refused"} /\ f = "StreamFunction"
                /\ streams[target'[t].stream].id = target'[t].id
      PROVE  StreamInv'
  <2>1. /\ UNCHANGED <<streams, stream_list, released_stream_list, created,
                       core_initialized, ok>>
        /\ pc'[t] = l /\ fun'[t] = f
        /\ target' = [u \in Threads |-> target'[u]]
        /\ OthersKeep(t)
    BY <1>1 DEF Call, Go, lock_vars, manager_vars, OthersKeep, CoreInv, Shape, StreamInv,
                StreamShape
  <2>2. StreamShape'
    BY <1>1, <2>1 DEF StreamInv, StreamShape, AnyHandle, AnyKey
  <2>3. Local(t)'
    BY <1>1, <2>1 DEF Local, OwnedThere, Owns, Placed, Emptied, Initialized, InBody, AnyHandle
  <2>4. Aside(t)
    BY <1>1, <2>1, <2>2, <2>3 DEF Aside, Owns
  <2> QED BY <2>4, AsideInv
<1>2. /\ key \in [Threads -> Keys \cup {AnyKey}] /\ handles \subseteq AnyHandle
      /\ target = [target EXCEPT ![t] = target[t]]
  BY DEF StreamInv, StreamShape
<1>3. CASE CallInit(t) \/ CallExit(t) \/ CallReadOnly(t)
  <2>1. PICK f \in {"Init", "Exit", "ReadOnly"} :
          Call(t, f, "lock") /\ UNCHANGED <<key, target, handles>>
    <3> HIDE DEF Call
    <3> QED BY <1>3 DEF CallInit, CallExit, CallReadOnly
  <2>2. Starts(f, "lock")
    BY <1>2, <2>1
  <2> QED BY <1>1, <2>2
<1>4. ASSUME NEW k \in Keys,
             CallStreamKey(t, k) \/ CallClosePublisher(t, k) \/ CallOpenStream(t, k)
      PROVE  StreamInv'
  <2>1. PICK f \in {"StreamKey", "ClosePublisher", "OpenStream"} : CallWithKey(t, f, k)
    <3> HIDE DEF CallWithKey
    <3> QED BY <1>4 DEF CallStreamKey, CallClosePublisher, CallOpenStream
  <2>2. Starts(f, "lock")
    BY <1>2, <2>1 DEF CallWithKey
  <2> QED BY <1>1, <2>2
<1>5. ASSUME NEW h \in handles, CallCloseStream(t, h)
      PROVE  StreamInv'
  <2>1. Call(t, "CloseStream", "get_stream_key") /\ target'[t] = h
    BY <1>5 DEF CallCloseStream, StreamInv, StreamShape
  <2>2. Starts("CloseStream", "get_stream_key")
    BY <1>2, <1>5, <2>1 DEF CallCloseStream
  <2> QED BY <1>1, <2>2
<1>6. ASSUME NEW h \in handles, CallStreamFunction(t, h)
      PROVE  StreamInv'
  <2>1. /\ target'[t] = h
        /\ \E l \in {"function", "refused"} : Call(t, "StreamFunction", l)
        /\ streams[target'[t].stream].id = target'[t].id
    BY <1>6 DEF CallStreamFunction, StreamInv, StreamShape
  <2>2. PICK l \in {"function", "refused"} : Call(t, "StreamFunction", l)
    BY <2>1
  <2>3. Starts("StreamFunction", l)
    BY <1>2, <1>6, <2>1, <2>2 DEF CallStreamFunction
  <2> QED BY <1>1, <2>1, <2>3
<1> QED BY <1>3, <1>4, <1>5, <1>6 DEF Calls

\* The end of a call.
LEMMA ReturnStreamInv ==
  ASSUME CoreInv, StreamInv, NEW t \in Threads, StreamFunctionReturn(t) \/ Unlock(t)
  PROVE  StreamInv'
<1>1. /\ UNCHANGED <<streams, stream_list, released_stream_list, created, core_initialized>>
      /\ Return(t)
  BY DEF StreamFunctionReturn, Unlock, lock_vars, manager_vars
<1>2. /\ pc'[t] = "idle" /\ fun'[t] = "Init"
      /\ target' = [u \in Threads |-> target'[u]]
      /\ key' \in [Threads -> Keys \cup {AnyKey}]
      /\ ok' = [u \in Threads |-> ok'[u]]
      /\ OthersKeep(t)
  BY <1>1 DEF Return, OthersKeep, CoreInv, Shape, StreamInv, StreamShape
<1>3. handles' \subseteq AnyHandle
  <2>1. CASE StreamFunctionReturn(t)
    BY <2>1 DEF StreamFunctionReturn, app_vars, StreamInv, StreamShape
  <2>2. CASE Unlock(t)
    <3>1. pc[t] = "unlock" /\ handles' = ReturnedHandles(t) /\ Placed(t)
      BY <2>2 DEF Unlock, StreamInv, Local
    <3>2. /\ fun[t] = "OpenStream" /\ ok[t] => target[t] \in AnyHandle
          /\ fun[t] = "CloseStream" => target[t] \in AnyHandle
          /\ handles \subseteq AnyHandle
      BY <3>1 DEF Placed, StreamInv, StreamShape
    <3> QED BY <3>1, <3>2 DEF ReturnedHandles
  <2> QED BY <2>1, <2>2
<1>4. StreamShape'
  BY <1>1, <1>2, <1>3 DEF StreamInv, StreamShape, AnyHandle, AnyKey
<1>5. Local(t)'
  BY <1>2 DEF Local, OwnedThere, Owns, Placed, Emptied, Initialized, InBody
<1>6. Aside(t)
  BY <1>1, <1>2, <1>4, <1>5 DEF Aside, Owns
<1> QED BY <1>6, AsideInv

(***************************************************************************)
(* A step from one label to another, in the same call, that leaves the     *)
(* streams and the lists alone.                                            *)
(***************************************************************************)
Passes(t) ==
  /\ UNCHANGED <<streams, stream_list, released_stream_list, created, core_initialized, fun,
                 handles>>
  /\ pc' = [pc EXCEPT ![t] = pc'[t]]
  /\ target' = [target EXCEPT ![t] = target'[t]]
  /\ ok' = [ok EXCEPT ![t] = ok'[t]]
  /\ key' \in [Threads -> Keys \cup {AnyKey}]

\* Such a step is aside when what the thread knows then is true.
LEMMA PassesInv ==
  ASSUME CoreInv, StreamInv, NEW t \in Threads, Passes(t), ~Owns(t)', Placed(t)',
         Emptied(t)', Initialized(t)', pc'[t] \notin {"function", "refused"}
  PROVE  StreamInv'
<1>1. /\ OthersKeep(t)
      /\ target' = [u \in Threads |-> target'[u]]
      /\ ok' = [u \in Threads |-> ok'[u]]
  BY DEF Passes, OthersKeep, CoreInv, Shape, StreamInv, StreamShape
<1>2. StreamShape'
  BY <1>1 DEF Passes, StreamInv, StreamShape, AnyHandle, AnyKey
<1>3. Local(t)'
  BY DEF Local, OwnedThere
<1>4. Aside(t)
  BY <1>1, <1>2, <1>3 DEF Passes, Aside
<1> QED BY <1>4, AsideInv

\* A granted lock puts a thread into its function, or it stays outside.
LEMMA LockStreamInv ==
  ASSUME CoreInv, StreamInv, NEW t \in Threads, Lock(t) \/ Woken(t)
  PROVE  StreamInv'
<1>1. /\ pc[t] \in {"lock", "waiting"} /\ Placed(t)
      /\ UNCHANGED <<streams, stream_list, released_stream_list, created, core_initialized,
                     fun, key, target, handles>>
  BY DEF Lock, Woken, lock_unchanged, manager_vars, app_vars, StreamInv, Local
<1>2. \/ Refused(t)
      \/ Go(t, "waiting") /\ UNCHANGED ok
      \/ /\ Go(t, Body(fun[t])) /\ UNCHANGED ok
         /\ \E p : Grants(LockType(fun[t]), p)
  BY DEF Lock, Woken, Decide
<1>3. /\ pc' = [pc EXCEPT ![t] = pc'[t]] /\ ok' = [ok EXCEPT ![t] = ok'[t]]
      /\ \/ pc'[t] = "unlock" /\ ~ok'[t]
         \/ pc'[t] = "publisher" /\ fun[t] = "ClosePublisher"
         \/ pc'[t] = "waiting"
         \/ pc'[t] = Body(fun[t]) /\ \E p : Grants(LockType(fun[t]), p)
  BY <1>2 DEF Refused, Go, Result, CoreInv, Shape, StreamInv, StreamShape
<1>4. Passes(t)
  BY <1>1, <1>3 DEF Passes, StreamInv, StreamShape
<1>5. /\ pc'[t] \notin {"function", "refused"} /\ ~Owns(t)'
      /\ Placed(t)' /\ Emptied(t)'
  BY <1>1, <1>3 DEF Placed, Owns, Emptied, Body, AnyHandle
<1>6. Initialized(t)'
  BY <1>1, <1>3 DEF Initialized, InBody, Grants, LockType
<1> QED BY <1>4, <1>5, <1>6, PassesInv

\* Init, the functions that read, the end of Exit, and what CloseStream and
\* Exit do before a stream is closed.
LEMMA PassingInv ==
  ASSUME CoreInv, StreamInv, NEW t \in Threads,
         \/ InitDone(t) \/ InitFailed(t) \/ ReadDone(t) \/ OpenInvalid(t)
         \/ GetCloseStreamStatus(t) \/ CloseSet(t) \/ ReleaseStreamAll(t) \/ AllDeleted(t)
         \/ ExitRest(t) \/ GetStreamKey(t) \/ InsertClosing(t)
  PROVE  StreamInv'
<1>0. /\ StreamShape /\ Local(t)
      /\ pc[t] \in {"init", "set_initialized"} => fun[t] = "Init"
      /\ pc[t] \in ExitLabels => fun[t] = "Exit"
  BY DEF StreamInv, CoreInv, Labelled
<1> DEFINE Fits == /\ ~Owns(t)' /\ Placed(t)' /\ Emptied(t)' /\ Initialized(t)'
                   /\ pc'[t] \notin {"function", "refused"}
<1> USE DEF Go, Result, body_unchanged, manager_vars, app_vars, CoreInv, Shape, StreamShape
<1>1. CASE InitDone(t) \/ InitFailed(t)
  <2>1. Passes(t)
    BY <1>0, <1>1 DEF InitDone, InitFailed, Passes
  <2>2. Fits
    BY <1>0, <1>1 DEF InitDone, InitFailed, Owns, Local, Placed, Emptied, Initialized, AnyHandle
  <2> QED BY <2>1, <2>2, PassesInv
<1>2. CASE ReadDone(t) \/ OpenInvalid(t)
  <2>1. Passes(t)
    BY <1>0, <1>2 DEF ReadDone, OpenInvalid, Passes
  <2>2. Fits
    BY <1>0, <1>2 DEF ReadDone, OpenInvalid, Owns, Local, Placed, Emptied, Initialized,
                      InBody, AnyHandle
  <2> QED BY <2>1, <2>2, PassesInv
<1>3. CASE GetCloseStreamStatus(t) \/ CloseSet(t)
  <2>1. Passes(t)
    BY <1>0, <1>3 DEF GetCloseStreamStatus, CloseSet, local_vars, Passes
  <2>2. Fits
    BY <1>0, <1>3 DEF GetCloseStreamStatus, CloseSet, local_vars, Owns, Local, Placed,
                      Emptied, Initialized, InBody, AnyHandle
  <2> QED BY <2>1, <2>2, PassesInv
<1>4. CASE ReleaseStreamAll(t) \/ AllDeleted(t) \/ ExitRest(t)
  <2>1. Passes(t)
    BY <1>0, <1>4 DEF ReleaseStreamAll, AllDeleted, ExitRest, Passes
  <2>2. Fits
    BY <1>0, <1>4 DEF ReleaseStreamAll, AllDeleted, ExitRest, Owns, Local, Placed,
                      Emptied, Initialized, InBody, ExitLabels, AnyHandle
  <2> QED BY <2>1, <2>2, PassesInv
<1>5. CASE GetStreamKey(t) \/ InsertClosing(t)
  <2>1. target[t] \in AnyHandle
    BY <1>0, <1>5 DEF GetStreamKey, InsertClosing, Local, Placed
  <2>2. Passes(t)
    BY <1>0, <1>5, <2>1 DEF GetStreamKey, InsertClosing, local_vars, lock_vars, Passes,
                            AnyHandle, Streams
  <2>3. Fits
    BY <1>0, <1>5 DEF GetStreamKey, InsertClosing, local_vars, lock_vars, Owns, Local, Placed,
                      Emptied, Initialized, InBody, AnyHandle
  <2> QED BY <2>2, <2>3, PassesInv
<1> QED BY <1>1, <1>2, <1>3, <1>4, <1>5

\* StreamCore::Open and Close change the state of a stream that nobody else
\* opens or closes; a close that is refused changes nothing.
LEMMA SettingInv ==
  ASSUME CoreInv, StreamInv, NEW t \in Threads,
         OpenDone(t) \/ OpenFailed(t) \/ CloseBegin(t) \/ CloseEnd(t)
  PROVE  StreamInv'
<1> DEFINE a == target[t].stream
<1>0. /\ StreamShape /\ Local(t)
      /\ target[t] \in AnyHandle /\ a \in Addresses /\ streams[a] \in Streams
  <2>1. StreamShape /\ Local(t)
    BY DEF StreamInv
  <2>2. target[t] \in AnyHandle
    BY <2>1 DEF OpenDone, OpenFailed, CloseBegin, CloseEnd, Local, Placed
  <2> QED BY <2>1, <2>2 DEF StreamShape, AnyHandle
<1>1. /\ UNCHANGED <<stream_list, released_stream_list, created, core_initialized, fun, key,
                     target, handles>>
      /\ pc' = [pc EXCEPT ![t] = pc'[t]] /\ ok' = [ok EXCEPT ![t] = ok'[t]]
  BY <1>0 DEF OpenDone, OpenFailed, CloseBegin, CloseEnd, Failed, Go, Result,
              body_unchanged, app_vars, CoreInv, Shape, StreamShape
<1>2. OthersKeep(t) /\ ok' = [u \in Threads |-> ok'[u]]
  BY <1>0, <1>1 DEF OthersKeep, CoreInv, Shape, StreamShape
<1>3. ASSUME NEW state \in StreamStates \ {"free"}, SetState(a, state), Owns(t) \/ pc[t] = "close",
             Owns(t) \/ streams[a].state = "Open",
             \/ pc[t] = "open" /\ pc'[t] = "unlock"
             \/ pc[t] = "open" /\ pc'[t] = "open_release"
             \/ pc[t] = "close" /\ pc'[t] = "close_wait" /\ state = "Closing"
             \/ pc[t] = "close_wait" /\ pc'[t] = "release" /\ state = "NotInit"
             \/ /\ pc[t] = "close_wait"
                /\ pc'[t] = IF fun[t] = "Exit" THEN "unlock" ELSE "close_set"
      PROVE  StreamInv'
  <2>1. streams' \in [Addresses -> Streams] /\ streams'[a].state = state
    <3>1. \A b \in Addresses : streams[b] \in Streams
      BY <1>0 DEF StreamShape
    <3>2. [streams[a] EXCEPT !.state = state] \in Streams
      BY <1>0, <1>3 DEF Streams
    <3>3. streams' = [streams EXCEPT ![a] = [streams[a] EXCEPT !.state = state]]
      BY <1>3 DEF SetState
    <3>4. [streams[a] EXCEPT !.state = state].state = state
      BY <1>0 DEF Streams
    <3> QED BY <1>0, <3>2, <3>3, <3>4 DEF StreamShape
  <2>2. StreamShape'
    BY <1>0, <1>1, <1>2, <2>1 DEF StreamShape, AnyHandle, AnyKey
  <2>3. OwnedThere(t)'
    BY <1>1, <1>3, <2>1 DEF OwnedThere, Owns, OwnedState
  <2>4. Placed(t)' /\ Emptied(t)' /\ Initialized(t)'
    BY <1>0, <1>1, <1>3 DEF Local, Placed, Emptied, Initialized, InBody, Owns, AnyHandle
  <2>5. SetsState(t, a, state)
    BY <1>0, <1>1, <1>2, <1>3, <2>2, <2>3, <2>4 DEF SetsState, Local
  <2> QED BY <2>5, SetsStateInv
<1>4. CASE OpenDone(t)
  <2>1. SetState(a, "Open") /\ Owns(t) /\ pc[t] = "open" /\ pc'[t] = "unlock"
    BY <1>4 DEF OpenDone, Go, Owns, CoreInv, Shape
  <2> QED BY <1>3, <2>1 DEF StreamStates
<1>5. CASE OpenFailed(t)
  <2>1. PICK state \in {"Init", "NotInit", "Open"} : SetState(a, state)
    BY <1>5 DEF OpenFailed
  <2>2. Owns(t) /\ pc[t] = "open" /\ pc'[t] = "open_release"
    BY <1>5 DEF OpenFailed, Go, Owns, CoreInv, Shape
  <2> QED BY <1>3, <2>1, <2>2 DEF StreamStates
<1>6. CASE CloseBegin(t)
  <2>1. pc[t] = "close"
    BY <1>6 DEF CloseBegin
  <2>2. CASE streams[a].state = "Open"
    <3>1. SetState(a, "Closing") /\ pc'[t] = "close_wait"
      BY <1>6, <2>2 DEF CloseBegin, Go, CoreInv, Shape
    <3> QED BY <1>3, <2>1, <2>2, <3>1 DEF StreamStates
  <2>3. CASE streams[a].state # "Open"
    <3>1. /\ UNCHANGED streams
          /\ \/ pc' = pc
             \/ pc'[t] = IF fun[t] = "Exit" THEN "unlock" ELSE "close_set"
      BY <1>6, <2>3 DEF CloseBegin, Failed, Go, CoreInv, Shape
    <3>2. Passes(t)
      BY <1>0, <1>1, <3>1 DEF Passes, StreamShape
    <3>3. /\ ~Owns(t)' /\ Placed(t)' /\ Emptied(t)' /\ Initialized(t)'
          /\ pc'[t] \notin {"function", "refused"}
      BY <1>0, <1>1, <2>1, <3>1 DEF Local, Placed, Emptied, Initialized, InBody, Owns, AnyHandle
    <3> QED BY <3>2, <3>3, PassesInv
  <2> QED BY <2>2, <2>3
<1>7. CASE CloseEnd(t)
  <2>1. Owns(t) /\ pc[t] = "close_wait"
    BY <1>7 DEF CloseEnd, Owns
  <2>2. \/ SetState(a, "NotInit") /\ pc'[t] = "release"
        \/ /\ SetState(a, "Open")
           /\ pc'[t] = IF fun[t] = "Exit" THEN "unlock" ELSE "close_set"
    BY <1>7 DEF CloseEnd, Failed, Go, CoreInv, Shape
  <2> QED BY <1>3, <2>1, <2>2 DEF StreamStates
<1> QED BY <1>4, <1>5, <1>6, <1>7

\* StreamManager::ReleaseStream, after a failed Open and after Close.
LEMMA ReleaseInv ==
  ASSUME CoreInv, StreamInv, NEW t \in Threads, OpenRelease(t) \/ CloseRelease(t)
  PROVE  StreamInv'
<1>0. StreamShape /\ Local(t) /\ InBody(t)
  BY DEF StreamInv, OpenRelease, CloseRelease, InBody
<1>1. /\ ReleaseStream(target[t].stream)
      /\ UNCHANGED <<streams, created, core_initialized, fun, key, target, handles>>
      /\ pc' = [pc EXCEPT ![t] = pc'[t]] /\ ok' = [ok EXCEPT ![t] = ok'[t]]
  BY <1>0 DEF OpenRelease, CloseRelease, Failed, Result, Go, body_unchanged, app_vars, CoreInv,
              Shape, StreamShape
<1>2. OthersKeep(t) /\ ok' = [u \in Threads |-> ok'[u]]
  BY <1>0, <1>1 DEF OthersKeep, CoreInv, Shape, StreamShape
<1>3. \/ /\ pc[t] = "open_release" /\ pc'[t] = "unlock" /\ fun[t] = "OpenStream"
      \/ /\ pc[t] = "release" /\ fun[t] \in {"CloseStream", "Exit"}
         /\ pc'[t] \in (IF fun[t] = "Exit" THEN {"exit", "unlock"} ELSE {"close_set"})
  BY <1>0 DEF OpenRelease, CloseRelease, Failed, Go, Local, Placed, CoreInv, Shape
<1>4. Releases(t)
  BY <1>0, <1>1, <1>2, <1>3 DEF Releases
<1> QED BY <1>4, ReleasesInv

\* DeleteReleasedStream of OpenStream, and ReleaseStreamAll of Exit.
LEMMA DeleteInv ==
  ASSUME CoreInv, StreamInv, NEW t \in Threads,
         \/ DeleteReleasedStream(t)
         \/ \E a \in Addresses : DeleteStream(t, a)
  PROVE  StreamInv'
<1>0. StreamShape
  BY DEF StreamInv
<1>1. CASE DeleteReleasedStream(t)
  <2>1. PICK garbage : garbage = {a \in released_stream_list : IsReleasable(a)}
    OBVIOUS
  <2>2. Deletes(t, garbage)
    BY <1>0, <1>1, <2>1 DEF DeleteReleasedStream, Deletes, IsReleasable, Go, body_unchanged,
                            app_vars, OthersKeep, CoreInv, Shape
  <2> QED BY <2>2, DeletesInv
<1>2. ASSUME NEW a \in Addresses, DeleteStream(t, a)
      PROVE  StreamInv'
  <2>1. PICK garbage : garbage = {a}
    OBVIOUS
  <2>2. Deletes(t, garbage)
    BY <1>0, <1>2, <2>1 DEF DeleteStream, Deletes, body_unchanged, app_vars, OthersKeep,
                            StreamShape
  <2> QED BY <2>2, DeletesInv
<1> QED BY <1>1, <1>2

\* Exit takes the next stream of the list.
LEMMA ExitStreamInv ==
  ASSUME CoreInv, StreamInv, NEW t \in Threads, NEW a \in Addresses, ExitStream(t, a)
  PROVE  StreamInv'
<1>0. StreamShape /\ Local(t) /\ fun[t] = "Exit" /\ pc[t] = "exit"
  BY DEF StreamInv, ExitStream, CoreInv, Labelled, ExitLabels
<1>1. Handle(a) \in AnyHandle
  BY <1>0 DEF ExitStream, Handle, AnyHandle, StreamInv, ListsExact, StreamShape, Streams
<1>2. Passes(t) /\ pc'[t] = "close" /\ target'[t] \in AnyHandle
  BY <1>0, <1>1 DEF ExitStream, Passes, Go, body_unchanged, manager_vars, app_vars, CoreInv,
                    Shape, StreamShape
<1>3. /\ ~Owns(t)' /\ Placed(t)' /\ Emptied(t)' /\ Initialized(t)'
      /\ pc'[t] \notin {"function", "refused"}
  BY <1>0, <1>2 DEF Local, Passes, Placed, Emptied, Initialized, InBody, Owns, AnyHandle
<1> QED BY <1>2, <1>3, PassesInv

\* Every step keeps the invariant of the streams.
LEMMA NextStreamInv == CoreInv /\ StreamInv /\ [Next]_vars => StreamInv'
<1> SUFFICES ASSUME CoreInv, StreamInv, [Next]_vars PROVE StreamInv'
  OBVIOUS
<1>1. CASE UNCHANGED vars
  <2>1. UNCHANGED <<core_initialized, streams, stream_list, released_stream_list, created, key,
                    target, ok, handles, pc, fun>>
    BY <1>1 DEF vars, lock_vars, manager_vars, local_vars, app_vars
  <2>2. StreamShape' /\ OwnersApart' /\ ListsExact' /\ NothingLeft' /\ NoUseAfterDelete'
    BY <2>1 DEF StreamInv, StreamShape, OwnersApart, Owns, ListsExact, NothingLeft,
                NoUseAfterDelete, AnyHandle, AnyKey
  <2>3. ASSUME NEW t \in Threads
        PROVE  Local(t)'
    BY <2>1 DEF StreamInv, Local, OwnedThere, Owns, OwnedState, Placed, Emptied,
                Initialized, InBody, AnyHandle
  <2> QED BY <2>2, <2>3 DEF StreamInv
<1>2. ASSUME NEW t \in Threads, Calls(t) \/ Step(t)
      PROVE  StreamInv'
  <2>1. CASE Calls(t) \/ StreamFunctionReturn(t) \/ Unlock(t)
    BY <2>1, CallsStreamInv, ReturnStreamInv
  <2>2. CASE Lock(t) \/ Woken(t) \/ SetCoreInitialized(t)
    BY <2>2, LockStreamInv, CoreSetInv
  <2>3. CASE \/ InitDone(t) \/ InitFailed(t) \/ ReadDone(t) \/ OpenInvalid(t)
             \/ GetCloseStreamStatus(t) \/ CloseSet(t) \/ ReleaseStreamAll(t) \/ AllDeleted(t)
             \/ ExitRest(t) \/ GetStreamKey(t) \/ InsertClosing(t)
    BY <2>3, PassingInv
  <2>4. CASE OpenDone(t) \/ OpenFailed(t) \/ CloseBegin(t) \/ CloseEnd(t)
    BY <2>4, SettingInv
  <2>5. CASE \/ OpenRelease(t) \/ CloseRelease(t) \/ DeleteReleasedStream(t)
             \/ \E a \in Addresses : DeleteStream(t, a)
    BY <2>5, ReleaseInv, DeleteInv
  <2>6. CASE \E a \in Addresses : GetStream(t, a) \/ ExitStream(t, a)
    BY <2>6, GetStreamInv, ExitStreamInv
  <2> QED BY <1>2, <2>1, <2>2, <2>3, <2>4, <2>5, <2>6 DEF Step
<1> QED BY <1>1, <1>2 DEF Next, Finished

\* The invariant holds in every state.
THEOREM SpecStreamInv == Spec => []StreamInv
BY InitCoreInv, NextCoreInv, InitStreamInv, NextStreamInv, PTL DEF Spec

\* A stream is not deleted while a thread is in one of its functions, neither
\* by the garbage collection of OpenStream nor by Exit
\* (StreamManager::DeleteReleasedStream and ReleaseStreamAll).
THEOREM SpecNoUseAfterDelete == Spec => []NoUseAfterDelete
<1>1. StreamInv => NoUseAfterDelete
  BY DEF StreamInv
<1> QED BY <1>1, SpecStreamInv, PTL

\* Every stream is in exactly one of the two lists of StreamManager, from
\* GetStream until it is deleted, and Core::Exit leaves none.
THEOREM SpecStreamsAccounted == Spec => []StreamsAccounted
<1>1. StreamInv => StreamsAccounted
  BY DEF StreamInv, StreamShape, ListsExact, NothingLeft, StreamsAccounted
<1> QED BY <1>1, SpecStreamInv, PTL
---------------------------------------------------------------------------
(***************************************************************************)
(* What CloseStream has done when it returns OK.  The status of a close is *)
(* kept by the address of the stream, as long as a CloseStream is under    *)
(* way there, and then the stream at that address is settled: it stays     *)
(* closed, or it is deleted and a new one is reused.                       *)
(***************************************************************************)
Settled(a) == streams[a].state \in {"NotInit", "free"} \/ streams[a].id \in reused

\* A CloseStream that has announced itself, and has not been refused.
Closes(t) ==
  /\ fun[t] = "CloseStream"
  /\ \/ pc[t] \in {"lock", "waiting", "close_status", "close", "close_wait", "release", "close_set"}
     \/ pc[t] = "unlock" /\ ok[t]

\* One that has found its stream closed, or has closed it.
Ending(t) ==
  /\ fun[t] = "CloseStream"
  /\ pc[t] = "release" \/ (pc[t] \in {"close_set", "unlock"} /\ ok[t])

CloseShape ==
  /\ ok \in [Threads -> BOOLEAN]
  /\ close_stream_info \in [Addresses -> CloseStreamStatusInfo]

\* An id is that of a stream at one address.
Named(h) ==
  h.id # 0 => /\ h.id \in 1 .. created
              /\ \A a \in Addresses : streams[a].id = h.id => a = h.stream

Ids ==
  /\ \A a \in Addresses : Named(Handle(a))
  /\ \A h \in handles : Named(h)
  /\ \A t \in Threads : Named(target[t])
  /\ closed \subseteq 1 .. created

CloserThere(t) ==
  /\ Closes(t) => t \in close_stream_info[target[t].stream].threads
  /\ Ending(t) => Settled(target[t].stream)

Status ==
  \A a \in Addresses :
    LET info == close_stream_info[a] IN
    /\ info.threads = {} => info = NoClosing
    /\ info.closed /\ info.ok => Settled(a)

ClosedSettled == \A a \in Addresses : streams[a].id \in closed => Settled(a)

ClosedInv ==
  /\ CloseShape /\ Ids /\ Status /\ ClosedSettled
  /\ \A t \in Threads : CloserThere(t)

\* Initially nothing is closed.
LEMMA InitClosedInv == Init => ClosedInv
<1> SUFFICES ASSUME Init PROVE ClosedInv
  OBVIOUS
<1>1. /\ \A t \in Threads : fun[t] = "Init" /\ target[t] = NoHandle
      /\ ok = [t \in Threads |-> TRUE]
      /\ close_stream_info = [a \in Addresses |-> NoClosing]
      /\ handles = {} /\ closed = {} /\ created = 0
      /\ \A a \in Addresses : streams[a].id = 0
  BY DEF Init, LockInit, NoStream
<1>2. NoClosing \in CloseStreamStatusInfo /\ ~NoClosing.closed
  BY DEF NoClosing, CloseStreamStatusInfo
<1>3. CloseShape /\ Status /\ ClosedSettled
  BY <1>1, <1>2 DEF CloseShape, Status, ClosedSettled
<1>4. Ids
  BY <1>1 DEF Ids, Named, NoHandle, Handle
<1>5. \A t \in Threads : CloserThere(t)
  BY <1>1 DEF CloserThere, Closes, Ending
<1> QED BY <1>3, <1>4, <1>5 DEF ClosedInv

(***************************************************************************)
(* What a step does to the stream at an address.                           *)
(***************************************************************************)
Created(t, a) ==
  /\ target'[t] = [stream |-> a, id |-> created + 1] /\ created' = created + 1
  /\ streams[a].state = "free" /\ streams[a].id = 0
  /\ streams'[a].id = created + 1
  /\ close_stream_info[a].threads # {} => created + 1 \in reused'

Advanced(a) ==
  streams'[a].id = streams[a].id /\ streams[a].state \notin {"NotInit", "free"}

Changes(t, a) ==
  streams'[a] = streams[a] \/ streams'[a] = NoStream \/ Created(t, a) \/ Advanced(a)

\* A step leaves a stream as it is, deletes it, creates it, or goes on with one
\* that is neither closed nor deleted.
LEMMA StreamStep ==
  ASSUME CoreInv, StreamInv, NEW t \in Threads, Calls(t) \/ Step(t)
  PROVE  /\ \A a \in Addresses : Changes(t, a)
         /\ created' \in {created, created + 1} /\ reused \subseteq reused'
<1>0. StreamShape /\ Local(t)
  BY DEF StreamInv
<1>1. CASE UNCHANGED <<streams, created, reused>>
  BY <1>1 DEF Changes
<1>2. CASE Calls(t)
  <2>1. \E f, l : Call(t, f, l)
    <3> HIDE DEF Call
    <3> QED BY <1>2 DEF Calls, CallInit, CallExit, CallReadOnly, CallStreamKey,
               CallClosePublisher, CallOpenStream, CallWithKey, CallCloseStream,
               CallStreamFunction
  <2> QED BY <1>1, <2>1 DEF Call, manager_vars
<1>3. CASE \/ Lock(t) \/ Woken(t) \/ Unlock(t) \/ StreamFunctionReturn(t)
           \/ InitDone(t) \/ InitFailed(t) \/ SetCoreInitialized(t) \/ ReadDone(t)
           \/ OpenInvalid(t) \/ OpenRelease(t)
  BY <1>1, <1>3 DEF Lock, Woken, Unlock, StreamFunctionReturn, lock_unchanged, manager_vars,
       InitDone, InitFailed, SetCoreInitialized, ReadDone, OpenInvalid, OpenRelease
<1>4. CASE \/ GetStreamKey(t) \/ InsertClosing(t) \/ GetCloseStreamStatus(t) \/ CloseSet(t)
           \/ CloseRelease(t) \/ ReleaseStreamAll(t) \/ AllDeleted(t) \/ ExitRest(t)
           \/ \E a \in Addresses : ExitStream(t, a)
  BY <1>1, <1>4 DEF GetStreamKey, InsertClosing, GetCloseStreamStatus, CloseSet, CloseRelease,
       ReleaseStreamAll, AllDeleted, ExitRest, ExitStream, manager_vars
<1>5. CASE DeleteReleasedStream(t) \/ \E b \in Addresses : DeleteStream(t, b)
  <2>1. \A a \in Addresses : streams'[a] \in {streams[a], NoStream}
    BY <1>0, <1>5 DEF DeleteReleasedStream, DeleteStream, StreamShape
  <2> QED BY <1>5, <2>1 DEF Changes, DeleteReleasedStream, DeleteStream
<1>6. ASSUME NEW b \in Addresses, GetStream(t, b)
      PROVE  /\ \A a \in Addresses : Changes(t, a)
             /\ created' = created + 1 /\ reused \subseteq reused'
  <2>1. /\ target'[t] = [stream |-> b, id |-> created + 1] /\ created' = created + 1
        /\ reused' = reused \cup (IF close_stream_info[b].threads = {} THEN {} ELSE {created + 1})
        /\ streams[b].state = "free" /\ streams'[b].id = created + 1
        /\ \A c \in Addresses \ {b} : streams'[c] = streams[c]
    BY <1>0, <1>6 DEF GetStream, StreamShape
  <2>2. streams[b].id = 0
    BY <2>1 DEF StreamInv, ListsExact
  <2> QED BY <2>1, <2>2 DEF Changes, Created
<1>7. CASE OpenDone(t) \/ OpenFailed(t) \/ CloseBegin(t) \/ CloseEnd(t)
  <2> DEFINE b == target[t].stream
  <2>1. UNCHANGED <<created, reused>>
    BY <1>7 DEF OpenDone, OpenFailed, CloseBegin, CloseEnd
  <2>2. target[t] \in AnyHandle
    BY <1>0, <1>7 DEF OpenDone, OpenFailed, CloseBegin, CloseEnd, Local, Placed
  <2>3. \/ UNCHANGED streams
        \/ /\ Owns(t) \/ streams[b].state = "Open"
           /\ \E state : SetState(b, state)
    BY <1>7 DEF OpenDone, OpenFailed, CloseBegin, CloseEnd, Owns
  <2>4. ASSUME NEW state, SetState(b, state)
        PROVE  /\ streams'[b].id = streams[b].id
               /\ \A c \in Addresses \ {b} : streams'[c] = streams[c]
    BY <1>0, <2>2, <2>4 DEF SetState, StreamShape, Streams, AnyHandle
  <2>5. Owns(t) => streams[b].state \notin {"NotInit", "free"}
    BY <1>0 DEF Local, OwnedThere, OwnedState
  <2> QED BY <2>1, <2>3, <2>4, <2>5 DEF Changes, Advanced
<1> QED BY <1>2, <1>3, <1>4, <1>5, <1>6, <1>7 DEF Step

\* A settled stream stays so, and the next one there is settled as well while
\* a CloseStream of that address is under way.
LEMMA SettledKept ==
  ASSUME CoreInv, StreamInv, NEW t \in Threads, Calls(t) \/ Step(t),
         NEW a \in Addresses, Settled(a),
         close_stream_info[a].threads # {} \/ streams'[a].id = streams[a].id
  PROVE  Settled(a)'
<1>1. Changes(t, a) /\ reused \subseteq reused' /\ created \in Nat
  BY StreamStep DEF StreamInv, StreamShape
<1> QED BY <1>1 DEF Settled, Changes, Created, Advanced, NoStream

\* An id that has been given keeps its address.
LEMMA NamedKept ==
  ASSUME CoreInv, StreamInv, NEW t \in Threads, Calls(t) \/ Step(t), NEW h, Named(h)
  PROVE  Named(h)'
<1>1. created \in Nat /\ created' \in {created, created + 1}
  BY StreamStep DEF StreamInv, StreamShape
<1>2. ASSUME h.id # 0, NEW a \in Addresses, streams'[a].id = h.id
      PROVE  a = h.stream
  <2>1. Changes(t, a)
    BY StreamStep
  <2>2. h.id # created + 1 /\ NoStream.id = 0
    BY <1>1, <1>2 DEF Named, NoStream
  <2> QED BY <1>2, <2>1, <2>2 DEF Changes, Created, Advanced, Named
<1> QED BY <1>1, <1>2 DEF Named

(***************************************************************************)
(* The steps: the end of a function, a step of CloseStream, and any other. *)
(***************************************************************************)
TargetFrom(t) ==
  \/ target'[t] \in handles \cup {target[t], NoHandle}
  \/ \E a \in Addresses : target'[t] = Handle(a) \/ Created(t, a)

CloserActs(t) ==
  \/ GetStreamKey(t) \/ InsertClosing(t) \/ Lock(t) \/ Woken(t) \/ GetCloseStreamStatus(t)
  \/ CloseBegin(t) \/ CloseEnd(t) \/ CloseRelease(t) \/ CloseSet(t)

CloserMoves(t) ==
  /\ fun[t] = "CloseStream" /\ fun'[t] = "CloseStream" /\ target'[t] = target[t]
  /\ UNCHANGED <<handles, closed>>
  /\ CloserActs(t)

ElseMoves(t) ==
  /\ UNCHANGED <<closed, close_stream_info>> /\ handles' \subseteq handles
  /\ ok' \in [Threads -> BOOLEAN]
  /\ ~Closes(t)' /\ TargetFrom(t)

\* A step of CloseStream.
LEMMA CloserStep ==
  ASSUME CoreInv, StreamInv, NEW t \in Threads, Step(t), fun[t] = "CloseStream"
  PROVE  Unlock(t) \/ CloserMoves(t)
<1>0. Local(t) /\ fun = [u \in Threads |-> fun[u]] /\ target = [u \in Threads |-> target[u]]
  BY DEF StreamInv, StreamShape, CoreInv, Shape
<1>1. /\ pc[t] \notin {"function", "refused", "gc", "new", "open", "open_release", "read",
                       "publisher", "init", "set_initialized"}
      /\ pc[t] \notin ExitLabels
  BY <1>0 DEF Local, Placed, CoreInv, Labelled
<1>2. /\ ~StreamFunctionReturn(t) /\ ~InitDone(t) /\ ~InitFailed(t)
      /\ ~SetCoreInitialized(t) /\ ~ReadDone(t) /\ ~OpenInvalid(t)
      /\ ~DeleteReleasedStream(t) /\ ~OpenDone(t) /\ ~OpenFailed(t) /\ ~OpenRelease(t)
      /\ ~ReleaseStreamAll(t) /\ ~AllDeleted(t) /\ ~ExitRest(t)
  BY <1>1 DEF ExitLabels, StreamFunctionReturn, InitDone, InitFailed, SetCoreInitialized, ReadDone,
       OpenInvalid, DeleteReleasedStream, OpenDone, OpenFailed, OpenRelease,
       ReleaseStreamAll, AllDeleted, ExitRest
<1>3. \A a \in Addresses : ~GetStream(t, a) /\ ~ExitStream(t, a) /\ ~DeleteStream(t, a)
  BY <1>1 DEF ExitLabels, GetStream, ExitStream, DeleteStream
<1>4. Unlock(t) \/ CloserActs(t)
  BY <1>2, <1>3 DEF Step, CloserActs
<1>5. CloserActs(t) => UNCHANGED <<fun, target, handles, closed>>
  BY DEF CloserActs, GetStreamKey, InsertClosing, Lock, Woken, GetCloseStreamStatus, CloseBegin,
         CloseEnd, CloseRelease, CloseSet, lock_unchanged, body_unchanged, local_vars, app_vars
<1> QED BY <1>4, <1>5 DEF CloserMoves

\* Any other step.
LEMMA ElseStep ==
  ASSUME CoreInv, StreamInv, CloseShape, NEW t \in Threads, Calls(t) \/ Step(t),
         fun[t] # "CloseStream", ~Unlock(t)
  PROVE  ElseMoves(t)
<1>0. /\ pc = [u \in Threads |-> pc[u]] /\ ok \in [Threads -> BOOLEAN]
      /\ fun = [u \in Threads |-> fun[u]] /\ target = [u \in Threads |-> target[u]]
      /\ Placed(t)
  BY DEF CoreInv, Shape, StreamInv, StreamShape, Local, CloseShape
<1> USE DEF Go, Result, body_unchanged, lock_vars, local_vars, app_vars
<1>1. ASSUME UNCHANGED <<closed, close_stream_info, handles, fun>>, TargetFrom(t),
             ok' \in [Threads -> BOOLEAN]
      PROVE  ElseMoves(t)
  BY <1>1 DEF ElseMoves, Closes
<1>2. CASE Calls(t)
  <2>1. ASSUME NEW f, NEW l, Call(t, f, l)
        PROVE  /\ pc'[t] = l /\ fun'[t] = f /\ ok' = ok
               /\ UNCHANGED <<closed, close_stream_info>>
    BY <1>0, <2>1 DEF Call
  <2>2. ASSUME NEW f, NEW l, Call(t, f, l), handles' \subseteq handles, TargetFrom(t),
               f # "CloseStream" \/ l = "get_stream_key"
        PROVE  ElseMoves(t)
    BY <1>0, <2>1, <2>2 DEF ElseMoves, Closes
  <2> HIDE DEF Call
  <2>3. CASE CallInit(t) \/ CallReadOnly(t) \/ CallExit(t)
    BY <2>2, <2>3 DEF CallInit, CallReadOnly, CallExit, TargetFrom
  <2>4. ASSUME NEW k \in Keys, \/ CallStreamKey(t, k) \/ CallClosePublisher(t, k)
                                \/ CallOpenStream(t, k)
        PROVE  ElseMoves(t)
    BY <2>2, <2>4 DEF CallStreamKey, CallClosePublisher, CallOpenStream, CallWithKey, TargetFrom
  <2>5. ASSUME NEW h \in handles, CallStreamFunction(t, h)
        PROVE  ElseMoves(t)
    <3>1. TargetFrom(t) /\ handles' = handles
      BY <1>0, <2>5 DEF CallStreamFunction, TargetFrom
    <3>2. \E l : Call(t, "StreamFunction", l)
      BY <2>5 DEF CallStreamFunction
    <3> QED BY <2>2, <3>1, <3>2
  <2>6. ASSUME NEW h \in handles, CallCloseStream(t, h)
        PROVE  ElseMoves(t)
    <3>1. TargetFrom(t) /\ handles' \subseteq handles
      BY <1>0, <2>6 DEF CallCloseStream, TargetFrom
    <3> QED BY <2>2, <2>6, <3>1 DEF CallCloseStream
  <2> QED BY <1>2, <2>3, <2>4, <2>5, <2>6 DEF Calls
<1>3. CASE Lock(t) \/ Woken(t)
  <2>1. UNCHANGED <<closed, close_stream_info, handles, fun, target>>
    BY <1>3 DEF Lock, Woken, lock_unchanged
  <2>2. ok' = ok \/ Refused(t)
    BY <1>3 DEF Lock, Woken, Decide
  <2> QED BY <1>0, <1>1, <2>1, <2>2 DEF Refused, TargetFrom
<1>4. CASE StreamFunctionReturn(t)
  <2>1. /\ fun'[t] = "Init" /\ target'[t] = NoHandle /\ ok' \in [Threads -> BOOLEAN]
        /\ UNCHANGED <<closed, close_stream_info, handles>>
    BY <1>0, <1>4 DEF StreamFunctionReturn, Return
  <2> QED BY <2>1 DEF ElseMoves, Closes, TargetFrom
<1>5. CASE \/ InitDone(t) \/ InitFailed(t) \/ SetCoreInitialized(t) \/ ReleaseStreamAll(t)
           \/ AllDeleted(t) \/ ExitRest(t) \/ ReadDone(t)
  <2>1. /\ UNCHANGED <<closed, close_stream_info, handles, fun, target>>
        /\ ok' \in [Threads -> BOOLEAN]
    BY <1>0, <1>5 DEF InitDone, InitFailed, SetCoreInitialized, ReleaseStreamAll, AllDeleted,
                      ExitRest, ReadDone
  <2> QED BY <1>1, <2>1 DEF TargetFrom
<1>6. CASE GetStreamKey(t) \/ InsertClosing(t) \/ GetCloseStreamStatus(t) \/ CloseSet(t)
  BY <1>0, <1>6 DEF GetStreamKey, InsertClosing, GetCloseStreamStatus, CloseSet, Placed
<1>7. CASE CloseBegin(t) \/ CloseEnd(t) \/ CloseRelease(t)
  <2>1. /\ UNCHANGED <<closed, close_stream_info, handles, fun, target>>
        /\ ok' \in [Threads -> BOOLEAN]
    BY <1>0, <1>7 DEF CloseBegin, CloseEnd, CloseRelease, Failed
  <2> QED BY <1>1, <2>1 DEF TargetFrom
<1>8. CASE \/ OpenInvalid(t) \/ DeleteReleasedStream(t) \/ OpenDone(t) \/ OpenFailed(t)
           \/ OpenRelease(t)
  <2>1. /\ UNCHANGED <<closed, close_stream_info, handles, fun, target>>
        /\ ok' \in [Threads -> BOOLEAN]
    BY <1>0, <1>8 DEF OpenInvalid, DeleteReleasedStream, OpenDone, OpenFailed, OpenRelease
  <2> QED BY <1>1, <2>1 DEF TargetFrom
<1>9. ASSUME NEW a \in Addresses, GetStream(t, a)
      PROVE  ElseMoves(t)
  <2>1. UNCHANGED <<closed, close_stream_info, handles, fun, ok>>
    BY <1>9 DEF GetStream
  <2>2. /\ streams[a].state = "free" /\ streams[a].id = 0 /\ streams'[a].id = created + 1
        /\ created' = created + 1 /\ target'[t] = [stream |-> a, id |-> created + 1]
        /\ close_stream_info[a].threads # {} => created + 1 \in reused'
    BY <1>0, <1>9 DEF GetStream, StreamInv, StreamShape, ListsExact
  <2>3. TargetFrom(t)
    BY <2>2 DEF TargetFrom, Created
  <2> QED BY <1>0, <1>1, <2>1, <2>3
<1>10. ASSUME NEW a \in Addresses, ExitStream(t, a) \/ DeleteStream(t, a)
       PROVE  ElseMoves(t)
  <2>1. /\ UNCHANGED <<closed, close_stream_info, handles, fun, ok>>
        /\ target'[t] \in {target[t], Handle(a)}
    BY <1>0, <1>10 DEF ExitStream, DeleteStream
  <2> QED BY <1>0, <1>1, <2>1 DEF TargetFrom
<1> QED BY <1>2, <1>3, <1>4, <1>5, <1>6, <1>7, <1>8, <1>9, <1>10 DEF Step

\* A CloseStream is announced before the lock and counts as ending only with
\* its stream settled; it keeps the announcements and the status exact.
LEMMA CloserInv ==
  ASSUME CoreInv, StreamInv, ClosedInv, NEW t \in Threads, CloserMoves(t), Step(t)
  PROVE  /\ CloseShape' /\ CloserThere(t)' /\ Status'
         /\ \A a \in Addresses : close_stream_info[a].threads \subseteq close_stream_info'[a].threads
<1> DEFINE a == target[t].stream
           info == close_stream_info[a]
           Kept == UNCHANGED close_stream_info
<1>0. /\ pc = [u \in Threads |-> pc[u]] /\ CloseShape /\ Status /\ CloserThere(t)
      /\ target[t] \in AnyHandle /\ a \in Addresses /\ fun[t] = "CloseStream"
      /\ fun'[t] = "CloseStream" /\ target'[t] = target[t]
  <2>1. target[t] \in AnyHandle
    BY DEF CloserMoves, StreamInv, Local, Placed
  <2> QED BY <2>1 DEF CoreInv, Shape, ClosedInv, CloserMoves, AnyHandle
<1>1. ok' \in [Threads -> BOOLEAN]
  <2>1. info.ok \in BOOLEAN
    BY <1>0 DEF CloseShape, CloseStreamStatusInfo
  <2>2. ok' = ok \/ \E s \in BOOLEAN : ok' = [ok EXCEPT ![t] = s]
    BY <2>1 DEF CloserMoves, CloserActs, GetStreamKey, InsertClosing, Lock, Woken, Decide, Refused,
       GetCloseStreamStatus, CloseBegin, CloseEnd, CloseRelease, CloseSet, Failed, Result,
       local_vars
  <2> QED BY <1>0, <2>2 DEF CloseShape
<1>2. ASSUME Kept
      PROVE  /\ CloseShape' /\ Status'
             /\ \A b \in Addresses : close_stream_info[b].threads \subseteq close_stream_info'[b].threads
  <2>1. ASSUME NEW b \in Addresses
        PROVE  LET i == close_stream_info[b] IN
               /\ i.threads = {} => i = NoClosing
               /\ i.closed /\ i.ok => Settled(b)'
    BY <1>0, SettledKept DEF Status, NoClosing
  <2> QED BY <1>0, <1>1, <1>2, <2>1 DEF CloseShape, Status
<1>3. ASSUME Kept, ~Ending(t)', Closes(t)' => Closes(t)
      PROVE  CloserThere(t)'
  BY <1>0, <1>3 DEF CloserThere
<1> USE DEF Go, Result, Closes, Ending
<1>4. CASE GetStreamKey(t) \/ Lock(t) \/ Woken(t)
  <2>1. Kept /\ ~Ending(t)' /\ (Closes(t)' => Closes(t))
    <3>1. CASE GetStreamKey(t)
      BY <1>0, <3>1 DEF GetStreamKey, lock_vars, CloseShape
    <3>2. CASE Lock(t) \/ Woken(t)
      <4>1. pc[t] \in {"lock", "waiting"} /\ Kept
        BY <3>2 DEF Lock, Woken, lock_unchanged
      <4>2. \/ pc'[t] \in {"waiting", "close_status"}
            \/ pc'[t] = "unlock" /\ ~ok'[t]
        BY <1>0, <3>2 DEF Lock, Woken, Decide, Refused, Body, CloseShape
      <4> QED BY <1>0, <4>1, <4>2
    <3> QED BY <1>4, <3>1, <3>2
  <2> QED BY <1>2, <1>3, <2>1
<1>5. CASE InsertClosing(t)
  <2>1. /\ close_stream_info' = [close_stream_info EXCEPT ![a].threads = @ \cup {t}]
        /\ pc'[t] = "lock" /\ UNCHANGED <<streams, reused>>
    BY <1>0, <1>5 DEF InsertClosing, InsertClosingStream, manager_vars
  <2>2. /\ close_stream_info'[a] = [info EXCEPT !.threads = @ \cup {t}]
        /\ \A b \in Addresses \ {a} : close_stream_info'[b] = close_stream_info[b]
        /\ info \in CloseStreamStatusInfo
    BY <1>0, <2>1 DEF CloseShape
  <2>3. /\ [info EXCEPT !.threads = @ \cup {t}] \in CloseStreamStatusInfo
        /\ close_stream_info'[a].threads = info.threads \cup {t}
        /\ close_stream_info'[a].closed = info.closed /\ close_stream_info'[a].ok = info.ok
    BY <2>2 DEF CloseStreamStatusInfo
  <2>4. CloseShape'
    BY <1>0, <1>1, <2>1, <2>2, <2>3 DEF CloseShape
  <2>5. Status'
    <3>1. \A b \in Addresses : Settled(b) => Settled(b)'
      BY <2>1 DEF Settled
    <3> QED BY <1>0, <2>2, <2>3, <3>1 DEF Status, NoClosing
  <2>6. CloserThere(t)'
    BY <1>0, <2>1, <2>3 DEF CloserThere
  <2> QED BY <2>2, <2>3, <2>4, <2>5, <2>6
<1>6. CASE GetCloseStreamStatus(t)
  <2>1. /\ Kept /\ Closes(t) /\ UNCHANGED <<streams, reused>>
        /\ \/ pc'[t] = "unlock" /\ info.closed /\ ok'[t] = info.ok
           \/ pc'[t] = "close"
    BY <1>0, <1>6 DEF GetCloseStreamStatus, body_unchanged, manager_vars, CloseShape
  <2>2. Ending(t)' => Settled(a)'
    BY <1>0, <2>1 DEF Status, Settled
  <2>3. CloserThere(t)'
    BY <1>0, <2>1, <2>2 DEF CloserThere
  <2> QED BY <1>2, <2>1, <2>3
<1>7. CASE CloseBegin(t)
  <2>1. /\ Kept /\ Closes(t)
        /\ \/ pc'[t] \in {"close", "close_wait"}
           \/ pc'[t] = "close_set" /\ ~ok'[t]
    BY <1>0, <1>7 DEF CloseBegin, Failed, body_unchanged, CloseShape
  <2> QED BY <1>2, <1>3, <2>1
<1>8. CASE CloseEnd(t)
  <2>1. /\ Kept /\ Closes(t)
        /\ \/ pc'[t] = "release" /\ SetState(a, "NotInit")
           \/ pc'[t] = "close_set" /\ ~ok'[t]
    BY <1>0, <1>8 DEF CloseEnd, Failed, body_unchanged, CloseShape
  <2>2. SetState(a, "NotInit") => Settled(a)'
    BY <1>0 DEF SetState, Settled, StreamInv, StreamShape, Streams
  <2>3. CloserThere(t)'
    BY <1>0, <2>1, <2>2 DEF CloserThere
  <2> QED BY <1>2, <2>1, <2>3
<1>9. CASE CloseRelease(t)
  <2>1. /\ Kept /\ Closes(t) /\ Ending(t) /\ UNCHANGED <<streams, reused>>
        /\ pc'[t] = "close_set"
    BY <1>0, <1>9 DEF CloseRelease, Failed, body_unchanged
  <2>2. CloserThere(t)'
    BY <1>0, <2>1 DEF CloserThere, Settled
  <2> QED BY <1>2, <2>1, <2>2
<1>10. CASE CloseSet(t)
  <2>1. /\ SetCloseStreamStatus(a, ok[t]) /\ Closes(t) /\ (ok[t] => Ending(t))
        /\ pc'[t] = "unlock" /\ UNCHANGED <<streams, reused, ok>>
    BY <1>0, <1>10 DEF CloseSet, local_vars, manager_vars
  <2>2. t \in info.threads
    BY <1>0, <2>1 DEF CloserThere
  <2>3. /\ close_stream_info' = [close_stream_info EXCEPT ![a].closed = TRUE, ![a].ok = ok[t]]
        /\ info \in CloseStreamStatusInfo /\ ok[t] \in BOOLEAN
    BY <1>0, <2>1, <2>2 DEF SetCloseStreamStatus, CloseShape
  <2>4. /\ close_stream_info'[a] = [info EXCEPT !.closed = TRUE, !.ok = ok[t]]
        /\ \A b \in Addresses \ {a} : close_stream_info'[b] = close_stream_info[b]
    BY <1>0, <2>3 DEF CloseShape
  <2>5. /\ [info EXCEPT !.closed = TRUE, !.ok = ok[t]] \in CloseStreamStatusInfo
        /\ close_stream_info'[a].threads = info.threads /\ close_stream_info'[a].ok = ok[t]
    <3>1. PICK s \in BOOLEAN : s = ok[t]
      BY <2>3
    <3>2. /\ [info EXCEPT !.closed = TRUE, !.ok = s] \in CloseStreamStatusInfo
          /\ [info EXCEPT !.closed = TRUE, !.ok = s].threads = info.threads
          /\ [info EXCEPT !.closed = TRUE, !.ok = s].ok = s
      BY <2>3 DEF CloseStreamStatusInfo
    <3> QED BY <2>4, <3>1, <3>2
  <2>6. CloseShape'
    BY <1>0, <1>1, <2>3, <2>4, <2>5 DEF CloseShape
  <2>7. \A b \in Addresses : Settled(b) => Settled(b)'
    BY <2>1 DEF Settled
  <2>8. ok[t] => Settled(a)'
    BY <1>0, <2>1, <2>7 DEF CloserThere
  <2>9. Status'
    BY <1>0, <2>2, <2>4, <2>5, <2>7, <2>8 DEF Status
  <2>10. CloserThere(t)'
    BY <1>0, <2>1, <2>2, <2>5, <2>8 DEF CloserThere
  <2> QED BY <2>4, <2>5, <2>6, <2>9, <2>10
<1> QED BY <1>4, <1>5, <1>6, <1>7, <1>8, <1>9, <1>10 DEF CloserMoves, CloserActs

\* The end of a function: only the thread itself is no longer announced, and
\* with the last one the status is gone.
LEMMA UnlockStep ==
  ASSUME CoreInv, StreamInv, ClosedInv, NEW t \in Threads, Unlock(t)
  PROVE  /\ UNCHANGED <<streams, created, reused>>
         /\ handles' \subseteq handles \cup {target[t]} /\ target'[t] = NoHandle
         /\ \A i \in closed' : i \in closed \/ (Ending(t) /\ i = target[t].id)
         /\ CloseShape' /\ CloserThere(t)' /\ Status'
         /\ \A a \in Addresses :
              close_stream_info[a].threads \ {t} \subseteq close_stream_info'[a].threads
<1> DEFINE b == target[t].stream
           left == close_stream_info[b].threads \ {t}
<1>0. /\ fun = [u \in Threads |-> fun[u]] /\ target = [u \in Threads |-> target[u]]
      /\ CloseShape /\ Status
      /\ fun[t] = "CloseStream" => b \in Addresses
      /\ UNCHANGED <<streams, created, reused>> /\ pc[t] = "unlock"
  BY DEF StreamInv, StreamShape, CoreInv, Shape, ClosedInv, Local, Placed, AnyHandle, Unlock,
         manager_vars
<1>1. handles' \subseteq handles \cup {target[t]}
  <2>1. handles' = ReturnedHandles(t)
    BY DEF Unlock
  <2>2. CASE fun[t] = "OpenStream"
    BY <2>1, <2>2 DEF ReturnedHandles
  <2>3. CASE fun[t] = "CloseStream"
    BY <2>1, <2>3, Zenon DEF ReturnedHandles
  <2>4. CASE fun[t] = "Exit"
    BY <2>1, <2>4 DEF ReturnedHandles
  <2>5. CASE fun[t] \notin {"OpenStream", "CloseStream", "Exit"}
    BY <2>1, <2>5 DEF ReturnedHandles
  <2> QED BY <2>2, <2>3, <2>4, <2>5
<1>2. \A i \in closed' : i \in closed \/ (Ending(t) /\ i = target[t].id)
  BY <1>0 DEF Unlock, Ending
<1>3. fun'[t] = "Init" /\ target'[t] = NoHandle /\ ok' \in [Threads -> BOOLEAN]
  BY <1>0 DEF Unlock, Return, CloseShape
<1>4. CloserThere(t)'
  BY <1>3 DEF CloserThere, Closes, Ending
<1>5. ASSUME NEW a \in Addresses
      PROVE  /\ close_stream_info'[a] \in CloseStreamStatusInfo
             /\ close_stream_info[a].threads \ {t} \subseteq close_stream_info'[a].threads
             /\ close_stream_info'[a].threads = {} => close_stream_info'[a] = NoClosing
             /\ close_stream_info'[a].closed =>
                  /\ close_stream_info[a].closed
                  /\ close_stream_info'[a].ok = close_stream_info[a].ok
  <2>1. close_stream_info[a] \in CloseStreamStatusInfo
    BY <1>0 DEF CloseShape
  <2>2. CASE close_stream_info'[a] = close_stream_info[a]
    BY <1>0, <2>1, <2>2 DEF Status
  <2>3. CASE fun[t] = "CloseStream" /\ a = b
    <3>1. close_stream_info'[a] = IF left = {} THEN NoClosing
                                  ELSE [close_stream_info[a] EXCEPT !.threads = left]
      BY <1>0, <2>3 DEF Unlock, RemoveClosingStream, ClosingWithout, CloseShape
    <3>2. CASE left = {}
      BY <2>3, <3>1, <3>2 DEF NoClosing, CloseStreamStatusInfo
    <3>3. CASE left # {}
      <4>1. close_stream_info'[a] = [close_stream_info[a] EXCEPT !.threads = left]
        BY <3>1, <3>3
      <4>2. left \in SUBSET Threads
        BY <2>1, <2>3 DEF CloseStreamStatusInfo
      <4> QED BY <2>1, <2>3, <3>3, <4>1, <4>2 DEF CloseStreamStatusInfo
    <3> QED BY <3>2, <3>3
  <2>4. CASE fun[t] # "CloseStream" \/ a # b
    <3>1. close_stream_info'[a] = close_stream_info[a]
      BY <1>0, <2>4 DEF Unlock, RemoveClosingStream, CloseShape
    <3> QED BY <2>2, <3>1
  <2> QED BY <2>3, <2>4
<1>6. CloseShape'
  <2>1. close_stream_info' = [a \in Addresses |-> close_stream_info'[a]]
    BY <1>0 DEF Unlock, RemoveClosingStream, CloseShape
  <2> QED BY <1>3, <1>5, <2>1 DEF CloseShape
<1>7. Status'
  <2>1. \A a \in Addresses : Settled(a) => Settled(a)'
    BY <1>0 DEF Settled
  <2> QED BY <1>0, <1>5, <2>1 DEF Status
<1> QED BY <1>0, <1>1, <1>2, <1>3, <1>4, <1>5, <1>6, <1>7

\* A step of t leaves the calls of the other threads alone.
LEMMA OthersStep ==
  ASSUME CoreInv, StreamInv, NEW t \in Threads, Calls(t) \/ Step(t)
  PROVE  OthersKeep(t)
<1>0. /\ pc = [u \in Threads |-> pc[u]] /\ fun = [u \in Threads |-> fun[u]]
      /\ target = [u \in Threads |-> target[u]] /\ ok = [u \in Threads |-> ok[u]]
  BY DEF CoreInv, Shape, StreamInv, StreamShape
<1> USE DEF OthersKeep, Go, Result, body_unchanged, lock_vars, local_vars
<1>1. CASE Calls(t)
  <2>1. /\ \E f, l : Call(t, f, l)
        /\ UNCHANGED target \/ \E h : target' = [target EXCEPT ![t] = h]
    <3> HIDE DEF Call
    <3> QED BY <1>1 DEF Calls, CallInit, CallExit, CallReadOnly, CallStreamKey,
               CallClosePublisher, CallOpenStream, CallWithKey, CallCloseStream,
               CallStreamFunction
  <2>2. PICK f, l : Call(t, f, l)
    BY <2>1
  <2> QED BY <1>0, <2>1, <2>2 DEF Call
<1>2. CASE Lock(t) \/ Woken(t)
  <2>1. UNCHANGED <<fun, target>>
    BY <1>2 DEF Lock, Woken, lock_unchanged
  <2>2. /\ \E l : pc' = [pc EXCEPT ![t] = l]
        /\ UNCHANGED ok \/ \E s : ok' = [ok EXCEPT ![t] = s]
    BY <1>2 DEF Lock, Woken, Decide, Refused
  <2> QED BY <1>0, <2>1, <2>2
<1>3. CASE Unlock(t) \/ StreamFunctionReturn(t)
  BY <1>0, <1>3 DEF Unlock, StreamFunctionReturn, Return
<1>4. CASE \/ InitDone(t) \/ InitFailed(t) \/ SetCoreInitialized(t) \/ ReadDone(t)
           \/ OpenInvalid(t) \/ DeleteReleasedStream(t) \/ ReleaseStreamAll(t)
           \/ AllDeleted(t) \/ ExitRest(t)
  BY <1>0, <1>4 DEF InitDone, InitFailed, SetCoreInitialized, ReadDone, OpenInvalid,
       DeleteReleasedStream, ReleaseStreamAll, AllDeleted, ExitRest
<1>5. CASE \/ OpenDone(t) \/ OpenFailed(t) \/ OpenRelease(t) \/ GetStreamKey(t)
           \/ InsertClosing(t) \/ GetCloseStreamStatus(t) \/ CloseSet(t)
  BY <1>0, <1>5 DEF OpenDone, OpenFailed, OpenRelease, GetStreamKey, InsertClosing,
       GetCloseStreamStatus, CloseSet
<1>6. CASE CloseBegin(t) \/ CloseEnd(t) \/ CloseRelease(t)
  BY <1>0, <1>6 DEF CloseBegin, CloseEnd, CloseRelease, Failed
<1>7. CASE \E a \in Addresses : GetStream(t, a) \/ ExitStream(t, a) \/ DeleteStream(t, a)
  BY <1>0, <1>7 DEF GetStream, ExitStream, DeleteStream
<1> QED BY <1>1, <1>2, <1>3, <1>4, <1>5, <1>6, <1>7 DEF Step

\* The three kinds of steps, as they concern the statuses and the handles.
LEMMA CloseEffects ==
  ASSUME CoreInv, StreamInv, ClosedInv, NEW t \in Threads, Calls(t) \/ Step(t)
  PROVE  /\ handles' \subseteq handles \cup {target[t]} /\ TargetFrom(t)
         /\ \A i \in closed' : \/ i \in closed
                               \/ Ending(t) /\ i = target[t].id /\ UNCHANGED streams
         /\ CloseShape' /\ CloserThere(t)' /\ Status'
         /\ \A a \in Addresses :
              close_stream_info[a].threads \ {t} \subseteq close_stream_info'[a].threads
<1>1. CASE Unlock(t)
  BY <1>1, UnlockStep DEF TargetFrom
<1>2. CASE fun[t] = "CloseStream" /\ ~Unlock(t)
  <2>1. Step(t)
    <3>1. CASE Calls(t)
      <4>1. \E f, l : Call(t, f, l)
        <5> HIDE DEF Call
        <5> QED BY <3>1 DEF Calls, CallInit, CallExit, CallReadOnly, CallStreamKey,
                   CallClosePublisher, CallOpenStream, CallWithKey, CallCloseStream,
                   CallStreamFunction
      <4>2. pc[t] = "idle"
        BY <4>1 DEF Call
      <4> QED BY <1>2, <4>2 DEF StreamInv, Local, Placed
    <3> QED BY <3>1
  <2>2. CloserMoves(t)
    BY <1>2, <2>1, CloserStep
  <2> QED BY <2>1, <2>2, CloserInv DEF CloserMoves, TargetFrom
<1>3. CASE fun[t] # "CloseStream" /\ ~Unlock(t)
  <2>1. ElseMoves(t) /\ CloseShape /\ Status
    BY <1>3, ElseStep DEF ClosedInv
  <2>2. CloserThere(t)'
    BY <2>1 DEF ElseMoves, CloserThere, Closes, Ending
  <2>3. Status'
    BY <2>1, SettledKept DEF ElseMoves, Status, NoClosing
  <2>4. CloseShape'
    BY <2>1 DEF ElseMoves, CloseShape
  <2> QED BY <2>1, <2>2, <2>3, <2>4 DEF ElseMoves
<1> QED BY <1>1, <1>2, <1>3

\* The other closers stay announced, and their streams settled.
LEMMA OthersThere ==
  ASSUME CoreInv, StreamInv, ClosedInv, NEW t \in Threads, Calls(t) \/ Step(t),
         NEW u \in Threads \ {t}
  PROVE  CloserThere(u)'
<1>1. pc'[u] = pc[u] /\ fun'[u] = fun[u] /\ target'[u] = target[u] /\ ok'[u] = ok[u]
  BY OthersStep DEF OthersKeep
<1>2. (Closes(u)' <=> Closes(u)) /\ (Ending(u)' <=> Ending(u)) /\ (Ending(u) => Closes(u))
  BY <1>1 DEF Closes, Ending
<1>3. Closes(u) => /\ target[u].stream \in Addresses
                   /\ u \in close_stream_info[target[u].stream].threads
  BY DEF Closes, ClosedInv, CloserThere, StreamInv, Local, Placed, AnyHandle
<1>4. Closes(u) => u \in close_stream_info'[target[u].stream].threads
  BY <1>3, CloseEffects
<1>5. PICK a : a = target[u].stream
  OBVIOUS
<1>6. Ending(u) => Settled(a)'
  <2>1. Ending(u) => Settled(a)
    BY <1>5 DEF ClosedInv, CloserThere
  <2> QED BY <1>2, <1>3, <1>5, <2>1, SettledKept
<1>7. Settled(a)' => Settled(target[u].stream)'
  BY <1>1, <1>5 DEF Settled
<1> QED BY <1>1, <1>2, <1>4, <1>6, <1>7 DEF CloserThere

\* Ids are used once.
LEMMA IdsStep ==
  ASSUME CoreInv, StreamInv, ClosedInv, NEW t \in Threads, Calls(t) \/ Step(t)
  PROVE  Ids'
<1>0. created \in Nat /\ Ids /\ created' \in {created, created + 1}
  BY StreamStep DEF StreamInv, StreamShape, ClosedInv
<1>1. ASSUME NEW a \in Addresses
      PROVE  Named(Handle(a))'
  <2>1. Changes(t, a)
    BY StreamStep
  <2>2. ASSUME streams'[a].id = streams[a].id
        PROVE  Named(Handle(a))'
    <3>1. Named(Handle(a))
      BY <1>0 DEF Ids
    <3>2. \A h : h = Handle(a) => Named(h)'
      BY <3>1, NamedKept
    <3> QED BY <2>2, <3>2 DEF Named, Handle
  <2>3. CASE streams'[a] = NoStream
    BY <2>3 DEF Named, Handle, NoStream
  <2>4. CASE Created(t, a)
    <3>1. /\ created' = created + 1 /\ streams'[a].id = created + 1
          /\ target'[t].stream = a
      BY <2>4 DEF Created
    <3>2. ASSUME NEW b \in Addresses, streams'[b].id = created + 1
          PROVE  b = a
      <4>1. Changes(t, b)
        BY StreamStep
      <4>2. streams[b].id # created + 1 /\ NoStream.id # created + 1
        BY <1>0 DEF Ids, Named, Handle, NoStream
      <4>3. Created(t, b)
        BY <3>2, <4>1, <4>2 DEF Changes, Advanced
      <4> QED BY <3>1, <4>3 DEF Created
    <3> QED BY <1>0, <3>1, <3>2 DEF Named, Handle
  <2> QED BY <2>1, <2>2, <2>3, <2>4 DEF Changes, Advanced
<1>2. ASSUME NEW h \in handles'
      PROVE  Named(h)'
  <2>1. Named(h)
    BY <1>0, CloseEffects DEF Ids
  <2> QED BY <2>1, NamedKept
<1>3. ASSUME NEW u \in Threads
      PROVE  Named(target[u])'
  <2>1. PICK h : h = target'[u]
    OBVIOUS
  <2>2. CASE u # t \/ target'[t] \in handles \cup {target[t], NoHandle}
    <3>1. \/ h \in handles
          \/ \E v \in Threads : h = target[v]
          \/ h = NoHandle
      BY <2>1, <2>2, OthersStep DEF OthersKeep
    <3>2. Named(h)
      BY <1>0, <3>1 DEF Ids, Named, NoHandle
    <3>3. Named(h)'
      BY <3>2, NamedKept
    <3> QED BY <2>1, <3>3 DEF Named
  <2>3. ASSUME NEW a \in Addresses, u = t, h = Handle(a)
        PROVE  Named(target[u])'
    <3>1. Named(h)
      BY <1>0, <2>3 DEF Ids
    <3>2. Named(h)'
      BY <3>1, NamedKept
    <3> QED BY <2>1, <3>2 DEF Named
  <2>4. ASSUME NEW a \in Addresses, u = t, Created(t, a)
        PROVE  Named(target[u])'
    <3>1. target'[u] = [stream |-> a, id |-> streams'[a].id]
      BY <2>4 DEF Created
    <3> QED BY <1>1, <3>1 DEF Named, Handle
  <2> QED BY <2>1, <2>2, <2>3, <2>4, CloseEffects DEF TargetFrom
<1>4. closed' \subseteq 1 .. created'
  <2>1. ASSUME NEW i \in closed'
        PROVE  i \in 1 .. created
    <3>1. Ending(t) => target[t].id \in 1 .. created
      BY <1>0 DEF Ending, Ids, Named, StreamInv, Local, Placed, AnyHandle
    <3> QED BY <1>0, <2>1, <3>1, CloseEffects DEF Ids
  <2> QED BY <1>0, <2>1
<1> QED BY <1>1, <1>2, <1>3, <1>4 DEF Ids

\* What was closed stays settled, and so is what has just been closed.
LEMMA ClosedStep ==
  ASSUME CoreInv, StreamInv, ClosedInv, NEW t \in Threads, Calls(t) \/ Step(t)
  PROVE  ClosedSettled'
<1> SUFFICES ASSUME NEW a \in Addresses, streams'[a].id \in closed'
             PROVE  Settled(a)'
  BY DEF ClosedSettled
<1>0. created \in Nat /\ Ids /\ ClosedSettled
  BY DEF StreamInv, StreamShape, ClosedInv
<1>1. CASE streams'[a].id \in closed
  <2>1. streams'[a].id \in 1 .. created
    BY <1>0, <1>1 DEF Ids
  <2>2. streams'[a].id = streams[a].id
    <3>1. Changes(t, a)
      BY StreamStep
    <3> QED BY <1>0, <2>1, <3>1 DEF Changes, Created, Advanced, NoStream
  <2> QED BY <1>0, <1>1, <2>2, SettledKept DEF ClosedSettled
<1>2. CASE streams'[a].id \notin closed
  <2>1. Ending(t) /\ streams'[a].id = target[t].id /\ UNCHANGED streams
    BY <1>2, CloseEffects
  <2>2. target[t].id # 0 /\ Named(target[t])
    BY <1>0, <2>1 DEF Ending, Ids, StreamInv, Local, Placed, AnyHandle
  <2>3. a = target[t].stream
    BY <2>1, <2>2 DEF Named
  <2>4. Settled(a)
    BY <2>1, <2>3 DEF ClosedInv, CloserThere
  <2> QED BY <2>1, <2>4, SettledKept
<1> QED BY <1>1, <1>2

\* Every step keeps the invariant.
LEMMA NextClosedInv == CoreInv /\ StreamInv /\ ClosedInv /\ [Next]_vars => ClosedInv'
<1> SUFFICES ASSUME CoreInv, StreamInv, ClosedInv, [Next]_vars PROVE ClosedInv'
  OBVIOUS
<1>1. CASE UNCHANGED vars
  <2>1. UNCHANGED <<close_stream_info, streams, created, reused, pc, fun, target, ok, handles,
                    closed>>
    BY <1>1 DEF vars, lock_vars, manager_vars, local_vars, app_vars
  <2>2. CloseShape' /\ Ids' /\ Status' /\ ClosedSettled'
    BY <2>1 DEF ClosedInv, CloseShape, Ids, Named, Handle, Status, ClosedSettled, Settled
  <2>3. \A t \in Threads : CloserThere(t)'
    BY <2>1 DEF ClosedInv, CloserThere, Closes, Ending, Settled
  <2> QED BY <2>2, <2>3 DEF ClosedInv
<1>2. ASSUME NEW t \in Threads, Calls(t) \/ Step(t)
      PROVE  ClosedInv'
  <2>1. \A u \in Threads : CloserThere(u)'
    BY <1>2, CloseEffects, OthersThere
  <2> QED BY <1>2, <2>1, CloseEffects, IdsStep, ClosedStep DEF ClosedInv
<1> QED BY <1>1, <1>2 DEF Next, Finished

\* A stream for which Core::CloseStream has returned OK is closed, whichever
\* threads close it, call Exit or open streams meanwhile, but for a stream that
\* StreamManager::GetStream has made at the address of one whose CloseStream
\* had not returned: CoreFunctionLockManager keeps the status by address.
THEOREM SpecCloseMeansClosed == Spec => []CloseMeansClosed
<1>1. StreamInv /\ ClosedInv => CloseMeansClosed
  BY DEF StreamInv, StreamShape, ListsExact, ClosedInv, Ids, ClosedSettled, Settled,
         CloseMeansClosed
<1> QED BY <1>1, InitClosedInv, NextClosedInv, SpecCoreInv, SpecStreamInv, PTL DEF Spec
=============================================================================
