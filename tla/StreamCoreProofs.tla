-------------------------- MODULE StreamCoreProofs --------------------------
(***************************************************************************)
(* State functions of a stream exclude one another, for any number of      *)
(* threads, calls and frames, and whichever external calls fail.           *)
(***************************************************************************)
EXTENDS StreamCore, Integers, TLAPS

\* A thread has at most one entry in the list of running functions.
Unique ==
  \A i, j \in Positions :
    running_functions[i].thread = running_functions[j].thread => i = j

\* The threads of the list are the threads in a function, under its type.
Listed ==
  \A t \in Threads : pc[t] # "idle" =>
    \E i \in Positions :
      /\ running_functions[i].thread = t
      /\ running_functions[i].type = FunctionType(call[t])

Active == \A i \in Positions : pc[running_functions[i].thread] # "idle"

\* Only core functions are in front of a state function that was granted.
GrantedInTurn ==
  \A i, j \in Positions :
    i < j /\ InStateFunction(running_functions[j].thread) =>
      running_functions[i].type = Internal

LockInv == TypeOK /\ Unique /\ Listed /\ Active /\ GrantedInTurn

---------------------------------------------------------------------------
\* The type of a function is one of the three, State for state functions.
LEMMA FunctionTypes_ ==
  ASSUME NEW f \in Functions
  PROVE  /\ FunctionType(f) \in FunctionTypes
         /\ f \in StateFunctions <=> FunctionType(f) = State
         /\ FirstLabel(f) \in Labels \ {"idle", "locking"}
BY DEF Functions, StateFunctions, FunctionType, FunctionTypes, State, Internal,
       Component, FirstLabel, Labels

\* What the entries of the list are.
LEMMA Entries ==
  ASSUME LockTypeOK
  PROVE  /\ Len(running_functions) \in Nat
         /\ \A i \in Positions : /\ running_functions[i].thread \in Threads
                                 /\ running_functions[i].type \in FunctionTypes
<1> DEFINE Entry == [thread : Threads, type : FunctionTypes]
<1>1. running_functions \in Seq(Entry)
  BY DEF LockTypeOK
<1>2. Len(running_functions) \in Nat
  BY <1>1
<1>3. ASSUME NEW i \in Positions
      PROVE  /\ running_functions[i].thread \in Threads
             /\ running_functions[i].type \in FunctionTypes
  <2> HIDE DEF Entry
  <2>1. running_functions[i] \in Entry
    BY <1>1 DEF Positions
  <2> USE DEF Entry
  <2> QED BY <2>1
<1> QED BY <1>2, <1>3

\* An entry at the end leaves a list of entries.
LEMMA AppendTypes ==
  ASSUME LockTypeOK, NEW t \in Threads, NEW type \in FunctionTypes
  PROVE  Append(running_functions, [thread |-> t, type |-> type])
           \in Seq([thread : Threads, type : FunctionTypes])
BY DEF LockTypeOK

\* So does taking one out.
LEMMA UnlockTypes ==
  ASSUME LockTypeOK, NEW t \in Threads, Unlock(t)
  PROVE  running_functions' \in Seq([thread : Threads, type : FunctionTypes])
<1> DEFINE Entry == [thread : Threads, type : FunctionTypes]
           n == Len(running_functions)
<1>1. running_functions \in Seq(Entry)
  BY DEF LockTypeOK
<1>2. PICK k \in 1 .. n :
        running_functions' = [i \in 1 .. n - 1 |->
          running_functions[IF i < k THEN i ELSE i + 1]]
  BY DEF Unlock, Positions
<1> HIDE DEF Entry
<1>3. n \in Nat /\ n - 1 \in Nat
  BY <1>1
<1>4. \A i \in 1 .. n - 1 : (IF i < k THEN i ELSE i + 1) \in 1 .. n
  BY <1>3
<1>5. \A i \in 1 .. n : running_functions[i] \in Entry
  BY <1>1
<1>6. running_functions' \in [1 .. n - 1 -> Entry]
  BY <1>2, <1>4, <1>5
<1>7. running_functions' \in Seq(Entry)
  BY <1>3, <1>6
<1> QED BY <1>7 DEF Entry

\* The inductive invariant gives the exclusion of state functions: of two
\* granted ones, the later would have the earlier in front of it.
LEMMA LockInvExcludes == LockInv => StateFunctionsExclusive
<1> SUFFICES ASSUME LockInv,
                    NEW t \in Threads, NEW u \in Threads,
                    InStateFunction(t), InStateFunction(u)
             PROVE  t = u
  BY DEF StateFunctionsExclusive
<1>1. pc[t] # "idle" /\ pc[u] # "idle"
  BY DEF InStateFunction
<1>2. FunctionType(call[t]) = State /\ FunctionType(call[u]) = State
  BY FunctionTypes_ DEF InStateFunction, LockInv, TypeOK
<1>3. PICK i \in Positions : /\ running_functions[i].thread = t
                             /\ running_functions[i].type = State
  BY <1>1, <1>2 DEF LockInv, Listed
<1>4. PICK j \in Positions : /\ running_functions[j].thread = u
                             /\ running_functions[j].type = State
  BY <1>1, <1>2 DEF LockInv, Listed
<1>5. ~(i < j) /\ ~(j < i)
  BY <1>3, <1>4 DEF LockInv, GrantedInTurn, State, Internal
<1>6. i \in Int /\ j \in Int
  BY DEF Positions
<1>7. i = j
  BY <1>5, <1>6
<1> QED BY <1>3, <1>4, <1>7

\* Initially the list is empty.
LEMMA InitLockInv == Init => LockInv
<1> SUFFICES ASSUME Init PROVE LockInv
  OBVIOUS
<1>1. Positions = {}
  BY DEF Init, LockInit, Positions
<1>2. TypeOK
  <2>1. LockTypeOK
    BY DEF Init, LockInit, LockTypeOK, LocalStates, NotInit
  <2>2. pc \in [Threads -> Labels] /\ call \in [Threads -> Functions]
    BY DEF Init, Labels, Functions, StateFunctions
  <2> QED BY <2>1, <2>2 DEF Init, TypeOK
<1>3. Listed
  BY DEF Init, Listed
<1> QED BY <1>1, <1>2, <1>3 DEF LockInv, Unique, Active, GrantedInTurn

---------------------------------------------------------------------------
\* A step inside a function, which leaves the list alone and does not get
\* to "idle" or "locking", preserves the facts about the list.
LEMMA BodyStep ==
  ASSUME LockInv, TypeOK', UNCHANGED <<running_functions, call>>,
         NEW t \in Threads, pc[t] \notin {"idle", "locking"},
         NEW l \in Labels \ {"idle", "locking"}, pc' = [pc EXCEPT ![t] = l]
  PROVE  LockInv'
<1>1. Positions' = Positions
  BY DEF Positions
<1>2. \A u \in Threads : /\ pc'[u] = "idle" <=> pc[u] = "idle"
                         /\ InStateFunction(u)' <=> InStateFunction(u)
  BY DEF LockInv, TypeOK, InStateFunction
<1>3. \A i \in Positions : running_functions[i].thread \in Threads
  BY Entries DEF LockInv, TypeOK
<1>4. Unique' /\ Active'
  BY <1>1, <1>2, <1>3 DEF LockInv, Unique, Active
<1>5. Listed'
  BY <1>1, <1>2 DEF LockInv, Listed
<1>6. GrantedInTurn'
  BY <1>1, <1>2, <1>3 DEF LockInv, GrantedInTurn
<1> QED BY <1>4, <1>5, <1>6 DEF LockInv

\* LockForState lets a thread pass only with core functions in front of it.
LEMMA GrantStep ==
  ASSUME LockInv, TypeOK', NEW t \in Threads, GrantState(t)
  PROVE  LockInv'
<1>1. Positions' = Positions /\ running_functions' = running_functions /\ call' = call
  BY DEF Positions, GrantState, lock_vars
<1>2. \A u \in Threads : /\ pc'[u] = "idle" <=> pc[u] = "idle"
                         /\ u # t => (InStateFunction(u)' <=> InStateFunction(u))
  BY FunctionTypes_ DEF LockInv, TypeOK, InStateFunction, GrantState, Goto
<1>3. \A i \in Positions : /\ running_functions[i].thread \in Threads
                           /\ running_functions[i].type \in FunctionTypes
  BY Entries DEF LockInv, TypeOK
<1>4. Unique' /\ Active'
  BY <1>1, <1>2, <1>3 DEF LockInv, Unique, Active
<1>5. Listed'
  BY <1>1, <1>2 DEF LockInv, Listed
<1>6. \A i, j \in Positions : i < j /\ running_functions[j].thread = t =>
        running_functions[i].type = Internal
  BY <1>3 DEF GrantState, LockForStateGranted, Ahead, FunctionTypes, State,
             Component, Internal
<1>7. GrantedInTurn'
  BY <1>1, <1>2, <1>3, <1>6 DEF LockInv, GrantedInTurn
<1> QED BY <1>4, <1>5, <1>7 DEF LockInv

\* A new entry goes to the end of the list, for a thread that had none; the
\* function is not a granted state function yet.
LEMMA InsertStep ==
  ASSUME LockInv, TypeOK', NEW t \in Threads, NEW f \in Functions,
         pc[t] = "idle", Insert(t, FunctionType(f)),
         NEW l \in Labels \ {"idle"}, pc' = [pc EXCEPT ![t] = l],
         call' = [call EXCEPT ![t] = f],
         f \in StateFunctions => l = "locking"
  PROVE  LockInv'
<1> DEFINE n == Len(running_functions)
           e == [thread |-> t, type |-> FunctionType(f)]
<1>1. /\ n \in Nat
      /\ Positions = 1 .. n
      /\ Positions' = 1 .. n + 1
      /\ \A i \in 1 .. n : running_functions'[i] = running_functions[i]
      /\ running_functions'[n + 1].thread = t
      /\ running_functions'[n + 1].type = FunctionType(f)
  BY DEF LockInv, TypeOK, LockTypeOK, Insert, Positions
<1>2. \A i \in 1 .. n : running_functions[i].thread \in Threads \ {t}
  BY <1>1, Entries DEF LockInv, TypeOK, Active
<1>3. \A u \in Threads \ {t} :
        /\ pc'[u] = pc[u] /\ call'[u] = call[u]
        /\ InStateFunction(u)' <=> InStateFunction(u)
  BY DEF LockInv, TypeOK, InStateFunction
<1>4. pc'[t] = l /\ call'[t] = f
  BY DEF LockInv, TypeOK
<1> HIDE DEF n, e
<1>5. \A i \in 1 .. n + 1 : i \in 1 .. n \/ i = n + 1
  BY <1>1
<1>6. Unique'
  BY <1>1, <1>2, <1>5 DEF LockInv, Unique
<1>7. Active'
  BY <1>1, <1>2, <1>3, <1>4, <1>5 DEF LockInv, Active
<1>8. Listed'
  <2> SUFFICES ASSUME NEW u \in Threads, pc'[u] # "idle"
               PROVE  \E i \in 1 .. n + 1 :
                        /\ running_functions'[i].thread = u
                        /\ running_functions'[i].type = FunctionType(call'[u])
    BY <1>1 DEF Listed
  <2>1. CASE u = t
    BY <2>1, <1>1, <1>4
  <2>2. CASE u # t
    <3>1. PICK i \in 1 .. n : /\ running_functions[i].thread = u
                             /\ running_functions[i].type = FunctionType(call[u])
      BY <2>2, <1>1, <1>3 DEF LockInv, Listed
    <3>2. i \in 1 .. n + 1
      BY <1>1
    <3> QED BY <3>1, <3>2, <2>2, <1>1, <1>3
  <2> QED BY <2>1, <2>2
<1>9. GrantedInTurn'
  <2> SUFFICES ASSUME NEW i \in 1 .. n + 1, NEW j \in 1 .. n + 1, i < j,
                      InStateFunction(running_functions[j].thread)'
               PROVE  running_functions'[i].type = Internal
    BY <1>1 DEF GrantedInTurn
  <2>1. ~InStateFunction(t)'
    BY <1>4 DEF InStateFunction
  <2>2. j # n + 1
    BY <2>1, <1>1
  <2>3. i \in 1 .. n /\ j \in 1 .. n
    BY <2>2, <1>1
  <2>4. InStateFunction(running_functions[j].thread)
    BY <2>3, <1>1, <1>2, <1>3
  <2> QED BY <2>3, <2>4, <1>1 DEF LockInv, GrantedInTurn
<1> QED BY <1>6, <1>7, <1>8, <1>9 DEF LockInv

\* A returning function takes its entry out of the list; the others keep
\* their order.
LEMMA ReturnStep ==
  ASSUME LockInv, TypeOK', NEW t \in Threads, Return(t)
  PROVE  LockInv'
<1> DEFINE n == Len(running_functions)
<1>0. n \in Nat /\ Positions = 1 .. n
  BY Entries DEF LockInv, TypeOK, Positions
<1>1. PICK k \in 1 .. n :
        /\ running_functions[k].thread = t
        /\ running_functions' = [i \in 1 .. n - 1 |->
             running_functions[IF i < k THEN i ELSE i + 1]]
  BY DEF Return, Unlock, Positions
<1> DEFINE old(i) == IF i < k THEN i ELSE i + 1
<1>2. Positions' = 1 .. n - 1
  <2>1. n - 1 \in Nat
    BY <1>0
  <2>2. Len(running_functions') = n - 1
    BY <2>1, <1>1
  <2> QED BY <2>2 DEF Positions
<1>3. \A i \in 1 .. n - 1 : /\ running_functions'[i] = running_functions[old(i)]
                            /\ old(i) \in 1 .. n
                            /\ old(i) # k
  BY <1>0, <1>1
<1>4. \A i, j \in 1 .. n - 1 : i < j <=> old(i) < old(j)
  BY <1>0
<1>5. \A m \in 1 .. n : m # k => \E i \in 1 .. n - 1 : old(i) = m
  <2> SUFFICES ASSUME NEW m \in 1 .. n, m # k
               PROVE  \E i \in 1 .. n - 1 : old(i) = m
    OBVIOUS
  <2>1. CASE m < k
    BY <2>1, <1>0
  <2>2. CASE m > k
    <3>1. m - 1 \in 1 .. n - 1 /\ old(m - 1) = m
      BY <2>2, <1>0
    <3> QED BY <3>1
  <2> QED BY <2>1, <2>2, <1>0
<1>6. \A i \in 1 .. n : i # k => running_functions[i].thread \in Threads \ {t}
  BY <1>0, <1>1, Entries DEF LockInv, TypeOK, Unique
<1>7. /\ pc'[t] = "idle" /\ call' = call
      /\ \A u \in Threads \ {t} : /\ pc'[u] = pc[u]
                                  /\ InStateFunction(u)' <=> InStateFunction(u)
  BY DEF LockInv, TypeOK, Return, Goto, InStateFunction
<1> HIDE DEF n, old
<1>8. Unique'
  <2> SUFFICES ASSUME NEW i \in 1 .. n - 1, NEW j \in 1 .. n - 1,
                      running_functions'[i].thread = running_functions'[j].thread
               PROVE  i = j
    BY <1>2 DEF Unique
  <2>1. old(i) = old(j)
    BY <1>0, <1>3 DEF LockInv, Unique
  <2>2. ~(i < j) /\ ~(j < i)
    BY <2>1, <1>0, <1>3, <1>4
  <2> QED BY <2>2, <1>0
<1>9. Active'
  BY <1>0, <1>2, <1>3, <1>6, <1>7 DEF LockInv, Active
<1>10. Listed'
  <2> SUFFICES ASSUME NEW u \in Threads, pc'[u] # "idle"
               PROVE  \E i \in 1 .. n - 1 :
                        /\ running_functions'[i].thread = u
                        /\ running_functions'[i].type = FunctionType(call'[u])
    BY <1>2 DEF Listed
  <2>1. u # t
    BY <1>7
  <2>2. PICK m \in 1 .. n : /\ running_functions[m].thread = u
                           /\ running_functions[m].type = FunctionType(call[u])
    BY <2>1, <1>0, <1>7 DEF LockInv, Listed
  <2>3. m # k
    BY <2>1, <2>2, <1>1
  <2> QED BY <2>2, <2>3, <1>3, <1>5, <1>7
<1>11. GrantedInTurn'
  <2> SUFFICES ASSUME NEW i \in 1 .. n - 1, NEW j \in 1 .. n - 1, i < j,
                      InStateFunction(running_functions[j].thread)'
               PROVE  running_functions'[i].type = Internal
    BY <1>2 DEF GrantedInTurn
  <2>1. InStateFunction(running_functions[old(j)].thread)
    BY <1>3, <1>6, <1>7
  <2>2. old(i) < old(j)
    BY <1>4
  <2> QED BY <2>1, <2>2, <1>0, <1>3 DEF LockInv, GrantedInTurn
<1> QED BY <1>8, <1>9, <1>10, <1>11 DEF LockInv

---------------------------------------------------------------------------
\* The steps inside a function: neither the list nor the call changes, and
\* the thread goes on to another place of a function.
BodyAction(t) ==
  \/ InitStream(t) \/ Begin(t) \/ OpenComponent(t) \/ OpenPort(t)
  \/ OpenExtension(t) \/ StartPort(t) \/ Commit(t) \/ StopPort(t)
  \/ StopCommit(t) \/ CloseBegin(t) \/ CloseExtension(t) \/ CloseBeginInit(t)
  \/ CloseWaitComponent(t) \/ CloseFrames(t) \/ ClosePort(t) \/ CloseDestroy(t)
  \/ CloseWaitInternal(t) \/ CloseComponent(t) \/ GetFrameLoop(t) \/ GetFrameWoken(t)
  \/ GetFrameTimeout(t) \/ ReleaseCheck(t) \/ ReleaseFrame(t) \/ PropertyCheck(t)
  \/ PropertyUse(t)

\* What every step inside a function does to the thread and to the list.
LEMMA BodyControl ==
  ASSUME TypeOK, NEW t \in Threads, BodyAction(t)
  PROVE  /\ pc[t] \notin {"idle", "locking"}
         /\ UNCHANGED <<running_functions, call>>
         /\ \E l \in Labels \ {"idle", "locking"} : pc' = [pc EXCEPT ![t] = l]
<1> USE DEF Labels, Goto, lock_vars
<1>1. CASE InitStream(t)
  BY <1>1 DEF InitStream
<1>2. CASE Begin(t)
  BY <1>2 DEF Begin, BeginOrReturn
<1>3. CASE OpenComponent(t)
  BY <1>3 DEF OpenComponent
<1>4. CASE OpenPort(t)
  BY <1>4 DEF OpenPort
<1>5. CASE OpenExtension(t)
  BY <1>5 DEF OpenExtension
<1>6. CASE StartPort(t)
  BY <1>6 DEF StartPort
<1>7. CASE Commit(t)
  BY <1>7 DEF Commit
<1>8. CASE StopPort(t)
  BY <1>8 DEF StopPort
<1>9. CASE StopCommit(t)
  BY <1>9 DEF StopCommit
<1>10. CASE CloseBegin(t)
  BY <1>10 DEF CloseBegin
<1>11. CASE CloseExtension(t)
  BY <1>11 DEF CloseExtension
<1>12. CASE CloseBeginInit(t)
  BY <1>12 DEF CloseBeginInit
<1>13. CASE CloseWaitComponent(t)
  BY <1>13 DEF CloseWaitComponent
<1>14. CASE CloseFrames(t)
  BY <1>14 DEF CloseFrames
<1>15. CASE ClosePort(t)
  BY <1>15 DEF ClosePort
<1>16. CASE CloseDestroy(t)
  BY <1>16 DEF CloseDestroy
<1>17. CASE CloseWaitInternal(t)
  BY <1>17 DEF CloseWaitInternal
<1>18. CASE CloseComponent(t)
  BY <1>18 DEF CloseComponent
<1>19. CASE GetFrameLoop(t)
  BY <1>19 DEF GetFrameLoop
<1>20. CASE GetFrameWoken(t)
  BY <1>20 DEF GetFrameWoken
<1>21. CASE GetFrameTimeout(t)
  BY <1>21 DEF GetFrameTimeout
<1>22. CASE ReleaseCheck(t)
  BY <1>22 DEF ReleaseCheck
<1>23. CASE ReleaseFrame(t)
  BY <1>23 DEF ReleaseFrame
<1>24. CASE PropertyCheck(t)
  BY <1>24 DEF PropertyCheck
<1>25. CASE PropertyUse(t)
  BY <1>25 DEF PropertyUse
<1> QED BY <1>1, <1>2, <1>3, <1>4, <1>5, <1>6, <1>7, <1>8, <1>9, <1>10, <1>11, <1>12, <1>13,
           <1>14, <1>15, <1>16, <1>17, <1>18, <1>19, <1>20, <1>21, <1>22, <1>23, <1>24, <1>25
           DEF BodyAction

\* A step inside a function keeps the types of the rest of the state.
LEMMA BodyTypes ==
  ASSUME TypeOK, NEW t \in Threads, BodyAction(t)
  PROVE  TypeOK'
<1>0. /\ running_functions' \in Seq([thread : Threads, type : FunctionTypes])
      /\ pc' \in [Threads -> Labels]
      /\ call' \in [Threads -> Functions]
  BY BodyControl DEF TypeOK, LockTypeOK
<1> DEFINE Rest ==
      /\ current_state \in LocalStates /\ dest_state \in LocalStates
      /\ adapter \in BOOLEAN /\ port_opened \in BOOLEAN /\ port_started \in BOOLEAN
      /\ frame_manager \in {"none", "initialized", "exited"}
      /\ incoming \in Nat /\ waiting \subseteq Threads
      /\ published \in BOOLEAN /\ half_closed \in BOOLEAN /\ calls \in Nat
      /\ sending \in {"idle", "set", "notify"} /\ sent \in Nat
<1>a. Rest
  BY DEF TypeOK, LockTypeOK
<1> USE DEF LocalStates, NotInit, Init_, Ready, Running, BeginStateChange,
            CommitStateChange, CancelStateChange, NoStateChange,
            resource_vars, frame_vars, lock_vars
<1>1. ASSUME InitStream(t) PROVE Rest'
  BY <1>1, <1>a DEF InitStream
<1>2. ASSUME Begin(t) PROVE Rest'
  BY <1>2, <1>a DEF Begin, BeginOrReturn
<1>3. ASSUME OpenComponent(t) PROVE Rest'
  BY <1>3, <1>a DEF OpenComponent, Outcomes
<1>4. ASSUME OpenPort(t) PROVE Rest'
  BY <1>4, <1>a DEF OpenPort, Outcomes
<1>5. ASSUME OpenExtension(t) PROVE Rest'
  BY <1>5, <1>a, ZenonT(30) DEF OpenExtension, Outcomes
<1>6. ASSUME StartPort(t) PROVE Rest'
  BY <1>6, <1>a DEF StartPort, Outcomes
<1>7. ASSUME Commit(t) PROVE Rest'
  BY <1>7, <1>a DEF Commit
<1>8. ASSUME StopPort(t) PROVE Rest'
  BY <1>8, <1>a DEF StopPort, Outcomes
<1>9. ASSUME StopCommit(t) PROVE Rest'
  BY <1>9, <1>a DEF StopCommit
<1>10. ASSUME CloseBegin(t) PROVE Rest'
  BY <1>10, <1>a DEF CloseBegin
<1>11. ASSUME CloseExtension(t) PROVE Rest'
  BY <1>11, <1>a DEF CloseExtension, Outcomes
<1>12. ASSUME CloseBeginInit(t) PROVE Rest'
  BY <1>12, <1>a DEF CloseBeginInit
<1>13. ASSUME CloseWaitComponent(t) PROVE Rest'
  BY <1>13, <1>a DEF CloseWaitComponent
<1>14. ASSUME CloseFrames(t) PROVE Rest'
  BY <1>14, <1>a DEF CloseFrames
<1>15. ASSUME ClosePort(t) PROVE Rest'
  BY <1>15, <1>a DEF ClosePort, Outcomes
<1>16. ASSUME CloseDestroy(t) PROVE Rest'
  BY <1>16, <1>a DEF CloseDestroy
<1>17. ASSUME CloseWaitInternal(t) PROVE Rest'
  BY <1>17, <1>a DEF CloseWaitInternal
<1>18. ASSUME CloseComponent(t) PROVE Rest'
  BY <1>18, <1>a DEF CloseComponent, Outcomes
<1>19. ASSUME GetFrameLoop(t) PROVE Rest'
  BY <1>19, <1>a DEF GetFrameLoop
<1>20. ASSUME GetFrameWoken(t) PROVE Rest'
  BY <1>20, <1>a DEF GetFrameWoken
<1>21. ASSUME GetFrameTimeout(t) PROVE Rest'
  BY <1>21, <1>a DEF GetFrameTimeout
<1>22. ASSUME ReleaseCheck(t) PROVE Rest'
  BY <1>22, <1>a DEF ReleaseCheck
<1>23. ASSUME ReleaseFrame(t) PROVE Rest'
  BY <1>23, <1>a DEF ReleaseFrame
<1>24. ASSUME PropertyCheck(t) PROVE Rest'
  BY <1>24, <1>a DEF PropertyCheck
<1>25. ASSUME PropertyUse(t) PROVE Rest'
  BY <1>25, <1>a DEF PropertyUse
<1>90. Rest'
  BY <1>1, <1>2, <1>3, <1>4, <1>5, <1>6, <1>7, <1>8, <1>9, <1>10, <1>11, <1>12, <1>13, <1>14,
     <1>15, <1>16, <1>17, <1>18, <1>19, <1>20, <1>21, <1>22, <1>23, <1>24, <1>25 DEF BodyAction
<1> QED BY <1>0, <1>90 DEF TypeOK, LockTypeOK

---------------------------------------------------------------------------
\* Every step of the system keeps the inductive invariant.
LEMMA NextLockInv == LockInv /\ [Next]_vars => LockInv'
<1> SUFFICES ASSUME LockInv, [Next]_vars PROVE LockInv'
  OBVIOUS
<1>0. TypeOK
  BY DEF LockInv
<1>1. ASSUME NEW t \in Threads, NEW f \in Functions, CallState(t, f)
      PROVE  LockInv'
  <2>1. FunctionType(f) = State /\ State \in FunctionTypes
    BY <1>1, FunctionTypes_ DEF CallState, FunctionTypes
  <2>2. TypeOK'
    BY <1>0, <1>1, <2>1, AppendTypes
       DEF CallState, Insert, Goto, NoStateChange, TypeOK, LockTypeOK,
           resource_vars, frame_vars, Labels
  <2> QED BY <1>1, <2>1, <2>2, InsertStep DEF CallState, Goto, Labels
<1>2. ASSUME NEW t \in Threads, NEW f \in Functions, CallOther(t, f)
      PROVE  LockInv'
  <2>1. PICK l \in Labels \ {"idle"} : pc' = [pc EXCEPT ![t] = l]
    BY <1>2, FunctionTypes_ DEF CallOther, Goto, Labels
  <2>2. TypeOK'
    BY <1>0, <1>2, <2>1, FunctionTypes_, AppendTypes
       DEF CallOther, Insert, NoStateChange, TypeOK, LockTypeOK,
           resource_vars, frame_vars
  <2> QED BY <1>2, <2>1, <2>2, InsertStep DEF CallOther
<1>3. ASSUME NEW t \in Threads, GrantState(t)
      PROVE  LockInv'
  <2>1. FirstLabel(call[t]) \in Labels
    BY <1>0, FunctionTypes_ DEF TypeOK
  <2>2. TypeOK'
    BY <1>0, <1>3, <2>1
       DEF GrantState, Goto, TypeOK, LockTypeOK, lock_vars, resource_vars, frame_vars
  <2> QED BY <1>3, <2>2, GrantStep
<1>4. ASSUME NEW t \in Threads, Return(t)
      PROVE  LockInv'
  <2>1. running_functions' \in Seq([thread : Threads, type : FunctionTypes])
    BY <1>0, <1>4, UnlockTypes DEF Return, TypeOK
  <2>2. TypeOK'
    BY <1>0, <1>4, <2>1
       DEF Return, Goto, NoStateChange, TypeOK, LockTypeOK, resource_vars,
           frame_vars, Labels
  <2> QED BY <1>4, <2>2, ReturnStep
<1>5. ASSUME NEW t \in Threads, BodyAction(t)
      PROVE  LockInv'
  BY <1>0, <1>5, BodyControl, BodyTypes, BodyStep
<1>6. CASE SendBegin \/ SendSet \/ SendNotify
  <2>1. UNCHANGED <<running_functions, pc, call>>
    BY <1>6 DEF SendBegin, SendSet, SendNotify, lock_vars
  <2>2. TypeOK'
    BY <1>0, <1>6 DEF SendBegin, SendSet, SendNotify, lock_vars, resource_vars,
                      TypeOK, LockTypeOK
  <2> QED BY <2>1, <2>2 DEF LockInv, Unique, Listed, Active, GrantedInTurn,
                            Positions, InStateFunction
<1>7. CASE UNCHANGED vars
  BY <1>7 DEF vars, lock_vars, resource_vars, frame_vars, LockInv, TypeOK,
              LockTypeOK, Unique, Listed, Active, GrantedInTurn, Positions,
              InStateFunction
<1> QED BY <1>1, <1>2, <1>3, <1>4, <1>5, <1>6, <1>7
           DEF Next, ThreadStep, StateStep, OtherStep, BodyAction, Finished

\* At most one thread is inside a state function of the stream (Open, Start,
\* Stop, Close), and the state is well typed: LockForState serializes them.
THEOREM StateFunctionsSerialized ==
  Spec => []TypeOK /\ []StateFunctionsExclusive
<1>1. LockInv => TypeOK
  BY DEF LockInv
<1> QED BY <1>1, InitLockInv, NextLockInv, LockInvExcludes, PTL DEF Spec

---------------------------------------------------------------------------
(***************************************************************************)
(* The second invariant: what the local state and the resources of the     *)
(* stream are at each place of a state function.                           *)
(***************************************************************************)
Local(current, dest) == current_state = current /\ dest_state = dest

Resources(open, manager, opened, started) ==
  /\ adapter = open
  /\ frame_manager = manager
  /\ port_opened = opened
  /\ port_started = started

Nothing    == Resources(FALSE, "none", FALSE, FALSE)
Opened     == Resources(TRUE, "initialized", TRUE, FALSE)
Started    == Resources(TRUE, "initialized", TRUE, TRUE)
HalfClosed == half_closed /\ Resources(TRUE, "none", FALSE, FALSE)

OpenedOrHalf == HalfClosed \/ (~half_closed /\ Opened)

\* Between state functions.
Quiet ==
  \/ Local(NotInit, NotInit) /\ ~half_closed /\ Nothing
  \/ Local(Init_, Init_) /\ ~half_closed /\ Nothing
  \/ Local(Ready, Ready) /\ OpenedOrHalf
  \/ Local(Running, Running) /\ ~half_closed /\ Started

Phase(label) ==
  /\ label = "init" => Local(NotInit, NotInit) /\ ~half_closed /\ Nothing
  /\ label = "open_begin" => Local(Init_, Init_) /\ ~half_closed /\ Nothing
  /\ label = "open_component" => Local(Init_, Ready) /\ ~half_closed /\ Nothing
  /\ label = "open_port" =>
       /\ Local(Init_, Ready) /\ ~half_closed
       /\ Resources(TRUE, "initialized", FALSE, FALSE)
  /\ label = "open_extension" => Local(Ready, Ready) /\ ~half_closed /\ Opened
  /\ label = "start_port" => Local(Ready, Running) /\ OpenedOrHalf
  /\ label = "start_commit" => Local(Ready, Running) /\ ~half_closed /\ Started
  /\ label = "stop_port" => Local(Running, Ready) /\ ~half_closed /\ Started
  /\ label = "stop_commit" => Local(Running, Ready) /\ ~half_closed /\ Opened
  /\ label = "stop_done" => Local(Ready, Ready) /\ ~half_closed /\ Opened
  /\ label \in {"close_extension", "close_begin_init"} =>
       Local(Ready, Ready) /\ OpenedOrHalf
  /\ label \in {"close_wait_component", "close_frames"} =>
       Local(Ready, Init_) /\ OpenedOrHalf
  /\ label = "close_port" =>
       /\ Local(Ready, Init_)
       /\ HalfClosed \/ (~half_closed /\ Resources(TRUE, "exited", TRUE, FALSE))
  /\ label = "close_destroy" =>
       Local(Ready, Init_) /\ ~half_closed /\ Resources(TRUE, "exited", FALSE, FALSE)
  /\ label \in {"close_wait_internal", "close_component"} =>
       Local(Ready, Init_) /\ ~half_closed /\ Resources(TRUE, "none", FALSE, FALSE)
  /\ label \in {"start_begin", "stop_begin", "close_begin"} =>
       Quiet /\ current_state # Init_
  /\ label = "return" => Quiet

InPhase ==
  /\ \A t \in Threads : InStateFunction(t) => Phase(pc[t])
  /\ (\A t \in Threads : ~InStateFunction(t)) => Quiet

\* Close is past its wait for the component functions, or for both.
PastComponentWait ==
  {"close_frames", "close_port", "close_destroy", "close_wait_internal",
   "close_component"}

\* Nobody is where Close waited for nobody to be.
Drained ==
  \A t, u \in Threads :
    /\ pc[t] \in PastComponentWait =>
         pc[u] \notin {"release_check", "release_frame"}
    /\ pc[t] = "close_component" =>
         pc[u] \notin {"property_check", "property_use", "get_loop", "get_wait"}

\* The threads past their test of the local state.
Tested ==
  \A t \in Threads :
    pc[t] \in {"release_frame", "property_use"} => current_state \in {Ready, Running}

\* The places of a thread fit the function it called.
StateLabels ==
  {"init", "open_begin", "open_component", "open_port", "open_extension",
   "start_begin", "start_port", "start_commit", "stop_begin", "stop_port",
   "stop_commit", "stop_done", "close_begin", "close_extension",
   "close_begin_init", "close_wait_component", "close_frames", "close_port",
   "close_destroy", "close_wait_internal", "close_component"}

Placed ==
  \A t \in Threads :
    /\ pc[t] \in StateLabels \cup {"locking"} => call[t] \in StateFunctions
    /\ pc[t] \in {"release_check", "release_frame"} => call[t] = "ReleaseFrame"
    /\ pc[t] \in {"property_check", "property_use"} => call[t] = "LockProperty"
    /\ pc[t] \in {"get_loop", "get_wait"} => call[t] = "GetFrame"

OpenLabels ==
  {"init", "open_begin", "open_component", "open_port", "open_extension"}

\* Open is called once, first and alone.
OpenedOnce ==
  /\ calls = 0 => /\ ~published /\ Local(NotInit, NotInit)
                  /\ \A t \in Threads : pc[t] = "idle"
  /\ \A t \in Threads : pc[t] = "locking" /\ call[t] = "Open" =>
       ~published /\ Local(NotInit, NotInit)
  /\ \A t \in Threads : pc[t] \in OpenLabels => ~published
  /\ published => current_state # Init_
  /\ \A t \in Threads : pc[t] # "idle" /\ ~published => call[t] = "Open"
  /\ \A t, u \in Threads :
       pc[t] # "idle" /\ pc[u] # "idle" /\ ~published => t = u

\* Threads in the wait set, and what they wait for.
Waiters ==
  /\ \A t \in waiting : pc[t] = "get_wait"
  /\ NoLostWakeup

StreamInv ==
  LockInv /\ InPhase /\ Drained /\ Tested /\ Placed /\ OpenedOnce /\ Waiters

---------------------------------------------------------------------------
\* What a step of a state function does besides what BodyControl says.
StateStepDoes(t) ==
  /\ Phase(pc[t])'
  /\ pc'[t] \in StateLabels \cup {"return"}
  /\ pc'[t] \in PastComponentWait =>
       pc[t] \in PastComponentWait \/ CloseWaitComponent(t)
  /\ pc'[t] = "close_component" => CloseWaitInternal(t)
  /\ current_state \in {Ready, Running} =>
       current_state' \in {Ready, Running} \/ pc[t] = "close_component"
  /\ calls' = calls
  /\ published' => published \/ pc[t] = "open_extension"
  /\ published => published'
  /\ pc'[t] \in OpenLabels => ~published'
  /\ published' => current_state' # Init_
  /\ NoLostWakeup'
  /\ waiting' \subseteq waiting

StateBody(t) ==
  \/ InitStream(t) \/ Begin(t) \/ OpenComponent(t) \/ OpenPort(t)
  \/ OpenExtension(t) \/ StartPort(t) \/ Commit(t) \/ StopPort(t)
  \/ StopCommit(t) \/ CloseBegin(t) \/ CloseExtension(t) \/ CloseBeginInit(t)
  \/ CloseWaitComponent(t) \/ CloseFrames(t) \/ ClosePort(t) \/ CloseDestroy(t)
  \/ CloseWaitInternal(t) \/ CloseComponent(t)

\* From the place and the state it names to the next place and its state.
LEMMA StateStepEffect ==
  ASSUME TypeOK, NEW t \in Threads, StateBody(t), Phase(pc[t]), NoLostWakeup,
         pc[t] \in OpenLabels => ~published,
         published => current_state # Init_
  PROVE  StateStepDoes(t)
<1> USE DEF StateStepDoes, Phase, Local, Resources, Nothing, Opened, Started,
            HalfClosed, OpenedOrHalf, Quiet, NotInit, Init_, Ready, Running,
            BeginStateChange, CommitStateChange, CancelStateChange,
            NoStateChange, Goto, StateLabels, OpenLabels, PastComponentWait,
            NoLostWakeup, NotSending, lock_vars, resource_vars, frame_vars
<1>0. pc \in [Threads -> Labels]
  BY DEF TypeOK
<1>a. /\ CanBegin(Init_) <=> dest_state \in {NotInit, Ready}
      /\ CanBegin(Ready) <=> dest_state \in {Init_, Running}
      /\ CanBegin(Running) <=> dest_state = Ready
  BY DEF CanBegin, Transitions
<1>1. CASE InitStream(t)
  <2>1. NoLostWakeup'
    BY <1>1 DEF InitStream
  <2>2. Phase(pc[t])'
    BY <1>0, <1>1 DEF InitStream
  <2>3. /\ pc[t] = "init" /\ pc'[t] = "open_begin" /\ calls' = calls
        /\ published' = published /\ current_state' = Init_ /\ waiting' = waiting
    BY <1>0, <1>1 DEF InitStream
  <2> QED BY <2>1, <2>2, <2>3
<1>2. CASE Begin(t)
  <2>1. CASE BeginOrReturn(t, "open_begin", Ready, "open_component")
    BY <1>0, <1>a, <2>1 DEF BeginOrReturn
  <2>2. CASE BeginOrReturn(t, "start_begin", Running, "start_port")
    <3>1. pc[t] = "start_begin" /\ Quiet /\ incoming' = incoming /\ waiting' = waiting
      BY <2>2 DEF BeginOrReturn
    <3>2. NoLostWakeup'
      BY <1>a, <2>2, <3>1 DEF BeginOrReturn
    <3>3. Phase(pc[t])'
      BY <1>0, <1>a, <2>2, <3>1 DEF BeginOrReturn
    <3>4. /\ pc'[t] \in {"start_port", "return"} /\ calls' = calls
          /\ published' = published /\ current_state' = current_state
      BY <1>0, <1>a, <2>2, <3>1 DEF BeginOrReturn
    <3> QED BY <3>1, <3>2, <3>3, <3>4
  <2>3. CASE BeginOrReturn(t, "stop_begin", Ready, "stop_port")
    BY <1>0, <1>a, <2>3 DEF BeginOrReturn
  <2> QED BY <1>2, <2>1, <2>2, <2>3 DEF Begin
<1>3. CASE OpenComponent(t)
  BY <1>0, <1>3 DEF OpenComponent, Outcomes
<1>4. CASE OpenPort(t)
  BY <1>0, <1>4 DEF OpenPort, Outcomes
<1>5. CASE OpenExtension(t)
  BY <1>0, <1>5 DEF OpenExtension, Outcomes
<1>6. CASE StartPort(t)
  BY <1>0, <1>6 DEF StartPort, Outcomes
<1>7. CASE Commit(t)
  BY <1>0, <1>7 DEF Commit
<1>8. CASE StopPort(t)
  <2>1. NoLostWakeup'
    <3>1. current_state' = current_state /\ current_state = Running
      BY <1>8 DEF StopPort
    <3>2. incoming' = 0
      BY <1>8 DEF StopPort
    <3>3. ~(incoming' > 0)
      BY <3>2
    <3> QED BY <3>1, <3>3
  <2>2. Phase(pc[t])'
    BY <1>0, <1>8 DEF StopPort, Outcomes
  <2>3. /\ pc'[t] \in {"stop_commit", "return"} /\ waiting' = waiting
        /\ calls' = calls /\ published' = published
        /\ current_state' = current_state
    BY <1>0, <1>8 DEF StopPort, Outcomes
  <2> QED BY <2>1, <2>2, <2>3
<1>9. CASE StopCommit(t)
  BY <1>0, <1>9 DEF StopCommit
<1>10. CASE CloseBegin(t)
  <2>1. pc[t] = "close_begin" /\ Quiet /\ incoming' = incoming /\ waiting' = waiting
    BY <1>10 DEF CloseBegin
  <2>2. NoLostWakeup'
    BY <1>a, <1>10, <2>1 DEF CloseBegin
  <2>3. Phase(pc[t])'
    BY <1>0, <1>a, <1>10, <2>1 DEF CloseBegin
  <2>4. /\ pc'[t] \in {"stop_port", "close_extension", "return"} /\ calls' = calls
        /\ published' = published /\ current_state' = current_state
    BY <1>0, <1>a, <1>10, <2>1 DEF CloseBegin
  <2> QED BY <2>1, <2>2, <2>3, <2>4
<1>11. CASE CloseExtension(t)
  BY <1>0, <1>11 DEF CloseExtension, Outcomes
<1>12. CASE CloseBeginInit(t)
  BY <1>0, <1>a, <1>12 DEF CloseBeginInit
<1>13. CASE CloseWaitComponent(t)
  BY <1>0, <1>13 DEF CloseWaitComponent
<1>14. CASE CloseFrames(t)
  BY <1>0, <1>14 DEF CloseFrames
<1>15. CASE ClosePort(t)
  BY <1>0, <1>15 DEF ClosePort, Outcomes
<1>16. CASE CloseDestroy(t)
  BY <1>0, <1>16 DEF CloseDestroy
<1>17. CASE CloseWaitInternal(t)
  BY <1>0, <1>17 DEF CloseWaitInternal
<1>18. CASE CloseComponent(t)
  BY <1>0, <1>18 DEF CloseComponent, Outcomes
<1> QED BY <1>1, <1>2, <1>3, <1>4, <1>5, <1>6, <1>7, <1>8, <1>9, <1>10, <1>11, <1>12, <1>13,
           <1>14, <1>15, <1>16, <1>17, <1>18 DEF StateBody

\* A step of a state function keeps the second invariant: nobody else is in
\* a state function, and Close moves on only when the functions it waits for
\* are not in the list.
LEMMA StateBodyInv ==
  ASSUME StreamInv, LockInv', NEW t \in Threads, StateBody(t)
  PROVE  StreamInv'
<1>1. /\ pc[t] \notin {"idle", "locking"} /\ UNCHANGED <<running_functions, call>>
      /\ \E l \in Labels \ {"idle", "locking"} : pc' = [pc EXCEPT ![t] = l]
  BY BodyControl DEF StreamInv, LockInv, StateBody, BodyAction
<1>2. pc[t] \in StateLabels
  BY DEF StateLabels, StateBody, InitStream, Begin, BeginOrReturn, OpenComponent,
         OpenPort, OpenExtension, StartPort, Commit, StopPort, StopCommit,
         CloseBegin, CloseExtension, CloseBeginInit, CloseWaitComponent,
         CloseFrames, ClosePort, CloseDestroy, CloseWaitInternal, CloseComponent
<1>3. InStateFunction(t) /\ InStateFunction(t)'
  BY <1>1, <1>2 DEF StreamInv, Placed, InStateFunction, LockInv, TypeOK
<1>4. StateStepDoes(t)
  BY <1>3, StateStepEffect
     DEF StreamInv, LockInv, InPhase, Waiters, OpenedOnce
<1>5. \A u \in Threads : u # t => /\ ~InStateFunction(u)'
                                  /\ pc'[u] = pc[u]
  <2>1. StateFunctionsExclusive'
    BY LockInvExcludes, PTL
  <2> QED BY <1>1, <1>3, <2>1 DEF StateFunctionsExclusive, StreamInv, LockInv, TypeOK
<1>6. InPhase'
  BY <1>3, <1>4, <1>5 DEF InPhase, StateStepDoes
<1>7. Placed'
  BY <1>1, <1>3, <1>4, <1>5
     DEF Placed, StreamInv, StateStepDoes, InStateFunction, StateLabels
<1>8. ASSUME NEW type, AccessDone(t, type), NEW u \in Threads, u # t,
             pc[u] # "idle"
      PROVE  FunctionType(call[u]) # type
  BY <1>8 DEF AccessDone, StreamInv, LockInv, Listed
<1>9. Drained'
  <2>1. CloseWaitComponent(t) => \A u \in Threads :
          pc[u] \notin {"release_check", "release_frame"}
    BY <1>2, <1>8 DEF CloseWaitComponent, StreamInv, Placed, FunctionType,
                      StateFunctions, StateLabels
  <2>2. CloseWaitInternal(t) => \A u \in Threads :
          pc[u] \notin {"property_check", "property_use", "get_loop", "get_wait"}
    BY <1>2, <1>8 DEF CloseWaitInternal, StreamInv, Placed, FunctionType,
                      StateFunctions, StateLabels
  <2>3. \A u \in Threads : u # t => pc[u] \notin PastComponentWait
    BY <1>1, <1>3, <1>5 DEF StreamInv, Placed, InStateFunction, PastComponentWait,
                            StateLabels
  <2>4. pc'[t] \in StateLabels \cup {"return"}
    BY <1>4 DEF StateStepDoes
  <2> QED BY <1>4, <1>5, <2>1, <2>2, <2>3, <2>4
          DEF Drained, StreamInv, StateStepDoes, PastComponentWait, StateLabels
<1>10. Tested'
  BY <1>4, <1>5 DEF Tested, StreamInv, StateStepDoes, Drained, PastComponentWait,
                    StateLabels
<1>11. OpenedOnce'
  <2>1. pc'[t] # "idle" /\ pc'[t] # "locking" /\ call' = call /\ pc[t] # "idle"
    BY <1>1, <1>3 DEF InStateFunction
  <2>2. ~published' => ~published
    BY <1>4 DEF StateStepDoes
  <2>3. calls' # 0
    BY <1>4, <2>1 DEF StateStepDoes, StreamInv, OpenedOnce
  <2>4. ASSUME NEW u \in Threads, u # t, ~published PROVE pc[u] = "idle"
    BY <2>1, <2>4 DEF StreamInv, OpenedOnce
  <2>5. \A u \in Threads : pc'[u] = "locking" /\ call'[u] = "Open" => FALSE
    BY <1>5, <2>1, <2>4 DEF StreamInv, OpenedOnce
  <2>6. \A u \in Threads : pc'[u] \in OpenLabels => ~published'
    BY <1>4, <1>5, <2>4 DEF StateStepDoes, StreamInv, OpenedOnce, OpenLabels
  <2>7. \A u \in Threads : pc'[u] # "idle" /\ ~published' => call'[u] = "Open"
    BY <1>5, <2>1, <2>2 DEF StreamInv, OpenedOnce
  <2>8. \A u, v \in Threads :
          pc'[u] # "idle" /\ pc'[v] # "idle" /\ ~published' => u = v
    BY <1>5, <2>2, <2>4
  <2> QED BY <1>4, <2>3, <2>5, <2>6, <2>7, <2>8 DEF OpenedOnce, StateStepDoes
<1>12. Waiters'
  BY <1>2, <1>4, <1>5 DEF Waiters, StreamInv, StateStepDoes, StateLabels, LockInv,
                          TypeOK
<1> QED BY <1>6, <1>7, <1>9, <1>10, <1>11, <1>12 DEF StreamInv

---------------------------------------------------------------------------
OtherLabels ==
  {"get_loop", "get_wait", "release_check", "release_frame", "property_check",
   "property_use"}

OtherBody(t) ==
  \/ GetFrameLoop(t) \/ GetFrameWoken(t) \/ GetFrameTimeout(t)
  \/ ReleaseCheck(t) \/ ReleaseFrame(t) \/ PropertyCheck(t) \/ PropertyUse(t)

\* What a step of another function does: the state of the stream stays, and
\* the thread tests it, waits for a frame, or goes on to its return.
OtherStepDoes(t) ==
  /\ UNCHANGED <<current_state, dest_state, resource_vars, published, calls>>
  /\ \/ pc'[t] = "return"
     \/ pc[t] = "get_loop" /\ pc'[t] = "get_wait"
     \/ pc[t] = "get_wait" /\ pc'[t] = "get_loop" /\ t \notin waiting
     \/ /\ pc[t] = "release_check" /\ pc'[t] = "release_frame"
        /\ current_state \in {Ready, Running}
     \/ /\ pc[t] = "property_check" /\ pc'[t] = "property_use"
        /\ current_state # NotInit
  /\ \A u \in waiting' : u \in waiting \/ (u = t /\ pc'[t] = "get_wait")
  /\ pc'[t] # "get_wait" => t \notin waiting'
  /\ NoLostWakeup'

\* Each of these steps does only that.
LEMMA OtherStepEffect ==
  ASSUME TypeOK, NEW t \in Threads, OtherBody(t), NoLostWakeup,
         pc[t] # "get_wait" => t \notin waiting
  PROVE  OtherStepDoes(t)
<1> USE DEF OtherStepDoes, lock_vars, resource_vars, frame_vars, Goto, NoLostWakeup,
            NotSending
<1>0. pc \in [Threads -> Labels] /\ incoming \in Nat
  BY DEF TypeOK
<1>1. CASE GetFrameLoop(t)
  <2>1. CASE frame_manager = "none" \/ current_state # Running
    BY <1>0, <1>1, <2>1 DEF GetFrameLoop
  <2>2. CASE frame_manager # "none" /\ current_state = Running /\ incoming > 0
    <3>1. /\ incoming' = incoming - 1 /\ incoming' > 0 => incoming > 0
          /\ waiting' = waiting
      BY <1>0, <1>1, <2>2 DEF GetFrameLoop
    <3> QED BY <1>0, <1>1, <2>2, <3>1 DEF GetFrameLoop
  <2>3. CASE frame_manager # "none" /\ current_state = Running /\ ~(incoming > 0)
    BY <1>0, <1>1, <2>3 DEF GetFrameLoop
  <2> QED BY <2>1, <2>2, <2>3
<1>2. CASE GetFrameWoken(t)
  BY <1>0, <1>2 DEF GetFrameWoken
<1>3. CASE GetFrameTimeout(t)
  BY <1>0, <1>3 DEF GetFrameTimeout
<1>4. CASE ReleaseCheck(t)
  BY <1>0, <1>4 DEF ReleaseCheck
<1>5. CASE ReleaseFrame(t)
  BY <1>0, <1>5 DEF ReleaseFrame
<1>6. CASE PropertyCheck(t)
  BY <1>0, <1>6 DEF PropertyCheck
<1>7. CASE PropertyUse(t)
  BY <1>0, <1>7 DEF PropertyUse
<1> QED BY <1>1, <1>2, <1>3, <1>4, <1>5, <1>6, <1>7 DEF OtherBody

\* A step of a function that is no state function keeps the invariant.
LEMMA OtherBodyInv ==
  ASSUME StreamInv, LockInv', NEW t \in Threads, OtherBody(t)
  PROVE  StreamInv'
<1>1. /\ pc[t] \notin {"idle", "locking"} /\ UNCHANGED <<running_functions, call>>
      /\ \E l \in Labels \ {"idle", "locking"} : pc' = [pc EXCEPT ![t] = l]
  BY BodyControl DEF StreamInv, LockInv, OtherBody, BodyAction
<1>2. pc[t] \in OtherLabels
  BY DEF OtherLabels, OtherBody, GetFrameLoop, GetFrameWoken, GetFrameTimeout,
         ReleaseCheck, ReleaseFrame, PropertyCheck, PropertyUse
<1>3. call[t] \notin StateFunctions
  BY <1>2 DEF StreamInv, Placed, OtherLabels, StateFunctions
<1>4. OtherStepDoes(t)
  BY <1>1, OtherStepEffect DEF StreamInv, LockInv, Waiters
<1>5. \A u \in Threads : /\ u # t => pc'[u] = pc[u]
                         /\ InStateFunction(u)' <=> InStateFunction(u)
  BY <1>1, <1>3 DEF StreamInv, LockInv, TypeOK, InStateFunction
<1>6. \A l : Phase(l)' <=> Phase(l)
  BY <1>4 DEF OtherStepDoes, resource_vars, Phase, Local, Resources, Nothing,
              Opened, Started, HalfClosed, OpenedOrHalf, Quiet
<1>7. InPhase'
  <2>1. Quiet' <=> Quiet
    BY <1>4 DEF OtherStepDoes, resource_vars, Local, Resources, Nothing,
                Opened, Started, HalfClosed, OpenedOrHalf, Quiet
  <2>2. \A u \in Threads : InStateFunction(u) => u # t
    BY <1>3 DEF InStateFunction
  <2> QED BY <1>5, <1>6, <2>1, <2>2 DEF InPhase, StreamInv
<1>8. pc'[t] \in OtherLabels \cup {"return"}
  BY <1>4 DEF OtherStepDoes, OtherLabels
<1>9. Placed'
  BY <1>1, <1>4, <1>5, <1>8
     DEF Placed, StreamInv, OtherStepDoes, OtherLabels, StateLabels
<1>10. Drained'
  BY <1>4, <1>5, <1>8
     DEF Drained, StreamInv, OtherStepDoes, OtherLabels, PastComponentWait
<1>11. published
  BY <1>1, <1>3 DEF StreamInv, OpenedOnce, StateFunctions
<1>12. Tested'
  <2>1. current_state \in LocalStates /\ current_state # Init_
    BY <1>11 DEF StreamInv, OpenedOnce, LockInv, TypeOK, LockTypeOK
  <2>2. UNCHANGED current_state
    BY <1>4 DEF OtherStepDoes
  <2>3. pc'[t] = "property_use" => current_state # NotInit
    BY <1>4 DEF OtherStepDoes
  <2>4. pc'[t] = "release_frame" => current_state \in {Ready, Running}
    BY <1>4 DEF OtherStepDoes
  <2> QED BY <1>5, <2>1, <2>2, <2>3, <2>4 DEF Tested, StreamInv, LocalStates
<1>13. OpenedOnce'
  <2>1. published' = published /\ calls' = calls /\ current_state' = current_state
    BY <1>4 DEF OtherStepDoes
  <2> QED BY <1>1, <1>5, <1>8, <1>11, <2>1
          DEF OpenedOnce, StreamInv, OtherLabels, OpenLabels
<1>14. Waiters'
  BY <1>4, <1>5 DEF Waiters, StreamInv, OtherStepDoes, LockInv, TypeOK
<1> QED BY <1>7, <1>9, <1>10, <1>12, <1>13, <1>14 DEF StreamInv

---------------------------------------------------------------------------
\* The variables the second invariant is about, besides pc and call.
stream_vars ==
  <<current_state, dest_state, resource_vars, published, waiting, incoming, sending>>

\* What is left of the second invariant when none of them changes.
LEMMA SamePhases ==
  ASSUME UNCHANGED stream_vars
  PROVE  /\ \A l : Phase(l)' <=> Phase(l)
         /\ Quiet' <=> Quiet
         /\ NoLostWakeup' <=> NoLostWakeup
         /\ \A c, d : Local(c, d)' <=> Local(c, d)
BY DEF stream_vars, resource_vars, Phase, Local, Resources, Nothing, Opened,
       Started, HalfClosed, OpenedOrHalf, Quiet, NoLostWakeup, NotSending

\* A granted state function finds the stream as its predecessor left it.
LEMMA GrantInv ==
  ASSUME StreamInv, LockInv', NEW t \in Threads, GrantState(t)
  PROVE  StreamInv'
<1>1. /\ UNCHANGED stream_vars /\ call' = call /\ calls' = calls
      /\ pc[t] = "locking" /\ pc' = [pc EXCEPT ![t] = FirstLabel(call[t])]
  BY DEF GrantState, Goto, lock_vars, frame_vars, stream_vars
<1>2. call[t] \in StateFunctions
  BY <1>1 DEF StreamInv, Placed
<1>3. FirstLabel(call[t]) \in {"init", "start_begin", "stop_begin", "close_begin"}
  BY <1>2 DEF FirstLabel, StateFunctions
<1>4. /\ pc'[t] = FirstLabel(call[t])
      /\ \A u \in Threads : u # t => pc'[u] = pc[u]
  BY <1>1 DEF StreamInv, LockInv, TypeOK
<1>5. InStateFunction(t)'
  BY <1>1, <1>2, <1>3, <1>4 DEF InStateFunction
<1>6. \A u \in Threads : u # t => ~InStateFunction(u)'
  <2>1. StateFunctionsExclusive'
    BY LockInvExcludes, PTL
  <2> QED BY <1>5, <2>1 DEF StateFunctionsExclusive
<1>7. \A u \in Threads : ~InStateFunction(u)
  BY <1>1, <1>4, <1>6 DEF InStateFunction
<1>8. Quiet
  BY <1>7 DEF StreamInv, InPhase
<1>9. Phase(pc[t])'
  <2>1. call[t] = "Open" => Local(NotInit, NotInit)
    BY <1>1 DEF StreamInv, OpenedOnce
  <2>2. call[t] # "Open" => current_state # Init_
    BY <1>1 DEF StreamInv, OpenedOnce
  <2>3. call[t] = "Open" <=> FirstLabel(call[t]) = "init"
    BY <1>2 DEF FirstLabel, StateFunctions
  <2>4. Phase(FirstLabel(call[t]))
    BY <1>3, <1>8, <2>1, <2>2, <2>3
       DEF Phase, Quiet, Local, NotInit, Init_, Ready, Running
  <2>5. \A l : Phase(l)' <=> Phase(l)
    BY <1>1, SamePhases
  <2> QED BY <1>4, <2>4, <2>5
<1>10. InPhase'
  BY <1>5, <1>6, <1>9 DEF InPhase
<1>11. Placed' /\ Drained'
  BY <1>1, <1>2, <1>3, <1>4 DEF Placed, Drained, StreamInv, PastComponentWait
<1>12. Tested'
  BY <1>1, <1>3, <1>4 DEF Tested, StreamInv, stream_vars
<1>13. OpenedOnce'
  <2>1. call[t] = "Open" => ~published
    BY <1>1 DEF StreamInv, OpenedOnce
  <2>2. FirstLabel(call[t]) \in OpenLabels => ~published
    BY <1>2, <2>1 DEF FirstLabel, StateFunctions, OpenLabels
  <2>3. calls # 0
    BY <1>1 DEF StreamInv, OpenedOnce
  <2>4. /\ published' = published /\ current_state' = current_state
        /\ Local(NotInit, NotInit)' <=> Local(NotInit, NotInit)
    BY <1>1, SamePhases DEF stream_vars
  <2>5. pc'[t] # "locking" /\ pc[t] # "idle"
    BY <1>1, <1>3, <1>4
  <2> QED BY <1>1, <1>4, <2>2, <2>3, <2>4, <2>5 DEF OpenedOnce, StreamInv
<1>14. Waiters'
  BY <1>1, <1>4, SamePhases DEF Waiters, StreamInv, stream_vars, LockInv, TypeOK
<1> QED BY <1>10, <1>11, <1>12, <1>13, <1>14 DEF StreamInv

\* A function that returns leaves the stream quiet if it was a state function.
LEMMA ReturnInv ==
  ASSUME StreamInv, LockInv', NEW t \in Threads, Return(t)
  PROVE  StreamInv'
<1>1. /\ UNCHANGED stream_vars /\ call' = call /\ calls' = calls
      /\ pc[t] = "return" /\ pc' = [pc EXCEPT ![t] = "idle"]
  BY DEF Return, Goto, NoStateChange, frame_vars, stream_vars
<1>2. /\ pc'[t] = "idle"
      /\ \A u \in Threads : u # t => pc'[u] = pc[u]
  BY <1>1 DEF StreamInv, LockInv, TypeOK
<1>3. \A u \in Threads : /\ InStateFunction(u)' => u # t
                         /\ u # t => (InStateFunction(u)' <=> InStateFunction(u))
  BY <1>1, <1>2 DEF InStateFunction
<1>4. Phase("return") => Quiet
  BY DEF Phase
<1>5. InPhase'
  BY <1>1, <1>2, <1>3, <1>4, SamePhases DEF InPhase, StreamInv
<1>6. Placed' /\ Drained'
  BY <1>1, <1>2 DEF Placed, Drained, StreamInv, PastComponentWait, StateLabels
<1>7. Tested'
  BY <1>1, <1>2 DEF Tested, StreamInv, stream_vars
<1>8. OpenedOnce'
  <2>1. calls # 0
    BY <1>1 DEF StreamInv, OpenedOnce
  <2>2. /\ published' = published /\ current_state' = current_state
        /\ Local(NotInit, NotInit)' <=> Local(NotInit, NotInit)
    BY <1>1, SamePhases DEF stream_vars
  <2> QED BY <1>1, <1>2, <2>1, <2>2 DEF OpenedOnce, StreamInv, OpenLabels
<1>9. Waiters'
  BY <1>1, <1>2, SamePhases DEF Waiters, StreamInv, stream_vars, LockInv, TypeOK
<1> QED BY <1>5, <1>6, <1>7, <1>8, <1>9 DEF StreamInv

\* A new call: Open when nothing happened yet, any other function once the
\* stream is published; a closing stream refuses the ones it waited for.
LEMMA CallInv ==
  ASSUME StreamInv, LockInv', NEW t \in Threads, NEW f \in Functions,
         CallState(t, f) \/ CallOther(t, f)
  PROVE  StreamInv'
<1> DEFINE l == pc'[t]
<1>1. /\ UNCHANGED stream_vars /\ calls' = calls + 1 /\ pc[t] = "idle"
      /\ MayCall(f)
      /\ call'[t] = f
      /\ \A u \in Threads : u # t => pc'[u] = pc[u] /\ call'[u] = call[u]
  BY DEF CallState, CallOther, Goto, NoStateChange, frame_vars, stream_vars,
         StreamInv, LockInv, TypeOK
<1>2. \/ f \in StateFunctions /\ l = "locking"
      \/ /\ f \notin StateFunctions /\ l \in {FirstLabel(f), "return"}
         /\ LockForOtherGranted(t) \/ l = "return"
  BY DEF CallState, CallOther, Goto, StreamInv, LockInv, TypeOK
<1>3. f \notin StateFunctions =>
        /\ FirstLabel(f) \in {"get_loop", "release_check", "property_check"}
        /\ FirstLabel(f) = "get_loop" => f = "GetFrame"
        /\ FirstLabel(f) = "release_check" => f = "ReleaseFrame"
        /\ FirstLabel(f) = "property_check" => f = "LockProperty"
  BY DEF FirstLabel, Functions, StateFunctions
<1> HIDE DEF l
<1>4. pc'[t] = l
  BY DEF l
<1>5. l \in {"locking", "return", "get_loop", "release_check", "property_check"}
  BY <1>2, <1>3
<1>6. ~InStateFunction(t) /\ ~InStateFunction(t)'
  BY <1>1, <1>2, <1>4 DEF InStateFunction
<1>7. \A u \in Threads : u # t => (InStateFunction(u)' <=> InStateFunction(u))
  BY <1>1 DEF InStateFunction
<1>8. InPhase'
  BY <1>1, <1>6, <1>7, SamePhases DEF InPhase, StreamInv
<1>9. Placed'
  BY <1>1, <1>2, <1>3, <1>4, <1>5 DEF Placed, StreamInv, StateLabels
<1>10. ASSUME NEW u \in Threads, pc[u] \in PastComponentWait
       PROVE  l \in {"locking", "return"}
  <2>1. call[u] \in StateFunctions /\ pc[u] # "idle"
    BY <1>10 DEF StreamInv, Placed, PastComponentWait, StateLabels
  <2>2. InStateFunction(u)
    BY <1>10, <2>1 DEF InStateFunction, PastComponentWait
  <2>3. dest_state = Init_
    BY <1>10, <2>2 DEF StreamInv, InPhase, Phase, Local, PastComponentWait
  <2>4. FunctionType(call[u]) = State
    BY <2>1, FunctionTypes_ DEF StreamInv, LockInv, TypeOK
  <2>5. ~LockForOtherGranted(t)
    BY <2>1, <2>3, <2>4
       DEF LockForOtherGranted, StreamInv, LockInv, Listed, Init_, Ready, Running
  <2> QED BY <1>2, <2>5
<1>11. Drained'
  <2>1. l \notin PastComponentWait
    BY <1>5 DEF PastComponentWait
  <2>2. "close_component" \in PastComponentWait
    BY DEF PastComponentWait
  <2> QED BY <1>1, <1>4, <1>5, <1>10, <2>1, <2>2 DEF Drained, StreamInv
<1>12. Tested'
  BY <1>1, <1>4, <1>5 DEF Tested, StreamInv, stream_vars
<1>13. OpenedOnce'
  <2>1. /\ published' = published /\ current_state' = current_state
        /\ Local(NotInit, NotInit)' <=> Local(NotInit, NotInit)
    BY <1>1, SamePhases DEF stream_vars
  <2>2. calls' # 0
    BY <1>1 DEF StreamInv, LockInv, TypeOK
  <2>3. l \notin OpenLabels /\ l # "idle"
    BY <1>5 DEF OpenLabels
  <2>4. CASE f = "Open"
    <3>1. calls = 0
      BY <1>1, <2>4 DEF MayCall
    <3>2. /\ ~published /\ Local(NotInit, NotInit)
          /\ \A u \in Threads : pc[u] = "idle"
      BY <3>1 DEF StreamInv, OpenedOnce
    <3> QED BY <1>1, <1>4, <2>1, <2>2, <2>3, <2>4, <3>2 DEF OpenedOnce, OpenLabels
  <2>5. CASE f # "Open"
    <3>1. published
      BY <1>1, <2>5 DEF MayCall
    <3> QED BY <1>1, <1>4, <2>1, <2>2, <2>3, <2>5, <3>1 DEF OpenedOnce, StreamInv
  <2> QED BY <2>4, <2>5
<1>14. Waiters'
  BY <1>1, SamePhases DEF Waiters, StreamInv, stream_vars, LockInv, TypeOK
<1> QED BY <1>8, <1>9, <1>11, <1>12, <1>13, <1>14 DEF StreamInv

\* The component sends a frame: only the queue and the waiters change.
LEMMA SendInv ==
  ASSUME StreamInv, LockInv', SendBegin \/ SendSet \/ SendNotify
  PROVE  StreamInv'
<1>1. UNCHANGED <<current_state, dest_state, resource_vars, published, pc, call, calls>>
  BY DEF SendBegin, SendSet, SendNotify, lock_vars
<1>2. waiting' \subseteq waiting
  BY DEF SendBegin, SendSet, SendNotify
<1>3. NoLostWakeup'
  <2>1. CASE SendBegin
    BY <2>1, <1>1 DEF SendBegin, NoLostWakeup, NotSending, StreamInv, Waiters
  <2>2. CASE SendSet
    <3>1. waiting' = waiting /\ (sending' = "notify" \/ incoming' = incoming)
      BY <2>2 DEF SendSet
    <3>2. frame_manager # "initialized" => waiting = {}
      <4>1. ASSUME waiting # {} PROVE frame_manager = "initialized"
        <5>1. current_state = Running
          BY <4>1 DEF StreamInv, Waiters, NoLostWakeup
        <5>2. Running # NotInit /\ Running # Init_ /\ Running # Ready
          BY DEF NotInit, Init_, Ready, Running
        <5>3. CASE \A u \in Threads : ~InStateFunction(u)
          BY <5>1, <5>2, <5>3 DEF StreamInv, InPhase, Quiet, Local, Started, Resources
        <5>4. CASE \E u \in Threads : InStateFunction(u)
          <6>1. PICK u \in Threads : InStateFunction(u)
            BY <5>4
          <6>2. Phase(pc[u]) /\ pc[u] \in Labels /\ pc[u] \notin {"idle", "locking"}
            BY <6>1 DEF StreamInv, InPhase, InStateFunction, LockInv, TypeOK
          <6>3. pc[u] \in StateLabels \cup {"return"}
            BY <6>1, <6>2 DEF StreamInv, Placed, InStateFunction, Labels, StateLabels,
                              StateFunctions
          <6> QED BY <5>1, <5>2, <6>2, <6>3
                  DEF Phase, Quiet, Local, Started, Opened, Resources, StateLabels
        <5> QED BY <5>3, <5>4
      <4> QED BY <4>1
    <3> QED BY <2>2, <1>1, <3>1, <3>2
            DEF SendSet, NoLostWakeup, NotSending, StreamInv, Waiters
  <2>3. CASE SendNotify
    BY <2>3, <1>1 DEF SendNotify, NoLostWakeup, NotSending, IsSendableState,
                      StreamInv, Waiters
  <2> QED BY <2>1, <2>2, <2>3
<1>4. InPhase'
  BY <1>1 DEF StreamInv, InPhase, InStateFunction, Phase, Local, Resources, Nothing,
              Opened, Started, HalfClosed, OpenedOrHalf, Quiet, resource_vars
<1>5. Drained' /\ Tested' /\ Placed' /\ OpenedOnce'
  BY <1>1 DEF StreamInv, Drained, Tested, Placed, OpenedOnce, Local
<1>6. Waiters'
  BY <1>1, <1>2, <1>3 DEF StreamInv, Waiters
<1> QED BY <1>4, <1>5, <1>6 DEF StreamInv

---------------------------------------------------------------------------
\* Initially nobody is in a function and nothing is open.
LEMMA InitStreamInv == Init => StreamInv
<1> SUFFICES ASSUME Init PROVE StreamInv
  OBVIOUS
<1>1. \A t \in Threads : pc[t] = "idle"
  BY DEF Init
<1>2. InPhase
  BY <1>1 DEF Init, LockInit, InPhase, InStateFunction, Quiet, Local, Nothing,
              Resources
<1>3. Drained /\ Tested /\ Placed
  BY <1>1 DEF Drained, Tested, Placed, PastComponentWait, StateLabels
<1>4. OpenedOnce
  BY <1>1 DEF Init, LockInit, OpenedOnce, OpenLabels, Local, NotInit, Init_
<1>5. Waiters
  BY DEF Init, Waiters, NoLostWakeup
<1> QED BY <1>2, <1>3, <1>4, <1>5, InitLockInv DEF StreamInv

\* Every step of the system keeps the second invariant.
LEMMA NextStreamInv == StreamInv /\ [Next]_vars => StreamInv'
<1> SUFFICES ASSUME StreamInv, [Next]_vars PROVE StreamInv'
  OBVIOUS
<1>0. LockInv'
  BY NextLockInv DEF StreamInv
<1>1. ASSUME NEW t \in Threads, NEW f \in Functions, CallState(t, f) \/ CallOther(t, f)
      PROVE  StreamInv'
  BY <1>0, <1>1, CallInv
<1>2. ASSUME NEW t \in Threads, GrantState(t) PROVE StreamInv'
  BY <1>0, <1>2, GrantInv
<1>3. ASSUME NEW t \in Threads, Return(t) PROVE StreamInv'
  BY <1>0, <1>3, ReturnInv
<1>4. ASSUME NEW t \in Threads, StateBody(t) PROVE StreamInv'
  BY <1>0, <1>4, StateBodyInv
<1>5. ASSUME NEW t \in Threads, OtherBody(t) PROVE StreamInv'
  BY <1>0, <1>5, OtherBodyInv
<1>6. CASE SendBegin \/ SendSet \/ SendNotify
  BY <1>0, <1>6, SendInv
<1>7. CASE UNCHANGED vars
  <2>1. UNCHANGED stream_vars /\ UNCHANGED <<pc, call, calls>>
    BY <1>7 DEF vars, lock_vars, frame_vars, stream_vars
  <2>2. InPhase' /\ Waiters'
    BY <2>1, SamePhases DEF StreamInv, InPhase, InStateFunction, Waiters, stream_vars
  <2>3. Drained' /\ Tested' /\ Placed' /\ OpenedOnce'
    BY <2>1 DEF StreamInv, Drained, Tested, Placed, OpenedOnce, Local, stream_vars
  <2> QED BY <1>0, <2>2, <2>3 DEF StreamInv
<1> QED BY <1>1, <1>2, <1>3, <1>4, <1>5, <1>6, <1>7
           DEF Next, ThreadStep, StateStep, OtherStep, StateBody, OtherBody, Finished

\* Whoever runs, the stream is at one of the states of the second invariant.
LEMMA SomePhase ==
  ASSUME StreamInv
  PROVE  \/ Quiet
         \/ \E u \in Threads : /\ pc[u] \in StateLabels \cup {"return"}
                               /\ Phase(pc[u])
<1>1. CASE \A u \in Threads : ~InStateFunction(u)
  BY <1>1 DEF StreamInv, InPhase
<1>2. CASE \E u \in Threads : InStateFunction(u)
  <2>1. PICK u \in Threads : InStateFunction(u)
    BY <1>2
  <2>2. Phase(pc[u]) /\ pc[u] \in Labels /\ pc[u] \notin {"idle", "locking"}
    BY <2>1 DEF StreamInv, InPhase, InStateFunction, LockInv, TypeOK
  <2>3. pc[u] \in StateLabels \cup {"return"}
    BY <2>1, <2>2 DEF StreamInv, Placed, InStateFunction, Labels, StateLabels,
                      StateFunctions
  <2> QED BY <2>2, <2>3
<1> QED BY <1>1, <1>2

\* The second invariant gives the safety properties of the stream.
LEMMA StreamInvSafe ==
  ASSUME StreamInv
  PROVE  /\ ReleaseReachesComponent
         /\ PropertyReachesComponent
         /\ SendableOnlyIfStarted
         /\ StateMatchesResources
         /\ NoLostWakeup
<1> USE DEF Phase, Quiet, Local, Nothing, Opened, Started, OpenedOrHalf, HalfClosed,
            Resources, NotInit, Init_, Ready, Running
<1>1. ReleaseReachesComponent
  <2> SUFFICES ASSUME NEW t \in Threads, pc[t] = "release_frame",
                      frame_manager # "none"
               PROVE  frame_manager = "initialized" /\ port_opened /\ adapter
    BY DEF ReleaseReachesComponent
  <2>1. current_state \in {Ready, Running}
    BY DEF StreamInv, Tested
  <2>2. \A u \in Threads : pc[u] \notin PastComponentWait
    BY DEF StreamInv, Drained
  <2> QED BY <2>1, <2>2, SomePhase DEF PastComponentWait, StateLabels
<1>2. PropertyReachesComponent
  <2> SUFFICES ASSUME NEW t \in Threads, pc[t] = "property_use"
               PROVE  adapter
    BY DEF PropertyReachesComponent
  <2>1. current_state \in {Ready, Running}
    BY DEF StreamInv, Tested
  <2> QED BY <2>1, SomePhase DEF StateLabels
<1>3. SendableOnlyIfStarted
  BY SomePhase DEF SendableOnlyIfStarted, IsSendableState, StateLabels
<1>4. StateMatchesResources
  <2> SUFFICES ASSUME \A t \in Threads : ~InStateFunction(t), ~half_closed
               PROVE  /\ current_state = dest_state
                      /\ port_started <=> current_state = Running
                      /\ port_opened <=> current_state \in {Ready, Running}
                      /\ adapter <=> port_opened
                      /\ frame_manager = IF port_opened THEN "initialized" ELSE "none"
    BY DEF StateMatchesResources
  <2>1. Quiet
    BY DEF StreamInv, InPhase
  <2> QED BY <2>1
<1>5. NoLostWakeup
  BY DEF StreamInv, Waiters
<1> QED BY <1>1, <1>2, <1>3, <1>4, <1>5

\* Functions in flight while a stream is stopped or closed find what they
\* need: ReleaseFrame its frame manager, port and component, LockProperty its
\* component; frames are accepted by a started stream only; between state
\* functions the local state matches the resources; no wakeup is lost.
THEOREM StreamSafe ==
  Spec => /\ []ReleaseReachesComponent
          /\ []PropertyReachesComponent
          /\ []SendableOnlyIfStarted
          /\ []StateMatchesResources
          /\ []NoLostWakeup
<1>1. StreamInv => /\ ReleaseReachesComponent
                   /\ PropertyReachesComponent
                   /\ SendableOnlyIfStarted
                   /\ StateMatchesResources
                   /\ NoLostWakeup
  BY StreamInvSafe
<1> QED BY <1>1, InitStreamInv, NextStreamInv, PTL DEF Spec

\* Between two state functions the state a stream reports is the one its
\* port, component and frame manager are in, whatever failed before.
THEOREM StreamStateTrue == Spec => []StateMatchesResources
BY StreamSafe, PTL

\* Close and Stop leave no thread asleep in GetFrame.
THEOREM StreamWakesAll == Spec => []NoLostWakeup
BY StreamSafe, PTL
=============================================================================
