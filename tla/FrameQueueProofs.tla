-------------------------- MODULE FrameQueueProofs --------------------------
(***************************************************************************)
(* The two queues of frames of a stream: the frame manager's, from which   *)
(* GetFrame takes, and the recorder's, to which it hands what it took.     *)
(* First the frame manager, for every number of buffers, every set of skip *)
(* rates and any number of frames; then the recorder, for any threads,     *)
(* limits, sizes of the queue and number of frames and calls.              *)
(***************************************************************************)
EXTENDS FrameManager, FrameRecorder, FiniteSetTheorems, TLAPS

---------------------------------------------------------------------------
(***************************************************************************)
(* The frame manager.                                                      *)
(***************************************************************************)
(***************************************************************************)
(* What Set can do to the queues: refuse the frame and leave them alone,   *)
(* append to them using a reserved buffer, replace the oldest frame, or    *)
(* replace all of them.                                                    *)
(***************************************************************************)
Refuses(b, m) ==
  /\ b.found = FALSE /\ b.acquirable = FALSE /\ b.evicted = {}
  /\ b.incoming = m.incoming /\ b.reserved = m.reserved

Appends(b, p, m) ==
  /\ b.found = TRUE /\ b.acquirable = TRUE /\ b.evicted = {}
  /\ b.incoming = m.incoming
  /\ Limited(p) => m.reserved > 0 /\ b.reserved = m.reserved - 1
  /\ b.reserved \in Nat

ReplacesOldest(b, m) ==
  /\ b.found = TRUE /\ b.acquirable = FALSE
  /\ m.incoming # << >> /\ b.evicted = {Head(m.incoming)}
  /\ b.incoming = Tail(m.incoming) /\ b.reserved = m.reserved

ReplacesAll(b, p, m) ==
  /\ b.found = TRUE /\ b.acquirable = (m.incoming = << >>)
  /\ b.evicted = Elements(m.incoming)
  /\ b.incoming = << >> /\ b.reserved = 0
  /\ ~Limited(p)

\* Set does one of these four things.
LEMMA SetResultCases ==
  ASSUME NEW p \in Policies, NEW m \in ManagerType(Frames)
  PROVE  LET b == SetResult(p, m)
         IN  \/ Refuses(b, m) \/ Appends(b, p, m)
             \/ ReplacesOldest(b, m) \/ ReplacesAll(b, p, m)
<1>0. Refuses(NoBuffer(m), m)
  BY DEF NoBuffer, Buffer, Refuses
<1>a. m.reserved \in Nat
  BY DEF ManagerType
<1>1. CASE ~m.initialized \/ IsSkipFrame(m)
  BY <1>0, <1>1 DEF SetResult
<1>2. CASE ~(~m.initialized \/ IsSkipFrame(m))
  <2>0. SetResult(p, m) = GetBuffer(p, m)
    BY <1>2 DEF SetResult
  <2>1. CASE p = Overwrite
    <3>0. GetBuffer(p, m) = GetBufferOverwrite(m)
      BY <2>1 DEF GetBuffer, Overwrite, Discard, Realtime, Unlimited
    <3>1. CASE m.reserved > 0
      <4>1. GetBufferOverwrite(m) = Buffer(TRUE, TRUE, {}, m.reserved - 1, m.incoming)
        BY <3>1 DEF GetBufferOverwrite
      <4>2. Appends(GetBufferOverwrite(m), p, m)
        BY <4>1, <1>a, <3>1 DEF Appends, Buffer
      <4> QED BY <4>2, <3>0, <2>0
    <3>2. CASE ~(m.reserved > 0) /\ m.incoming # << >>
      <4>1. ReplacesOldest(GetBufferOverwrite(m), m)
        BY <3>2 DEF GetBufferOverwrite, ReplacesOldest, Buffer
      <4> QED BY <4>1, <3>0, <2>0
    <3>3. CASE ~(m.reserved > 0) /\ m.incoming = << >>
      BY <1>0, <2>0, <3>0, <3>3 DEF GetBufferOverwrite
    <3> QED BY <3>1, <3>2, <3>3
  <2>2. CASE p = Discard
    <3>0. GetBuffer(p, m) = GetBufferDiscard(m)
      BY <2>2 DEF GetBuffer, Overwrite, Discard, Realtime, Unlimited
    <3>1. CASE m.reserved <= 0
      BY <1>0, <2>0, <3>0, <3>1 DEF GetBufferDiscard
    <3>2. CASE ~(m.reserved <= 0)
      <4>1. GetBufferDiscard(m) = Buffer(TRUE, TRUE, {}, m.reserved - 1, m.incoming)
        BY <3>2 DEF GetBufferDiscard
      <4>2. Appends(GetBufferDiscard(m), p, m)
        BY <4>1, <1>a, <3>2 DEF Appends, Buffer
      <4> QED BY <4>2, <3>0, <2>0
    <3> QED BY <3>1, <3>2
  <2>3. CASE p = Realtime
    <3>0. GetBuffer(p, m) = GetBufferRealtime(m)
      BY <2>3 DEF GetBuffer, Overwrite, Discard, Realtime, Unlimited
    <3>1. ReplacesAll(GetBufferRealtime(m), p, m)
      BY <2>3 DEF GetBufferRealtime, Buffer, ReplacesAll, Limited, Overwrite, Discard, Realtime
    <3> QED BY <3>0, <3>1, <2>0
  <2>4. CASE p = Unlimited
    <3>0. GetBuffer(p, m) = GetBufferUnlimited(m)
      BY <2>4 DEF GetBuffer, Overwrite, Discard, Realtime, Unlimited
    <3>1. Appends(GetBufferUnlimited(m), p, m)
      BY <2>4 DEF GetBufferUnlimited, Buffer, Appends, Limited, Overwrite, Discard, Unlimited
    <3> QED BY <3>0, <3>1, <2>0
  <2> QED BY <2>1, <2>2, <2>3, <2>4 DEF Policies
<1> QED BY <1>1, <1>2

---------------------------------------------------------------------------
(***************************************************************************)
(* The elements and the order of a queue under push and pop.               *)
(***************************************************************************)
\* push_back adds its argument.
LEMMA ElementsOfAppend ==
  ASSUME NEW s \in Seq(Nat), NEW f \in Nat
  PROVE  /\ Append(s, f) \in Seq(Nat)
         /\ Len(Append(s, f)) = Len(s) + 1
         /\ Elements(Append(s, f)) = Elements(s) \cup {f}
<1>1. \A i \in 1 .. Len(s) : Append(s, f)[i] = s[i]
  OBVIOUS
<1>2. Append(s, f)[Len(s) + 1] = f
  OBVIOUS
<1>3. 1 .. Len(s) + 1 = (1 .. Len(s)) \cup {Len(s) + 1}
  OBVIOUS
<1> QED BY <1>1, <1>2, <1>3 DEF Elements

\* pop_front of an ascending queue takes its smallest element.
LEMMA ElementsOfTail ==
  ASSUME NEW s \in Seq(Nat), s # << >>, Ascending(s)
  PROVE  /\ Tail(s) \in Seq(Nat)
         /\ Head(s) \in Nat
         /\ Len(s) = Len(Tail(s)) + 1
         /\ Elements(s) = Elements(Tail(s)) \cup {Head(s)}
         /\ Ascending(Tail(s))
         /\ \A g \in Elements(Tail(s)) : Head(s) < g
<1>1. /\ Tail(s) \in Seq(Nat) /\ Head(s) = s[1] /\ Head(s) \in Nat
      /\ Len(s) = Len(Tail(s)) + 1 /\ Len(Tail(s)) \in Nat
  OBVIOUS
<1>2. \A i \in 1 .. Len(Tail(s)) : Tail(s)[i] = s[i + 1]
  OBVIOUS
<1>3. Ascending(Tail(s))
  BY <1>1, <1>2 DEF Ascending
<1>4. \A g \in Elements(Tail(s)) : Head(s) < g
  BY <1>1, <1>2 DEF Ascending, Elements
<1>5. Elements(s) = Elements(Tail(s)) \cup {Head(s)}
  <2>1. \A i \in 1 .. Len(s) : i = 1 \/ (i - 1) \in 1 .. Len(Tail(s))
    BY <1>1
  <2>2. \A i \in 1 .. Len(s) : s[i] = Head(s) \/ s[i] \in Elements(Tail(s))
    <3> TAKE i \in 1 .. Len(s)
    <3>1. CASE i = 1
      BY <3>1, <1>1
    <3>2. CASE i # 1
      <4>1. (i - 1) \in 1 .. Len(Tail(s)) /\ (i - 1) + 1 = i
        BY <3>2, <2>1
      <4>2. Tail(s)[i - 1] = s[i]
        BY <4>1, <1>2
      <4> QED BY <4>1, <4>2 DEF Elements
    <3> QED BY <3>1, <3>2
  <2>3. Elements(Tail(s)) \subseteq Elements(s)
    BY <1>1, <1>2 DEF Elements
  <2>4. Head(s) \in Elements(s)
    BY <1>1 DEF Elements
  <2> QED BY <2>2, <2>3, <2>4 DEF Elements
<1> QED BY <1>1, <1>3, <1>4, <1>5

\* A queue stays ascending when its argument exceeds all of its elements.
LEMMA AscendingAppend ==
  ASSUME NEW s \in Seq(Nat), NEW f \in Nat, Ascending(s),
         \A g \in Elements(s) : g < f
  PROVE  Ascending(Append(s, f))
<1>1. \A i \in 1 .. Len(s) : Append(s, f)[i] = s[i] /\ s[i] < f
  BY DEF Elements
<1>2. Append(s, f)[Len(s) + 1] = f /\ Len(Append(s, f)) = Len(s) + 1
  OBVIOUS
<1> QED BY <1>1, <1>2 DEF Ascending

\* A queue that Clear or Exit has drained is in order and holds no frame.
LEMMA EmptyQueue ==
  /\ Elements(<< >>) = {}
  /\ Ascending(<< >>)
  /\ Len(<< >>) = 0
  /\ \A s \in Seq(Nat) : Len(s) = 0 => s = << >>
BY DEF Elements, Ascending

---------------------------------------------------------------------------
(***************************************************************************)
(* The inductive invariant.  SlotsConserved alone is not inductive: Get    *)
(* moves a frame into the set of frames in use, and the count is kept only *)
(* because no frame is in both queues, which follows from the order of     *)
(* delivery, which in turn needs every frame held to be older than next.   *)
(***************************************************************************)
Inv ==
  /\ FMTypeOK
  /\ SlotsConserved
  /\ DeliveredInOrder
  /\ EveryFrameAccounted
  /\ NoStrandedFrame

\* Init establishes the invariant.
LEMMA InitInv == FMInit => Inv
<1> SUFFICES ASSUME FMInit PROVE Inv
  OBVIOUS
<1>1. /\ manager.incoming = << >> /\ manager.outgoing = {}
      /\ manager.initialized = TRUE /\ manager.skip_rate = 1 /\ manager.skip_counter = 0
      /\ manager.reserved = IF Limited(policy) THEN BufferNum ELSE 0
      /\ manager \in ManagerType(Frames)
  <2>1. manager = [reserved |-> IF Limited(policy) THEN BufferNum ELSE 0,
                   incoming |-> << >>, outgoing |-> {}, initialized |-> TRUE,
                   skip_rate |-> 1, skip_counter |-> 0]
    BY DEF FMInit, InitManager, Constructed
  <2>2. << >> \in Seq(Nat) /\ {} \in SUBSET Nat
    OBVIOUS
  <2> QED BY <2>1, <2>2, BufferNumAssumption DEF ManagerType, Frames
<1>2. Held(manager) = {} /\ Elements(manager.incoming) = {}
  BY <1>1, EmptyQueue DEF Held
<1>3. IsFiniteSet({}) /\ Cardinality({}) = 0
  BY FS_EmptySet
<1>4. FMTypeOK
  BY <1>1, <1>3 DEF FMInit, FMTypeOK, Frames
<1>5. SlotsConserved
  BY <1>1, <1>3, BufferNumAssumption DEF SlotsConserved
<1>6. DeliveredInOrder
  BY <1>1, <1>2, EmptyQueue DEF DeliveredInOrder
<1>7. EveryFrameAccounted
  BY <1>1, <1>2 DEF FMInit, EveryFrameAccounted
<1>8. NoStrandedFrame
  BY <1>1 DEF FMInit, NoStrandedFrame
<1> QED BY <1>4, <1>5, <1>6, <1>7, <1>8 DEF Inv

\* The parts of the invariant every step uses.
LEMMA InvFacts ==
  ASSUME Inv
  PROVE  /\ policy \in Policies /\ manager \in ManagerType(Frames)
         /\ manager.incoming \in Seq(Nat) /\ manager.reserved \in Nat
         /\ manager.outgoing \subseteq Nat
         /\ Len(manager.incoming) \in Nat
         /\ manager.skip_rate \in Nat \ {0} /\ manager.skip_counter \in Nat
         /\ manager.initialized \in BOOLEAN
         /\ IsFiniteSet(manager.outgoing) /\ Cardinality(manager.outgoing) \in Nat
         /\ next \in Nat \ {0}
         /\ released \subseteq Nat /\ dropped \subseteq Nat
         /\ callbacks \in Nat /\ offered \in Nat
         /\ Ascending(manager.incoming)
         /\ \A f \in manager.outgoing, g \in Elements(manager.incoming) : f < g
         /\ callbacks >= Len(manager.incoming)
         /\ 1 .. next - 1 = dropped \cup released \cup Elements(manager.incoming)
                              \cup manager.outgoing
         /\ dropped \cap released = {}
         /\ dropped \cap (Elements(manager.incoming) \cup manager.outgoing) = {}
         /\ released \cap (Elements(manager.incoming) \cup manager.outgoing) = {}
         /\ Elements(manager.incoming) \cap manager.outgoing = {}
<1>1. 1 .. next - 1 = dropped \cup released \cup Elements(manager.incoming)
                              \cup manager.outgoing
  BY DEF Inv, EveryFrameAccounted, Held
<1>2. IsFiniteSet(manager.outgoing) /\ Cardinality(manager.outgoing) \in Nat
  BY FS_CardinalityType DEF Inv, FMTypeOK
<1>3. /\ policy \in Policies /\ manager \in ManagerType(Frames)
      /\ next \in Nat \ {0}
      /\ released \subseteq Nat /\ dropped \subseteq Nat
      /\ callbacks \in Nat /\ offered \in Nat
  BY DEF Inv, FMTypeOK, Frames
<1>4. /\ manager.incoming \in Seq(Nat) /\ manager.reserved \in Nat
      /\ manager.outgoing \subseteq Nat
      /\ Len(manager.incoming) \in Nat
      /\ manager.skip_rate \in Nat \ {0} /\ manager.skip_counter \in Nat
      /\ manager.initialized \in BOOLEAN
  BY <1>3 DEF ManagerType, Frames
<1> QED BY <1>1, <1>2, <1>3, <1>4
        DEF Inv, DeliveredInOrder, EveryFrameAccounted, NoStrandedFrame,
            Held

\* Set keeps the invariant, whichever of its four outcomes it has.
LEMMA SetInv == Inv /\ Set => Inv'
<1> SUFFICES ASSUME Inv, Set PROVE Inv'
  OBVIOUS
<1> DEFINE b == SetResult(policy, manager)
           in == manager.incoming
           out == manager.outgoing
<1>1. /\ policy' = policy
      /\ manager' = [manager EXCEPT
           !.reserved     = b.reserved,
           !.incoming     = IF b.found THEN Append(b.incoming, next) ELSE @,
           !.skip_counter = IF manager.initialized THEN SkipCounter(manager) ELSE @]
      /\ released' = released \cup b.evicted
      /\ dropped' = IF b.found THEN dropped ELSE dropped \cup {next}
      /\ callbacks' = callbacks + (IF b.acquirable THEN 1 ELSE 0)
      /\ next' = next + 1
      /\ offered' = IF manager.initialized THEN offered + 1 ELSE offered
  BY DEF Set, SetFrame
<1>2. SkipCounter(manager) \in Nat
  BY InvFacts DEF SkipCounter
<1>3. /\ \/ Refuses(b, manager) \/ Appends(b, policy, manager)
         \/ ReplacesOldest(b, manager) \/ ReplacesAll(b, policy, manager)
  BY InvFacts, SetResultCases
<1> HIDE DEF b
<1>4. /\ manager'.reserved = b.reserved
      /\ manager'.incoming = IF b.found THEN Append(b.incoming, next) ELSE in
      /\ manager'.outgoing = out
      /\ manager'.initialized = manager.initialized
  BY <1>1, InvFacts DEF ManagerType
<1>5. /\ \A f \in Elements(in) \cup out : f < next
      /\ 1 .. next' - 1 = (1 .. next - 1) \cup {next}
      /\ next \notin 1 .. next - 1
      /\ Held(manager)' = Elements(manager'.incoming) \cup out
  BY <1>1, <1>4, InvFacts, SMTT(30) DEF Held
<1>a. /\ 1 .. next - 1 = dropped \cup released \cup Elements(in) \cup out
      /\ dropped \cap released = {}
      /\ dropped \cap (Elements(in) \cup out) = {}
      /\ released \cap (Elements(in) \cup out) = {}
      /\ Elements(in) \cap out = {}
      /\ next \notin dropped \cup released \cup Elements(in) \cup out
  BY <1>5, InvFacts
<1>b. Limited(policy) => manager.reserved + Len(in) + Cardinality(out) = BufferNum
  BY DEF Inv, SlotsConserved
<1>c. manager.reserved \in Nat /\ Len(in) \in Nat /\ Cardinality(out) \in Nat
  BY InvFacts
<1>6. ASSUME manager'.incoming \in Seq(Nat), manager'.reserved \in Nat
      PROVE  manager' \in ManagerType(Frames)
  BY <1>1, <1>2, <1>4, <1>6, InvFacts DEF ManagerType, Frames
<1>7. ASSUME manager'.incoming \in Seq(Nat), manager'.reserved \in Nat,
             released' \subseteq Nat, dropped' \subseteq Nat, callbacks' \in Nat
      PROVE  FMTypeOK'
  <2>1. manager' \in ManagerType(Frames)
    BY <1>6, <1>7
  <2>2. next' \in Nat \ {0} /\ offered' \in Nat /\ policy' \in Policies
    BY <1>1, InvFacts
  <2>3. IsFiniteSet(manager'.outgoing)
    BY <1>4, InvFacts
  <2> QED BY <1>7, <2>1, <2>2, <2>3 DEF FMTypeOK, Frames
<1>8. CASE Refuses(b, manager)
  <2>1. /\ manager'.incoming = in /\ manager'.reserved = manager.reserved
        /\ released' = released /\ dropped' = dropped \cup {next}
        /\ callbacks' = callbacks /\ Held(manager)' = Elements(in) \cup out
    BY <1>1, <1>4, <1>8, InvFacts DEF Refuses, Held
  <2>2. FMTypeOK'
    BY <2>1, <1>7, InvFacts
  <2>3. SlotsConserved'
    BY <2>1, <1>1, <1>4 DEF Inv, SlotsConserved
  <2>4. DeliveredInOrder'
    BY <2>1, <1>4 DEF Inv, DeliveredInOrder
  <2>5. EveryFrameAccounted'
    BY <2>1, <1>1, <1>4, <1>5, InvFacts, SMTT(30) DEF EveryFrameAccounted
  <2>6. NoStrandedFrame'
    BY <2>1 DEF Inv, NoStrandedFrame
  <2> QED BY <2>2, <2>3, <2>4, <2>5, <2>6 DEF Inv
<1>9. CASE Appends(b, policy, manager)
  <2>1. /\ manager'.incoming = Append(in, next)
        /\ Limited(policy) => manager'.reserved = manager.reserved - 1
        /\ manager'.reserved \in Nat
        /\ released' = released /\ dropped' = dropped
        /\ callbacks' = callbacks + 1
    BY <1>1, <1>4, <1>9, InvFacts DEF Appends
  <2>2. /\ Append(in, next) \in Seq(Nat) /\ Len(Append(in, next)) = Len(in) + 1
        /\ Elements(Append(in, next)) = Elements(in) \cup {next}
        /\ Ascending(Append(in, next))
    BY <1>5, InvFacts, ElementsOfAppend, AscendingAppend
  <2>3. FMTypeOK'
    BY <2>1, <2>2, <1>7, InvFacts
  <2>4. SlotsConserved'
    <3>1. Limited(policy) => (manager.reserved - 1) + (Len(in) + 1) + Cardinality(out)
                               = BufferNum
      BY <1>b, <1>c
    <3> QED BY <3>1, <2>1, <2>2, <1>1, <1>4 DEF SlotsConserved
  <2>5. DeliveredInOrder'
    BY <2>1, <2>2, <1>4, <1>5, InvFacts DEF DeliveredInOrder
  <2>6. EveryFrameAccounted'
    BY <2>1, <2>2, <1>4, <1>5, <1>a DEF EveryFrameAccounted
  <2>7. NoStrandedFrame'
    BY <2>1, <2>2, InvFacts DEF NoStrandedFrame
  <2> QED BY <2>3, <2>4, <2>5, <2>6, <2>7 DEF Inv
<1>10. CASE ReplacesOldest(b, manager)
  <2>1. /\ manager'.incoming = Append(Tail(in), next)
        /\ manager'.reserved = manager.reserved
        /\ released' = released \cup {Head(in)} /\ dropped' = dropped
        /\ callbacks' = callbacks
        /\ in # << >>
    BY <1>1, <1>4, <1>10, InvFacts, SMTT(30) DEF ReplacesOldest
  <2>2. /\ Tail(in) \in Seq(Nat) /\ Head(in) \in Nat
        /\ Len(in) = Len(Tail(in)) + 1
        /\ Elements(in) = Elements(Tail(in)) \cup {Head(in)}
        /\ Ascending(Tail(in))
        /\ \A g \in Elements(Tail(in)) : Head(in) < g
    BY <2>1, InvFacts, ElementsOfTail
  <2>3. /\ Append(Tail(in), next) \in Seq(Nat)
        /\ Len(Append(Tail(in), next)) = Len(in)
        /\ Elements(Append(Tail(in), next)) = Elements(Tail(in)) \cup {next}
        /\ Ascending(Append(Tail(in), next))
    BY <2>2, <1>5, InvFacts, ElementsOfAppend, AscendingAppend
  <2>4. FMTypeOK'
    BY <2>1, <2>2, <2>3, <1>7, InvFacts
  <2>5. SlotsConserved'
    BY <2>1, <2>3, <1>1, <1>4, InvFacts DEF Inv, SlotsConserved
  <2>6. DeliveredInOrder'
    BY <2>1, <2>2, <2>3, <1>4, <1>5, InvFacts DEF DeliveredInOrder
  <2>7. Head(in) \notin Elements(Tail(in))
    BY <2>2
  <2>8. EveryFrameAccounted'
    <3> DEFINE rest == Elements(Tail(in))
    <3>1. /\ Elements(in) = rest \cup {Head(in)} /\ Head(in) \notin rest
          /\ Elements(manager'.incoming) = rest \cup {next}
          /\ Held(manager)' = rest \cup {next} \cup out
      BY <2>1, <2>2, <2>3, <2>7, <1>5
    <3>2. 1 .. next' - 1 = (1 .. next - 1) \cup {next}
      BY <1>5
    <3> HIDE DEF rest, in, out
    <3> QED BY <3>1, <3>2, <2>1, <1>a, <1>4 DEF EveryFrameAccounted
  <2>9. NoStrandedFrame'
    BY <2>1, <2>3, InvFacts DEF NoStrandedFrame
  <2> QED BY <2>4, <2>5, <2>6, <2>8, <2>9 DEF Inv
<1>11. CASE ReplacesAll(b, policy, manager)
  <2>1. /\ manager'.incoming = Append(<< >>, next) /\ manager'.reserved = 0
        /\ released' = released \cup Elements(in) /\ dropped' = dropped
        /\ callbacks' = callbacks + (IF in = << >> THEN 1 ELSE 0)
        /\ ~Limited(policy)
    BY <1>1, <1>4, <1>11, InvFacts DEF ReplacesAll
  <2>2. /\ Append(<< >>, next) \in Seq(Nat)
        /\ Len(Append(<< >>, next)) = 1
        /\ Elements(Append(<< >>, next)) = {next}
        /\ Ascending(Append(<< >>, next))
    BY InvFacts DEF Elements, Ascending
  <2>3. Elements(in) \subseteq Nat
    BY InvFacts DEF Elements
  <2>4. FMTypeOK'
    BY <2>1, <2>2, <2>3, <1>7, InvFacts
  <2>5. SlotsConserved'
    BY <2>1, <1>1 DEF SlotsConserved
  <2>6. DeliveredInOrder'
    BY <2>1, <2>2, <1>4, <1>5, InvFacts DEF DeliveredInOrder
  <2>7. EveryFrameAccounted'
    BY <2>1, <2>2, <1>4, <1>5, <1>a DEF EveryFrameAccounted
  <2>8. NoStrandedFrame'
    <3>1. in # << >> => Len(in) >= 1
      BY InvFacts, EmptyQueue
    <3> QED BY <3>1, <2>1, <2>2, InvFacts DEF NoStrandedFrame
  <2> QED BY <2>4, <2>5, <2>6, <2>7, <2>8 DEF Inv
<1> QED BY <1>3, <1>8, <1>9, <1>10, <1>11

(***************************************************************************)
(* The other steps change the queues of the manager but send no frame.  It *)
(* is enough to follow the queues, the reserved count and the two counters.*)
(***************************************************************************)
LEMMA QuietStep ==
  ASSUME Inv, UNCHANGED <<policy, dropped, next>>,
         manager' \in ManagerType(Frames), IsFiniteSet(manager'.outgoing),
         released' \subseteq Nat, callbacks' \in Nat, offered' \in Nat,
         Limited(policy) =>
           manager'.reserved + Len(manager'.incoming) + Cardinality(manager'.outgoing)
             = BufferNum,
         Ascending(manager'.incoming),
         \A f \in manager'.outgoing, g \in Elements(manager'.incoming) : f < g,
         released \cup Elements(manager.incoming) \cup manager.outgoing
           = released' \cup Elements(manager'.incoming) \cup manager'.outgoing,
         released' \cap (Elements(manager'.incoming) \cup manager'.outgoing) = {},
         callbacks' >= Len(manager'.incoming)
  PROVE  Inv'
<1>1. FMTypeOK'
  BY DEF Inv, FMTypeOK, Frames
<1>2. SlotsConserved'
  BY DEF SlotsConserved
<1>3. DeliveredInOrder'
  BY DEF DeliveredInOrder
<1>4. EveryFrameAccounted'
  <2>1. \A f \in manager'.outgoing : f \in Nat
    BY DEF ManagerType, Frames
  <2>2. Elements(manager'.incoming) \cap manager'.outgoing = {}
    BY <2>1
  <2>3. /\ 1 .. next - 1 = dropped \cup released \cup Elements(manager.incoming)
                              \cup manager.outgoing
        /\ dropped \cap (released \cup Elements(manager.incoming) \cup manager.outgoing) = {}
    BY InvFacts
  <2> QED BY <2>2, <2>3 DEF EveryFrameAccounted, Held
<1>5. NoStrandedFrame'
  BY DEF NoStrandedFrame
<1> QED BY <1>1, <1>2, <1>3, <1>4, <1>5 DEF Inv

\* GetFrame moves the oldest frame from one queue to the other.
LEMMA GetInv ==
  ASSUME Inv, CanGet(manager), manager' = GetFrame(manager),
         UNCHANGED <<policy, dropped, next, released, offered>>,
         callbacks' \in Nat, callbacks' >= callbacks - 1
  PROVE  Inv'
<1> DEFINE in == manager.incoming
           out == manager.outgoing
<1>1. /\ Tail(in) \in Seq(Nat) /\ Head(in) \in Nat
      /\ Len(in) = Len(Tail(in)) + 1
      /\ Elements(in) = Elements(Tail(in)) \cup {Head(in)}
      /\ Ascending(Tail(in))
      /\ \A g \in Elements(Tail(in)) : Head(in) < g
  BY InvFacts, ElementsOfTail DEF CanGet
<1>2. /\ manager' \in ManagerType(Frames)
      /\ manager'.incoming = Tail(in) /\ manager'.outgoing = out \cup {Head(in)}
      /\ manager'.reserved = manager.reserved
  BY <1>1, InvFacts DEF GetFrame, ManagerType, Frames
<1>3. Head(in) \notin out
  BY <1>1, InvFacts
<1>4. /\ IsFiniteSet(out \cup {Head(in)})
      /\ Cardinality(out \cup {Head(in)}) = Cardinality(out) + 1
  BY <1>3, InvFacts, FS_AddElement
<1>5. Limited(policy) => manager.reserved + Len(Tail(in)) + (Cardinality(out) + 1)
                           = BufferNum
  <2>1. manager.reserved \in Nat /\ Len(Tail(in)) \in Nat /\ Cardinality(out) \in Nat
    BY <1>1, InvFacts
  <2>2. Limited(policy) => manager.reserved + Len(in) + Cardinality(out) = BufferNum
    BY DEF Inv, SlotsConserved
  <2>3. Len(in) = Len(Tail(in)) + 1
    BY <1>1
  <2>4. \A r, l, c \in Nat : r + (l + 1) + c = r + l + (c + 1)
    OBVIOUS
  <2>5. Limited(policy) =>
          manager.reserved + (Len(Tail(in)) + 1) + Cardinality(out) = BufferNum
    BY <2>2, <2>3, Zenon
  <2>6. manager.reserved + (Len(Tail(in)) + 1) + Cardinality(out)
          = manager.reserved + Len(Tail(in)) + (Cardinality(out) + 1)
    BY <2>1, <2>4, ZenonT(30)
  <2> QED BY <2>5, <2>6, Zenon
<1>6. \A f \in out \cup {Head(in)}, g \in Elements(Tail(in)) : f < g
  BY <1>1, InvFacts
<1>7. /\ released \cup Elements(in) \cup out
           = released \cup Elements(Tail(in)) \cup (out \cup {Head(in)})
      /\ released \cap (Elements(Tail(in)) \cup (out \cup {Head(in)})) = {}
  BY <1>1, InvFacts
<1>8. callbacks' >= Len(Tail(in))
  <2>1. Len(Tail(in)) \in Nat
    BY <1>1
  <2> QED BY <2>1, <1>1, InvFacts
<1>9. released' \subseteq Nat /\ offered' \in Nat
  BY InvFacts
<1>10. Elements(manager'.incoming) = Elements(Tail(in)) /\ IsFiniteSet(manager'.outgoing)
  BY <1>2, <1>4
<1>11. Limited(policy) =>
         manager'.reserved + Len(manager'.incoming) + Cardinality(manager'.outgoing)
           = BufferNum
  BY <1>2, <1>4, <1>5
<1>12. /\ released \cup Elements(in) \cup out
           = released' \cup Elements(manager'.incoming) \cup manager'.outgoing
       /\ released' \cap (Elements(manager'.incoming) \cup manager'.outgoing) = {}
       /\ \A f \in manager'.outgoing, g \in Elements(manager'.incoming) : f < g
  BY <1>2, <1>6, <1>7, <1>10
<1>13. Ascending(manager'.incoming) /\ callbacks' >= Len(manager'.incoming)
  BY <1>1, <1>2, <1>8
<1> HIDE DEF in, out
<1> QED BY <1>2, <1>9, <1>10, <1>11, <1>12, <1>13, QuietStep DEF in, out

\* Remove frees a buffer exactly when the frame leaves the queue.
LEMMA RemoveInv == Inv /\ Remove => Inv'
<1> SUFFICES ASSUME Inv, Remove PROVE Inv'
  OBVIOUS
<1> DEFINE in == manager.incoming
           out == manager.outgoing
<1>1. PICK frame \in out, ok \in BOOLEAN :
        /\ manager' = RemoveFrame(manager, frame, ok)
        /\ released' = IF ok THEN released \cup {frame} ELSE released
        /\ UNCHANGED <<policy, dropped, next, callbacks, offered>>
  BY DEF Remove
<1>2. CASE ok
  <2>1. /\ manager' \in ManagerType(Frames)
        /\ manager'.incoming = in /\ manager'.outgoing = out \ {frame}
        /\ manager'.reserved = manager.reserved + 1
    <3>1. manager' = [manager EXCEPT !.outgoing = @ \ {frame}, !.reserved = @ + 1]
      BY <1>1, <1>2 DEF RemoveFrame
    <3>2. out \ {frame} \in SUBSET Nat /\ manager.reserved + 1 \in Nat
      BY InvFacts
    <3>3. manager \in ManagerType(Frames)
      BY InvFacts
    <3> QED BY <3>1, <3>2, <3>3 DEF ManagerType, Frames
  <2>2. /\ IsFiniteSet(out \ {frame})
        /\ Cardinality(out \ {frame}) = Cardinality(out) - 1
    BY InvFacts, FS_RemoveElement
  <2>3. Limited(policy) =>
          (manager.reserved + 1) + Len(in) + (Cardinality(out) - 1) = BufferNum
    <3>1. manager.reserved \in Nat /\ Len(in) \in Nat /\ Cardinality(out) \in Nat
      BY InvFacts
    <3>2. Limited(policy) => manager.reserved + Len(in) + Cardinality(out) = BufferNum
      BY DEF Inv, SlotsConserved
    <3> QED BY <3>1, <3>2, SMTT(30)
  <2>4. /\ released \cup Elements(in) \cup out
             = released' \cup Elements(in) \cup (out \ {frame})
        /\ released' \cap (Elements(in) \cup (out \ {frame})) = {}
        /\ released' \subseteq Nat
    BY <1>1, <1>2, InvFacts
  <2>5. /\ Ascending(in) /\ callbacks' >= Len(in) /\ callbacks' \in Nat
        /\ offered' \in Nat
        /\ \A f \in out \ {frame}, g \in Elements(in) : f < g
    BY <1>1, InvFacts
  <2> HIDE DEF in, out
  <2> QED BY <1>1, <2>1, <2>2, <2>3, <2>4, <2>5, QuietStep DEF in, out
<1>3. CASE ~ok
  <2>1. UNCHANGED fm_vars
    BY <1>1, <1>3 DEF RemoveFrame, fm_vars
  <2> QED BY <2>1 DEF fm_vars, Inv, FMTypeOK, SlotsConserved, DeliveredInOrder,
                      EveryFrameAccounted, NoStrandedFrame, Held
<1> QED BY <1>2, <1>3

\* Clear hands back the arrived frames and counts their buffers.
LEMMA ClearInv == Inv /\ Clear => Inv'
<1> SUFFICES ASSUME Inv, Clear PROVE Inv'
  OBVIOUS
<1> DEFINE in == manager.incoming
           out == manager.outgoing
<1>1. /\ manager' = [manager EXCEPT !.incoming = << >>, !.reserved = @ + Len(in)]
      /\ released' = released \cup Elements(in)
      /\ UNCHANGED <<policy, dropped, next, callbacks, offered>>
  BY DEF Clear, ClearFrames
<1>2. /\ manager' \in ManagerType(Frames)
      /\ manager'.incoming = << >> /\ manager'.outgoing = out
      /\ manager'.reserved = manager.reserved + Len(in)
  <2>1. /\ manager \in ManagerType(Frames) /\ manager.reserved + Len(in) \in Nat
        /\ << >> \in Seq(Nat)
    BY InvFacts
  <2> QED BY <1>1, <2>1 DEF ManagerType, Frames
<1>3. Limited(policy) => (manager.reserved + Len(in)) + 0 + Cardinality(out) = BufferNum
  <2>1. manager.reserved \in Nat /\ Len(in) \in Nat /\ Cardinality(out) \in Nat
    BY InvFacts
  <2>2. Limited(policy) => manager.reserved + Len(in) + Cardinality(out) = BufferNum
    BY DEF Inv, SlotsConserved
  <2> QED BY <2>1, <2>2
<1>4. /\ Elements(manager'.incoming) = {} /\ Len(manager'.incoming) = 0
      /\ Ascending(manager'.incoming)
  BY <1>2, EmptyQueue
<1>5. /\ released \cup Elements(in) \cup out
           = released' \cup Elements(manager'.incoming) \cup manager'.outgoing
      /\ released' \cap (Elements(manager'.incoming) \cup manager'.outgoing) = {}
      /\ \A f \in manager'.outgoing, g \in Elements(manager'.incoming) : f < g
  BY <1>1, <1>2, <1>4, InvFacts
<1>6. /\ released' \subseteq Nat /\ offered' \in Nat /\ callbacks' \in Nat
      /\ IsFiniteSet(manager'.outgoing) /\ callbacks' >= 0
  <2>1. Elements(in) \subseteq Nat
    BY InvFacts DEF Elements
  <2> QED BY <2>1, <1>1, <1>2, InvFacts
<1>7. Limited(policy) =>
        manager'.reserved + Len(manager'.incoming) + Cardinality(manager'.outgoing)
          = BufferNum
  BY <1>2, <1>3, <1>4
<1> HIDE DEF in, out
<1> QED BY <1>1, <1>2, <1>4, <1>5, <1>6, <1>7, QuietStep DEF in, out

\* A step that leaves the queues and the reserved count alone.
LEMMA SameQueues ==
  ASSUME Inv, UNCHANGED <<policy, dropped, next, callbacks, released>>,
         manager' \in ManagerType(Frames), offered' \in Nat,
         manager'.incoming = manager.incoming,
         manager'.outgoing = manager.outgoing,
         manager'.reserved = manager.reserved
  PROVE  Inv'
<1>1. FMTypeOK'
  BY DEF Inv, FMTypeOK
<1>2. SlotsConserved' /\ DeliveredInOrder' /\ NoStrandedFrame'
  BY DEF Inv, SlotsConserved, DeliveredInOrder, NoStrandedFrame
<1>3. EveryFrameAccounted'
  BY DEF Inv, EveryFrameAccounted, Held
<1> QED BY <1>1, <1>2, <1>3 DEF Inv

\* SetSkipRate touches only the skip counter.
LEMMA SetSkipRateInv == Inv /\ SetSkipRate => Inv'
<1> SUFFICES ASSUME Inv, NEW rate \in SkipRates,
                    manager' = SkipRateSet(manager, rate),
                    offered' = IF rate = 0 THEN offered ELSE 0,
                    UNCHANGED <<policy, dropped, next, callbacks, released>>
             PROVE  Inv'
  BY DEF SetSkipRate
<1>1. rate \in Nat /\ manager \in ManagerType(Frames) /\ offered' \in Nat
  BY InvFacts, SkipRatesAssumption
<1>2. /\ manager' \in ManagerType(Frames)
      /\ manager'.incoming = manager.incoming
      /\ manager'.outgoing = manager.outgoing
      /\ manager'.reserved = manager.reserved
  <2>1. CASE rate = 0
    BY <1>1, <2>1 DEF SkipRateSet
  <2>2. CASE rate # 0
    <3>1. manager' = [manager EXCEPT !.skip_rate = rate, !.skip_counter = rate - 1]
      BY <2>2 DEF SkipRateSet
    <3>2. rate \in Nat \ {0} /\ rate - 1 \in Nat
      BY <1>1, <2>2
    <3> QED BY <1>1, <3>1, <3>2 DEF ManagerType
  <2> QED BY <2>1, <2>2
<1> QED BY <1>1, <1>2, SameQueues

\* A manager that is not initialized holds no frame: needed for Init after
\* Exit, which sets the reserved count whatever the queues hold.
Drained ==
  ~manager.initialized => manager.incoming = << >> /\ manager.outgoing = {}

\* Exit empties both queues and counts every buffer.
LEMMA ExitInv == Inv /\ Drained /\ Exit => Inv'
<1> SUFFICES ASSUME Inv, Drained, Exit PROVE Inv'
  OBVIOUS
<1> DEFINE in == manager.incoming
           out == manager.outgoing
           free == manager.reserved + Len(in) + Cardinality(out)
<1>0. UNCHANGED <<policy, dropped, next, offered>> /\ callbacks' = 0
  BY DEF Exit
<1>a. /\ manager.reserved \in Nat /\ Len(in) \in Nat /\ Cardinality(out) \in Nat
      /\ manager \in ManagerType(Frames) /\ << >> \in Seq(Nat) /\ {} \in SUBSET Nat
  BY InvFacts
<1>b. Limited(policy) => free = BufferNum
  BY DEF Inv, SlotsConserved
<1>c. IsFiniteSet({}) /\ Cardinality({}) = 0
  BY FS_EmptySet
<1>1. /\ manager' \in ManagerType(Frames)
      /\ manager'.incoming = << >> /\ manager'.outgoing = {}
      /\ manager'.reserved = free
      /\ released' = released \cup Elements(in) \cup out
  <2>1. CASE manager.initialized
    <3>1. manager' = [manager EXCEPT !.incoming = << >>, !.outgoing = {},
                                     !.reserved = free, !.initialized = FALSE]
      BY <2>1 DEF Exit, ExitManager
    <3>2. released' = released \cup Elements(in) \cup out
      BY <2>1 DEF Exit, Held
    <3>3. free \in Nat
      BY <1>a
    <3> HIDE DEF free
    <3> QED BY <3>1, <3>2, <3>3, <1>a DEF ManagerType, Frames
  <2>2. CASE ~manager.initialized
    <3>1. manager' = manager /\ released' = released
      BY <2>2 DEF Exit, ExitManager
    <3>2. in = << >> /\ out = {}
      BY <2>2 DEF Drained
    <3>3. free = manager.reserved /\ Elements(in) = {}
      BY <3>2, <1>a, <1>c, EmptyQueue
    <3> QED BY <3>1, <3>2, <3>3, <1>a
  <2> QED BY <2>1, <2>2
<1>2. /\ Elements(manager'.incoming) = {} /\ Len(manager'.incoming) = 0
      /\ Ascending(manager'.incoming)
  BY <1>1, EmptyQueue
<1>3. Limited(policy) =>
        manager'.reserved + Len(manager'.incoming) + Cardinality(manager'.outgoing)
          = BufferNum
  BY <1>1, <1>2, <1>a, <1>b, <1>c
<1>4. /\ released \cup Elements(in) \cup out
           = released' \cup Elements(manager'.incoming) \cup manager'.outgoing
      /\ released' \cap (Elements(manager'.incoming) \cup manager'.outgoing) = {}
      /\ \A f \in manager'.outgoing, g \in Elements(manager'.incoming) : f < g
  BY <1>1, <1>2
<1>5. released' \subseteq Nat /\ offered' \in Nat /\ callbacks' \in Nat
      /\ IsFiniteSet(manager'.outgoing) /\ callbacks' >= 0
  <2>1. Elements(in) \subseteq Nat
    BY InvFacts DEF Elements
  <2> QED BY <2>1, <1>0, <1>1, <1>c, InvFacts
<1> HIDE DEF in, out, free
<1> QED BY <1>0, <1>1, <1>2, <1>3, <1>4, <1>5, QuietStep DEF in, out

\* A second Init is harmless: it does nothing, or finds the queues empty.
LEMMA ReinitInv == Inv /\ Drained /\ Reinit => Inv'
<1> SUFFICES ASSUME Inv, Drained, Reinit PROVE Inv'
  OBVIOUS
<1>0. UNCHANGED <<policy, dropped, next, callbacks, released, offered>>
  BY DEF Reinit
<1>a. /\ manager \in ManagerType(Frames) /\ manager.reserved \in Nat
      /\ released \subseteq Nat /\ callbacks \in Nat /\ offered \in Nat
  BY InvFacts
<1>1. CASE manager.initialized
  <2>1. manager' = manager
    BY <1>1 DEF Reinit, InitManager
  <2> QED BY <2>1, <1>0, <1>a, SameQueues
<1>2. CASE ~manager.initialized
  <2>1. manager' = [manager EXCEPT
                      !.reserved = IF Limited(policy) THEN BufferNum ELSE 0,
                      !.initialized = TRUE]
    BY <1>2 DEF Reinit, InitManager
  <2>2. manager.incoming = << >> /\ manager.outgoing = {}
    BY <1>2 DEF Drained
  <2>3. (IF Limited(policy) THEN BufferNum ELSE 0) \in Nat
    BY BufferNumAssumption
  <2>4. /\ manager' \in ManagerType(Frames)
        /\ manager'.incoming = << >> /\ manager'.outgoing = {}
        /\ Limited(policy) => manager'.reserved = BufferNum
    BY <2>1, <2>2, <2>3, <1>a DEF ManagerType
  <2>5. /\ IsFiniteSet(manager'.outgoing) /\ Cardinality(manager'.outgoing) = 0
        /\ Elements(manager'.incoming) = {} /\ Len(manager'.incoming) = 0
        /\ Ascending(manager'.incoming)
    BY <2>4, FS_EmptySet, EmptyQueue
  <2>6. Limited(policy) =>
          manager'.reserved + Len(manager'.incoming) + Cardinality(manager'.outgoing)
            = BufferNum
    BY <2>4, <2>5, BufferNumAssumption
  <2>7. /\ released \cup Elements(manager.incoming) \cup manager.outgoing
             = released' \cup Elements(manager'.incoming) \cup manager'.outgoing
        /\ released' \cap (Elements(manager'.incoming) \cup manager'.outgoing) = {}
    BY <1>0, <2>2, <2>4, <2>5
  <2>8. callbacks' >= Len(manager'.incoming)
    BY <1>0, <1>a, <2>5
  <2> QED BY <1>0, <1>a, <2>4, <2>5, <2>6, <2>7, <2>8, QuietStep
<1> QED BY <1>1, <1>2

\* Only Exit clears "initialized", and it empties the queues.
LEMMA DrainedStep == Inv /\ Drained /\ [FMNext]_fm_vars => Drained'
<1> SUFFICES ASSUME Inv, Drained, [FMNext]_fm_vars PROVE Drained'
  OBVIOUS
<1>0. manager \in ManagerType(Frames)
  BY InvFacts
<1>1. CASE Set
  <2>1. CASE manager.initialized
    BY <1>0, <1>1, <2>1 DEF Set, SetFrame, Drained, ManagerType
  <2>2. CASE ~manager.initialized
    BY <1>0, <1>1, <2>2
       DEF Set, SetFrame, SetResult, NoBuffer, Buffer, Drained, ManagerType
  <2> QED BY <2>1, <2>2
<1>2. CASE Get
  BY <1>0, <1>2 DEF Get, CanGet, GetFrame, Drained, ManagerType
<1>3. CASE Callback
  BY <1>0, <1>3 DEF Callback, CanGet, GetFrame, Drained, ManagerType
<1>4. CASE Remove
  BY <1>0, <1>4 DEF Remove, RemoveFrame, Drained, ManagerType
<1>5. CASE Clear
  BY <1>0, <1>5 DEF Clear, ClearFrames, Drained, ManagerType
<1>6. CASE SetSkipRate
  BY <1>0, <1>6 DEF SetSkipRate, SkipRateSet, Drained, ManagerType
<1>7. CASE Exit
  BY <1>0, <1>7 DEF Exit, ExitManager, Drained, ManagerType
<1>8. CASE Reinit
  BY <1>0, <1>8 DEF Reinit, InitManager, Drained, ManagerType
<1>9. CASE UNCHANGED fm_vars
  BY <1>9 DEF Drained, fm_vars
<1> QED BY <1>1, <1>2, <1>3, <1>4, <1>5, <1>6, <1>7, <1>8, <1>9 DEF FMNext

\* Every step keeps the invariant.
LEMMA NextInv == Inv /\ Drained /\ [FMNext]_fm_vars => Inv'
<1> SUFFICES ASSUME Inv, Drained, [FMNext]_fm_vars PROVE Inv'
  OBVIOUS
<1>1. CASE Get
  <2>1. /\ CanGet(manager) /\ manager' = GetFrame(manager)
        /\ UNCHANGED <<policy, dropped, next, released, offered>>
        /\ callbacks' = callbacks
    BY <1>1 DEF Get
  <2>2. callbacks' \in Nat /\ callbacks' >= callbacks - 1
    BY <2>1, InvFacts
  <2> QED BY <2>1, <2>2, GetInv
<1>2. CASE Callback
  <2>1. /\ UNCHANGED <<policy, dropped, next, released, offered>>
        /\ callbacks' = callbacks - 1 /\ callbacks > 0
    BY <1>2 DEF Callback
  <2>2. callbacks' \in Nat /\ callbacks' >= callbacks - 1
    BY <2>1, InvFacts
  <2>3. CASE CanGet(manager)
    <3>1. manager' = GetFrame(manager)
      BY <1>2, <2>3 DEF Callback
    <3> QED BY <2>1, <2>2, <2>3, <3>1, GetInv
  <2>4. CASE ~CanGet(manager)
    <3>1. manager' = manager
      BY <1>2, <2>4 DEF Callback
    <3>2. manager.incoming = << >> /\ Len(manager'.incoming) = 0
      BY <2>4, <3>1, EmptyQueue DEF CanGet
    <3>3. FMTypeOK' /\ SlotsConserved' /\ DeliveredInOrder'
      BY <2>1, <2>2, <3>1 DEF Inv, FMTypeOK, SlotsConserved, DeliveredInOrder
    <3>4. EveryFrameAccounted' /\ NoStrandedFrame'
      BY <2>1, <2>2, <3>1, <3>2
         DEF Inv, EveryFrameAccounted, Held, NoStrandedFrame
    <3> QED BY <3>3, <3>4 DEF Inv
  <2> QED BY <2>3, <2>4
<1>3. CASE UNCHANGED fm_vars
  BY <1>3 DEF fm_vars, Inv, FMTypeOK, SlotsConserved, DeliveredInOrder,
              EveryFrameAccounted, NoStrandedFrame, Held
<1> QED BY <1>1, <1>2, <1>3, SetInv, RemoveInv, ClearInv, SetSkipRateInv,
           ExitInv, ReinitInv DEF FMNext

\* The constructed and initialized manager is initialized.
LEMMA InitDrained == FMInit => Drained
BY DEF FMInit, InitManager, Constructed, Drained

\* FrameManagerCore keeps its types, its buffers, the order of its frames and
\* an account of every frame, for any number of buffers, frames and skip rates.
THEOREM FrameManagerCorrect ==
  FMSpec => []FMTypeOK /\ []SlotsConserved /\ []DeliveredInOrder
            /\ []EveryFrameAccounted /\ []NoStrandedFrame
<1>1. FMInit => Inv /\ Drained
  BY InitInv, InitDrained
<1>2. (Inv /\ Drained) /\ [FMNext]_fm_vars => (Inv /\ Drained)'
  BY NextInv, DrainedStep
<1>3. Inv => FMTypeOK /\ SlotsConserved /\ DeliveredInOrder
               /\ EveryFrameAccounted /\ NoStrandedFrame
  BY DEF Inv
<1> QED BY <1>1, <1>2, <1>3, PTL DEF FMSpec

\* A frame the component sends pushes out only frames older than all that stay.
THEOREM OldestEvicted == FMSpec => EvictsOldest
<1>1. FMInit => Inv /\ Drained
  BY InitInv, InitDrained
<1>2. (Inv /\ Drained) /\ [FMNext]_fm_vars => (Inv /\ Drained)'
  BY NextInv, DrainedStep
<1> DEFINE Older == next' # next =>
             \A f \in released' \ released :
               \A g \in Elements(manager'.incoming) : f < g
<1>3. Inv /\ [FMNext]_fm_vars => [Older]_fm_vars
  <2> SUFFICES ASSUME Inv, FMNext, next' # next PROVE Older
    OBVIOUS
  <2>1. Set
    BY DEF FMNext, Get, Callback, Remove, Clear, SetSkipRate, Exit, Reinit
  <2> DEFINE b == SetResult(policy, manager)
             in == manager.incoming
  <2>2. /\ released' = released \cup b.evicted
        /\ manager'.incoming = IF b.found THEN Append(b.incoming, next) ELSE in
    BY <2>1, InvFacts DEF Set, SetFrame, ManagerType
  <2>3. \/ Refuses(b, manager) \/ Appends(b, policy, manager)
        \/ ReplacesOldest(b, manager) \/ ReplacesAll(b, policy, manager)
    BY InvFacts, SetResultCases
  <2> HIDE DEF b
  <2>4. \A f \in Elements(in) : f \in Nat /\ f < next
    BY InvFacts
  <2>5. CASE Refuses(b, manager) \/ Appends(b, policy, manager)
    BY <2>2, <2>5 DEF Refuses, Appends
  <2>6. CASE ReplacesOldest(b, manager)
    <3>1. /\ Elements(in) = Elements(Tail(in)) \cup {Head(in)}
          /\ \A g \in Elements(Tail(in)) : Head(in) < g
          /\ Tail(in) \in Seq(Nat) /\ in # << >>
      BY <2>6, InvFacts, ElementsOfTail DEF ReplacesOldest
    <3>2. /\ manager'.incoming = Append(Tail(in), next)
          /\ released' = released \cup {Head(in)}
      BY <2>2, <2>6 DEF ReplacesOldest
    <3>3. Elements(manager'.incoming) = Elements(Tail(in)) \cup {next}
      BY <3>1, <3>2, InvFacts, ElementsOfAppend
    <3> QED BY <3>1, <3>2, <3>3, <2>4
  <2>7. CASE ReplacesAll(b, policy, manager)
    <3>1. /\ manager'.incoming = Append(<< >>, next)
          /\ released' = released \cup Elements(in)
      BY <2>2, <2>7 DEF ReplacesAll
    <3>2. Elements(manager'.incoming) = {next}
      BY <3>1, InvFacts DEF Elements
    <3> QED BY <3>1, <3>2, <2>4
  <2> QED BY <2>3, <2>5, <2>6, <2>7
<1> QED BY <1>1, <1>2, <1>3, PTL DEF FMSpec, EvictsOldest

\* Every frame the component sent is refused, handed back, or in one place
\* of one queue: none is lost, none is released twice.
THEOREM FramesAccounted == FMSpec => []EveryFrameAccounted
BY FrameManagerCorrect, PTL

\* A user who gets one frame per callback leaves no frame behind.
THEOREM CallbacksSuffice == FMSpec => []NoStrandedFrame
BY FrameManagerCorrect, PTL

---------------------------------------------------------------------------
(***************************************************************************)
(* The skip rate.  The provers know of a remainder only that it is one, so *)
(* its arithmetic comes first.                                             *)
(***************************************************************************)
\* A quotient and a remainder with its bounds determine n % r.
LEMMA RemainderIs ==
  ASSUME NEW n \in Nat, NEW r \in Nat, r > 0,
         NEW q \in Nat, NEW s \in 0 .. (r - 1), n = q * r + s
  PROVE  n % r = s
BY SMTT(30)

\* The remainder of the next number.
LEMMA NextRemainder ==
  ASSUME NEW n \in Nat, NEW r \in Nat, r > 0
  PROVE  /\ n % r \in 0 .. (r - 1)
         /\ (n + 1) % r = IF n % r = r - 1 THEN 0 ELSE (n % r) + 1
<1> DEFINE q == n \div r
           s == n % r
<1>1. q \in Nat /\ s \in 0 .. (r - 1) /\ n = q * r + s
  BY SMTT(30)
<1> HIDE DEF q, s
<1>2. CASE s = r - 1
  <2>1. n + 1 = (q + 1) * r + 0
    BY <1>1, <1>2, SMT
  <2>2. (n + 1) % r = 0
    BY <2>1, <1>1, RemainderIs
  <2> QED BY <2>2, <1>1, <1>2 DEF s
<1>3. CASE s # r - 1
  <2>1. n + 1 = q * r + (s + 1) /\ s + 1 \in 0 .. (r - 1)
    BY <1>1, <1>3, SMT
  <2>2. (n + 1) % r = s + 1
    BY <2>1, <1>1, RemainderIs
  <2>3. (n + 1) % r = IF s = r - 1 THEN 0 ELSE s + 1
    BY <2>2, <1>3
  <2> QED BY <2>3, <1>1 DEF s
<1> QED BY <1>2, <1>3

\* skip_counter_ runs through 0 .. rate - 1, one place behind the number of
\* frames offered since the rate was set.
Counted ==
  manager.skip_rate > 1 =>
    /\ manager.skip_counter < manager.skip_rate
    /\ offered % manager.skip_rate =
         IF manager.skip_counter = manager.skip_rate - 1
         THEN 0 ELSE manager.skip_counter + 1

\* Before the first SetSkipRate no frame is skipped.
LEMMA InitCounted == FMInit => Counted
<1>1. FMInit => manager.skip_rate = 1
  BY DEF FMInit, InitManager, Constructed
<1> QED BY <1>1 DEF Counted

\* Each frame an initialized manager is offered moves the counter by one,
\* and the counter is back at 0 after rate frames.
LEMMA CountedStep ==
  ASSUME Inv, Counted, [FMNext]_fm_vars
  PROVE  Counted'
<1> DEFINE rate == manager.skip_rate
           counter == manager.skip_counter
<1>0. rate \in Nat \ {0} /\ counter \in Nat /\ offered \in Nat
  BY InvFacts
<1>1. CASE Set /\ manager.initialized
  <2>1. /\ manager'.skip_rate = rate
        /\ manager'.skip_counter = SkipCounter(manager)
        /\ offered' = offered + 1
    BY <1>1, InvFacts DEF Set, SetFrame, ManagerType
  <2>2. SUFFICES ASSUME rate > 1 PROVE Counted'
    BY <2>1 DEF Counted
  <2>3. SkipCounter(manager) = IF counter + 1 < rate THEN counter + 1 ELSE 0
    BY <2>2, <1>0 DEF SkipCounter, IsSkipFrame
  <2>4. /\ counter < rate
        /\ offered % rate = IF counter = rate - 1 THEN 0 ELSE counter + 1
    BY <2>2 DEF Counted
  <2>5. (offered + 1) % rate = IF offered % rate = rate - 1 THEN 0 ELSE (offered % rate) + 1
    BY <1>0, <2>2, NextRemainder
  <2>6. CASE counter = rate - 1
    <3>1. SkipCounter(manager) = 0 /\ (offered + 1) % rate = 1
      BY <1>0, <2>2, <2>3, <2>4, <2>5, <2>6
    <3> QED BY <3>1, <2>1, <2>2, <1>0 DEF Counted
  <2>7. CASE counter # rate - 1
    <3>1. SkipCounter(manager) = counter + 1 /\ counter + 1 < rate
      BY <1>0, <2>3, <2>4, <2>7
    <3>2. (offered + 1) % rate = IF counter + 1 = rate - 1 THEN 0 ELSE (counter + 1) + 1
      BY <2>4, <2>5, <2>7
    <3> QED BY <3>1, <3>2, <2>1 DEF Counted
  <2> QED BY <2>6, <2>7
<1>2. CASE SetSkipRate
  <2>1. PICK new \in SkipRates : /\ manager' = SkipRateSet(manager, new)
                                 /\ offered' = IF new = 0 THEN offered ELSE 0
    BY <1>2 DEF SetSkipRate
  <2>2. CASE new = 0
    BY <2>1, <2>2 DEF SkipRateSet, Counted
  <2>3. CASE new # 0
    <3>1. /\ manager'.skip_rate = new /\ manager'.skip_counter = new - 1
          /\ offered' = 0 /\ new \in Nat \ {0}
      BY <2>1, <2>3, InvFacts, SkipRatesAssumption DEF SkipRateSet, ManagerType
    <3>2. 0 = 0 * new + 0 /\ 0 \in 0 .. (new - 1)
      BY <3>1
    <3>3. 0 % new = 0
      BY <3>1, <3>2, RemainderIs
    <3> QED BY <3>1, <3>3 DEF Counted
  <2> QED BY <2>2, <2>3
<1>3. CASE \/ (Set /\ ~manager.initialized) \/ Get \/ Callback \/ Remove
           \/ Clear \/ Exit \/ Reinit \/ UNCHANGED fm_vars
  <2>1. /\ manager'.skip_rate = rate
        /\ manager'.skip_counter = counter
        /\ offered' = offered
    <3>1. CASE Set /\ ~manager.initialized
      BY <3>1, InvFacts DEF Set, SetFrame, ManagerType
    <3>2. CASE Get \/ Callback
      BY <3>2, InvFacts DEF Get, Callback, GetFrame, ManagerType
    <3>3. CASE Remove
      BY <3>3, InvFacts DEF Remove, RemoveFrame, ManagerType
    <3>4. CASE Clear \/ UNCHANGED fm_vars
      BY <3>4, InvFacts DEF Clear, ClearFrames, ManagerType, fm_vars
    <3>5. CASE Exit
      BY <3>5, InvFacts DEF Exit, ExitManager, ManagerType
    <3>6. CASE Reinit
      BY <3>6, InvFacts DEF Reinit, InitManager, ManagerType
    <3> QED BY <1>3, <3>1, <3>2, <3>3, <3>4, <3>5, <3>6
  <2> QED BY <2>1 DEF Counted
<1> QED BY <1>1, <1>2, <1>3 DEF FMNext

\* Whatever the rates set and whenever, after SetSkipRate(r) the first frame
\* passes and then exactly one in r.
THEOREM SkipsPeriodically == FMSpec => []SkipPeriod
<1>1. FMInit => Inv /\ Drained /\ Counted
  BY InitInv, InitDrained, InitCounted
<1>2. (Inv /\ Drained /\ Counted) /\ [FMNext]_fm_vars => (Inv /\ Drained /\ Counted)'
  BY NextInv, DrainedStep, CountedStep
<1>3. Inv /\ Counted => SkipPeriod
  BY InvFacts DEF Counted, SkipPeriod, IsSkipFrame
<1> QED BY <1>1, <1>2, <1>3, PTL DEF FMSpec

---------------------------------------------------------------------------
(***************************************************************************)
(* The recorder.                                                           *)
(***************************************************************************)
Starters == {t \in Threads : pc[t] = "start"}

\* A recording begins inside a call that sets the property, so there are no
\* more recordings than calls.
StartsCounted ==
  IsFiniteSet(Starters) /\ recording + Cardinality(Starters) <= calls

\* The recordings so far are numbered in order, and only the last one may
\* still have a worker.
LastOnly ==
  /\ \A r \in Recordings : worker[r].pc = "none" <=> r > recording
  /\ \A r \in Unfinished : r = recording
  /\ thread_state = "Ready" <=> Unfinished = {}
  /\ thread # 0 => thread \in Unfinished

\* What the state of the recorder says of a recording that is ending: one
\* that ends while its thread is in thread_ ends by its count.
Ending ==
  \A r \in Unfinished :
    /\ worker[r].pc \in {"drain", "finish"} => thread_state = "Stopping"
    /\ thread_state = "Stopping" /\ thread # 0 =>
         worker[r].pc \in {"drain", "finish"} /\ worker[r].max_count # 0

\* Who has the thread of a recording: thread_, one Stop, or nobody any more.
Handled ==
  /\ \A t \in Threads : pc[t] = "join" <=> joining[t] # 0
  /\ \A t \in Threads : joining[t] # 0 =>
       /\ joining[t] <= recording /\ joining[t] # thread /\ handles[joining[t]] = 0
       /\ \A u \in Threads : joining[u] = joining[t] => u = t
  /\ \A r \in Recordings :
       /\ handles[r] \in {0, 1}
       /\ handles[r] = 1 => worker[r].pc = "done" /\ thread # r
       /\ handles[r] = 0 /\ r <= recording /\ thread # r => \E t \in Threads : joining[t] = r

\* A frame is pushed for a recording that has begun.
PushedFor == \A t \in Threads : pc[t] = "push_frame" => seen[t].recording \in 1 .. recording

RecorderInv ==
  TypeOK /\ StartsCounted /\ LastOnly /\ Ending /\ Handled /\ PushedFor

\* Between the functions of the stream: a careful application starts no
\* recording beside Start and Stop, and Stop of the stream takes the thread.
Stopped ==
  /\ \A t \in Threads : pc[t] = "stop_core" => state_function = t
  /\ \A t \in Threads : state_function = t => pc[t] \in {"stop_core", "stop", "join"}
  /\ \A t \in Threads : pc[t] = "start" => stream = "Running" /\ state_function = None
  /\ stream = "Ready" /\ thread # 0 => \E t \in Threads : state_function = t /\ pc[t] = "stop"

---------------------------------------------------------------------------
WorkerType == [pc : WorkerLabels, count : Nat, max_count : Nat]

\* A step of thread t takes it from one place to another.
Moves(t, from, to) ==
  /\ pc[t] = from /\ pc'[t] = to
  /\ pc' \in [Threads -> Labels]
  /\ \A u \in Threads \ {t} : pc'[u] = pc[u]

\* Goto is such a step.
LEMMA GotoMoves ==
  ASSUME TypeOK, NEW t \in Threads, NEW from, NEW to \in Labels, Goto(t, from, to)
  PROVE  Moves(t, from, to)
BY DEF Goto, TypeOK, Moves

\* Starters change only with threads that enter or leave "start".
LEMMA SameStarters ==
  ASSUME TypeOK, StartsCounted, NEW t \in Threads, NEW from, NEW to, Moves(t, from, to),
         from # "start", to # "start", recording' = recording,
         calls' = calls \/ calls' = calls + 1
  PROVE  StartsCounted'
<1>1. Starters' = Starters
  BY DEF Starters, Moves
<1>2. Cardinality(Starters) \in Nat /\ recording \in Nat /\ calls \in Nat
  BY FS_CardinalityType DEF StartsCounted, TypeOK
<1> QED BY <1>1, <1>2 DEF StartsCounted

\* What the recorder and its workers have to do with each other is preserved
\* when neither they nor the threads in a join change.
LEMMA SameRecorder ==
  ASSUME LastOnly, Ending, Handled,
         UNCHANGED <<thread_state, thread, recording, worker, handles, joining>>,
         \A t \in Threads : pc'[t] = "join" <=> pc[t] = "join"
  PROVE  LastOnly' /\ Ending' /\ Handled'
BY DEF LastOnly, Ending, Handled, Unfinished

\* Steps of the application and of the stream that leave the recorder alone.
LEMMA OutsideInv ==
  ASSUME RecorderInv, TypeOK', NEW t \in Threads,
         NEW from, NEW to, Moves(t, from, to),
         from \notin {"start", "join"}, to \notin {"start", "join"},
         UNCHANGED <<thread_state, thread, recording, worker, handles, joining>>,
         calls' = calls \/ calls' = calls + 1,
         \A u \in Threads \ {t} : seen'[u] = seen[u],
         to = "push_frame" => seen'[t].recording \in 1 .. recording
  PROVE  RecorderInv'
<1>1. TypeOK /\ StartsCounted /\ LastOnly /\ Ending /\ Handled /\ PushedFor
  BY DEF RecorderInv
<1>2. StartsCounted'
  BY <1>1, SameStarters
<1>3. LastOnly' /\ Ending' /\ Handled'
  <2>1. \A u \in Threads : pc'[u] = "join" <=> pc[u] = "join"
    BY DEF Moves
  <2> QED BY <1>1, <2>1, SameRecorder
<1>4. PushedFor'
  BY <1>1 DEF PushedFor, Moves
<1> QED BY <1>2, <1>3, <1>4 DEF RecorderInv

\* A thread pushes the frame it has got.
LEMMA PushInv ==
  ASSUME RecorderInv, NEW t \in Threads, CallGetFrame(t) \/ PushCheck(t) \/ PushFrame(t)
  PROVE  RecorderInv'
<1>0. TypeOK /\ LastOnly /\ PushedFor
  BY DEF RecorderInv
<1>1. CASE CallGetFrame(t)
  <2>1. Moves(t, "idle", "push")
    BY <1>0, <1>1, GotoMoves DEF CallGetFrame, Labels
  <2>2. UNCHANGED <<thread_state, thread, recording, worker, handles, joining, seen, calls>>
    BY <1>1 DEF CallGetFrame, recorder_vars, local_vars
  <2>3. TypeOK'
    <3>1. gets' \in 0 .. MaxGets
      BY <1>0, <1>1, FrameRecorderAssumption DEF CallGetFrame, TypeOK
    <3>2. UNCHANGED <<stream, state_function, setting, frames>>
      BY <1>1 DEF CallGetFrame, stream_vars, recorder_vars
    <3> QED BY <1>0, <2>1, <2>2, <3>1, <3>2 DEF TypeOK, Moves
  <2> QED BY <2>1, <2>2, <2>3, OutsideInv
<1>2. CASE PushCheck(t)
  <2>1. UNCHANGED <<thread_state, thread, recording, worker, handles, joining, calls>>
    BY <1>2 DEF PushCheck, recorder_vars, bound_vars
  <2>2. CASE thread_state = "Running"
    <3>1. Moves(t, "push", "push_frame")
      BY <1>0, <1>2, <2>2, GotoMoves DEF PushCheck, Labels
    <3>2. recording \in 1 .. recording
      <4>1. PICK r \in Unfinished : TRUE
        BY <1>0, <2>2 DEF LastOnly
      <4> QED BY <4>1, <1>0 DEF LastOnly, Unfinished, Recordings, TypeOK
    <3>3. /\ seen' = [seen EXCEPT ![t] =
                        [recording |-> recording, buffer_num |-> setting.buffer_num]]
          /\ recording \in Nat /\ setting.buffer_num \in Nat
      BY <1>0, <1>2, <2>2 DEF PushCheck, TypeOK
    <3>4. seen'[t].recording = recording /\ \A u \in Threads \ {t} : seen'[u] = seen[u]
      BY <1>0, <3>3 DEF TypeOK
    <3>5. TypeOK'
      BY <1>0, <1>2, <3>1, <3>3 DEF PushCheck, TypeOK, Moves, recorder_vars, stream_vars, bound_vars
    <3> QED BY <2>1, <3>1, <3>2, <3>4, <3>5, OutsideInv
  <2>3. CASE thread_state # "Running"
    <3>1. Moves(t, "push", "idle") /\ seen' = seen
      BY <1>0, <1>2, <2>3, GotoMoves DEF PushCheck, Labels
    <3>2. TypeOK'
      BY <1>0, <1>2, <3>1 DEF PushCheck, TypeOK, Moves, recorder_vars, stream_vars, bound_vars
    <3> QED BY <2>1, <3>1, <3>2, OutsideInv
  <2> QED BY <2>2, <2>3
<1>3. CASE PushFrame(t)
  <2>1. Moves(t, "push_frame", "idle")
    BY <1>0, <1>3, GotoMoves DEF PushFrame, Labels
  <2>2. UNCHANGED <<thread_state, thread, recording, worker, handles, joining, calls>>
    BY <1>3 DEF PushFrame, recorder_vars, bound_vars
  <2>3. seen[t].recording \in Recordings
    <3>1. seen[t].recording \in 1 .. recording
      BY <1>0, <2>1 DEF PushedFor, Moves
    <3>2. recording \in 0 .. MaxCalls
      BY <1>0 DEF TypeOK
    <3> QED BY <3>1, <3>2, FrameRecorderAssumption DEF Recordings
  <2>4. frames' \in Seq(Recordings)
    <3> HIDE DEF Recordings
    <3> QED BY <1>0, <1>3, <2>3 DEF PushFrame, TypeOK
  <2>5. seen' = [seen EXCEPT ![t] = Unseen]
    BY <1>3 DEF PushFrame
  <2>6. TypeOK'
    <3>1. UNCHANGED <<stream, state_function, setting, gets>>
      BY <1>3 DEF PushFrame, stream_vars, recorder_vars, bound_vars
    <3>2. seen' \in [Threads -> [recording : Nat, buffer_num : Nat]]
      BY <1>0, <2>5 DEF TypeOK, Unseen
    <3> HIDE DEF Recordings
    <3> QED BY <1>0, <2>1, <2>2, <2>4, <3>1, <3>2 DEF TypeOK, Moves
  <2>7. \A u \in Threads \ {t} : seen'[u] = seen[u]
    BY <1>0, <2>5 DEF TypeOK
  <2> QED BY <2>1, <2>2, <2>6, <2>7, OutsideInv
<1> QED BY <1>1, <1>2, <1>3

\* The functions of the stream, and the calls of FrameRecorder::Stop.
LEMMA StreamInv ==
  ASSUME RecorderInv, NEW t \in Threads,
         CallRecorderStop(t) \/ StreamStart(t) \/ StreamStop(t) \/ StopCore(t)
  PROVE  RecorderInv'
<1>0. TypeOK
  BY DEF RecorderInv
<1>1. UNCHANGED <<thread_state, thread, recording, worker, handles, joining, seen, setting, frames>>
  BY DEF CallRecorderStop, StreamStart, StreamStop, StopCore, CallStateFunction,
         recorder_vars, local_vars
<1>2. calls' = calls \/ calls' = calls + 1
  BY DEF CallRecorderStop, StreamStart, StreamStop, StopCore, CallStateFunction, Call, bound_vars
<1>3. calls' \in 0 .. MaxCalls /\ gets' = gets
  BY <1>0, FrameRecorderAssumption
     DEF CallRecorderStop, StreamStart, StreamStop, StopCore, CallStateFunction, Call,
         bound_vars, TypeOK
<1>4. \E from \in Labels \ {"start", "join"}, to \in Labels \ {"start", "join", "push_frame"} :
        Moves(t, from, to)
  <2>1. CASE CallRecorderStop(t)
    BY <1>0, <2>1, GotoMoves DEF CallRecorderStop, Labels
  <2>2. CASE StreamStart(t)
    BY <1>0, <2>2 DEF StreamStart, Moves, Labels, TypeOK
  <2>3. CASE StreamStop(t)
    BY <1>0, <2>3, GotoMoves DEF StreamStop, Labels
  <2>4. CASE StopCore(t)
    BY <1>0, <2>4, GotoMoves DEF StopCore, Return, Labels
  <2> QED BY <2>1, <2>2, <2>3, <2>4
<1>5. PICK from \in Labels \ {"start", "join"}, to \in Labels \ {"start", "join", "push_frame"} :
        Moves(t, from, to)
  BY <1>4
<1>6. stream' \in {"Ready", "Running"} /\ state_function' \in Threads \cup {None}
  BY <1>0 DEF CallRecorderStop, StreamStart, StreamStop, StopCore, CallStateFunction,
              Return, stream_vars, TypeOK
<1>7. TypeOK'
  BY <1>0, <1>1, <1>3, <1>5, <1>6 DEF TypeOK, Moves
<1> QED BY <1>1, <1>2, <1>5, <1>7, OutsideInv

---------------------------------------------------------------------------
\* The property is set to enabled: one starter more, one call more.
LEMMA CallStartInv ==
  ASSUME RecorderInv, NEW t \in Threads, CallStart(t)
  PROVE  RecorderInv'
<1>0. TypeOK /\ StartsCounted /\ LastOnly /\ Ending /\ Handled /\ PushedFor
  BY DEF RecorderInv
<1>1. Moves(t, "idle", "start")
  BY <1>0, GotoMoves DEF CallStart, Labels
<1>2. /\ UNCHANGED <<thread_state, thread, recording, worker, handles, joining>>
      /\ UNCHANGED <<stream, state_function, seen, setting, frames, gets>>
      /\ calls' = calls + 1 /\ calls' \in 0 .. MaxCalls
  BY <1>0, FrameRecorderAssumption
     DEF CallStart, Call, stream_vars, recorder_vars, local_vars, TypeOK
<1>3. TypeOK'
  BY <1>0, <1>1, <1>2 DEF TypeOK, Moves
<1>4. LastOnly' /\ Ending' /\ Handled'
  <2>1. \A u \in Threads : pc'[u] = "join" <=> pc[u] = "join"
    BY <1>1 DEF Moves
  <2> QED BY <1>0, <1>2, <2>1, SameRecorder
<1>5. StartsCounted'
  <2>1. Starters' = Starters \cup {t} /\ t \notin Starters
    BY <1>1 DEF Starters, Moves
  <2>2. /\ IsFiniteSet(Starters') /\ Cardinality(Starters') = Cardinality(Starters) + 1
        /\ Cardinality(Starters) \in Nat
    BY <1>0, <2>1, FS_AddElement, FS_CardinalityType DEF StartsCounted
  <2>3. recording \in Nat /\ calls \in Nat
    BY <1>0 DEF TypeOK
  <2> QED BY <1>0, <1>2, <2>2, <2>3 DEF StartsCounted
<1>6. PushedFor'
  BY <1>0, <1>1, <1>2 DEF PushedFor, Moves
<1> QED BY <1>3, <1>4, <1>5, <1>6 DEF RecorderInv

\* FrameRecorder::Start begins a recording only when the last one is over.
LEMMA RecorderStartInv ==
  ASSUME RecorderInv, NEW t \in Threads, RecorderStart(t)
  PROVE  RecorderInv'
<1>0. TypeOK /\ StartsCounted /\ LastOnly /\ Ending /\ Handled /\ PushedFor
  BY DEF RecorderInv
<1>1. Moves(t, "start", "idle")
  BY <1>0, GotoMoves DEF RecorderStart, Labels
<1>2. UNCHANGED <<stream, state_function, seen, joining, frames, handles, gets, calls>>
  BY DEF RecorderStart, stream_vars, local_vars, bound_vars
<1>3. /\ IsFiniteSet(Starters') /\ Cardinality(Starters') \in Nat
      /\ recording + Cardinality(Starters') + 1 <= calls
  <2>1. Starters' = Starters \ {t} /\ t \in Starters
    BY <1>1 DEF Starters, Moves
  <2>2. /\ IsFiniteSet(Starters') /\ Cardinality(Starters') = Cardinality(Starters) - 1
        /\ Cardinality(Starters) \in Nat
    BY <1>0, <2>1, FS_RemoveElement, FS_CardinalityType DEF StartsCounted
  <2>3. recording \in Nat /\ calls \in Nat /\ Cardinality(Starters') \in Nat
    BY <1>0, <2>2, FS_CardinalityType DEF TypeOK
  <2> QED BY <1>0, <2>2, <2>3 DEF StartsCounted
<1>4. recording \in Nat /\ calls \in 0 .. MaxCalls /\ recording + 1 \in Recordings
  BY <1>0, <1>3, FrameRecorderAssumption DEF TypeOK, Recordings
<1>5. \A u \in Threads : pc'[u] = "join" <=> pc[u] = "join"
  BY <1>1 DEF Moves
<1>6. CASE UNCHANGED <<recorder_vars, worker>>
  <2>1. UNCHANGED <<thread_state, thread, recording, worker, setting>>
    BY <1>6 DEF recorder_vars
  <2>2. TypeOK'
    BY <1>0, <1>1, <1>2, <2>1 DEF TypeOK, Moves
  <2>3. LastOnly' /\ Ending' /\ Handled'
    BY <1>0, <1>2, <1>5, <2>1, SameRecorder
  <2>4. StartsCounted'
    BY <1>2, <1>3, <1>4, <2>1 DEF StartsCounted
  <2>5. PushedFor'
    BY <1>0, <1>1, <1>2, <2>1 DEF PushedFor, Moves
  <2> QED BY <2>2, <2>3, <2>4, <2>5 DEF RecorderInv
<1>7. CASE ~UNCHANGED <<recorder_vars, worker>>
  <2> DEFINE new == recording + 1
  <2>1. /\ thread_state = "Ready" /\ thread_state' = "Running"
        /\ recording' = new /\ thread' = new
        /\ setting' \in [count : Nat, buffer_num : Nat]
    BY <1>7, FrameRecorderAssumption DEF RecorderStart
  <2>2. worker' = [worker EXCEPT ![new] = [worker[new] EXCEPT !.pc = "begin"]]
    <3>1. worker' = [worker EXCEPT ![recording'].pc = "begin"]
      BY <1>7 DEF RecorderStart
    <3> QED BY <3>1, <2>1
  <2>3. /\ worker' \in [Recordings -> WorkerType]
        /\ worker'[new].pc = "begin"
        /\ \A r \in Recordings \ {new} : worker'[r] = worker[r]
    <3>1. worker \in [Recordings -> WorkerType]
      BY <1>0 DEF TypeOK, WorkerType
    <3>2. [worker[new] EXCEPT !.pc = "begin"] \in WorkerType
      BY <1>4, <3>1 DEF WorkerType, WorkerLabels
    <3> HIDE DEF Recordings, new
    <3> QED BY <2>2, <3>1, <3>2, <1>4 DEF new, WorkerType
  <2>4. new \in Nat /\ new \in 0 .. MaxCalls /\ new > recording
    BY <1>4, FrameRecorderAssumption DEF Recordings
  <2>5. TypeOK'
    BY <1>0, <1>1, <1>2, <2>1, <2>3, <2>4 DEF TypeOK, Moves, WorkerType
  <2>6. Unfinished = {} /\ thread = 0
    BY <1>0, <2>1 DEF LastOnly
  <2>7. Unfinished' = {new}
    BY <2>3, <2>6, <1>4 DEF Unfinished
  <2>8. LastOnly'
    <3>1. \A r \in Recordings : r \in Nat
      BY FrameRecorderAssumption DEF Recordings
    <3>2. \A r \in Recordings : worker'[r].pc = "none" <=> r > new
      BY <1>0, <1>4, <2>3, <2>4, <3>1 DEF LastOnly
    <3> QED BY <3>2, <2>1, <2>7 DEF LastOnly
  <2>9. Ending'
    BY <2>1, <2>3, <2>7 DEF Ending
  <2>10. Handled'
    <3>1. worker[new].pc = "none" /\ handles[new] = 0
      BY <1>0, <1>4, <2>4 DEF LastOnly, Handled
    <3>2. \A u \in Threads : joining[u] \in 0 .. MaxCalls /\ joining[u] \in Nat
      BY <1>0, FrameRecorderAssumption DEF TypeOK
    <3>3. \A u \in Threads : joining[u] # 0 =>
            /\ joining[u] <= new /\ joining[u] # new /\ handles[joining[u]] = 0
            /\ \A v \in Threads : joining[v] = joining[u] => v = u
      BY <1>0, <1>4, <3>2, <2>4 DEF Handled
    <3>4. ASSUME NEW r \in Recordings
          PROVE  /\ handles[r] \in {0, 1}
                 /\ handles[r] = 1 => worker'[r].pc = "done" /\ new # r
                 /\ handles[r] = 0 /\ r <= new /\ new # r => \E u \in Threads : joining[u] = r
      <4>1. r \in Nat
        BY FrameRecorderAssumption DEF Recordings
      <4>2. r <= new /\ new # r => r <= recording /\ thread # r
        BY <4>1, <1>4, <2>6 DEF Recordings
      <4> QED BY <1>0, <2>3, <3>1, <4>2 DEF Handled
    <3> QED BY <1>0, <1>2, <1>5, <2>1, <3>3, <3>4 DEF Handled
  <2>11. StartsCounted'
    BY <1>2, <1>3, <1>4, <2>1 DEF StartsCounted
  <2>12. PushedFor'
    <3> SUFFICES ASSUME NEW u \in Threads, pc'[u] = "push_frame"
                 PROVE  seen[u].recording \in 1 .. new
      BY <1>2, <2>1 DEF PushedFor
    <3>1. seen[u].recording \in 1 .. recording
      BY <1>0, <1>1 DEF PushedFor, Moves
    <3> QED BY <3>1, <1>4
  <2> QED BY <2>5, <2>8, <2>9, <2>10, <2>11, <2>12 DEF RecorderInv
<1> QED BY <1>6, <1>7

---------------------------------------------------------------------------
\* A thread of the application outside of the starts: its step leaves the
\* count of the starters and the frames being pushed alone.
LEMMA ThreadRest ==
  ASSUME RecorderInv, NEW t \in Threads, NEW from, NEW to, Moves(t, from, to),
         from # "start", to # "start", to # "push_frame",
         UNCHANGED <<recording, calls, seen>>
  PROVE  StartsCounted' /\ PushedFor'
<1>1. TypeOK /\ StartsCounted /\ PushedFor
  BY DEF RecorderInv
<1>2. StartsCounted'
  BY <1>1, SameStarters
<1>3. PushedFor'
  BY <1>1 DEF PushedFor, Moves
<1> QED BY <1>2, <1>3

\* FrameRecorder::Stop takes the thread over, or finds none.
LEMMA RecorderStopInv ==
  ASSUME RecorderInv, NEW t \in Threads, RecorderStop(t)
  PROVE  RecorderInv'
<1>0. TypeOK /\ StartsCounted /\ LastOnly /\ Ending /\ Handled /\ PushedFor
  BY DEF RecorderInv
<1>1. UNCHANGED <<seen, setting, recording, frames, worker, handles, gets, calls>>
  BY DEF RecorderStop, bound_vars
<1>2. CASE thread = 0
  <2>1. /\ Moves(t, "stop", "idle")
        /\ UNCHANGED <<joining, thread, thread_state, stream>>
        /\ state_function' \in Threads \cup {None}
    BY <1>0, <1>2, GotoMoves DEF RecorderStop, Return, Labels, TypeOK
  <2>2. TypeOK'
    BY <1>0, <1>1, <2>1 DEF TypeOK, Moves
  <2> QED BY <1>1, <2>1, <2>2, OutsideInv
<1>3. CASE thread # 0
  <2>1. /\ Moves(t, "stop", "join")
        /\ UNCHANGED <<stream, state_function>>
        /\ joining' = [joining EXCEPT ![t] = thread]
        /\ thread' = 0
        /\ thread_state' = IF thread_state = "Running" THEN "Stopping" ELSE thread_state
    BY <1>0, <1>3, GotoMoves DEF RecorderStop, Labels, stream_vars
  <2>2. /\ joining'[t] = thread /\ \A u \in Threads \ {t} : joining'[u] = joining[u]
        /\ joining' \in [Threads -> 0 .. MaxCalls]
    BY <1>0, <2>1 DEF TypeOK
  <2>3. TypeOK'
    BY <1>0, <1>1, <2>1, <2>2, FrameRecorderAssumption, SMTT(30) DEF TypeOK, Moves
  <2>4. /\ Unfinished' = Unfinished /\ thread \in Unfinished /\ thread = recording
        /\ thread \in Recordings /\ worker[thread].pc # "done"
    BY <1>0, <1>1, <1>3 DEF LastOnly, Unfinished
  <2>5. LastOnly'
    BY <1>0, <1>1, <2>1, <2>4 DEF LastOnly
  <2>6. Ending'
    BY <1>0, <1>1, <2>1, <2>4 DEF Ending
  <2>7. Handled'
    <3>1. joining[t] = 0 /\ pc'[t] = "join" /\ pc[t] # "join"
      BY <1>0, <2>1 DEF Handled, Moves
    <3>2. handles[thread] = 0
      BY <1>0, <2>4 DEF Handled
    <3>3. \A u \in Threads : joining[u] # 0 => joining[u] # thread
      BY <1>0 DEF Handled
    <3>4. \A u \in Threads : pc'[u] = "join" <=> joining'[u] # 0
      BY <1>0, <1>3, <2>1, <2>2, <3>1 DEF Handled, Moves
    <3>5. \A u \in Threads : joining'[u] # 0 =>
            /\ joining'[u] <= recording /\ joining'[u] # 0 /\ handles[joining'[u]] = 0
            /\ \A v \in Threads : joining'[v] = joining'[u] => v = u
      <4>1. recording \in Nat
        BY <1>0, FrameRecorderAssumption DEF TypeOK
      <4> QED BY <1>0, <2>2, <2>4, <3>2, <3>3, <4>1 DEF Handled
    <3>6. \A r \in Recordings :
            /\ handles[r] \in {0, 1}
            /\ handles[r] = 1 => worker[r].pc = "done" /\ 0 # r
            /\ handles[r] = 0 /\ r <= recording /\ 0 # r => \E u \in Threads : joining'[u] = r
      <4> SUFFICES ASSUME NEW r \in Recordings
                   PROVE  /\ handles[r] \in {0, 1}
                          /\ handles[r] = 1 => worker[r].pc = "done" /\ 0 # r
                          /\ handles[r] = 0 /\ r <= recording /\ 0 # r =>
                               \E u \in Threads : joining'[u] = r
        OBVIOUS
      <4>1. r # 0
        BY FrameRecorderAssumption DEF Recordings
      <4>2. CASE r = thread
        BY <4>1, <4>2, <1>0, <2>2 DEF Handled
      <4>3. CASE r # thread
        <5>1. handles[r] = 0 /\ r <= recording => \E u \in Threads : joining[u] = r
          BY <4>3, <1>0 DEF Handled
        <5>2. handles[r] = 0 /\ r <= recording => \E u \in Threads : joining'[u] = r
          BY <5>1, <4>1, <3>1, <2>2
        <5> QED BY <5>2, <4>1, <1>0 DEF Handled
      <4> QED BY <4>2, <4>3
    <3> QED BY <1>1, <2>1, <3>4, <3>5, <3>6 DEF Handled
  <2>8. StartsCounted' /\ PushedFor'
    BY <1>1, <2>1, ThreadRest
  <2> QED BY <2>3, <2>5, <2>6, <2>7, <2>8 DEF RecorderInv
<1> QED BY <1>2, <1>3

\* The Stop that has taken the thread joins it once the worker is done.
LEMMA RecorderJoinInv ==
  ASSUME RecorderInv, NEW t \in Threads, RecorderJoin(t)
  PROVE  RecorderInv'
<1>0. TypeOK /\ StartsCounted /\ LastOnly /\ Ending /\ Handled /\ PushedFor
  BY DEF RecorderInv
<1> DEFINE j == joining[t]
<1>1. /\ Moves(t, "join", "idle")
      /\ UNCHANGED <<thread_state, thread, setting, recording, stream>>
      /\ UNCHANGED <<seen, frames, worker, gets, calls>>
      /\ state_function' \in Threads \cup {None}
      /\ worker[j].pc = "done"
      /\ handles' = [handles EXCEPT ![j] = handles[j] + 1]
      /\ joining' = [joining EXCEPT ![t] = 0]
  BY <1>0, GotoMoves DEF RecorderJoin, Return, Labels, TypeOK, recorder_vars, bound_vars
<1>2. /\ joining'[t] = 0 /\ \A u \in Threads \ {t} : joining'[u] = joining[u]
      /\ joining' \in [Threads -> 0 .. MaxCalls]
  BY <1>0, <1>1, FrameRecorderAssumption DEF TypeOK
<1>3. /\ j # 0 /\ j \in Recordings /\ j # thread /\ handles[j] = 0 /\ j <= recording
      /\ \A u \in Threads : joining[u] = j => u = t
  <2>1. j # 0 /\ j \in 0 .. MaxCalls
    BY <1>0, <1>1 DEF Handled, Moves, TypeOK
  <2>2. j \in Recordings
    BY <2>1, FrameRecorderAssumption DEF Recordings
  <2> QED BY <1>0, <2>1, <2>2 DEF Handled
<1>4. /\ handles'[j] = 1 /\ \A r \in Recordings \ {j} : handles'[r] = handles[r]
      /\ handles' \in [Recordings -> Nat]
  BY <1>0, <1>1, <1>3 DEF TypeOK
<1>5. TypeOK'
  BY <1>0, <1>1, <1>2, <1>4 DEF TypeOK, Moves
<1>6. LastOnly' /\ Ending'
  BY <1>0, <1>1 DEF LastOnly, Ending, Unfinished
<1>7. Handled'
  <2>1. \A u \in Threads : pc'[u] = "join" <=> joining'[u] # 0
    BY <1>0, <1>1, <1>2 DEF Handled, Moves
  <2>2. ASSUME NEW u \in Threads, joining'[u] # 0
        PROVE  /\ joining'[u] <= recording /\ joining'[u] # thread /\ handles'[joining'[u]] = 0
               /\ \A v \in Threads : joining'[v] = joining'[u] => v = u
    <3>1. u # t /\ joining'[u] = joining[u] /\ joining[u] # j
      BY <1>2, <1>3, <2>2
    <3>2. joining[u] \in Recordings
      BY <1>0, <2>2, <3>1, FrameRecorderAssumption DEF TypeOK, Recordings
    <3>3. /\ joining[u] <= recording /\ joining[u] # thread /\ handles[joining[u]] = 0
          /\ \A v \in Threads : joining[v] = joining[u] => v = u
      BY <1>0, <2>2, <3>1 DEF Handled
    <3> QED BY <1>2, <1>4, <2>2, <3>1, <3>2, <3>3
  <2>3. ASSUME NEW r \in Recordings
        PROVE  /\ handles'[r] \in {0, 1}
               /\ handles'[r] = 1 => worker[r].pc = "done" /\ thread # r
               /\ handles'[r] = 0 /\ r <= recording /\ thread # r =>
                    \E u \in Threads : joining'[u] = r
    <3>1. CASE r = j
      BY <3>1, <1>1, <1>3, <1>4
    <3>2. CASE r # j
      BY <3>2, <1>0, <1>2, <1>4 DEF Handled
    <3> QED BY <3>1, <3>2
  <2> QED BY <1>1, <2>1, <2>2, <2>3 DEF Handled
<1>8. StartsCounted' /\ PushedFor'
  BY <1>1, ThreadRest
<1> QED BY <1>5, <1>6, <1>7, <1>8 DEF RecorderInv

---------------------------------------------------------------------------
\* Only the worker of the last recording can take a step.
LEMMA WorkerIsLast ==
  ASSUME RecorderInv, NEW r \in Recordings, NEW label, At(r, label), label \notin {"none", "done"}
  PROVE  /\ r \in Unfinished /\ r = recording /\ Unfinished = {r}
         /\ thread_state # "Ready" /\ (thread # 0 => thread = r)
         /\ worker \in [Recordings -> WorkerType] /\ handles[r] = 0
<1>1. r \in Unfinished
  BY DEF At, Unfinished
<1>2. Unfinished = {r} /\ r = recording /\ (thread # 0 => thread = r)
  BY <1>1 DEF RecorderInv, LastOnly
<1>3. handles[r] = 0
  BY <1>1 DEF RecorderInv, Handled, Unfinished
<1> QED BY <1>1, <1>2, <1>3 DEF RecorderInv, LastOnly, TypeOK, WorkerType

\* A step within MonitorFrames before its end.
LEMMA WorkerInv ==
  ASSUME RecorderInv, NEW r \in Recordings, NEW label, At(r, label),
         label \notin {"none", "done"},
         NEW w \in WorkerType, worker' = [worker EXCEPT ![r] = w], w.pc \notin {"none", "done"},
         frames' \in Seq(Recordings),
         thread_state' \in {"Running", "Stopping"},
         w.pc \in {"drain", "finish"} => thread_state' = "Stopping",
         thread_state' = "Stopping" /\ thread # 0 =>
           w.pc \in {"drain", "finish"} /\ w.max_count # 0,
         UNCHANGED <<stream_vars, pc, local_vars, thread, setting, recording, handles, bound_vars>>
  PROVE  RecorderInv'
<1>0. TypeOK /\ StartsCounted /\ LastOnly /\ Ending /\ Handled /\ PushedFor
  BY DEF RecorderInv
<1>1. UNCHANGED <<stream, state_function, pc, seen, joining, thread, setting, recording,
                  handles, gets, calls>>
  BY DEF stream_vars, local_vars, bound_vars
<1>2. /\ r \in Unfinished /\ r = recording /\ Unfinished = {r}
      /\ thread_state # "Ready" /\ (thread # 0 => thread = r)
      /\ worker \in [Recordings -> WorkerType] /\ handles[r] = 0
  BY WorkerIsLast
<1>3. /\ worker'[r] = w /\ \A q \in Recordings \ {r} : worker'[q] = worker[q]
      /\ worker' \in [Recordings -> WorkerType]
  BY <1>2
<1>4. TypeOK'
  <2>1. thread_state' \in {"Ready", "Running", "Stopping"}
    OBVIOUS
  <2> HIDE DEF Recordings
  <2> QED BY <1>0, <1>1, <1>3, <2>1 DEF TypeOK, WorkerType
<1>5. Unfinished' = {r}
  BY <1>2, <1>3 DEF Unfinished
<1>6. LastOnly'
  <2>1. \A q \in Recordings : worker'[q].pc = "none" <=> worker[q].pc = "none"
    BY <1>2, <1>3 DEF Unfinished
  <2> QED BY <1>0, <1>1, <1>2, <1>5, <2>1 DEF LastOnly
<1>7. Ending'
  BY <1>1, <1>3, <1>5 DEF Ending
<1>8. Handled'
  <2>1. \A q \in Recordings : handles[q] = 1 => worker'[q].pc = "done" /\ thread # q
    BY <1>0, <1>2, <1>3 DEF Handled
  <2> QED BY <1>0, <1>1, <2>1 DEF Handled
<1>9. StartsCounted' /\ PushedFor'
  BY <1>0, <1>1 DEF StartsCounted, Starters, PushedFor
<1> QED BY <1>4, <1>6, <1>7, <1>8, <1>9 DEF RecorderInv

\* The steps of the worker up to the end of its loops.
LEMMA LoopInv ==
  ASSUME RecorderInv, NEW r \in Recordings, Begin(r) \/ Write(r) \/ Update(r) \/ Drain(r)
  PROVE  RecorderInv'
<1>0. TypeOK /\ LastOnly /\ Ending
  BY DEF RecorderInv
<1>f. frames \in Seq(Recordings) /\ (frames # << >> => Tail(frames) \in Seq(Recordings))
  <2> HIDE DEF Recordings
  <2> QED BY <1>0 DEF TypeOK
<1>1. CASE Begin(r)
  <2>1. /\ r \in Unfinished /\ thread_state # "Ready"
    BY <1>1, WorkerIsLast DEF Begin
  <2> DEFINE w == [pc |-> "pop", count |-> 0, max_count |-> setting.count]
  <2>2. w \in WorkerType
    BY <1>0 DEF TypeOK, WorkerType, WorkerLabels
  <2>3. worker' = [worker EXCEPT ![r] = w] /\ w.pc = "pop" /\ At(r, "begin")
    BY <1>1 DEF Begin
  <2>4. UNCHANGED <<stream_vars, pc, local_vars, thread, setting, recording, handles, bound_vars>>
        /\ frames' = frames /\ thread_state' = thread_state
    BY <1>1 DEF Begin, recorder_vars
  <2>5. thread_state' \in {"Running", "Stopping"} /\ ~(thread_state' = "Stopping" /\ thread # 0)
    BY <1>0, <2>1, <2>3, <2>4 DEF TypeOK, Ending, At
  <2> HIDE DEF w
  <2> QED BY <1>f, <2>2, <2>3, <2>4, <2>5, WorkerInv
<1>2. CASE Write(r)
  <2>1. /\ r \in Unfinished /\ thread_state # "Ready" /\ worker \in [Recordings -> WorkerType]
        /\ At(r, "pop")
    BY <1>2, WorkerIsLast DEF Write
  <2>2. PICK w \in WorkerType : worker' = [worker EXCEPT ![r] = w] /\ w.pc = "update"
    <3>1. worker[r] \in WorkerType
      BY <2>1
    <3>2. CASE frames = << >>
      <4> DEFINE w == [worker[r] EXCEPT !.pc = "update"]
      <4>1. worker' = [worker EXCEPT ![r] = w]
        BY <1>2, <3>2 DEF Write
      <4>2. w \in WorkerType /\ w.pc = "update"
        BY <3>1 DEF WorkerType, WorkerLabels
      <4> QED BY <4>1, <4>2
    <3>3. CASE frames # << >>
      <4> DEFINE w == [worker[r] EXCEPT !.pc = "update", !.count = worker[r].count + 1]
      <4>1. worker' = [worker EXCEPT ![r] = w]
        BY <1>2, <2>1, <3>3 DEF Write
      <4>2. worker[r].count + 1 \in Nat /\ worker[r].max_count \in Nat
        BY <3>1 DEF WorkerType
      <4> DEFINE v == [worker[r] EXCEPT !.pc = "update"]
      <4>3. v \in WorkerType /\ v.pc = "update" /\ v.count = worker[r].count
        BY <3>1 DEF WorkerType, WorkerLabels
      <4>5. w = [v EXCEPT !.count = worker[r].count + 1]
        OBVIOUS
      <4> HIDE DEF w, v
      <4>4. w \in WorkerType /\ w.pc = "update"
        BY <4>2, <4>3, <4>5 DEF WorkerType
      <4> QED BY <4>1, <4>4 DEF w
    <3> QED BY <3>2, <3>3
  <2>4. UNCHANGED <<stream_vars, pc, local_vars, thread, setting, recording, handles, bound_vars>>
        /\ thread_state' = thread_state
    BY <1>2 DEF Write, recorder_vars
  <2>5. frames' \in Seq(Recordings)
    BY <1>2, <1>f DEF Write
  <2>6. thread_state' \in {"Running", "Stopping"} /\ ~(thread_state' = "Stopping" /\ thread # 0)
    BY <1>0, <2>1, <2>4 DEF TypeOK, Ending, At
  <2> QED BY <2>1, <2>2, <2>4, <2>5, <2>6, WorkerInv
<1>3. CASE Update(r)
  <2>1. /\ r \in Unfinished /\ thread_state # "Ready" /\ worker \in [Recordings -> WorkerType]
        /\ At(r, "update")
    BY <1>3, WorkerIsLast DEF Update
  <2> DEFINE label == IF thread_state' = "Running" THEN "pop" ELSE "drain"
             w == [worker[r] EXCEPT !.pc = label]
  <2>2. worker' = [worker EXCEPT ![r] = w]
    BY <1>3 DEF Update
  <2>3. w \in WorkerType /\ w.pc = label /\ w.max_count = worker[r].max_count
    BY <2>1 DEF WorkerType, WorkerLabels
  <2>4. UNCHANGED <<stream_vars, pc, local_vars, thread, setting, recording, handles, bound_vars>>
        /\ frames' = frames
    BY <1>3 DEF Update
  <2>5. thread_state' = IF Complete(r) THEN "Stopping" ELSE thread_state
    BY <1>3 DEF Update
  <2>6. thread_state' \in {"Running", "Stopping"}
    BY <1>0, <2>1, <2>5 DEF TypeOK
  <2>7. thread_state' = "Stopping" /\ thread # 0 => worker[r].max_count # 0
    BY <1>0, <2>1, <2>5 DEF Complete, Ending, At
  <2>8. label \notin {"none", "done"} /\ (label \in {"drain", "finish"} <=> thread_state' = "Stopping")
    BY <2>6
  <2> HIDE DEF w, label
  <2> QED BY <1>f, <2>1, <2>2, <2>3, <2>4, <2>6, <2>7, <2>8, WorkerInv
<1>4. CASE Drain(r)
  <2>1. /\ r \in Unfinished /\ worker \in [Recordings -> WorkerType] /\ At(r, "drain")
    BY <1>4, WorkerIsLast DEF Drain
  <2>2. PICK w \in WorkerType :
          /\ worker' = [worker EXCEPT ![r] = w]
          /\ w.pc \in {"drain", "finish"} /\ w.max_count = worker[r].max_count
    <3>1. worker[r] \in WorkerType /\ worker[r].pc = "drain"
      BY <2>1 DEF At
    <3>2. CASE frames = << >>
      <4> DEFINE w == [worker[r] EXCEPT !.pc = "finish"]
      <4>1. worker' = [worker EXCEPT ![r] = w]
        BY <1>4, <3>2 DEF Drain
      <4>2. w \in WorkerType /\ w.pc = "finish" /\ w.max_count = worker[r].max_count
        BY <3>1 DEF WorkerType, WorkerLabels
      <4> QED BY <4>1, <4>2
    <3>3. CASE frames # << >>
      <4> DEFINE w == [worker[r] EXCEPT !.count =
                         IF @ < worker[r].max_count THEN @ + 1 ELSE @]
      <4>1. worker' = [worker EXCEPT ![r] = w]
        BY <1>4, <3>3 DEF Drain
      <4>2. w \in WorkerType /\ w.pc = "drain" /\ w.max_count = worker[r].max_count
        BY <3>1 DEF WorkerType, WorkerLabels
      <4> QED BY <4>1, <4>2
    <3> QED BY <3>2, <3>3
  <2>3. UNCHANGED <<stream_vars, pc, local_vars, thread, setting, recording, handles, bound_vars>>
        /\ thread_state' = thread_state
    BY <1>4 DEF Drain, recorder_vars
  <2>4. frames' \in Seq(Recordings)
    BY <1>4, <1>f DEF Drain
  <2>5. thread_state' = "Stopping" /\ (thread # 0 => w.max_count # 0)
    BY <1>0, <2>1, <2>2, <2>3 DEF Ending, At
  <2> QED BY <2>1, <2>2, <2>3, <2>4, <2>5, WorkerInv
<1> QED BY <1>1, <1>2, <1>3, <1>4

\* The end of the worker: nobody but a Stop may have its thread still.
LEMMA FinishInv ==
  ASSUME RecorderInv, NEW r \in Recordings, Finish(r)
  PROVE  RecorderInv'
<1>0. TypeOK /\ StartsCounted /\ LastOnly /\ Ending /\ Handled /\ PushedFor
  BY DEF RecorderInv
<1>1. UNCHANGED <<stream, state_function, pc, seen, joining, recording, frames, gets, calls>>
  BY DEF Finish, stream_vars, local_vars, bound_vars
<1>2. /\ r \in Unfinished /\ r = recording /\ Unfinished = {r} /\ At(r, "finish")
      /\ (thread # 0 => thread = r)
      /\ worker \in [Recordings -> WorkerType] /\ handles[r] = 0
  BY WorkerIsLast DEF Finish
<1>3. thread # 0 => worker[r].max_count # 0
  BY <1>0, <1>2 DEF Ending, At
<1>4. /\ thread' = 0 /\ thread_state' = "Ready" /\ setting' = NoSetting
      /\ handles' = IF thread # 0 THEN [handles EXCEPT ![r] = 1] ELSE handles
      /\ worker' = [worker EXCEPT ![r] = [worker[r] EXCEPT !.pc = "done"]]
  BY <1>2, <1>3 DEF Finish
<1>5. /\ worker'[r].pc = "done" /\ \A q \in Recordings \ {r} : worker'[q] = worker[q]
      /\ worker' \in [Recordings -> WorkerType]
  <2>1. [worker[r] EXCEPT !.pc = "done"] \in WorkerType /\ [worker[r] EXCEPT !.pc = "done"].pc = "done"
    BY <1>2 DEF WorkerType, WorkerLabels
  <2> QED BY <1>2, <1>4, <2>1
<1>6. /\ handles'[r] = IF thread # 0 THEN 1 ELSE 0
      /\ \A q \in Recordings \ {r} : handles'[q] = handles[q]
      /\ handles' \in [Recordings -> Nat]
  BY <1>0, <1>2, <1>4 DEF TypeOK
<1>7. TypeOK'
  <2>1. setting' \in [count : Nat, buffer_num : Nat]
    BY <1>4 DEF NoSetting
  <2>2. 0 \in 0 .. MaxCalls
    BY FrameRecorderAssumption
  <2> HIDE DEF Recordings
  <2> QED BY <1>0, <1>1, <1>4, <1>5, <1>6, <2>1, <2>2 DEF TypeOK, WorkerType
<1>8. Unfinished' = {}
  BY <1>2, <1>5 DEF Unfinished
<1>9. LastOnly'
  <2>1. \A q \in Recordings : worker'[q].pc = "none" <=> worker[q].pc = "none"
    BY <1>2, <1>5 DEF Unfinished
  <2> QED BY <1>0, <1>1, <1>4, <1>8, <2>1 DEF LastOnly
<1>10. Ending'
  BY <1>8 DEF Ending
<1>11. Handled'
  <2>0. \A q \in Recordings : q # 0
    BY FrameRecorderAssumption DEF Recordings
  <2>1. ASSUME NEW u \in Threads, joining[u] # 0
        PROVE  /\ joining[u] <= recording /\ joining[u] # 0 /\ handles'[joining[u]] = 0
               /\ \A v \in Threads : joining[v] = joining[u] => v = u
    <3>1. joining[u] \in Recordings
      BY <1>0, <2>1, FrameRecorderAssumption DEF TypeOK, Recordings
    <3>2. /\ joining[u] <= recording /\ joining[u] # thread /\ handles[joining[u]] = 0
          /\ \A v \in Threads : joining[v] = joining[u] => v = u
      BY <1>0, <2>1 DEF Handled
    <3>3. handles'[joining[u]] = 0
      BY <1>2, <1>6, <3>1, <3>2
    <3> QED BY <2>1, <3>2, <3>3
  <2>2. ASSUME NEW q \in Recordings
        PROVE  /\ handles'[q] \in {0, 1}
               /\ handles'[q] = 1 => worker'[q].pc = "done" /\ 0 # q
               /\ handles'[q] = 0 /\ q <= recording /\ 0 # q => \E u \in Threads : joining[u] = q
    <3>1. CASE q = r
      BY <3>1, <2>0, <1>0, <1>2, <1>5, <1>6 DEF Handled
    <3>2. CASE q # r
      BY <3>2, <2>0, <1>0, <1>2, <1>5, <1>6 DEF Handled
    <3> QED BY <3>1, <3>2
  <2> QED BY <1>0, <1>1, <1>4, <2>1, <2>2 DEF Handled
<1>12. StartsCounted' /\ PushedFor'
  BY <1>0, <1>1 DEF StartsCounted, Starters, PushedFor
<1> QED BY <1>7, <1>9, <1>10, <1>11, <1>12 DEF RecorderInv

---------------------------------------------------------------------------
\* The recorder starts without a recording.
LEMMA InitRecorderInv == Init => RecorderInv
<1> SUFFICES ASSUME Init PROVE RecorderInv
  OBVIOUS
<1>1. TypeOK
  <2>1. 0 \in 0 .. MaxCalls /\ 0 \in 0 .. MaxGets
    BY FrameRecorderAssumption
  <2> HIDE DEF Recordings
  <2> QED BY <2>1 DEF Init, TypeOK, NoSetting, Unseen, Labels, WorkerLabels
<1>2. StartsCounted
  <2>1. Starters = {}
    BY DEF Init, Starters
  <2> QED BY <2>1, FS_EmptySet DEF Init, StartsCounted
<1>3. \A r \in Recordings : worker[r].pc = "none" /\ handles[r] = 0 /\ r > 0
  BY FrameRecorderAssumption DEF Init, Recordings
<1>4. Unfinished = {}
  BY <1>3 DEF Unfinished
<1>5. LastOnly /\ Ending
  BY <1>3, <1>4 DEF Init, LastOnly, Ending
<1>6. Handled
  <2>1. \A r \in Recordings : ~(r <= recording)
    BY FrameRecorderAssumption DEF Init, Recordings
  <2>2. recording = 0 /\ thread = 0 /\ \A t \in Threads : joining[t] = 0 /\ pc[t] = "idle"
    BY DEF Init
  <2> QED BY <1>3, <2>1, <2>2 DEF Handled
<1>7. PushedFor
  BY DEF Init, PushedFor
<1> QED BY <1>1, <1>2, <1>5, <1>6, <1>7 DEF RecorderInv

\* Every step preserves the invariant.
LEMMA NextRecorderInv == RecorderInv /\ [Next]_vars => RecorderInv'
<1> SUFFICES ASSUME RecorderInv, [Next]_vars PROVE RecorderInv'
  OBVIOUS
<1>1. ASSUME NEW t \in Threads, CallStep(t) \/ ThreadStep(t)
      PROVE  RecorderInv'
  BY <1>1, PushInv, StreamInv, CallStartInv, RecorderStartInv, RecorderStopInv, RecorderJoinInv
     DEF CallStep, ThreadStep
<1>2. ASSUME NEW r \in Recordings, Worker(r)
      PROVE  RecorderInv'
  BY <1>2, LoopInv, FinishInv DEF Worker
<1>3. CASE UNCHANGED vars
  <2>1. UNCHANGED <<stream, state_function, pc, seen, joining, thread_state, thread, setting,
                    frames, recording, worker, handles, gets, calls>>
    BY <1>3 DEF vars, stream_vars, local_vars, recorder_vars, bound_vars
  <2> QED BY <2>1 DEF RecorderInv, TypeOK, StartsCounted, Starters, LastOnly, Unfinished,
                      Ending, Handled, PushedFor
<1> QED BY <1>1, <1>2, <1>3 DEF Next, Finished

---------------------------------------------------------------------------
\* The accounts of the workers follow from who has which thread.
LEMMA InvWorkersAccounted == RecorderInv => WorkersAccounted
<1> SUFFICES ASSUME RecorderInv PROVE WorkersAccounted
  OBVIOUS
<1>0. TypeOK /\ LastOnly /\ Handled
  BY DEF RecorderInv
<1>1. ASSUME NEW r \in 1 .. recording
      PROVE  handles[r] + Cardinality(Joining(r)) + (IF thread = r THEN 1 ELSE 0) = 1
  <2>1. r \in Recordings /\ r <= recording /\ r # 0
    BY <1>0, FrameRecorderAssumption DEF TypeOK, Recordings
  <2>2. \A t \in Joining(r) : t \in Threads /\ joining[t] = r /\ joining[t] # 0
    BY <2>1 DEF Joining
  <2>3. CASE handles[r] = 1
    <3>1. Joining(r) = {} /\ thread # r
      BY <2>1, <2>2, <2>3, <1>0 DEF Handled
    <3>2. Cardinality(Joining(r)) = 0
      BY <3>1, FS_EmptySet
    <3> QED BY <2>3, <3>1, <3>2
  <2>4. CASE handles[r] = 0 /\ thread = r
    <3>1. Joining(r) = {}
      BY <2>2, <2>4, <1>0 DEF Handled
    <3>2. Cardinality(Joining(r)) = 0
      BY <3>1, FS_EmptySet
    <3> QED BY <2>4, <3>2
  <2>5. CASE handles[r] = 0 /\ thread # r
    <3>1. PICK t \in Threads : joining[t] = r
      BY <2>1, <2>5, <1>0 DEF Handled
    <3>2. \A u \in Threads : joining[u] = r => u = t
      BY <2>1, <3>1, <1>0 DEF Handled
    <3>3. Joining(r) = {t}
      BY <3>1, <3>2 DEF Joining
    <3>4. Cardinality(Joining(r)) = 1
      BY <3>3, FS_Singleton
    <3> QED BY <2>5, <3>4
  <2> QED BY <2>1, <2>3, <2>4, <2>5, <1>0 DEF Handled
<1>2. Cardinality(Unfinished) <= 1
  <2>1. CASE Unfinished = {}
    BY <2>1, FS_EmptySet
  <2>2. CASE Unfinished # {}
    <3>1. Unfinished = {recording}
      BY <2>2, <1>0 DEF LastOnly
    <3>2. Cardinality({recording}) = 1
      BY FS_Singleton
    <3> QED BY <3>1, <3>2
  <2> QED BY <2>1, <2>2
<1> QED BY <1>0, <1>1, <1>2 DEF WorkersAccounted, LastOnly

\* Whoever ends a recording - its count, a Stop of the application, the Stop
\* of the stream - its thread is joined or detached exactly once, and Start
\* never finds an old worker in the queue: for any threads, limits and calls.
THEOREM SpecWorkersAccounted == Spec => []WorkersAccounted
BY InitRecorderInv, NextRecorderInv, InvWorkersAccounted, PTL DEF Spec

---------------------------------------------------------------------------
\* Stop of a stream and the calls around it, of a careful application.
LEMMA StoppedStep ==
  ASSUME Careful, RecorderInv, Stopped, [Next]_vars
  PROVE  Stopped'
<1>0. TypeOK
  BY DEF RecorderInv
<1>n. \A t \in Threads : t # None
  BY NoneAssumption
<1>1. ASSUME NEW t \in Threads, NEW from, NEW to, Moves(t, from, to),
             from \notin {"stop_core", "stop", "join"}, to \notin {"stop_core", "start"},
             UNCHANGED <<stream, state_function>>, thread' = thread \/ stream = "Running"
      PROVE  Stopped'
  BY <1>1 DEF Stopped, Moves
<1>2. ASSUME NEW t \in Threads, CallGetFrame(t) \/ PushCheck(t) \/ PushFrame(t)
      PROVE  Stopped'
  <2>1. UNCHANGED <<stream, state_function, thread>>
    BY <1>2 DEF CallGetFrame, PushCheck, PushFrame, stream_vars, recorder_vars
  <2>2. \E from, to \in {"idle", "push", "push_frame"} : Goto(t, from, to)
    BY <1>2 DEF CallGetFrame, PushCheck, PushFrame
  <2>3. \E from, to \in {"idle", "push", "push_frame"} : Moves(t, from, to)
    BY <1>0, <2>2, GotoMoves DEF Labels
  <2> QED BY <2>1, <2>3, <1>1
<1>3. ASSUME NEW t \in Threads, CallStart(t)
      PROVE  Stopped'
  <2>1. /\ UNCHANGED <<stream, state_function, thread>>
        /\ stream = "Running" /\ state_function = None
    BY <1>3 DEF CallStart, stream_vars, recorder_vars
  <2>2. Moves(t, "idle", "start")
    BY <1>0, <1>3, GotoMoves DEF CallStart, Labels
  <2> QED BY <2>1, <2>2 DEF Stopped, Moves
<1>4. ASSUME NEW t \in Threads, RecorderStart(t)
      PROVE  Stopped'
  <2>1. UNCHANGED <<stream, state_function>> /\ Moves(t, "start", "idle")
    BY <1>0, <1>4, GotoMoves DEF RecorderStart, stream_vars, Labels
  <2>2. stream = "Running"
    BY <2>1 DEF Moves, Stopped
  <2> QED BY <2>1, <2>2, <1>1
<1>5. ASSUME NEW t \in Threads, CallRecorderStop(t)
      PROVE  Stopped'
  <2>1. UNCHANGED <<stream, state_function, thread>> /\ Moves(t, "idle", "stop")
    BY <1>0, <1>5, GotoMoves DEF CallRecorderStop, stream_vars, recorder_vars, Labels
  <2> QED BY <2>1, <1>1
<1>6. ASSUME NEW t \in Threads, StreamStart(t)
      PROVE  Stopped'
  <2>1. UNCHANGED <<state_function, pc, thread>> /\ stream' = "Running"
    BY <1>6 DEF StreamStart, CallStateFunction, recorder_vars
  <2> QED BY <2>1 DEF Stopped
<1>7. ASSUME NEW t \in Threads, StreamStop(t)
      PROVE  Stopped'
  <2>1. /\ state_function' = t /\ state_function = None
        /\ stream = "Running" /\ stream' = stream
        /\ \A u \in Threads : pc[u] # "start"
    BY <1>7 DEF StreamStop, CallStateFunction
  <2>2. Moves(t, "idle", "stop_core")
    BY <1>0, <1>7, GotoMoves DEF StreamStop, Labels
  <2>3. \A u \in Threads : pc'[u] = "stop_core" => u = t
    BY <2>1, <2>2, <1>n DEF Stopped, Moves
  <2>4. \A u \in Threads : pc'[u] # "start"
    BY <2>1, <2>2 DEF Moves
  <2> QED BY <2>1, <2>2, <2>3, <2>4 DEF Stopped, Moves
<1>ret. ASSUME NEW t \in Threads, NEW from \in Labels, Return(t, from),
               thread' = 0 \/ (thread' = thread /\ (from # "stop" \/ state_function # t)),
               from # "start"
        PROVE  Stopped'
  <2>1. /\ Moves(t, from, "idle") /\ stream' = stream
        /\ state_function' = IF state_function = t THEN None ELSE state_function
    BY <1>0, <1>ret, GotoMoves DEF Return, Labels
  <2>2. \A u \in Threads : pc'[u] = "stop_core" => state_function' = u
    BY <2>1, <1>n DEF Stopped, Moves
  <2>3. \A u \in Threads : state_function' = u => pc'[u] \in {"stop_core", "stop", "join"}
    BY <2>1, <1>n DEF Stopped, Moves
  <2>4. \A u \in Threads : pc'[u] = "start" => stream' = "Running" /\ state_function' = None
    BY <2>1 DEF Stopped, Moves
  <2>5. ASSUME stream' = "Ready", thread' # 0
        PROVE  \E u \in Threads : state_function' = u /\ pc'[u] = "stop"
    <3>1. PICK u \in Threads : state_function = u /\ pc[u] = "stop"
      BY <2>1, <2>5, <1>ret DEF Stopped
    <3>2. u # t
      BY <3>1, <2>1, <2>5, <1>ret DEF Moves
    <3> QED BY <3>1, <3>2, <2>1 DEF Moves
  <2> QED BY <2>2, <2>3, <2>4, <2>5 DEF Stopped
<1>8. ASSUME NEW t \in Threads, StopCore(t)
      PROVE  Stopped'
  <2>1. pc[t] = "stop_core" /\ state_function = t /\ thread' = thread
    BY <1>8 DEF StopCore, Return, Goto, Stopped, recorder_vars
  <2>2. CASE Return(t, "stop_core")
    BY <2>1, <2>2, <1>ret DEF Labels
  <2>3. CASE Goto(t, "stop_core", "stop") /\ stream' = "Ready" /\ UNCHANGED state_function
    <3>1. Moves(t, "stop_core", "stop")
      BY <1>0, <2>3, GotoMoves DEF Labels
    <3>2. \A u \in Threads : pc[u] # "start"
      BY <2>1, <1>n DEF Stopped
    <3> QED BY <2>1, <2>3, <3>1, <3>2, <1>n DEF Stopped, Moves
  <2> QED BY <1>8, <2>2, <2>3 DEF StopCore
<1>9. ASSUME NEW t \in Threads, RecorderStop(t)
      PROVE  Stopped'
  <2>1. thread' = 0
    BY <1>9 DEF RecorderStop
  <2>2. CASE Return(t, "stop")
    <3>1. "stop" \in Labels /\ "stop" # "start"
      BY DEF Labels
    <3> QED BY <2>1, <2>2, <3>1, <1>ret
  <2>3. CASE Goto(t, "stop", "join") /\ UNCHANGED stream_vars
    <3>1. Moves(t, "stop", "join") /\ UNCHANGED <<stream, state_function>>
      BY <1>0, <2>3, GotoMoves DEF Labels, stream_vars
    <3> QED BY <2>1, <3>1, <1>n DEF Stopped, Moves
  <2> QED BY <1>9, <2>2, <2>3 DEF RecorderStop
<1>10. ASSUME NEW t \in Threads, RecorderJoin(t)
       PROVE  Stopped'
  <2>1. Return(t, "join") /\ thread' = thread
    BY <1>10 DEF RecorderJoin, recorder_vars
  <2> QED BY <2>1, <1>ret DEF Labels
<1>11. ASSUME NEW r \in Recordings, Worker(r)
       PROVE  Stopped'
  <2>1. UNCHANGED <<stream, state_function, pc>> /\ (thread' = thread \/ thread' = 0)
    BY <1>11 DEF Worker, Begin, Write, Update, Drain, Finish, stream_vars, recorder_vars
  <2> QED BY <2>1 DEF Stopped
<1>12. CASE UNCHANGED vars
  BY <1>12 DEF vars, stream_vars, recorder_vars, Stopped
<1> QED BY <1>2, <1>3, <1>4, <1>5, <1>6, <1>7, <1>8, <1>9, <1>10, <1>11, <1>12
        DEF Next, CallStep, ThreadStep, Finished

\* When Stop of the stream has returned, thread_ is empty: the worker, if there
\* still is one, is in the hands of a Stop that waits for it.
LEMMA StoppedQuiet ==
  ASSUME RecorderInv, Stopped
  PROVE  QuietWhenStopped
<1> SUFFICES ASSUME stream = "Ready", state_function = None, NEW r \in Unfinished
             PROVE  \E t \in Threads : pc[t] = "join" /\ joining[t] = r
  BY DEF QuietWhenStopped
<1>1. thread = 0
  BY NoneAssumption DEF Stopped
<1>2. r \in Recordings /\ r # 0 /\ r <= recording
  <2>1. r \in Recordings /\ r = recording
    BY DEF RecorderInv, LastOnly, Unfinished
  <2> QED BY <2>1, FrameRecorderAssumption DEF Recordings
<1>3. handles[r] = 0
  BY <1>2 DEF RecorderInv, Handled, Unfinished
<1>4. \E t \in Threads : joining[t] = r
  BY <1>1, <1>2, <1>3 DEF RecorderInv, Handled
<1> QED BY <1>2, <1>4 DEF RecorderInv, Handled

\* If the application starts no recording beside Start and Stop of the stream,
\* nothing of a recording runs on unwatched when Stop of the stream returns.
THEOREM SpecQuietWhenStopped ==
  ASSUME Careful
  PROVE  Spec => []QuietWhenStopped
<1>1. Init => RecorderInv /\ Stopped
  BY InitRecorderInv, NoneAssumption DEF Init, Stopped
<1>2. (RecorderInv /\ Stopped) /\ [Next]_vars => (RecorderInv /\ Stopped)'
  BY NextRecorderInv, StoppedStep
<1>3. RecorderInv /\ Stopped => QuietWhenStopped
  BY StoppedQuiet
<1> QED BY <1>1, <1>2, <1>3, PTL DEF Spec
=============================================================================
