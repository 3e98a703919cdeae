------------------------ MODULE ComponentPortProofs ------------------------
(***************************************************************************)
(* The proofs about ComponentPort, for any streams, policies, buffers and  *)
(* batches: no frame is forgotten in sent_frames_, none waits in a stream  *)
(* that is not started, and the port lends frames as FrameOwnership says.  *)
(***************************************************************************)
EXTENDS ComponentPort, FiniteSetTheorems, SequenceTheorems, TLAPS

Distinct(s) == \A i, j \in 1 .. Len(s) : s[i] = s[j] => i = j

\* A manager that has each of its frames in one place.
Sound(m) ==
  /\ m \in ManagerType(Frames)
  /\ Distinct(m.incoming)
  /\ Elements(m.incoming) \cap m.outgoing = {}

StartedPhases == {"starting", "started", "running", "stopping"}

Streaming ==
  /\ Distinct(streams_started)
  /\ \A s \in Streams : s \in Elements(streams_started) <=> phase[s] \in StartedPhases

Managers ==
  \A s \in Streams :
    /\ Sound(manager[s])
    /\ manager[s].initialized <=> phase[s] \notin {"closed", "closing"}
    /\ ~manager[s].initialized => Held(manager[s]) = {}

\* The batch is being offered to one of the started streams.
SenderSane ==
  /\ next \in 1 .. MaxFrames + 1
  /\ sender.pc # "failed" => sender.todo = {}
  /\ sender.pc # "idle" =>
       /\ 1 <= sender.first /\ sender.first <= sender.last /\ sender.last < next
       /\ sender.pos \in 1 .. Len(streams_started)
       /\ sender.pos > 1 => sender.result \subseteq Batch
       /\ sender.pc = "set" =>
            /\ sender.frame \in Batch
            /\ \A f \in sender.dropped : f \in Batch /\ f < sender.frame
       /\ sender.pc = "failed" =>
            sender.dropped \subseteq Batch /\ sender.todo \subseteq sender.dropped

\* What a stream holds it has not given up, unless the component refused it.
HeldSent ==
  \A s \in Streams : \A f \in Held(manager[s]) :
    sent_frames[f][s] \in {NotSendingYet, NotSent}

\* What is still to be offered to a stream waits for it and is not there yet.
PendingSent ==
  \A f \in Frames, s \in Streams : Pending(f, s) =>
    sent_frames[f][s] = NotSendingYet /\ f \notin Held(manager[s])

\* A frame that was not sent yet has left no trace.
Fresh ==
  \A f \in Frames : f >= next =>
    /\ returned[f] = 0
    /\ \A s \in Streams : sent_frames[f][s] = NotSent /\ f \notin Held(manager[s])

\* Every stream so far has dropped the frame, and the present one has not
\* taken it.
Candidate(f) ==
  /\ sender.pc # "idle"
  /\ f \in Batch
  /\ sender.pos > 1 => f \in sender.result
  /\ \/ sender.pc = "stream"
     \/ sender.pc = "set" /\ (f >= sender.frame \/ f \in sender.dropped)
     \/ sender.pc = "failed" /\ f \in sender.dropped

\* Such a frame was not returned yet and no stream has it.
CandidateFree ==
  \A f \in Frames : Candidate(f) =>
    /\ returned[f] = 0
    /\ \A s \in Streams : sent_frames[f][s] # Released /\ f \notin Held(manager[s])

\* The inductive invariant: the queues of the streams, sent_frames_ and the
\* place of the sender, related to one another.
PortInv ==
  /\ TypeOK /\ Streaming /\ Managers /\ SenderSane /\ HeldSent /\ PendingSent
  /\ Fresh /\ CandidateFree /\ NoOrphan /\ ArrivedOnlyIfStarted

---------------------------------------------------------------------------
(***************************************************************************)
(* The queues and the list of started streams.                             *)
(***************************************************************************)
\* push_back of something new.
LEMMA AppendFacts ==
  ASSUME NEW S, NEW q \in Seq(S), NEW x \in S, Distinct(q), x \notin Elements(q)
  PROVE  /\ Append(q, x) \in Seq(S)
         /\ Len(Append(q, x)) = Len(q) + 1
         /\ Elements(Append(q, x)) = Elements(q) \cup {x}
         /\ Distinct(Append(q, x))
         /\ \A i \in 1 .. Len(q) : Append(q, x)[i] = q[i]
<1>1. /\ \A i \in 1 .. Len(q) : Append(q, x)[i] = q[i] /\ q[i] # x
      /\ Append(q, x)[Len(q) + 1] = x
      /\ Append(q, x) \in Seq(S) /\ Len(Append(q, x)) = Len(q) + 1
  BY DEF Elements
<1>2. 1 .. Len(q) + 1 = (1 .. Len(q)) \cup {Len(q) + 1}
  OBVIOUS
<1>3. Distinct(Append(q, x))
  BY <1>1, <1>2 DEF Distinct
<1> QED BY <1>1, <1>2, <1>3 DEF Elements

\* pop_front.
LEMMA TailFacts ==
  ASSUME NEW S, NEW q \in Seq(S), q # << >>, Distinct(q)
  PROVE  /\ Tail(q) \in Seq(S) /\ Head(q) \in S
         /\ Elements(q) = Elements(Tail(q)) \cup {Head(q)}
         /\ Head(q) \notin Elements(Tail(q))
         /\ Distinct(Tail(q))
<1>1. /\ Tail(q) \in Seq(S) /\ Head(q) = q[1] /\ Head(q) \in S
      /\ Len(q) = Len(Tail(q)) + 1 /\ Len(Tail(q)) \in Nat
  OBVIOUS
<1>2. \A i \in 1 .. Len(Tail(q)) : Tail(q)[i] = q[i + 1]
  OBVIOUS
<1>3. \A i \in 1 .. Len(Tail(q)) : i + 1 \in 1 .. Len(q) /\ i + 1 # 1
  BY <1>1
<1>4. Distinct(Tail(q))
  BY <1>1, <1>2, <1>3 DEF Distinct
<1>5. Head(q) \notin Elements(Tail(q))
  <2> SUFFICES ASSUME NEW i \in 1 .. Len(Tail(q)), Tail(q)[i] = Head(q) PROVE FALSE
    BY DEF Elements
  <2>1. q[i + 1] = q[1] /\ i + 1 \in 1 .. Len(q) /\ 1 \in 1 .. Len(q) /\ i + 1 # 1
    BY <1>1, <1>2, <1>3
  <2> QED BY <2>1 DEF Distinct
<1>6. Elements(q) = Elements(Tail(q)) \cup {Head(q)}
  <2>1. \A i \in 1 .. Len(q) : q[i] = Head(q) \/ q[i] \in Elements(Tail(q))
    <3> TAKE i \in 1 .. Len(q)
    <3>1. CASE i = 1
      BY <3>1, <1>1
    <3>2. CASE i # 1
      <4>1. i - 1 \in 1 .. Len(Tail(q)) /\ (i - 1) + 1 = i
        BY <3>2, <1>1
      <4>2. Tail(q)[i - 1] = q[i]
        BY <4>1, <1>2
      <4> QED BY <4>1, <4>2 DEF Elements
    <3> QED BY <3>1, <3>2
  <2>2. Elements(Tail(q)) \subseteq Elements(q)
    BY <1>2, <1>3 DEF Elements
  <2>3. Head(q) \in Elements(q)
    BY <1>1 DEF Elements
  <2> QED BY <2>1, <2>2, <2>3 DEF Elements
<1> QED BY <1>1, <1>4, <1>5, <1>6

\* A queue that has been drained, or never filled.
LEMMA EmptyFacts ==
  /\ Elements(<< >>) = {} /\ Distinct(<< >>) /\ Len(<< >>) = 0
  /\ \A S : << >> \in Seq(S)
  /\ \A S : \A q \in Seq(S) : (q = << >> <=> Len(q) = 0) /\ (q = << >> <=> Elements(q) = {})
<1>1. Elements(<< >>) = {} /\ Distinct(<< >>) /\ Len(<< >>) = 0
  BY DEF Elements, Distinct
<1>2. ASSUME NEW S, NEW q \in Seq(S), q # << >>
      PROVE  Len(q) # 0 /\ Elements(q) # {}
  <2>1. Len(q) \in Nat /\ Len(q) # 0
    BY <1>2
  <2>2. q[1] \in Elements(q)
    BY <2>1 DEF Elements
  <2> QED BY <2>1, <2>2
<1> QED BY <1>1, <1>2

\* RemoveStream finds the stream and erases it, and nothing else.
LEMMA WithoutFacts ==
  ASSUME NEW S, NEW list \in Seq(S), NEW s \in Elements(list), Distinct(list)
  PROVE  /\ Without(list, s) \in Seq(S)
         /\ Distinct(Without(list, s))
         /\ Elements(Without(list, s)) = Elements(list) \ {s}
<1> DEFINE P(i) == list[i] = s /\ \A j \in 1 .. i - 1 : list[j] # s
           k == CHOOSE i \in DOMAIN list : P(i)
           r == SubSeq(list, 1, k - 1) \o SubSeq(list, k + 1, Len(list))
<1>1. DOMAIN list = 1 .. Len(list) /\ Len(list) \in Nat
  OBVIOUS
<1>2. PICK n \in 1 .. Len(list) : list[n] = s
  BY DEF Elements
<1>3. \A j \in 1 .. Len(list) : j # n => list[j] # s
  BY <1>2 DEF Distinct
<1>4. P(n)
  BY <1>2, <1>3
<1>5. k \in DOMAIN list /\ P(k)
  BY <1>1, <1>4
<1>6. k \in 1 .. Len(list) /\ list[k] = s
  BY <1>1, <1>5
<1>7. Without(list, s) = r
  BY DEF Without
<1> HIDE DEF k, P
<1>8. /\ r \in Seq(S) /\ Len(r) = Len(list) - 1
      /\ \A i \in 1 .. Len(r) : r[i] = IF i < k THEN list[i] ELSE list[i + 1]
  <2> DEFINE a == SubSeq(list, 1, k - 1)
             b == SubSeq(list, k + 1, Len(list))
  <2>1. a \in Seq(S) /\ Len(a) = k - 1 /\ \A i \in 1 .. k - 1 : a[i] = list[i]
    BY <1>6, <1>1
  <2>2. /\ b \in Seq(S) /\ Len(b) = Len(list) - k
        /\ \A i \in 1 .. Len(list) - k : b[i] = list[k + i]
    <3>1. \A i \in k + 1 .. Len(list) : list[i] \in S
      BY <1>6, <1>1
    <3>2. k + 1 \in Int /\ Len(list) \in Int /\ k <= Len(list) /\ k \in Int
      BY <1>6, <1>1
    <3>3. /\ b \in Seq(S)
          /\ Len(b) = IF k + 1 <= Len(list) THEN Len(list) - (k + 1) + 1 ELSE 0
          /\ \A i \in 1 .. Len(list) - (k + 1) + 1 : b[i] = list[k + 1 + i - 1]
      BY <3>1, <3>2, SubSeqProperties
    <3> HIDE DEF b
    <3>4. (IF k + 1 <= Len(list) THEN Len(list) - (k + 1) + 1 ELSE 0) = Len(list) - k
      BY <3>2
    <3>5. /\ \A i \in 1 .. Len(list) - k : k + 1 + i - 1 = k + i
          /\ 1 .. Len(list) - (k + 1) + 1 = 1 .. Len(list) - k
      BY <3>2
    <3>6. \A i \in 1 .. Len(list) - k : b[i] = list[k + i]
      BY <3>3, <3>5, Zenon
    <3>7. Len(b) = Len(list) - k
      BY <3>3, <3>4
    <3> QED BY <3>3, <3>6, <3>7
  <2> HIDE DEF a, b
  <2>3. a \o b \in Seq(S) /\ Len(a \o b) = Len(list) - 1
    <3>1. a \o b \in Seq(S) /\ Len(a \o b) = Len(a) + Len(b)
      BY <2>1, <2>2, ConcatProperties
    <3> QED BY <3>1, <2>1, <2>2, <1>6, <1>1
  <2>4. \A i \in 1 .. Len(list) - 1 : (a \o b)[i] = IF i < k THEN list[i] ELSE list[i + 1]
    <3> TAKE i \in 1 .. Len(list) - 1
    <3>1. CASE i < k
      BY <3>1, <2>1, <2>2, <1>6, <1>1
    <3>2. CASE ~(i < k)
      <4>1. i - (k - 1) \in 1 .. Len(list) - k /\ k + (i - (k - 1)) = i + 1
        BY <3>2, <1>6, <1>1
      <4>2. (a \o b)[i] = b[i - (k - 1)]
        BY <3>2, <2>1, <2>2, <1>6, <1>1
      <4> QED BY <4>1, <4>2, <3>2, <2>2
    <3> QED BY <3>1, <3>2
  <2>5. r = a \o b
    BY DEF a, b
  <2> QED BY <2>3, <2>4, <2>5
<1> HIDE DEF r
<1>9. \A i \in 1 .. Len(r) : \E j \in 1 .. Len(list) : j # k /\ r[i] = list[j] /\ j = IF i < k THEN i ELSE i + 1
  BY <1>8, <1>6, <1>1
<1>10. Distinct(r)
  <2> SUFFICES ASSUME NEW i \in 1 .. Len(r), NEW j \in 1 .. Len(r), r[i] = r[j]
               PROVE  i = j
    BY DEF Distinct
  <2>1. PICK x \in 1 .. Len(list) : r[i] = list[x] /\ x = IF i < k THEN i ELSE i + 1
    BY <1>9
  <2>2. PICK y \in 1 .. Len(list) : r[j] = list[y] /\ y = IF j < k THEN j ELSE j + 1
    BY <1>9
  <2>3. x = y
    BY <2>1, <2>2 DEF Distinct
  <2> QED BY <2>1, <2>2, <2>3, <1>6
<1>11. Elements(r) \subseteq Elements(list) \ {s}
  <2> SUFFICES ASSUME NEW i \in 1 .. Len(r) PROVE r[i] \in Elements(list) /\ r[i] # s
    BY DEF Elements
  <2>1. PICK x \in 1 .. Len(list) : x # k /\ r[i] = list[x]
    BY <1>9
  <2> QED BY <2>1, <1>6 DEF Distinct, Elements
<1>12. Elements(list) \ {s} \subseteq Elements(r)
  <2> SUFFICES ASSUME NEW x \in 1 .. Len(list), list[x] # s PROVE list[x] \in Elements(r)
    BY DEF Elements
  <2>1. x # k
    BY <1>6
  <2>2. CASE x < k
    <3>1. x \in 1 .. Len(r) /\ r[x] = list[x]
      BY <2>2, <1>8, <1>6, <1>1
    <3> QED BY <3>1 DEF Elements
  <2>3. CASE x > k
    <3>1. x - 1 \in 1 .. Len(r) /\ ~(x - 1 < k) /\ (x - 1) + 1 = x
      BY <2>3, <1>8, <1>6, <1>1
    <3>2. r[x - 1] = list[x]
      BY <3>1, <1>8
    <3> QED BY <3>1, <3>2 DEF Elements
  <2> QED BY <2>1, <2>2, <2>3, <1>6
<1> QED BY <1>7, <1>8, <1>10, <1>11, <1>12

---------------------------------------------------------------------------
(***************************************************************************)
(* What the operations of a frame manager do to the frames it holds.       *)
(***************************************************************************)
\* The members of a sound manager.
LEMMA SoundFacts ==
  ASSUME NEW m, Sound(m)
  PROVE  /\ m \in ManagerType(Frames)
         /\ m.incoming \in Seq(Frames) /\ m.outgoing \subseteq Frames
         /\ m.reserved \in Nat /\ Len(m.incoming) \in Nat
         /\ m.skip_rate \in Nat \ {0} /\ m.skip_counter \in Nat
         /\ m.initialized \in BOOLEAN
         /\ Distinct(m.incoming) /\ Elements(m.incoming) \cap m.outgoing = {}
         /\ Elements(m.incoming) \subseteq Frames
         /\ Held(m) = Elements(m.incoming) \cup m.outgoing
         /\ Held(m) \subseteq Frames
<1>1. /\ m \in ManagerType(Frames)
      /\ Distinct(m.incoming) /\ Elements(m.incoming) \cap m.outgoing = {}
  BY DEF Sound
<1>2. /\ m.incoming \in Seq(Frames) /\ m.outgoing \subseteq Frames
      /\ m.reserved \in Nat
      /\ m.skip_rate \in Nat \ {0} /\ m.skip_counter \in Nat
      /\ m.initialized \in BOOLEAN
  BY <1>1 DEF ManagerType
<1>3. Len(m.incoming) \in Nat /\ Elements(m.incoming) \subseteq Frames
  BY <1>2 DEF Elements
<1> QED BY <1>1, <1>2, <1>3 DEF Held

\* A manager made from a sound one by new queues is sound.
LEMMA SoundUpdate ==
  ASSUME NEW m, Sound(m), NEW q \in Seq(Frames), Distinct(q),
         NEW out \in SUBSET Frames, Elements(q) \cap out = {},
         NEW n \in ManagerType(Frames), n.incoming = q, n.outgoing = out
  PROVE  Sound(n) /\ Held(n) = Elements(q) \cup out
BY DEF Sound, Held

\* GetBuffer leaves a part of the queue and releases the rest.
Keeps(b, m) ==
  /\ b.found \in BOOLEAN
  /\ b.reserved \in Nat
  /\ b.incoming \in Seq(Frames)
  /\ Distinct(b.incoming)
  /\ b.evicted \subseteq Elements(m.incoming)
  /\ Elements(b.incoming) = Elements(m.incoming) \ b.evicted
  /\ ~b.found => b.evicted = {}

\* Every policy does, and a call that fails changes nothing.
LEMMA SetResultKeeps ==
  ASSUME NEW p \in Policies, NEW m, Sound(m)
  PROVE  Keeps(SetResult(p, m), m)
<1>1. /\ m.incoming \in Seq(Frames) /\ m.reserved \in Nat
      /\ Distinct(m.incoming) /\ m.initialized \in BOOLEAN
  BY SoundFacts
<1>2. Keeps(NoBuffer(m), m)
  BY <1>1 DEF NoBuffer, Buffer, Keeps
<1>3. ASSUME NEW acquirable, NEW reserved \in Nat
      PROVE  Keeps(Buffer(TRUE, acquirable, {}, reserved, m.incoming), m)
  BY <1>1 DEF Buffer, Keeps
<1>4. ASSUME NEW acquirable, NEW reserved \in Nat, m.incoming # << >>
      PROVE  Keeps(Buffer(TRUE, acquirable, {Head(m.incoming)}, reserved, Tail(m.incoming)), m)
  BY <1>1, <1>4, TailFacts DEF Buffer, Keeps
<1>5. ASSUME NEW acquirable, NEW reserved \in Nat
      PROVE  Keeps(Buffer(TRUE, acquirable, Elements(m.incoming), reserved, << >>), m)
  <2>1. << >> \in Seq(Frames) /\ Distinct(<< >>) /\ Elements(<< >>) = {}
    BY EmptyFacts
  <2> QED BY <2>1 DEF Buffer, Keeps
<1>6. 0 \in Nat /\ (m.reserved > 0 => m.reserved - 1 \in Nat)
      /\ (~(m.reserved <= 0) => m.reserved - 1 \in Nat)
  BY <1>1
<1>7. Keeps(GetBufferOverwrite(m), m)
  BY <1>2, <1>3, <1>4, <1>6, <1>1 DEF GetBufferOverwrite
<1>8. Keeps(GetBufferDiscard(m), m)
  BY <1>2, <1>3, <1>6 DEF GetBufferDiscard
<1>9. Keeps(GetBufferRealtime(m), m)
  BY <1>5, <1>6 DEF GetBufferRealtime
<1>10. Keeps(GetBufferUnlimited(m), m)
  BY <1>3, <1>6 DEF GetBufferUnlimited
<1>11. Keeps(GetBuffer(p, m), m)
  <2>1. p \in {Overwrite, Discard, Realtime, Unlimited}
    BY DEF Policies
  <2> QED BY <2>1, <1>7, <1>8, <1>9, <1>10
          DEF GetBuffer, Overwrite, Discard, Realtime, Unlimited
<1> QED BY <1>2, <1>11 DEF SetResult

\* Set takes the new frame, or not, and gives up what it evicts.
LEMMA SetFrameFacts ==
  ASSUME NEW p \in Policies, NEW m, Sound(m), NEW f \in Frames, f \notin Held(m)
  PROVE  LET b == SetResult(p, m)
             n == SetFrame(p, m, f)
         IN  /\ Sound(n) /\ n.initialized = m.initialized
             /\ b.found \in BOOLEAN
             /\ b.evicted \subseteq Held(m)
             /\ Held(n) = (Held(m) \ b.evicted) \cup IF b.found THEN {f} ELSE {}
             /\ ~m.initialized => ~b.found /\ b.evicted = {}
<1> DEFINE b == SetResult(p, m)
           n == SetFrame(p, m, f)
           q == IF b.found THEN Append(b.incoming, f) ELSE m.incoming
           c == IF m.initialized THEN SkipCounter(m) ELSE m.skip_counter
<1>1. Keeps(b, m)
  BY SetResultKeeps
<1>2. /\ m \in ManagerType(Frames) /\ m.incoming \in Seq(Frames)
      /\ m.outgoing \subseteq Frames /\ Distinct(m.incoming)
      /\ Elements(m.incoming) \cap m.outgoing = {}
      /\ Held(m) = Elements(m.incoming) \cup m.outgoing
      /\ m.skip_rate \in Nat \ {0} /\ m.skip_counter \in Nat
      /\ m.initialized \in BOOLEAN
  BY SoundFacts
<1>3. c \in Nat
  BY <1>2 DEF SkipCounter
<1>4. ~m.initialized => ~b.found /\ b.evicted = {}
  BY DEF SetResult, NoBuffer, Buffer
<1>5. n = [m EXCEPT !.reserved = b.reserved, !.incoming = q, !.skip_counter = c]
  BY DEF SetFrame
<1> HIDE DEF b, c, n
<1>6. q \in Seq(Frames) /\ Distinct(q)
      /\ Elements(q) = (Elements(m.incoming) \ b.evicted) \cup IF b.found THEN {f} ELSE {}
  <2>1. CASE b.found
    <3>1. f \notin Elements(b.incoming)
      BY <1>1, <1>2 DEF Keeps
    <3> QED BY <2>1, <3>1, <1>1, AppendFacts DEF Keeps
  <2>2. CASE ~b.found
    BY <2>2, <1>1, <1>2 DEF Keeps
  <2> QED BY <2>1, <2>2
<1> HIDE DEF q
<1>7. n \in ManagerType(Frames) /\ n.incoming = q /\ n.outgoing = m.outgoing
      /\ n.initialized = m.initialized
  BY <1>1, <1>2, <1>3, <1>5, <1>6 DEF ManagerType, Keeps
<1>8. Elements(q) \cap m.outgoing = {} /\ b.evicted \subseteq Elements(m.incoming)
  BY <1>1, <1>2, <1>6 DEF Keeps
<1>9. Sound(n) /\ Held(n) = Elements(q) \cup m.outgoing
  BY <1>2, <1>6, <1>7, <1>8, SoundUpdate
<1>10. Held(n) = (Held(m) \ b.evicted) \cup IF b.found THEN {f} ELSE {}
  BY <1>2, <1>6, <1>8, <1>9
<1> QED BY <1>1, <1>2, <1>4, <1>7, <1>8, <1>9, <1>10 DEF Keeps, b, n

\* Get moves a frame.
LEMMA GetFrameFacts ==
  ASSUME NEW m, Sound(m), CanGet(m)
  PROVE  /\ Sound(GetFrame(m)) /\ Held(GetFrame(m)) = Held(m)
         /\ GetFrame(m).initialized = m.initialized
<1> DEFINE n == GetFrame(m)
<1>1. /\ m \in ManagerType(Frames) /\ m.incoming \in Seq(Frames)
      /\ m.outgoing \subseteq Frames /\ Distinct(m.incoming)
      /\ Elements(m.incoming) \cap m.outgoing = {}
      /\ Held(m) = Elements(m.incoming) \cup m.outgoing
  BY SoundFacts
<1>2. /\ Tail(m.incoming) \in Seq(Frames) /\ Head(m.incoming) \in Frames
      /\ Elements(m.incoming) = Elements(Tail(m.incoming)) \cup {Head(m.incoming)}
      /\ Head(m.incoming) \notin Elements(Tail(m.incoming))
      /\ Distinct(Tail(m.incoming))
  BY <1>1, TailFacts DEF CanGet
<1>3. /\ n \in ManagerType(Frames) /\ n.incoming = Tail(m.incoming)
      /\ n.outgoing = m.outgoing \cup {Head(m.incoming)}
      /\ n.initialized = m.initialized
  BY <1>1, <1>2 DEF GetFrame, ManagerType
<1> HIDE DEF n
<1>4. /\ m.outgoing \cup {Head(m.incoming)} \in SUBSET Frames
      /\ Elements(Tail(m.incoming)) \cap (m.outgoing \cup {Head(m.incoming)}) = {}
  BY <1>1, <1>2
<1>5. Sound(n) /\ Held(n) = Elements(Tail(m.incoming)) \cup (m.outgoing \cup {Head(m.incoming)})
  BY <1>2, <1>3, <1>4, SoundUpdate
<1> QED BY <1>1, <1>2, <1>3, <1>5 DEF n

\* Remove takes a frame out of use, or leaves everything.
LEMMA RemoveFrameFacts ==
  ASSUME NEW m, Sound(m), NEW f, CanRemove(m, f), NEW ok \in BOOLEAN
  PROVE  /\ Sound(RemoveFrame(m, f, ok))
         /\ RemoveFrame(m, f, ok).initialized = m.initialized
         /\ RemoveFrame(m, f, ok).incoming = m.incoming
         /\ f \in Held(m)
         /\ Held(RemoveFrame(m, f, ok)) = Held(m) \ IF ok THEN {f} ELSE {}
<1> DEFINE n == RemoveFrame(m, f, ok)
<1>1. /\ m \in ManagerType(Frames) /\ m.incoming \in Seq(Frames)
      /\ m.outgoing \subseteq Frames /\ Distinct(m.incoming)
      /\ Elements(m.incoming) \cap m.outgoing = {}
      /\ Held(m) = Elements(m.incoming) \cup m.outgoing
      /\ f \in m.outgoing /\ m.reserved \in Nat
  BY SoundFacts DEF CanRemove
<1>2. CASE ~ok
  BY <1>1, <1>2 DEF RemoveFrame
<1>3. CASE ok
  <2> DEFINE out == m.outgoing \ {f}
             r == m.reserved + 1
  <2>0. out \subseteq Frames /\ r \in Nat
    BY <1>1
  <2>1. n = [m EXCEPT !.outgoing = out, !.reserved = r]
    BY <1>3 DEF RemoveFrame
  <2> HIDE DEF n, out, r
  <2>2. /\ n \in ManagerType(Frames) /\ n.incoming = m.incoming
        /\ n.outgoing = out /\ n.initialized = m.initialized
    BY <1>1, <2>0, <2>1 DEF ManagerType
  <2>3. Sound(n) /\ Held(n) = Elements(m.incoming) \cup (m.outgoing \ {f})
    BY <1>1, <2>0, <2>2, SoundUpdate, ZenonT(30) DEF out
  <2> QED BY <1>1, <1>3, <2>2, <2>3 DEF n
<1> QED BY <1>2, <1>3

\* Clear gives up the frames that arrived.
LEMMA ClearFramesFacts ==
  ASSUME NEW m, Sound(m)
  PROVE  /\ Sound(ClearFrames(m))
         /\ ClearFrames(m).initialized = m.initialized
         /\ ClearFrames(m).incoming = << >>
         /\ Elements(m.incoming) \subseteq Held(m)
         /\ Held(ClearFrames(m)) = Held(m) \ Elements(m.incoming)
<1> DEFINE n == ClearFrames(m)
<1>1. /\ m \in ManagerType(Frames) /\ m.incoming \in Seq(Frames)
      /\ m.outgoing \subseteq Frames /\ Distinct(m.incoming)
      /\ Elements(m.incoming) \cap m.outgoing = {}
      /\ Held(m) = Elements(m.incoming) \cup m.outgoing
      /\ m.reserved \in Nat /\ Len(m.incoming) \in Nat
  BY SoundFacts
<1>2. << >> \in Seq(Frames) /\ Distinct(<< >>) /\ Elements(<< >>) = {}
  BY EmptyFacts
<1> DEFINE r == m.reserved + Len(m.incoming)
<1>3. n = [m EXCEPT !.incoming = << >>, !.reserved = r] /\ r \in Nat
  BY <1>1 DEF ClearFrames
<1> HIDE DEF n, r
<1>4. /\ n \in ManagerType(Frames) /\ n.incoming = << >>
      /\ n.outgoing = m.outgoing /\ n.initialized = m.initialized
  BY <1>1, <1>2, <1>3 DEF ManagerType
<1>5. Sound(n) /\ Held(n) = Elements(<< >>) \cup m.outgoing
  BY <1>1, <1>2, <1>4, SoundUpdate
<1> QED BY <1>1, <1>2, <1>4, <1>5 DEF n

\* Exit gives up everything.
LEMMA ExitManagerFacts ==
  ASSUME NEW m, Sound(m), m.initialized
  PROVE  /\ Sound(ExitManager(m))
         /\ ~ExitManager(m).initialized
         /\ ExitManager(m).incoming = << >>
         /\ Held(ExitManager(m)) = {}
<1> DEFINE n == ExitManager(m)
<1>1. /\ m \in ManagerType(Frames)
      /\ m.outgoing \subseteq Frames
      /\ m.reserved \in Nat /\ Len(m.incoming) \in Nat
  BY SoundFacts
<1>2. << >> \in Seq(Frames) /\ Distinct(<< >>) /\ Elements(<< >>) = {}
  BY EmptyFacts
<1>3. Cardinality(m.outgoing) \in Nat
  <2>1. IsFiniteSet(Frames)
    BY PortAssumption, FS_Interval DEF Frames
  <2> QED BY <2>1, <1>1, FS_Subset, FS_CardinalityType
<1> DEFINE r == m.reserved + Len(m.incoming) + Cardinality(m.outgoing)
<1>4. /\ r \in Nat
      /\ n = [m EXCEPT !.incoming = << >>, !.outgoing = {}, !.reserved = r,
                       !.initialized = FALSE]
  BY <1>1, <1>3 DEF ExitManager
<1> HIDE DEF n, r
<1>5. /\ n \in ManagerType(Frames) /\ n.incoming = << >>
      /\ n.outgoing = {} /\ ~n.initialized
  BY <1>1, <1>2, <1>3, <1>4 DEF ManagerType
<1>6. Sound(n) /\ Held(n) = Elements(<< >>) \cup {}
  BY <1>2, <1>5, SoundUpdate, ZenonT(30)
<1> QED BY <1>2, <1>5, <1>6 DEF n

\* A new manager holds nothing, and Init gives it no frame.
LEMMA NewManagerFacts ==
  /\ Sound(Constructed) /\ ~Constructed.initialized /\ Held(Constructed) = {}
  /\ Constructed.incoming = << >>
  /\ \A p \in Policies : \A m : Sound(m) =>
       /\ Sound(InitManager(p, m, BufferNum))
       /\ InitManager(p, m, BufferNum).initialized
       /\ Held(InitManager(p, m, BufferNum)) = Held(m)
       /\ InitManager(p, m, BufferNum).incoming = m.incoming
<1>1. /\ << >> \in Seq(Frames) /\ Distinct(<< >>) /\ Elements(<< >>) = {}
  BY EmptyFacts
<1>2. Sound(Constructed) /\ ~Constructed.initialized /\ Held(Constructed) = {}
      /\ Constructed.incoming = << >>
  <2>1. Constructed \in ManagerType(Frames)
    BY <1>1 DEF Constructed, ManagerType
  <2>2. /\ Constructed.incoming = << >> /\ Constructed.outgoing = {}
        /\ Constructed.initialized = FALSE
    BY DEF Constructed
  <2> QED BY <1>1, <2>1, <2>2 DEF Sound, Held
<1>3. ASSUME NEW p \in Policies, NEW m, Sound(m)
      PROVE  /\ Sound(InitManager(p, m, BufferNum))
             /\ InitManager(p, m, BufferNum).initialized
             /\ Held(InitManager(p, m, BufferNum)) = Held(m)
             /\ InitManager(p, m, BufferNum).incoming = m.incoming
  <2> DEFINE n == InitManager(p, m, BufferNum)
  <2>1. /\ m \in ManagerType(Frames) /\ m.incoming \in Seq(Frames)
        /\ m.outgoing \subseteq Frames /\ Distinct(m.incoming)
        /\ Elements(m.incoming) \cap m.outgoing = {}
        /\ Held(m) = Elements(m.incoming) \cup m.outgoing
    BY <1>3, SoundFacts
  <2>2. CASE m.initialized
    BY <1>3, <2>2 DEF InitManager
  <2>3. CASE ~m.initialized
    <3>1. /\ n \in ManagerType(Frames) /\ n.incoming = m.incoming
          /\ n.outgoing = m.outgoing /\ n.initialized
      BY <2>1, <2>3, PortAssumption DEF InitManager, ManagerType
    <3> HIDE DEF n
    <3>2. Sound(n) /\ Held(n) = Elements(m.incoming) \cup m.outgoing
      BY <1>3, <2>1, <3>1, SoundUpdate
    <3> QED BY <2>1, <3>1, <3>2 DEF n
  <2> QED BY <2>2, <2>3
<1> QED BY <1>2, <1>3

---------------------------------------------------------------------------
(***************************************************************************)
(* What ReleaseFrame does to sent_frames_ and to the component.            *)
(***************************************************************************)
SentType == {NotSent, NotSendingYet, SendingFailed, Released}

\* The sending states are told apart.
LEMMA StateNames ==
  /\ NotSent # NotSendingYet /\ NotSent # SendingFailed /\ NotSent # Released
  /\ NotSendingYet # SendingFailed /\ NotSendingYet # Released
  /\ SendingFailed # Released
BY DEF NotSent, NotSendingYet, SendingFailed, Released

\* Frames only stream s has: those that may go back when it leaves them.
OnlyHas(s, frames) ==
  {f \in frames : \A u \in Streams : sent_frames[f][u] = NotSendingYet <=> u = s}

\* Stream s has given some frames up, and nobody else has.
GaveUp(s, frames) ==
  /\ sent_frames' \in [Frames -> [Streams -> SentType]]
  /\ returned' \in [Frames -> Nat]
  /\ \A f \in Frames : f \notin frames =>
       sent_frames'[f] = sent_frames[f] /\ returned'[f] = returned[f]
  /\ \A f \in frames : sent_frames'[f][s] # NotSendingYet
  /\ \A f \in frames : \A u \in Streams : u # s =>
       \/ sent_frames'[f][u] = sent_frames[f][u]
       \/ sent_frames'[f][u] = NotSent /\ sent_frames[f][u] # NotSendingYet
  /\ \E back \in SUBSET OnlyHas(s, frames) :
       returned' = [f \in Frames |-> IF f \in back THEN returned[f] + 1 ELSE returned[f]]

\* ReleaseFrame does that, for frames the stream has not given up before.
LEMMA ReleaseGivesUp ==
  ASSUME sent_frames \in [Frames -> [Streams -> SentType]],
         returned \in [Frames -> Nat],
         NEW s \in Streams, NEW frames \in SUBSET Frames,
         NEW state \in {SendingFailed, Released},
         \A f \in frames : sent_frames[f][s] \in {NotSent, NotSendingYet},
         ReleaseFrames(s, frames, state)
  PROVE  GaveUp(s, frames)
<1> DEFINE Of(f) == IF f \notin frames \/ ~KnownTo(f, s) THEN sent_frames[f]
                    ELSE IF LastRelease(f, s, state) THEN [u \in Streams |-> NotSent]
                    ELSE Marked(f, s, state)
           back == {f \in frames : CallsImplementation(f, s, state)}
<1>1. /\ sent_frames' = [f \in Frames |-> Of(f)]
      /\ returned' = [f \in Frames |->
           IF f \in frames /\ CallsImplementation(f, s, state)
           THEN returned[f] + 1 ELSE returned[f]]
  BY DEF ReleaseFrames
<1>2. \A f \in Frames : sent_frames[f] \in [Streams -> SentType]
  OBVIOUS
<1>3. ASSUME NEW f \in Frames
      PROVE  /\ Marked(f, s, state) \in [Streams -> SentType]
             /\ Marked(f, s, state)[s] = state
             /\ \A u \in Streams : u # s => Marked(f, s, state)[u] = sent_frames[f][u]
  BY <1>2 DEF Marked, SentType
<1>4. [u \in Streams |-> NotSent] \in [Streams -> SentType]
  BY DEF SentType
<1>5. \A f \in Frames : Of(f) \in [Streams -> SentType]
  BY <1>2, <1>3, <1>4
<1>6. returned' \in [Frames -> Nat]
  BY <1>1
<1>7. \A f \in Frames : f \notin frames =>
        sent_frames'[f] = sent_frames[f] /\ returned'[f] = returned[f]
  BY <1>1
<1>8. ASSUME NEW f \in frames
      PROVE  /\ sent_frames'[f][s] # NotSendingYet
             /\ \A u \in Streams : u # s =>
                  \/ sent_frames'[f][u] = sent_frames[f][u]
                  \/ sent_frames'[f][u] = NotSent /\ sent_frames[f][u] # NotSendingYet
  <2>0. sent_frames'[f] = Of(f) /\ f \in Frames
    BY <1>1
  <2>1. CASE ~KnownTo(f, s)
    BY <2>0, <2>1, StateNames DEF KnownTo
  <2>2. CASE KnownTo(f, s) /\ LastRelease(f, s, state)
    <3>1. sent_frames'[f] = [u \in Streams |-> NotSent]
      BY <2>0, <2>2
    <3>2. \A u \in Streams : u # s => sent_frames[f][u] # NotSendingYet
      BY <2>0, <2>2, <1>3 DEF LastRelease, AllGaveUp
    <3> QED BY <3>1, <3>2, StateNames
  <2>3. CASE KnownTo(f, s) /\ ~LastRelease(f, s, state)
    <3>1. sent_frames'[f] = Marked(f, s, state)
      BY <2>0, <2>3
    <3> QED BY <3>1, <2>0, <1>3, StateNames
  <2> QED BY <2>1, <2>2, <2>3
<1>9. back \in SUBSET OnlyHas(s, frames)
  <2> SUFFICES ASSUME NEW f \in frames, CallsImplementation(f, s, state)
               PROVE  \A u \in Streams : sent_frames[f][u] = NotSendingYet <=> u = s
    BY DEF OnlyHas
  <2>1. KnownTo(f, s) /\ AllGaveUp(Marked(f, s, state)) /\ f \in Frames
    BY DEF CallsImplementation, LastRelease
  <2>2. sent_frames[f][s] = NotSendingYet
    BY <2>1 DEF KnownTo
  <2>3. \A u \in Streams : u # s => sent_frames[f][u] # NotSendingYet
    BY <2>1, <1>3 DEF AllGaveUp
  <2> QED BY <2>2, <2>3
<1>10. returned' = [f \in Frames |-> IF f \in back THEN returned[f] + 1 ELSE returned[f]]
  BY <1>1
<1>11. sent_frames' \in [Frames -> [Streams -> SentType]]
  BY <1>1, <1>5
<1> HIDE DEF Of, back
<1> QED BY <1>6, <1>7, <1>8, <1>9, <1>10, <1>11 DEF GaveUp

\* A step that leaves sent_frames_ alone gives nothing up.
LEMMA NothingGivenUp ==
  ASSUME sent_frames \in [Frames -> [Streams -> SentType]],
         returned \in [Frames -> Nat],
         UNCHANGED <<sent_frames, returned>>, NEW s
  PROVE  GaveUp(s, {})
<1>1. returned' = [f \in Frames |-> IF f \in {} THEN returned[f] + 1 ELSE returned[f]]
  OBVIOUS
<1>2. {} \in SUBSET OnlyHas(s, {})
  OBVIOUS
<1> QED BY <1>1, <1>2 DEF GaveUp

\* A dropped frame nobody has taken stays so, and goes back in no other way.
LEMMA DropReturnsNothing ==
  ASSUME sent_frames \in [Frames -> [Streams -> SentType]],
         returned \in [Frames -> Nat],
         NEW s \in Streams, NEW f \in Frames,
         \A u \in Streams : sent_frames[f][u] # Released,
         ReleaseFrames(s, {f}, SendingFailed)
  PROVE  returned' = returned /\ \A u \in Streams : sent_frames'[f][u] # Released
<1>1. /\ sent_frames[f] \in [Streams -> SentType]
      /\ Marked(f, s, SendingFailed) = [sent_frames[f] EXCEPT ![s] = SendingFailed]
  BY DEF Marked
<1>2. \A u \in Streams : Marked(f, s, SendingFailed)[u] # Released
  BY <1>1, StateNames
<1>3. ~CallsImplementation(f, s, SendingFailed)
  BY <1>2 DEF CallsImplementation
<1>4. returned' = returned
  <2>1. returned' = [g \in Frames |->
          IF g \in {f} /\ CallsImplementation(g, s, SendingFailed)
          THEN returned[g] + 1 ELSE returned[g]]
    BY DEF ReleaseFrames
  <2>2. \A g \in Frames : ~(g \in {f} /\ CallsImplementation(g, s, SendingFailed))
    BY <1>3
  <2>3. returned' = [g \in Frames |-> returned[g]]
    BY <2>1, <2>2
  <2> QED BY <2>3
<1>5. sent_frames'[f] = IF ~KnownTo(f, s) THEN sent_frames[f]
                        ELSE IF LastRelease(f, s, SendingFailed)
                             THEN [u \in Streams |-> NotSent]
                        ELSE Marked(f, s, SendingFailed)
  BY DEF ReleaseFrames
<1> QED BY <1>2, <1>4, <1>5, StateNames

---------------------------------------------------------------------------
(***************************************************************************)
(* The steps of the streams: the users' calls and the state functions.     *)
(* All of them do one thing to the frames: stream s gives some up, and     *)
(* keeps one of those only when the component refused it and sent_frames_  *)
(* has forgotten it.                                                       *)
(***************************************************************************)
StreamStep(s, frames) ==
  /\ frames \subseteq Held(manager[s])
  /\ GaveUp(s, frames)
  /\ UNCHANGED sender_vars
  /\ refused' \subseteq Frames
  \* the stream
  /\ phase' \in [Streams -> Phases]
  /\ state_change' \subseteq Streams
  /\ \A u \in Streams : u # s => phase'[u] = phase[u] /\ manager'[u] = manager[u]
  \* its frame manager
  /\ manager' \in [Streams -> ManagerType(Frames)]
  /\ Sound(manager'[s])
  /\ manager'[s].initialized <=> phase'[s] \notin {"closed", "closing"}
  /\ ~manager'[s].initialized => Held(manager'[s]) = {}
  /\ Held(manager'[s]) \subseteq Held(manager[s])
  /\ Held(manager[s]) \subseteq Held(manager'[s]) \cup frames
  /\ \A f \in frames : f \in Held(manager'[s]) => sent_frames'[f][s] = NotSent
  \* the list of started streams
  /\ streams_started' = streams_started \/ sender.pc = "idle"
  /\ streams_started' \in Seq(Streams)
  /\ Distinct(streams_started')
  /\ Elements(streams_started') \ {s} = Elements(streams_started) \ {s}
  /\ s \in Elements(streams_started') <=> phase'[s] \in StartedPhases
  /\ manager'[s].incoming # << >> => s \in Elements(streams_started')

\* The variables' types, for the steps below.
LEMMA TypeFacts ==
  ASSUME PortInv
  PROVE  /\ phase \in [Streams -> Phases] /\ streams_started \in Seq(Streams)
         /\ state_change \subseteq Streams /\ refused \subseteq Frames
         /\ manager \in [Streams -> ManagerType(Frames)]
         /\ sent_frames \in [Frames -> [Streams -> SentType]]
         /\ returned \in [Frames -> Nat]
         /\ next \in Nat /\ next \in 1 .. MaxFrames + 1
         /\ Distinct(streams_started)
         /\ Elements(streams_started) \subseteq Streams
         /\ Len(streams_started) \in Nat
         /\ \A s \in Streams : Sound(manager[s]) /\ Held(manager[s]) \subseteq Frames
         /\ \A s \in Streams : \A f \in Held(manager[s]) :
              f \in Frames /\ sent_frames[f][s] \in {NotSent, NotSendingYet}
<1>1. /\ phase \in [Streams -> Phases] /\ streams_started \in Seq(Streams)
      /\ state_change \subseteq Streams /\ refused \subseteq Frames
      /\ manager \in [Streams -> ManagerType(Frames)]
      /\ sent_frames \in [Frames -> [Streams -> SentType]]
      /\ returned \in [Frames -> Nat]
      /\ next \in Nat /\ next \in 1 .. MaxFrames + 1
      /\ Distinct(streams_started)
  BY DEF PortInv, TypeOK, Streaming, SenderSane, SentType
<1>2. Elements(streams_started) \subseteq Streams /\ Len(streams_started) \in Nat
  BY <1>1 DEF Elements
<1>3. \A s \in Streams : Sound(manager[s])
  BY DEF PortInv, Managers
<1>4. \A s \in Streams : Held(manager[s]) \subseteq Frames
  BY <1>3, SoundFacts
<1>5. \A s \in Streams : \A f \in Held(manager[s]) :
        sent_frames[f][s] \in {NotSent, NotSendingYet}
  BY DEF PortInv, HeldSent
<1> QED BY <1>1, <1>2, <1>3, <1>4, <1>5

\* While a batch is offered nobody else touches the list of streams: what
\* the sender has still to do does not change.
LEMMA SenderUndisturbed ==
  ASSUME UNCHANGED sender_vars, streams_started' = streams_started \/ sender.pc = "idle"
  PROVE  /\ \A f \in Frames, u \in Streams : Pending(f, u)' <=> Pending(f, u)
         /\ \A f \in Frames : Candidate(f)' <=> Candidate(f)
         /\ SenderSane => SenderSane'
<1>0. sender' = sender /\ next' = next
  BY DEF sender_vars
<1>1. CASE streams_started' = streams_started
  <2>1. \A f \in Frames, u \in Streams : Pending(f, u)' <=> Pending(f, u)
    BY <1>0, <1>1 DEF Pending, Batch
  <2>2. \A f \in Frames : Candidate(f)' <=> Candidate(f)
    BY <1>0 DEF Candidate, Batch
  <2>3. SenderSane => SenderSane'
    BY <1>0, <1>1 DEF SenderSane, Batch
  <2> QED BY <2>1, <2>2, <2>3
<1>2. CASE sender.pc = "idle"
  BY <1>0, <1>2 DEF Pending, Candidate, SenderSane
<1> QED BY <1>1, <1>2

\* A step of a stream keeps the invariant.
LEMMA StreamStepInv ==
  ASSUME PortInv, NEW s \in Streams, NEW frames, StreamStep(s, frames)
  PROVE  PortInv'
<1>1. /\ frames \subseteq Held(manager[s]) /\ frames \subseteq Frames
      /\ \A u \in Streams : u # s => phase'[u] = phase[u] /\ manager'[u] = manager[u]
      /\ sender' = sender /\ next' = next
      /\ Held(manager'[s]) \subseteq Held(manager[s])
      /\ Held(manager[s]) \subseteq Held(manager'[s]) \cup frames
      /\ \A f \in frames : f \in Held(manager'[s]) => sent_frames'[f][s] = NotSent
  BY TypeFacts DEF StreamStep, sender_vars
<1>2. /\ \A f \in Frames : f \notin frames =>
           sent_frames'[f] = sent_frames[f] /\ returned'[f] = returned[f]
      /\ \A f \in frames : sent_frames'[f][s] # NotSendingYet
      /\ \A f \in frames : \A u \in Streams : u # s =>
           \/ sent_frames'[f][u] = sent_frames[f][u]
           \/ sent_frames'[f][u] = NotSent /\ sent_frames[f][u] # NotSendingYet
  BY DEF StreamStep, GaveUp
<1>3. /\ \A f \in Frames, u \in Streams : Pending(f, u)' <=> Pending(f, u)
      /\ \A f \in Frames : Candidate(f)' <=> Candidate(f)
      /\ SenderSane'
  BY SenderUndisturbed DEF StreamStep, PortInv
<1>4. \A u \in Streams : Held(manager'[u]) \subseteq Held(manager[u])
  BY <1>1
<1>5. TypeOK'
  BY DEF StreamStep, GaveUp, PortInv, TypeOK, SentType, sender_vars
<1>6. Streaming'
  BY DEF StreamStep, PortInv, Streaming
<1>7. Managers'
  BY <1>1 DEF StreamStep, PortInv, Managers
<1>8. HeldSent'
  <2> SUFFICES ASSUME NEW u \in Streams, NEW f \in Held(manager'[u])
               PROVE  sent_frames'[f][u] \in {NotSendingYet, NotSent}
    BY DEF HeldSent
  <2>1. f \in Held(manager[u]) /\ f \in Frames
        /\ sent_frames[f][u] \in {NotSendingYet, NotSent}
    BY <1>4, TypeFacts
  <2>2. CASE f \notin frames
    BY <2>1, <2>2, <1>2
  <2>3. CASE f \in frames /\ u = s
    BY <2>3, <1>1
  <2>4. CASE f \in frames /\ u # s
    BY <2>1, <2>4, <1>2
  <2> QED BY <2>2, <2>3, <2>4
<1>9. PendingSent'
  <2> SUFFICES ASSUME NEW f \in Frames, NEW u \in Streams, Pending(f, u)
               PROVE  sent_frames'[f][u] = NotSendingYet /\ f \notin Held(manager'[u])
    BY <1>3 DEF PendingSent
  <2>1. sent_frames[f][u] = NotSendingYet /\ f \notin Held(manager[u])
    BY DEF PortInv, PendingSent
  <2>2. u = s => f \notin frames
    BY <2>1, <1>1
  <2> QED BY <2>1, <2>2, <1>2, <1>4
<1>10. Fresh'
  <2> SUFFICES ASSUME NEW f \in Frames, f >= next
               PROVE  /\ returned'[f] = 0
                      /\ \A u \in Streams :
                           sent_frames'[f][u] = NotSent /\ f \notin Held(manager'[u])
    BY <1>1 DEF Fresh
  <2>1. /\ returned[f] = 0
        /\ \A u \in Streams : sent_frames[f][u] = NotSent /\ f \notin Held(manager[u])
    BY DEF PortInv, Fresh
  <2>2. f \notin frames
    BY <2>1, <1>1
  <2> QED BY <2>1, <2>2, <1>2, <1>4
<1>11. CandidateFree'
  <2> SUFFICES ASSUME NEW f \in Frames, Candidate(f)
               PROVE  /\ returned'[f] = 0
                      /\ \A u \in Streams :
                           sent_frames'[f][u] # Released /\ f \notin Held(manager'[u])
    BY <1>3 DEF CandidateFree
  <2>1. /\ returned[f] = 0
        /\ \A u \in Streams : sent_frames[f][u] # Released /\ f \notin Held(manager[u])
    BY DEF PortInv, CandidateFree
  <2>2. f \notin frames
    BY <2>1, <1>1
  <2> QED BY <2>1, <2>2, <1>2, <1>4
<1>12. NoOrphan'
  <2> SUFFICES ASSUME NEW f \in Frames, NEW u \in Streams,
                      sent_frames'[f][u] = NotSendingYet
               PROVE  f \in Held(manager'[u]) \/ Pending(f, u)
    BY <1>3 DEF NoOrphan
  <2>1. sent_frames[f][u] = NotSendingYet /\ (u = s => f \notin frames)
    BY <1>2, StateNames
  <2>2. f \in Held(manager[u]) \/ Pending(f, u)
    BY <2>1 DEF PortInv, NoOrphan
  <2> QED BY <2>1, <2>2, <1>1
<1>13. ArrivedOnlyIfStarted'
  <2> SUFFICES ASSUME NEW u \in Streams, manager'[u].incoming # << >>
               PROVE  u \in Elements(streams_started')
    BY DEF ArrivedOnlyIfStarted
  <2>1. CASE u = s
    BY <2>1 DEF StreamStep
  <2>2. CASE u # s
    BY <2>2, <1>1 DEF StreamStep, PortInv, ArrivedOnlyIfStarted
  <2> QED BY <2>1, <2>2
<1> QED BY <1>3, <1>5, <1>6, <1>7, <1>8, <1>9, <1>10, <1>11, <1>12, <1>13 DEF PortInv

\* How a stream's phase, manager and place in the list agree.
LEMMA StreamFacts ==
  ASSUME PortInv, NEW s \in Streams
  PROVE  /\ phase[s] \in Phases
         /\ Sound(manager[s])
         /\ manager[s].initialized <=> phase[s] \notin {"closed", "closing"}
         /\ ~manager[s].initialized => Held(manager[s]) = {}
         /\ s \in Elements(streams_started) <=> phase[s] \in StartedPhases
         /\ manager[s].incoming # << >> => s \in Elements(streams_started)
BY TypeFacts DEF PortInv, Managers, Streaming, ArrivedOnlyIfStarted

\* The parts of a step of a stream, given what becomes of its members.
LEMMA MakeStep ==
  ASSUME PortInv, NEW s \in Streams, NEW ph \in Phases, NEW m, NEW list \in Seq(Streams),
         NEW frames \in SUBSET Held(manager[s]), GaveUp(s, frames),
         phase' = [phase EXCEPT ![s] = ph],
         manager' = [manager EXCEPT ![s] = m],
         streams_started' = list,
         UNCHANGED sender_vars, refused' \subseteq Frames, state_change' \subseteq Streams,
         Sound(m),
         m.initialized <=> ph \notin {"closed", "closing"},
         ~m.initialized => Held(m) = {},
         Held(m) \subseteq Held(manager[s]),
         Held(manager[s]) \subseteq Held(m) \cup frames,
         \A f \in frames : f \in Held(m) => sent_frames'[f][s] = NotSent,
         list = streams_started \/ sender.pc = "idle",
         Distinct(list),
         Elements(list) \ {s} = Elements(streams_started) \ {s},
         s \in Elements(list) <=> ph \in StartedPhases,
         m.incoming # << >> => s \in Elements(list)
  PROVE  StreamStep(s, frames)
<1>1. /\ phase' \in [Streams -> Phases] /\ phase'[s] = ph
      /\ \A u \in Streams : u # s => phase'[u] = phase[u]
  BY TypeFacts
<1>2. /\ manager' \in [Streams -> ManagerType(Frames)] /\ manager'[s] = m
      /\ \A u \in Streams : u # s => manager'[u] = manager[u]
  BY TypeFacts DEF Sound
<1> QED BY <1>1, <1>2 DEF StreamStep

\* A state function that leaves the frames alone.
LEMMA PhaseStep ==
  ASSUME PortInv, NEW s \in Streams, NEW ph \in Phases, NEW list \in Seq(Streams),
         phase' = [phase EXCEPT ![s] = ph],
         streams_started' = list,
         UNCHANGED <<manager, sent_frames, returned, refused>>, UNCHANGED sender_vars,
         state_change' \subseteq Streams,
         phase[s] \notin {"closed", "closing"}, ph \notin {"closed", "closing"},
         list = streams_started \/ sender.pc = "idle",
         Distinct(list),
         Elements(list) \ {s} = Elements(streams_started) \ {s},
         s \in Elements(list) <=> ph \in StartedPhases,
         s \in Elements(streams_started) => s \in Elements(list)
  PROVE  StreamStep(s, {})
<1>1. GaveUp(s, {})
  BY TypeFacts, NothingGivenUp
<1>2. manager' = [manager EXCEPT ![s] = manager[s]] /\ refused' \subseteq Frames
  BY TypeFacts
<1> QED BY <1>1, <1>2, StreamFacts, MakeStep

\* A call of the user, which changes neither the phase nor the list.
LEMMA UserStep ==
  ASSUME PortInv, NEW s \in Streams, NEW m,
         NEW frames \in SUBSET Held(manager[s]), GaveUp(s, frames),
         UNCHANGED port_vars, UNCHANGED sender_vars, refused' \subseteq Frames,
         manager' = [manager EXCEPT ![s] = m],
         Sound(m), m.initialized = manager[s].initialized,
         Held(m) \subseteq Held(manager[s]),
         Held(manager[s]) \subseteq Held(m) \cup frames,
         \A f \in frames : f \in Held(m) => sent_frames'[f][s] = NotSent,
         m.incoming # << >> => manager[s].incoming # << >>
  PROVE  StreamStep(s, frames)
<1>1. phase' = [phase EXCEPT ![s] = phase[s]] /\ streams_started' = streams_started
      /\ state_change' \subseteq Streams
  BY TypeFacts DEF port_vars
<1>2. /\ ~m.initialized => Held(m) = {}
      /\ m.incoming # << >> => s \in Elements(streams_started)
      /\ m.initialized <=> phase[s] \notin {"closed", "closing"}
  BY StreamFacts
<1> QED BY <1>1, <1>2, TypeFacts, StreamFacts, MakeStep

\* GetFrame.
LEMMA GetStep ==
  ASSUME PortInv, NEW s \in Streams, Get(s)
  PROVE  StreamStep(s, {})
<1>1. /\ CanGet(manager[s])
      /\ manager' = [manager EXCEPT ![s] = GetFrame(manager[s])]
      /\ UNCHANGED <<sent_frames, returned>> /\ UNCHANGED port_vars
      /\ UNCHANGED sender_vars /\ refused' \subseteq Frames
  BY TypeFacts DEF Get
<1>2. GaveUp(s, {})
  BY <1>1, TypeFacts, NothingGivenUp
<1>3. /\ Sound(GetFrame(manager[s])) /\ Held(GetFrame(manager[s])) = Held(manager[s])
      /\ GetFrame(manager[s]).initialized = manager[s].initialized
      /\ manager[s].incoming # << >>
  BY <1>1, TypeFacts, GetFrameFacts DEF CanGet
<1> DEFINE m == GetFrame(manager[s])
<1>4. /\ {} \in SUBSET Held(manager[s])
      /\ Held(m) \subseteq Held(manager[s])
      /\ Held(manager[s]) \subseteq Held(m) \cup {}
      /\ \A f \in {} : f \in Held(m) => sent_frames'[f][s] = NotSent
  BY <1>3
<1> HIDE DEF m
<1> QED BY <1>1, <1>2, <1>3, <1>4, UserStep DEF m

\* ClearFrames.
LEMMA ClearStep ==
  ASSUME PortInv, NEW s \in Streams, Clear(s)
  PROVE  StreamStep(s, Elements(manager[s].incoming))
<1> DEFINE gone == Elements(manager[s].incoming)
           m == ClearFrames(manager[s])
<1>1. /\ manager' = [manager EXCEPT ![s] = m]
      /\ ReleaseFrames(s, gone, Released) /\ UNCHANGED port_vars
      /\ UNCHANGED sender_vars /\ refused' \subseteq Frames
  BY TypeFacts DEF Clear
<1>2. /\ Sound(m) /\ m.initialized = manager[s].initialized /\ m.incoming = << >>
      /\ gone \subseteq Held(manager[s]) /\ Held(m) = Held(manager[s]) \ gone
  BY TypeFacts, ClearFramesFacts
<1> HIDE DEF m, gone
<1>3. GaveUp(s, gone)
  <2>1. /\ gone \in SUBSET Frames
        /\ \A f \in gone : sent_frames[f][s] \in {NotSent, NotSendingYet}
    BY <1>2, TypeFacts
  <2> QED BY <1>1, <2>1, TypeFacts, ReleaseGivesUp
<1>4. StreamStep(s, gone)
  BY <1>1, <1>2, <1>3, UserStep
<1> QED BY <1>4 DEF gone

\* ReleaseFrame: the frame stays only if the component refused it, and then
\* the call was the last one and has taken it out of sent_frames_.
LEMMA ReleaseStep ==
  ASSUME PortInv, NEW s \in Streams, NEW f \in Frames, Release(s, f)
  PROVE  StreamStep(s, {f})
<1>1. /\ CanRemove(manager[s], f) /\ ReleaseFrames(s, {f}, Released)
      /\ UNCHANGED port_vars /\ UNCHANGED sender_vars
  BY DEF Release
<1>2. PICK ok \in BOOLEAN :
        /\ manager' = [manager EXCEPT ![s] = RemoveFrame(manager[s], f, KnownTo(f, s) /\ ok)]
        /\ IF CallsImplementation(f, s, Released)
           THEN refused' = IF ok THEN refused ELSE refused \cup {f}
           ELSE ok /\ UNCHANGED refused
  BY DEF Release
<1> DEFINE taken == KnownTo(f, s) /\ ok
           m == RemoveFrame(manager[s], f, taken)
<1>3. taken \in BOOLEAN
  OBVIOUS
<1>4. /\ Sound(m) /\ m.initialized = manager[s].initialized
      /\ m.incoming = manager[s].incoming
      /\ f \in Held(manager[s])
      /\ Held(m) = Held(manager[s]) \ IF taken THEN {f} ELSE {}
  BY <1>1, <1>3, TypeFacts, RemoveFrameFacts
<1>5. GaveUp(s, {f})
  <2>1. /\ \A g \in {f} : sent_frames[g][s] \in {NotSent, NotSendingYet}
        /\ {f} \in SUBSET Frames /\ Released \in {SendingFailed, Released}
    BY <1>4, TypeFacts
  <2> QED BY <1>1, <2>1, TypeFacts, ReleaseGivesUp
<1>6. f \in Held(m) => sent_frames'[f][s] = NotSent
  <2> SUFFICES ASSUME ~taken PROVE sent_frames'[f][s] = NotSent
    BY <1>4
  <2>1. sent_frames'[f] = IF ~KnownTo(f, s) THEN sent_frames[f]
                          ELSE IF LastRelease(f, s, Released)
                               THEN [u \in Streams |-> NotSent]
                          ELSE Marked(f, s, Released)
    BY <1>1 DEF ReleaseFrames
  <2>2. CASE ~KnownTo(f, s)
    BY <2>1, <2>2 DEF KnownTo
  <2>3. CASE KnownTo(f, s) /\ ~ok
    <3>1. LastRelease(f, s, Released)
      BY <1>2, <2>3 DEF CallsImplementation
    <3> QED BY <2>1, <2>3, <3>1
  <2> QED BY <2>2, <2>3
<1>7. refused' \subseteq Frames
  BY <1>2, TypeFacts
<1>8. manager' = [manager EXCEPT ![s] = m]
  BY <1>2
<1>9. /\ {f} \in SUBSET Held(manager[s])
      /\ Held(m) \subseteq Held(manager[s])
      /\ Held(manager[s]) \subseteq Held(m) \cup {f}
      /\ \A g \in {f} : g \in Held(m) => sent_frames'[g][s] = NotSent
  BY <1>4, <1>6
<1> HIDE DEF m, taken
<1> QED BY <1>1, <1>4, <1>5, <1>7, <1>8, <1>9, UserStep

\* RemoveStream, on the way to one of two phases without frames.
LEMMA RemoveStep ==
  ASSUME PortInv, NEW s \in Streams, phase[s] \in StartedPhases, RemoveStream(s),
         NEW ph \in {"ready", "stop_port"}, phase' = [phase EXCEPT ![s] = ph],
         UNCHANGED sender_vars, UNCHANGED refused, state_change' \subseteq Streams
  PROVE  StreamStep(s, Elements(manager[s].incoming))
<1> DEFINE gone == Elements(manager[s].incoming)
           m == ClearFrames(manager[s])
           list == Without(streams_started, s)
<1>1. /\ sender.pc = "idle" /\ streams_started' = list
      /\ manager' = [manager EXCEPT ![s] = m]
      /\ ReleaseFrames(s, gone, Released)
  BY DEF RemoveStream, NotSending
<1>2. /\ Sound(m) /\ m.initialized = manager[s].initialized /\ m.incoming = << >>
      /\ gone \subseteq Held(manager[s]) /\ Held(m) = Held(manager[s]) \ gone
  BY TypeFacts, ClearFramesFacts
<1>3. /\ s \in Elements(streams_started)
      /\ manager[s].initialized <=> phase[s] \notin {"closed", "closing"}
  BY StreamFacts
<1>4. /\ list \in Seq(Streams) /\ Distinct(list)
      /\ Elements(list) = Elements(streams_started) \ {s}
  BY <1>3, TypeFacts, WithoutFacts
<1> HIDE DEF m, gone, list
<1>5. GaveUp(s, gone)
  <2>1. /\ gone \in SUBSET Frames
        /\ \A f \in gone : sent_frames[f][s] \in {NotSent, NotSendingYet}
    BY <1>2, TypeFacts
  <2> QED BY <1>1, <2>1, TypeFacts, ReleaseGivesUp
<1>6. /\ ph \in Phases /\ ph \notin {"closed", "closing"} /\ ph \notin StartedPhases
      /\ phase[s] \notin {"closed", "closing"}
  BY DEF Phases, StartedPhases
<1>7. /\ m.initialized <=> ph \notin {"closed", "closing"}
      /\ ~m.initialized => Held(m) = {}
      /\ gone \in SUBSET Held(manager[s])
      /\ Held(m) \subseteq Held(manager[s])
      /\ Held(manager[s]) \subseteq Held(m) \cup gone
      /\ \A f \in gone : f \in Held(m) => sent_frames'[f][s] = NotSent
      /\ Elements(list) \ {s} = Elements(streams_started) \ {s}
      /\ s \in Elements(list) <=> ph \in StartedPhases
      /\ m.incoming # << >> => s \in Elements(list)
      /\ refused' \subseteq Frames
  BY <1>2, <1>3, <1>4, <1>6, TypeFacts
<1>8. StreamStep(s, gone)
  BY <1>1, <1>2, <1>4, <1>5, <1>6, <1>7, MakeStep
<1> QED BY <1>8 DEF gone

\* A manager that holds nothing gives nothing up when it is replaced.
LEMMA ReplaceStep ==
  ASSUME PortInv, NEW s \in Streams, NEW ph \in {"closed", "ready"},
         phase[s] \in {"closed", "closing"},
         phase' = [phase EXCEPT ![s] = ph],
         NEW m, Sound(m), Held(m) = {}, m.incoming = << >>,
         m.initialized <=> ph = "ready",
         manager' = [manager EXCEPT ![s] = m],
         UNCHANGED <<streams_started, state_change, sent_frames, returned, refused>>,
         UNCHANGED sender_vars
  PROVE  StreamStep(s, {})
<1>1. GaveUp(s, {})
  BY TypeFacts, NothingGivenUp
<1>2. /\ ph \in Phases /\ (ph \notin {"closed", "closing"} <=> ph = "ready")
      /\ ph \notin StartedPhases /\ phase[s] \notin StartedPhases
  BY DEF Phases, StartedPhases
<1>3. /\ ~manager[s].initialized /\ Held(manager[s]) = {}
      /\ s \notin Elements(streams_started)
  BY <1>2, StreamFacts
<1>4. /\ streams_started' = streams_started /\ streams_started \in Seq(Streams)
      /\ {} \in SUBSET Held(manager[s])
      /\ Distinct(streams_started)
      /\ refused' \subseteq Frames /\ state_change' \subseteq Streams
  BY TypeFacts
<1> QED BY <1>1, <1>2, <1>3, <1>4, MakeStep

\* Open.
LEMMA OpenStep ==
  ASSUME PortInv, NEW s \in Streams, OpenStream(s)
  PROVE  StreamStep(s, {})
<1> DEFINE m == InitManager(Policy[s], Constructed, BufferNum)
<1>1. /\ phase[s] \in {"closed", "closing"}
      /\ phase' = [phase EXCEPT ![s] = "ready"]
      /\ manager' = [manager EXCEPT ![s] = m]
      /\ UNCHANGED <<streams_started, state_change, sent_frames, returned, refused>>
      /\ UNCHANGED sender_vars
  BY DEF OpenStream
<1>2. Policy[s] \in Policies
  BY PortAssumption
<1>3. Sound(m) /\ Held(m) = {} /\ m.incoming = << >> /\ m.initialized
  BY <1>2, NewManagerFacts
<1> HIDE DEF m
<1> QED BY <1>1, <1>3, ReplaceStep

\* Close, the port: the manager is gone, or initialized again.
LEMMA ClosePortStep ==
  ASSUME PortInv, NEW s \in Streams, ClosePort(s)
  PROVE  StreamStep(s, {})
<1>1. /\ phase[s] \in {"closed", "closing"} /\ phase[s] = "closing"
      /\ UNCHANGED <<streams_started, state_change, sent_frames, returned, refused>>
      /\ UNCHANGED sender_vars
  BY DEF ClosePort
<1>2. CASE /\ phase' = [phase EXCEPT ![s] = "closed"]
           /\ manager' = [manager EXCEPT ![s] = Constructed]
  <2>1. /\ Sound(Constructed) /\ Held(Constructed) = {} /\ Constructed.incoming = << >>
        /\ Constructed.initialized <=> "closed" = "ready"
    BY NewManagerFacts
  <2> QED BY <1>1, <1>2, <2>1, ReplaceStep
<1>3. CASE /\ phase' = [phase EXCEPT ![s] = "ready"]
           /\ manager' = [manager EXCEPT ![s] = InitManager(Policy[s], manager[s], BufferNum)]
  <2> DEFINE m == InitManager(Policy[s], manager[s], BufferNum)
  <2>1. Policy[s] \in Policies /\ Sound(manager[s])
    BY PortAssumption, TypeFacts
  <2>2. Held(manager[s]) = {} /\ manager[s].incoming = << >>
    <3>1. ~manager[s].initialized /\ Held(manager[s]) = {}
      BY <1>1, StreamFacts
    <3>2. Elements(manager[s].incoming) = {} /\ manager[s].incoming \in Seq(Frames)
      BY <2>1, <3>1, SoundFacts
    <3> QED BY <3>1, <3>2, EmptyFacts
  <2>3. Sound(m) /\ Held(m) = {} /\ m.incoming = << >> /\ m.initialized
    BY <2>1, <2>2, NewManagerFacts
  <2> HIDE DEF m
  <2>4. manager' = [manager EXCEPT ![s] = m]
    BY <1>3 DEF m
  <2> QED BY <1>1, <1>3, <2>3, <2>4, ReplaceStep
<1> QED BY <1>2, <1>3 DEF ClosePort

\* Close, the frame manager: every frame the stream holds is given up.
LEMMA CloseStep ==
  ASSUME PortInv, NEW s \in Streams, Close(s)
  PROVE  StreamStep(s, Held(manager[s]))
<1> DEFINE gone == Held(manager[s])
           m == ExitManager(manager[s])
<1>1. /\ phase[s] = "ready" /\ phase' = [phase EXCEPT ![s] = "closing"]
      /\ manager' = [manager EXCEPT ![s] = m]
      /\ ReleaseFrames(s, gone, Released)
      /\ streams_started' = streams_started /\ UNCHANGED sender_vars
      /\ state_change' \subseteq Streams /\ refused' \subseteq Frames
  BY TypeFacts DEF Close
<1>2. /\ manager[s].initialized /\ s \notin Elements(streams_started)
  BY <1>1, StreamFacts DEF StartedPhases
<1>3. Sound(m) /\ ~m.initialized /\ m.incoming = << >> /\ Held(m) = {}
  BY <1>2, TypeFacts, ExitManagerFacts
<1>4. GaveUp(s, gone)
  <2>1. /\ gone \in SUBSET Frames
        /\ \A f \in gone : sent_frames[f][s] \in {NotSent, NotSendingYet}
    BY TypeFacts
  <2> HIDE DEF gone
  <2> QED BY <1>1, <2>1, TypeFacts, ReleaseGivesUp
<1>5. "closing" \in Phases /\ "closing" \notin StartedPhases
  BY DEF Phases, StartedPhases
<1>6. /\ gone \in SUBSET Held(manager[s]) /\ Held(manager[s]) = gone
      /\ streams_started \in Seq(Streams) /\ Distinct(streams_started)
  BY TypeFacts
<1> HIDE DEF m, gone
<1>7. StreamStep(s, gone)
  BY <1>1, <1>2, <1>3, <1>4, <1>5, <1>6, MakeStep
<1> QED BY <1>7 DEF gone

\* Start: the stream enters the list.
LEMMA StartStep ==
  ASSUME PortInv, NEW s \in Streams, Start(s)
  PROVE  StreamStep(s, {})
<1>1. /\ phase[s] = "ready" /\ sender.pc = "idle"
      /\ streams_started' = Append(streams_started, s)
      /\ UNCHANGED <<manager, sent_frames, returned, refused>> /\ UNCHANGED sender_vars
      /\ state_change' \subseteq Streams
      /\ \/ phase' = [phase EXCEPT ![s] = "starting"]
         \/ phase' = [phase EXCEPT ![s] = "started"]
  BY TypeFacts DEF Start, NotSending
<1>2. s \notin Elements(streams_started)
  BY <1>1, StreamFacts DEF StartedPhases
<1>3. /\ Append(streams_started, s) \in Seq(Streams)
      /\ Elements(Append(streams_started, s)) = Elements(streams_started) \cup {s}
      /\ Distinct(Append(streams_started, s))
  BY <1>2, TypeFacts, AppendFacts
<1>4. /\ "starting" \in Phases /\ "starting" \in StartedPhases
      /\ "started" \in Phases /\ "started" \in StartedPhases
  BY DEF Phases, StartedPhases
<1>5. /\ Elements(Append(streams_started, s)) \ {s} = Elements(streams_started) \ {s}
      /\ s \in Elements(Append(streams_started, s))
  BY <1>3
<1> QED BY <1>1, <1>3, <1>4, <1>5, PhaseStep

\* Start: the component's answer.
LEMMA StartPortStep ==
  ASSUME PortInv, NEW s \in Streams, StartPort(s)
  PROVE  \E frames : StreamStep(s, frames)
<1>1. /\ phase[s] = "starting" /\ state_change' \subseteq Streams
      /\ UNCHANGED sender_vars /\ UNCHANGED refused
      /\ phase[s] \in StartedPhases
  BY DEF StartPort, StartedPhases
<1>2. CASE /\ phase' = [phase EXCEPT ![s] = "started"]
           /\ UNCHANGED <<streams_started, manager, sent_frames, returned>>
  <2>1. "started" \in Phases /\ "started" \in StartedPhases
    BY DEF Phases, StartedPhases
  <2>2. /\ streams_started' = streams_started /\ streams_started \in Seq(Streams)
        /\ Distinct(streams_started) /\ s \in Elements(streams_started)
    BY <1>1, <1>2, TypeFacts, StreamFacts
  <2> QED BY <1>1, <1>2, <2>1, <2>2, PhaseStep
<1>3. CASE phase' = [phase EXCEPT ![s] = "ready"] /\ RemoveStream(s)
  BY <1>1, <1>3, RemoveStep
<1> QED BY <1>2, <1>3 DEF StartPort

\* Start and Stop: the two ends of the time a stream is sendable.
LEMMA RunningStep ==
  ASSUME PortInv, NEW s \in Streams, StartCommit(s) \/ StopBegin(s)
  PROVE  StreamStep(s, {})
<1>1. PICK ph \in {"running", "stopping"} :
        /\ phase' = [phase EXCEPT ![s] = ph]
        /\ phase[s] \in {"started", "running"}
        /\ streams_started' = streams_started /\ state_change' = state_change
        /\ UNCHANGED <<manager, sent_frames, returned, refused>> /\ UNCHANGED sender_vars
  BY DEF StartCommit, StopBegin
<1>2. /\ ph \in Phases /\ ph \in StartedPhases /\ phase[s] \in StartedPhases
      /\ ph \notin {"closed", "closing"} /\ phase[s] \notin {"closed", "closing"}
  BY <1>1 DEF Phases, StartedPhases
<1>3. /\ streams_started \in Seq(Streams) /\ state_change' \subseteq Streams
      /\ Distinct(streams_started) /\ s \in Elements(streams_started)
  BY <1>1, <1>2, TypeFacts, StreamFacts
<1> QED BY <1>1, <1>2, <1>3, PhaseStep

\* Stop: the stream leaves the list.
LEMMA StopStep ==
  ASSUME PortInv, NEW s \in Streams, Stop(s)
  PROVE  StreamStep(s, Elements(manager[s].incoming))
<1>1. /\ phase[s] \in StartedPhases /\ RemoveStream(s)
      /\ UNCHANGED sender_vars /\ UNCHANGED refused
      /\ state_change' \subseteq Streams
      /\ \/ phase' = [phase EXCEPT ![s] = "stop_port"]
         \/ phase' = [phase EXCEPT ![s] = "ready"]
  BY TypeFacts DEF Stop, StartedPhases
<1> QED BY <1>1, RemoveStep

\* Stop: the component's answer; a failure puts the stream back.
LEMMA StopPortStep ==
  ASSUME PortInv, NEW s \in Streams, StopPort(s)
  PROVE  StreamStep(s, {})
<1>1. /\ phase[s] = "stop_port" /\ state_change' \subseteq Streams
      /\ UNCHANGED <<manager, sent_frames, returned, refused>> /\ UNCHANGED sender_vars
  BY DEF StopPort
<1>2. s \notin Elements(streams_started)
  BY <1>1, StreamFacts DEF StartedPhases
<1>3. CASE phase' = [phase EXCEPT ![s] = "ready"] /\ UNCHANGED streams_started
  <2>1. "ready" \in Phases /\ "ready" \notin StartedPhases
    BY DEF Phases, StartedPhases
  <2>2. /\ streams_started' = streams_started /\ streams_started \in Seq(Streams)
        /\ Distinct(streams_started)
    BY <1>3, TypeFacts
  <2> QED BY <1>1, <1>2, <1>3, <2>1, <2>2, PhaseStep
<1>4. CASE /\ sender.pc = "idle"
           /\ phase' = [phase EXCEPT ![s] = "running"]
           /\ streams_started' = Append(streams_started, s)
  <2>1. "running" \in Phases /\ "running" \in StartedPhases
    BY DEF Phases, StartedPhases
  <2>2. /\ Append(streams_started, s) \in Seq(Streams)
        /\ Elements(Append(streams_started, s)) = Elements(streams_started) \cup {s}
        /\ Distinct(Append(streams_started, s))
    BY <1>2, TypeFacts, AppendFacts
  <2>3. /\ Elements(Append(streams_started, s)) \ {s} = Elements(streams_started) \ {s}
        /\ s \in Elements(Append(streams_started, s))
    BY <2>2
  <2> QED BY <1>1, <1>4, <2>1, <2>2, <2>3, PhaseStep
<1> QED BY <1>3, <1>4 DEF StopPort, NotSending

\* So every step of a stream is one.
LEMMA StreamsStep ==
  ASSUME PortInv, NEW s \in Streams, User(s) \/ StateFunction(s)
  PROVE  \E frames : StreamStep(s, frames)
<1>1. CASE Get(s)
  BY <1>1, GetStep
<1>2. CASE Clear(s)
  BY <1>2, ClearStep
<1>3. CASE \E f \in Frames : Release(s, f)
  BY <1>3, ReleaseStep
<1>4. CASE OpenStream(s)
  BY <1>4, OpenStep
<1>5. CASE Start(s)
  BY <1>5, StartStep
<1>6. CASE StartPort(s)
  BY <1>6, StartPortStep
<1>7. CASE StartCommit(s) \/ StopBegin(s)
  BY <1>7, RunningStep
<1>8. CASE Stop(s)
  BY <1>8, StopStep
<1>9. CASE StopPort(s)
  BY <1>9, StopPortStep
<1>10. CASE Close(s)
  BY <1>10, CloseStep
<1>11. CASE ClosePort(s)
  BY <1>11, ClosePortStep
<1> QED BY <1>1, <1>2, <1>3, <1>4, <1>5, <1>6, <1>7, <1>8, <1>9, <1>10, <1>11
        DEF User, StateFunction

---------------------------------------------------------------------------
(***************************************************************************)
(* The steps of SendFrames.                                                *)
(***************************************************************************)
SenderType ==
  [pc : {"idle", "stream", "set", "failed"}, first : Nat, last : Nat,
   pos : Nat, frame : Nat, dropped : SUBSET Frames,
   todo : SUBSET Frames, result : SUBSET Frames]

\* The members of a sender.
LEMMA SenderFacts ==
  ASSUME PortInv
  PROVE  /\ sender \in SenderType
         /\ sender.pc \in {"idle", "stream", "set", "failed"}
         /\ sender.first \in Nat /\ sender.last \in Nat /\ sender.pos \in Nat
         /\ sender.frame \in Nat /\ sender.dropped \subseteq Frames
         /\ sender.todo \subseteq Frames /\ sender.result \subseteq Frames
<1>1. sender \in SenderType
  BY DEF PortInv, TypeOK, SenderType
<1> QED BY <1>1 DEF SenderType

\* The batch in progress is of frames already sent, its target a stream.
LEMMA BusyFacts ==
  ASSUME PortInv, sender.pc # "idle"
  PROVE  /\ sender.pos \in 1 .. Len(streams_started)
         /\ Target \in Streams /\ Target \in Elements(streams_started)
         /\ \A i \in 1 .. Len(streams_started) : streams_started[i] = Target => i = sender.pos
         /\ Batch \subseteq Frames /\ \A f \in Batch : f \in Nat /\ f < next
<1>1. /\ 1 <= sender.first /\ sender.first <= sender.last /\ sender.last < next
      /\ sender.pos \in 1 .. Len(streams_started)
  BY DEF PortInv, SenderSane
<1>2. Target \in Streams /\ Target \in Elements(streams_started)
  BY <1>1, TypeFacts DEF Target, Elements
<1>3. \A i \in 1 .. Len(streams_started) : streams_started[i] = Target => i = sender.pos
  BY <1>1, TypeFacts DEF Target, Distinct
<1>4. Batch \subseteq Frames /\ \A f \in Batch : f \in Nat /\ f < next
  BY <1>1, TypeFacts, SenderFacts, PortAssumption, SMTT(30) DEF Batch, Frames
<1> QED BY <1>1, <1>2, <1>3, <1>4

\* A step that only moves the sender on.
LEMMA SenderMoves ==
  ASSUME PortInv,
         UNCHANGED port_vars,
         UNCHANGED <<manager, sent_frames, next, returned, refused>>,
         sender' \in SenderType, SenderSane',
         \A f \in Frames, u \in Streams : Pending(f, u)' <=> Pending(f, u),
         \A f \in Frames : Candidate(f)' => Candidate(f)
  PROVE  PortInv'
<1>1. TypeOK'
  BY DEF PortInv, TypeOK, SenderType, port_vars
<1>2. Streaming' /\ Managers' /\ HeldSent' /\ Fresh' /\ ArrivedOnlyIfStarted'
  BY DEF PortInv, Streaming, Managers, HeldSent, Fresh, ArrivedOnlyIfStarted, port_vars
<1>3. PendingSent' /\ NoOrphan'
  BY DEF PortInv, PendingSent, NoOrphan
<1>4. CandidateFree'
  BY DEF PortInv, CandidateFree
<1> QED BY <1>1, <1>2, <1>3, <1>4 DEF PortInv

\* The sender asks the next stream whether it is sendable.
LEMMA SendStreamInv ==
  ASSUME PortInv, SendStream
  PROVE  PortInv'
<1>1. /\ sender.pc = "stream"
      /\ UNCHANGED port_vars
      /\ UNCHANGED <<manager, sent_frames, next, returned, refused>>
      /\ \/ sender' = [sender EXCEPT !.pc = "set", !.frame = sender.first,
                                     !.dropped = {}, !.todo = {}]
         \/ sender' = [sender EXCEPT !.pc = "failed", !.dropped = Batch, !.todo = Batch]
  BY DEF SendStream
<1>2. Batch \subseteq Frames /\ sender.pos \in 1 .. Len(streams_started)
  BY <1>1, BusyFacts
<1>3. /\ sender' \in SenderType
      /\ sender'.first = sender.first /\ sender'.last = sender.last
      /\ sender'.pos = sender.pos /\ sender'.result = sender.result
      /\ \/ sender'.pc = "set" /\ sender'.frame = sender.first
            /\ sender'.dropped = {} /\ sender'.todo = {}
         \/ sender'.pc = "failed" /\ sender'.dropped = Batch /\ sender'.todo = Batch
  BY <1>1, <1>2, SenderFacts DEF SenderType
<1>4. Batch' = Batch /\ streams_started' = streams_started /\ next' = next
  BY <1>1, <1>3 DEF Batch, port_vars
<1>5. \A f \in Batch : f >= sender.first
  BY SenderFacts DEF Batch
<1>6. \A f \in Frames, u \in Streams : Pending(f, u)' <=> Pending(f, u)
  BY <1>1, <1>3, <1>4, <1>5 DEF Pending
<1>7. \A f \in Frames : Candidate(f)' => Candidate(f)
  BY <1>1, <1>3, <1>4 DEF Candidate
<1>8. SenderSane'
  <2>1. /\ next \in 1 .. MaxFrames + 1
        /\ 1 <= sender.first /\ sender.first <= sender.last /\ sender.last < next
        /\ sender.pos > 1 => sender.result \subseteq Batch
    BY <1>1 DEF PortInv, SenderSane
  <2>2. sender.first \in Batch
    BY <2>1, SenderFacts DEF Batch
  <2> QED BY <1>2, <1>3, <1>4, <2>1, <2>2 DEF SenderSane
<1> QED BY <1>1, <1>3, <1>6, <1>7, <1>8, SenderMoves

\* dropped_result of the streams so far.
LEMMA ResultFacts ==
  ASSUME PortInv, sender.pc = "failed"
  PROVE  /\ Result \subseteq Batch /\ Result \subseteq Frames
         /\ \A f \in Result : Candidate(f)
<1>1. /\ sender.pos \in 1 .. Len(streams_started)
      /\ sender.dropped \subseteq Batch /\ Batch \subseteq Frames
  BY BusyFacts DEF PortInv, SenderSane
<1>2. \A f \in Result : f \in sender.dropped /\ (sender.pos > 1 => f \in sender.result)
  BY <1>1, SenderFacts DEF Result
<1> QED BY <1>1, <1>2 DEF Candidate

\* A frame every stream has dropped is with nobody.
LEMMA ResultIsFree ==
  ASSUME PortInv, SendResult, ~(sender.pos < Len(streams_started)), NEW f \in Result
  PROVE  /\ f \in Frames /\ f < next /\ returned[f] = 0
         /\ \A s \in Streams : sent_frames[f][s] # NotSendingYet
<1>1. sender.pc = "failed" /\ sender.todo = {}
  BY DEF SendResult
<1>2. f \in Frames /\ f \in Batch /\ f < next /\ Candidate(f)
  BY <1>1, ResultFacts, BusyFacts
<1>3. /\ returned[f] = 0
      /\ \A s \in Streams : f \notin Held(manager[s])
  BY <1>2 DEF PortInv, CandidateFree
<1>4. \A s \in Streams : ~Pending(f, s)
  <2>1. sender.pos = Len(streams_started)
    BY <1>1, BusyFacts, TypeFacts
  <2> QED BY <1>1, <2>1, TypeFacts DEF Pending
<1> QED BY <1>2, <1>3, <1>4 DEF PortInv, NoOrphan

\* The sender goes on to the next stream, or ends.
LEMMA SendResultInv ==
  ASSUME PortInv, SendResult
  PROVE  PortInv'
<1>1. /\ sender.pc = "failed" /\ sender.todo = {}
      /\ UNCHANGED port_vars /\ streams_started' = streams_started
      /\ UNCHANGED <<manager, sent_frames, next, refused>>
  BY DEF SendResult, port_vars
<1>2. /\ Result \subseteq Batch /\ Result \subseteq Frames
      /\ \A f \in Result : Candidate(f)
  BY <1>1, ResultFacts
<1>3. sender.pos \in 1 .. Len(streams_started) /\ Len(streams_started) \in Nat
  BY <1>1, BusyFacts, TypeFacts
<1>4. CASE sender.pos < Len(streams_started)
  <2>1. /\ sender' = [sender EXCEPT !.pc = "stream", !.pos = sender.pos + 1,
                                    !.result = Result]
        /\ returned' = returned
    BY <1>4 DEF SendResult
  <2>2. /\ sender' \in SenderType
        /\ sender'.first = sender.first /\ sender'.last = sender.last
        /\ sender'.pos = sender.pos + 1 /\ sender'.result = Result
        /\ sender'.pc = "stream" /\ sender'.todo = {}
    <3> DEFINE p == sender.pos + 1
               r == Result
    <3>1. p \in Nat /\ r \subseteq Frames
      BY <1>2, SenderFacts
    <3>2. sender' = [sender EXCEPT !.pc = "stream", !.pos = p, !.result = r]
      BY <2>1
    <3> HIDE DEF p, r
    <3>3. /\ sender' \in SenderType
          /\ sender'.first = sender.first /\ sender'.last = sender.last
          /\ sender'.pos = p /\ sender'.result = r
          /\ sender'.pc = "stream" /\ sender'.todo = {}
      BY <1>1, <3>1, <3>2, SenderFacts DEF SenderType
    <3> QED BY <3>3 DEF p, r
  <2>3. Batch' = Batch
    BY <2>2 DEF Batch
  <2>4. \A f \in Frames, u \in Streams : Pending(f, u)' <=> Pending(f, u)
    <3>1. \A i \in 1 .. Len(streams_started) :
            (i \in sender.pos .. Len(streams_started) /\ i > sender.pos)
              <=> i \in sender.pos + 1 .. Len(streams_started)
      BY <1>3
    <3> QED BY <1>1, <1>3, <2>2, <2>3, <3>1 DEF Pending
  <2>5. \A f \in Frames : Candidate(f)' => Candidate(f)
    <3>1. \A f \in Frames : Candidate(f)' => f \in Result
      BY <1>3, <2>2 DEF Candidate
    <3> QED BY <3>1, <1>2
  <2>6. SenderSane'
    <3>1. /\ next \in 1 .. MaxFrames + 1
          /\ 1 <= sender.first /\ sender.first <= sender.last /\ sender.last < next
      BY <1>1 DEF PortInv, SenderSane
    <3>2. sender.pos + 1 \in 1 .. Len(streams_started)
      BY <1>3, <1>4
    <3> QED BY <1>1, <1>2, <2>2, <2>3, <3>1, <3>2 DEF SenderSane
  <2> QED BY <1>1, <2>1, <2>2, <2>4, <2>5, <2>6, SenderMoves
<1>5. CASE ~(sender.pos < Len(streams_started))
  <2>1. /\ sender' = Idle
        /\ returned' = [f \in Frames |->
                          IF f \in Result THEN returned[f] + 1 ELSE returned[f]]
    BY <1>5 DEF SendResult
  <2>2. /\ sender' \in SenderType /\ sender'.pc = "idle" /\ sender'.todo = {}
    BY <2>1 DEF Idle, SenderType
  <2>3. \A f \in Frames, u \in Streams : ~Pending(f, u)' /\ ~Pending(f, u)
    <3>1. sender.pos = Len(streams_started)
      BY <1>3, <1>5
    <3> QED BY <1>1, <2>2, <3>1, <1>3 DEF Pending
  <2>4. \A f \in Frames : ~Candidate(f)'
    BY <2>2 DEF Candidate
  <2>5. \A f \in Frames : f \in Result => f < next /\ f \in Nat
    BY <1>1, <1>2, BusyFacts
  <2>6. /\ returned' \in [Frames -> Nat]
        /\ \A f \in Frames : f >= next => returned'[f] = returned[f]
    BY <2>1, <2>5, TypeFacts DEF Frames
  <2>7. TypeOK'
    BY <1>1, <2>2, <2>6 DEF PortInv, TypeOK, SenderType, port_vars
  <2>8. Streaming' /\ Managers' /\ HeldSent' /\ ArrivedOnlyIfStarted'
    BY <1>1 DEF PortInv, Streaming, Managers, HeldSent, ArrivedOnlyIfStarted, port_vars
  <2>9. SenderSane'
    BY <1>1, <2>2 DEF PortInv, SenderSane
  <2>10. PendingSent' /\ NoOrphan' /\ CandidateFree'
    BY <1>1, <2>3, <2>4 DEF PortInv, PendingSent, NoOrphan, CandidateFree
  <2>11. Fresh'
    BY <1>1, <2>6 DEF PortInv, Fresh
  <2> QED BY <2>7, <2>8, <2>9, <2>10, <2>11 DEF PortInv
<1> QED BY <1>4, <1>5

\* A batch is registered for every started stream, or dropped at once.
LEMMA SendBeginInv ==
  ASSUME PortInv, SendBegin
  PROVE  PortInv'
<1>1. PICK n \in 1 .. MaxBatch :
        /\ sender.pc = "idle" /\ next + n - 1 <= MaxFrames /\ next' = next + n
        /\ LET batch == next .. next + n - 1 IN
           IF streams_started = << >>
           THEN /\ returned' = [f \in Frames |->
                                  IF f \in batch THEN returned[f] + 1 ELSE returned[f]]
                /\ UNCHANGED <<sent_frames, sender>>
           ELSE /\ sent_frames' =
                     [f \in Frames |-> [s \in Streams |->
                        IF f \in batch /\ s \in Elements(streams_started)
                        THEN NotSendingYet ELSE sent_frames[f][s]]]
                /\ sender' = [Idle EXCEPT !.pc = "stream", !.pos = 1,
                                          !.first = next, !.last = next + n - 1]
                /\ UNCHANGED returned
        /\ UNCHANGED port_vars /\ UNCHANGED <<manager, refused>>
  BY DEF SendBegin, NotSending
<1> DEFINE batch == next .. next + n - 1
<1>2. /\ n \in Nat /\ n >= 1 /\ next \in Nat /\ next >= 1 /\ MaxFrames \in Nat
      /\ next' \in 1 .. MaxFrames + 1
      /\ next' = next + n /\ next' > next
      /\ batch \subseteq Frames /\ next \in batch
      /\ \A f \in batch : f >= next /\ f < next'
  <2>1. next \in Nat /\ next >= 1 /\ MaxFrames \in Nat /\ MaxBatch \in Nat
    BY TypeFacts, PortAssumption
  <2>2. n \in 1 .. MaxBatch /\ next + n - 1 <= MaxFrames /\ next' = next + n
    BY <1>1
  <2> QED BY <2>1, <2>2 DEF Frames
<1>3. /\ streams_started' = streams_started /\ phase' = phase
      /\ state_change' = state_change /\ manager' = manager /\ refused' = refused
  BY <1>1 DEF port_vars
<1>4. Streaming' /\ Managers' /\ ArrivedOnlyIfStarted'
  BY <1>3 DEF PortInv, Streaming, Managers, ArrivedOnlyIfStarted
<1>5. \A f \in batch : /\ returned[f] = 0
                       /\ \A s \in Streams : /\ sent_frames[f][s] = NotSent
                                             /\ f \notin Held(manager[s])
  BY <1>2 DEF PortInv, Fresh
<1>6. \A f \in Frames : f >= next' => f >= next /\ f \notin batch
  BY <1>2 DEF Frames
<1>7. CASE streams_started = << >>
  <2>1. /\ returned' = [f \in Frames |->
                          IF f \in batch THEN returned[f] + 1 ELSE returned[f]]
        /\ sent_frames' = sent_frames /\ sender' = sender
    BY <1>1, <1>7
  <2>2. /\ returned' \in [Frames -> Nat]
        /\ \A f \in Frames : f \notin batch => returned'[f] = returned[f]
    BY <2>1, TypeFacts
  <2>3. TypeOK'
    BY <1>2, <1>3, <2>1, <2>2 DEF PortInv, TypeOK
  <2>4. \A f \in Frames, s \in Streams : ~Pending(f, s)' /\ ~Pending(f, s)
    BY <1>1, <2>1 DEF Pending
  <2>5. \A f \in Frames : ~Candidate(f)'
    BY <1>1, <2>1 DEF Candidate
  <2>6. SenderSane' /\ HeldSent'
    BY <1>1, <1>2, <1>3, <2>1 DEF PortInv, SenderSane, HeldSent
  <2>7. PendingSent' /\ NoOrphan' /\ CandidateFree'
    BY <1>3, <2>1, <2>4, <2>5 DEF PortInv, PendingSent, NoOrphan, CandidateFree
  <2>8. Fresh'
    BY <1>3, <1>6, <2>1, <2>2 DEF PortInv, Fresh
  <2> QED BY <1>4, <2>3, <2>6, <2>7, <2>8 DEF PortInv
<1>8. CASE streams_started # << >>
  <2> DEFINE last == next + n - 1
  <2>1. /\ sent_frames' = [f \in Frames |-> [s \in Streams |->
                             IF f \in batch /\ s \in Elements(streams_started)
                             THEN NotSendingYet ELSE sent_frames[f][s]]]
        /\ sender' = [Idle EXCEPT !.pc = "stream", !.pos = 1,
                                  !.first = next, !.last = last]
        /\ returned' = returned
    BY <1>1, <1>8
  <2>2. last \in Nat /\ last < next' /\ next <= last
    BY <1>2
  <2>3. batch = next .. last
    OBVIOUS
  <2> HIDE DEF batch, last
  <2>4. /\ sender' \in SenderType
        /\ sender'.pc = "stream" /\ sender'.pos = 1 /\ sender'.first = next
        /\ sender'.last = last /\ sender'.todo = {}
    BY <1>2, <2>1, <2>2 DEF Idle, SenderType
  <2>5. Batch' = batch
    BY <2>3, <2>4 DEF Batch
  <2>6. /\ \A f \in Frames, s \in Streams : sent_frames'[f][s] =
             IF f \in batch /\ s \in Elements(streams_started)
             THEN NotSendingYet ELSE sent_frames[f][s]
        /\ sent_frames' \in [Frames -> [Streams -> SentType]]
    BY <2>1, TypeFacts DEF SentType
  <2>7. TypeOK'
    <3>1. returned' \in [Frames -> Nat] /\ next' \in Nat
      BY <1>2, <2>1, TypeFacts
    <3>2. /\ phase' \in [Streams -> Phases] /\ streams_started' \in Seq(Streams)
          /\ state_change' \subseteq Streams /\ refused' \subseteq Frames
          /\ manager' \in [Streams -> ManagerType(Frames)]
      BY <1>3, TypeFacts
    <3> QED BY <2>4, <2>6, <3>1, <3>2 DEF TypeOK, SenderType, SentType
  <2>8. Len(streams_started) >= 1
    BY <1>8, TypeFacts, EmptyFacts
  <2>9. \A f \in Frames, s \in Streams :
          Pending(f, s)' <=> f \in batch /\ s \in Elements(streams_started)
    BY <1>3, <2>4, <2>5, <2>8, TypeFacts DEF Pending, Elements
  <2>10. \A f \in Frames, s \in Streams : ~Pending(f, s)
    BY <1>1 DEF Pending
  <2>11. \A f \in Frames : Candidate(f)' => f \in batch
    BY <2>5 DEF Candidate
  <2>12. SenderSane'
    <3>1. 1 \in 1 .. Len(streams_started)
      BY <2>8, TypeFacts
    <3> QED BY <1>2, <1>3, <2>2, <2>4, <3>1 DEF SenderSane
  <2>13. HeldSent'
    <3> SUFFICES ASSUME NEW s \in Streams, NEW f \in Held(manager[s])
                 PROVE  sent_frames'[f][s] \in {NotSendingYet, NotSent}
      BY <1>3 DEF HeldSent
    <3>1. f \notin batch /\ f \in Frames /\ sent_frames[f][s] \in {NotSendingYet, NotSent}
      BY <1>5, TypeFacts
    <3> QED BY <3>1, <2>6
  <2>14. PendingSent'
    BY <1>3, <1>5, <2>6, <2>9 DEF PendingSent
  <2>15. Fresh'
    BY <1>3, <1>6, <2>1, <2>6 DEF PortInv, Fresh
  <2>16. CandidateFree'
    BY <1>3, <1>5, <2>1, <2>6, <2>11, StateNames DEF CandidateFree
  <2>17. NoOrphan'
    BY <1>3, <2>6, <2>9, <2>10 DEF PortInv, NoOrphan
  <2> QED BY <1>4, <2>7, <2>12, <2>13, <2>14, <2>15, <2>16, <2>17 DEF PortInv
<1> QED BY <1>7, <1>8

(***************************************************************************)
(* The sender gives frames up for the stream s it offers the batch to,     *)
(* which takes some of those still to be offered.  What is pending shrinks *)
(* by just these frames, and a frame that may still be dropped by all is   *)
(* not among them, unless it was given up as a dropped one.                *)
(***************************************************************************)
Offers(s, frames, taken, m) ==
  /\ frames \subseteq Frames /\ taken \subseteq Batch
  /\ \A f \in frames : f \in Batch \/ f \in Held(manager[s])
  /\ GaveUp(s, frames)
  /\ UNCHANGED port_vars /\ UNCHANGED <<next, refused>>
  /\ manager' = [manager EXCEPT ![s] = m]
  /\ Sound(m) /\ m.initialized = manager[s].initialized
  /\ Held(m) = (Held(manager[s]) \ frames) \cup taken
  /\ sender' \in SenderType /\ SenderSane'
  /\ \A f \in taken : Pending(f, s) /\ f \notin frames /\ ~Candidate(f)'
  /\ \A f \in Frames : Pending(f, s)' => f \notin frames /\ f \notin taken
  /\ \A f \in Frames, u \in Streams : Pending(f, u)' => Pending(f, u)
  /\ \A f \in Frames, u \in Streams : Pending(f, u) =>
       Pending(f, u)' \/ (u = s /\ (f \in frames \/ f \in taken))
  /\ \A f \in Frames : Candidate(f)' =>
       /\ Candidate(f)
       /\ \/ f \notin frames
          \/ /\ returned'[f] = returned[f]
             /\ \A u \in Streams : sent_frames'[f][u] # Released

\* Such a step keeps the invariant.
LEMMA OffersInv ==
  ASSUME PortInv, sender.pc # "idle", NEW s, s = Target,
         NEW frames, NEW taken, NEW m, Offers(s, frames, taken, m)
  PROVE  PortInv'
<1>0. /\ frames \subseteq Frames /\ taken \subseteq Batch
      /\ \A f \in frames : f \in Batch \/ f \in Held(manager[s])
      /\ GaveUp(s, frames)
      /\ UNCHANGED port_vars /\ UNCHANGED <<next, refused>>
      /\ manager' = [manager EXCEPT ![s] = m]
      /\ Sound(m) /\ m.initialized = manager[s].initialized
      /\ Held(m) = (Held(manager[s]) \ frames) \cup taken
      /\ sender' \in SenderType /\ SenderSane'
      /\ \A f \in taken : Pending(f, s) /\ f \notin frames /\ ~Candidate(f)'
      /\ \A f \in Frames : Pending(f, s)' => f \notin frames /\ f \notin taken
      /\ \A f \in Frames, u \in Streams : Pending(f, u)' => Pending(f, u)
      /\ \A f \in Frames, u \in Streams : Pending(f, u) =>
           Pending(f, u)' \/ (u = s /\ (f \in frames \/ f \in taken))
      /\ \A f \in Frames : Candidate(f)' =>
           /\ Candidate(f)
           /\ \/ f \notin frames
              \/ /\ returned'[f] = returned[f]
                 /\ \A u \in Streams : sent_frames'[f][u] # Released
  BY DEF Offers
<1>1. /\ s \in Streams /\ s \in Elements(streams_started)
      /\ Batch \subseteq Frames /\ \A f \in Batch : f \in Nat /\ f < next
  BY <1>0, BusyFacts
<1>2. /\ streams_started' = streams_started /\ phase' = phase
      /\ state_change' = state_change /\ refused' = refused /\ next' = next
  BY <1>0 DEF port_vars
<1>3. /\ manager' \in [Streams -> ManagerType(Frames)] /\ manager'[s] = m
      /\ \A u \in Streams : u # s => manager'[u] = manager[u]
  BY <1>0, <1>1, TypeFacts DEF Sound
<1>4. /\ Held(manager'[s]) = (Held(manager[s]) \ frames) \cup taken
      /\ frames \subseteq Frames /\ taken \subseteq Frames
      /\ \A f \in taken : sent_frames[f][s] = NotSendingYet /\ f \notin frames
      /\ \A f \in frames : f < next
      /\ \A f \in taken : f < next
  <2>1. Held(manager[s]) \subseteq Frames /\ \A f \in Held(manager[s]) : f < next
    <3>1. \A f \in Frames : f \in Held(manager[s]) => ~(f >= next)
      BY <1>0, <1>1 DEF PortInv, Fresh
    <3> QED BY <1>0, <1>1, <3>1, TypeFacts DEF Frames
  <2>2. \A f \in taken : f \in Frames /\ Pending(f, s) /\ f \notin frames
    BY <1>0, <1>1
  <2>3. \A f \in taken : sent_frames[f][s] = NotSendingYet
    BY <1>0, <1>1, <2>2 DEF PortInv, PendingSent
  <2> QED BY <1>0, <1>1, <1>3, <2>1, <2>2, <2>3
<1>5. /\ \A f \in Frames : f \notin frames =>
           sent_frames'[f] = sent_frames[f] /\ returned'[f] = returned[f]
      /\ \A f \in frames : sent_frames'[f][s] # NotSendingYet
      /\ \A f \in frames : \A u \in Streams : u # s =>
           \/ sent_frames'[f][u] = sent_frames[f][u]
           \/ sent_frames'[f][u] = NotSent /\ sent_frames[f][u] # NotSendingYet
      /\ sent_frames' \in [Frames -> [Streams -> SentType]]
      /\ returned' \in [Frames -> Nat]
  BY <1>0 DEF GaveUp
<1>6. TypeOK'
  BY <1>0, <1>2, <1>3, <1>5, TypeFacts DEF TypeOK, SentType, SenderType
<1>7. Streaming'
  BY <1>0, <1>2 DEF PortInv, Streaming
<1>8. Managers'
  <2> SUFFICES ASSUME NEW u \in Streams
               PROVE  /\ Sound(manager'[u])
                      /\ manager'[u].initialized <=> phase[u] \notin {"closed", "closing"}
                      /\ ~manager'[u].initialized => Held(manager'[u]) = {}
    BY <1>0, <1>2 DEF Managers
  <2>1. CASE u = s
    <3>1. phase[s] \notin {"closed", "closing"} /\ manager[s].initialized
      BY <1>0, <1>1, StreamFacts DEF StartedPhases
    <3> QED BY <1>0, <1>3, <2>1, <3>1
  <2>2. CASE u # s
    BY <1>0, <1>3, <2>2, StreamFacts
  <2> QED BY <1>0, <2>1, <2>2
<1>9. HeldSent'
  <2> SUFFICES ASSUME NEW u \in Streams, NEW f \in Held(manager'[u])
               PROVE  sent_frames'[f][u] \in {NotSendingYet, NotSent}
    BY <1>0 DEF HeldSent
  <2>1. CASE u = s
    <3>1. f \in Frames /\ f \notin frames /\ sent_frames[f][s] \in {NotSendingYet, NotSent}
      BY <1>0, <1>1, <1>4, <2>1, TypeFacts
    <3> QED BY <1>0, <1>5, <2>1, <3>1
  <2>2. CASE u # s
    <3>1. f \in Frames /\ sent_frames[f][u] \in {NotSendingYet, NotSent}
      BY <1>0, <1>3, <2>2, TypeFacts
    <3> QED BY <1>0, <1>5, <2>2, <3>1
  <2> QED BY <1>0, <2>1, <2>2
<1>10. PendingSent'
  <2> SUFFICES ASSUME NEW f \in Frames, NEW u \in Streams, Pending(f, u)'
               PROVE  sent_frames'[f][u] = NotSendingYet /\ f \notin Held(manager'[u])
    BY <1>0 DEF PendingSent
  <2>1. /\ Pending(f, u) /\ sent_frames[f][u] = NotSendingYet /\ f \notin Held(manager[u])
        /\ u = s => f \notin frames /\ f \notin taken
    BY <1>0 DEF PortInv, PendingSent
  <2> QED BY <1>0, <1>3, <1>4, <1>5, <2>1
<1>11. Fresh'
  <2> SUFFICES ASSUME NEW f \in Frames, f >= next
               PROVE  /\ returned'[f] = 0
                      /\ \A u \in Streams :
                           sent_frames'[f][u] = NotSent /\ f \notin Held(manager'[u])
    BY <1>0, <1>2 DEF Fresh
  <2>1. f \notin frames /\ f \notin taken
    BY <1>0, <1>4, TypeFacts DEF Frames
  <2>2. /\ returned[f] = 0
        /\ \A u \in Streams : sent_frames[f][u] = NotSent /\ f \notin Held(manager[u])
    BY <1>0 DEF PortInv, Fresh
  <2> QED BY <1>0, <1>3, <1>4, <1>5, <2>1, <2>2
<1>12. CandidateFree'
  <2> SUFFICES ASSUME NEW f \in Frames, Candidate(f)'
               PROVE  /\ returned'[f] = 0
                      /\ \A u \in Streams :
                           sent_frames'[f][u] # Released /\ f \notin Held(manager'[u])
    BY <1>0 DEF CandidateFree
  <2>1. /\ Candidate(f) /\ f \notin taken
        /\ \/ f \notin frames
           \/ /\ returned'[f] = returned[f]
              /\ \A u \in Streams : sent_frames'[f][u] # Released
    BY <1>0
  <2>2. /\ returned[f] = 0
        /\ \A u \in Streams : sent_frames[f][u] # Released /\ f \notin Held(manager[u])
    BY <1>0, <2>1 DEF PortInv, CandidateFree
  <2> QED BY <1>0, <1>3, <1>4, <1>5, <2>1, <2>2
<1>13. NoOrphan'
  <2> SUFFICES ASSUME NEW f \in Frames, NEW u \in Streams,
                      sent_frames'[f][u] = NotSendingYet
               PROVE  f \in Held(manager'[u]) \/ Pending(f, u)'
    BY <1>0 DEF NoOrphan
  <2>1. sent_frames[f][u] = NotSendingYet /\ (u = s => f \notin frames)
    BY <1>0, <1>5, StateNames
  <2>2. f \in Held(manager[u]) \/ Pending(f, u)
    BY <1>0, <2>1 DEF PortInv, NoOrphan
  <2>3. Pending(f, u) => Pending(f, u)' \/ (u = s /\ (f \in frames \/ f \in taken))
    BY <1>0
  <2> QED BY <1>0, <1>3, <1>4, <2>1, <2>2, <2>3
<1>14. ArrivedOnlyIfStarted'
  <2> SUFFICES ASSUME NEW u \in Streams, manager'[u].incoming # << >>
               PROVE  u \in Elements(streams_started)
    BY <1>0, <1>2 DEF ArrivedOnlyIfStarted
  <2> QED BY <1>0, <1>1, <1>3 DEF PortInv, ArrivedOnlyIfStarted
<1> QED BY <1>0, <1>6, <1>7, <1>8, <1>9, <1>10, <1>11, <1>12, <1>13, <1>14 DEF PortInv

\* The sender reports a dropped frame.
LEMMA SendFailedInv ==
  ASSUME PortInv, SendFailed
  PROVE  PortInv'
<1>s. PICK s : s = Target
  OBVIOUS
<1>1. PICK f \in sender.todo :
        /\ ReleaseFrames(Target, {f}, SendingFailed)
        /\ sender' = [sender EXCEPT !.todo = sender.todo \ {f}]
  BY DEF SendFailed
<1>2. /\ sender.pc = "failed" /\ UNCHANGED port_vars
      /\ UNCHANGED <<manager, next, refused>> /\ streams_started' = streams_started
  BY DEF SendFailed, port_vars
<1>3. /\ sender.pos \in 1 .. Len(streams_started) /\ s \in Streams
      /\ \A i \in 1 .. Len(streams_started) : streams_started[i] = s => i = sender.pos
      /\ Batch \subseteq Frames
      /\ streams_started[sender.pos] = s
  BY <1>s, <1>2, BusyFacts DEF Target
<1>0. ReleaseFrames(s, {f}, SendingFailed)
  BY <1>s, <1>1
<1>4. /\ sender.dropped \subseteq Batch /\ sender.todo \subseteq sender.dropped
      /\ f \in Batch /\ f \in sender.dropped /\ f \in Frames
  BY <1>1, <1>2, <1>3 DEF PortInv, SenderSane
<1> DEFINE left == sender.todo \ {f}
<1>5. left \subseteq Frames /\ sender' = [sender EXCEPT !.todo = left]
  BY <1>1, SenderFacts
<1>6. /\ sender' \in SenderType /\ sender'.todo = left
      /\ sender'.pc = "failed" /\ sender'.first = sender.first
      /\ sender'.last = sender.last /\ sender'.pos = sender.pos
      /\ sender'.frame = sender.frame /\ sender'.dropped = sender.dropped
      /\ sender'.result = sender.result
  <2> HIDE DEF left
  <2> QED BY <1>2, <1>5, SenderFacts DEF SenderType
<1>7. Batch' = Batch
  BY <1>6 DEF Batch
<1>8. Pending(f, s)
  BY <1>1, <1>2, <1>3, <1>4, TypeFacts DEF Pending
<1>9. sent_frames[f][s] = NotSendingYet /\ f \notin Held(manager[s])
  BY <1>3, <1>4, <1>8 DEF PortInv, PendingSent
<1>10. GaveUp(s, {f})
  <2>1. /\ \A g \in {f} : sent_frames[g][s] \in {NotSent, NotSendingYet}
        /\ {f} \in SUBSET Frames /\ SendingFailed \in {SendingFailed, Released}
    BY <1>4, <1>9
  <2> QED BY <1>0, <1>3, <2>1, TypeFacts, ReleaseGivesUp
<1>11. \A g \in Frames, u \in Streams :
         Pending(g, u)' <=> Pending(g, u) /\ ~(u = s /\ g = f)
  <2> SUFFICES ASSUME NEW g \in Frames, NEW u \in Streams
               PROVE  Pending(g, u)' <=> Pending(g, u) /\ ~(u = s /\ g = f)
    OBVIOUS
  <2>1. Pending(g, u) <=>
          /\ g \in Batch
          /\ \E i \in sender.pos .. Len(streams_started) :
               streams_started[i] = u /\ (i > sender.pos \/ g \in sender.todo)
    BY <1>2 DEF Pending
  <2>2. Pending(g, u)' <=>
          /\ g \in Batch
          /\ \E i \in sender.pos .. Len(streams_started) :
               streams_started[i] = u /\ (i > sender.pos \/ g \in left)
    BY <1>2, <1>6, <1>7 DEF Pending
  <2>3. \A i \in sender.pos .. Len(streams_started) :
          streams_started[i] = s => ~(i > sender.pos)
    BY <1>3, TypeFacts
  <2>4. \A i \in sender.pos .. Len(streams_started) :
          i = sender.pos \/ i > sender.pos
    BY <1>3, TypeFacts
  <2>5. /\ sender.pos \in sender.pos .. Len(streams_started)
        /\ ~(sender.pos > sender.pos) /\ streams_started[sender.pos] = s
        /\ f \in sender.todo
    BY <1>1, <1>3, TypeFacts
  <2>6. CASE u = s
    <3>1. Pending(g, u) <=> g \in Batch /\ g \in sender.todo
      BY <2>1, <2>3, <2>5, <2>6
    <3>2. Pending(g, u)' <=> g \in Batch /\ g \in left
      BY <2>2, <2>3, <2>5, <2>6
    <3> QED BY <2>6, <3>1, <3>2
  <2>7. CASE u # s
    <3>1. \A i \in sender.pos .. Len(streams_started) :
            streams_started[i] = u => i > sender.pos
      BY <2>4, <2>5, <2>7
    <3> QED BY <2>1, <2>2, <2>7, <3>1
  <2> QED BY <2>6, <2>7
<1>12. \A g \in Frames : Candidate(g)' <=> Candidate(g)
  BY <1>2, <1>6, <1>7 DEF Candidate
<1>13. \A g \in Frames : Candidate(g)' =>
         /\ Candidate(g)
         /\ \/ g \notin {f}
            \/ /\ returned'[g] = returned[g]
               /\ \A u \in Streams : sent_frames'[g][u] # Released
  <2> SUFFICES ASSUME Candidate(f)
               PROVE  /\ returned'[f] = returned[f]
                      /\ \A u \in Streams : sent_frames'[f][u] # Released
    BY <1>12
  <2>1. \A u \in Streams : sent_frames[f][u] # Released
    BY <1>4 DEF PortInv, CandidateFree
  <2> QED BY <1>0, <1>3, <1>4, <2>1, TypeFacts, DropReturnsNothing
<1>14. SenderSane'
  <2>1. /\ next \in 1 .. MaxFrames + 1
        /\ 1 <= sender.first /\ sender.first <= sender.last /\ sender.last < next
        /\ sender.pos > 1 => sender.result \subseteq Batch
    BY <1>2 DEF PortInv, SenderSane
  <2>2. left \subseteq sender.dropped
    BY <1>4
  <2> QED BY <1>2, <1>3, <1>4, <1>6, <1>7, <2>1, <2>2 DEF SenderSane
<1> DEFINE m == manager[s]
<1>15. /\ manager' = [manager EXCEPT ![s] = m]
       /\ Sound(m) /\ m.initialized = manager[s].initialized
       /\ Held(m) = (Held(manager[s]) \ {f}) \cup {}
       /\ {f} \in SUBSET Frames /\ \A g \in {f} : g \in Batch \/ g \in Held(manager[s])
       /\ {} \in SUBSET Batch
  BY <1>2, <1>3, <1>4, <1>9, TypeFacts
<1> HIDE DEF m, left
<1>16. /\ \A g \in Frames : Pending(g, s)' => g \notin {f} /\ g \notin {}
       /\ \A g \in Frames, u \in Streams : Pending(g, u)' => Pending(g, u)
       /\ \A g \in Frames, u \in Streams : Pending(g, u) =>
            Pending(g, u)' \/ (u = s /\ (g \in {f} \/ g \in {}))
  BY <1>3, <1>11
<1>17. UNCHANGED port_vars /\ UNCHANGED <<next, refused>> /\ sender.pc # "idle"
  BY <1>2
<1>18. \A g \in {} : Pending(g, s) /\ g \notin {f} /\ ~Candidate(g)'
  OBVIOUS
<1>19. Offers(s, {f}, {}, m)
  BY <1>6, <1>10, <1>13, <1>14, <1>15, <1>16, <1>17, <1>18 DEF Offers
<1> QED BY <1>s, <1>17, <1>19, OffersInv

\* The sender sets a frame in a stream, which may push others out.
LEMMA SendSetInv ==
  ASSUME PortInv, SendSet
  PROVE  PortInv'
<1>s. PICK s : s = Target
  OBVIOUS
<1> DEFINE f == sender.frame
           b == SetResult(Policy[s], manager[s])
           m == SetFrame(Policy[s], manager[s], f)
           dropped == IF b.found THEN sender.dropped ELSE sender.dropped \cup {f}
           taken == IF b.found THEN {f} ELSE {}
<1>1. /\ sender.pc = "set"
      /\ manager' = [manager EXCEPT ![s] = m]
      /\ ReleaseFrames(s, b.evicted, Released)
      /\ sender' = IF f < sender.last
                   THEN [sender EXCEPT !.frame = f + 1, !.dropped = dropped]
                   ELSE [sender EXCEPT !.pc = "failed", !.dropped = dropped, !.todo = dropped]
      /\ UNCHANGED port_vars /\ UNCHANGED <<next, refused>>
  BY <1>s DEF SendSet
<1>2. /\ sender.pos \in 1 .. Len(streams_started) /\ s \in Streams
      /\ \A i \in 1 .. Len(streams_started) : streams_started[i] = s => i = sender.pos
      /\ Batch \subseteq Frames
      /\ streams_started[sender.pos] = s
      /\ streams_started' = streams_started
  BY <1>s, <1>1, BusyFacts DEF Target, port_vars
<1>3. /\ f \in Batch /\ f \in Frames
      /\ \A g \in sender.dropped : g \in Batch /\ g < f
      /\ sender.todo = {}
      /\ next \in 1 .. MaxFrames + 1
      /\ 1 <= sender.first /\ sender.first <= sender.last /\ sender.last < next
      /\ sender.pos > 1 => sender.result \subseteq Batch
  BY <1>1, <1>2 DEF PortInv, SenderSane
<1>4. /\ f \in Nat /\ sender.first \in Nat /\ sender.last \in Nat
      /\ f >= sender.first /\ f <= sender.last
      /\ Batch = sender.first .. sender.last
  BY <1>3, SenderFacts DEF Batch
<1> HIDE DEF f
<1>5. Pending(f, s)
  BY <1>s, <1>1, <1>2, <1>3, <1>4 DEF Pending, f
<1>6. f \notin Held(manager[s]) /\ Policy[s] \in Policies /\ Sound(manager[s])
  BY <1>2, <1>3, <1>5, TypeFacts, PortAssumption DEF PortInv, PendingSent
<1>7. /\ Sound(m) /\ m.initialized = manager[s].initialized
      /\ b.found \in BOOLEAN /\ b.evicted \subseteq Held(manager[s])
      /\ Held(m) = (Held(manager[s]) \ b.evicted) \cup taken
  BY <1>3, <1>6, SetFrameFacts
<1>8. /\ dropped \subseteq Batch /\ taken \subseteq Batch
      /\ \A g \in taken : g = f /\ g \notin dropped
      /\ f \in dropped \/ f \in taken
      /\ \A g \in Batch : g # f => (g \in dropped <=> g \in sender.dropped)
      /\ dropped \subseteq Frames
      /\ \A g \in dropped : g \in Batch /\ g < f + 1
  BY <1>2, <1>3, <1>4, <1>7
<1> DEFINE gone == b.evicted
<1>9. GaveUp(s, gone)
  <2>1. /\ \A g \in gone : sent_frames[g][s] \in {NotSent, NotSendingYet}
        /\ gone \in SUBSET Frames
    BY <1>2, <1>7, TypeFacts
  <2>2. ReleaseFrames(s, gone, Released)
    BY <1>1
  <2> HIDE DEF gone
  <2> QED BY <1>2, <2>1, <2>2, TypeFacts, ReleaseGivesUp
<1> HIDE DEF b, m, dropped, taken, gone
<1>10. /\ sender' \in SenderType
       /\ sender'.first = sender.first /\ sender'.last = sender.last
       /\ sender'.pos = sender.pos /\ sender'.result = sender.result
       /\ sender'.dropped = dropped
       /\ \/ f < sender.last /\ sender'.pc = "set" /\ sender'.frame = f + 1
             /\ sender'.todo = {}
          \/ f = sender.last /\ sender'.pc = "failed" /\ sender'.todo = dropped
  <2>1. CASE f < sender.last
    <3> DEFINE g == f + 1
    <3>1. g \in Nat /\ sender' = [sender EXCEPT !.frame = g, !.dropped = dropped]
      BY <1>1, <1>4, <2>1
    <3> HIDE DEF g
    <3>2. /\ sender' \in SenderType
          /\ sender'.first = sender.first /\ sender'.last = sender.last
          /\ sender'.pos = sender.pos /\ sender'.result = sender.result
          /\ sender'.dropped = dropped
          /\ sender'.pc = "set" /\ sender'.frame = g /\ sender'.todo = {}
      BY <1>1, <1>3, <1>8, <3>1, SenderFacts DEF SenderType
    <3> QED BY <2>1, <3>2 DEF g
  <2>2. CASE ~(f < sender.last)
    <3>1. sender' = [sender EXCEPT !.pc = "failed", !.dropped = dropped, !.todo = dropped]
          /\ f = sender.last
      BY <1>1, <1>4, <2>2
    <3> QED BY <1>8, <3>1, SenderFacts DEF SenderType
  <2> QED BY <2>1, <2>2
<1>11. Batch' = Batch
  BY <1>10 DEF Batch
<1>12. \A g \in Frames, u \in Streams :
         Pending(g, u)' <=> Pending(g, u) /\ ~(u = s /\ g \in taken)
  <2> SUFFICES ASSUME NEW g \in Frames, NEW u \in Streams
               PROVE  Pending(g, u)' <=> Pending(g, u) /\ ~(u = s /\ g \in taken)
    OBVIOUS
  <2>1. Pending(g, u) <=>
          /\ g \in Batch
          /\ \E i \in sender.pos .. Len(streams_started) :
               /\ streams_started[i] = u
               /\ i > sender.pos \/ g >= f \/ g \in sender.dropped
    BY <1>1, <1>3 DEF Pending, f
  <2>2. Pending(g, u)' <=>
          /\ g \in Batch
          /\ \E i \in sender.pos .. Len(streams_started) :
               /\ streams_started[i] = u
               /\ i > sender.pos \/ g > f \/ g \in dropped
    <3>1. CASE f < sender.last /\ sender'.pc = "set" /\ sender'.frame = f + 1
               /\ sender'.todo = {}
      <4>1. g \in Batch => (g >= f + 1 <=> g > f)
        BY <1>4
      <4> QED BY <1>2, <1>10, <1>11, <3>1, <4>1 DEF Pending
    <3>2. CASE f = sender.last /\ sender'.pc = "failed" /\ sender'.todo = dropped
      <4>1. g \in Batch => ~(g > f)
        BY <1>4, <3>2
      <4> QED BY <1>2, <1>10, <1>11, <3>2, <4>1 DEF Pending
    <3> QED BY <1>10, <3>1, <3>2
  <2>3. \A i \in sender.pos .. Len(streams_started) :
          streams_started[i] = s <=> i = sender.pos
    BY <1>2, TypeFacts
  <2>4. g \in Batch => /\ (g > f \/ g \in dropped) => g >= f \/ g \in sender.dropped
                       /\ g >= f \/ g \in sender.dropped => g > f \/ g \in dropped \/ g \in taken
                       /\ g \in taken => ~(g > f) /\ g \notin dropped
    BY <1>4, <1>8
  <2>5. sender.pos \in sender.pos .. Len(streams_started) /\ ~(sender.pos > sender.pos)
    BY <1>2, TypeFacts
  <2>6. CASE u = s
    <3>1. Pending(g, u) <=> g \in Batch /\ (g >= f \/ g \in sender.dropped)
      BY <2>1, <2>3, <2>5, <2>6
    <3>2. Pending(g, u)' <=> g \in Batch /\ (g > f \/ g \in dropped)
      BY <2>2, <2>3, <2>5, <2>6
    <3> QED BY <2>4, <2>6, <3>1, <3>2
  <2>7. CASE u # s
    <3>1. \A i \in sender.pos .. Len(streams_started) :
            streams_started[i] = u => i > sender.pos
      BY <1>2, <2>3, <2>7, TypeFacts
    <3> QED BY <2>1, <2>2, <2>7, <3>1
  <2> QED BY <2>6, <2>7
<1>13. \A g \in Frames : Candidate(g)' => Candidate(g) /\ g \notin taken
  <2> SUFFICES ASSUME NEW g \in Frames, Candidate(g)'
               PROVE  Candidate(g) /\ g \notin taken
    OBVIOUS
  <2>1. /\ g \in Batch /\ (sender.pos > 1 => g \in sender.result)
        /\ g >= f + 1 \/ g \in dropped
    BY <1>2, <1>10, <1>11 DEF Candidate
  <2>2. /\ g >= f \/ g \in sender.dropped
        /\ g \notin taken
    BY <1>4, <1>8, <2>1
  <2> QED BY <1>1, <2>1, <2>2 DEF Candidate, f
<1>14. \A g \in Frames : Candidate(g)' => g \notin gone
  BY <1>2, <1>7, <1>13 DEF PortInv, CandidateFree, gone
<1>15. \A g \in Frames : Pending(g, s) => g \notin gone
  BY <1>2, <1>7 DEF PortInv, PendingSent, gone
<1>16. SenderSane'
  <2>1. CASE f < sender.last /\ sender'.pc = "set" /\ sender'.frame = f + 1
             /\ sender'.todo = {}
    <3>1. f + 1 \in Batch
      BY <1>4, <2>1
    <3> QED BY <1>1, <1>2, <1>3, <1>8, <1>10, <1>11, <2>1, <3>1 DEF SenderSane
  <2>2. CASE f = sender.last /\ sender'.pc = "failed" /\ sender'.todo = dropped
    BY <1>1, <1>2, <1>3, <1>8, <1>10, <1>11, <2>2 DEF SenderSane
  <2> QED BY <1>10, <2>1, <2>2
<1>17. /\ manager' = [manager EXCEPT ![s] = m]
       /\ Sound(m) /\ m.initialized = manager[s].initialized
       /\ Held(m) = (Held(manager[s]) \ gone) \cup taken
       /\ gone \in SUBSET Frames /\ \A g \in gone : g \in Batch \/ g \in Held(manager[s])
       /\ taken \in SUBSET Batch
       /\ UNCHANGED port_vars /\ UNCHANGED <<next, refused>> /\ sender.pc # "idle"
  BY <1>1, <1>2, <1>7, <1>8, TypeFacts DEF gone
<1>18. /\ \A g \in taken : Pending(g, s) /\ g \notin gone /\ ~Candidate(g)'
       /\ \A g \in Frames : Pending(g, s)' => g \notin gone /\ g \notin taken
  <2>1. \A g \in taken : g \in Frames /\ Pending(g, s)
    BY <1>3, <1>5, <1>8
  <2> QED BY <2>1, <1>2, <1>12, <1>13, <1>15
<1>19. /\ \A g \in Frames, u \in Streams : Pending(g, u)' => Pending(g, u)
       /\ \A g \in Frames, u \in Streams : Pending(g, u) =>
            Pending(g, u)' \/ (u = s /\ (g \in gone \/ g \in taken))
  BY <1>12
<1>20. \A g \in Frames : Candidate(g)' =>
            /\ Candidate(g)
            /\ \/ g \notin gone
               \/ /\ returned'[g] = returned[g]
                  /\ \A u \in Streams : sent_frames'[g][u] # Released
  BY <1>13, <1>14
<1>21. Offers(s, gone, taken, m)
  BY <1>9, <1>10, <1>16, <1>17, <1>18, <1>19, <1>20 DEF Offers
<1> QED BY <1>s, <1>17, <1>21, OffersInv

---------------------------------------------------------------------------
(***************************************************************************)
(* The invariant, and what it says of the code.                            *)
(***************************************************************************)
\* A port without streams and frames satisfies it.
LEMMA InitPortInv == Init => PortInv
<1> SUFFICES ASSUME Init PROVE PortInv
  OBVIOUS
<1>1. /\ phase = [s \in Streams |-> "closed"] /\ streams_started = << >>
      /\ state_change = {} /\ manager = [s \in Streams |-> Constructed]
      /\ sent_frames = [f \in Frames |-> [s \in Streams |-> NotSent]]
      /\ sender = Idle /\ next = 1 /\ returned = [f \in Frames |-> 0] /\ refused = {}
  BY DEF Init
<1>2. /\ Sound(Constructed) /\ ~Constructed.initialized /\ Held(Constructed) = {}
      /\ Constructed.incoming = << >>
  BY NewManagerFacts
<1>3. /\ Elements(<< >>) = {} /\ Distinct(<< >>) /\ << >> \in Seq(Streams)
  BY EmptyFacts
<1>4. /\ sender \in SenderType /\ sender.pc = "idle" /\ sender.todo = {}
  BY <1>1 DEF Idle, SenderType
<1>5. TypeOK
  <2>1. "closed" \in Phases /\ NotSent \in SentType
    BY DEF Phases, SentType
  <2>2. Constructed \in ManagerType(Frames)
    BY <1>2 DEF Sound
  <2> QED BY <1>1, <1>3, <1>4, <2>1, <2>2 DEF TypeOK, SentType, SenderType
<1>6. Streaming
  BY <1>1, <1>3 DEF Streaming, StartedPhases
<1>7. Managers
  BY <1>1, <1>2 DEF Managers
<1>8. SenderSane
  BY <1>1, <1>4, PortAssumption DEF SenderSane
<1>9. \A f \in Frames, s \in Streams :
        sent_frames[f][s] = NotSent /\ f \notin Held(manager[s])
  BY <1>1, <1>2
<1>10. \A f \in Frames : ~Candidate(f) /\ \A s \in Streams : ~Pending(f, s)
  BY <1>4 DEF Candidate, Pending
<1>11. HeldSent
  BY <1>1, <1>2 DEF HeldSent
<1>12. PendingSent /\ CandidateFree /\ Fresh
  BY <1>1, <1>9, <1>10 DEF PendingSent, CandidateFree, Fresh
<1>13. NoOrphan /\ ArrivedOnlyIfStarted
  BY <1>1, <1>2, <1>9, StateNames DEF NoOrphan, ArrivedOnlyIfStarted
<1> QED BY <1>5, <1>6, <1>7, <1>8, <1>11, <1>12, <1>13 DEF PortInv

\* Every step keeps it.
LEMMA NextPortInv == PortInv /\ [Next]_vars => PortInv'
<1> SUFFICES ASSUME PortInv, [Next]_vars PROVE PortInv'
  OBVIOUS
<1>1. CASE SendBegin
  BY <1>1, SendBeginInv
<1>2. CASE SendStream
  BY <1>2, SendStreamInv
<1>3. CASE SendSet
  BY <1>3, SendSetInv
<1>4. CASE SendFailed
  BY <1>4, SendFailedInv
<1>5. CASE SendResult
  BY <1>5, SendResultInv
<1>6. CASE \E s \in Streams : User(s) \/ StateFunction(s)
  BY <1>6, StreamsStep, StreamStepInv
<1>7. CASE UNCHANGED vars
  <2>1. UNCHANGED port_vars /\ UNCHANGED <<manager, sent_frames, next, returned, refused>>
        /\ sender' = sender
    BY <1>7 DEF vars, port_vars
  <2>2. sender' \in SenderType
    BY <2>1, SenderFacts
  <2>3. /\ SenderSane'
        /\ \A f \in Frames, u \in Streams : Pending(f, u)' <=> Pending(f, u)
        /\ \A f \in Frames : Candidate(f)' => Candidate(f)
    BY <2>1, SenderUndisturbed DEF port_vars, sender_vars, PortInv
  <2> QED BY <2>1, <2>2, <2>3, SenderMoves
<1> QED BY <1>1, <1>2, <1>3, <1>4, <1>5, <1>6, <1>7 DEF Next, Send

\* The invariant holds in every state.
LEMMA PortSafe == Spec => []PortInv
BY InitPortInv, NextPortInv, PTL DEF Spec

(***************************************************************************)
(* Whatever the streams, their buffering and the batches: an entry of      *)
(* sent_frames_ that waits for a stream is of a frame the stream holds or  *)
(* the sender has still to offer to it, so the entry will be erased and    *)
(* the port can be started again (ReleaseFrame, SendFrames, RemoveStream   *)
(* of component_port_core.cpp).                                            *)
(***************************************************************************)
THEOREM PortHasNoOrphan == Spec => []NoOrphan
BY PortSafe, PTL DEF PortInv

(***************************************************************************)
(* Frames wait only in streams that are started: RemoveStream clears them  *)
(* under the mutex the sender holds, so that none arrives afterwards.      *)
(***************************************************************************)
THEOREM PortArrivals == Spec => []ArrivedOnlyIfStarted
BY PortSafe, PTL DEF PortInv

---------------------------------------------------------------------------
(***************************************************************************)
(* The refinement: every step of the port is a step of FrameOwnership.     *)
(***************************************************************************)
Owners == [f \in Frames |-> {s \in Streams : sent_frames[f][s] = NotSendingYet}]

\* A step of a stream, or of the sender for one, is Leave.
LEMMA GaveUpIsLeave ==
  ASSUME PortInv, NEW s \in Streams, NEW frames, frames \subseteq Frames,
         \A f \in frames : sent_frames[f][s] \in {NotSent, NotSendingYet},
         GaveUp(s, frames), next' = next
  PROVE  Ownership!Next
<1>0. PICK left : left = {f \in frames : sent_frames[f][s] = NotSendingYet}
  OBVIOUS
<1>1. /\ \A f \in Frames : f \notin frames =>
           sent_frames'[f] = sent_frames[f] /\ returned'[f] = returned[f]
      /\ \A f \in frames : sent_frames'[f][s] # NotSendingYet
      /\ \A f \in frames : \A u \in Streams : u # s =>
           \/ sent_frames'[f][u] = sent_frames[f][u]
           \/ sent_frames'[f][u] = NotSent /\ sent_frames[f][u] # NotSendingYet
  BY DEF GaveUp
<1>2. PICK back \in SUBSET OnlyHas(s, frames) :
        returned' = [f \in Frames |-> IF f \in back THEN returned[f] + 1 ELSE returned[f]]
  BY DEF GaveUp
<1>3. left \in SUBSET Frames /\ \A f \in left : s \in Owners[f]
  BY <1>0 DEF Owners
<1>4. Owners' = [f \in Frames |-> Owners[f] \ (IF f \in left THEN {s} ELSE {})]
  <2>1. \A f \in Frames, u \in Streams :
          sent_frames'[f][u] = NotSendingYet <=>
            sent_frames[f][u] = NotSendingYet /\ ~(f \in left /\ u = s)
    BY <1>0, <1>1, StateNames
  <2>2. \A f \in Frames :
          {u \in Streams : sent_frames'[f][u] = NotSendingYet} =
          {u \in Streams : sent_frames[f][u] = NotSendingYet}
            \ (IF f \in left THEN {s} ELSE {})
    BY <2>1
  <2> QED BY <2>2 DEF Owners
<1>5. back \in SUBSET {f \in left : Owners[f] = {s}}
  <2> SUFFICES ASSUME NEW f \in back PROVE f \in left /\ Owners[f] = {s}
    OBVIOUS
  <2>1. f \in frames /\ f \in Frames
        /\ \A u \in Streams : sent_frames[f][u] = NotSendingYet <=> u = s
    BY DEF OnlyHas
  <2> QED BY <1>0, <2>1 DEF Owners
<1>6. Ownership!GivenBack(back)
  BY <1>2 DEF Ownership!GivenBack
<1>7. Ownership!Leave(s, left)
  BY <1>3, <1>4, <1>5, <1>6 DEF Ownership!Leave, Owners
<1> QED BY <1>3, <1>7 DEF Ownership!Next

\* SendFrames lends its batch to the streams that are started.
LEMMA SendBeginIsLend ==
  ASSUME PortInv, SendBegin
  PROVE  Ownership!Next
<1>1. PICK n \in 1 .. MaxBatch :
        /\ next + n - 1 <= MaxFrames /\ next' = next + n
        /\ LET batch == next .. next + n - 1 IN
           IF streams_started = << >>
           THEN /\ returned' = [f \in Frames |->
                                  IF f \in batch THEN returned[f] + 1 ELSE returned[f]]
                /\ UNCHANGED <<sent_frames, sender>>
           ELSE /\ sent_frames' =
                     [f \in Frames |-> [s \in Streams |->
                        IF f \in batch /\ s \in Elements(streams_started)
                        THEN NotSendingYet ELSE sent_frames[f][s]]]
                /\ sender' = [Idle EXCEPT !.pc = "stream", !.pos = 1,
                                          !.first = next, !.last = next + n - 1]
                /\ UNCHANGED returned
  BY DEF SendBegin
<1>2. PICK batch : batch = next .. next + n - 1
  OBVIOUS
<1>3. PICK streams : streams = Elements(streams_started)
  OBVIOUS
<1>4. /\ batch \in SUBSET Frames /\ \A f \in batch : f >= next
      /\ batch \cap (1 .. next - 1) = {}
      /\ 1 .. next' - 1 = (1 .. next - 1) \cup batch
  <2>1. next \in Nat /\ next >= 1 /\ MaxFrames \in Nat /\ MaxBatch \in Nat
    BY TypeFacts, PortAssumption
  <2>2. n \in 1 .. MaxBatch /\ next + n - 1 <= MaxFrames /\ next' = next + n
    BY <1>1
  <2> QED BY <1>2, <2>1, <2>2 DEF Frames
<1>5. /\ streams \in SUBSET Streams
      /\ streams = {} <=> streams_started = << >>
  BY <1>3, TypeFacts, EmptyFacts
<1>6. \A f \in batch, s \in Streams : sent_frames[f][s] # NotSendingYet
  BY <1>4, StateNames DEF PortInv, Fresh
<1>7. CASE streams_started = << >>
  <2>1. /\ returned' = [f \in Frames |->
                          IF f \in batch THEN returned[f] + 1 ELSE returned[f]]
        /\ sent_frames' = sent_frames
    BY <1>1, <1>2, <1>7
  <2>2. Owners' = [f \in Frames |-> IF f \in batch THEN streams ELSE Owners[f]]
    <3>1. \A f \in Frames : f \in batch => Owners[f] = {}
      BY <1>6 DEF Owners
    <3> QED BY <1>5, <1>7, <2>1, <3>1 DEF Owners
  <2>3. Ownership!GivenBack(IF streams = {} THEN batch ELSE {})
    BY <1>5, <1>7, <2>1 DEF Ownership!GivenBack
  <2>4. Ownership!Lend(batch, streams)
    BY <1>4, <2>2, <2>3 DEF Ownership!Lend, Owners
  <2> QED BY <1>4, <1>5, <2>4 DEF Ownership!Next
<1>8. CASE streams_started # << >>
  <2>1. /\ sent_frames' = [f \in Frames |-> [s \in Streams |->
                             IF f \in batch /\ s \in streams
                             THEN NotSendingYet ELSE sent_frames[f][s]]]
        /\ returned' = returned
    BY <1>1, <1>2, <1>3, <1>8
  <2>2. Owners' = [f \in Frames |-> IF f \in batch THEN streams ELSE Owners[f]]
    <3>1. \A f \in Frames, s \in Streams :
            sent_frames'[f][s] = NotSendingYet <=>
              IF f \in batch THEN s \in streams ELSE sent_frames[f][s] = NotSendingYet
      BY <1>6, <2>1
    <3>2. \A f \in Frames : {s \in Streams : sent_frames'[f][s] = NotSendingYet} =
            IF f \in batch THEN streams
            ELSE {s \in Streams : sent_frames[f][s] = NotSendingYet}
      BY <1>5, <3>1
    <3> QED BY <3>2 DEF Owners
  <2>3. Ownership!GivenBack(IF streams = {} THEN batch ELSE {})
    <3>1. returned' = [f \in Frames |-> IF f \in {} THEN returned[f] + 1 ELSE returned[f]]
      BY <2>1, TypeFacts
    <3> QED BY <1>5, <1>8, <3>1 DEF Ownership!GivenBack
  <2>4. Ownership!Lend(batch, streams)
    BY <1>4, <2>2, <2>3 DEF Ownership!Lend, Owners
  <2> QED BY <1>4, <1>5, <2>4 DEF Ownership!Next
<1> QED BY <1>7, <1>8

\* The end of SendFrames gives the dropped frames back to the component.
LEMMA SendResultIsReturn ==
  ASSUME PortInv, SendResult, ~(sender.pos < Len(streams_started))
  PROVE  Ownership!Next
<1>0. PICK frames : frames = Result
  OBVIOUS
<1>1. /\ returned' = [f \in Frames |->
                        IF f \in frames THEN returned[f] + 1 ELSE returned[f]]
      /\ next' = next /\ sent_frames' = sent_frames
  BY <1>0 DEF SendResult
<1>2. \A f \in frames : /\ f \in Frames /\ f < next /\ returned[f] = 0
                        /\ \A s \in Streams : sent_frames[f][s] # NotSendingYet
  BY <1>0, ResultIsFree
<1>3. \A f \in frames : Ownership!Returnable(f)
  <2> SUFFICES ASSUME NEW f \in frames
               PROVE  f \in 1 .. next - 1 /\ Owners[f] = {} /\ returned[f] = 0
    BY DEF Ownership!Returnable, Owners
  <2>1. f \in 1 .. next - 1
    BY <1>2, TypeFacts, PortAssumption DEF Frames
  <2> QED BY <1>2, <2>1 DEF Owners
<1>4. Ownership!GivenBack(frames)
  BY <1>1 DEF Ownership!GivenBack
<1>5. Ownership!Return(frames)
  BY <1>1, <1>3, <1>4 DEF Ownership!Return
<1>6. frames \in SUBSET Frames
  BY <1>2
<1> QED BY <1>5, <1>6 DEF Ownership!Next

\* Every step of the port is a step of the lending, or none.
LEMMA StepIsOwnership ==
  PortInv /\ [Next]_vars => [Ownership!Next]_(Ownership!vars)
<1> SUFFICES ASSUME PortInv, [Next]_vars
             PROVE  Ownership!Next \/ UNCHANGED <<next, sent_frames, returned>>
  <2>1. UNCHANGED <<next, sent_frames, returned>> => UNCHANGED Ownership!vars
    BY DEF Ownership!vars
  <2> QED BY <2>1
<1>1. CASE SendBegin
  BY <1>1, SendBeginIsLend
<1>2. CASE SendStream \/ UNCHANGED vars
  BY <1>2 DEF SendStream, vars
<1>3. CASE SendSet
  <2>1. PICK s : s = Target
    OBVIOUS
  <2>2. PICK frames : frames = SetResult(Policy[s], manager[s]).evicted
    OBVIOUS
  <2>3. s \in Streams /\ sender.frame \in Batch /\ Batch \subseteq Frames /\ sender.pc = "set"
    BY <1>3, <2>1, BusyFacts DEF SendSet, PortInv, SenderSane
  <2>4. ReleaseFrames(s, frames, Released) /\ next' = next
    BY <1>3, <2>1, <2>2 DEF SendSet
  <2>5. frames \subseteq Held(manager[s])
    <3>1. Keeps(SetResult(Policy[s], manager[s]), manager[s])
      BY <2>3, TypeFacts, PortAssumption, SetResultKeeps
    <3> QED BY <2>2, <3>1 DEF Keeps, Held
  <2>6. frames \in SUBSET Frames
        /\ \A f \in frames : sent_frames[f][s] \in {NotSent, NotSendingYet}
    BY <2>3, <2>5, TypeFacts
  <2>7. GaveUp(s, frames)
    BY <2>3, <2>4, <2>6, TypeFacts, ReleaseGivesUp
  <2> QED BY <2>3, <2>4, <2>6, <2>7, GaveUpIsLeave
<1>4. CASE SendFailed
  <2>1. PICK s : s = Target
    OBVIOUS
  <2>2. PICK f \in sender.todo : ReleaseFrames(s, {f}, SendingFailed) /\ next' = next
    BY <1>4, <2>1 DEF SendFailed
  <2>3. /\ sender.pc = "failed" /\ s \in Streams
        /\ f \in Batch /\ f \in Frames /\ sender.pos \in 1 .. Len(streams_started)
        /\ streams_started[sender.pos] = s
    BY <1>4, <2>1, BusyFacts DEF SendFailed, PortInv, SenderSane, Target
  <2>4. Pending(f, s)
    BY <2>3, TypeFacts DEF Pending
  <2>5. /\ \A g \in {f} : sent_frames[g][s] \in {NotSent, NotSendingYet}
        /\ {f} \in SUBSET Frames /\ SendingFailed \in {SendingFailed, Released}
    BY <2>3, <2>4 DEF PortInv, PendingSent
  <2>6. GaveUp(s, {f})
    BY <2>2, <2>3, <2>5, TypeFacts, ReleaseGivesUp
  <2> QED BY <2>2, <2>3, <2>5, <2>6, GaveUpIsLeave
<1>5. CASE SendResult
  <2>1. CASE sender.pos < Len(streams_started)
    BY <1>5, <2>1 DEF SendResult
  <2>2. CASE ~(sender.pos < Len(streams_started))
    BY <1>5, <2>2, SendResultIsReturn
  <2> QED BY <2>1, <2>2
<1>6. CASE \E s \in Streams : User(s) \/ StateFunction(s)
  <2>1. PICK s \in Streams : User(s) \/ StateFunction(s)
    BY <1>6
  <2>2. PICK frames : StreamStep(s, frames)
    BY <2>1, StreamsStep
  <2>3. /\ GaveUp(s, frames) /\ next' = next /\ frames \subseteq Frames
        /\ \A f \in frames : sent_frames[f][s] \in {NotSent, NotSendingYet}
    BY <2>2, TypeFacts DEF StreamStep, sender_vars
  <2> QED BY <2>3, GaveUpIsLeave
<1> QED BY <1>1, <1>2, <1>3, <1>4, <1>5, <1>6 DEF Next, Send

(***************************************************************************)
(* The port implements lending: however SendFrames, ReleaseFrame, Stop and *)
(* Close of any number of streams interleave, each stream gives a frame up *)
(* once, and the component gets it back once, never while a stream has it. *)
(***************************************************************************)
THEOREM PortLendsFrames == Spec => ImplementsOwnership
<1>1. Init => Ownership!Init
  <2> SUFFICES ASSUME Init PROVE Ownership!Init
    OBVIOUS
  <2>1. 1 .. next - 1 = {} /\ returned = [f \in Frames |-> 0]
    BY DEF Init
  <2>2. Owners = [f \in Frames |-> {}]
    BY StateNames DEF Init, Owners
  <2> QED BY <2>1, <2>2 DEF Ownership!Init, Owners
<1>2. PortInv /\ [Next]_vars => [Ownership!Next]_(Ownership!vars)
  BY StepIsOwnership
<1> QED BY <1>1, <1>2, PortSafe, PTL DEF Spec, ImplementsOwnership, Ownership!Spec

=============================================================================
