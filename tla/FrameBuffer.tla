---------------------------- MODULE FrameBuffer ----------------------------
(***************************************************************************)
(* The data structure of lib/core/frame: the queues of one stream's        *)
(* FrameManagerCore and the four buffering policies derived from it, as    *)
(* operators on a record.  Both the stand-alone FrameManager and the       *)
(* ComponentPort composition are built from these operators.               *)
(*                                                                         *)
(* A frame is its sequence number.  Every member function of a frame       *)
(* manager that changes the queues runs under StreamCore::mutex_frame_, so *)
(* each of them is one indivisible operator here.  The list of frames in   *)
(* use (outgoing_queue_) is only searched and drained: it is a set.        *)
(***************************************************************************)
EXTENDS Integers, Sequences, FiniteSets

Overwrite == "overwrite"
Discard   == "discard"
Realtime  == "realtime"
Unlimited == "unlimited"

Policies == {Overwrite, Discard, Realtime, Unlimited}

\* The policies whose reserved_count_ limits the number of buffers.
Limited(policy) == policy \in {Overwrite, Discard}

Elements(s) == {s[i] : i \in 1 .. Len(s)}

Ascending(s) == \A i, j \in 1 .. Len(s) : i < j => s[i] < s[j]

---------------------------------------------------------------------------
\* The members of FrameManagerCore after its constructor.
Constructed ==
  [reserved    |-> 0,  incoming     |-> << >>, outgoing |-> {},
   initialized |-> FALSE, skip_rate |-> 1, skip_counter |-> 0]

\* Init: the realtime and the unlimited manager pass 0 to the base class.
InitManager(policy, m, num) ==
  IF m.initialized
  THEN m
  ELSE [m EXCEPT !.reserved    = IF Limited(policy) THEN num ELSE 0,
                 !.initialized = TRUE]

\* SetSkipRate(0) is refused; the first frame after a new rate passes.
SkipRateSet(m, rate) ==
  IF rate = 0
  THEN m
  ELSE [m EXCEPT !.skip_rate = rate, !.skip_counter = rate - 1]

\* IsSkipFrame: the verdict on the next frame, and the counter after it.
IsSkipFrame(m) == m.skip_rate > 1 /\ m.skip_counter + 1 < m.skip_rate

SkipCounter(m) ==
  IF m.skip_rate <= 1 THEN m.skip_counter
  ELSE IF IsSkipFrame(m) THEN m.skip_counter + 1 ELSE 0

---------------------------------------------------------------------------
(***************************************************************************)
(* GetBuffer of each policy: whether a buffer was found, whether that adds *)
(* to the frames that can be got (acquirable), the older frames released   *)
(* to make room, and the reserved count and the queue without them.        *)
(***************************************************************************)
Buffer(found, acquirable, evicted, reserved, incoming) ==
  [found |-> found, acquirable |-> acquirable, evicted |-> evicted,
   reserved |-> reserved, incoming |-> incoming]

NoBuffer(m) == Buffer(FALSE, FALSE, {}, m.reserved, m.incoming)

\* Mutant: the newest arrived frame is popped instead of the oldest.
GetBufferOverwriteNewest(m) ==
  IF m.reserved > 0
  THEN Buffer(TRUE, TRUE, {}, m.reserved - 1, m.incoming)
  ELSE IF m.incoming # << >>
  THEN Buffer(TRUE, FALSE, {m.incoming[Len(m.incoming)]}, m.reserved,
              SubSeq(m.incoming, 1, Len(m.incoming) - 1))
  ELSE NoBuffer(m)

GetBufferOverwrite(m) ==
  IF m.reserved > 0
  THEN Buffer(TRUE, TRUE, {}, m.reserved - 1, m.incoming)
  ELSE IF m.incoming # << >>
  THEN Buffer(TRUE, FALSE, {Head(m.incoming)}, m.reserved, Tail(m.incoming))
  ELSE NoBuffer(m)

GetBufferDiscard(m) ==
  IF m.reserved <= 0
  THEN NoBuffer(m)
  ELSE Buffer(TRUE, TRUE, {}, m.reserved - 1, m.incoming)

\* Mutant: the replaced frames are deleted without being released.
GetBufferRealtimeLeaking(m) ==
  Buffer(TRUE, m.incoming = << >>, {}, 0, << >>)

GetBufferRealtime(m) ==
  Buffer(TRUE, m.incoming = << >>, Elements(m.incoming), 0, << >>)

\* Mutant: only a frame that finds the queue empty is notified.
GetBufferUnlimitedOnEdge(m) ==
  Buffer(TRUE, m.incoming = << >>, {}, 0, m.incoming)

GetBufferUnlimited(m) == Buffer(TRUE, TRUE, {}, 0, m.incoming)

GetBuffer(policy, m) ==
  CASE policy = Overwrite -> GetBufferOverwrite(m)
    [] policy = Discard   -> GetBufferDiscard(m)
    [] policy = Realtime  -> GetBufferRealtime(m)
    [] policy = Unlimited -> GetBufferUnlimited(m)

(***************************************************************************)
(* Set: an uninitialized manager refuses; a frame to be skipped is refused *)
(* once the skip counter has moved; otherwise the frame takes the buffer   *)
(* the policy finds, if there is one.  SetResult is that buffer, or        *)
(* NoBuffer when the call fails; SetFrame is the manager after the call.   *)
(***************************************************************************)
SetResult(policy, m) ==
  IF ~m.initialized \/ IsSkipFrame(m) THEN NoBuffer(m) ELSE GetBuffer(policy, m)

SetFrame(policy, m, frame) ==
  LET b == SetResult(policy, m) IN
  [m EXCEPT !.reserved     = b.reserved,
            !.incoming     = IF b.found THEN Append(b.incoming, frame) ELSE @,
            !.skip_counter = IF m.initialized THEN SkipCounter(m) ELSE @]

\* Get: the oldest arrived frame goes to the user.
CanGet(m) == m.incoming # << >>

GetFrame(m) ==
  [m EXCEPT !.incoming = Tail(@), !.outgoing = @ \cup {Head(m.incoming)}]

\* Remove: the buffer is freed only when the component took the frame back.
CanRemove(m, frame) == frame \in m.outgoing

\* Mutant: the buffer is counted free although the frame stays in use.
RemoveFrameCounting(m, frame, released) ==
  IF released
  THEN [m EXCEPT !.outgoing = @ \ {frame}, !.reserved = @ + 1]
  ELSE [m EXCEPT !.reserved = @ + 1]

RemoveFrame(m, frame, released) ==
  IF released
  THEN [m EXCEPT !.outgoing = @ \ {frame}, !.reserved = @ + 1]
  ELSE m

\* Clear releases only the frames nobody has got.
ClearFrames(m) ==
  [m EXCEPT !.incoming = << >>, !.reserved = @ + Len(m.incoming)]

\* Exit releases every frame, whatever the component answers.
Held(m) == Elements(m.incoming) \cup m.outgoing

ExitManager(m) ==
  IF ~m.initialized
  THEN m
  ELSE [m EXCEPT !.incoming    = << >>,
                 !.outgoing    = {},
                 !.reserved    = @ + Len(m.incoming) + Cardinality(m.outgoing),
                 !.initialized = FALSE]

\* The record type of a manager whose frames are drawn from Frames.
ManagerType(Frames) ==
  [reserved : Nat, incoming : Seq(Frames), outgoing : SUBSET Frames,
   initialized : BOOLEAN, skip_rate : Nat \ {0}, skip_counter : Nat]
=============================================================================
