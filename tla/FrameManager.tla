---------------------------- MODULE FrameManager ----------------------------
(***************************************************************************)
(* One stream's FrameManagerCore as a state machine: the component sends   *)
(* frames, the user gets and releases them, polls or follows the callbacks *)
(* of FrameObserverOrder, changes the skip rate, and the stream is closed. *)
(* Init, Next and Spec begin with FM: FrameQueueProofs extends this module *)
(* and FrameRecorder.                                                      *)
(***************************************************************************)
EXTENDS FrameBuffer

CONSTANTS
  BufferNum,     \* FrameBuffering::num
  SkipRates,     \* the rates the user asks for
  MaxFrames      \* bound: the frames the component sends

ASSUME BufferNumAssumption == BufferNum \in Nat
ASSUME SkipRatesAssumption == SkipRates \subseteq Nat
ASSUME MaxFramesAssumption == MaxFrames \in Nat

VARIABLES
  policy,        \* the buffering policy of the stream's configuration
  manager,       \* the FrameManagerCore
  next,          \* the sequence number of the next frame
  callbacks,     \* FrameObserverOrder: notified callbacks not yet run
  released,      \* frames handed back through ReleaseFrame
  dropped,       \* frames Set refused
  offered        \* frames offered since the skip rate was last set

fm_vars == <<policy, manager, next, callbacks, released, dropped, offered>>

Frames == Nat

FMInit ==
  /\ policy \in Policies
  /\ manager = InitManager(policy, Constructed, BufferNum)
  /\ next = 1
  /\ callbacks = 0
  /\ released = {}
  /\ dropped = {}
  /\ offered = 0

\* Set, called by StreamCore::SendFrames.
Set ==
  /\ next <= MaxFrames
  /\ manager' = SetFrame(policy, manager, next)
  /\ LET b == SetResult(policy, manager) IN
       /\ released' = released \cup b.evicted
       /\ dropped' = IF b.found THEN dropped ELSE dropped \cup {next}
       /\ callbacks' = callbacks + (IF b.acquirable THEN 1 ELSE 0)
  /\ next' = next + 1
  /\ offered' = IF manager.initialized THEN offered + 1 ELSE offered
  /\ UNCHANGED policy

\* Get, called by StreamCore::GetFrame.
Get ==
  /\ CanGet(manager)
  /\ manager' = GetFrame(manager)
  /\ UNCHANGED <<policy, dropped, next, callbacks, released, offered>>

\* The observer's worker runs one callback, which gets at most one frame.
Callback ==
  /\ callbacks > 0
  /\ callbacks' = callbacks - 1
  /\ manager' = IF CanGet(manager) THEN GetFrame(manager) ELSE manager
  /\ UNCHANGED <<policy, dropped, next, released, offered>>

\* Remove: the component may refuse to take the frame back.
Remove ==
  \E frame \in manager.outgoing, ok \in BOOLEAN :
    /\ manager' = RemoveFrame(manager, frame, ok)
    /\ released' = IF ok THEN released \cup {frame} ELSE released
    /\ UNCHANGED <<policy, dropped, next, callbacks, offered>>

Clear ==
  /\ manager' = ClearFrames(manager)
  /\ released' = released \cup Elements(manager.incoming)
  /\ UNCHANGED <<policy, dropped, next, callbacks, offered>>

SetSkipRate ==
  \E rate \in SkipRates :
    /\ manager' = SkipRateSet(manager, rate)
    /\ offered' = IF rate = 0 THEN offered ELSE 0
    /\ UNCHANGED <<policy, dropped, next, callbacks, released>>

\* Close: Exit, after which the worker is stopped and its count is lost.
Exit ==
  /\ manager' = ExitManager(manager)
  /\ released' = released \cup (IF manager.initialized THEN Held(manager) ELSE {})
  /\ callbacks' = 0
  /\ UNCHANGED <<policy, dropped, next, offered>>

\* The port refused to close: the manager is initialized again.
Reinit ==
  /\ manager' = InitManager(policy, manager, BufferNum)
  /\ UNCHANGED <<policy, dropped, next, callbacks, released, offered>>

FMNext ==
  \/ Set \/ Get \/ Callback \/ Remove \/ Clear
  \/ SetSkipRate \/ Exit \/ Reinit

FMSpec == FMInit /\ [][FMNext]_fm_vars

---------------------------------------------------------------------------
\* The counters and queues keep the types the members of FrameManagerCore have.
FMTypeOK ==
  /\ policy \in Policies
  /\ manager \in ManagerType(Frames)
  /\ IsFiniteSet(manager.outgoing)
  /\ next \in Nat \ {0}
  /\ callbacks \in Nat
  /\ released \subseteq Frames
  /\ dropped \subseteq Frames
  /\ offered \in Nat

\* Under the limited policies a buffer is reserved, arrived or in use, and
\* none appears or vanishes: not when a frame is overwritten, not when the
\* component refuses a frame back, not across Exit and a second Init.
SlotsConserved ==
  Limited(policy) =>
    manager.reserved + Len(manager.incoming) + Cardinality(manager.outgoing)
      = BufferNum

\* Every frame the component sent is exactly one of: refused by Set, handed
\* back, or held in one place of one queue.
EveryFrameAccounted ==
  /\ 1 .. next - 1 = dropped \cup released \cup Held(manager)
  /\ dropped \cap released = {}
  /\ dropped \cap Held(manager) = {}
  /\ released \cap Held(manager) = {}
  /\ Elements(manager.incoming) \cap manager.outgoing = {}

\* GetFrame delivers frames in the order they were sent.
DeliveredInOrder ==
  /\ Ascending(manager.incoming)
  /\ \A f \in manager.outgoing, g \in Elements(manager.incoming) : f < g

\* A user who gets one frame per callback leaves no frame behind: a frame
\* that replaces another one is not notified again, and needs no notification.
NoStrandedFrame == callbacks >= Len(manager.incoming)

\* With skip rate r the verdict of IsSkipFrame is periodic: after SetSkipRate
\* the first frame passes and then one frame in r.
SkipPeriod ==
  manager.skip_rate > 1 =>
    (IsSkipFrame(manager) <=> offered % manager.skip_rate # 0)

\* An arriving frame may push out only frames older than all that stay.
EvictsOldest ==
  [][next' # next =>
       \A f \in released' \ released : \A g \in Elements(manager'.incoming) : f < g]_fm_vars
=============================================================================
