--------------------------- MODULE ComponentPort ---------------------------
(***************************************************************************)
(* One ComponentPortCore with the streams connected to it.  The component  *)
(* sends batches of frames; the port registers each frame for every        *)
(* started stream, offers it to them one after the other, and hands it     *)
(* back to the component when the last of them has given it up: through    *)
(* ReleasePortFrame if some stream took it, as a dropped frame if none     *)
(* did.  Each stream keeps its frames in a frame manager (FrameBuffer).    *)
(*                                                                         *)
(* The sender holds mutex_streams_started_ throughout, and mutex_frame_ of *)
(* a stream while it sets the batch there; mutex_state_change_ is held     *)
(* across the calls of StartPort and StopPort.  Everything else            *)
(* interleaves.  Sequence numbers are unique, as the component promises.   *)
(***************************************************************************)
EXTENDS FrameBuffer

CONSTANTS
  Streams,
  Policy,      \* Policy[s]: the buffering of stream s
  BufferNum,   \* number of buffers of each stream
  MaxFrames,   \* bound: frames sent
  MaxBatch     \* bound: frames in one SendFrames

ASSUME PortAssumption ==
  /\ Policy \in [Streams -> Policies]
  /\ BufferNum \in Nat
  /\ MaxFrames \in Nat
  /\ MaxBatch \in Nat

VARIABLES
  phase,            \* local state of each stream, with its Start or Stop
  streams_started,  \* in the order they were started
  state_change,     \* the streams in a component call under mutex_state_change_
  manager,          \* frame_manager_ of each stream
  sent_frames,      \* sending_state of each frame for each stream
  sender,           \* SendFrames in progress
  next,             \* next sequence number
  returned,         \* how often the component got each frame back
  refused           \* frames whose ReleasePortFrame returned an error

vars == <<phase, streams_started, state_change, manager, sent_frames, sender,
          next, returned, refused>>

port_vars   == <<phase, streams_started, state_change>>
sender_vars == <<sender, next>>

Frames == 1 .. MaxFrames

NotSent       == "none"              \* the stream is not in the map
NotSendingYet == "NotSendingYet"
SendingFailed == "SendingFailed"
Released      == "Released"

Phases ==
  {"closed", "ready", "starting", "started", "running", "stopping",
   "stop_port", "closing"}

Idle == [pc |-> "idle", first |-> 0, last |-> 0, pos |-> 0, frame |-> 0,
         dropped |-> {}, todo |-> {}, result |-> {}]

Init ==
  /\ phase = [s \in Streams |-> "closed"]
  /\ streams_started = << >>
  /\ state_change = {}
  /\ manager = [s \in Streams |-> Constructed]
  /\ sent_frames = [f \in Frames |-> [s \in Streams |-> NotSent]]
  /\ sender = Idle
  /\ next = 1
  /\ returned = [f \in Frames |-> 0]
  /\ refused = {}

---------------------------------------------------------------------------
(***************************************************************************)
(* ComponentPortCore::ReleaseFrame, for the frames stream s gives up.      *)
(***************************************************************************)
Marked(f, s, state) == [sent_frames[f] EXCEPT ![s] = state]

\* Mutant: only the stream that releases the frame is looked at.
AllGaveUpUnchecked(sending) == TRUE

AllGaveUp(sending) == \A s \in Streams : sending[s] # NotSendingYet

KnownTo(f, s) == sent_frames[f][s] # NotSent

LastRelease(f, s, state) == KnownTo(f, s) /\ AllGaveUp(Marked(f, s, state))

\* Mutant: the component is called only if the last stream released the frame.
CallsImplementationAtLast(f, s, state) ==
  LastRelease(f, s, state) /\ state = Released

\* The last release calls the component if any stream had taken the frame.
CallsImplementation(f, s, state) ==
  /\ LastRelease(f, s, state)
  /\ \E u \in Streams : Marked(f, s, state)[u] = Released

ReleaseFrames(s, frames, state) ==
  /\ sent_frames' =
       [f \in Frames |->
          IF f \notin frames \/ ~KnownTo(f, s) THEN sent_frames[f]
          ELSE IF LastRelease(f, s, state) THEN [u \in Streams |-> NotSent]
          ELSE Marked(f, s, state)]
  /\ returned' =
       [f \in Frames |->
          IF f \in frames /\ CallsImplementation(f, s, state)
          THEN returned[f] + 1
          ELSE returned[f]]

---------------------------------------------------------------------------
(***************************************************************************)
(* ComponentPortCore::SendFrames                                           *)
(***************************************************************************)
Batch == sender.first .. sender.last

Target == streams_started[sender.pos]

\* mutex_streams_started_, and mutex_frame_ of a stream.
NotSending == sender.pc = "idle"

FrameMutexFree(s) == sender.pc = "set" => Target # s

\* With no started stream the whole batch is dropped; otherwise every frame
\* of it is registered for all of them.
SendBegin ==
  \E n \in 1 .. MaxBatch :
    /\ NotSending
    /\ next + n - 1 <= MaxFrames
    /\ next' = next + n
    /\ LET batch == next .. next + n - 1 IN
       IF streams_started = << >>
       THEN /\ returned' = [f \in Frames |->
                              IF f \in batch THEN returned[f] + 1 ELSE returned[f]]
            /\ UNCHANGED <<sent_frames, sender>>
       ELSE /\ sent_frames' =
                 [f \in Frames |-> [s \in Streams |->
                    IF f \in batch /\ s \in Elements(streams_started)
                    THEN NotSendingYet ELSE sent_frames[f][s]]]
            /\ sender' = [Idle EXCEPT !.pc = "stream", !.pos = 1,
                                      !.first = next, !.last = next + n - 1]
            /\ UNCHANGED returned
    /\ UNCHANGED <<port_vars, manager, refused>>

\* Mutant: the frames such a stream drops are reported, but not given up.
SendStreamUnreleased ==
  /\ sender.pc = "stream"
  /\ sender' =
       IF phase[Target] = "running"
       THEN [sender EXCEPT !.pc = "set", !.frame = sender.first,
                           !.dropped = {}, !.todo = {}]
       ELSE [sender EXCEPT !.pc = "failed", !.dropped = Batch, !.todo = {}]
  /\ UNCHANGED <<port_vars, manager, sent_frames, next, returned, refused>>

\* StreamCore::SendFrames: a stream that is not sendable drops the batch.
SendStream ==
  /\ sender.pc = "stream"
  /\ sender' =
       IF phase[Target] = "running"
       THEN [sender EXCEPT !.pc = "set", !.frame = sender.first,
                           !.dropped = {}, !.todo = {}]
       ELSE [sender EXCEPT !.pc = "failed", !.dropped = Batch, !.todo = Batch]
  /\ UNCHANGED <<port_vars, manager, sent_frames, next, returned, refused>>

\* FrameManagerCore::Set, with the release of the frames it pushes out.
SendSet ==
  LET s == Target
      b == SetResult(Policy[s], manager[s])
      dropped == IF b.found THEN sender.dropped
                            ELSE sender.dropped \cup {sender.frame}
  IN
  /\ sender.pc = "set"
  /\ manager' = [manager EXCEPT ![s] = SetFrame(Policy[s], @, sender.frame)]
  /\ ReleaseFrames(s, b.evicted, Released)
  /\ sender' =
       IF sender.frame < sender.last
       THEN [sender EXCEPT !.frame = @ + 1, !.dropped = dropped]
       ELSE [sender EXCEPT !.pc = "failed", !.dropped = dropped, !.todo = dropped]
  /\ UNCHANGED <<port_vars, next, refused>>

\* The frames the stream dropped are given up one by one, oldest first.
SendFailed ==
  /\ sender.pc = "failed"
  /\ \E f \in sender.todo :
       /\ \A g \in sender.todo : f <= g
       /\ ReleaseFrames(Target, {f}, SendingFailed)
       /\ sender' = [sender EXCEPT !.todo = @ \ {f}]
  /\ UNCHANGED <<port_vars, manager, next, refused>>

\* dropped_result: the frames every stream so far has dropped.
Result ==
  IF sender.dropped = {} THEN {}
  ELSE IF sender.pos = 1 THEN sender.dropped
  ELSE sender.result \cap sender.dropped

\* On to the next stream; after the last one the component gets the result.
SendResult ==
  /\ sender.pc = "failed"
  /\ sender.todo = {}
  /\ IF sender.pos < Len(streams_started)
     THEN /\ sender' = [sender EXCEPT !.pc = "stream", !.pos = @ + 1, !.result = Result]
          /\ UNCHANGED returned
     ELSE /\ sender' = Idle
          /\ returned' = [f \in Frames |->
                            IF f \in Result THEN returned[f] + 1 ELSE returned[f]]
  /\ UNCHANGED <<port_vars, manager, sent_frames, next, refused>>

---------------------------------------------------------------------------
(***************************************************************************)
(* The application's calls on one stream: GetFrame, ReleaseFrame (the      *)
(* component may refuse the frame) and ClearFrames.                        *)
(***************************************************************************)
Open(s) == phase[s] \notin {"closed", "closing"}

Get(s) ==
  /\ FrameMutexFree(s)
  /\ phase[s] \in {"running", "stopping", "stop_port"}
  /\ CanGet(manager[s])
  /\ manager' = [manager EXCEPT ![s] = GetFrame(@)]
  /\ UNCHANGED <<port_vars, sent_frames, sender_vars, returned, refused>>

Release(s, f) ==
  /\ FrameMutexFree(s)
  /\ Open(s)
  /\ CanRemove(manager[s], f)
  /\ ReleaseFrames(s, {f}, Released)
  /\ \E ok \in BOOLEAN :
       /\ manager' = [manager EXCEPT ![s] = RemoveFrame(@, f, KnownTo(f, s) /\ ok)]
       /\ IF CallsImplementation(f, s, Released)
          THEN refused' = IF ok THEN refused ELSE refused \cup {f}
          ELSE ok /\ UNCHANGED refused
  /\ UNCHANGED <<port_vars, sender_vars>>

Clear(s) ==
  /\ FrameMutexFree(s)
  /\ Open(s)
  /\ CanGet(manager[s])
  /\ manager' = [manager EXCEPT ![s] = ClearFrames(@)]
  /\ ReleaseFrames(s, Elements(manager[s].incoming), Released)
  /\ UNCHANGED <<port_vars, sender_vars, refused>>

---------------------------------------------------------------------------
(***************************************************************************)
(* The state functions of a stream, down to the port and the component;    *)
(* those of one stream are serialized by its StreamFunctionLockManager.    *)
(***************************************************************************)
StateChangeFree == state_change = {}

\* RemoveStream of a list: find and erase.
Without(list, s) ==
  LET found == CHOOSE i \in DOMAIN list : list[i] = s /\ \A j \in 1 .. i - 1 : list[j] # s
  IN  SubSeq(list, 1, found - 1) \o SubSeq(list, found + 1, Len(list))

\* Mutant: the arrived frames are not cleared.
RemoveStreamKeepingFrames(s) ==
  /\ NotSending
  /\ streams_started' = Without(streams_started, s)
  /\ UNCHANGED <<manager, sent_frames, returned>>

\* RemoveStream of a started stream clears its arrived frames.
RemoveStream(s) ==
  /\ NotSending
  /\ streams_started' = Without(streams_started, s)
  /\ manager' = [manager EXCEPT ![s] = ClearFrames(@)]
  /\ ReleaseFrames(s, Elements(manager[s].incoming), Released)

\* Open, with CreateFrameManager.
OpenStream(s) ==
  /\ phase[s] = "closed"
  /\ StateChangeFree
  /\ phase' = [phase EXCEPT ![s] = "ready"]
  /\ manager' = [manager EXCEPT ![s] = InitManager(Policy[s], Constructed, BufferNum)]
  /\ UNCHANGED <<streams_started, state_change, sent_frames, sender_vars,
                 returned, refused>>

Unreleased == \E f \in Frames, s \in Streams : KnownTo(f, s)

\* Start: the first stream finds all frames back, or the port is busy.
Start(s) ==
  /\ phase[s] = "ready"
  /\ StateChangeFree
  /\ NotSending
  /\ streams_started = << >> => ~Unreleased
  /\ streams_started' = Append(streams_started, s)
  /\ IF streams_started = << >>
     THEN /\ phase' = [phase EXCEPT ![s] = "starting"]
          /\ state_change' = {s}
     ELSE /\ phase' = [phase EXCEPT ![s] = "started"]
          /\ UNCHANGED state_change
  /\ UNCHANGED <<manager, sent_frames, sender_vars, returned, refused>>

\* Start: the component's StartPort; a failure takes the stream off again.
StartPort(s) ==
  /\ phase[s] = "starting"
  /\ state_change' = {}
  /\ \/ /\ phase' = [phase EXCEPT ![s] = "started"]
        /\ UNCHANGED <<streams_started, manager, sent_frames, returned>>
     \/ /\ phase' = [phase EXCEPT ![s] = "ready"]
        /\ RemoveStream(s)
  /\ UNCHANGED <<sender_vars, refused>>

\* Start: the commit, from which on the stream is sendable.
StartCommit(s) ==
  /\ phase[s] = "started"
  /\ phase' = [phase EXCEPT ![s] = "running"]
  /\ UNCHANGED <<streams_started, state_change, manager, sent_frames, sender_vars,
                 returned, refused>>

\* Stop: the stream stops being sendable.
StopBegin(s) ==
  /\ phase[s] = "running"
  /\ phase' = [phase EXCEPT ![s] = "stopping"]
  /\ UNCHANGED <<streams_started, state_change, manager, sent_frames, sender_vars,
                 returned, refused>>

\* Stop: the port clears the arrived frames and takes the stream off.
Stop(s) ==
  /\ phase[s] = "stopping"
  /\ StateChangeFree
  /\ RemoveStream(s)
  /\ IF streams_started' = << >>
     THEN /\ phase' = [phase EXCEPT ![s] = "stop_port"]
          /\ state_change' = {s}
     ELSE /\ phase' = [phase EXCEPT ![s] = "ready"]
          /\ UNCHANGED state_change
  /\ UNCHANGED <<sender_vars, refused>>

\* Stop: the component's StopPort; a failure puts the stream back.
StopPort(s) ==
  /\ phase[s] = "stop_port"
  /\ state_change' = {}
  /\ \/ /\ phase' = [phase EXCEPT ![s] = "ready"]
        /\ UNCHANGED streams_started
     \/ /\ NotSending
        /\ phase' = [phase EXCEPT ![s] = "running"]
        /\ streams_started' = Append(streams_started, s)
  /\ UNCHANGED <<manager, sent_frames, sender_vars, returned, refused>>

\* Close: FrameManagerCore::Exit releases the frames the user still holds.
Close(s) ==
  /\ phase[s] = "ready"
  /\ phase' = [phase EXCEPT ![s] = "closing"]
  /\ manager' = [manager EXCEPT ![s] = ExitManager(@)]
  /\ ReleaseFrames(s, Held(manager[s]), Released)
  /\ UNCHANGED <<streams_started, state_change, sender_vars, refused>>

\* Close: the port.  The last stream closes the port of the component; if
\* that fails the frame manager is initialized again.
ClosePort(s) ==
  /\ phase[s] = "closing"
  /\ StateChangeFree
  /\ \/ /\ phase' = [phase EXCEPT ![s] = "closed"]
        /\ manager' = [manager EXCEPT ![s] = Constructed]
     \/ /\ \A u \in Streams \ {s} : phase[u] = "closed"
        /\ phase' = [phase EXCEPT ![s] = "ready"]
        /\ manager' = [manager EXCEPT ![s] = InitManager(Policy[s], @, BufferNum)]
  /\ UNCHANGED <<streams_started, state_change, sent_frames, sender_vars,
                 returned, refused>>

Send == SendBegin \/ SendStream \/ SendSet \/ SendFailed \/ SendResult

User(s) == Get(s) \/ Clear(s) \/ \E f \in Frames : Release(s, f)

StateFunction(s) ==
  \/ OpenStream(s) \/ Start(s) \/ StartPort(s) \/ StartCommit(s)
  \/ StopBegin(s) \/ Stop(s) \/ StopPort(s) \/ Close(s) \/ ClosePort(s)

Next == Send \/ \E s \in Streams : User(s) \/ StateFunction(s)

Spec == Init /\ [][Next]_vars

\* A SendFrames in progress waits for nothing but mutexes, whose holders run
\* on; nothing is assumed of the component's next call or of the users.
FairSpec == Spec /\ WF_vars(SendStream \/ SendSet \/ SendFailed \/ SendResult)

---------------------------------------------------------------------------
\* The states of the port, its streams and the sender.
TypeOK ==
  /\ phase \in [Streams -> Phases]
  /\ streams_started \in Seq(Streams)
  /\ state_change \subseteq Streams
  /\ manager \in [Streams -> ManagerType(Frames)]
  /\ sent_frames \in
       [Frames -> [Streams -> {NotSent, NotSendingYet, SendingFailed, Released}]]
  /\ sender \in [pc : {"idle", "stream", "set", "failed"}, first : Nat, last : Nat,
                 pos : Nat, frame : Nat, dropped : SUBSET Frames,
                 todo : SUBSET Frames, result : SUBSET Frames]
  /\ next \in Nat
  /\ returned \in [Frames -> Nat]
  /\ refused \subseteq Frames

\* The sender has not finished with frame f for stream s: it has to offer it,
\* or to report that the stream dropped it.
Pending(f, s) ==
  /\ sender.pc # "idle"
  /\ f \in Batch
  /\ \E i \in sender.pos .. Len(streams_started) :
       /\ streams_started[i] = s
       /\ \/ i > sender.pos
          \/ sender.pc = "stream"
          \/ sender.pc = "set" /\ (f >= sender.frame \/ f \in sender.dropped)
          \/ f \in sender.todo

(***************************************************************************)
(* No entry of sent_frames_ waits for a stream that will never release the *)
(* frame: the stream holds it or the sender is still dealing with it.  An  *)
(* orphan would keep the port busy for ever: it could not be restarted.    *)
(***************************************************************************)
NoOrphan ==
  \A f \in Frames, s \in Streams :
    sent_frames[f][s] = NotSendingYet => f \in Held(manager[s]) \/ Pending(f, s)

(***************************************************************************)
(* Frames wait only in streams that are started: after Stop no frame is    *)
(* left for a GetFrame of the next run, whatever the sender was doing.     *)
(***************************************************************************)
ArrivedOnlyIfStarted ==
  \A s \in Streams :
    manager[s].incoming # << >> => s \in Elements(streams_started)

(***************************************************************************)
(* sent_frames_ is an implementation of lending: a stream has a frame as   *)
(* long as its sending state is kNotSendingYet.                            *)
(***************************************************************************)
Ownership ==
  INSTANCE FrameOwnership WITH
    sent   <- 1 .. next - 1,
    owners <- [f \in Frames |-> {s \in Streams : sent_frames[f][s] = NotSendingYet}]

(***************************************************************************)
(* Every step of the port, of SendFrames, ReleaseFrame, Stop and Close, is *)
(* a step of the lending specification or none: each stream gives a frame  *)
(* up once, and the component gets it back once and not before.            *)
(***************************************************************************)
ImplementsOwnership == Ownership!Spec

(***************************************************************************)
(* A frame that no stream has any more goes back to the component: by the  *)
(* release that was the last one, or in the result of SendFrames.          *)
(***************************************************************************)
EveryFrameComesBack == Ownership!AllReturned
=============================================================================
