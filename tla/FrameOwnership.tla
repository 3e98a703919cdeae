--------------------------- MODULE FrameOwnership ---------------------------
(***************************************************************************)
(* What a component port promises a component about its frames, whatever   *)
(* the number of streams and their buffering: a frame is lent to the       *)
(* streams that are started when it is sent, each of them gives it up      *)
(* once, and the component gets it back exactly once, never while a stream *)
(* still has it.                                                           *)
(***************************************************************************)
EXTENDS Integers

CONSTANTS Streams, Frames

VARIABLES
  sent,      \* the frames the component has sent
  owners,    \* the streams that have each frame
  returned   \* how often the component got each frame back

vars == <<sent, owners, returned>>

Init ==
  /\ sent = {}
  /\ owners = [f \in Frames |-> {}]
  /\ returned = [f \in Frames |-> 0]

GivenBack(frames) ==
  returned' = [f \in Frames |-> IF f \in frames THEN returned[f] + 1 ELSE returned[f]]

\* New frames go to some streams; with nobody to take them they come back.
Lend(frames, streams) ==
  /\ frames \cap sent = {}
  /\ sent' = sent \cup frames
  /\ owners' = [f \in Frames |-> IF f \in frames THEN streams ELSE owners[f]]
  /\ GivenBack(IF streams = {} THEN frames ELSE {})

\* A stream gives frames up; those it was the last to have may come back.
Leave(stream, frames) ==
  /\ \A f \in frames : stream \in owners[f]
  /\ owners' = [f \in Frames |-> owners[f] \ (IF f \in frames THEN {stream} ELSE {})]
  /\ \E back \in SUBSET {f \in frames : owners[f] = {stream}} : GivenBack(back)
  /\ UNCHANGED sent

Returnable(f) == f \in sent /\ owners[f] = {} /\ returned[f] = 0

\* Frames that nobody has come back.
Return(frames) ==
  /\ \A f \in frames : Returnable(f)
  /\ GivenBack(frames)
  /\ UNCHANGED <<sent, owners>>

Next ==
  \E frames \in SUBSET Frames :
    \/ \E streams \in SUBSET Streams : Lend(frames, streams)
    \/ \E stream \in Streams : Leave(stream, frames)
    \/ Return(frames)

Spec == Init /\ [][Next]_vars

\* A frame that nobody has does not stay away from the component for ever.
AllReturned == \A f \in Frames : Returnable(f) ~> ~Returnable(f)
=============================================================================
