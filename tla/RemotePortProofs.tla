-------------------------- MODULE RemotePortProofs --------------------------
(***************************************************************************)
(* One port of a client and its stream on a server, for any number of      *)
(* frames, calls and faults, for shared or copied frames and whatever the  *)
(* server may refuse.                                                      *)
(***************************************************************************)
EXTENDS RemotePort, TLAPS

Elems(q) == {q[i] : i \in 1 .. Len(q)}

\* Each message of a queue has frames of its own.
Apart(q) == \A i, j \in 1 .. Len(q) : i # j => q[i].frames \cap q[j].frames = {}

\* A queue has at most one request about the state of the stream.
OneControl(q) ==
  \A i, j \in 1 .. Len(q) : q[i].type \in Control /\ q[j].type \in Control => i = j

---------------------------------------------------------------------------
(***************************************************************************)
(* The inductive invariant                                                 *)
(***************************************************************************)
\* The connection lives between the start of the receiving thread and its
\* end, and the server's adapter as long as the connection at least.
Connection ==
  /\ up => recv = "run" /\ adapter
  /\ ~up => to_server = <<>> /\ to_client = <<>>
  /\ ~adapter => requests = <<>>
  /\ recv = "none" => c_state = "closed" /\ app \notin {"open", "disconnect"}
  /\ c_state = "closed" /\ app = "idle" => recv = "none"

\* Only the end of the receiving thread wakes a thread without a reply.
Woken == \A c \in Callers : waiting[c].woken => recv = "ended"

\* Where the threads of the client may be together.
Places ==
  /\ app = "open" => c_state = "closed"
  /\ app \in {"start_lock", "start", "drain", "join", "close"} => c_state = "ready"
  /\ app = "stop" => c_state = "running"
  /\ app \in {"disconnect", "join_recv"} => c_state # "running"
  /\ component = "app" <=> app = "start"
  /\ component = "monitor" <=> monitor \in {"send", "release", "wait"}
  /\ taking => c_state = "running" \/ app \in {"start_lock", "start"}
  /\ c_state = "closed" \/ app \in {"join", "close", "disconnect", "join_recv"} =>
       held = {} /\ user_pc = "idle" /\ ~sendings
  /\ c_state = "closed" \/ app \in {"close", "disconnect", "join_recv"} => monitor = None
  /\ ~sendings => app = "join" \/ monitor = None
  /\ monitor \in {None, "ended"} => messages = <<>> /\ ~sendings

\* What the user and the port sending thread deal with at each place.
Hands ==
  /\ user_pc = "idle" <=> user = 0
  /\ monitor \in {None, "loop", "ended"} => message = {}
  /\ monitor = "lock" => batch = message
  /\ batch \subseteq message

\* The entry of frame_manager_ and the mapping.
Memory ==
  /\ MappedWhileHeld
  /\ fm = "running" => c_state = "running" \/ app = "start"
  /\ c_state = "closed" => fm = None
  /\ fm = "stopped" => fm_frames # {}
  /\ monitor = "send" => batch \subseteq fm_frames
  /\ user_pc = "wait" => user \notin fm_frames

\* The frames that left the port sending thread for the stream.
Taken == held \cup ({user} \ {0})

\* Every frame is in one place of the client or on its way there at most, and
\* was sent before.
FramesApart ==
  /\ Apart(to_client) /\ Apart(messages)
  /\ FramesIn(to_client) \cap FramesIn(messages) = {}
  /\ Sent \cap (Taken \cup message) = {}
  /\ user \notin held
  /\ Taken \cap batch = {}
  /\ \A f \in Sent \cup Taken \cup message : frame[f] \in {"pending", "released"}

\* Only messages about frames carry frames, and those are frames that were sent.
Carried ==
  /\ \A m \in Elems(to_client) : m.type # "SendFrame" => m.frames = {}
  /\ \A m \in Elems(to_server) \cup Elems(requests) : m.type \in Control => m.frames = {}
  /\ \A f \in Asked : frame[f] \in {"pending", "released"}

\* A stream that is not there waits for no frame.
NoStream == server = "none" => \A f \in Frames : frame[f] \in {None, "released"}

\* As long as the reply to Open is not there nothing else is under way.
Opening ==
  app = "open" /\ up =>
    /\ \A m \in Elems(to_server) : m.type = "Open"
    /\ requests = <<>> /\ server # "running" /\ Asked = {} /\ Sent = {}
    /\ \A f \in Frames : frame[f] \in {None, "released"}

\* A Close is sent only when the port sendings are gone.
Closing == \A m \in Elems(to_server) : m.type = "Close" => ~sendings /\ app # "open"

\* Only after a Close, without port sendings, a stream is without its worker.
Served == up /\ (sendings \/ app = "open") => worker = "run" \/ server = "none"

\* The calls that wait for a reply, the request of each, and the states of the
\* server's stream before and after it.
Asking == {"open", "start", "stop", "close"}

RequestOf == [open |-> "Open", start |-> "Start", stop |-> "Stop", close |-> "Close"]

Before == [open |-> "none", start |-> "ready", stop |-> "running", close |-> "ready"]

Done == [open |-> "ready", start |-> "running", stop |-> "ready", close |-> "none"]

After(reply) == IF reply = "ok" THEN Done[app] ELSE Before[app]

Id == waiting["app"].id

\* Ids grow, and the application's thread has one while it waits.
Numbers ==
  /\ \A m \in Elems(to_server) \cup Elems(requests) \cup Elems(to_client) : m.id < request_id
  /\ \A c \in Callers : waiting[c].id < request_id
  /\ app \in Asking <=> Id # 0

\* No other message has the id the application waits for, and it waits for
\* none once it has asked to be disconnected.
Foreign ==
  /\ app \in Asking =>
       /\ \A m \in Elems(to_server) \cup Elems(requests) : m.type \notin Control => m.id # Id
       /\ \A m \in Elems(to_client) : m.type \notin {"ok", "error"} => m.id # Id
  /\ \A m \in Elems(to_server) : m.type = "Disconnect" => app = "join_recv"

\* One request about the state of the stream is under way at most.
OneRequest ==
  /\ OneControl(to_server) /\ OneControl(requests)
  /\ \/ \A m \in Elems(to_server) : m.type \notin Control
     \/ \A m \in Elems(requests) : m.type \notin Control

\* Before the server deals with the request of a call its stream is as before the
\* call, and afterwards as the answer says.
AsAnswered ==
  app \in Asking =>
    /\ \A m \in Elems(to_server) \cup Elems(requests) : m.type \in Control =>
         /\ m.id = Id /\ m.type = RequestOf[app] /\ server = Before[app]
         /\ waiting["app"].reply = None
         /\ \A r \in Elems(to_client) : r.id # Id
    /\ \A m \in Elems(to_client) : m.id = Id => server = After(m.type)
    /\ waiting["app"].reply # None => server = After(waiting["app"].reply)

\* Between calls no such request is under way, and the server's stream is as the
\* client's.
Between ==
  /\ app \in {"idle", "start_lock", "drain", "join", "disconnect"} =>
       \A m \in Elems(to_server) \cup Elems(requests) : m.type \notin Control
  /\ app \in {"idle", "start_lock", "drain", "join"} => server = c_state

\* All that as long as no reply was given up.
Agree == up /\ timeouts = 0 => OneRequest /\ AsAnswered /\ Between

---------------------------------------------------------------------------
(***************************************************************************)
(* Queues                                                                  *)
(***************************************************************************)
\* Append adds one element at the end.
LEMMA AppendFacts ==
  ASSUME NEW T, NEW q \in Seq(Messages(T)), NEW m \in Messages(T)
  PROVE  /\ Append(q, m) \in Seq(Messages(T))
         /\ Append(q, m) # <<>>
         /\ Elems(Append(q, m)) = Elems(q) \cup {m}
         /\ FramesIn(Append(q, m)) = FramesIn(q) \cup m.frames
         /\ Apart(q) /\ m.frames \cap FramesIn(q) = {} => Apart(Append(q, m))
         /\ OneControl(q) /\ (m.type \notin Control \/ \A e \in Elems(q) : e.type \notin Control)
              => OneControl(Append(q, m))
<1> DEFINE p == Append(q, m)
<1>1. /\ p \in Seq(Messages(T)) /\ Len(p) = Len(q) + 1 /\ Len(q) \in Nat /\ p # <<>>
      /\ \A i \in 1 .. Len(q) : p[i] = q[i]
      /\ p[Len(q) + 1] = m
  OBVIOUS
<1> HIDE DEF p
<1>2. 1 .. Len(p) = (1 .. Len(q)) \cup {Len(p)} /\ Len(p) \notin 1 .. Len(q) /\ p[Len(p)] = m
  BY <1>1
<1>3. Elems(p) = Elems(q) \cup {m}
  BY <1>1, <1>2 DEF Elems
<1>4. FramesIn(p) = FramesIn(q) \cup m.frames
  BY <1>1, <1>2 DEF FramesIn
<1>5. ASSUME Apart(q), m.frames \cap FramesIn(q) = {} PROVE Apart(p)
  <2>1. \A i \in 1 .. Len(q) : q[i].frames \subseteq FramesIn(q)
    BY DEF FramesIn
  <2> QED BY <1>1, <1>2, <1>5, <2>1 DEF Apart
<1>6. ASSUME OneControl(q), m.type \notin Control \/ \A e \in Elems(q) : e.type \notin Control
      PROVE  OneControl(p)
  BY <1>1, <1>2, <1>6 DEF OneControl, Elems
<1> QED BY <1>1, <1>3, <1>4, <1>5, <1>6 DEF p

\* The head leaves, the others stay.
LEMMA TailFacts ==
  ASSUME NEW T, NEW q \in Seq(Messages(T)), q # <<>>
  PROVE  /\ Head(q) \in Messages(T) /\ Tail(q) \in Seq(Messages(T))
         /\ Elems(q) = {Head(q)} \cup Elems(Tail(q))
         /\ FramesIn(q) = Head(q).frames \cup FramesIn(Tail(q))
         /\ Apart(q) => Apart(Tail(q)) /\ Head(q).frames \cap FramesIn(Tail(q)) = {}
         /\ OneControl(q) =>
              /\ OneControl(Tail(q))
              /\ Head(q).type \in Control => \A e \in Elems(Tail(q)) : e.type \notin Control
<1> DEFINE h == Head(q)
           t == Tail(q)
<1>1. /\ h \in Messages(T) /\ t \in Seq(Messages(T)) /\ h = q[1]
      /\ Len(q) \in Nat \ {0} /\ Len(t) = Len(q) - 1
      /\ \A i \in 1 .. Len(t) : t[i] = q[i + 1]
  OBVIOUS
<1> HIDE DEF h, t
<1>2. /\ \A i \in 1 .. Len(q) : i = 1 \/ (i - 1 \in 1 .. Len(t) /\ q[i] = t[i - 1])
      /\ \A i \in 1 .. Len(t) : i + 1 \in 1 .. Len(q) /\ i + 1 # 1
      /\ 1 \in 1 .. Len(q)
  BY <1>1
<1>3. Elems(q) = {h} \cup Elems(t)
  <2>1. \A i \in 1 .. Len(q) : q[i] \in {h} \cup Elems(t)
    BY <1>1, <1>2 DEF Elems
  <2>2. h \in Elems(q) /\ \A i \in 1 .. Len(t) : t[i] \in Elems(q)
    BY <1>1, <1>2 DEF Elems
  <2> QED BY <2>1, <2>2 DEF Elems
<1>4. FramesIn(q) = h.frames \cup FramesIn(t)
  <2>1. /\ FramesIn(q) = UNION {e.frames : e \in Elems(q)}
        /\ FramesIn(t) = UNION {e.frames : e \in Elems(t)}
    BY DEF FramesIn, Elems
  <2> QED BY <2>1, <1>3
<1>5. ASSUME Apart(q) PROVE Apart(t) /\ h.frames \cap FramesIn(t) = {}
  <2>1. Apart(t)
    BY <1>1, <1>2, <1>5 DEF Apart
  <2>2. \A i \in 1 .. Len(t) : h.frames \cap t[i].frames = {}
    BY <1>1, <1>2, <1>5 DEF Apart
  <2> QED BY <2>1, <2>2 DEF FramesIn
<1>6. ASSUME OneControl(q)
      PROVE  OneControl(t) /\ (h.type \in Control => \A e \in Elems(t) : e.type \notin Control)
  <2>1. OneControl(t)
    BY <1>1, <1>2, <1>6 DEF OneControl
  <2>2. h.type \in Control => \A i \in 1 .. Len(t) : t[i].type \notin Control
    BY <1>1, <1>2, <1>6 DEF OneControl
  <2> QED BY <2>1, <2>2 DEF Elems
<1> QED BY <1>1, <1>3, <1>4, <1>5, <1>6 DEF h, t

\* An empty queue.
LEMMA EmptyFacts ==
  /\ \A T : <<>> \in Seq(Messages(T))
  /\ Elems(<<>>) = {} /\ FramesIn(<<>>) = {} /\ Apart(<<>>) /\ OneControl(<<>>)
<1>1. \A i \in 1 .. Len(<<>>) : FALSE
  OBVIOUS
<1> QED BY <1>1 DEF Elems, FramesIn, Apart, OneControl

---------------------------------------------------------------------------
(***************************************************************************)
(* Types                                                                   *)
(***************************************************************************)
WaitingType == [id : Nat, reply : {None, "ok", "error"}, woken : BOOLEAN]

ToServer == Messages(Control \cup {"ReleaseFrame", "SendFrame"})
ToClient == Messages({"ok", "error", "disconnected", "SendFrame"})
ToStream == Messages({"Start", "Stop", "ReleaseFrame", "SendFrame"})

\* A request: a message with the next id, for which the thread then waits.
LEMMA SendRequestFacts ==
  ASSUME TypeOK, NEW c \in Callers,
         NEW type \in Control \cup {"ReleaseFrame", "SendFrame"}, NEW frames \in SUBSET Frames,
         SendRequest(c, type, frames)
  PROVE  /\ Message(type, request_id, frames) \in ToServer
         /\ to_server' \in Seq(ToServer) /\ request_id' \in Nat \ {0}
         /\ waiting' \in [Callers -> WaitingType]
         /\ waiting'[c] = [id |-> request_id, reply |-> None, woken |-> FALSE]
         /\ \A d \in Callers \ {c} : waiting'[d] = waiting[d]
         /\ Elems(to_server') = Elems(to_server) \cup {Message(type, request_id, frames)}
         /\ FramesIn(to_server') = FramesIn(to_server) \cup frames
         /\ OneControl(to_server)
                /\ (type \notin Control \/ \A e \in Elems(to_server) : e.type \notin Control)
              => OneControl(to_server')
         /\ up /\ request_id' = request_id + 1
         /\ UNCHANGED <<shared, up, to_client, is_connected, recv>>
<1> DEFINE m == Message(type, request_id, frames)
<1>1. m \in ToServer /\ m.frames = frames /\ m.type = type
  BY DEF TypeOK, Message, Messages, ToServer
<1>2. /\ to_server' = Append(to_server, m) /\ request_id' = request_id + 1
      /\ up /\ UNCHANGED <<shared, up, to_client, is_connected, recv>>
  BY DEF SendRequest
<1>3. to_server \in Seq(ToServer)
  BY DEF TypeOK, ToServer
<1>4. /\ waiting' \in [Callers -> WaitingType]
      /\ waiting'[c] = [id |-> request_id, reply |-> None, woken |-> FALSE]
      /\ \A d \in Callers \ {c} : waiting'[d] = waiting[d]
  BY DEF SendRequest, NotWaiting, WaitingType, TypeOK
<1> HIDE DEF m
<1>5. /\ Append(to_server, m) \in Seq(ToServer)
      /\ Elems(Append(to_server, m)) = Elems(to_server) \cup {m}
      /\ FramesIn(Append(to_server, m)) = FramesIn(to_server) \cup m.frames
      /\ OneControl(to_server)
             /\ (m.type \notin Control \/ \A e \in Elems(to_server) : e.type \notin Control)
           => OneControl(Append(to_server, m))
  BY <1>1, <1>3, AppendFacts DEF ToServer
<1>6. request_id + 1 \in Nat \ {0}
  BY DEF TypeOK
<1>7. m = Message(type, request_id, frames)
  BY DEF m
<1> QED BY <1>1, <1>2, <1>4, <1>5, <1>6, <1>7

\* WaitCommandReply: the thread waits no more.
LEMMA ReplyFacts ==
  ASSUME TypeOK, NEW c \in Callers, NEW reply \in Replies, Reply(c, reply)
  PROVE  /\ waiting' \in [Callers -> WaitingType]
         /\ waiting'[c] = [id |-> 0, reply |-> None, woken |-> FALSE]
         /\ \A d \in Callers \ {c} : waiting'[d] = waiting[d]
         /\ timeouts' \in 0 .. MaxFaults /\ timeouts' >= timeouts
         /\ UNCHANGED <<connection_vars, is_connected, recv, request_id, calls, breaks>>
<1>1. /\ waiting' \in [Callers -> WaitingType]
      /\ waiting'[c] = [id |-> 0, reply |-> None, woken |-> FALSE]
      /\ \A d \in Callers \ {c} : waiting'[d] = waiting[d]
  BY DEF Reply, NotWaiting, WaitingType, TypeOK
<1>2. timeouts' \in 0 .. MaxFaults /\ timeouts' >= timeouts
  BY RemotePortAssumption DEF Reply, TypeOK
<1> QED BY <1>1, <1>2 DEF Reply

\* The entry of frame_manager_ keeps its type.
LEMMA EntryType ==
  ASSUME TypeOK,
         \/ UNCHANGED memory_vars \/ StopFrames \/ \E f \in Frames : RemoveFrame(f)
  PROVE  fm' \in {None, "running", "stopped"} /\ fm_frames' \subseteq Frames /\ mapped' \in BOOLEAN
BY DEF TypeOK, StopFrames, RemoveFrame, CloseEntry, memory_vars

\* The type invariant in parts.
MessengerType ==
  /\ shared \in Sharing /\ up \in BOOLEAN /\ is_connected \in BOOLEAN
  /\ recv \in {"none", "run", "ended"}
  /\ to_server \in Seq(ToServer) /\ to_client \in Seq(ToClient)
  /\ waiting \in [Callers -> WaitingType] /\ request_id \in Nat \ {0}

StreamType ==
  /\ app \in {"idle", "open", "start_lock", "start", "stop", "drain", "join", "close",
               "disconnect", "join_recv"}
  /\ c_state \in {"closed", "ready", "running"} /\ taking \in BOOLEAN
  /\ held \subseteq Frames /\ user \in Frames \cup {0}
  /\ user_pc \in {"idle", "release", "wait"}

SendingType ==
  /\ sendings \in BOOLEAN /\ message \subseteq Frames /\ batch \subseteq Frames
  /\ messages \in Seq(Messages({"SendFrame"}))
  /\ monitor \in {None, "loop", "lock", "send", "release", "wait", "reply", "ended"}
  /\ component \in {None, "app", "monitor"}

MemoryType ==
  fm \in {None, "running", "stopped"} /\ fm_frames \subseteq Frames /\ mapped \in BOOLEAN

ServerType ==
  /\ adapter \in BOOLEAN /\ server \in ServerStates
  /\ requests \in Seq(ToStream) /\ worker \in {"run", "none", "barred"}
  /\ frame \in [Frames -> {None, "arrived", "pending", "released"}]

CountType == calls \in 0 .. MaxCalls /\ timeouts \in 0 .. MaxFaults /\ breaks \in 0 .. MaxFaults

LEMMA TypeParts ==
  /\ TypeOK => MessengerType /\ StreamType /\ SendingType /\ MemoryType /\ ServerType /\ CountType
  /\ (MessengerType /\ StreamType /\ SendingType /\ MemoryType /\ ServerType /\ CountType)'
       => TypeOK'
BY DEF TypeOK, MessengerType, StreamType, SendingType, MemoryType, ServerType, CountType, ToServer,
       ToClient, ToStream, WaitingType, Messages, Frames, Control, Callers, ServerStates

\* What an action does not touch keeps its type.
LEMMA SameTypes ==
  ASSUME TypeOK
  PROVE  /\ UNCHANGED <<connection_vars, messenger_vars>> => MessengerType'
         /\ UNCHANGED <<app_vars, user_vars>> => StreamType'
         /\ UNCHANGED sending_vars => SendingType'
         /\ UNCHANGED memory_vars => MemoryType'
         /\ UNCHANGED server_vars => ServerType'
         /\ UNCHANGED count_vars => CountType'
BY TypeParts
   DEF MessengerType, StreamType, SendingType, MemoryType, ServerType, CountType, connection_vars,
       messenger_vars, app_vars, user_vars, sending_vars, memory_vars, server_vars, count_vars

\* What the pieces of an action do to the parts.
LEMMA PieceTypes ==
  ASSUME TypeOK
  PROVE  /\ \A c \in Callers, type \in Control, frames \in SUBSET Frames :
              SendRequest(c, type, frames) => MessengerType'
         /\ \A c \in Callers, f \in Frames :
              SendRequest(c, "ReleaseFrame", {f}) => MessengerType'
         /\ SendFails => MessengerType'
         /\ \A c \in Callers, reply \in Replies :
              Reply(c, reply) => MessengerType' /\ CountType'
         /\ Call => CountType'
         /\ StopFrames \/ (\E f \in Frames : RemoveFrame(f)) => MemoryType'
<1>1. ASSUME NEW c \in Callers, NEW type \in Control \cup {"ReleaseFrame", "SendFrame"},
             NEW frames \in SUBSET Frames, SendRequest(c, type, frames)
      PROVE  MessengerType'
  <2>1. /\ to_server' \in Seq(ToServer) /\ request_id' \in Nat \ {0}
        /\ waiting' \in [Callers -> WaitingType]
    BY <1>1, SendRequestFacts
  <2>2. UNCHANGED <<shared, up, to_client, is_connected, recv>>
    BY <1>1 DEF SendRequest
  <2> QED BY <2>1, <2>2, TypeParts DEF MessengerType
<1>2. SendFails => MessengerType'
  BY SameTypes DEF SendFails
<1>3. ASSUME NEW c \in Callers, NEW reply \in Replies, Reply(c, reply)
      PROVE  MessengerType' /\ CountType'
  <2>1. /\ waiting' \in [Callers -> WaitingType]
        /\ timeouts' \in 0 .. MaxFaults
        /\ UNCHANGED <<connection_vars, is_connected, recv, request_id, calls, breaks>>
    BY <1>3, ReplyFacts
  <2> QED BY <2>1, TypeParts DEF MessengerType, CountType, connection_vars
<1>4. ASSUME Call PROVE CountType'
  BY <1>4, TypeParts, RemotePortAssumption DEF Call, CountType
<1>5. StopFrames \/ (\E f \in Frames : RemoveFrame(f)) => MemoryType'
  BY EntryType DEF MemoryType
<1> QED BY <1>1, <1>2, <1>3, <1>4, <1>5

\* The calls of the application.
LEMMA CallType ==
  ASSUME TypeOK, CallOpen \/ CallStart \/ CallStop \/ CallClose
  PROVE  TypeOK'
<1> USE TypeParts, SameTypes, PieceTypes
    DEF Callers, connection_vars, messenger_vars, app_vars, user_vars, sending_vars, memory_vars,
        server_vars, count_vars
<1>1. CASE CallOpen
  <2> DEFINE m == Message("Open", request_id, {})
  <2>1. m \in ToServer
    BY DEF TypeOK, Message, Messages, ToServer, Control
  <2>2. to_server' \in Seq(ToServer)
    BY <1>1, <2>1 DEF CallOpen
  <2>3. waiting' \in [Callers -> WaitingType] /\ request_id' \in Nat \ {0}
    <3>1. request_id \in Nat /\ request_id + 1 \in Nat \ {0}
      BY DEF MessengerType
    <3>2. [NotWaiting EXCEPT !.id = request_id] \in WaitingType
      BY <3>1 DEF NotWaiting, WaitingType
    <3> QED BY <1>1, <3>1, <3>2 DEF CallOpen, MessengerType
  <2>4. MessengerType'
    BY <1>1, <2>2, <2>3 DEF CallOpen, MessengerType
  <2>5. StreamType' /\ ServerType'
    BY <1>1 DEF CallOpen, StreamType, ServerType, user_vars
  <2> QED BY <1>1, <2>4, <2>5 DEF CallOpen
<1>2. CASE CallStart
  <2>1. StreamType'
    BY <1>2 DEF CallStart, StreamType, user_vars
  <2> QED BY <1>2, <2>1 DEF CallStart
<1>3. CASE CallStop
  <2>1. MessengerType'
    BY <1>3 DEF CallStop, Control
  <2>2. StreamType'
    BY <1>3 DEF CallStop, StopFailed, StopSucceeds, StreamType, user_vars
  <2>3. MemoryType'
    BY <1>3 DEF CallStop, StopFailed, StopSucceeds
  <2> QED BY <1>3, <2>1, <2>2, <2>3 DEF CallStop
<1>4. CASE CallClose
  <2>1. StreamType'
    BY <1>4 DEF CallClose, StreamType, user_vars
  <2> QED BY <1>4, <2>1 DEF CallClose
<1> QED BY <1>1, <1>2, <1>3, <1>4

\* The rest of the application's thread.
LEMMA AppType ==
  ASSUME TypeOK, AppStep
  PROVE  TypeOK'
<1> USE TypeParts, SameTypes, PieceTypes
    DEF Callers, connection_vars, messenger_vars, app_vars, user_vars, sending_vars, memory_vars,
        server_vars, count_vars
<1>1. ASSUME NEW reply \in Replies, OpenReply(reply) PROVE TypeOK'
  <2>1. MessengerType' /\ CountType'
    BY <1>1 DEF OpenReply
  <2>2. StreamType'
    BY <1>1 DEF OpenReply, StreamType, user_vars
  <2>3. SendingType'
    BY <1>1 DEF OpenReply, SendingType
  <2> QED BY <1>1, <2>1, <2>2, <2>3 DEF OpenReply
<1>2. ASSUME NEW reply \in Replies, StartReply(reply) PROVE TypeOK'
  <2>1. MessengerType' /\ CountType'
    BY <1>2 DEF StartReply
  <2>2. StreamType'
    BY <1>2 DEF StartReply, StreamType, user_vars
  <2>3. SendingType'
    BY <1>2 DEF StartReply, SendingType
  <2>4. MemoryType'
    BY <1>2 DEF StartReply
  <2> QED BY <1>2, <2>1, <2>2, <2>3, <2>4 DEF StartReply
<1>3. ASSUME NEW reply \in Replies, StopReply(reply) PROVE TypeOK'
  <2>1. MessengerType' /\ CountType'
    BY <1>3 DEF StopReply
  <2>2. StreamType'
    BY <1>3 DEF StopReply, StopFailed, StopSucceeds, StreamType, user_vars
  <2>3. MemoryType'
    BY <1>3 DEF StopReply, StopFailed, StopSucceeds
  <2> QED BY <1>3, <2>1, <2>2, <2>3 DEF StopReply
<1>4. ASSUME NEW reply \in Replies, CloseReply(reply) PROVE TypeOK'
  <2>1. MessengerType' /\ CountType'
    BY <1>4 DEF CloseReply
  <2>2. StreamType'
    BY <1>4 DEF CloseReply, StreamType, user_vars
  <2> QED BY <1>4, <2>1, <2>2 DEF CloseReply
<1>5. CASE StartLock
  <2>1. MessengerType'
    BY <1>5 DEF StartLock, Control
  <2>2. StreamType'
    BY <1>5 DEF StartLock, StreamType, user_vars
  <2>3. SendingType'
    BY <1>5 DEF StartLock, SendingType
  <2>4. MemoryType'
    BY <1>5 DEF StartLock, MemoryType, memory_vars
  <2> QED BY <1>5, <2>1, <2>2, <2>3, <2>4 DEF StartLock
<1>6. CASE StopPortSendings
  <2>1. StreamType'
    BY <1>6 DEF StopPortSendings, StreamType, user_vars
  <2>2. SendingType'
    BY <1>6 DEF StopPortSendings, SendingType
  <2> QED BY <1>6, <2>1, <2>2 DEF StopPortSendings
<1>7. CASE CloseRequest
  <2>1. MessengerType'
    BY <1>7 DEF CloseRequest, Control
  <2>2. StreamType'
    BY <1>7 DEF CloseRequest, StreamType, user_vars
  <2>3. SendingType'
    BY <1>7 DEF CloseRequest, SendingType
  <2> QED BY <1>7, <2>1, <2>2, <2>3 DEF CloseRequest
<1>8. CASE Disconnect
  <2> DEFINE m == Message("Disconnect", request_id, {})
  <2>1. m \in ToServer
    BY DEF TypeOK, Message, Messages, ToServer, Control
  <2>2. Append(to_server, m) \in Seq(ToServer)
    BY <2>1, AppendFacts DEF TypeOK, ToServer
  <2>3. to_server' \in Seq(ToServer) /\ request_id' \in Nat \ {0} /\ is_connected' \in BOOLEAN
    <3>1. to_server \in Seq(ToServer) /\ request_id + 1 \in Nat \ {0} /\ is_connected \in BOOLEAN
          /\ request_id \in Nat \ {0}
      BY DEF MessengerType
    <3> QED BY <1>8, <2>2, <3>1 DEF Disconnect
  <2>4. MessengerType'
    BY <1>8, <2>3 DEF Disconnect, MessengerType
  <2>5. StreamType'
    BY <1>8 DEF Disconnect, StreamType, user_vars
  <2> QED BY <1>8, <2>4, <2>5 DEF Disconnect
<1>9. CASE JoinRecv
  <2>1. waiting' \in [Callers -> WaitingType]
    BY <1>9 DEF JoinRecv, NotWaiting, WaitingType
  <2>2. MessengerType'
    BY <1>9, <2>1 DEF JoinRecv, MessengerType, connection_vars
  <2>3. StreamType' /\ MemoryType'
    BY <1>9 DEF JoinRecv, StreamType, MemoryType, user_vars
  <2> QED BY <1>9, <2>2, <2>3 DEF JoinRecv
<1> QED BY <1>1, <1>2, <1>3, <1>4, <1>5, <1>6, <1>7, <1>8, <1>9 DEF AppStep

\* The user, the port sending thread and the receiving thread.
LEMMA ClientType ==
  ASSUME TypeOK, user_pc = "idle" <=> user = 0,
         UserStep \/ MonitorStep \/ RecvStep
  PROVE  TypeOK'
<1> USE TypeParts, SameTypes, PieceTypes
    DEF Callers, connection_vars, messenger_vars, app_vars, user_vars, sending_vars, memory_vars,
        server_vars, count_vars
<1>0. waiting \in [Callers -> WaitingType]
  BY DEF TypeOK, WaitingType
<1>1. ASSUME NEW f \in Frames, UserRelease(f) PROVE TypeOK'
  <2>1. StreamType'
    BY <1>1 DEF UserRelease, StreamType, app_vars
  <2> QED BY <1>1, <2>1 DEF UserRelease
<1>2. CASE UserReleaseFrame
  <2>1. user \in Frames
    BY <1>2 DEF UserReleaseFrame, StreamType
  <2>2. MessengerType' /\ MemoryType'
    BY <1>2, <2>1 DEF UserReleaseFrame
  <2>3. StreamType'
    BY <1>2 DEF UserReleaseFrame, StreamType, app_vars
  <2> QED BY <1>2, <2>2, <2>3 DEF UserReleaseFrame
<1>3. ASSUME NEW reply \in Replies, UserReply(reply) PROVE TypeOK'
  <2>1. MessengerType' /\ CountType'
    BY <1>3 DEF UserReply
  <2>2. StreamType'
    BY <1>3 DEF UserReply, StreamType, app_vars
  <2> QED BY <1>3, <2>1, <2>2 DEF UserReply
<1>4. CASE MonitorMessages
  <2>1. messages # <<>> => /\ Head(messages) \in Messages({"SendFrame"})
                          /\ Tail(messages) \in Seq(Messages({"SendFrame"}))
    BY TailFacts DEF SendingType
  <2>2. messages # <<>> => Head(messages).frames \subseteq Frames
    BY <2>1 DEF Messages
  <2>3. <<>> \in Seq(Messages({"SendFrame"}))
    BY EmptyFacts
  <2>4. SendingType'
    BY <1>4, <2>1, <2>2, <2>3 DEF MonitorMessages, SendingType
  <2> QED BY <1>4, <2>4 DEF MonitorMessages
<1>5. CASE AddFrames
  <2>1. SendingType' /\ MemoryType'
    BY <1>5 DEF AddFrames, SendingType, MemoryType
  <2> QED BY <1>5, <2>1 DEF AddFrames
<1>6. CASE SendFrames
  <2>1. SendingType' /\ StreamType'
    BY <1>6 DEF SendFrames, SendingType, StreamType, app_vars
  <2> QED BY <1>6, <2>1 DEF SendFrames
<1>7. CASE ReleaseDropped
  <2>1. PICK f \in batch :
          /\ RemoveFrame(f)
          /\ batch' = batch \ {f}
          /\ IF shared /\ up
             THEN SendRequest("monitor", "ReleaseFrame", {f}) /\ monitor' = "wait"
             ELSE UNCHANGED <<monitor, connection_vars, messenger_vars>>
    BY <1>7 DEF ReleaseDropped
  <2>2. f \in Frames
    BY DEF SendingType
  <2>3. MessengerType' /\ MemoryType'
    BY <2>1, <2>2
  <2>4. SendingType'
    BY <1>7, <2>1 DEF ReleaseDropped, SendingType
  <2> QED BY <1>7, <2>3, <2>4 DEF ReleaseDropped
<1>8. ASSUME NEW reply \in Replies, MonitorReply(reply) PROVE TypeOK'
  <2>1. MessengerType' /\ CountType'
    BY <1>8 DEF MonitorReply
  <2>2. SendingType'
    BY <1>8 DEF MonitorReply, SendingType
  <2> QED BY <1>8, <2>1, <2>2 DEF MonitorReply
<1>9. CASE FramesDone
  <2>1. Append(to_server, Message("SendFrame", 0, message)) \in Seq(ToServer)
    BY AppendFacts DEF TypeOK, Message, Messages, ToServer
  <2>2. MessengerType'
    BY <1>9, <2>1 DEF FramesDone, MessengerType, messenger_vars
  <2>3. SendingType'
    BY <1>9 DEF FramesDone, SendingType
  <2> QED BY <1>9, <2>2, <2>3 DEF FramesDone
<1>10. CASE Recv
  <2>1. /\ Head(to_client) \in ToClient /\ Tail(to_client) \in Seq(ToClient)
        /\ to_client' = Tail(to_client)
    BY <1>10, TailFacts DEF Recv, ToClient, MessengerType
  <2> DEFINE m == Head(to_client)
  <2>2. CASE DealReply(m)
    <3>1. waiting' \in [Callers -> WaitingType]
      <4>1. \A w \in WaitingType : [w EXCEPT !.reply = m.type] \in WaitingType
        BY <2>2 DEF DealReply, WaitingType
      <4> QED BY <1>0, <2>2, <4>1 DEF DealReply
    <3> QED BY <1>10, <2>1, <2>2, <3>1 DEF Recv, DealReply, MessengerType, SendingType
  <2>3. CASE DealDisconnected(m)
    BY <1>10, <2>1, <2>3 DEF Recv, DealDisconnected, MessengerType, SendingType
  <2>4. CASE DealFrames(m)
    <3>1. m \in Messages({"SendFrame"})
      BY <2>1, <2>4 DEF DealFrames, ToClient, Messages
    <3>2. Append(messages, m) \in Seq(Messages({"SendFrame"}))
      BY <3>1, AppendFacts DEF TypeOK
    <3>3. messages' \in Seq(Messages({"SendFrame"}))
      BY <2>4, <3>2 DEF DealFrames, TypeOK
    <3> QED BY <1>10, <2>1, <2>4, <3>3 DEF Recv, DealFrames, MessengerType, SendingType
  <2> QED BY <1>10, <2>2, <2>3, <2>4 DEF Recv
<1>11. CASE RecvEnd
  <2>1. waiting' \in [Callers -> WaitingType]
    <3>1. \A w \in WaitingType : [w EXCEPT !.woken = TRUE] \in WaitingType
      BY DEF WaitingType
    <3> QED BY <1>11, <1>0, <3>1 DEF RecvEnd
  <2>2. MessengerType'
    BY <1>11, <2>1, EmptyFacts DEF RecvEnd, MessengerType, ToServer, ToClient
  <2> QED BY <1>11, <2>2 DEF RecvEnd
<1> QED BY <1>1, <1>2, <1>3, <1>4, <1>5, <1>6, <1>7, <1>8, <1>9, <1>10, <1>11
         DEF UserStep, MonitorStep, RecvStep

\* Answer and Release.
LEMMA AnswerFacts ==
  ASSUME TypeOK, NEW m, m.id \in Nat, NEW answer \in {"ok", "error", "disconnected"},
         Answer(m, answer)
  PROVE  /\ to_client' \in Seq(ToClient)
         /\ ~up => to_client' = to_client
         /\ up => /\ Elems(to_client') = Elems(to_client) \cup {Message(answer, m.id, {})}
                  /\ FramesIn(to_client') = FramesIn(to_client)
                  /\ Apart(to_client) => Apart(to_client')
<1> DEFINE r == Message(answer, m.id, {})
<1>1. r \in ToClient /\ r.frames = {}
  BY DEF Message, ToClient, Messages
<1>2. to_client \in Seq(ToClient)
  BY TypeParts DEF MessengerType
<1>3. to_client' = IF up THEN Append(to_client, r) ELSE to_client
  BY DEF Answer
<1> HIDE DEF r
<1>4. /\ Append(to_client, r) \in Seq(ToClient)
      /\ Elems(Append(to_client, r)) = Elems(to_client) \cup {r}
      /\ FramesIn(Append(to_client, r)) = FramesIn(to_client) \cup r.frames
      /\ Apart(to_client) /\ r.frames \cap FramesIn(to_client) = {} => Apart(Append(to_client, r))
  <2>1. \A T : \A q \in Seq(Messages(T)), e \in Messages(T) :
          /\ Append(q, e) \in Seq(Messages(T))
          /\ Elems(Append(q, e)) = Elems(q) \cup {e}
          /\ FramesIn(Append(q, e)) = FramesIn(q) \cup e.frames
          /\ Apart(q) /\ e.frames \cap FramesIn(q) = {} => Apart(Append(q, e))
    BY AppendFacts
  <2> QED BY <1>1, <1>2, <2>1, Zenon DEF ToClient
<1> QED BY <1>1, <1>2, <1>3, <1>4 DEF r

LEMMA ReleaseFacts ==
  ASSUME TypeOK, NEW frames \in SUBSET Frames, Release(frames)
  PROVE  /\ frame' \in [Frames -> {None, "arrived", "pending", "released"}]
         /\ \A f \in Frames : frame'[f] =
              IF f \in frames /\ frame[f] \in {"arrived", "pending"} THEN "released" ELSE frame[f]
BY DEF Release, TypeOK

\* What the messages for the server may be.
LEMMA ServerMessages ==
  ASSUME TypeOK
  PROVE  /\ to_server # <<>> =>
              /\ Head(to_server) \in ToServer /\ Tail(to_server) \in Seq(ToServer)
              /\ Head(to_server).id \in Nat /\ Head(to_server).frames \in SUBSET Frames
         /\ requests # <<>> =>
              /\ Head(requests) \in ToStream /\ Tail(requests) \in Seq(ToStream)
              /\ Head(requests).id \in Nat /\ Head(requests).frames \in SUBSET Frames
<1>1. to_server \in Seq(ToServer) /\ requests \in Seq(ToStream)
  BY TypeParts DEF MessengerType, ServerType
<1>2. to_server # <<>> => Head(to_server) \in ToServer /\ Tail(to_server) \in Seq(ToServer)
  BY <1>1, TailFacts DEF ToServer
<1>3. requests # <<>> => Head(requests) \in ToStream /\ Tail(requests) \in Seq(ToStream)
  BY <1>1, TailFacts DEF ToStream
<1> QED BY <1>2, <1>3 DEF ToServer, ToStream, Messages

LEMMA ServerActionType ==
  ASSUME TypeOK, Acception \/ CloseAllStream \/ DoMessage \/ Arrive \/ PublishingFrame \/ Break
  PROVE  TypeOK'
<1> USE TypeParts, SameTypes
    DEF connection_vars, messenger_vars, app_vars, user_vars, sending_vars, memory_vars,
        server_vars, count_vars
<1>1. CASE Acception
  <2> DEFINE m == Head(to_server)
  <2>1. /\ m \in ToServer /\ Tail(to_server) \in Seq(ToServer)
        /\ m.id \in Nat /\ m.frames \in SUBSET Frames /\ to_server' = Tail(to_server)
    BY <1>1, ServerMessages DEF Acception
  <2>2. to_client' \in Seq(ToClient) /\ ServerType'
    <3> SUFFICES to_client' \in Seq(ToClient) /\ server' \in ServerStates
                 /\ requests' \in Seq(ToStream) /\ worker' \in {"run", "none", "barred"}
                 /\ frame' \in [Frames -> {None, "arrived", "pending", "released"}]
      BY <1>1 DEF Acception, ServerType
    <3> HIDE DEF m
    <3>1. CASE OpenStream(m)
      BY <2>1, <3>1, AnswerFacts DEF OpenStream, Answers, ServerType, ServerStates
    <3>2. CASE CloseStream(m)
      <4>1. PICK answer \in {"ok", "error"} :
              /\ IF answer = "ok" THEN server' = "none" /\ Release(Frames)
                 ELSE UNCHANGED <<server, frame>>
              /\ Answer(m, answer)
        BY <3>2 DEF CloseStream
      <4>2. to_client' \in Seq(ToClient)
        BY <2>1, <4>1, AnswerFacts
      <4>3. requests' \in {<<>>, requests} /\ worker' \in {"run", "none", "barred"}
        BY <3>2 DEF CloseStream, StartMonitoring, ServerType
      <4>4. <<>> \in Seq(ToStream)
        BY EmptyFacts DEF ToStream
      <4>5. frame' \in [Frames -> {None, "arrived", "pending", "released"}]
        BY <4>1, ReleaseFacts DEF ServerType
      <4> QED BY <4>1, <4>2, <4>3, <4>4, <4>5 DEF ServerType, ServerStates
    <3>3. CASE AcceptDisconnect(m)
      BY <2>1, <3>3, AnswerFacts DEF AcceptDisconnect, ServerType
    <3>4. CASE PushMessage(m)
      <4>1. m \in ToStream
        BY <2>1, <3>4 DEF PushMessage, ToServer, ToStream, Messages
      <4>2. Append(requests, m) \in Seq(ToStream)
        BY <4>1, AppendFacts DEF ServerType, ToStream
      <4>3. CASE server # "none"
        BY <3>4, <4>2, <4>3 DEF PushMessage, ServerType, MessengerType
      <4>4. CASE server = "none"
        BY <2>1, <3>4, <4>4, AnswerFacts DEF PushMessage, ServerType
      <4> QED BY <4>3, <4>4
    <3> QED BY <1>1, <3>1, <3>2, <3>3, <3>4 DEF Acception, m
  <2>3. MessengerType'
    BY <1>1, <2>1, <2>2 DEF Acception, MessengerType
  <2> QED BY <1>1, <2>2, <2>3 DEF Acception
<1>2. CASE CloseAllStream
  <2>1. requests' \in Seq(ToStream)
    BY <1>2, EmptyFacts DEF CloseAllStream, ToStream
  <2>2. frame' \in [Frames -> {None, "arrived", "pending", "released"}]
    BY <1>2, ReleaseFacts DEF CloseAllStream, ServerType
  <2>3. ServerType'
    BY <1>2, <2>1, <2>2 DEF CloseAllStream, ServerType, ServerStates
  <2> QED BY <1>2, <2>3 DEF CloseAllStream
<1>3. CASE DoMessage
  <2> DEFINE m == Head(requests)
  <2>1. /\ m \in ToStream /\ Tail(requests) \in Seq(ToStream)
        /\ m.id \in Nat /\ m.frames \in SUBSET Frames /\ requests' = Tail(requests)
    BY <1>3, ServerMessages DEF DoMessage
  <2>2. to_client' \in Seq(ToClient) /\ server' \in ServerStates
        /\ frame' \in [Frames -> {None, "arrived", "pending", "released"}]
    <3> HIDE DEF m
    <3>1. CASE StartStream(m)
      BY <2>1, <3>1, AnswerFacts DEF StartStream, Answers, ServerType, ServerStates
    <3>2. CASE StopStream(m)
      <4>1. PICK answer \in {"ok", "error"} :
              /\ IF answer = "ok"
                 THEN server' = "ready" /\ Release({f \in Frames : frame[f] = "arrived"})
                 ELSE UNCHANGED <<server, frame>>
              /\ Answer(m, answer)
        BY <3>2 DEF StopStream, Answers
      <4>2. to_client' \in Seq(ToClient)
        BY <2>1, <4>1, AnswerFacts
      <4>3. frame' \in [Frames -> {None, "arrived", "pending", "released"}]
        BY <4>1, ReleaseFacts DEF ServerType
      <4> QED BY <4>1, <4>2, <4>3 DEF ServerType, ServerStates
    <3>3. CASE ReleaseFrame(m)
      <4>1. {f \in m.frames : frame[f] = "pending"} \in SUBSET Frames
        BY <2>1
      <4>2. frame' \in [Frames -> {None, "arrived", "pending", "released"}]
        BY <3>3, <4>1, ReleaseFacts DEF ReleaseFrame
      <4>3. to_client' \in Seq(ToClient)
        BY <2>1, <3>3, AnswerFacts DEF ReleaseFrame, MessengerType
      <4> QED BY <3>3, <4>2, <4>3 DEF ReleaseFrame, ServerType
    <3> QED BY <1>3, <3>1, <3>2, <3>3 DEF DoMessage, m
  <2>3. MessengerType' /\ ServerType'
    BY <1>3, <2>1, <2>2 DEF DoMessage, MessengerType, ServerType
  <2> QED BY <1>3, <2>3 DEF DoMessage
<1>4. CASE Arrive
  <2>1. ServerType'
    BY <1>4 DEF Arrive, ServerType
  <2> QED BY <1>4, <2>1 DEF Arrive
<1>5. CASE PublishingFrame
  <2> DEFINE arrived == {f \in Frames : frame[f] = "arrived"}
             m == Message("SendFrame", 0, arrived)
  <2>1. m \in ToClient
    BY DEF Message, ToClient, Messages
  <2>2. Append(to_client, m) \in Seq(ToClient)
    BY <2>1, AppendFacts DEF MessengerType, ToClient
  <2>3. to_client' \in Seq(ToClient)
    BY <1>5, <2>2 DEF PublishingFrame, MessengerType
  <2>4. frame' \in [Frames -> {None, "arrived", "pending", "released"}]
    BY <1>5, ReleaseFacts DEF PublishingFrame, ServerType
  <2>5. MessengerType' /\ ServerType'
    BY <1>5, <2>3, <2>4 DEF PublishingFrame, MessengerType, ServerType
  <2> QED BY <1>5, <2>5 DEF PublishingFrame
<1>6. CASE Break
  <2>1. MessengerType'
    BY <1>6, EmptyFacts DEF Break, MessengerType, ToServer, ToClient
  <2>2. CountType'
    BY <1>6, RemotePortAssumption DEF Break, CountType
  <2> QED BY <1>6, <2>1, <2>2 DEF Break
<1> QED BY <1>1, <1>2, <1>3, <1>4, <1>5, <1>6

\* Every step keeps the types.
LEMMA TypeStep ==
  ASSUME TypeOK, user_pc = "idle" <=> user = 0, [Next]_vars
  PROVE  TypeOK'
<1>1. CASE UNCHANGED vars
  BY <1>1, TypeParts, SameTypes DEF vars
<1> QED BY <1>1, CallType, AppType, ClientType, ServerActionType DEF Next, Finished

---------------------------------------------------------------------------
(***************************************************************************)
(* The steps                                                               *)
(***************************************************************************)
\* No request and no reply wakes a thread.
LEMMA WokenPieces ==
  ASSUME TypeOK, NEW c \in Callers
  PROVE  /\ \A type, frames :
              SendRequest(c, type, frames) => \A d \in Callers : waiting'[d].woken => waiting[d].woken
         /\ \A reply : Reply(c, reply) => \A d \in Callers : waiting'[d].woken => waiting[d].woken
<1>1. /\ \A type, frames : SendRequest(c, type, frames) =>
           waiting' = [waiting EXCEPT ![c] = [NotWaiting EXCEPT !.id = request_id]]
      /\ \A reply : Reply(c, reply) => waiting' = [waiting EXCEPT ![c] = NotWaiting]
  BY DEF SendRequest, Reply
<1>2. waiting \in [Callers -> [id : Nat, reply : {None, "ok", "error"}, woken : BOOLEAN]]
  BY DEF TypeOK
<1>3. [NotWaiting EXCEPT !.id = request_id].woken = FALSE /\ NotWaiting.woken = FALSE
  BY DEF NotWaiting
<1> QED BY <1>1, <1>2, <1>3

\* A reply reaches the threads that wait for its id.
LEMMA DealReplyFacts ==
  ASSUME TypeOK, NEW m, DealReply(m), NEW d \in Callers
  PROVE  /\ waiting'[d].id = waiting[d].id /\ waiting'[d].woken = waiting[d].woken
         /\ waiting'[d].reply = IF waiting[d].id = m.id THEN m.type ELSE waiting[d].reply
<1>1. waiting'[d] = IF waiting[d].id = m.id THEN [waiting[d] EXCEPT !.reply = m.type] ELSE waiting[d]
  BY DEF DealReply
<1>2. waiting[d] \in [id : Nat, reply : {None, "ok", "error"}, woken : BOOLEAN]
  BY DEF TypeOK
<1> HIDE DEF Callers
<1>3. CASE waiting[d].id = m.id
  <2>1. waiting'[d] = [waiting[d] EXCEPT !.reply = m.type]
    BY <1>1, <1>3
  <2> QED BY <1>2, <1>3, <2>1
<1>4. CASE waiting[d].id # m.id
  BY <1>1, <1>4
<1> QED BY <1>3, <1>4

\* Woken is kept.
LEMMA WokenStep ==
  ASSUME TypeOK, Woken, Connection, [Next]_vars
  PROVE  Woken'
<1> USE WokenPieces
    DEF Woken, Callers, connection_vars, messenger_vars, app_vars, user_vars, sending_vars,
        memory_vars, server_vars, count_vars
<1>1. CASE CallOpen
  <2>1. \A d \in Callers : waiting'[d].woken => waiting[d].woken
    <3>1. waiting' = [waiting EXCEPT !["app"] = [NotWaiting EXCEPT !.id = request_id]]
      BY <1>1 DEF CallOpen
    <3>2. waiting \in [Callers -> [id : Nat, reply : {None, "ok", "error"}, woken : BOOLEAN]]
      BY DEF TypeOK
    <3>3. [NotWaiting EXCEPT !.id = request_id].woken = FALSE
      BY DEF NotWaiting
    <3> QED BY <3>1, <3>2, <3>3
  <2>2. recv = "none"
    BY <1>1 DEF CallOpen, Call, Connection
  <2> QED BY <2>1, <2>2
<1>2. CASE CallStop
  BY <1>2 DEF CallStop, SendRequest, SendFails
<1>3. ASSUME NEW reply \in Replies, OpenReply(reply) PROVE Woken'
  BY <1>3 DEF OpenReply, Reply
<1>4. ASSUME NEW reply \in Replies, StartReply(reply) PROVE Woken'
  BY <1>4 DEF StartReply, Reply
<1>5. ASSUME NEW reply \in Replies, StopReply(reply) PROVE Woken'
  BY <1>5 DEF StopReply, Reply
<1>6. ASSUME NEW reply \in Replies, CloseReply(reply) PROVE Woken'
  BY <1>6 DEF CloseReply, Reply
<1>7. CASE StartLock
  BY <1>7 DEF StartLock, SendRequest, SendFails
<1>8. CASE CloseRequest
  BY <1>8 DEF CloseRequest, SendRequest, SendFails
<1>9. CASE JoinRecv
  BY <1>9 DEF JoinRecv, NotWaiting
<1>10. CASE UserReleaseFrame
  BY <1>10 DEF UserReleaseFrame, SendRequest, RemoveFrame
<1>11. ASSUME NEW reply \in Replies, UserReply(reply) PROVE Woken'
  BY <1>11 DEF UserReply, Reply
<1>12. CASE ReleaseDropped
  BY <1>12 DEF ReleaseDropped, SendRequest, RemoveFrame
<1>13. ASSUME NEW reply \in Replies, MonitorReply(reply) PROVE Woken'
  BY <1>13 DEF MonitorReply, Reply
<1>14. CASE Recv
  <2>1. \A d \in Callers : waiting'[d].woken => waiting[d].woken
    <3> DEFINE m == Head(to_client)
    <3>1. DealReply(m) \/ UNCHANGED waiting
      BY <1>14 DEF Recv, DealDisconnected, DealFrames
    <3> HIDE DEF m
    <3> QED BY <3>1, DealReplyFacts
  <2> QED BY <1>14, <2>1 DEF Recv
<1>15. CASE RecvEnd
  BY <1>15 DEF RecvEnd
<1>16. CASE CallStart \/ CallClose \/ StopPortSendings \/ Disconnect \/
           (\E f \in Frames : UserRelease(f)) \/ MonitorMessages \/ AddFrames \/ SendFrames \/
           FramesDone \/ Acception \/ CloseAllStream \/ DoMessage \/ Arrive \/ PublishingFrame \/
           Break \/ UNCHANGED vars
  BY <1>16
     DEF CallStart, Call, CallClose, Call, StopPortSendings, Disconnect, UserRelease,
         MonitorMessages, AddFrames, SendFrames, FramesDone, Acception, OpenStream, CloseStream,
         AcceptDisconnect, PushMessage, Answer, Release, CloseAllStream, Release, DoMessage,
         StartStream, StopStream, ReleaseFrame, Answer, Release, Arrive, PublishingFrame, Answer,
         Release, Break, vars
<1> QED BY <1>1, <1>2, <1>3, <1>4, <1>5, <1>6, <1>7, <1>8, <1>9, <1>10, <1>11, <1>12, <1>13, <1>14,
           <1>15, <1>16
         DEF Next, AppStep, UserStep, MonitorStep, RecvStep, Finished

\* Connection is kept.
LEMMA ConnectionStep ==
  ASSUME TypeOK, Connection, Places, [Next]_vars
  PROVE  Connection'
<1> USE DEF Connection, connection_vars, messenger_vars, app_vars, user_vars, sending_vars,
        memory_vars, server_vars, count_vars
<1>1. CASE CallOpen
  BY <1>1 DEF CallOpen, Call
<1>2. CASE CallStart
  BY <1>2 DEF CallStart, Call
<1>3. CASE CallStop
  BY <1>3 DEF CallStop, Call, StopFailed, StopSucceeds, StopFrames, SendRequest, SendFails
<1>4. CASE CallClose
  BY <1>4 DEF CallClose, Call
<1>5. ASSUME NEW reply \in Replies, OpenReply(reply) PROVE Connection'
  BY <1>5 DEF OpenReply, Reply, Places
<1>6. ASSUME NEW reply \in Replies, StartReply(reply) PROVE Connection'
  BY <1>6 DEF StartReply, Reply, StopFrames, Places
<1>7. ASSUME NEW reply \in Replies, StopReply(reply) PROVE Connection'
  BY <1>7 DEF StopReply, Reply, StopFailed, StopSucceeds, StopFrames, Places
<1>8. ASSUME NEW reply \in Replies, CloseReply(reply) PROVE Connection'
  BY <1>8 DEF CloseReply, Reply, Places
<1>9. CASE StartLock
  BY <1>9 DEF StartLock, SendRequest, SendFails, Places
<1>10. CASE StopPortSendings
  BY <1>10 DEF StopPortSendings
<1>11. CASE CloseRequest
  BY <1>11 DEF CloseRequest, SendRequest, SendFails, Places
<1>12. CASE Disconnect
  BY <1>12 DEF Disconnect
<1>13. CASE JoinRecv
  BY <1>13 DEF JoinRecv
<1>14. CASE UserReleaseFrame
  BY <1>14 DEF UserReleaseFrame, SendRequest, RemoveFrame
<1>15. ASSUME NEW reply \in Replies, UserReply(reply) PROVE Connection'
  BY <1>15 DEF UserReply, Reply
<1>16. CASE ReleaseDropped
  BY <1>16 DEF ReleaseDropped, SendRequest, RemoveFrame
<1>17. ASSUME NEW reply \in Replies, MonitorReply(reply) PROVE Connection'
  BY <1>17 DEF MonitorReply, Reply
<1>18. CASE FramesDone
  BY <1>18 DEF FramesDone
<1>19. CASE Recv
  BY <1>19 DEF Recv, DealReply, DealDisconnected, DealFrames
<1>20. CASE RecvEnd
  BY <1>20 DEF RecvEnd
<1>21. CASE Acception
  BY <1>21 DEF Acception, OpenStream, CloseStream, AcceptDisconnect, PushMessage, Answer, Release
<1>22. CASE CloseAllStream
  BY <1>22 DEF CloseAllStream, Release
<1>23. CASE DoMessage
  BY <1>23 DEF DoMessage, StartStream, StopStream, ReleaseFrame, Answer, Release
<1>24. CASE PublishingFrame
  BY <1>24 DEF PublishingFrame, Answer, Release
<1>25. CASE Break
  BY <1>25 DEF Break
<1>26. CASE (\E f \in Frames : UserRelease(f)) \/ MonitorMessages \/ AddFrames \/ SendFrames \/
           Arrive \/ UNCHANGED vars
  BY <1>26 DEF UserRelease, MonitorMessages, AddFrames, SendFrames, Arrive, vars
<1> QED BY <1>1, <1>2, <1>3, <1>4, <1>5, <1>6, <1>7, <1>8, <1>9, <1>10, <1>11, <1>12, <1>13, <1>14,
           <1>15, <1>16, <1>17, <1>18, <1>19, <1>20, <1>21, <1>22, <1>23, <1>24, <1>25, <1>26
         DEF Next, AppStep, UserStep, MonitorStep, RecvStep, Finished

\* Places is kept.
LEMMA PlacesStep ==
  ASSUME TypeOK, Places, Connection, [Next]_vars
  PROVE  Places'
<1> USE DEF Places, None, connection_vars, messenger_vars, app_vars, user_vars, sending_vars,
        memory_vars, server_vars, count_vars
<1>1. CASE CallOpen
  BY <1>1 DEF CallOpen, Call
<1>2. CASE CallStart
  BY <1>2 DEF CallStart, Call
<1>3. CASE CallStop
  BY <1>3 DEF CallStop, Call, StopFailed, StopSucceeds, StopFrames, SendRequest, SendFails
<1>4. CASE CallClose
  BY <1>4 DEF CallClose, Call
<1>5. ASSUME NEW reply \in Replies, OpenReply(reply) PROVE Places'
  BY <1>5 DEF OpenReply, Reply
<1>6. ASSUME NEW reply \in Replies, StartReply(reply) PROVE Places'
  BY <1>6 DEF StartReply, Reply, StopFrames
<1>7. ASSUME NEW reply \in Replies, StopReply(reply) PROVE Places'
  BY <1>7 DEF StopReply, Reply, StopFailed, StopSucceeds, StopFrames
<1>8. ASSUME NEW reply \in Replies, CloseReply(reply) PROVE Places'
  BY <1>8 DEF CloseReply, Reply
<1>9. CASE StartLock
  BY <1>9 DEF StartLock, SendRequest, SendFails
<1>10. CASE StopPortSendings
  BY <1>10 DEF StopPortSendings
<1>11. CASE CloseRequest
  BY <1>11 DEF CloseRequest, SendRequest, SendFails
<1>12. CASE Disconnect
  BY <1>12 DEF Disconnect
<1>13. CASE JoinRecv
  BY <1>13 DEF JoinRecv
<1>14. ASSUME NEW f \in Frames, UserRelease(f) PROVE Places'
  BY <1>14 DEF UserRelease
<1>15. CASE UserReleaseFrame
  BY <1>15 DEF UserReleaseFrame, SendRequest, RemoveFrame
<1>16. ASSUME NEW reply \in Replies, UserReply(reply) PROVE Places'
  BY <1>16 DEF UserReply, Reply
<1>17. CASE MonitorMessages
  BY <1>17 DEF MonitorMessages
<1>18. CASE AddFrames
  BY <1>18 DEF AddFrames
<1>19. CASE SendFrames
  BY <1>19 DEF SendFrames
<1>20. CASE ReleaseDropped
  BY <1>20 DEF ReleaseDropped, SendRequest, RemoveFrame
<1>21. ASSUME NEW reply \in Replies, MonitorReply(reply) PROVE Places'
  BY <1>21 DEF MonitorReply, Reply
<1>22. CASE FramesDone
  BY <1>22 DEF FramesDone
<1>23. CASE Recv
  BY <1>23 DEF Recv, DealReply, DealDisconnected, DealFrames
<1>24. CASE RecvEnd \/ Acception \/ CloseAllStream \/ DoMessage \/ Arrive \/ PublishingFrame \/
           Break \/ UNCHANGED vars
  BY <1>24
     DEF RecvEnd, Acception, OpenStream, CloseStream, AcceptDisconnect, PushMessage, Answer,
         Release, CloseAllStream, Release, DoMessage, StartStream, StopStream, ReleaseFrame,
         Answer, Release, Arrive, PublishingFrame, Answer, Release, Break, vars
<1> QED BY <1>1, <1>2, <1>3, <1>4, <1>5, <1>6, <1>7, <1>8, <1>9, <1>10, <1>11, <1>12, <1>13, <1>14,
           <1>15, <1>16, <1>17, <1>18, <1>19, <1>20, <1>21, <1>22, <1>23, <1>24
         DEF Next, AppStep, UserStep, MonitorStep, RecvStep, Finished

\* Hands is kept.
LEMMA HandsStep ==
  ASSUME TypeOK, Hands, Places, [Next]_vars
  PROVE  Hands'
<1> USE DEF Hands, None, connection_vars, messenger_vars, app_vars, user_vars, sending_vars,
        memory_vars, server_vars, count_vars
<1>1. ASSUME NEW reply \in Replies, OpenReply(reply) PROVE Hands'
  BY <1>1 DEF OpenReply, Reply, Places
<1>2. CASE CloseRequest
  BY <1>2 DEF CloseRequest, SendRequest, SendFails
<1>3. ASSUME NEW f \in Frames, UserRelease(f) PROVE Hands'
  BY <1>3, RemotePortAssumption DEF UserRelease, Frames
<1>4. CASE UserReleaseFrame
  BY <1>4 DEF UserReleaseFrame, SendRequest, RemoveFrame
<1>5. ASSUME NEW reply \in Replies, UserReply(reply) PROVE Hands'
  BY <1>5 DEF UserReply, Reply
<1>6. CASE MonitorMessages
  BY <1>6 DEF MonitorMessages
<1>7. CASE AddFrames
  BY <1>7 DEF AddFrames
<1>8. CASE SendFrames
  BY <1>8 DEF SendFrames
<1>9. CASE ReleaseDropped
  BY <1>9 DEF ReleaseDropped, SendRequest, RemoveFrame
<1>10. ASSUME NEW reply \in Replies, MonitorReply(reply) PROVE Hands'
  BY <1>10 DEF MonitorReply, Reply
<1>11. CASE FramesDone
  BY <1>11 DEF FramesDone
<1>12. CASE CallOpen \/ CallStart \/ CallStop \/ CallClose \/
           (\E reply \in Replies : StartReply(reply)) \/ (\E reply \in Replies : StopReply(reply))
           \/ (\E reply \in Replies : CloseReply(reply)) \/ StartLock \/ StopPortSendings \/
           Disconnect \/ JoinRecv \/ Recv \/ RecvEnd \/ Acception \/ CloseAllStream \/ DoMessage \/
           Arrive \/ PublishingFrame \/ Break \/ UNCHANGED vars
  BY <1>12
     DEF CallOpen, Call, CallStart, Call, CallStop, Call, StopFailed, StopSucceeds, StopFrames,
         SendRequest, SendFails, CallClose, Call, StartReply, Reply, StopFrames, StopReply, Reply,
         StopFailed, StopSucceeds, StopFrames, CloseReply, Reply, StartLock, SendRequest,
         SendFails, StopPortSendings, Disconnect, JoinRecv, Recv, DealReply, DealDisconnected,
         DealFrames, RecvEnd, Acception, OpenStream, CloseStream, AcceptDisconnect, PushMessage,
         Answer, Release, CloseAllStream, Release, DoMessage, StartStream, StopStream,
         ReleaseFrame, Answer, Release, Arrive, PublishingFrame, Answer, Release, Break, vars
<1> QED BY <1>1, <1>2, <1>3, <1>4, <1>5, <1>6, <1>7, <1>8, <1>9, <1>10, <1>11, <1>12
         DEF Next, AppStep, UserStep, MonitorStep, RecvStep, Finished

\* Memory is kept.
LEMMA MemoryStep ==
  ASSUME TypeOK, Memory, Places, Hands, FramesApart, Connection, [Next]_vars
  PROVE  Memory'
<1> USE DEF Memory, MappedWhileHeld, Added, None, connection_vars, messenger_vars, app_vars,
        user_vars, sending_vars, memory_vars, server_vars, count_vars
<1>t. 0 \notin Frames /\ fm_frames \subseteq Frames /\ fm \in {None, "running", "stopped"}
  BY RemotePortAssumption DEF TypeOK, Frames
<1>1. CASE CallOpen
  BY <1>1 DEF CallOpen, Call, Places
<1>2. CASE CallStart
  BY <1>2 DEF CallStart, Call, Places
<1>3. CASE CallStop
  BY <1>3
     DEF CallStop, Call, StopFailed, StopSucceeds, StopFrames, SendRequest, SendFails, CloseEntry,
         Places
<1>4. ASSUME NEW reply \in Replies, OpenReply(reply) PROVE Memory'
  BY <1>4 DEF OpenReply, Reply, Places
<1>5. ASSUME NEW reply \in Replies, StartReply(reply) PROVE Memory'
  BY <1>5 DEF StartReply, Reply, StopFrames, CloseEntry, Places
<1>6. ASSUME NEW reply \in Replies, StopReply(reply) PROVE Memory'
  BY <1>6 DEF StopReply, Reply, StopFailed, StopSucceeds, StopFrames, CloseEntry, Places
<1>7. ASSUME NEW reply \in Replies, CloseReply(reply) PROVE Memory'
  BY <1>7 DEF CloseReply, Reply, Places
<1>8. CASE StartLock
  BY <1>8 DEF StartLock, SendRequest, SendFails, Places
<1>9. CASE CloseRequest
  BY <1>9 DEF CloseRequest, SendRequest, SendFails, Places
<1>10. CASE JoinRecv
  BY <1>10, <1>t DEF JoinRecv, Places, Hands
<1>11. ASSUME NEW f \in Frames, UserRelease(f) PROVE Memory'
  BY <1>11, <1>t DEF UserRelease, Places, Hands
<1>12. CASE UserReleaseFrame
  BY <1>12, <1>t
     DEF UserReleaseFrame, SendRequest, RemoveFrame, CloseEntry, Places, Hands, FramesApart, Taken
<1>13. ASSUME NEW reply \in Replies, UserReply(reply) PROVE Memory'
  BY <1>13, <1>t DEF UserReply, Reply, Places, Hands
<1>14. CASE MonitorMessages
  BY <1>14 DEF MonitorMessages, Places, Hands
<1>15. CASE AddFrames
  BY <1>15 DEF AddFrames, Places, Hands, FramesApart, Taken
<1>16. CASE SendFrames
  BY <1>16 DEF SendFrames, Places, Hands
<1>17. CASE ReleaseDropped
  BY <1>17
     DEF ReleaseDropped, SendRequest, RemoveFrame, CloseEntry, Places, Hands, FramesApart, Taken
<1>18. ASSUME NEW reply \in Replies, MonitorReply(reply) PROVE Memory'
  BY <1>18 DEF MonitorReply, Reply, Places, Hands
<1>19. CASE FramesDone
  BY <1>19 DEF FramesDone, Places, Hands
<1>20. CASE CallClose \/ StopPortSendings \/ Disconnect \/ Recv \/ RecvEnd \/ Acception \/
           CloseAllStream \/ DoMessage \/ Arrive \/ PublishingFrame \/ Break \/ UNCHANGED vars
  BY <1>20
     DEF CallClose, Call, StopPortSendings, Disconnect, Recv, DealReply, DealDisconnected,
         DealFrames, RecvEnd, Acception, OpenStream, CloseStream, AcceptDisconnect, PushMessage,
         Answer, Release, CloseAllStream, Release, DoMessage, StartStream, StopStream,
         ReleaseFrame, Answer, Release, Arrive, PublishingFrame, Answer, Release, Break, vars
<1> QED BY <1>1, <1>2, <1>3, <1>4, <1>5, <1>6, <1>7, <1>8, <1>9, <1>10, <1>11, <1>12, <1>13, <1>14,
           <1>15, <1>16, <1>17, <1>18, <1>19, <1>20
         DEF Next, AppStep, UserStep, MonitorStep, RecvStep, Finished


\* A message handled by the server puts no frame under way and can only release.
LEMMA ServerFacts ==
  ASSUME TypeOK, Acception \/ DoMessage \/ CloseAllStream
  PROVE  /\ FramesIn(to_client') = FramesIn(to_client)
         /\ Apart(to_client) => Apart(to_client')
         /\ \A f \in Frames : frame'[f] # frame[f] =>
              frame[f] \in {"arrived", "pending"} /\ frame'[f] = "released"
<1>1. CASE Acception
  <2> DEFINE m == Head(to_server)
  <2>1. m.id \in Nat
    BY <1>1, ServerMessages DEF Acception
  <2>2. OpenStream(m) \/ CloseStream(m) \/ AcceptDisconnect(m) \/ PushMessage(m)
    BY <1>1 DEF Acception
  <2> HIDE DEF m
  <2>3. UNCHANGED frame \/ Release(Frames)
    BY <2>2 DEF OpenStream, CloseStream, AcceptDisconnect, PushMessage
  <2>4. UNCHANGED to_client \/ \E answer \in {"ok", "error", "disconnected"} : Answer(m, answer)
    BY <2>2 DEF OpenStream, CloseStream, AcceptDisconnect, PushMessage, Answers
  <2> QED BY <2>1, <2>3, <2>4, AnswerFacts, ReleaseFacts
<1>2. CASE DoMessage
  <2> DEFINE m == Head(requests)
  <2>1. m.id \in Nat
    BY <1>2, ServerMessages DEF DoMessage
  <2>2. StartStream(m) \/ StopStream(m) \/ ReleaseFrame(m)
    BY <1>2 DEF DoMessage
  <2> HIDE DEF m
  <2>3. UNCHANGED frame \/ \E frames \in SUBSET Frames : Release(frames)
    <3>1. {f \in Frames : frame[f] = "arrived"} \in SUBSET Frames
      OBVIOUS
    <3>2. m.frames \in SUBSET Frames
      BY <1>2, ServerMessages DEF DoMessage, m
    <3>3. {f \in m.frames : frame[f] = "pending"} \in SUBSET Frames
      BY <3>2
    <3> QED BY <2>2, <3>1, <3>3 DEF StartStream, StopStream, ReleaseFrame
  <2>4. UNCHANGED to_client \/ \E answer \in {"ok", "error", "disconnected"} : Answer(m, answer)
    BY <2>2 DEF StartStream, StopStream, ReleaseFrame, Answers
  <2> QED BY <2>1, <2>3, <2>4, AnswerFacts, ReleaseFacts
<1>3. CASE CloseAllStream
  <2>1. UNCHANGED to_client /\ (UNCHANGED frame \/ Release(Frames))
    BY <1>3 DEF CloseAllStream, connection_vars
  <2> QED BY <2>1, ReleaseFacts
<1> QED BY <1>1, <1>2, <1>3

\* Messages of a type have frames of the stream.
LEMMA QueueType ==
  ASSUME NEW T, NEW q \in Seq(Messages(T))
  PROVE  Elems(q) \subseteq Messages(T) /\ FramesIn(q) \subseteq Frames
<1>1. \A i \in 1 .. Len(q) : q[i] \in Messages(T)
  OBVIOUS
<1>2. \A i \in 1 .. Len(q) : q[i].frames \subseteq Frames
  BY <1>1 DEF Messages
<1> QED BY <1>1, <1>2 DEF Elems, FramesIn

\* The head of the messages of the port sendings and of those for the client.
LEMMA ClientMessages ==
  ASSUME TypeOK
  PROVE  /\ messages # <<>> =>
              /\ Head(messages).frames \subseteq Frames
              /\ FramesIn(messages) = Head(messages).frames \cup FramesIn(Tail(messages))
              /\ Apart(messages) => /\ Apart(Tail(messages))
                                    /\ Head(messages).frames \cap FramesIn(Tail(messages)) = {}
         /\ to_client # <<>> =>
              /\ Head(to_client) \in ToClient
              /\ Elems(to_client) = {Head(to_client)} \cup Elems(Tail(to_client))
              /\ FramesIn(to_client) = Head(to_client).frames \cup FramesIn(Tail(to_client))
              /\ Apart(to_client) => /\ Apart(Tail(to_client))
                                     /\ Head(to_client).frames \cap FramesIn(Tail(to_client)) = {}
         /\ FramesIn(messages) \subseteq Frames /\ FramesIn(to_client) \subseteq Frames
<1>1. messages \in Seq(Messages({"SendFrame"})) /\ to_client \in Seq(ToClient)
  BY TypeParts DEF SendingType, MessengerType
<1>2. messages # <<>> => Head(messages) \in Messages({"SendFrame"})
  BY <1>1, TailFacts
<1>3. FramesIn(messages) \subseteq Frames /\ FramesIn(to_client) \subseteq Frames
  BY <1>1, QueueType DEF ToClient
<1>4. messages # <<>> => Head(messages).frames \subseteq Frames
  BY <1>2 DEF Messages
<1>5. messages # <<>> =>
        /\ FramesIn(messages) = Head(messages).frames \cup FramesIn(Tail(messages))
        /\ Apart(messages) => /\ Apart(Tail(messages))
                              /\ Head(messages).frames \cap FramesIn(Tail(messages)) = {}
  BY <1>1, TailFacts
<1>6. to_client # <<>> =>
        /\ Head(to_client) \in ToClient
        /\ Elems(to_client) = {Head(to_client)} \cup Elems(Tail(to_client))
        /\ FramesIn(to_client) = Head(to_client).frames \cup FramesIn(Tail(to_client))
        /\ Apart(to_client) => /\ Apart(Tail(to_client))
                               /\ Head(to_client).frames \cap FramesIn(Tail(to_client)) = {}
  BY <1>1, TailFacts DEF ToClient
<1> QED BY <1>3, <1>4, <1>5, <1>6

\* FramesApart is kept.
LEMMA FramesApartStep ==
  ASSUME TypeOK, FramesApart, Hands, Connection, [Next]_vars
  PROVE  FramesApart'
<1> USE DEF FramesApart, Sent, Taken, connection_vars, messenger_vars, app_vars, user_vars,
        sending_vars, memory_vars, server_vars, count_vars
<1>0. 0 \notin Frames
  BY RemotePortAssumption DEF Frames
<1>t. Sent \cup Taken \cup message \subseteq Frames /\ DOMAIN frame = Frames
      /\ 0 \notin Frames /\ held \subseteq Frames
  BY <1>0, ClientMessages DEF TypeOK
<1>1. ASSUME NEW f \in Frames, UserRelease(f) PROVE FramesApart'
  BY <1>1 DEF UserRelease
<1>2. CASE UserReleaseFrame
  BY <1>2, <1>t DEF UserReleaseFrame, SendRequest
<1>3. ASSUME NEW reply \in Replies, UserReply(reply) PROVE FramesApart'
  BY <1>3, <1>t DEF UserReply, Reply
<1>4. CASE MonitorMessages
  BY <1>4, ClientMessages, EmptyFacts DEF MonitorMessages
<1>5. CASE SendFrames
  <2>1. PICK dropped \in SUBSET batch :
          held' = held \cup (batch \ dropped) /\ batch' = dropped
    BY <1>5 DEF SendFrames
  <2>2. UNCHANGED <<to_client, messages, user, message, frame>>
    BY <1>5 DEF SendFrames
  <2>3. batch \subseteq message /\ 0 \notin message
    BY <1>t DEF Hands
  <2>4. user \notin batch
    BY <1>t, <2>3
  <2> QED BY <2>1, <2>2, <2>3, <2>4
<1>6. CASE ReleaseDropped
  BY <1>6 DEF ReleaseDropped, SendRequest
<1>7. CASE FramesDone
  BY <1>7 DEF FramesDone, Hands
<1>8. CASE Recv
  <2> DEFINE m == Head(to_client)
  <2>1. /\ m \in ToClient /\ FramesIn(to_client) = m.frames \cup FramesIn(to_client')
        /\ Apart(to_client') /\ m.frames \cap FramesIn(to_client') = {}
    BY <1>8, ClientMessages DEF Recv
  <2>2. UNCHANGED <<held, user, message, batch, frame>>
    BY <1>8 DEF Recv
  <2>3. CASE UNCHANGED messages
    BY <2>1, <2>2, <2>3
  <2>4. CASE ~UNCHANGED messages
    <3>1. messages' = Append(messages, m) /\ m.type = "SendFrame"
      BY <1>8, <2>4 DEF Recv, DealReply, DealDisconnected, DealFrames
    <3> HIDE DEF m
    <3>2. m \in Messages({"SendFrame"}) /\ messages \in Seq(Messages({"SendFrame"}))
      BY <2>1, <3>1, TypeParts DEF ToClient, Messages, SendingType
    <3>3. m.frames \cap FramesIn(messages) = {}
      BY <2>1
    <3>4. FramesIn(messages') = FramesIn(messages) \cup m.frames /\ Apart(messages')
      BY <3>1, <3>2, <3>3, AppendFacts
    <3> QED BY <2>1, <2>2, <3>4
  <2> QED BY <2>3, <2>4
<1>9. CASE RecvEnd
  BY <1>9, EmptyFacts DEF RecvEnd
<1>10. CASE Acception
  BY <1>10, ServerFacts, <1>t DEF Acception
<1>11. CASE CloseAllStream
  BY <1>11, ServerFacts, <1>t DEF CloseAllStream
<1>12. CASE DoMessage
  BY <1>12, ServerFacts, <1>t DEF DoMessage
<1>13. CASE Arrive
  <2>1. UNCHANGED <<to_client, messages, held, user, message, batch>>
    BY <1>13 DEF Arrive
  <2>2. \A f \in Frames : frame[f] # None => frame'[f] = frame[f]
    BY <1>13, <1>t DEF Arrive
  <2> QED BY <1>t, <2>1, <2>2 DEF None
<1>14. CASE PublishingFrame
  <2> DEFINE arrived == {f \in Frames : frame[f] = "arrived"}
             m == Message("SendFrame", 0, arrived)
  <2>1. UNCHANGED <<messages, held, user, message, batch>>
    BY <1>14 DEF PublishingFrame
  <2>2. CASE up
    <3>1. m \in ToClient /\ m.frames = arrived /\ to_client \in Seq(ToClient)
      BY TypeParts DEF Message, ToClient, Messages, MessengerType
    <3>2. to_client' = Append(to_client, m)
          /\ frame' = [f \in Frames |-> IF f \in arrived THEN "pending" ELSE frame[f]]
      BY <1>14, <2>2 DEF PublishingFrame
    <3>3. arrived \cap (Sent \cup Taken \cup message) = {}
      OBVIOUS
    <3> HIDE DEF m, arrived
    <3>4. FramesIn(to_client') = FramesIn(to_client) \cup arrived /\ Apart(to_client')
      BY <3>1, <3>2, <3>3, AppendFacts DEF ToClient
    <3>5. \A f \in Frames : f \in arrived => frame'[f] = "pending"
      BY <3>2
    <3>6. \A f \in Frames : frame'[f] \in {"pending", frame[f]}
      BY <3>2
    <3>7. arrived \subseteq Frames
      BY DEF arrived
    <3> QED BY <2>1, <3>3, <3>4, <3>5, <3>6, <3>7, <1>t
  <2>3. CASE ~up
    <3>1. UNCHANGED to_client /\ Release(arrived)
      BY <1>14, <2>3 DEF PublishingFrame
    <3> QED BY <2>1, <3>1, <1>t, ReleaseFacts
  <2> QED BY <2>2, <2>3
<1>15. CASE Break
  BY <1>15, EmptyFacts DEF Break
<1>16. CASE CallOpen \/ CallStart \/ CallStop \/ CallClose \/
           (\E reply \in Replies : OpenReply(reply)) \/ (\E reply \in Replies : StartReply(reply))
           \/ (\E reply \in Replies : StopReply(reply)) \/
           (\E reply \in Replies : CloseReply(reply)) \/ StartLock \/ StopPortSendings \/
           CloseRequest \/ Disconnect \/ JoinRecv \/ AddFrames \/
           (\E reply \in Replies : MonitorReply(reply)) \/ UNCHANGED vars
  BY <1>16
     DEF CallOpen, CallStart, CallStop, SendRequest, SendFails, CallClose, OpenReply, Reply,
         StartReply, Reply, StopReply, Reply, CloseReply, Reply, StartLock, SendRequest,
         SendFails, StopPortSendings, CloseRequest, SendRequest, SendFails, Disconnect, JoinRecv,
         AddFrames, MonitorReply, Reply, vars
<1> QED BY <1>1, <1>2, <1>3, <1>4, <1>5, <1>6, <1>7, <1>8, <1>9, <1>10, <1>11, <1>12, <1>13, <1>14,
           <1>15, <1>16
         DEF Next, AppStep, UserStep, MonitorStep, RecvStep, Finished


\* An answer leaves for a client that is still there.
Answered(id, answer) ==
  IF up THEN Elems(to_client') = Elems(to_client) \cup {Message(answer, id, {})}
        ELSE UNCHANGED to_client

\* What the receiving thread of the server does with a message.
LEMMA AcceptionFacts ==
  ASSUME TypeOK, Connection, Acception
  PROVE  \E m \in ToServer :
           /\ up
           /\ Elems(to_server) = {m} \cup Elems(to_server')
           /\ FramesIn(to_server) = m.frames \cup FramesIn(to_server')
           /\ OneControl(to_server) =>
                /\ OneControl(to_server')
                /\ m.type \in Control => \A e \in Elems(to_server') : e.type \notin Control
           /\ \/ /\ m.type = "Open" /\ UNCHANGED <<requests, frame>>
                 /\ \E answer \in {"ok", "error"} :
                      /\ server' = IF answer = "ok" THEN "ready" ELSE server
                      /\ Answered(m.id, answer)
              \/ /\ m.type = "Close" /\ requests' \in {<<>>, requests}
                 /\ \E answer \in {"ok", "error"} :
                      /\ IF answer = "ok" THEN server' = "none" /\ Release(Frames)
                         ELSE UNCHANGED <<server, frame>>
                      /\ Answered(m.id, answer)
              \/ /\ m.type = "Disconnect" /\ UNCHANGED <<server, requests, frame>>
                 /\ Answered(m.id, "disconnected")
              \/ /\ m.type \in {"Start", "Stop", "ReleaseFrame", "SendFrame"}
                 /\ server = "none" /\ UNCHANGED <<server, requests, frame>>
                 /\ Answered(m.id, "error")
              \/ /\ m.type \in {"Start", "Stop", "ReleaseFrame", "SendFrame"}
                 /\ server # "none" /\ worker = "barred"
                 /\ UNCHANGED <<server, requests, frame, to_client>>
              \/ /\ m.type \in {"Start", "Stop", "ReleaseFrame", "SendFrame"}
                 /\ server # "none" /\ UNCHANGED <<server, frame, to_client>>
                 /\ Elems(requests') = Elems(requests) \cup {m}
                 /\ FramesIn(requests') = FramesIn(requests) \cup m.frames
                 /\ OneControl(requests)
                        /\ (m.type \notin Control \/ \A e \in Elems(requests) : e.type \notin Control)
                      => OneControl(requests')
<1> DEFINE m == Head(to_server)
<1>1. /\ m \in ToServer /\ m.id \in Nat /\ to_server # <<>> /\ to_server' = Tail(to_server)
      /\ to_server \in Seq(ToServer) /\ requests \in Seq(ToStream)
  BY ServerMessages, TypeParts DEF Acception, MessengerType, ServerType
<1>2. up /\ UNCHANGED up
  BY <1>1 DEF Acception, Connection
<1>3. /\ Elems(to_server) = {m} \cup Elems(to_server')
      /\ FramesIn(to_server) = m.frames \cup FramesIn(to_server')
      /\ OneControl(to_server) =>
           /\ OneControl(to_server')
           /\ m.type \in Control => \A e \in Elems(to_server') : e.type \notin Control
  BY <1>1, TailFacts DEF ToServer
<1>4. OpenStream(m) \/ CloseStream(m) \/ AcceptDisconnect(m) \/ PushMessage(m)
  BY DEF Acception
<1> HIDE DEF m
<1>5. \A answer \in {"ok", "error", "disconnected"} : Answer(m, answer) => Answered(m.id, answer)
  BY <1>1, <1>2, AnswerFacts DEF Answered
<1> USE <1>1
<1> WITNESS m \in ToServer
<1>6. CASE OpenStream(m)
  BY <1>2, <1>3, <1>5, <1>6 DEF OpenStream, Answers
<1>7. CASE CloseStream(m)
  <2>1. requests' \in {<<>>, requests}
    BY <1>7 DEF CloseStream, StartMonitoring
  <2>2. PICK answer \in {"ok", "error"} :
          /\ IF answer = "ok" THEN server' = "none" /\ Release(Frames) ELSE UNCHANGED <<server, frame>>
          /\ Answer(m, answer)
    BY <1>7 DEF CloseStream
  <2> QED BY <1>2, <1>3, <1>5, <1>7, <2>1, <2>2 DEF CloseStream
<1>8. CASE AcceptDisconnect(m)
  BY <1>2, <1>3, <1>5, <1>8 DEF AcceptDisconnect
<1>9. CASE PushMessage(m)
  <2>1. CASE server = "none"
    BY <1>2, <1>3, <1>5, <1>9, <2>1 DEF PushMessage
  <2>2. CASE server # "none" /\ worker = "barred"
    BY <1>2, <1>3, <1>9, <2>2 DEF PushMessage
  <2>3. CASE server # "none" /\ worker # "barred"
    <3>1. m \in ToStream
      BY <1>1, <1>9 DEF PushMessage, ToServer, ToStream, Messages
    <3>2. /\ Elems(Append(requests, m)) = Elems(requests) \cup {m}
          /\ FramesIn(Append(requests, m)) = FramesIn(requests) \cup m.frames
          /\ OneControl(requests)
                 /\ (m.type \notin Control \/ \A e \in Elems(requests) : e.type \notin Control)
               => OneControl(Append(requests, m))
      BY <1>1, <3>1, AppendFacts DEF ToStream
    <3>3. requests' = Append(requests, m)
      BY <1>9, <2>3 DEF PushMessage
    <3>4. /\ m.type \in {"Start", "Stop", "ReleaseFrame", "SendFrame"}
          /\ UNCHANGED <<server, frame, to_client>>
      BY <1>9, <2>3 DEF PushMessage
    <3> QED BY <1>2, <1>3, <2>3, <3>2, <3>3, <3>4
  <2> QED BY <2>1, <2>2, <2>3
<1> QED BY <1>4, <1>6, <1>7, <1>8, <1>9

\* What the worker of the stream adapter does with a message.
LEMMA DoMessageFacts ==
  ASSUME TypeOK, DoMessage
  PROVE  \E m \in ToStream :
           /\ Elems(requests) = {m} \cup Elems(requests')
           /\ FramesIn(requests) = m.frames \cup FramesIn(requests')
           /\ OneControl(requests) =>
                /\ OneControl(requests')
                /\ m.type \in Control => \A e \in Elems(requests') : e.type \notin Control
           /\ \/ /\ m.type = "Start" /\ UNCHANGED frame
                 /\ \E answer \in {"ok", "error"} :
                      /\ server # "ready" => answer = "error"
                      /\ server' = IF answer = "ok" THEN "running" ELSE server
                      /\ Answered(m.id, answer)
              \/ /\ m.type = "Stop"
                 /\ \E answer \in {"ok", "error"} :
                      /\ server # "running" => answer = "error"
                      /\ IF answer = "ok"
                         THEN server' = "ready" /\ Release({f \in Frames : frame[f] = "arrived"})
                         ELSE UNCHANGED <<server, frame>>
                      /\ Answered(m.id, answer)
              \/ /\ m.type \in {"ReleaseFrame", "SendFrame"} /\ UNCHANGED server
                 /\ Release({f \in m.frames : frame[f] = "pending"})
                 /\ UNCHANGED to_client \/ Answered(m.id, "ok")
<1> DEFINE m == Head(requests)
<1>1. /\ m \in ToStream /\ m.id \in Nat /\ requests # <<>> /\ requests' = Tail(requests)
      /\ requests \in Seq(ToStream)
  BY ServerMessages, TypeParts DEF DoMessage, ServerType
<1>2. UNCHANGED up
  BY DEF DoMessage
<1>3. /\ Elems(requests) = {m} \cup Elems(requests')
      /\ FramesIn(requests) = m.frames \cup FramesIn(requests')
      /\ OneControl(requests) =>
           /\ OneControl(requests')
           /\ m.type \in Control => \A e \in Elems(requests') : e.type \notin Control
  BY <1>1, TailFacts DEF ToStream
<1>4. StartStream(m) \/ StopStream(m) \/ ReleaseFrame(m)
  BY DEF DoMessage
<1> HIDE DEF m
<1>5. \A answer \in {"ok", "error", "disconnected"} : Answer(m, answer) => Answered(m.id, answer)
  BY <1>1, AnswerFacts DEF Answered
<1> USE <1>1
<1> WITNESS m \in ToStream
<1>6. CASE StartStream(m)
  BY <1>3, <1>5, <1>6 DEF StartStream, Answers
<1>7. CASE StopStream(m)
  BY <1>3, <1>5, <1>7 DEF StopStream, Answers
<1>8. CASE ReleaseFrame(m)
  BY <1>3, <1>5, <1>8 DEF ReleaseFrame
<1> QED BY <1>4, <1>6, <1>7, <1>8

\* The request that opens the stream is the only message of a connection.
LEMMA CallOpenFacts ==
  ASSUME TypeOK, Connection, CallOpen
  PROVE  /\ Elems(to_server') = {Message("Open", request_id, {})}
         /\ FramesIn(to_server') = {} /\ OneControl(to_server')
         /\ to_client = <<>> /\ requests = <<>>
<1> DEFINE m == Message("Open", request_id, {})
<1>1. m \in ToServer /\ m.frames = {}
  BY DEF TypeOK, Message, Messages, ToServer, Control
<1>2. to_server' = <<m>> /\ to_client = <<>> /\ requests = <<>>
  BY DEF CallOpen, Call, Connection
<1> HIDE DEF m
<1>3. <<m>> = Append(<<>>, m)
  OBVIOUS
<1>4. /\ Elems(<<m>>) = {} \cup {m} /\ FramesIn(<<m>>) = {} \cup m.frames
      /\ OneControl(<<m>>)
  <2>1. /\ <<>> \in Seq(ToServer) /\ Elems(<<>>) = {} /\ FramesIn(<<>>) = {} /\ OneControl(<<>>)
    BY EmptyFacts DEF ToServer
  <2>2. /\ Elems(Append(<<>>, m)) = Elems(<<>>) \cup {m}
        /\ FramesIn(Append(<<>>, m)) = FramesIn(<<>>) \cup m.frames
        /\ OneControl(<<>>) /\ (\A e \in Elems(<<>>) : e.type \notin Control)
             => OneControl(Append(<<>>, m))
    <3>1. \A T : \A q \in Seq(Messages(T)), e \in Messages(T) :
            /\ Elems(Append(q, e)) = Elems(q) \cup {e}
            /\ FramesIn(Append(q, e)) = FramesIn(q) \cup e.frames
            /\ OneControl(q) /\ (\A d \in Elems(q) : d.type \notin Control)
                 => OneControl(Append(q, e))
      BY AppendFacts
    <3> QED BY <1>1, <2>1, <3>1, Zenon DEF ToServer
  <2> QED BY <1>3, <2>1, <2>2, Zenon
<1> QED BY <1>1, <1>2, <1>4 DEF m

\* The message of Disconnect, and the one that releases copied frames.
LEMMA AddedMessage ==
  ASSUME TypeOK, NEW type \in Control \cup {"ReleaseFrame", "SendFrame"}, NEW id \in Nat,
         NEW frames \in SUBSET Frames, to_server' = Append(to_server, Message(type, id, frames))
  PROVE  /\ Elems(to_server') = Elems(to_server) \cup {Message(type, id, frames)}
         /\ FramesIn(to_server') = FramesIn(to_server) \cup frames
         /\ OneControl(to_server)
                /\ (type \notin Control \/ \A e \in Elems(to_server) : e.type \notin Control)
              => OneControl(to_server')
<1> DEFINE m == Message(type, id, frames)
<1>1. m \in ToServer /\ m.frames = frames /\ m.type = type
  BY DEF Message, Messages, ToServer
<1>2. to_server \in Seq(ToServer) /\ to_server' = Append(to_server, m)
  BY DEF TypeOK, ToServer
<1>3. m = Message(type, id, frames)
  OBVIOUS
<1> HIDE DEF m
<1>4. /\ Elems(Append(to_server, m)) = Elems(to_server) \cup {m}
      /\ FramesIn(Append(to_server, m)) = FramesIn(to_server) \cup m.frames
      /\ OneControl(to_server)
             /\ (m.type \notin Control \/ \A e \in Elems(to_server) : e.type \notin Control)
           => OneControl(Append(to_server, m))
  BY <1>1, <1>2, AppendFacts DEF ToServer
<1> QED BY <1>1, <1>2, <1>3, <1>4


\* PublishingFrame: one message with all arrived frames.
LEMMA PublishingFacts ==
  ASSUME TypeOK, PublishingFrame
  PROVE  LET arrived == {f \in Frames : frame[f] = "arrived"} IN
         /\ UNCHANGED up
         /\ up => /\ Elems(to_client') = Elems(to_client) \cup {Message("SendFrame", 0, arrived)}
                  /\ FramesIn(to_client') = FramesIn(to_client) \cup arrived
                  /\ \A f \in Frames : frame'[f] = IF f \in arrived THEN "pending" ELSE frame[f]
         /\ ~up => /\ UNCHANGED to_client
                   /\ \A f \in Frames : frame'[f] = IF f \in arrived THEN "released" ELSE frame[f]
<1> DEFINE arrived == {f \in Frames : frame[f] = "arrived"}
           m == Message("SendFrame", 0, arrived)
<1>1. m \in ToClient /\ m.frames = arrived /\ to_client \in Seq(ToClient)
  BY TypeParts DEF Message, ToClient, Messages, MessengerType
<1>2. up => /\ to_client' = Append(to_client, m)
            /\ \A f \in Frames : frame'[f] = IF f \in arrived THEN "pending" ELSE frame[f]
  BY DEF PublishingFrame
<1>3. ~up => /\ UNCHANGED to_client
             /\ \A f \in Frames : frame'[f] = IF f \in arrived THEN "released" ELSE frame[f]
  BY ReleaseFacts DEF PublishingFrame
<1>4. UNCHANGED up
  BY DEF PublishingFrame
<1>5. m = Message("SendFrame", 0, arrived)
  OBVIOUS
<1> HIDE DEF m, arrived
<1>6. /\ Elems(Append(to_client, m)) = Elems(to_client) \cup {m}
      /\ FramesIn(Append(to_client, m)) = FramesIn(to_client) \cup m.frames
  BY <1>1, AppendFacts DEF ToClient
<1>7. /\ UNCHANGED up
      /\ up => /\ Elems(to_client') = Elems(to_client) \cup {Message("SendFrame", 0, arrived)}
               /\ FramesIn(to_client') = FramesIn(to_client) \cup arrived
               /\ \A f \in Frames : frame'[f] = IF f \in arrived THEN "pending" ELSE frame[f]
      /\ ~up => /\ UNCHANGED to_client
                /\ \A f \in Frames : frame'[f] = IF f \in arrived THEN "released" ELSE frame[f]
  BY <1>1, <1>2, <1>3, <1>4, <1>5, <1>6
<1> QED BY <1>7 DEF arrived

\* A new message to the server keeps Carried.
LEMMA CarriedMessage ==
  ASSUME Carried, NEW type, NEW id, NEW frames,
         Elems(to_server') = Elems(to_server) \cup {Message(type, id, frames)},
         FramesIn(to_server') = FramesIn(to_server) \cup frames,
         type \in Control => frames = {},
         \A f \in frames : frame[f] \in {"pending", "released"},
         UNCHANGED <<to_client, requests, frame>>
  PROVE  Carried'
<1>1. Message(type, id, frames).type = type /\ Message(type, id, frames).frames = frames
  BY DEF Message
<1>2. Asked' = Asked \cup frames
  BY DEF Asked
<1>3. \A f \in Asked' : frame'[f] \in {"pending", "released"}
  BY <1>2 DEF Carried
<1>4. \A m \in Elems(to_server') \cup Elems(requests') : m.type \in Control => m.frames = {}
  BY <1>1 DEF Carried
<1> QED BY <1>3, <1>4 DEF Carried

LEMMA CarriedRequest ==
  ASSUME TypeOK, Carried, NEW c \in Callers, NEW type \in Control \cup {"ReleaseFrame"},
         NEW frames \in SUBSET Frames, SendRequest(c, type, frames),
         type \in Control => frames = {},
         \A f \in frames : frame[f] \in {"pending", "released"},
         UNCHANGED <<requests, frame>>
  PROVE  Carried'
<1>1. /\ Elems(to_server') = Elems(to_server) \cup {Message(type, request_id, frames)}
      /\ FramesIn(to_server') = FramesIn(to_server) \cup frames
      /\ UNCHANGED to_client
  BY SendRequestFacts
<1> QED BY <1>1, CarriedMessage

\* Carried is kept.
LEMMA CarriedStep ==
  ASSUME TypeOK, Carried, FramesApart, Hands, Connection, [Next]_vars
  PROVE  Carried'
<1> USE DEF Carried, Asked, Callers, connection_vars, messenger_vars, app_vars, user_vars,
        sending_vars, memory_vars, server_vars, count_vars
<1>t. Asked \subseteq Frames
  BY TypeParts, QueueType DEF MessengerType, ServerType, ToServer, ToStream
<1>1. CASE CallOpen
  <2>1. UNCHANGED <<to_client, requests, frame>>
    BY <1>1 DEF CallOpen
  <2>2. /\ Elems(to_server') = {Message("Open", request_id, {})} /\ FramesIn(to_server') = {}
        /\ to_client = <<>> /\ requests = <<>>
    BY <1>1, CallOpenFacts
  <2>3. Message("Open", request_id, {}).frames = {}
    BY DEF Message
  <2>4. Asked' = {}
    BY <2>1, <2>2, EmptyFacts
  <2>5. Elems(to_client') = {} /\ Elems(requests') = {}
    BY <2>1, <2>2, EmptyFacts
  <2> QED BY <2>2, <2>3, <2>4, <2>5
<1>2. CASE CallStop
  <2>1. UNCHANGED <<requests, frame>>
    BY <1>2 DEF CallStop
  <2>2. CASE UNCHANGED <<to_server, to_client>>
    BY <2>1, <2>2
  <2>3. CASE SendRequest("app", "Stop", {})
    BY <2>1, <2>3, CarriedRequest DEF Control
  <2> QED BY <1>2, <2>2, <2>3 DEF CallStop, SendFails
<1>3. CASE StartLock
  <2>1. UNCHANGED <<requests, frame>>
    BY <1>3 DEF StartLock
  <2>2. CASE UNCHANGED <<to_server, to_client>>
    BY <2>1, <2>2
  <2>3. CASE SendRequest("app", "Start", {})
    BY <2>1, <2>3, CarriedRequest DEF Control
  <2> QED BY <1>3, <2>2, <2>3 DEF StartLock, SendFails
<1>4. CASE CloseRequest
  <2>1. UNCHANGED <<requests, frame>>
    BY <1>4 DEF CloseRequest
  <2>2. CASE UNCHANGED <<to_server, to_client>>
    BY <2>1, <2>2
  <2>3. CASE SendRequest("app", "Close", {})
    BY <2>1, <2>3, CarriedRequest DEF Control
  <2> QED BY <1>4, <2>2, <2>3 DEF CloseRequest, SendFails
<1>5. CASE Disconnect
  <2>1. UNCHANGED <<to_client, requests, frame>>
    BY <1>5 DEF Disconnect
  <2>2. CASE UNCHANGED to_server
    BY <2>1, <2>2
  <2>3. CASE to_server' = Append(to_server, Message("Disconnect", request_id, {}))
    <3>1. /\ Elems(to_server') = Elems(to_server) \cup {Message("Disconnect", request_id, {})}
          /\ FramesIn(to_server') = FramesIn(to_server) \cup {}
      BY <2>3, AddedMessage DEF TypeOK, Control
    <3> QED BY <2>1, <3>1, CarriedMessage
  <2> QED BY <1>5, <2>2, <2>3 DEF Disconnect
<1>6. CASE UserReleaseFrame
  <2>1. UNCHANGED <<to_client, requests, frame>>
    BY <1>6 DEF UserReleaseFrame, SendRequest
  <2>2. CASE UNCHANGED to_server
    BY <2>1, <2>2
  <2>3. CASE SendRequest("user", "ReleaseFrame", {user})
    <3>1. user \in Frames /\ frame[user] \in {"pending", "released"}
      BY <1>6 DEF UserReleaseFrame, Hands, FramesApart, Taken, TypeOK
    <3> QED BY <2>1, <2>3, <3>1, CarriedRequest DEF Control
  <2> QED BY <1>6, <2>2, <2>3 DEF UserReleaseFrame
<1>7. CASE ReleaseDropped
  <2>1. UNCHANGED <<to_client, requests, frame>>
    BY <1>7 DEF ReleaseDropped, SendRequest
  <2>2. CASE UNCHANGED to_server
    BY <2>1, <2>2
  <2>3. CASE \E f \in batch : SendRequest("monitor", "ReleaseFrame", {f})
    <3>1. PICK f \in batch : SendRequest("monitor", "ReleaseFrame", {f})
      BY <2>3
    <3>2. f \in Frames /\ frame[f] \in {"pending", "released"}
      BY DEF Hands, FramesApart, TypeOK
    <3> QED BY <2>1, <3>1, <3>2, CarriedRequest DEF Control
  <2> QED BY <1>7, <2>2, <2>3 DEF ReleaseDropped
<1>8. CASE FramesDone
  <2>1. UNCHANGED <<to_client, requests, frame>>
    BY <1>8 DEF FramesDone
  <2>2. CASE UNCHANGED to_server
    BY <2>1, <2>2
  <2>3. CASE to_server' = Append(to_server, Message("SendFrame", 0, message))
    <3>1. message \in SUBSET Frames /\ \A f \in message : frame[f] \in {"pending", "released"}
      BY DEF FramesApart, TypeOK
    <3> QED BY <2>1, <2>3, <3>1, AddedMessage DEF Message, Control
  <2> QED BY <1>8, <2>2, <2>3 DEF FramesDone
<1>9. CASE Recv
  BY <1>9, ClientMessages DEF Recv
<1>10. CASE RecvEnd
  BY <1>10, <1>t, EmptyFacts DEF RecvEnd
<1>11. CASE Acception
  <2>1. PICK m \in ToServer :
          /\ Elems(to_server) = {m} \cup Elems(to_server')
          /\ FramesIn(to_server) = m.frames \cup FramesIn(to_server')
          /\ \/ UNCHANGED requests
             \/ requests' = <<>>
             \/ /\ Elems(requests') = Elems(requests) \cup {m}
                /\ FramesIn(requests') = FramesIn(requests) \cup m.frames
          /\ \/ UNCHANGED to_client
             \/ \E answer \in {"ok", "error", "disconnected"} : Answered(m.id, answer)
    BY <1>11, AcceptionFacts
  <2>2. Asked' \subseteq Asked
    BY <2>1, EmptyFacts
  <2>3. \A e \in Elems(to_server') \cup Elems(requests') : e.type \in Control => e.frames = {}
    BY <2>1, EmptyFacts
  <2>4. \A e \in Elems(to_client') : e.type # "SendFrame" => e.frames = {}
    BY <2>1 DEF Answered, Message
  <2> QED BY <1>11, <1>t, <2>2, <2>3, <2>4, ServerFacts
<1>12. CASE CloseAllStream
  <2>1. UNCHANGED <<to_client, to_server>> /\ requests' = <<>>
    BY <1>12 DEF CloseAllStream
  <2> QED BY <1>12, <1>t, <2>1, ServerFacts, EmptyFacts
<1>13. CASE DoMessage
  <2>1. PICK m \in ToStream :
          /\ Elems(requests) = {m} \cup Elems(requests')
          /\ FramesIn(requests) = m.frames \cup FramesIn(requests')
          /\ UNCHANGED to_client \/ \E answer \in {"ok", "error"} : Answered(m.id, answer)
    BY <1>13, DoMessageFacts
  <2>2. UNCHANGED to_server
    BY <1>13 DEF DoMessage
  <2>3. \A e \in Elems(to_client') : e.type # "SendFrame" => e.frames = {}
    BY <2>1 DEF Answered, Message
  <2> QED BY <1>13, <1>t, <2>1, <2>2, <2>3, ServerFacts
<1>14. CASE Arrive
  <2>1. UNCHANGED <<to_client, to_server, requests>>
    BY <1>14 DEF Arrive
  <2>2. \A f \in Frames : frame[f] # None => frame'[f] = frame[f]
    BY <1>14 DEF Arrive, TypeOK
  <2> QED BY <1>t, <2>1, <2>2 DEF None
<1>15. CASE PublishingFrame
  <2>1. UNCHANGED <<to_server, requests>>
    BY <1>15 DEF PublishingFrame
  <2>2. \A f \in Frames : frame[f] \in {"pending", "released"} => frame'[f] = frame[f]
    BY <1>15, PublishingFacts
  <2>3. \A e \in Elems(to_client') : e.type # "SendFrame" => e.frames = {}
    BY <1>15, PublishingFacts DEF Message
  <2> QED BY <1>t, <2>1, <2>2, <2>3
<1>16. CASE Break
  BY <1>16, <1>t, EmptyFacts DEF Break
<1>17. CASE CallStart \/ CallClose \/ (\E reply \in Replies : OpenReply(reply)) \/
           (\E reply \in Replies : StartReply(reply)) \/ (\E reply \in Replies : StopReply(reply))
           \/ (\E reply \in Replies : CloseReply(reply)) \/ StopPortSendings \/ JoinRecv \/
           (\E f \in Frames : UserRelease(f)) \/ (\E reply \in Replies : UserReply(reply)) \/
           MonitorMessages \/ AddFrames \/ SendFrames \/
           (\E reply \in Replies : MonitorReply(reply)) \/ UNCHANGED vars
  BY <1>17
     DEF CallStart, CallClose, OpenReply, Reply, StartReply, Reply, StopReply, Reply, CloseReply,
         Reply, StopPortSendings, JoinRecv, UserRelease, UserReply, Reply, MonitorMessages,
         AddFrames, SendFrames, MonitorReply, Reply, vars
<1> QED BY <1>1, <1>2, <1>3, <1>4, <1>5, <1>6, <1>7, <1>8, <1>9, <1>10, <1>11, <1>12, <1>13, <1>14,
           <1>15, <1>16, <1>17
         DEF Next, AppStep, UserStep, MonitorStep, RecvStep, Finished

\* NoStream is kept.
LEMMA NoStreamStep ==
  ASSUME TypeOK, NoStream, Connection, [Next]_vars
  PROVE  NoStream'
<1> USE DEF NoStream, connection_vars, messenger_vars, app_vars, user_vars, sending_vars,
        memory_vars, server_vars, count_vars
<1>1. CASE Acception
  <2>1. \/ UNCHANGED frame /\ server' \in {server, "ready"}
        \/ server' = "none" /\ Release(Frames)
    BY <1>1, AcceptionFacts
  <2> QED BY <2>1, ReleaseFacts DEF TypeOK
<1>2. CASE CloseAllStream
  <2>1. (UNCHANGED frame /\ server' \in {server, "leaked"}) \/ Release(Frames)
    BY <1>2 DEF CloseAllStream
  <2> QED BY <2>1, ReleaseFacts DEF TypeOK
<1>3. CASE DoMessage
  <2>1. server' \in {server, "ready", "running"}
    BY <1>3, DoMessageFacts
  <2> QED BY <1>3, <2>1, ServerFacts DEF None
<1>4. CASE Arrive
  BY <1>4 DEF Arrive
<1>5. CASE PublishingFrame
  BY <1>5 DEF PublishingFrame
<1>6. CASE CallOpen \/ CallStart \/ CallStop \/ CallClose \/
           (\E reply \in Replies : OpenReply(reply)) \/ (\E reply \in Replies : StartReply(reply))
           \/ (\E reply \in Replies : StopReply(reply)) \/
           (\E reply \in Replies : CloseReply(reply)) \/ StartLock \/ StopPortSendings \/
           CloseRequest \/ Disconnect \/ JoinRecv \/ (\E f \in Frames : UserRelease(f)) \/
           UserReleaseFrame \/ (\E reply \in Replies : UserReply(reply)) \/ MonitorMessages \/
           AddFrames \/ SendFrames \/ ReleaseDropped \/
           (\E reply \in Replies : MonitorReply(reply)) \/ FramesDone \/ Recv \/ RecvEnd \/ Break
           \/ UNCHANGED vars
  BY <1>6
     DEF CallOpen, CallStart, CallStop, CallClose, OpenReply, StartReply, StopReply, CloseReply,
         StartLock, StopPortSendings, CloseRequest, Disconnect, JoinRecv, UserRelease,
         UserReleaseFrame, UserReply, MonitorMessages, AddFrames, SendFrames, ReleaseDropped,
         MonitorReply, FramesDone, Recv, RecvEnd, Break, vars
<1> QED BY <1>1, <1>2, <1>3, <1>4, <1>5, <1>6
         DEF Next, AppStep, UserStep, MonitorStep, RecvStep, Finished

\* Closing is kept.
LEMMA ClosingStep ==
  ASSUME TypeOK, Closing, Connection, Places, Hands, [Next]_vars
  PROVE  Closing'
<1> USE DEF Closing, Callers, connection_vars, messenger_vars, app_vars, user_vars,
        sending_vars, memory_vars, server_vars, count_vars
<1>1. CASE CallOpen
  <2>1. Elems(to_server') = {Message("Open", request_id, {})}
    BY <1>1, CallOpenFacts
  <2> QED BY <2>1 DEF Message
<1>2. CASE CallStart
  BY <1>2 DEF CallStart, Call
<1>3. CASE CallStop
  <2>1. \A e \in Elems(to_server') : e.type = "Close" => e \in Elems(to_server)
    <3>1. CASE SendRequest("app", "Stop", {})
      <4>1. Elems(to_server') = Elems(to_server) \cup {Message("Stop", request_id, {})}
        BY <3>1, SendRequestFacts DEF Control
      <4> QED BY <4>1 DEF Message
    <3>2. CASE UNCHANGED to_server
      BY <3>2
    <3> QED BY <1>3, <3>1, <3>2 DEF CallStop, SendFails
  <2>2. UNCHANGED sendings /\ app' # "open"
    BY <1>3 DEF CallStop, StopFailed, StopSucceeds
  <2> QED BY <2>1, <2>2
<1>4. CASE CallClose
  BY <1>4 DEF CallClose, Call
<1>5. ASSUME NEW reply \in Replies, OpenReply(reply) PROVE Closing'
  BY <1>5 DEF OpenReply, Reply
<1>6. ASSUME NEW reply \in Replies, StartReply(reply) PROVE Closing'
  BY <1>6 DEF StartReply, Reply
<1>7. ASSUME NEW reply \in Replies, StopReply(reply) PROVE Closing'
  BY <1>7 DEF StopReply, Reply, StopFailed, StopSucceeds
<1>8. ASSUME NEW reply \in Replies, CloseReply(reply) PROVE Closing'
  BY <1>8 DEF CloseReply, Reply
<1>9. CASE StartLock
  <2>1. \A e \in Elems(to_server') : e.type = "Close" => e \in Elems(to_server)
    <3>1. CASE SendRequest("app", "Start", {})
      <4>1. Elems(to_server') = Elems(to_server) \cup {Message("Start", request_id, {})}
        BY <3>1, SendRequestFacts DEF Control
      <4> QED BY <4>1 DEF Message
    <3>2. CASE UNCHANGED to_server
      BY <3>2
    <3> QED BY <1>9, <3>1, <3>2 DEF StartLock, SendFails
  <2>2. UNCHANGED sendings /\ app' # "open"
    BY <1>9 DEF StartLock
  <2> QED BY <2>1, <2>2
<1>10. CASE StopPortSendings
  BY <1>10 DEF StopPortSendings
<1>11. CASE CloseRequest
  <2>1. ~sendings /\ UNCHANGED sendings /\ app' # "open"
    BY <1>11 DEF CloseRequest, Places
  <2> QED BY <2>1
<1>12. CASE Disconnect
  <2>1. \A e \in Elems(to_server') : e.type = "Close" => e \in Elems(to_server)
    <3>1. CASE to_server' = Append(to_server, Message("Disconnect", request_id, {}))
      <4>1. Elems(to_server') = Elems(to_server) \cup {Message("Disconnect", request_id, {})}
        BY <3>1, AddedMessage DEF TypeOK, Control
      <4> QED BY <4>1 DEF Message
    <3>2. CASE UNCHANGED to_server
      BY <3>2
    <3> QED BY <1>12, <3>1, <3>2 DEF Disconnect
  <2> QED BY <1>12, <2>1 DEF Disconnect
<1>13. CASE JoinRecv
  BY <1>13 DEF JoinRecv
<1>14. CASE UserReleaseFrame
  <2>1. \A e \in Elems(to_server') : e.type = "Close" => e \in Elems(to_server)
    <3>0. user \in Frames
      BY <1>14 DEF UserReleaseFrame, Hands, TypeOK
    <3>1. CASE SendRequest("user", "ReleaseFrame", {user})
      <4>1. Elems(to_server') = Elems(to_server) \cup {Message("ReleaseFrame", request_id, {user})}
        BY <3>0, <3>1, SendRequestFacts DEF Control
      <4> QED BY <4>1 DEF Message
    <3>2. CASE UNCHANGED to_server
      BY <3>2
    <3> QED BY <1>14, <3>1, <3>2 DEF UserReleaseFrame, SendFails
  <2>2. UNCHANGED <<sendings, app>>
    BY <1>14 DEF UserReleaseFrame
  <2> QED BY <2>1, <2>2
<1>15. CASE ReleaseDropped
  <2>1. \A e \in Elems(to_server') : e.type = "Close" => e \in Elems(to_server)
    <3>1. CASE \E f \in batch : SendRequest("monitor", "ReleaseFrame", {f})
      <4>1. PICK f \in batch : SendRequest("monitor", "ReleaseFrame", {f})
        BY <3>1
      <4>2. Elems(to_server') = Elems(to_server) \cup {Message("ReleaseFrame", request_id, {f})}
        <5>1. {f} \in SUBSET Frames
          BY DEF TypeOK
        <5> QED BY <4>1, <5>1, SendRequestFacts
      <4> QED BY <4>2 DEF Message
    <3>2. CASE UNCHANGED to_server
      BY <3>2
    <3> QED BY <1>15, <3>1, <3>2 DEF ReleaseDropped
  <2> QED BY <1>15, <2>1 DEF ReleaseDropped
<1>16. CASE FramesDone
  <2>1. \A e \in Elems(to_server') : e.type = "Close" => e \in Elems(to_server)
    <3>1. CASE to_server' = Append(to_server, Message("SendFrame", 0, message))
      <4>1. Elems(to_server') = Elems(to_server) \cup {Message("SendFrame", 0, message)}
        BY <3>1, AddedMessage DEF TypeOK
      <4> QED BY <4>1 DEF Message
    <3>2. CASE UNCHANGED to_server
      BY <3>2
    <3> QED BY <1>16, <3>1, <3>2 DEF FramesDone
  <2> QED BY <1>16, <2>1 DEF FramesDone
<1>17. CASE RecvEnd
  BY <1>17, EmptyFacts DEF RecvEnd
<1>18. CASE Acception
  <2>1. Elems(to_server') \subseteq Elems(to_server)
    BY <1>18, AcceptionFacts
  <2> QED BY <1>18, <2>1 DEF Acception
<1>19. CASE Break
  BY <1>19, EmptyFacts DEF Break
<1>20. CASE (\E f \in Frames : UserRelease(f)) \/ (\E reply \in Replies : UserReply(reply)) \/
           MonitorMessages \/ AddFrames \/ SendFrames \/
           (\E reply \in Replies : MonitorReply(reply)) \/ Recv \/ CloseAllStream \/ DoMessage \/
           Arrive \/ PublishingFrame \/ UNCHANGED vars
  BY <1>20
     DEF UserRelease, UserReply, Reply, MonitorMessages, AddFrames, SendFrames, MonitorReply,
         Reply, Recv, CloseAllStream, Release, DoMessage, StartStream, StopStream, ReleaseFrame,
         Answer, Release, Arrive, PublishingFrame, Answer, Release, vars
<1> QED BY <1>1, <1>2, <1>3, <1>4, <1>5, <1>6, <1>7, <1>8, <1>9, <1>10, <1>11, <1>12, <1>13, <1>14,
           <1>15, <1>16, <1>17, <1>18, <1>19, <1>20
         DEF Next, AppStep, UserStep, MonitorStep, RecvStep, Finished

\* Served is kept: the worker starts with the stream.
LEMMA ServedStep ==
  ASSUME TypeOK, Served, Closing, Connection, Places, [Next]_vars
  PROVE  Served'
<1> USE DEF Served, connection_vars, messenger_vars, app_vars, user_vars, sending_vars,
        memory_vars, server_vars, count_vars
<1>1. CASE CallOpen
  BY <1>1 DEF CallOpen
<1>2. ASSUME NEW reply \in Replies, OpenReply(reply) PROVE Served'
  BY <1>2 DEF OpenReply, Reply
<1>3. CASE Acception
  <2> DEFINE m == Head(to_server)
  <2>1. OpenStream(m) \/ CloseStream(m) \/ AcceptDisconnect(m) \/ PushMessage(m)
    BY <1>3 DEF Acception
  <2>2. m.type = "Close" => ~sendings /\ app # "open"
    <3>1. to_server # <<>> /\ to_server \in Seq(ToServer)
      BY <1>3, TypeParts DEF Acception, MessengerType
    <3>2. m \in Elems(to_server)
      BY <3>1, TailFacts DEF ToServer
    <3> QED BY <3>2 DEF Closing
  <2> HIDE DEF m
  <2>3. UNCHANGED <<up, sendings, app>>
    BY <1>3 DEF Acception
  <2> QED BY <2>1, <2>2, <2>3 DEF OpenStream, CloseStream, AcceptDisconnect, PushMessage, Answers
<1>4. CASE DoMessage
  BY <1>4 DEF DoMessage
<1>5. CASE CloseAllStream
  BY <1>5 DEF CloseAllStream
<1>6. CASE CallStart \/ CallStop \/ CallClose \/ (\E reply \in Replies : StartReply(reply)) \/
          (\E reply \in Replies : StopReply(reply)) \/ (\E reply \in Replies : CloseReply(reply)) \/
          StartLock \/ StopPortSendings \/ CloseRequest \/ Disconnect \/ JoinRecv
  BY <1>6
     DEF CallStart, CallStop, SendRequest, SendFails, StopFailed, StopSucceeds, CallClose,
         StartReply, Reply, StopReply, CloseReply, StartLock, StopPortSendings, CloseRequest,
         Disconnect, JoinRecv
<1>7. CASE (\E f \in Frames : UserRelease(f)) \/ UserReleaseFrame \/
          (\E reply \in Replies : UserReply(reply)) \/ MonitorMessages \/ AddFrames \/ SendFrames \/
          ReleaseDropped \/ (\E reply \in Replies : MonitorReply(reply)) \/ FramesDone \/ Recv \/
          RecvEnd \/ Arrive \/ PublishingFrame \/ Break \/ UNCHANGED vars
  BY <1>7
     DEF UserRelease, UserReleaseFrame, SendRequest, UserReply, Reply, MonitorMessages, AddFrames,
         SendFrames, ReleaseDropped, MonitorReply, FramesDone, Recv, RecvEnd, Arrive,
         PublishingFrame, Break, vars
<1> QED BY <1>1, <1>2, <1>3, <1>4, <1>5, <1>6, <1>7
         DEF Next, AppStep, UserStep, MonitorStep, RecvStep, Finished

\* Opening is kept.
LEMMA OpeningStep ==
  ASSUME TypeOK, Opening, NoStream, Connection, Places, Hands, [Next]_vars
  PROVE  Opening'
<1> USE DEF Opening, Sent, Asked, connection_vars, messenger_vars, app_vars, user_vars,
        sending_vars, memory_vars, server_vars, count_vars
<1>1. CASE CallOpen
  <2>1. /\ Elems(to_server') = {Message("Open", request_id, {})} /\ FramesIn(to_server') = {}
        /\ to_client = <<>> /\ requests = <<>>
    BY <1>1, CallOpenFacts
  <2>2. server = "none" /\ UNCHANGED <<to_client, requests, server, frame, messages>>
    BY <1>1 DEF CallOpen
  <2>3. messages = <<>>
    BY <1>1 DEF CallOpen, Call, Places
  <2>4. Message("Open", request_id, {}).type = "Open"
    BY DEF Message
  <2> QED BY <2>1, <2>2, <2>3, <2>4, EmptyFacts DEF NoStream
<1>2. ASSUME NEW f \in Frames, UserRelease(f) PROVE Opening'
  BY <1>2 DEF UserRelease, Places
<1>3. CASE UserReleaseFrame
  BY <1>3 DEF UserReleaseFrame, Places
<1>4. ASSUME NEW reply \in Replies, UserReply(reply) PROVE Opening'
  BY <1>4 DEF UserReply, Reply, Places
<1>5. CASE MonitorMessages
  BY <1>5 DEF MonitorMessages, Places, None
<1>6. CASE AddFrames
  BY <1>6 DEF AddFrames, Places, None
<1>7. CASE SendFrames
  BY <1>7 DEF SendFrames, Places, None
<1>8. CASE ReleaseDropped
  BY <1>8 DEF ReleaseDropped, Places, None
<1>9. ASSUME NEW reply \in Replies, MonitorReply(reply) PROVE Opening'
  BY <1>9 DEF MonitorReply, Places, None
<1>10. CASE FramesDone
  BY <1>10 DEF FramesDone, Places, None
<1>11. CASE Recv
  <2>1. UNCHANGED <<app, up, to_server, requests, server, frame>>
    BY <1>11 DEF Recv
  <2>2. FramesIn(to_client') \subseteq FramesIn(to_client)
    BY <1>11, ClientMessages DEF Recv
  <2>3. app = "open" => UNCHANGED messages
    BY <1>11 DEF Recv, DealReply, DealDisconnected, DealFrames, Places
  <2> QED BY <2>1, <2>2, <2>3
<1>12. CASE Acception
  <2> SUFFICES ASSUME app = "open", up PROVE Opening'
    BY <1>12 DEF Acception
  <2>1. UNCHANGED <<app, up, messages>>
    BY <1>12 DEF Acception
  <2>2. PICK m \in ToServer :
          /\ Elems(to_server) = {m} \cup Elems(to_server')
          /\ FramesIn(to_server) = m.frames \cup FramesIn(to_server')
          /\ m.type = "Open" => UNCHANGED <<requests, frame>> /\ server' \in {"ready", server}
    BY <1>12, AcceptionFacts
  <2>3. UNCHANGED <<requests, frame>> /\ server' \in {"ready", server}
    BY <2>2
  <2> QED BY <1>12, <2>1, <2>2, <2>3, ServerFacts
<1>13. CASE CloseAllStream
  <2>1. ~up /\ UNCHANGED up
    BY <1>13 DEF CloseAllStream
  <2> QED BY <2>1
<1>14. CASE DoMessage
  <2>1. requests # <<>> /\ UNCHANGED <<app, up>>
    BY <1>14 DEF DoMessage
  <2> QED BY <2>1
<1>15. CASE Arrive
  BY <1>15 DEF Arrive
<1>16. CASE PublishingFrame
  BY <1>16 DEF PublishingFrame
<1>17. CASE CallStart \/ CallStop \/ CallClose \/ (\E reply \in Replies : OpenReply(reply)) \/
           (\E reply \in Replies : StartReply(reply)) \/ (\E reply \in Replies : StopReply(reply))
           \/ (\E reply \in Replies : CloseReply(reply)) \/ StartLock \/ StopPortSendings \/
           CloseRequest \/ Disconnect \/ JoinRecv \/ RecvEnd \/ Break \/ UNCHANGED vars
  BY <1>17
     DEF CallStart, CallStop, StopFailed, StopSucceeds, CallClose, OpenReply, StartReply,
         StopReply, StopFailed, StopSucceeds, CloseReply, StartLock, StopPortSendings,
         CloseRequest, Disconnect, JoinRecv, RecvEnd, Break, vars
<1> QED BY <1>1, <1>2, <1>3, <1>4, <1>5, <1>6, <1>7, <1>8, <1>9, <1>10, <1>11, <1>12, <1>13, <1>14,
           <1>15, <1>16, <1>17
         DEF Next, AppStep, UserStep, MonitorStep, RecvStep, Finished


\* A request about the stream carries no frame.
LEMMA ControlRequestFacts ==
  ASSUME TypeOK, NEW c \in Callers, NEW type \in Control, SendRequest(c, type, {})
  PROVE  FramesIn(to_server') = FramesIn(to_server) /\ UNCHANGED <<up, to_client>>
<1>1. FramesIn(to_server') = FramesIn(to_server) \cup {} /\ UNCHANGED <<up, to_client>>
  BY SendRequestFacts
<1> QED BY <1>1

\* FramesAccounted is kept.
LEMMA AccountedStep ==
  ASSUME TypeOK, FramesAccounted, FramesApart, Carried, NoStream, Opening, Closing,
         Served, Connection, Places, Hands, [Next]_vars
  PROVE  FramesAccounted'
<1> USE DEF FramesAccounted, Sent, Owed, Releasing, Asked, Callers, connection_vars,
        messenger_vars, app_vars, user_vars, sending_vars, memory_vars, server_vars, count_vars
<1>t. Sent \cup Owed \subseteq Frames
  <2>1. Sent \subseteq Frames
    BY ClientMessages
  <2>2. held \subseteq Frames /\ batch \subseteq Frames /\ message \subseteq Frames
    BY DEF TypeOK
  <2>3. Releasing \subseteq Frames
    BY DEF TypeOK, Hands
  <2> QED BY <2>1, <2>2, <2>3
<1>1. CASE CallOpen
  <2>1. ~sendings'
    BY <1>1 DEF CallOpen, Call, Places
  <2> QED BY <2>1
<1>2. CASE CallStop
  <2>1. UNCHANGED <<shared, sendings, held, user, user_pc, batch, message, messages, requests, frame>>
    BY <1>2 DEF CallStop, SendRequest, SendFails
  <2>2. UNCHANGED <<up, to_client>> /\ FramesIn(to_server') = FramesIn(to_server)
    <3>1. CASE SendRequest("app", "Stop", {})
      BY <3>1, ControlRequestFacts DEF Control
    <3>2. CASE UNCHANGED <<up, to_client, to_server>>
      BY <3>2
    <3> QED BY <1>2, <3>1, <3>2 DEF CallStop, SendFails
  <2> QED BY <2>1, <2>2
<1>3. ASSUME NEW reply \in Replies, OpenReply(reply) PROVE FramesAccounted'
  <2>1. UNCHANGED <<shared, up, to_client, to_server, held, user, user_pc, batch, message, messages,
                    requests, frame>>
    BY <1>3 DEF OpenReply, Reply
  <2>2. app = "open" /\ c_state = "closed" /\ held = {} /\ user_pc = "idle" /\ monitor = None
    BY <1>3 DEF OpenReply, Places
  <2>3. message = {} /\ batch = {}
    BY <2>2 DEF Hands, None
  <2>4. CASE up
    BY <2>1, <2>2, <2>3, <2>4 DEF Opening, None
  <2> QED BY <2>1, <2>4
<1>4. CASE StartLock
  <2>1. UNCHANGED <<shared, sendings, held, user, user_pc, batch, message, messages, requests, frame>>
    BY <1>4 DEF StartLock, SendRequest, SendFails
  <2>2. UNCHANGED <<up, to_client>> /\ FramesIn(to_server') = FramesIn(to_server)
    <3>1. CASE SendRequest("app", "Start", {})
      BY <3>1, ControlRequestFacts DEF Control
    <3>2. CASE UNCHANGED <<up, to_client, to_server>>
      BY <3>2
    <3> QED BY <1>4, <3>1, <3>2 DEF StartLock, SendFails
  <2> QED BY <2>1, <2>2
<1>5. CASE StopPortSendings
  BY <1>5 DEF StopPortSendings
<1>6. CASE CloseRequest
  <2>1. UNCHANGED <<shared, sendings, held, user, user_pc, batch, message, messages, requests, frame>>
    BY <1>6 DEF CloseRequest, SendRequest, SendFails
  <2>2. UNCHANGED <<up, to_client>> /\ FramesIn(to_server') = FramesIn(to_server)
    <3>1. CASE SendRequest("app", "Close", {})
      BY <3>1, ControlRequestFacts DEF Control
    <3>2. CASE UNCHANGED <<up, to_client, to_server>>
      BY <3>2
    <3> QED BY <1>6, <3>1, <3>2 DEF CloseRequest, SendFails
  <2> QED BY <2>1, <2>2
<1>7. CASE Disconnect
  <2>1. UNCHANGED <<shared, up, to_client, sendings, held, user, user_pc, batch, message, messages,
                    requests, frame>>
    BY <1>7 DEF Disconnect
  <2>2. FramesIn(to_server') = FramesIn(to_server)
    <3>1. CASE to_server' = Append(to_server, Message("Disconnect", request_id, {}))
      <4>1. FramesIn(to_server') = FramesIn(to_server) \cup {}
        BY <3>1, AddedMessage DEF TypeOK, Control
      <4> QED BY <4>1
    <3>2. CASE UNCHANGED to_server
      BY <3>2
    <3> QED BY <1>7, <3>1, <3>2 DEF Disconnect
  <2> QED BY <2>1, <2>2
<1>8. ASSUME NEW f \in Frames, UserRelease(f) PROVE FramesAccounted'
  <2> QED BY <1>8 DEF UserRelease
<1>9. CASE UserReleaseFrame
  <2>1. UNCHANGED <<shared, to_client, sendings, held, batch, message, messages, requests, frame>>
    BY <1>9 DEF UserReleaseFrame, SendRequest
  <2>2. user \in Frames /\ user_pc = "release" /\ user_pc' \in {"wait", "idle"}
    BY <1>9 DEF UserReleaseFrame, Hands, TypeOK
  <2>3. user \notin Sent \cup held \cup batch
    BY <2>2 DEF FramesApart, Taken, Frames
  <2>4. CASE shared /\ up
    <3>1. SendRequest("user", "ReleaseFrame", {user})
      BY <1>9, <2>4 DEF UserReleaseFrame
    <3>2. FramesIn(to_server') = FramesIn(to_server) \cup {user} /\ UNCHANGED up
      <4>1. {user} \in SUBSET Frames
        BY <2>2
      <4> QED BY <3>1, <4>1, SendRequestFacts
    <3> QED BY <2>1, <2>2, <2>3, <2>4, <3>2
  <2>5. CASE ~(shared /\ up)
    <3>1. UNCHANGED <<up, to_server>>
      BY <1>9, <2>5 DEF UserReleaseFrame
    <3> QED BY <2>1, <2>2, <2>5, <3>1
  <2> QED BY <2>4, <2>5
<1>10. ASSUME NEW reply \in Replies, UserReply(reply) PROVE FramesAccounted'
  <2> QED BY <1>10 DEF UserReply, Reply
<1>11. CASE MonitorMessages
  <2>1. UNCHANGED <<shared, up, to_client, to_server, sendings, held, user, user_pc, requests, frame>>
    BY <1>11 DEF MonitorMessages
  <2>2. CASE sendings
    <3>1. /\ messages # <<>> /\ messages' = Tail(messages)
          /\ message' = Head(messages).frames /\ batch' = Head(messages).frames
          /\ message = {} /\ batch = {}
      BY <1>11, <2>2 DEF MonitorMessages, Hands
    <3>2. FramesIn(messages) = message' \cup FramesIn(messages')
      BY <3>1, ClientMessages
    <3>3. message' \cup FramesIn(messages') \subseteq FramesIn(messages)
      BY <3>2
    <3> QED BY <2>1, <3>1, <3>2
  <2> QED BY <2>1, <2>2
<1>12. CASE SendFrames
  <2>1. UNCHANGED <<shared, up, to_client, to_server, sendings, user, user_pc, message, messages,
                    requests, frame>>
    BY <1>12 DEF SendFrames
  <2>2. held' \cup batch' = held \cup batch
    BY <1>12 DEF SendFrames
  <2> QED BY <2>1, <2>2
<1>13. CASE ReleaseDropped
  <2>1. UNCHANGED <<shared, to_client, sendings, held, user, user_pc, message, messages, requests,
                    frame>>
    BY <1>13 DEF ReleaseDropped, SendRequest
  <2>2. PICK f \in batch :
          /\ batch' = batch \ {f}
          /\ IF shared /\ up THEN SendRequest("monitor", "ReleaseFrame", {f})
                             ELSE UNCHANGED <<connection_vars, messenger_vars>>
    BY <1>13 DEF ReleaseDropped
  <2>3. f \in Frames /\ f \notin Sent \cup held \cup Releasing
    BY DEF FramesApart, Taken, Hands, TypeOK, Frames
  <2>4. CASE shared /\ up
    <3>1. {f} \in SUBSET Frames
      BY <2>3
    <3>2. FramesIn(to_server') = FramesIn(to_server) \cup {f} /\ UNCHANGED up
      BY <2>2, <2>4, <3>1, SendRequestFacts
    <3> QED BY <2>1, <2>2, <2>3, <2>4, <3>2
  <2>5. CASE ~(shared /\ up)
    BY <2>1, <2>2, <2>5
  <2> QED BY <2>4, <2>5
<1>14. CASE FramesDone
  <2>1. UNCHANGED <<shared, up, to_client, sendings, held, user, user_pc, batch, messages, requests,
                    frame>>
    BY <1>14 DEF FramesDone
  <2>2. message' = {} /\ batch = {}
    BY <1>14 DEF FramesDone
  <2>3. message \cap Sent = {}
    BY DEF FramesApart
  <2>4. CASE ~shared /\ up
    <3>1. to_server' = Append(to_server, Message("SendFrame", 0, message))
      BY <1>14, <2>4 DEF FramesDone
    <3>2. FramesIn(to_server') = FramesIn(to_server) \cup message
      BY <3>1, AddedMessage DEF TypeOK
    <3> QED BY <2>1, <2>2, <2>3, <2>4, <3>2
  <2>5. CASE ~(~shared /\ up)
    <3>1. UNCHANGED to_server
      BY <1>14, <2>5 DEF FramesDone
    <3> QED BY <2>1, <2>2, <2>5, <3>1
  <2> QED BY <2>4, <2>5
<1>15. CASE Recv
  <2> DEFINE m == Head(to_client)
  <2>1. UNCHANGED <<shared, up, to_server, sendings, held, user, user_pc, batch, message, requests,
                    frame>>
    BY <1>15 DEF Recv
  <2>2. /\ m \in ToClient /\ m \in Elems(to_client)
        /\ FramesIn(to_client) = m.frames \cup FramesIn(to_client')
    BY <1>15, ClientMessages DEF Recv
  <2>3. CASE m.type # "SendFrame"
    <3>1. UNCHANGED messages /\ m.frames = {}
      BY <1>15, <2>2, <2>3 DEF Recv, DealReply, DealDisconnected, DealFrames, Carried
    <3> QED BY <2>1, <2>2, <3>1
  <2>4. CASE m.type = "SendFrame" /\ sendings
    <3>1. messages' = Append(messages, m)
      BY <1>15, <2>4 DEF Recv, DealReply, DealDisconnected, DealFrames
    <3>2. m \in Messages({"SendFrame"}) /\ messages \in Seq(Messages({"SendFrame"}))
      BY <2>2, <2>4, TypeParts DEF ToClient, Messages, SendingType
    <3> HIDE DEF m
    <3>3. FramesIn(messages') = FramesIn(messages) \cup m.frames
      BY <3>1, <3>2, AppendFacts
    <3>4. Sent' = Sent
      BY <2>2, <3>3
    <3> QED BY <2>1, <3>4
  <2> QED BY <2>1, <2>3, <2>4
<1>16. CASE RecvEnd
  BY <1>16 DEF RecvEnd
<1>17. CASE Acception
  <2> SUFFICES ASSUME up, sendings PROVE FramesAccounted'
    BY <1>17 DEF Acception
  <2>1. UNCHANGED <<shared, up, sendings, held, user, user_pc, batch, message, messages>>
    BY <1>17 DEF Acception
  <2>2. PICK m \in ToServer :
          /\ Elems(to_server) = {m} \cup Elems(to_server')
          /\ FramesIn(to_server) = m.frames \cup FramesIn(to_server')
          /\ \/ m.type \in {"Open", "Disconnect"} /\ UNCHANGED <<requests, frame>>
             \/ m.type = "Close"
             \/ /\ m.type \in {"Start", "Stop", "ReleaseFrame", "SendFrame"}
                /\ server = "none" \/ worker = "barred"
                /\ UNCHANGED <<requests, frame>>
             \/ /\ UNCHANGED frame
                /\ FramesIn(requests') = FramesIn(requests) \cup m.frames
    BY <1>17, AcceptionFacts
  <2>3. m.type # "Close"
    BY <2>2 DEF Closing
  <2>4. m.type \in {"Open", "Disconnect"} => m.frames = {}
    BY <2>2 DEF Carried, Control
  <2>5. FramesIn(to_client') = FramesIn(to_client) /\ UNCHANGED frame
    BY <1>17, <2>2, <2>3, ServerFacts
  <2>6. Asked' \subseteq Asked /\ (server # "none" => Asked' = Asked)
    BY <2>2, <2>3, <2>4 DEF Served
  <2>7. server = "none" => \A f \in Frames : frame[f] # "pending"
    BY DEF NoStream, None
  <2> QED BY <2>1, <2>5, <2>6, <2>7
<1>18. CASE CloseAllStream
  <2>1. ~up /\ UNCHANGED up
    BY <1>18 DEF CloseAllStream
  <2> QED BY <2>1
<1>19. CASE DoMessage
  <2>1. UNCHANGED <<shared, up, to_server, sendings, held, user, user_pc, batch, message, messages>>
    BY <1>19 DEF DoMessage
  <2>2. PICK m \in ToStream :
          /\ Elems(requests) = {m} \cup Elems(requests')
          /\ FramesIn(requests) = m.frames \cup FramesIn(requests')
          /\ \/ m.type = "Start" /\ UNCHANGED frame
             \/ /\ m.type = "Stop"
                /\ UNCHANGED frame \/ Release({f \in Frames : frame[f] = "arrived"})
             \/ /\ m.type \in {"ReleaseFrame", "SendFrame"}
                /\ Release({f \in m.frames : frame[f] = "pending"})
    BY <1>19, DoMessageFacts
  <2>3. FramesIn(to_client') = FramesIn(to_client)
    BY <1>19, ServerFacts
  <2>4. CASE m.type \in {"Start", "Stop"}
    <3>1. m.frames = {}
      BY <2>2, <2>4 DEF Carried, Control
    <3>2. UNCHANGED frame \/ Release({f \in Frames : frame[f] = "arrived"})
      BY <2>2, <2>4
    <3>3. \A f \in Frames : (frame[f] = "pending") <=> (frame'[f] = "pending")
      <4>1. CASE UNCHANGED frame
        BY <4>1
      <4>2. CASE Release({f \in Frames : frame[f] = "arrived"})
        <5>1. {f \in Frames : frame[f] = "arrived"} \in SUBSET Frames
          OBVIOUS
        <5> QED BY <4>2, <5>1, ReleaseFacts
      <4> QED BY <3>2, <4>1, <4>2
    <3> QED BY <1>t, <2>1, <2>2, <2>3, <3>1, <3>3
  <2>5. CASE m.type \in {"ReleaseFrame", "SendFrame"}
    <3>1. m.frames \subseteq Frames
      BY <2>2 DEF ToStream, Messages
    <3>2. {f \in m.frames : frame[f] = "pending"} \in SUBSET Frames
      BY <3>1
    <3>3. Release({f \in m.frames : frame[f] = "pending"})
      BY <2>2, <2>5
    <3>4. \A f \in Frames : frame'[f] = "pending" <=> frame[f] = "pending" /\ f \notin m.frames
      BY <3>2, <3>3, ReleaseFacts
    <3> QED BY <1>t, <2>1, <2>2, <2>3, <3>4
  <2> QED BY <2>2, <2>4, <2>5
<1>20. CASE Arrive
  <2>1. UNCHANGED <<shared, up, to_client, to_server, sendings, held, user, user_pc, batch, message,
                    messages, requests>>
    BY <1>20 DEF Arrive
  <2>2. \A f \in Frames : frame'[f] = "pending" <=> frame[f] = "pending"
    BY <1>20 DEF Arrive, None, TypeOK
  <2> QED BY <1>t, <2>1, <2>2
<1>21. CASE PublishingFrame
  <2> DEFINE arrived == {f \in Frames : frame[f] = "arrived"}
  <2>1. UNCHANGED <<shared, up, to_server, sendings, held, user, user_pc, batch, message, messages,
                    requests>>
    BY <1>21 DEF PublishingFrame
  <2>2. arrived \cap Asked = {}
    BY DEF Carried
  <2>3. arrived \subseteq Frames
    OBVIOUS
  <2>4. up => /\ FramesIn(to_client') = FramesIn(to_client) \cup arrived
              /\ \A f \in Frames : frame'[f] = IF f \in arrived THEN "pending" ELSE frame[f]
    BY <1>21, PublishingFacts
  <2> HIDE DEF arrived
  <2> QED BY <1>t, <2>1, <2>2, <2>3, <2>4
<1>22. CASE Break
  BY <1>22 DEF Break
<1>23. CASE \/ CallStart \/ CallClose \/ (\E reply \in Replies : StartReply(reply))
            \/ (\E reply \in Replies : StopReply(reply))
            \/ (\E reply \in Replies : CloseReply(reply)) \/ JoinRecv \/ AddFrames
            \/ (\E reply \in Replies : MonitorReply(reply)) \/ UNCHANGED vars
  <2>1. UNCHANGED <<shared, up, to_client, to_server, sendings, held, user, user_pc,
                   batch, message, messages, requests, frame>>
    BY <1>23
       DEF CallStart, CallClose, StartReply, Reply, StopReply, CloseReply, JoinRecv, AddFrames,
           MonitorReply, vars
  <2> QED BY <2>1
<1> QED BY <1>1, <1>2, <1>3, <1>4, <1>5, <1>6, <1>7, <1>8, <1>9, <1>10, <1>11, <1>12, <1>13, <1>14,
           <1>15, <1>16, <1>17, <1>18, <1>19, <1>20, <1>21, <1>22, <1>23
         DEF Next, AppStep, UserStep, MonitorStep, RecvStep, Finished


\* A request of the application: one more message for the server, whose reply it
\* waits for.
LEMMA AppRequestFacts ==
  ASSUME TypeOK, NEW type \in Control, SendRequest("app", type, {})
  PROVE  /\ \E m \in ToServer :
              /\ m.type = type /\ m.id = request_id
              /\ Elems(to_server') = Elems(to_server) \cup {m}
         /\ (OneControl(to_server) /\ \A e \in Elems(to_server) : e.type \notin Control)
              => OneControl(to_server')
         /\ waiting'["app"].id = request_id /\ waiting'["app"].reply = None
         /\ \A c \in Callers \ {"app"} : waiting'[c] = waiting[c]
         /\ up /\ request_id' = request_id + 1
         /\ UNCHANGED <<up, to_client>>
<1>1. "app" \in Callers /\ type \in Control \cup {"ReleaseFrame", "SendFrame"} /\ {} \in SUBSET Frames
  BY DEF Callers
<1>2. /\ Message(type, request_id, {}) \in ToServer
      /\ Elems(to_server') = Elems(to_server) \cup {Message(type, request_id, {})}
      /\ OneControl(to_server) /\ (\A e \in Elems(to_server) : e.type \notin Control)
           => OneControl(to_server')
      /\ waiting'["app"] = [id |-> request_id, reply |-> None, woken |-> FALSE]
      /\ \A c \in Callers \ {"app"} : waiting'[c] = waiting[c]
      /\ up /\ request_id' = request_id + 1 /\ UNCHANGED <<up, to_client>>
  BY <1>1, SendRequestFacts
<1>3. /\ Message(type, request_id, {}).type = type
      /\ Message(type, request_id, {}).id = request_id
  BY DEF Message
<1> QED BY <1>2, <1>3

\* A release by the user or the port sending thread: no request about the state
\* of the stream.
LEMMA ReleaseRequestFacts ==
  ASSUME TypeOK, Hands, UserReleaseFrame \/ ReleaseDropped
  PROVE  /\ UNCHANGED <<to_client, requests, server, app, c_state, timeouts>>
         /\ waiting'["app"] = waiting["app"]
         /\ OneControl(to_server) => OneControl(to_server')
         /\ \/ UNCHANGED <<up, to_server, waiting, request_id>>
            \/ /\ UNCHANGED up /\ request_id' = request_id + 1
               /\ \E m \in ToServer :
                    /\ m.type = "ReleaseFrame" /\ m.id = request_id
                    /\ Elems(to_server') = Elems(to_server) \cup {m}
               /\ \E c \in Callers : /\ waiting'[c].id = request_id
                                     /\ \A d \in Callers \ {c} : waiting'[d] = waiting[d]
<1>1. UNCHANGED <<to_client, requests, server, app, c_state, timeouts>>
  BY DEF UserReleaseFrame, ReleaseDropped, SendRequest, server_vars, app_vars, count_vars,
         connection_vars
<1>2. \/ UNCHANGED <<up, to_server, waiting, request_id>>
      \/ \E c \in {"user", "monitor"}, f \in Frames : SendRequest(c, "ReleaseFrame", {f})
  <2>1. CASE UserReleaseFrame
    <3>1. user \in Frames
      BY <2>1 DEF UserReleaseFrame, Hands, TypeOK
    <3> QED BY <2>1, <3>1 DEF UserReleaseFrame, connection_vars, messenger_vars
  <2>2. CASE ReleaseDropped
    <3>1. batch \subseteq Frames
      BY DEF TypeOK
    <3> QED BY <2>2, <3>1 DEF ReleaseDropped, connection_vars, messenger_vars
  <2> QED BY <2>1, <2>2
<1>3. CASE UNCHANGED <<up, to_server, waiting, request_id>>
  BY <1>1, <1>3
<1>4. CASE \E c \in {"user", "monitor"}, f \in Frames : SendRequest(c, "ReleaseFrame", {f})
  <2>1. PICK c \in {"user", "monitor"}, f \in Frames : SendRequest(c, "ReleaseFrame", {f})
    BY <1>4
  <2> DEFINE m == Message("ReleaseFrame", request_id, {f})
  <2>2. c \in Callers /\ {f} \in SUBSET Frames /\ "app" \in Callers \ {c}
    BY DEF Callers
  <2>3. "ReleaseFrame" \notin Control
    BY DEF Control
  <2>4. /\ m \in ToServer /\ Elems(to_server') = Elems(to_server) \cup {m}
        /\ OneControl(to_server) => OneControl(to_server')
        /\ waiting'[c] = [id |-> request_id, reply |-> None, woken |-> FALSE]
        /\ \A d \in Callers \ {c} : waiting'[d] = waiting[d]
        /\ UNCHANGED up /\ request_id' = request_id + 1
    BY <2>1, <2>2, <2>3, SendRequestFacts
  <2>5. m.type = "ReleaseFrame" /\ m.id = request_id
    BY DEF Message
  <2> HIDE DEF m
  <2>6. waiting'["app"] = waiting["app"] /\ waiting'[c].id = request_id
    BY <2>2, <2>4
  <2> QED BY <1>1, <2>2, <2>4, <2>5, <2>6
<1> QED BY <1>2, <1>3, <1>4

\* Messages have numbers.
LEMMA NumbersType ==
  ASSUME TypeOK
  PROVE  /\ \A m \in Elems(to_server) \cup Elems(requests) \cup Elems(to_client) : m.id \in Nat
         /\ \A c \in Callers : waiting[c].id \in Nat
         /\ request_id \in Nat \ {0}
<1>1. /\ \A m \in Elems(to_server) : m \in ToServer
      /\ \A m \in Elems(requests) : m \in ToStream
      /\ \A m \in Elems(to_client) : m \in ToClient
  BY TypeParts, QueueType DEF MessengerType, ServerType, ToServer, ToStream, ToClient
<1>2. /\ \A m \in Elems(to_server) \cup Elems(requests) \cup Elems(to_client) : m.id \in Nat
  BY <1>1 DEF ToServer, ToStream, ToClient, Messages
<1> QED BY <1>2 DEF TypeOK

\* The application waits no more.
LEMMA AppReplyFacts ==
  ASSUME TypeOK, NEW reply \in Replies, Reply("app", reply)
  PROVE  /\ waiting'["app"].id = 0
         /\ \A c \in Callers \ {"app"} : waiting'[c] = waiting[c]
         /\ UNCHANGED <<up, to_server, to_client, request_id>>
<1>1. "app" \in Callers
  BY DEF Callers
<1> QED BY <1>1, ReplyFacts DEF connection_vars

\* Numbers is kept.
LEMMA NumbersStep ==
  ASSUME TypeOK, Numbers, Connection, Places, Hands, [Next]_vars
  PROVE  Numbers'
<1> USE DEF Numbers, Id, connection_vars, messenger_vars, app_vars, user_vars, sending_vars,
        memory_vars, server_vars, count_vars
<1>n. /\ \A m \in Elems(to_server) \cup Elems(requests) \cup Elems(to_client) : m.id \in Nat
      /\ \A c \in Callers : waiting[c].id \in Nat
      /\ request_id \in Nat \ {0}
  BY NumbersType
<1>1. CASE CallOpen
  <2>1. /\ Elems(to_server') = {Message("Open", request_id, {})}
        /\ to_client = <<>> /\ requests = <<>> /\ UNCHANGED <<to_client, requests>>
    BY <1>1, CallOpenFacts DEF CallOpen
  <2>2. Message("Open", request_id, {}).id = request_id
    BY DEF Message
  <2>3. /\ waiting' = [waiting EXCEPT !["app"] = [NotWaiting EXCEPT !.id = request_id]]
        /\ request_id' = request_id + 1 /\ app' \in Asking
    BY <1>1 DEF CallOpen, Asking
  <2>4. waiting'["app"].id = request_id /\ \A c \in Callers \ {"app"} : waiting'[c] = waiting[c]
    BY <2>3 DEF NotWaiting, Callers, TypeOK
  <2>5. Elems(to_client') = {} /\ Elems(requests') = {}
    BY <2>1, EmptyFacts
  <2>6. \A m \in Elems(to_server') : m.id < request_id + 1
    BY <1>n, <2>1, <2>2
  <2> QED BY <1>n, <2>3, <2>4, <2>5, <2>6 DEF Callers
<1>2. CASE CallStop
  <2>1. UNCHANGED requests /\ app \notin Asking
    BY <1>2 DEF CallStop, Call, Asking
  <2>2. CASE SendRequest("app", "Stop", {})
    <3>1. app' \in Asking
      BY <1>2, <2>2 DEF CallStop, Asking, SendRequest, SendFails
    <3>2. PICK m \in ToServer :
            m.type = "Stop" /\ m.id = request_id /\ Elems(to_server') = Elems(to_server) \cup {m}
      BY <2>2, AppRequestFacts DEF Control
    <3>3. /\ waiting'["app"].id = request_id
          /\ \A c \in Callers \ {"app"} : waiting'[c] = waiting[c]
          /\ request_id' = request_id + 1 /\ UNCHANGED to_client
      BY <2>2, AppRequestFacts DEF Control
    <3> QED BY <1>n, <2>1, <3>1, <3>2, <3>3 DEF Callers
  <2>3. CASE ~SendRequest("app", "Stop", {})
    <3>1. UNCHANGED <<to_server, to_client, waiting, request_id>> /\ app' \notin Asking
      BY <1>2, <2>3 DEF CallStop, Asking, SendFails, StopFailed, StopSucceeds
    <3> QED BY <2>1, <3>1
  <2> QED BY <2>2, <2>3
<1>3. ASSUME NEW reply \in Replies, OpenReply(reply) PROVE Numbers'
  <2>1. Reply("app", reply) /\ app' \notin Asking /\ UNCHANGED requests
    BY <1>3 DEF OpenReply, Asking, StopFailed, StopSucceeds
  <2> QED BY <1>n, <2>1, AppReplyFacts DEF Callers
<1>4. ASSUME NEW reply \in Replies, StartReply(reply) PROVE Numbers'
  <2>1. Reply("app", reply) /\ app' \notin Asking /\ UNCHANGED requests
    BY <1>4 DEF StartReply, Asking, StopFailed, StopSucceeds
  <2> QED BY <1>n, <2>1, AppReplyFacts DEF Callers
<1>5. ASSUME NEW reply \in Replies, StopReply(reply) PROVE Numbers'
  <2>1. Reply("app", reply) /\ app' \notin Asking /\ UNCHANGED requests
    BY <1>5 DEF StopReply, Asking, StopFailed, StopSucceeds
  <2> QED BY <1>n, <2>1, AppReplyFacts DEF Callers
<1>6. ASSUME NEW reply \in Replies, CloseReply(reply) PROVE Numbers'
  <2>1. Reply("app", reply) /\ app' \notin Asking /\ UNCHANGED requests
    BY <1>6 DEF CloseReply, Asking, StopFailed, StopSucceeds
  <2> QED BY <1>n, <2>1, AppReplyFacts DEF Callers
<1>7. CASE StartLock
  <2>1. UNCHANGED requests /\ app \notin Asking
    BY <1>7 DEF StartLock, Call, Asking
  <2>2. CASE SendRequest("app", "Start", {})
    <3>1. app' \in Asking
      BY <1>7, <2>2 DEF StartLock, Asking, SendRequest, SendFails
    <3>2. PICK m \in ToServer :
            m.type = "Start" /\ m.id = request_id /\ Elems(to_server') = Elems(to_server) \cup {m}
      BY <2>2, AppRequestFacts DEF Control
    <3>3. /\ waiting'["app"].id = request_id
          /\ \A c \in Callers \ {"app"} : waiting'[c] = waiting[c]
          /\ request_id' = request_id + 1 /\ UNCHANGED to_client
      BY <2>2, AppRequestFacts DEF Control
    <3> QED BY <1>n, <2>1, <3>1, <3>2, <3>3 DEF Callers
  <2>3. CASE ~SendRequest("app", "Start", {})
    <3>1. UNCHANGED <<to_server, to_client, waiting, request_id>> /\ app' \notin Asking
      BY <1>7, <2>3 DEF StartLock, Asking, SendFails, StopFailed, StopSucceeds
    <3> QED BY <2>1, <3>1
  <2> QED BY <2>2, <2>3
<1>8. CASE CloseRequest
  <2>1. UNCHANGED requests /\ app \notin Asking
    BY <1>8 DEF CloseRequest, Call, Asking
  <2>2. CASE SendRequest("app", "Close", {})
    <3>1. app' \in Asking
      BY <1>8, <2>2 DEF CloseRequest, Asking, SendRequest, SendFails
    <3>2. PICK m \in ToServer :
            m.type = "Close" /\ m.id = request_id /\ Elems(to_server') = Elems(to_server) \cup {m}
      BY <2>2, AppRequestFacts DEF Control
    <3>3. /\ waiting'["app"].id = request_id
          /\ \A c \in Callers \ {"app"} : waiting'[c] = waiting[c]
          /\ request_id' = request_id + 1 /\ UNCHANGED to_client
      BY <2>2, AppRequestFacts DEF Control
    <3> QED BY <1>n, <2>1, <3>1, <3>2, <3>3 DEF Callers
  <2>3. CASE ~SendRequest("app", "Close", {})
    <3>1. UNCHANGED <<to_server, to_client, waiting, request_id>> /\ app' \notin Asking
      BY <1>8, <2>3 DEF CloseRequest, Asking, SendFails, StopFailed, StopSucceeds
    <3> QED BY <2>1, <3>1
  <2> QED BY <2>2, <2>3
<1>9. CASE Disconnect
  <2>1. /\ UNCHANGED <<to_client, requests, waiting>> /\ app \notin Asking /\ app' \notin Asking
        /\ \/ UNCHANGED <<to_server, request_id>>
           \/ /\ to_server' = Append(to_server, Message("Disconnect", request_id, {}))
              /\ request_id' = request_id + 1
    BY <1>9 DEF Disconnect, Asking
  <2>2. CASE UNCHANGED <<to_server, request_id>>
    BY <2>1, <2>2
  <2>3. CASE to_server' = Append(to_server, Message("Disconnect", request_id, {}))
             /\ request_id' = request_id + 1
    <3>1. Elems(to_server') = Elems(to_server) \cup {Message("Disconnect", request_id, {})}
      BY <2>3, AddedMessage DEF TypeOK, Control
    <3>2. Message("Disconnect", request_id, {}).id = request_id
      BY DEF Message
    <3> QED BY <1>n, <2>1, <2>3, <3>1, <3>2
  <2> QED BY <2>1, <2>2, <2>3
<1>10. CASE JoinRecv
  <2>1. UNCHANGED <<to_server, to_client, requests, request_id>> /\ app' = "idle"
        /\ waiting' = [c \in Callers |-> NotWaiting]
    BY <1>10 DEF JoinRecv
  <2> QED BY <1>n, <2>1 DEF NotWaiting, Callers, Asking
<1>11. CASE UserReleaseFrame
  <2> QED BY <1>11, <1>n, ReleaseRequestFacts
<1>12. ASSUME NEW reply \in Replies, UserReply(reply) PROVE Numbers'
  <2>1. UNCHANGED <<app, requests>> /\ Reply("user", reply)
    BY <1>12 DEF UserReply
  <2>2. UNCHANGED <<to_server, to_client, request_id>> /\ waiting'["user"].id = 0
        /\ \A c \in Callers \ {"user"} : waiting'[c] = waiting[c]
    BY <2>1, ReplyFacts DEF Callers
  <2> QED BY <1>n, <2>1, <2>2 DEF Callers
<1>13. CASE ReleaseDropped
  <2> QED BY <1>13, <1>n, ReleaseRequestFacts
<1>14. ASSUME NEW reply \in Replies, MonitorReply(reply) PROVE Numbers'
  <2>1. UNCHANGED <<app, requests>> /\ Reply("monitor", reply)
    BY <1>14 DEF MonitorReply
  <2>2. UNCHANGED <<to_server, to_client, request_id>> /\ waiting'["monitor"].id = 0
        /\ \A c \in Callers \ {"monitor"} : waiting'[c] = waiting[c]
    BY <2>1, ReplyFacts DEF Callers
  <2> QED BY <1>n, <2>1, <2>2 DEF Callers
<1>15. CASE FramesDone
  <2>1. UNCHANGED <<to_client, requests, waiting, request_id, app>>
    BY <1>15 DEF FramesDone
  <2>2. CASE UNCHANGED to_server
    BY <2>1, <2>2
  <2>3. CASE to_server' = Append(to_server, Message("SendFrame", 0, message))
    <3>1. Elems(to_server') = Elems(to_server) \cup {Message("SendFrame", 0, message)}
      BY <2>3, AddedMessage DEF TypeOK
    <3>2. Message("SendFrame", 0, message).id = 0
      BY DEF Message
    <3> QED BY <1>n, <2>1, <3>1, <3>2
  <2> QED BY <1>15, <2>2, <2>3 DEF FramesDone
<1>16. CASE Recv
  <2>1. UNCHANGED <<to_server, requests, request_id, app>>
    BY <1>16 DEF Recv
  <2>2. Elems(to_client') \subseteq Elems(to_client)
    BY <1>16, ClientMessages DEF Recv
  <2>3. \A c \in Callers : waiting'[c].id = waiting[c].id
    <3> DEFINE m == Head(to_client)
    <3>1. DealReply(m) \/ UNCHANGED waiting
      BY <1>16 DEF Recv, DealDisconnected, DealFrames
    <3> HIDE DEF m
    <3> QED BY <3>1, DealReplyFacts
  <2> QED BY <2>1, <2>2, <2>3 DEF Callers
<1>17. CASE RecvEnd
  <2>1. UNCHANGED <<requests, request_id, app>> /\ to_server' = <<>> /\ to_client' = <<>>
    BY <1>17 DEF RecvEnd
  <2>2. \A c \in Callers : waiting'[c].id = waiting[c].id
    <3>1. waiting \in [Callers -> [id : Nat, reply : {None, "ok", "error"}, woken : BOOLEAN]]
      BY DEF TypeOK
    <3>2. \A c \in Callers : waiting'[c] \in {waiting[c], [waiting[c] EXCEPT !.woken = TRUE]}
      BY <1>17 DEF RecvEnd
    <3> QED BY <3>1, <3>2
  <2> QED BY <2>1, <2>2, EmptyFacts DEF Callers
<1>18. CASE Acception
  <2>1. UNCHANGED <<request_id, app, waiting>>
    BY <1>18 DEF Acception
  <2>2. PICK m \in ToServer :
          /\ Elems(to_server) = {m} \cup Elems(to_server')
          /\ requests' = <<>> \/ Elems(requests') \subseteq Elems(requests) \cup {m}
          /\ \/ UNCHANGED to_client
             \/ \E answer \in {"ok", "error", "disconnected"} : Answered(m.id, answer)
    BY <1>18, AcceptionFacts
  <2>3. \A e \in Elems(to_client') : e \in Elems(to_client) \/ e.id = m.id
    BY <2>2 DEF Answered, Message
  <2> QED BY <2>1, <2>2, <2>3, EmptyFacts
<1>19. CASE CloseAllStream
  <2>1. UNCHANGED <<request_id, app, waiting, to_server, to_client>> /\ requests' = <<>>
    BY <1>19 DEF CloseAllStream
  <2> QED BY <2>1, EmptyFacts
<1>20. CASE DoMessage
  <2>1. UNCHANGED <<request_id, app, waiting, to_server>>
    BY <1>20 DEF DoMessage
  <2>2. PICK m \in ToStream :
          /\ Elems(requests) = {m} \cup Elems(requests')
          /\ UNCHANGED to_client \/ \E answer \in {"ok", "error"} : Answered(m.id, answer)
    BY <1>20, DoMessageFacts
  <2>3. \A e \in Elems(to_client') : e \in Elems(to_client) \/ e.id = m.id
    BY <2>2 DEF Answered, Message
  <2> QED BY <2>1, <2>2, <2>3
<1>21. CASE PublishingFrame
  <2>1. UNCHANGED <<request_id, app, waiting, to_server, requests>>
    BY <1>21 DEF PublishingFrame
  <2>2. \A e \in Elems(to_client') : e \in Elems(to_client) \/ e.id = 0
    BY <1>21, PublishingFacts DEF Message
  <2> QED BY <1>n, <2>1, <2>2
<1>22. CASE Break
  <2>1. UNCHANGED <<requests, request_id, app, waiting>> /\ to_server' = <<>> /\ to_client' = <<>>
    BY <1>22 DEF Break
  <2> QED BY <2>1, EmptyFacts
<1>23. CASE \/ CallStart \/ CallClose \/ StopPortSendings \/ (\E f \in Frames : UserRelease(f))
            \/ MonitorMessages \/ AddFrames \/ SendFrames \/ Arrive \/ UNCHANGED vars
  BY <1>23
     DEF CallStart, Call, Asking, CallClose, StopPortSendings, UserRelease, MonitorMessages,
         AddFrames, SendFrames, Arrive, vars
<1> QED BY <1>1, <1>2, <1>3, <1>4, <1>5, <1>6, <1>7, <1>8, <1>9, <1>10, <1>11, <1>12, <1>13, <1>14,
           <1>15, <1>16, <1>17, <1>18, <1>19, <1>20, <1>21, <1>22, <1>23
         DEF Next, AppStep, UserStep, MonitorStep, RecvStep, Finished

\* Foreign is kept.
LEMMA ForeignStep ==
  ASSUME TypeOK, Foreign, Numbers, Connection, Hands, [Next]_vars
  PROVE  Foreign'
<1> USE DEF Foreign, Id, connection_vars, messenger_vars, app_vars, user_vars, sending_vars,
        memory_vars, server_vars, count_vars
<1>n. /\ \A m \in Elems(to_server) \cup Elems(requests) \cup Elems(to_client) : m.id \in Nat
      /\ \A c \in Callers : waiting[c].id \in Nat
      /\ request_id \in Nat \ {0} /\ "app" \in Callers
  BY NumbersType DEF Callers
<1>c. waiting["app"].id < request_id /\ waiting["app"].id \in Nat
  BY <1>n DEF Numbers
<1>1. CASE CallOpen
  <2>1. /\ Elems(to_server') = {Message("Open", request_id, {})}
        /\ to_client = <<>> /\ requests = <<>> /\ UNCHANGED <<to_client, requests>>
    BY <1>1, CallOpenFacts DEF CallOpen
  <2>2. Message("Open", request_id, {}).type = "Open" /\ "Open" \in Control
    BY DEF Message, Control
  <2>3. Elems(to_client') = {} /\ Elems(requests') = {}
    BY <2>1, EmptyFacts
  <2> QED BY <2>1, <2>2, <2>3
<1>2. CASE CallStop
  <2>1. UNCHANGED requests /\ app # "join_recv"
    BY <1>2 DEF CallStop, Call
  <2>2. CASE SendRequest("app", "Stop", {})
    <3>1. PICK m \in ToServer : m.type = "Stop" /\ Elems(to_server') = Elems(to_server) \cup {m}
      BY <2>2, AppRequestFacts DEF Control
    <3>2. Id' = request_id /\ UNCHANGED to_client
      BY <2>2, AppRequestFacts DEF Control
    <3>3. "Stop" \in Control
      BY DEF Control
    <3> QED BY <1>n, <2>1, <3>1, <3>2, <3>3 DEF Numbers
  <2>3. CASE ~SendRequest("app", "Stop", {})
    <3>1. UNCHANGED <<to_server, to_client>> /\ app' \notin Asking
      BY <1>2, <2>3 DEF CallStop, Asking, SendFails, StopFailed, StopSucceeds
    <3> QED BY <2>1, <3>1
  <2> QED BY <2>2, <2>3
<1>3. ASSUME NEW reply \in Replies, OpenReply(reply) PROVE Foreign'
  <2>1. Reply("app", reply) /\ app' \notin Asking /\ UNCHANGED requests /\ app # "join_recv"
    BY <1>3 DEF OpenReply, Asking, StopFailed, StopSucceeds
  <2> QED BY <2>1, AppReplyFacts
<1>4. ASSUME NEW reply \in Replies, StartReply(reply) PROVE Foreign'
  <2>1. Reply("app", reply) /\ app' \notin Asking /\ UNCHANGED requests /\ app # "join_recv"
    BY <1>4 DEF StartReply, Asking, StopFailed, StopSucceeds
  <2> QED BY <2>1, AppReplyFacts
<1>5. ASSUME NEW reply \in Replies, StopReply(reply) PROVE Foreign'
  <2>1. Reply("app", reply) /\ app' \notin Asking /\ UNCHANGED requests /\ app # "join_recv"
    BY <1>5 DEF StopReply, Asking, StopFailed, StopSucceeds
  <2> QED BY <2>1, AppReplyFacts
<1>6. ASSUME NEW reply \in Replies, CloseReply(reply) PROVE Foreign'
  <2>1. Reply("app", reply) /\ app' \notin Asking /\ UNCHANGED requests /\ app # "join_recv"
    BY <1>6 DEF CloseReply, Asking, StopFailed, StopSucceeds
  <2> QED BY <2>1, AppReplyFacts
<1>7. CASE StartLock
  <2>1. UNCHANGED requests /\ app # "join_recv"
    BY <1>7 DEF StartLock, Call
  <2>2. CASE SendRequest("app", "Start", {})
    <3>1. PICK m \in ToServer : m.type = "Start" /\ Elems(to_server') = Elems(to_server) \cup {m}
      BY <2>2, AppRequestFacts DEF Control
    <3>2. Id' = request_id /\ UNCHANGED to_client
      BY <2>2, AppRequestFacts DEF Control
    <3>3. "Start" \in Control
      BY DEF Control
    <3> QED BY <1>n, <2>1, <3>1, <3>2, <3>3 DEF Numbers
  <2>3. CASE ~SendRequest("app", "Start", {})
    <3>1. UNCHANGED <<to_server, to_client>> /\ app' \notin Asking
      BY <1>7, <2>3 DEF StartLock, Asking, SendFails, StopFailed, StopSucceeds
    <3> QED BY <2>1, <3>1
  <2> QED BY <2>2, <2>3
<1>8. CASE CloseRequest
  <2>1. UNCHANGED requests /\ app # "join_recv"
    BY <1>8 DEF CloseRequest, Call
  <2>2. CASE SendRequest("app", "Close", {})
    <3>1. PICK m \in ToServer : m.type = "Close" /\ Elems(to_server') = Elems(to_server) \cup {m}
      BY <2>2, AppRequestFacts DEF Control
    <3>2. Id' = request_id /\ UNCHANGED to_client
      BY <2>2, AppRequestFacts DEF Control
    <3>3. "Close" \in Control
      BY DEF Control
    <3> QED BY <1>n, <2>1, <3>1, <3>2, <3>3 DEF Numbers
  <2>3. CASE ~SendRequest("app", "Close", {})
    <3>1. UNCHANGED <<to_server, to_client>> /\ app' \notin Asking
      BY <1>8, <2>3 DEF CloseRequest, Asking, SendFails, StopFailed, StopSucceeds
    <3> QED BY <2>1, <3>1
  <2> QED BY <2>2, <2>3
<1>9. CASE Disconnect
  <2> QED BY <1>9 DEF Disconnect, Asking
<1>10. CASE JoinRecv
  <2>1. app' = "idle" /\ UNCHANGED to_server /\ to_server = <<>>
    BY <1>10 DEF JoinRecv, Connection
  <2> QED BY <2>1, EmptyFacts DEF Asking
<1>11. CASE UserReleaseFrame
  <2> QED BY <1>11, <1>n, <1>c, ReleaseRequestFacts DEF Numbers
<1>12. ASSUME NEW reply \in Replies, UserReply(reply) PROVE Foreign'
  <2>1. UNCHANGED <<app, requests>> /\ Reply("user", reply)
    BY <1>12 DEF UserReply
  <2>2. UNCHANGED <<to_server, to_client>> /\ waiting'["app"] = waiting["app"]
    BY <2>1, ReplyFacts DEF Callers, connection_vars
  <2> QED BY <2>1, <2>2
<1>13. CASE ReleaseDropped
  <2> QED BY <1>13, <1>n, <1>c, ReleaseRequestFacts DEF Numbers
<1>14. ASSUME NEW reply \in Replies, MonitorReply(reply) PROVE Foreign'
  <2>1. UNCHANGED <<app, requests>> /\ Reply("monitor", reply)
    BY <1>14 DEF MonitorReply
  <2>2. UNCHANGED <<to_server, to_client>> /\ waiting'["app"] = waiting["app"]
    BY <2>1, ReplyFacts DEF Callers, connection_vars
  <2> QED BY <2>1, <2>2
<1>15. CASE FramesDone
  <2>1. UNCHANGED <<to_client, requests, waiting, app>>
    BY <1>15 DEF FramesDone
  <2>2. CASE UNCHANGED to_server
    BY <2>1, <2>2
  <2>3. CASE to_server' = Append(to_server, Message("SendFrame", 0, message))
    <3>1. Elems(to_server') = Elems(to_server) \cup {Message("SendFrame", 0, message)}
      BY <2>3, AddedMessage DEF TypeOK
    <3>2. /\ Message("SendFrame", 0, message).id = 0
          /\ Message("SendFrame", 0, message).type = "SendFrame"
      BY DEF Message
    <3> QED BY <2>1, <3>1, <3>2 DEF Numbers
  <2> QED BY <1>15, <2>2, <2>3 DEF FramesDone
<1>16. CASE Recv
  <2>1. UNCHANGED <<to_server, requests, app>>
    BY <1>16 DEF Recv
  <2>2. Elems(to_client') \subseteq Elems(to_client)
    BY <1>16, ClientMessages DEF Recv
  <2>3. Id' = Id
    <3> DEFINE m == Head(to_client)
    <3>1. DealReply(m) \/ UNCHANGED waiting
      BY <1>16 DEF Recv, DealDisconnected, DealFrames
    <3> HIDE DEF m
    <3> QED BY <3>1, DealReplyFacts DEF Callers
  <2> QED BY <2>1, <2>2, <2>3
<1>17. CASE RecvEnd
  <2>1. UNCHANGED <<requests, app>> /\ to_server' = <<>> /\ to_client' = <<>>
    BY <1>17 DEF RecvEnd
  <2>2. Id' = Id
    <3>1. waiting \in [Callers -> [id : Nat, reply : {None, "ok", "error"}, woken : BOOLEAN]]
      BY DEF TypeOK
    <3>2. waiting'["app"] \in {waiting["app"], [waiting["app"] EXCEPT !.woken = TRUE]}
      BY <1>17 DEF RecvEnd, Callers
    <3> QED BY <3>1, <3>2 DEF Callers
  <2> QED BY <2>1, <2>2, EmptyFacts
<1>18. CASE Acception
  <2>1. UNCHANGED <<app, waiting>>
    BY <1>18 DEF Acception
  <2>2. PICK m \in ToServer :
          /\ Elems(to_server) = {m} \cup Elems(to_server')
          /\ requests' = <<>> \/ Elems(requests') \subseteq Elems(requests) \cup {m}
          /\ \/ UNCHANGED to_client
             \/ \E answer \in {"ok", "error"} : Answered(m.id, answer)
             \/ m.type = "Disconnect" /\ Answered(m.id, "disconnected")
    BY <1>18, AcceptionFacts
  <2>3. \A e \in Elems(requests') : e \in Elems(requests) \cup Elems(to_server)
    BY <2>2, EmptyFacts
  <2>4. m.type = "Disconnect" => app \notin Asking
    BY <2>2 DEF Asking
  <2>5. app \in Asking => \A e \in Elems(to_client') : e \in Elems(to_client) \/ e.type \in {"ok", "error"}
    BY <2>2, <2>4 DEF Answered, Message
  <2> QED BY <2>1, <2>2, <2>3, <2>5
<1>19. CASE CloseAllStream
  <2>1. UNCHANGED <<app, waiting, to_server, to_client>> /\ requests' = <<>>
    BY <1>19 DEF CloseAllStream
  <2> QED BY <2>1, EmptyFacts
<1>20. CASE DoMessage
  <2>1. UNCHANGED <<app, waiting, to_server>>
    BY <1>20 DEF DoMessage
  <2>2. PICK m \in ToStream :
          /\ Elems(requests) = {m} \cup Elems(requests')
          /\ UNCHANGED to_client \/ \E answer \in {"ok", "error"} : Answered(m.id, answer)
    BY <1>20, DoMessageFacts
  <2>3. \A e \in Elems(to_client') : e \in Elems(to_client) \/ e.type \in {"ok", "error"}
    BY <2>2 DEF Answered, Message
  <2> QED BY <2>1, <2>2, <2>3
<1>21. CASE PublishingFrame
  <2>1. UNCHANGED <<app, waiting, to_server, requests>>
    BY <1>21 DEF PublishingFrame
  <2>2. \A e \in Elems(to_client') : e \in Elems(to_client) \/ e.id = 0
    BY <1>21, PublishingFacts DEF Message
  <2> QED BY <2>1, <2>2 DEF Numbers
<1>22. CASE Break
  <2>1. UNCHANGED <<requests, app, waiting>> /\ to_server' = <<>> /\ to_client' = <<>>
    BY <1>22 DEF Break
  <2> QED BY <2>1, EmptyFacts
<1>23. CASE \/ CallStart \/ CallClose \/ StopPortSendings \/ (\E f \in Frames : UserRelease(f))
            \/ MonitorMessages \/ AddFrames \/ SendFrames \/ Arrive \/ UNCHANGED vars
  BY <1>23
     DEF CallStart, Call, Asking, CallClose, StopPortSendings, UserRelease, MonitorMessages,
         AddFrames, SendFrames, Arrive, vars
<1> QED BY <1>1, <1>2, <1>3, <1>4, <1>5, <1>6, <1>7, <1>8, <1>9, <1>10, <1>11, <1>12, <1>13, <1>14,
           <1>15, <1>16, <1>17, <1>18, <1>19, <1>20, <1>21, <1>22, <1>23
         DEF Next, AppStep, UserStep, MonitorStep, RecvStep, Finished


\* The tables.
LEMMA Tables ==
  /\ RequestOf["open"] = "Open" /\ RequestOf["start"] = "Start"
  /\ RequestOf["stop"] = "Stop" /\ RequestOf["close"] = "Close"
  /\ Before["open"] = "none" /\ Before["start"] = "ready"
  /\ Before["stop"] = "running" /\ Before["close"] = "ready"
  /\ Done["open"] = "ready" /\ Done["start"] = "running"
  /\ Done["stop"] = "ready" /\ Done["close"] = "none"
BY DEF RequestOf, Before, Done

\* The replies of the client's thread, while the connection is alive and none is
\* given up, are those of the server.
LEMMA AnsweredReply ==
  ASSUME TypeOK, Woken, Connection, Agree, NEW reply \in Replies, Reply("app", reply),
         app \in Asking, up', timeouts' = 0
  PROVE  /\ up /\ timeouts = 0 /\ OneRequest
         /\ reply \in {"ok", "error"} /\ server = After(reply)
         /\ \A m \in Elems(to_server) \cup Elems(requests) : m.type \notin Control
<1>1. "app" \in Callers
  BY DEF Callers
<1>2. timeouts \in Nat /\ timeouts' >= timeouts /\ UNCHANGED up
  <2>1. timeouts' >= timeouts /\ UNCHANGED connection_vars
    BY <1>1, ReplyFacts
  <2>2. timeouts \in 0 .. MaxFaults /\ MaxFaults \in Nat
    BY RemotePortAssumption DEF TypeOK
  <2>3. timeouts \in Nat
    BY <2>2
  <2>4. UNCHANGED up
    BY <2>1 DEF connection_vars
  <2> QED BY <2>1, <2>3, <2>4
<1>3. up /\ timeouts = 0
  BY <1>2
<1>4. ~waiting["app"].woken
  BY <1>1, <1>3 DEF Woken, Connection
<1>5. reply # None /\ waiting["app"].reply = reply
  BY <1>3, <1>4 DEF Reply
<1>6. reply \in {"ok", "error"}
  BY <1>5 DEF Replies, None
<1> QED BY <1>3, <1>5, <1>6 DEF Agree, AsAnswered


\* An answer to the application's request, or to another.
LEMMA AnsweredFacts ==
  ASSUME NEW id, NEW answer, up, Answered(id, answer)
  PROVE  \A e \in Elems(to_client') : e \in Elems(to_client) \/ (e.id = id /\ e.type = answer)
BY DEF Answered, Message

LEMMA AgreeAcception ==
  ASSUME TypeOK, Agree, Foreign, Connection, Acception, up', timeouts' = 0
  PROVE  OneRequest' /\ AsAnswered' /\ Between'
<1>1. UNCHANGED <<up, timeouts, app, c_state, waiting>>
  BY DEF Acception, messenger_vars, app_vars, count_vars
<1>2. OneRequest /\ AsAnswered /\ Between
  BY <1>1 DEF Agree
<1>3. PICK m \in ToServer :
        /\ up
        /\ Elems(to_server) = {m} \cup Elems(to_server')
        /\ OneControl(to_server) =>
             /\ OneControl(to_server')
             /\ m.type \in Control => \A e \in Elems(to_server') : e.type \notin Control
        /\ \/ /\ m.type = "Open" /\ UNCHANGED requests
              /\ \E answer \in {"ok", "error"} :
                   /\ server' = IF answer = "ok" THEN "ready" ELSE server
                   /\ Answered(m.id, answer)
           \/ /\ m.type = "Close" /\ requests' \in {<<>>, requests}
              /\ \E answer \in {"ok", "error"} :
                   /\ server' = IF answer = "ok" THEN "none" ELSE server
                   /\ Answered(m.id, answer)
           \/ m.type = "Disconnect" /\ UNCHANGED <<server, requests>>
           \/ /\ m.type \in {"Start", "Stop", "ReleaseFrame", "SendFrame"}
              /\ server = "none" /\ UNCHANGED <<server, requests>>
              /\ Answered(m.id, "error")
           \/ /\ m.type \in {"Start", "Stop", "ReleaseFrame", "SendFrame"}
              /\ UNCHANGED <<server, requests, to_client>>
           \/ /\ m.type \in {"Start", "Stop", "ReleaseFrame", "SendFrame"}
              /\ UNCHANGED <<server, to_client>>
              /\ Elems(requests') = Elems(requests) \cup {m}
              /\ OneControl(requests)
                     /\ (m.type \notin Control \/ \A e \in Elems(requests) : e.type \notin Control)
                   => OneControl(requests')
  BY AcceptionFacts
<1>4. /\ m \in Elems(to_server) /\ OneControl(to_server')
      /\ m.type \in Control =>
           /\ \A e \in Elems(to_server') : e.type \notin Control
           /\ \A e \in Elems(requests) : e.type \notin Control
  BY <1>2, <1>3 DEF OneRequest
<1>5. \A e \in Elems(to_server') : e \in Elems(to_server)
  BY <1>3
<1>6. CASE m.type = "Disconnect"
  <2>1. app = "join_recv"
    BY <1>4, <1>6 DEF Foreign
  <2>2. UNCHANGED requests
    BY <1>3, <1>6
  <2>3. OneRequest'
    BY <1>2, <1>4, <1>5, <2>2 DEF OneRequest
  <2> QED BY <1>1, <2>1, <2>3 DEF AsAnswered, Between, Asking
<1>7. CASE m.type \in {"Open", "Close"}
  <2>1. m.type \in Control
    BY <1>7 DEF Control
  <2>2. PICK answer \in {"ok", "error"} :
          /\ server' = IF answer # "ok" THEN server
                       ELSE IF m.type = "Open" THEN "ready" ELSE "none"
          /\ Answered(m.id, answer)
    BY <1>3, <1>7
  <2>3. Elems(requests') \subseteq Elems(requests) /\ OneControl(requests')
    BY <1>2, <1>3, <1>7, EmptyFacts DEF OneRequest
  <2>4. /\ \A e \in Elems(to_server') \cup Elems(requests') : e.type \notin Control
    BY <1>4, <2>1, <2>3
  <2>5. OneRequest'
    BY <1>4, <2>3, <2>4 DEF OneRequest
  <2>6. app \notin {"idle", "start_lock", "drain", "join", "disconnect"}
    BY <1>2, <1>4, <2>1 DEF Between
  <2>7. AsAnswered'
    <3> SUFFICES ASSUME app \in Asking PROVE AsAnswered'
      BY <1>1 DEF AsAnswered
    <3>1. /\ m.id = Id /\ m.type = RequestOf[app] /\ server = Before[app]
          /\ waiting["app"].reply = None /\ \A r \in Elems(to_client) : r.id # Id
      BY <1>2, <1>4, <2>1 DEF AsAnswered
    <3>2. server' = IF answer = "ok" THEN Done[app] ELSE Before[app]
      BY <1>7, <2>2, <3>1, Tables DEF Asking
    <3>3. \A e \in Elems(to_client') : e \in Elems(to_client) \/ e.type = answer
      BY <1>3, <2>2, AnsweredFacts
    <3>4. \A e \in Elems(to_client') : e.id = Id => server' = After(e.type)
      BY <3>1, <3>2, <3>3 DEF After
    <3> QED BY <1>1, <2>4, <3>1, <3>4 DEF AsAnswered, After, Id
  <2> QED BY <1>1, <2>5, <2>6, <2>7 DEF Between
<1>8. CASE m.type \in {"Start", "Stop", "ReleaseFrame", "SendFrame"} /\ UNCHANGED requests
           /\ server = "none" /\ UNCHANGED server /\ Answered(m.id, "error")
  <2>1. OneRequest'
    BY <1>2, <1>4, <1>5, <1>8 DEF OneRequest
  <2>2. Between'
    BY <1>1, <1>2, <1>5, <1>8 DEF Between
  <2>3. AsAnswered'
    <3> SUFFICES ASSUME app \in Asking PROVE AsAnswered'
      BY <1>1 DEF AsAnswered
    <3>1. m.type \notin Control
      <4> SUFFICES ASSUME m.type \in Control PROVE FALSE
        OBVIOUS
      <4>1. m.type = RequestOf[app] /\ server = Before[app]
        BY <1>2, <1>4 DEF AsAnswered
      <4> QED BY <1>8, <4>1, Tables DEF Asking, Control
    <3>2. m.id # Id
      BY <1>4, <3>1 DEF Foreign
    <3>3. \A e \in Elems(to_client') : e \in Elems(to_client) \/ e.id # Id
      BY <1>3, <1>8, <3>2, AnsweredFacts
    <3> QED BY <1>1, <1>2, <1>5, <1>8, <3>3 DEF AsAnswered, After, Id
  <2> QED BY <2>1, <2>2, <2>3
<1>9. CASE UNCHANGED <<server, requests, to_client>>
  <2>1. OneRequest'
    BY <1>2, <1>4, <1>5, <1>9 DEF OneRequest
  <2>2. Between'
    BY <1>1, <1>2, <1>5, <1>9 DEF Between
  <2>3. AsAnswered'
    BY <1>1, <1>2, <1>5, <1>9 DEF AsAnswered, After, Id
  <2> QED BY <2>1, <2>2, <2>3
<1>10. CASE /\ UNCHANGED <<server, to_client>> /\ Elems(requests') = Elems(requests) \cup {m}
            /\ OneControl(requests)
                   /\ (m.type \notin Control \/ \A e \in Elems(requests) : e.type \notin Control)
                 => OneControl(requests')
  <2>1. OneRequest'
    BY <1>2, <1>4, <1>5, <1>10 DEF OneRequest
  <2>2. Between'
    BY <1>1, <1>2, <1>4, <1>5, <1>10 DEF Between
  <2>3. AsAnswered'
    BY <1>1, <1>2, <1>4, <1>5, <1>10 DEF AsAnswered, After, Id
  <2> QED BY <2>1, <2>2, <2>3
<1> QED BY <1>3, <1>6, <1>7, <1>8, <1>9, <1>10

LEMMA AgreeDoMessage ==
  ASSUME TypeOK, Agree, Foreign, Connection, DoMessage, up', timeouts' = 0
  PROVE  OneRequest' /\ AsAnswered' /\ Between'
<1>1. UNCHANGED <<up, timeouts, app, c_state, waiting, to_server>>
  BY DEF DoMessage, messenger_vars, app_vars, count_vars
<1>2. OneRequest /\ AsAnswered /\ Between /\ up
  BY <1>1 DEF Agree
<1>3. PICK m \in ToStream :
        /\ Elems(requests) = {m} \cup Elems(requests')
        /\ OneControl(requests) =>
             /\ OneControl(requests')
             /\ m.type \in Control => \A e \in Elems(requests') : e.type \notin Control
        /\ \/ /\ m.type \in {"Start", "Stop"}
              /\ \E answer \in {"ok", "error"} :
                   /\ server' = IF answer # "ok" THEN server
                                ELSE IF m.type = "Start" THEN "running" ELSE "ready"
                   /\ Answered(m.id, answer)
           \/ /\ m.type \in {"ReleaseFrame", "SendFrame"} /\ UNCHANGED server
              /\ UNCHANGED to_client \/ Answered(m.id, "ok")
  <2>1. PICK m \in ToStream :
          /\ Elems(requests) = {m} \cup Elems(requests')
          /\ OneControl(requests) =>
               /\ OneControl(requests')
               /\ m.type \in Control => \A e \in Elems(requests') : e.type \notin Control
          /\ \/ /\ m.type = "Start"
                /\ \E answer \in {"ok", "error"} :
                     /\ server' = IF answer = "ok" THEN "running" ELSE server
                     /\ Answered(m.id, answer)
             \/ /\ m.type = "Stop"
                /\ \E answer \in {"ok", "error"} :
                     /\ server' = IF answer = "ok" THEN "ready" ELSE server
                     /\ Answered(m.id, answer)
             \/ /\ m.type \in {"ReleaseFrame", "SendFrame"} /\ UNCHANGED server
                /\ UNCHANGED to_client \/ Answered(m.id, "ok")
    BY DoMessageFacts
  <2> QED BY <2>1
<1>4. /\ m \in Elems(requests) /\ OneControl(requests')
      /\ m.type \in Control =>
           /\ \A e \in Elems(requests') : e.type \notin Control
           /\ \A e \in Elems(to_server) : e.type \notin Control
  BY <1>2, <1>3 DEF OneRequest
<1>5. \A e \in Elems(requests') : e \in Elems(requests)
  BY <1>3
<1>6. OneRequest'
  BY <1>1, <1>2, <1>4, <1>5 DEF OneRequest
<1>7. CASE m.type \in {"Start", "Stop"}
  <2>1. m.type \in Control
    BY <1>7 DEF Control
  <2>2. PICK answer \in {"ok", "error"} :
          /\ server' = IF answer # "ok" THEN server
                       ELSE IF m.type = "Start" THEN "running" ELSE "ready"
          /\ Answered(m.id, answer)
    BY <1>3, <1>7
  <2>3. \A e \in Elems(to_server') \cup Elems(requests') : e.type \notin Control
    BY <1>1, <1>4, <2>1
  <2>4. app \notin {"idle", "start_lock", "drain", "join", "disconnect"}
    BY <1>2, <1>4, <2>1 DEF Between
  <2>5. AsAnswered'
    <3> SUFFICES ASSUME app \in Asking PROVE AsAnswered'
      BY <1>1 DEF AsAnswered
    <3>1. /\ m.id = Id /\ m.type = RequestOf[app] /\ server = Before[app]
          /\ waiting["app"].reply = None /\ \A r \in Elems(to_client) : r.id # Id
      BY <1>2, <1>4, <2>1 DEF AsAnswered
    <3>2. server' = IF answer = "ok" THEN Done[app] ELSE Before[app]
      BY <1>7, <2>2, <3>1, Tables DEF Asking
    <3>3. \A e \in Elems(to_client') : e \in Elems(to_client) \/ e.type = answer
      BY <1>2, <2>2, AnsweredFacts
    <3>4. \A e \in Elems(to_client') : e.id = Id => server' = After(e.type)
      BY <3>1, <3>2, <3>3 DEF After
    <3> QED BY <1>1, <2>3, <3>1, <3>4 DEF AsAnswered, After, Id
  <2> QED BY <1>1, <1>6, <2>4, <2>5 DEF Between
<1>8. CASE m.type \in {"ReleaseFrame", "SendFrame"}
  <2>1. UNCHANGED server /\ (UNCHANGED to_client \/ Answered(m.id, "ok")) /\ m.type \notin Control
    BY <1>3, <1>8 DEF Control
  <2>2. Between'
    BY <1>1, <1>2, <1>5, <2>1 DEF Between
  <2>3. AsAnswered'
    <3> SUFFICES ASSUME app \in Asking PROVE AsAnswered'
      BY <1>1 DEF AsAnswered
    <3>1. m.id # Id
      BY <1>4, <2>1 DEF Foreign
    <3>2. \A e \in Elems(to_client') : e \in Elems(to_client) \/ e.id # Id
      BY <1>2, <2>1, <3>1, AnsweredFacts
    <3> QED BY <1>1, <1>2, <1>5, <2>1, <3>2 DEF AsAnswered, After, Id
  <2> QED BY <1>6, <2>2, <2>3
<1> QED BY <1>3, <1>7, <1>8

\* Agree is kept.
LEMMA AgreeStep ==
  ASSUME TypeOK, Agree, Woken, Numbers, Foreign, Connection, Places, Hands, [Next]_vars
  PROVE  Agree'
<1> USE DEF Id, connection_vars, messenger_vars, app_vars, user_vars, sending_vars, memory_vars,
        server_vars, count_vars
<1>n. /\ \A m \in Elems(to_server) \cup Elems(requests) \cup Elems(to_client) : m.id \in Nat
      /\ \A c \in Callers : waiting[c].id \in Nat
      /\ request_id \in Nat \ {0} /\ "app" \in Callers
  BY NumbersType DEF Callers
<1>1. CASE CallOpen
  <2> SUFFICES ASSUME timeouts' = 0 PROVE Agree'
    BY DEF Agree
  <2>1. /\ Elems(to_server') = {Message("Open", request_id, {})} /\ OneControl(to_server')
        /\ to_client = <<>> /\ requests = <<>> /\ UNCHANGED <<to_client, requests, server>>
    BY <1>1, CallOpenFacts DEF CallOpen
  <2>2. /\ Message("Open", request_id, {}).type = "Open"
        /\ Message("Open", request_id, {}).id = request_id
    BY DEF Message
  <2>3. Elems(to_client') = {} /\ Elems(requests') = {} /\ OneControl(requests')
    BY <2>1, EmptyFacts
  <2>4. server = "none" /\ app' = "open"
    BY <1>1 DEF CallOpen
  <2>5. Id' = request_id /\ waiting'["app"].reply = None
    <3>1. waiting' = [waiting EXCEPT !["app"] = [NotWaiting EXCEPT !.id = request_id]]
      BY <1>1 DEF CallOpen
    <3> QED BY <3>1 DEF NotWaiting, Callers, TypeOK
  <2>6. OneRequest'
    BY <2>1, <2>3 DEF OneRequest
  <2>7. AsAnswered'
    BY <2>1, <2>2, <2>3, <2>4, <2>5, Tables DEF AsAnswered
  <2>8. Between'
    BY <2>4 DEF Between
  <2> QED BY <2>6, <2>7, <2>8 DEF Agree
<1>2. CASE CallStart
  <2> SUFFICES ASSUME up', timeouts' = 0 PROVE Agree'
    BY DEF Agree
  <2>1. /\ UNCHANGED <<up, timeouts, c_state, to_server, to_client, requests, server>>
        /\ {app, app'} \subseteq {"idle", "start_lock", "drain", "join"}
    BY <1>2 DEF CallStart, Call, connection_vars, server_vars
  <2>2. OneRequest' /\ Between'
    BY <2>1 DEF Agree, OneRequest, Between
  <2>3. AsAnswered'
    BY <2>1 DEF AsAnswered, Asking
  <2> QED BY <2>2, <2>3 DEF Agree
<1>3. CASE CallStop
  <2> SUFFICES ASSUME up', timeouts' = 0 PROVE Agree'
    BY DEF Agree
  <2>1. UNCHANGED <<requests, server, timeouts>> /\ app = "idle" /\ c_state = "running"
    BY <1>3 DEF CallStop, Call, Places, server_vars, count_vars
  <2>2. CASE SendRequest("app", "Stop", {})
    <3>1. PICK m \in ToServer :
            m.type = "Stop" /\ m.id = request_id /\ Elems(to_server') = Elems(to_server) \cup {m}
      BY <2>2, AppRequestFacts DEF Control
    <3>2. /\ OneControl(to_server) /\ (\A e \in Elems(to_server) : e.type \notin Control)
               => OneControl(to_server')
          /\ Id' = request_id /\ waiting'["app"].reply = None /\ up /\ UNCHANGED to_client
      BY <2>2, AppRequestFacts DEF Control
    <3>3. app' = "stop"
      BY <1>3, <2>2 DEF CallStop, SendRequest, SendFails
    <3>4. /\ \A e \in Elems(to_server) \cup Elems(requests) : e.type \notin Control
          /\ OneControl(to_server) /\ OneControl(requests) /\ server = "running"
      BY <2>1, <3>2 DEF Agree, Between, OneRequest
    <3>5. \A r \in Elems(to_client') : r.id # Id'
      BY <1>n, <3>2 DEF Numbers
    <3>6. OneRequest'
      BY <2>1, <3>2, <3>4 DEF OneRequest
    <3>7. AsAnswered'
      BY <2>1, <3>1, <3>2, <3>3, <3>4, <3>5, Tables DEF AsAnswered
    <3>8. Between'
      BY <3>3 DEF Between
    <3> QED BY <3>6, <3>7, <3>8 DEF Agree
  <2>3. CASE ~SendRequest("app", "Stop", {})
    BY <1>3, <2>3 DEF CallStop, SendFails, connection_vars
  <2> QED BY <2>2, <2>3
<1>4. CASE CallClose
  <2> SUFFICES ASSUME up', timeouts' = 0 PROVE Agree'
    BY DEF Agree
  <2>1. /\ UNCHANGED <<up, timeouts, c_state, to_server, to_client, requests, server>>
        /\ {app, app'} \subseteq {"idle", "start_lock", "drain", "join"}
    BY <1>4 DEF CallClose, Call, connection_vars, server_vars
  <2>2. OneRequest' /\ Between'
    BY <2>1 DEF Agree, OneRequest, Between
  <2>3. AsAnswered'
    BY <2>1 DEF AsAnswered, Asking
  <2> QED BY <2>2, <2>3 DEF Agree
<1>5. ASSUME NEW reply \in Replies, OpenReply(reply) PROVE Agree'
  <2> SUFFICES ASSUME up', timeouts' = 0 PROVE Agree'
    BY DEF Agree
  <2>1. Reply("app", reply) /\ app = "open" /\ UNCHANGED <<requests, server>>
    BY <1>5 DEF OpenReply
  <2>2. /\ OneRequest /\ reply \in {"ok", "error"} /\ server = After(reply)
        /\ \A m \in Elems(to_server) \cup Elems(requests) : m.type \notin Control
    BY <2>1, AnsweredReply DEF Asking
  <2>3. UNCHANGED <<to_server, to_client>>
    BY <2>1, AppReplyFacts
  <2>4. server = IF reply = "ok" THEN Done["open"] ELSE Before["open"]
    BY <2>1, <2>2 DEF After
  <2>5. app' \in {"idle", "disconnect"} /\ (app' = "idle" => server = c_state')
    BY <1>5, <2>1, <2>2, <2>4, Tables DEF OpenReply
  <2>6. OneRequest' /\ Between'
    BY <2>1, <2>2, <2>3, <2>5 DEF OneRequest, Between
  <2>7. AsAnswered'
    BY <2>5 DEF AsAnswered, Asking
  <2> QED BY <2>6, <2>7 DEF Agree
<1>6. ASSUME NEW reply \in Replies, StartReply(reply) PROVE Agree'
  <2> SUFFICES ASSUME up', timeouts' = 0 PROVE Agree'
    BY DEF Agree
  <2>1. Reply("app", reply) /\ app = "start" /\ UNCHANGED <<requests, server>>
    BY <1>6 DEF StartReply
  <2>2. /\ OneRequest /\ reply \in {"ok", "error"} /\ server = After(reply)
        /\ \A m \in Elems(to_server) \cup Elems(requests) : m.type \notin Control
    BY <2>1, AnsweredReply DEF Asking
  <2>3. UNCHANGED <<to_server, to_client>>
    BY <2>1, AppReplyFacts
  <2>4. server = IF reply = "ok" THEN Done["start"] ELSE Before["start"]
    BY <2>1, <2>2 DEF After
  <2>5. app' \in {"idle", "disconnect"} /\ (app' = "idle" => server = c_state')
    BY <1>6, <2>1, <2>2, <2>4, Tables DEF StartReply, Places
  <2>6. OneRequest' /\ Between'
    BY <2>1, <2>2, <2>3, <2>5 DEF OneRequest, Between
  <2>7. AsAnswered'
    BY <2>5 DEF AsAnswered, Asking
  <2> QED BY <2>6, <2>7 DEF Agree
<1>7. ASSUME NEW reply \in Replies, StopReply(reply) PROVE Agree'
  <2> SUFFICES ASSUME up', timeouts' = 0 PROVE Agree'
    BY DEF Agree
  <2>1. Reply("app", reply) /\ app = "stop" /\ UNCHANGED <<requests, server>>
    BY <1>7 DEF StopReply
  <2>2. /\ OneRequest /\ reply \in {"ok", "error"} /\ server = After(reply)
        /\ \A m \in Elems(to_server) \cup Elems(requests) : m.type \notin Control
    BY <2>1, AnsweredReply DEF Asking
  <2>3. UNCHANGED <<to_server, to_client>>
    BY <2>1, AppReplyFacts
  <2>4. server = IF reply = "ok" THEN Done["stop"] ELSE Before["stop"]
    BY <2>1, <2>2 DEF After
  <2>5. app' \in {"idle", "disconnect"} /\ (app' = "idle" => server = c_state')
    BY <1>7, <2>1, <2>2, <2>4, Tables DEF StopReply, StopFailed, StopSucceeds, Succeeds, None, Places
  <2>6. OneRequest' /\ Between'
    BY <2>1, <2>2, <2>3, <2>5 DEF OneRequest, Between
  <2>7. AsAnswered'
    BY <2>5 DEF AsAnswered, Asking
  <2> QED BY <2>6, <2>7 DEF Agree
<1>8. ASSUME NEW reply \in Replies, CloseReply(reply) PROVE Agree'
  <2> SUFFICES ASSUME up', timeouts' = 0 PROVE Agree'
    BY DEF Agree
  <2>1. Reply("app", reply) /\ app = "close" /\ UNCHANGED <<requests, server>>
    BY <1>8 DEF CloseReply
  <2>2. /\ OneRequest /\ reply \in {"ok", "error"} /\ server = After(reply)
        /\ \A m \in Elems(to_server) \cup Elems(requests) : m.type \notin Control
    BY <2>1, AnsweredReply DEF Asking
  <2>3. UNCHANGED <<to_server, to_client>>
    BY <2>1, AppReplyFacts
  <2>4. server = IF reply = "ok" THEN Done["close"] ELSE Before["close"]
    BY <2>1, <2>2 DEF After
  <2>5. app' \in {"idle", "disconnect"} /\ (app' = "idle" => server = c_state')
    BY <1>8, <2>1, <2>2, <2>4, Tables DEF CloseReply, Succeeds, None, Places
  <2>6. OneRequest' /\ Between'
    BY <2>1, <2>2, <2>3, <2>5 DEF OneRequest, Between
  <2>7. AsAnswered'
    BY <2>5 DEF AsAnswered, Asking
  <2> QED BY <2>6, <2>7 DEF Agree
<1>9. CASE StartLock
  <2> SUFFICES ASSUME up', timeouts' = 0 PROVE Agree'
    BY DEF Agree
  <2>1. UNCHANGED <<requests, server, timeouts>> /\ app = "start_lock" /\ c_state = "ready"
    BY <1>9 DEF StartLock, Call, Places, server_vars, count_vars
  <2>2. CASE SendRequest("app", "Start", {})
    <3>1. PICK m \in ToServer :
            m.type = "Start" /\ m.id = request_id /\ Elems(to_server') = Elems(to_server) \cup {m}
      BY <2>2, AppRequestFacts DEF Control
    <3>2. /\ OneControl(to_server) /\ (\A e \in Elems(to_server) : e.type \notin Control)
               => OneControl(to_server')
          /\ Id' = request_id /\ waiting'["app"].reply = None /\ up /\ UNCHANGED to_client
      BY <2>2, AppRequestFacts DEF Control
    <3>3. app' = "start"
      BY <1>9, <2>2 DEF StartLock, SendRequest, SendFails
    <3>4. /\ \A e \in Elems(to_server) \cup Elems(requests) : e.type \notin Control
          /\ OneControl(to_server) /\ OneControl(requests) /\ server = "ready"
      BY <2>1, <3>2 DEF Agree, Between, OneRequest
    <3>5. \A r \in Elems(to_client') : r.id # Id'
      BY <1>n, <3>2 DEF Numbers
    <3>6. OneRequest'
      BY <2>1, <3>2, <3>4 DEF OneRequest
    <3>7. AsAnswered'
      BY <2>1, <3>1, <3>2, <3>3, <3>4, <3>5, Tables DEF AsAnswered
    <3>8. Between'
      BY <3>3 DEF Between
    <3> QED BY <3>6, <3>7, <3>8 DEF Agree
  <2>3. CASE ~SendRequest("app", "Start", {})
    <3>1. UNCHANGED <<up, to_server, to_client, c_state>> /\ app' = "idle"
      BY <1>9, <2>3 DEF StartLock, SendFails
    <3>2. OneRequest' /\ Between'
      BY <2>1, <3>1 DEF Agree, OneRequest, Between
    <3>3. AsAnswered'
      BY <3>1 DEF AsAnswered, Asking
    <3> QED BY <3>2, <3>3 DEF Agree
  <2> QED BY <2>2, <2>3
<1>10. CASE StopPortSendings
  <2> SUFFICES ASSUME up', timeouts' = 0 PROVE Agree'
    BY DEF Agree
  <2>1. /\ UNCHANGED <<up, timeouts, c_state, to_server, to_client, requests, server>>
        /\ {app, app'} \subseteq {"idle", "start_lock", "drain", "join"}
    BY <1>10 DEF StopPortSendings, connection_vars, server_vars, count_vars
  <2>2. OneRequest' /\ Between'
    BY <2>1 DEF Agree, OneRequest, Between
  <2>3. AsAnswered'
    BY <2>1 DEF AsAnswered, Asking
  <2> QED BY <2>2, <2>3 DEF Agree
<1>11. CASE CloseRequest
  <2> SUFFICES ASSUME up', timeouts' = 0 PROVE Agree'
    BY DEF Agree
  <2>1. UNCHANGED <<requests, server, timeouts>> /\ app = "join" /\ c_state = "ready"
    BY <1>11 DEF CloseRequest, Call, Places, server_vars, count_vars
  <2>2. CASE SendRequest("app", "Close", {})
    <3>1. PICK m \in ToServer :
            m.type = "Close" /\ m.id = request_id /\ Elems(to_server') = Elems(to_server) \cup {m}
      BY <2>2, AppRequestFacts DEF Control
    <3>2. /\ OneControl(to_server) /\ (\A e \in Elems(to_server) : e.type \notin Control)
               => OneControl(to_server')
          /\ Id' = request_id /\ waiting'["app"].reply = None /\ up /\ UNCHANGED to_client
      BY <2>2, AppRequestFacts DEF Control
    <3>3. app' = "close"
      BY <1>11, <2>2 DEF CloseRequest, SendRequest, SendFails
    <3>4. /\ \A e \in Elems(to_server) \cup Elems(requests) : e.type \notin Control
          /\ OneControl(to_server) /\ OneControl(requests) /\ server = "ready"
      BY <2>1, <3>2 DEF Agree, Between, OneRequest
    <3>5. \A r \in Elems(to_client') : r.id # Id'
      BY <1>n, <3>2 DEF Numbers
    <3>6. OneRequest'
      BY <2>1, <3>2, <3>4 DEF OneRequest
    <3>7. AsAnswered'
      BY <2>1, <3>1, <3>2, <3>3, <3>4, <3>5, Tables DEF AsAnswered
    <3>8. Between'
      BY <3>3 DEF Between
    <3> QED BY <3>6, <3>7, <3>8 DEF Agree
  <2>3. CASE ~SendRequest("app", "Close", {})
    BY <1>11, <2>3 DEF CloseRequest, SendFails, connection_vars
  <2> QED BY <2>2, <2>3
<1>12. CASE Disconnect
  <2> SUFFICES ASSUME up', timeouts' = 0 PROVE Agree'
    BY DEF Agree
  <2>1. /\ UNCHANGED <<requests, timeouts>> /\ up /\ app = "disconnect" /\ app' = "join_recv"
        /\ to_server' = Append(to_server, Message("Disconnect", request_id, {}))
    BY <1>12 DEF Disconnect, count_vars
  <2>2. /\ OneControl(to_server) /\ (\A e \in Elems(to_server) : e.type \notin Control)
             => OneControl(to_server')
    BY <2>1, AddedMessage DEF TypeOK, Control
  <2>3. /\ \A e \in Elems(to_server) \cup Elems(requests) : e.type \notin Control
        /\ OneControl(to_server) /\ OneControl(requests)
    BY <2>1 DEF Agree, Between, OneRequest
  <2>4. OneRequest'
    BY <2>1, <2>2, <2>3 DEF OneRequest
  <2>5. AsAnswered' /\ Between'
    BY <2>1 DEF AsAnswered, Between, Asking
  <2> QED BY <2>4, <2>5 DEF Agree
<1>13. CASE JoinRecv
  <2>1. ~up'
    BY <1>13 DEF JoinRecv, Connection, connection_vars
  <2> QED BY <2>1 DEF Agree
<1>14. CASE UserReleaseFrame
  <2> SUFFICES ASSUME up', timeouts' = 0 PROVE Agree'
    BY DEF Agree
  <2>1. UNCHANGED <<requests, server, timeouts, up, app, c_state, to_client>> /\ Id' = Id
        /\ waiting'["app"] = waiting["app"]
    BY <1>14, ReleaseRequestFacts
  <2>2. \/ UNCHANGED to_server
        \/ /\ OneControl(to_server) => OneControl(to_server')
           /\ \E m \in ToServer :
                m.type \notin Control /\ Elems(to_server') = Elems(to_server) \cup {m}
    BY <1>14, ReleaseRequestFacts DEF Control
  <2>3. OneRequest /\ AsAnswered /\ Between
    BY <2>1 DEF Agree
  <2>4. OneRequest'
    BY <2>1, <2>2, <2>3 DEF OneRequest
  <2>5. AsAnswered'
    BY <2>1, <2>2, <2>3 DEF AsAnswered, After
  <2>6. Between'
    BY <2>1, <2>2, <2>3 DEF Between
  <2> QED BY <2>4, <2>5, <2>6 DEF Agree
<1>15. ASSUME NEW reply \in Replies, UserReply(reply) PROVE Agree'
  <2> SUFFICES ASSUME up', timeouts' = 0 PROVE Agree'
    BY DEF Agree
  <2>1. UNCHANGED <<app, c_state, requests, server>> /\ Reply("user", reply)
    BY <1>15 DEF UserReply
  <2>2. /\ UNCHANGED <<up, to_server, to_client>> /\ waiting'["app"] = waiting["app"]
        /\ timeouts' >= timeouts
    BY <2>1, ReplyFacts DEF Callers, connection_vars
  <2>3. OneRequest /\ AsAnswered /\ Between
    BY <2>2 DEF Agree, TypeOK
  <2>4. OneRequest' /\ Between'
    BY <2>1, <2>2, <2>3 DEF OneRequest, Between
  <2>5. AsAnswered'
    BY <2>1, <2>2, <2>3 DEF AsAnswered, After
  <2> QED BY <2>4, <2>5 DEF Agree
<1>16. CASE ReleaseDropped
  <2> SUFFICES ASSUME up', timeouts' = 0 PROVE Agree'
    BY DEF Agree
  <2>1. UNCHANGED <<requests, server, timeouts, up, app, c_state, to_client>> /\ Id' = Id
        /\ waiting'["app"] = waiting["app"]
    BY <1>16, ReleaseRequestFacts
  <2>2. \/ UNCHANGED to_server
        \/ /\ OneControl(to_server) => OneControl(to_server')
           /\ \E m \in ToServer :
                m.type \notin Control /\ Elems(to_server') = Elems(to_server) \cup {m}
    BY <1>16, ReleaseRequestFacts DEF Control
  <2>3. OneRequest /\ AsAnswered /\ Between
    BY <2>1 DEF Agree
  <2>4. OneRequest'
    BY <2>1, <2>2, <2>3 DEF OneRequest
  <2>5. AsAnswered'
    BY <2>1, <2>2, <2>3 DEF AsAnswered, After
  <2>6. Between'
    BY <2>1, <2>2, <2>3 DEF Between
  <2> QED BY <2>4, <2>5, <2>6 DEF Agree
<1>17. ASSUME NEW reply \in Replies, MonitorReply(reply) PROVE Agree'
  <2> SUFFICES ASSUME up', timeouts' = 0 PROVE Agree'
    BY DEF Agree
  <2>1. UNCHANGED <<app, c_state, requests, server>> /\ Reply("monitor", reply)
    BY <1>17 DEF MonitorReply
  <2>2. /\ UNCHANGED <<up, to_server, to_client>> /\ waiting'["app"] = waiting["app"]
        /\ timeouts' >= timeouts
    BY <2>1, ReplyFacts DEF Callers, connection_vars
  <2>3. OneRequest /\ AsAnswered /\ Between
    BY <2>2 DEF Agree, TypeOK
  <2>4. OneRequest' /\ Between'
    BY <2>1, <2>2, <2>3 DEF OneRequest, Between
  <2>5. AsAnswered'
    BY <2>1, <2>2, <2>3 DEF AsAnswered, After
  <2> QED BY <2>4, <2>5 DEF Agree
<1>18. CASE FramesDone
  <2> SUFFICES ASSUME up', timeouts' = 0 PROVE Agree'
    BY DEF Agree
  <2>1. UNCHANGED <<requests, server, timeouts, up, app, c_state, to_client>> /\ Id' = Id
        /\ waiting'["app"] = waiting["app"]
    BY <1>18 DEF FramesDone, messenger_vars, app_vars, server_vars, count_vars
  <2>2. \/ UNCHANGED to_server
        \/ /\ OneControl(to_server) => OneControl(to_server')
           /\ \E m \in ToServer :
                m.type \notin Control /\ Elems(to_server') = Elems(to_server) \cup {m}
    <3>1. CASE UNCHANGED to_server
      BY <3>1
    <3>2. CASE to_server' = Append(to_server, Message("SendFrame", 0, message))
      <4>1. Elems(to_server') = Elems(to_server) \cup {Message("SendFrame", 0, message)}
            /\ (OneControl(to_server) => OneControl(to_server'))
        <5>1. message \in SUBSET Frames /\ "SendFrame" \notin Control /\ 0 \in Nat
          BY DEF TypeOK, Control
        <5> QED BY <3>2, <5>1, AddedMessage
      <4>2. /\ Message("SendFrame", 0, message).type \notin Control
            /\ Message("SendFrame", 0, message) \in ToServer
        BY DEF Message, Control, ToServer, Messages, TypeOK
      <4> QED BY <4>1, <4>2
    <3> QED BY <1>18, <3>1, <3>2 DEF FramesDone
  <2>3. OneRequest /\ AsAnswered /\ Between
    BY <2>1 DEF Agree
  <2>4. OneRequest'
    BY <2>1, <2>2, <2>3 DEF OneRequest
  <2>5. AsAnswered'
    BY <2>1, <2>2, <2>3 DEF AsAnswered, After
  <2>6. Between'
    BY <2>1, <2>2, <2>3 DEF Between
  <2> QED BY <2>4, <2>5, <2>6 DEF Agree
<1>19. CASE Recv
  <2> SUFFICES ASSUME up', timeouts' = 0 PROVE Agree'
    BY DEF Agree
  <2> DEFINE m == Head(to_client)
  <2>1. UNCHANGED <<up, timeouts, to_server, requests, server, app, c_state>>
    BY <1>19 DEF Recv, app_vars, server_vars, count_vars
  <2>2. Elems(to_client) = {m} \cup Elems(to_client')
    BY <1>19, ClientMessages DEF Recv
  <2>3. DealReply(m) \/ UNCHANGED waiting
    BY <1>19 DEF Recv, DealDisconnected, DealFrames
  <2> HIDE DEF m
  <2>4. OneRequest /\ AsAnswered /\ Between
    BY <2>1 DEF Agree
  <2>5. OneRequest' /\ Between'
    BY <2>1, <2>4 DEF OneRequest, Between
  <2>6. /\ Id' = Id
        /\ \/ waiting'["app"].reply = waiting["app"].reply
           \/ m.id = Id /\ waiting'["app"].reply = m.type
    BY <1>n, <2>3, DealReplyFacts
  <2>7. AsAnswered'
    BY <2>1, <2>2, <2>4, <2>6 DEF AsAnswered, After
  <2> QED BY <2>5, <2>7 DEF Agree
<1>20. CASE RecvEnd
  <2> QED BY <1>20 DEF RecvEnd, Agree
<1>21. CASE Acception
  BY <1>21, AgreeAcception DEF Agree
<1>22. CASE CloseAllStream
  <2> QED BY <1>22 DEF CloseAllStream, connection_vars, Agree
<1>23. CASE DoMessage
  BY <1>23, AgreeDoMessage DEF Agree
<1>24. CASE PublishingFrame
  <2> SUFFICES ASSUME up', timeouts' = 0 PROVE Agree'
    BY DEF Agree
  <2>1. UNCHANGED <<up, timeouts, app, c_state, waiting, to_server, requests, server>>
    BY <1>24 DEF PublishingFrame, messenger_vars, app_vars, count_vars
  <2>2. \A e \in Elems(to_client') : e \in Elems(to_client) \/ e.id = 0
    BY <1>24, PublishingFacts DEF Message
  <2>3. OneRequest /\ AsAnswered /\ Between
    BY <2>1 DEF Agree
  <2>4. app \in Asking => Id # 0
    BY DEF Numbers
  <2>5. OneRequest' /\ Between'
    BY <2>1, <2>3 DEF OneRequest, Between
  <2>6. AsAnswered'
    BY <2>1, <2>2, <2>3, <2>4 DEF AsAnswered, After
  <2> QED BY <2>5, <2>6 DEF Agree
<1>25. CASE Break
  <2> QED BY <1>25 DEF Break, Agree
<1>26. CASE \/ (\E f \in Frames : UserRelease(f)) \/ MonitorMessages \/ AddFrames \/ SendFrames
            \/ Arrive \/ UNCHANGED vars
  <2>1. UNCHANGED <<up, timeouts, app, c_state, waiting, to_server, to_client, requests, server>>
    BY <1>26 DEF UserRelease, MonitorMessages, AddFrames, SendFrames, Arrive, vars
  <2>2. Agree => (OneRequest /\ AsAnswered /\ Between => OneRequest' /\ AsAnswered' /\ Between')
    BY <2>1 DEF OneRequest, AsAnswered, Between, After
  <2> QED BY <2>1, <2>2 DEF Agree
<1> QED BY <1>1, <1>2, <1>3, <1>4, <1>5, <1>6, <1>7, <1>8, <1>9, <1>10, <1>11, <1>12, <1>13, <1>14,
           <1>15, <1>16, <1>17, <1>18, <1>19, <1>20, <1>21, <1>22, <1>23, <1>24, <1>25, <1>26
         DEF Next, AppStep, UserStep, MonitorStep, RecvStep, Finished

---------------------------------------------------------------------------
(***************************************************************************)
(* The theorems                                                            *)
(***************************************************************************)
PortInv ==
  /\ TypeOK /\ Woken /\ Connection /\ Places /\ Hands
  /\ Memory
  /\ FramesApart /\ Carried /\ NoStream /\ Opening /\ Closing /\ Served
  /\ FramesAccounted /\ Numbers /\ Foreign /\ Agree

\* A port that was never opened.
LEMMA InitPortInv == Init => PortInv
<1> SUFFICES ASSUME Init PROVE PortInv
  OBVIOUS
<1>1. /\ Elems(to_server) = {} /\ Elems(to_client) = {} /\ Elems(requests) = {}
      /\ FramesIn(to_server) = {} /\ FramesIn(to_client) = {} /\ FramesIn(messages) = {}
      /\ FramesIn(requests) = {}
      /\ Apart(to_client) /\ Apart(messages) /\ OneControl(to_server) /\ OneControl(requests)
  BY EmptyFacts DEF Init
<1>2. TypeOK
  <2>1. /\ to_server \in Seq(Messages(Control \cup {"ReleaseFrame", "SendFrame"}))
        /\ to_client \in Seq(Messages({"ok", "error", "disconnected", "SendFrame"}))
        /\ messages \in Seq(Messages({"SendFrame"}))
        /\ requests \in Seq(Messages({"Start", "Stop", "ReleaseFrame", "SendFrame"}))
    BY EmptyFacts DEF Init
  <2>2. waiting \in [Callers -> [id : Nat, reply : {None, "ok", "error"}, woken : BOOLEAN]]
    BY DEF Init, NotWaiting
  <2>3. frame \in [Frames -> {None, "arrived", "pending", "released"}]
    BY DEF Init
  <2>4. /\ calls \in 0 .. MaxCalls /\ timeouts \in 0 .. MaxFaults /\ breaks \in 0 .. MaxFaults
        /\ request_id \in Nat \ {0}
    BY RemotePortAssumption DEF Init
  <2>5. shared \in Sharing /\ Sharing \subseteq BOOLEAN
    BY RemotePortAssumption DEF Init
  <2> QED BY <2>1, <2>2, <2>3, <2>4, <2>5 DEF Init, TypeOK, ServerStates, None
<1>3. Woken /\ Connection /\ Places /\ Hands
  BY DEF Init, NotWaiting, Woken, Connection, Places, Hands, None
<1>4. Memory
  BY DEF Init, Memory, MappedWhileHeld, Added, None
<1>5. FramesApart /\ Carried
  BY <1>1 DEF Init, FramesApart, Carried, Sent, Taken, Asked
<1>6. NoStream /\ Opening /\ Closing /\ Served /\ FramesAccounted
  BY <1>1 DEF Init, NoStream, Opening, Closing, Served, FramesAccounted
<1>7. Numbers /\ Foreign /\ Agree
  BY <1>1 DEF Init, NotWaiting, Callers, Numbers, Asking, Id, Foreign, Agree
<1> QED BY <1>2, <1>3, <1>4, <1>5, <1>6, <1>7 DEF PortInv

\* Every step of a client thread, of a server thread or of the connection.
LEMMA NextPortInv == PortInv /\ [Next]_vars => PortInv'
<1> SUFFICES ASSUME PortInv, [Next]_vars PROVE PortInv'
  OBVIOUS
<1>1. /\ TypeOK /\ Woken /\ Connection /\ Places /\ Hands /\ Memory
      /\ FramesApart /\ Carried /\ NoStream /\ Opening /\ Closing /\ Served
      /\ FramesAccounted /\ Numbers /\ Foreign /\ Agree
  BY DEF PortInv
<1>2. user_pc = "idle" <=> user = 0
  BY <1>1 DEF Hands
<1>3. TypeOK'
  BY <1>1, <1>2, TypeStep
<1>4. Woken' /\ Connection' /\ Places' /\ Hands'
  BY <1>1, WokenStep, ConnectionStep, PlacesStep, HandsStep
<1>5. Memory'
  BY <1>1, MemoryStep
<1>6. FramesApart' /\ Carried'
  BY <1>1, FramesApartStep, CarriedStep
<1>7. NoStream' /\ Closing' /\ Served' /\ Opening'
  BY <1>1, NoStreamStep, ClosingStep, ServedStep, OpeningStep
<1>8. FramesAccounted'
  BY <1>1, AccountedStep
<1>9. Numbers' /\ Foreign'
  BY <1>1, NumbersStep, ForeignStep
<1>10. Agree'
  BY <1>1, AgreeStep
<1> QED BY <1>3, <1>4, <1>5, <1>6, <1>7, <1>8, <1>9, <1>10 DEF PortInv

(***************************************************************************)
(* The inductive invariant: what the threads of the client, the messages   *)
(* under way and the threads of the server know about each other.          *)
(***************************************************************************)
THEOREM SpecPortInv == Spec => []PortInv
BY InitPortInv, NextPortInv, PTL DEF Spec

(***************************************************************************)
(* No frame that the client's stream, its user or the port sending thread  *)
(* has is ever in memory that was unmapped: not by a Stop, a Start that    *)
(* fails, a restart, a Close, nor by a lost connection.                    *)
(***************************************************************************)
THEOREM SpecMappedWhileHeld == Spec => []MappedWhileHeld
<1>1. PortInv => MappedWhileHeld
  BY DEF PortInv, Memory
<1> QED BY <1>1, SpecPortInv, PTL

(***************************************************************************)
(* However calls, refusals, frames and replies interleave, between calls   *)
(* client and server agree about the state of the stream, as long as the   *)
(* connection is alive and no reply was given up.                          *)
(***************************************************************************)
THEOREM SpecStatesAgree == Spec => []StatesAgree
<1>1. PortInv => StatesAgree
  BY DEF PortInv, Agree, Between, StatesAgree
<1> QED BY <1>1, SpecPortInv, PTL

(***************************************************************************)
(* While the connection is alive no frame that the server waits for is     *)
(* forgotten by everybody, and no frame that the client has or expects is  *)
(* taken back: every frame message, release and reply, in any order.       *)
(***************************************************************************)
THEOREM SpecFramesAccounted == Spec => []FramesAccounted
<1>1. PortInv => FramesAccounted
  BY DEF PortInv
<1> QED BY <1>1, SpecPortInv, PTL

=============================================================================
