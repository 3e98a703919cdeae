----------------------------- MODULE RemotePort -----------------------------
(***************************************************************************)
(* One port of the client component and the stream it opens on a server:   *)
(* ClientComponent, ClientMessenger and PortFrameManager on one side,      *)
(* ClientAdapter and StreamAdapter on the other, the connection between.   *)
(*                                                                         *)
(* Client threads: the application that opens, starts, stops and closes    *)
(* the stream ("app"), the one that releases frames ("user"), the port     *)
(* sending thread ("monitor") and the receiving thread of the messenger.   *)
(* Server threads: the one that receives from the client, the worker of    *)
(* the stream adapter and the one of the frame callback.                   *)
(*                                                                         *)
(* The threading is "parallel", a messenger for each port, and there is no *)
(* secondary connection.  The streams of both cores are environment: the   *)
(* client's may drop or keep any frame, the server's may refuse a call.    *)
(***************************************************************************)
EXTENDS Naturals, Sequences, FiniteSets

CONSTANTS
  Sharing,      \* whether frames may be in shared memory, or may be copied
  Refused,      \* the requests that the stream of the server may refuse, and
                \* "Monitor", that its stream adapter may stay without threads
  MaxFrames,    \* bound: frames of the server's stream
  MaxCalls,     \* bound: calls of the application
  MaxFaults     \* bound: replies not awaited and losses of a connection

Requests == {"Open", "Start", "Stop", "Close", "ReleaseFrame", "Disconnect"}

ASSUME RemotePortAssumption ==
  /\ Sharing \subseteq BOOLEAN
  /\ Refused \subseteq Requests \cup {"Monitor"}
  /\ MaxFrames \in Nat
  /\ MaxCalls \in Nat
  /\ MaxFaults \in Nat

VARIABLES
  shared,        \* whether the frames of this behaviour are in shared memory
  up,            \* whether the connection is alive, and the messages under
  to_server,     \* way in it
  to_client,
  is_connected,  \* the messenger's view of it
  recv,          \* where the receiving thread is: "none", "run" or "ended"
  waiting,       \* waiting[c]: the waiting command of thread c
  request_id,
  app,           \* where the application's call is
  c_state,       \* the state of the client's stream
  taking,        \* whether the port sends frames to the stream (streams_started_)
  held,          \* frames the client's stream or its user has
  user,          \* the frame being released, or 0
  user_pc,
  sendings,      \* whether the port sendings exist
  messages,      \* and the messages they hold
  monitor,       \* where the port sending thread is
  message,       \* the frames of the message it deals with
  batch,         \* those not sent or released yet
  component,     \* who locked the component
  fm,            \* the entry of frame_manager_: "none", "running" or "stopped"
  fm_frames,     \* and its frames
  mapped,        \* whether the allocator of the port is open
  adapter,       \* whether the server has an adapter for the client
  server,        \* the stream of the server
  requests,      \* the messages of its stream adapter
  worker,        \* its worker: "run", or "none", "barred" if end_flag_ is set too
  frame,         \* frame[f]: where frame f of the server is
  calls,
  timeouts,
  breaks

connection_vars == <<shared, up, to_server, to_client>>
messenger_vars  == <<is_connected, recv, waiting, request_id>>
app_vars        == <<app, c_state, taking>>
user_vars       == <<held, user, user_pc>>
sending_vars    == <<sendings, messages, monitor, message, batch, component>>
memory_vars     == <<fm, fm_frames, mapped>>
server_vars     == <<adapter, server, requests, worker, frame>>
count_vars      == <<calls, timeouts, breaks>>
vars == <<connection_vars, messenger_vars, app_vars, user_vars, sending_vars, memory_vars,
          server_vars, count_vars>>

Frames == 1 .. MaxFrames

None == "none"

Callers == {"app", "user", "monitor"}

NotWaiting == [id |-> 0, reply |-> None, woken |-> FALSE]

ServerStates == {"none", "ready", "running", "leaked"}

Control == {"Open", "Start", "Stop", "Close", "Disconnect"}

Messages(types) == [type : types, id : Nat, frames : SUBSET Frames]

\* The state of both sides and of the connection.
TypeOK ==
  /\ shared \in Sharing /\ up \in BOOLEAN /\ is_connected \in BOOLEAN /\ taking \in BOOLEAN
  /\ sendings \in BOOLEAN /\ mapped \in BOOLEAN /\ adapter \in BOOLEAN
  /\ recv \in {"none", "run", "ended"}
  /\ to_server \in Seq(Messages(Control \cup {"ReleaseFrame", "SendFrame"}))
  /\ to_client \in Seq(Messages({"ok", "error", "disconnected", "SendFrame"}))
  /\ waiting \in [Callers -> [id : Nat, reply : {None, "ok", "error"}, woken : BOOLEAN]]
  /\ request_id \in Nat \ {0}
  /\ app \in {"idle", "open", "start_lock", "start", "stop", "drain", "join", "close",
              "disconnect", "join_recv"}
  /\ c_state \in {"closed", "ready", "running"}
  /\ held \subseteq Frames /\ fm_frames \subseteq Frames
  /\ message \subseteq Frames /\ batch \subseteq Frames
  /\ user \in Frames \cup {0}
  /\ user_pc \in {"idle", "release", "wait"}
  /\ messages \in Seq(Messages({"SendFrame"}))
  /\ monitor \in {None, "loop", "lock", "send", "release", "wait", "reply", "ended"}
  /\ component \in {None, "app", "monitor"}
  /\ fm \in {None, "running", "stopped"}
  /\ server \in ServerStates /\ worker \in {"run", "none", "barred"}
  /\ requests \in Seq(Messages({"Start", "Stop", "ReleaseFrame", "SendFrame"}))
  /\ frame \in [Frames -> {None, "arrived", "pending", "released"}]
  /\ calls \in 0 .. MaxCalls /\ timeouts \in 0 .. MaxFaults /\ breaks \in 0 .. MaxFaults

Init ==
  /\ shared \in Sharing
  /\ up = FALSE /\ to_server = <<>> /\ to_client = <<>>
  /\ is_connected = FALSE /\ recv = "none" /\ request_id = 1
  /\ waiting = [c \in Callers |-> NotWaiting]
  /\ app = "idle" /\ c_state = "closed" /\ taking = FALSE
  /\ held = {} /\ user = 0 /\ user_pc = "idle"
  /\ sendings = FALSE /\ messages = <<>> /\ monitor = None
  /\ message = {} /\ batch = {} /\ component = None
  /\ fm = None /\ fm_frames = {} /\ mapped = FALSE
  /\ adapter = FALSE /\ server = "none" /\ requests = <<>> /\ worker = "none"
  /\ frame = [f \in Frames |-> None]
  /\ calls = 0 /\ timeouts = 0 /\ breaks = 0

---------------------------------------------------------------------------
(***************************************************************************)
(* ClientMessenger                                                         *)
(***************************************************************************)
Message(type, id, frames) == [type |-> type, id |-> id, frames |-> frames]

\* SendCommandRequest; a request sent just before a Break is lost without an error.
SendRequest(c, type, frames) ==
  /\ up
  /\ to_server' = Append(to_server, Message(type, request_id, frames))
  /\ waiting' = [waiting EXCEPT ![c] = [NotWaiting EXCEPT !.id = request_id]]
  /\ request_id' = request_id + 1
  /\ UNCHANGED <<shared, up, to_client, is_connected, recv>>

SendFails == ~up /\ UNCHANGED <<connection_vars, messenger_vars>>

\* WaitCommandReply returns: with the reply, or without one.
Reply(c, reply) ==
  /\ waiting[c].id # 0
  /\ \/ waiting[c].reply = reply /\ reply # None /\ UNCHANGED timeouts
     \/ /\ reply = None
        /\ waiting[c].reply = None
        /\ \/ waiting[c].woken /\ UNCHANGED timeouts
           \/ ~waiting[c].woken /\ timeouts + breaks < MaxFaults /\ timeouts' = timeouts + 1
  /\ waiting' = [waiting EXCEPT ![c] = NotWaiting]
  /\ UNCHANGED <<connection_vars, is_connected, recv, request_id, calls, breaks>>

\* Stop and Close take a lost connection for a success.
Succeeds(reply) == reply = "ok" \/ (reply = None /\ ~is_connected)

\* DealMessage; a reply nobody waits for is dropped, and so is a frame of a
\* port without port sendings (PushPortSendingsMessage).
DealReply(m) ==
  /\ m.type \in {"ok", "error"}
  /\ waiting' = [c \in Callers |->
       IF waiting[c].id = m.id THEN [waiting[c] EXCEPT !.reply = m.type] ELSE waiting[c]]
  /\ UNCHANGED <<is_connected, messages>>

DealDisconnected(m) ==
  /\ m.type = "disconnected"
  /\ is_connected' = FALSE
  /\ UNCHANGED <<waiting, messages>>

DealFrames(m) ==
  /\ m.type = "SendFrame"
  /\ messages' = IF sendings THEN Append(messages, m) ELSE messages
  /\ UNCHANGED <<is_connected, waiting>>

Recv ==
  /\ recv = "run"
  /\ is_connected
  /\ to_client # <<>>
  /\ to_client' = Tail(to_client)
  /\ LET m == Head(to_client) IN DealReply(m) \/ DealDisconnected(m) \/ DealFrames(m)
  /\ UNCHANGED <<shared, up, to_server, recv, request_id, app_vars, user_vars, sendings, monitor, message,
                 batch, component, memory_vars, server_vars, count_vars>>

\* Mutant: the threads waiting for a reply are not woken.
RecvEndQuietly ==
  /\ recv = "run"
  /\ ~is_connected \/ ~up
  /\ is_connected' = FALSE
  /\ up' = FALSE /\ to_server' = <<>> /\ to_client' = <<>>
  /\ recv' = "ended"
  /\ UNCHANGED <<shared, waiting, request_id, app_vars, user_vars, sending_vars, memory_vars, server_vars,
                 count_vars>>

\* The receiving thread ends after a disconnection, wanted or not.
RecvEnd ==
  /\ recv = "run"
  /\ ~is_connected \/ ~up
  /\ is_connected' = FALSE
  /\ up' = FALSE /\ to_server' = <<>> /\ to_client' = <<>>
  /\ recv' = "ended"
  /\ waiting' = [c \in Callers |->
       IF waiting[c].id # 0 THEN [waiting[c] EXCEPT !.woken = TRUE] ELSE waiting[c]]
  /\ UNCHANGED <<shared, request_id, app_vars, user_vars, sending_vars, memory_vars, server_vars,
                 count_vars>>

\* The connection is lost with everything under way.
Break ==
  /\ up
  /\ timeouts + breaks < MaxFaults
  /\ breaks' = breaks + 1
  /\ up' = FALSE /\ to_server' = <<>> /\ to_client' = <<>>
  /\ UNCHANGED <<shared, messenger_vars, app_vars, user_vars, sending_vars, memory_vars, server_vars,
                 calls, timeouts>>

---------------------------------------------------------------------------
(***************************************************************************)
(* PortFrameManager and AllocateManager                                    *)
(***************************************************************************)
\* Mutant: the mapping is closed without asking for frames.
CloseEntryAtOnce(frames, state) ==
  IF state = "stopped"
  THEN fm' = None /\ fm_frames' = {} /\ mapped' = FALSE
  ELSE fm' = state /\ fm_frames' = frames /\ UNCHANGED mapped

\* The entry of a stopped port without frames is erased; OnReleaseAllFrames.
CloseEntry(frames, state) ==
  IF state = "stopped" /\ frames = {}
  THEN fm' = None /\ fm_frames' = {} /\ mapped' = FALSE
  ELSE fm' = state /\ fm_frames' = frames /\ UNCHANGED mapped

StopFrames ==
  IF fm = None THEN UNCHANGED memory_vars ELSE CloseEntry(fm_frames, "stopped")

\* Unmapping and RemoveFrame; a frame that was never added has no memory.
RemoveFrame(f) ==
  IF fm = None THEN UNCHANGED memory_vars ELSE CloseEntry(fm_frames \ {f}, fm)

---------------------------------------------------------------------------
(***************************************************************************)
(* OpenPort, StartPort, StopPort and ClosePort                             *)
(***************************************************************************)
Call ==
  /\ app = "idle"
  /\ calls < MaxCalls
  /\ calls' = calls + 1
  /\ UNCHANGED <<timeouts, breaks>>

\* ClientMessenger::Start; Connect may fail, and then nothing is left of it.
\* The next connection comes after the server has cleaned up.
CallOpen ==
  /\ Call
  /\ c_state = "closed"
  /\ ~adapter /\ server = "none"
  /\ up' = TRUE /\ is_connected' = TRUE /\ recv' = "run"
  /\ adapter' = TRUE
  /\ to_server' = <<Message("Open", request_id, {})>>
  /\ waiting' = [waiting EXCEPT !["app"] = [NotWaiting EXCEPT !.id = request_id]]
  /\ request_id' = request_id + 1
  /\ app' = "open"
  /\ UNCHANGED <<shared, to_client, c_state, taking, user_vars, sending_vars, memory_vars, server, requests,
                 worker, frame>>

\* The properties or the port sendings of an opened port may fail as well; what
\* is there by then goes again.
OpenReply(reply) ==
  /\ app = "open"
  /\ Reply("app", reply)
  /\ \/ /\ reply = "ok"
        /\ app' = "idle" /\ c_state' = "ready"
        /\ sendings' = TRUE /\ monitor' = "loop"
     \/ app' = "disconnect" /\ UNCHANGED <<c_state, sendings, monitor>>
  /\ UNCHANGED <<taking, user_vars, messages, message, batch, component, memory_vars, server_vars>>

\* The port refuses while frames of it are in use.
CallStart ==
  /\ Call
  /\ c_state = "ready"
  /\ held = {}
  /\ taking' = TRUE
  /\ app' = "start_lock"
  /\ UNCHANGED <<connection_vars, messenger_vars, c_state, user_vars, sending_vars, memory_vars,
                 server_vars>>

\* AllocateManager::Open and PortFrameManager::Start fail on an open entry.
StartLock ==
  /\ app = "start_lock"
  /\ component = None
  /\ \/ /\ mapped \/ fm # None \/ ~up
        /\ IF mapped \/ fm # None THEN UNCHANGED <<connection_vars, messenger_vars>> ELSE SendFails
        /\ taking' = FALSE
        /\ app' = "idle"
        /\ UNCHANGED <<component, memory_vars>>
     \/ /\ ~mapped /\ fm = None
        /\ SendRequest("app", "Start", {})
        /\ mapped' = TRUE /\ fm' = "running" /\ UNCHANGED fm_frames
        /\ component' = "app"
        /\ app' = "start"
        /\ UNCHANGED taking
  /\ UNCHANGED <<c_state, user_vars, sendings, messages, monitor, message, batch, server_vars,
                 count_vars>>

StartReply(reply) ==
  /\ app = "start"
  /\ Reply("app", reply)
  /\ IF reply = "ok"
     THEN c_state' = "running" /\ UNCHANGED <<taking, memory_vars>>
     ELSE taking' = FALSE /\ StopFrames /\ UNCHANGED c_state
  /\ component' = None
  /\ app' = "idle"
  /\ UNCHANGED <<user_vars, sendings, messages, monitor, message, batch, server_vars>>

StopSucceeds ==
  /\ StopFrames
  /\ c_state' = "ready"
  /\ taking' = FALSE
  /\ app' = "idle"

StopFailed ==
  /\ taking' = TRUE
  /\ app' = "idle"
  /\ UNCHANGED <<c_state, memory_vars>>

\* The port takes the stream away before it asks the component.
CallStop ==
  /\ Call
  /\ c_state = "running"
  /\ \/ /\ SendRequest("app", "Stop", {})
        /\ taking' = FALSE
        /\ app' = "stop"
        /\ UNCHANGED <<c_state, memory_vars>>
     \/ SendFails /\ (IF is_connected THEN StopFailed ELSE StopSucceeds)
  /\ UNCHANGED <<user_vars, sending_vars, server_vars>>

\* Mutant: an error of the server is taken for a success.
StopReplyUnread(reply) ==
  /\ app = "stop"
  /\ Reply("app", reply)
  /\ IF reply # None \/ ~is_connected THEN StopSucceeds ELSE StopFailed
  /\ UNCHANGED <<user_vars, sending_vars, server_vars>>

StopReply(reply) ==
  /\ app = "stop"
  /\ Reply("app", reply)
  /\ IF Succeeds(reply) THEN StopSucceeds ELSE StopFailed
  /\ UNCHANGED <<user_vars, sending_vars, server_vars>>

\* Close of a stopped stream; the stream releases its frames first.
CallClose ==
  /\ Call
  /\ c_state = "ready"
  /\ app' = "drain"
  /\ UNCHANGED <<connection_vars, messenger_vars, c_state, taking, user_vars, sending_vars,
                 memory_vars, server_vars>>

\* StopPortSendings: the elements leave the map and the thread is told to end.
StopPortSendings ==
  /\ app = "drain"
  /\ held = {} /\ user_pc = "idle"
  /\ sendings' = FALSE
  /\ app' = "join"
  /\ UNCHANGED <<connection_vars, messenger_vars, c_state, taking, user_vars, messages, monitor,
                 message, batch, component, memory_vars, server_vars, count_vars>>

\* After the join: the request, unless the connection is gone.
CloseRequest ==
  /\ app = "join"
  /\ monitor \in {None, "ended"}
  /\ monitor' = None
  /\ \/ SendRequest("app", "Close", {}) /\ app' = "close"
     \/ SendFails /\ app' = IF is_connected THEN "idle" ELSE "disconnect"
  /\ UNCHANGED <<c_state, taking, user_vars, sendings, messages, message, batch, component,
                 memory_vars, server_vars, count_vars>>

CloseReply(reply) ==
  /\ app = "close"
  /\ Reply("app", reply)
  /\ app' = IF Succeeds(reply) THEN "disconnect" ELSE "idle"
  /\ UNCHANGED <<c_state, taking, user_vars, sending_vars, memory_vars, server_vars>>

\* RemoveMessenger: ClientMessenger::Stop waits for its thread without a limit.
Disconnect ==
  /\ app = "disconnect"
  /\ app' = "join_recv"
  /\ \/ /\ up
        /\ to_server' = Append(to_server, Message("Disconnect", request_id, {}))
        /\ request_id' = request_id + 1
        /\ UNCHANGED is_connected
     \/ ~up /\ is_connected' = FALSE /\ UNCHANGED <<to_server, request_id>>
  /\ UNCHANGED <<shared, up, to_client, recv, waiting, c_state, taking, user_vars, sending_vars,
                 memory_vars, server_vars, count_vars>>

\* The messenger is deleted, and ClosePort closes the mapping.
JoinRecv ==
  /\ app = "join_recv"
  /\ recv = "ended"
  /\ recv' = "none"
  /\ waiting' = [c \in Callers |-> NotWaiting]
  /\ c_state' = "closed"
  /\ mapped' = FALSE
  /\ app' = "idle"
  /\ UNCHANGED <<connection_vars, is_connected, request_id, taking, user_vars, sending_vars, fm,
                 fm_frames, server_vars, count_vars>>

---------------------------------------------------------------------------
(***************************************************************************)
(* ReleasePortFrame by the user, and the port sending thread               *)
(***************************************************************************)
\* The frame leaves sent_frames_ before the component is called.
UserRelease(f) ==
  /\ user_pc = "idle"
  /\ f \in held
  /\ held' = held \ {f}
  /\ user' = f
  /\ user_pc' = "release"
  /\ UNCHANGED <<connection_vars, messenger_vars, app_vars, sending_vars, memory_vars, server_vars,
                 count_vars>>

UserReleaseFrame ==
  /\ user_pc = "release"
  /\ RemoveFrame(user)
  /\ IF shared /\ up
     THEN SendRequest("user", "ReleaseFrame", {user}) /\ user_pc' = "wait" /\ UNCHANGED user
     ELSE user_pc' = "idle" /\ user' = 0 /\ UNCHANGED <<connection_vars, messenger_vars>>
  /\ UNCHANGED <<held, app_vars, sending_vars, server_vars, count_vars>>

UserReply(reply) ==
  /\ user_pc = "wait"
  /\ Reply("user", reply)
  /\ user_pc' = "idle" /\ user' = 0
  /\ UNCHANGED <<held, app_vars, sending_vars, memory_vars, server_vars>>

\* The next message, or the end; messages left are dropped.
MonitorMessages ==
  /\ monitor = "loop"
  /\ \/ /\ ~sendings
        /\ monitor' = "ended" /\ messages' = <<>>
        /\ UNCHANGED <<message, batch>>
     \/ /\ sendings /\ messages # <<>>
        /\ monitor' = "lock"
        /\ messages' = Tail(messages)
        /\ message' = Head(messages).frames /\ batch' = Head(messages).frames
  /\ UNCHANGED <<connection_vars, messenger_vars, app_vars, user_vars, sendings, component,
                 memory_vars, server_vars, count_vars>>

\* Mutant: the frames of a stopped port are forgotten.
AddFramesForgetting ==
  /\ monitor = "lock"
  /\ component = None
  /\ component' = "monitor"
  /\ IF fm # None /\ mapped
     THEN fm_frames' = fm_frames \cup message /\ monitor' = "send" /\ UNCHANGED batch
     ELSE monitor' = "release" /\ batch' = {} /\ UNCHANGED fm_frames
  /\ UNCHANGED <<connection_vars, messenger_vars, app_vars, user_vars, sendings, messages, message,
                 fm, mapped, server_vars, count_vars>>

\* The first half of ArrivedFrame: frames of a port that is stopped and empty
\* are released at once.
AddFrames ==
  /\ monitor = "lock"
  /\ component = None
  /\ component' = "monitor"
  /\ IF fm # None /\ mapped
     THEN fm_frames' = fm_frames \cup message /\ monitor' = "send"
     ELSE monitor' = "release" /\ UNCHANGED fm_frames
  /\ UNCHANGED <<connection_vars, messenger_vars, app_vars, user_vars, sendings, messages, message,
                 batch, fm, mapped, server_vars, count_vars>>

\* ComponentPort::SendFrames; the stream may drop any frame, without a stream
\* all are dropped.
SendFrames ==
  /\ monitor = "send"
  /\ \E dropped \in SUBSET batch :
       /\ taking \/ dropped = batch
       /\ held' = held \cup (batch \ dropped)
       /\ batch' = dropped
  /\ monitor' = "release"
  /\ UNCHANGED <<connection_vars, messenger_vars, app_vars, user, user_pc, sendings, messages,
                 message, component, memory_vars, server_vars, count_vars>>

\* ReleaseFrames, one after the other
ReleaseDropped ==
  /\ monitor = "release"
  /\ \E f \in batch :
       /\ \A g \in batch : f <= g
       /\ RemoveFrame(f)
       /\ batch' = batch \ {f}
       /\ IF shared /\ up
          THEN SendRequest("monitor", "ReleaseFrame", {f}) /\ monitor' = "wait"
          ELSE UNCHANGED <<monitor, connection_vars, messenger_vars>>
  /\ UNCHANGED <<app_vars, user_vars, sendings, messages, message, component, server_vars,
                 count_vars>>

MonitorReply(reply) ==
  /\ monitor = "wait"
  /\ Reply("monitor", reply)
  /\ monitor' = "release"
  /\ UNCHANGED <<app_vars, user_vars, sendings, messages, message, batch, component, memory_vars,
                 server_vars>>

\* The end of ArrivedFrame: copied frames need no release, the reply does it.
FramesDone ==
  /\ monitor = "release"
  /\ batch = {}
  /\ to_server' = IF ~shared /\ up THEN Append(to_server, Message("SendFrame", 0, message))
                  ELSE to_server
  /\ component' = None
  /\ message' = {}
  /\ monitor' = "loop"
  /\ UNCHANGED <<shared, up, to_client, messenger_vars, app_vars, user_vars, sendings, messages, batch,
                 memory_vars, server_vars, count_vars>>

---------------------------------------------------------------------------
(***************************************************************************)
(* ClientAdapter and StreamAdapter of the server                           *)
(***************************************************************************)
\* What the stream of the server answers
Answers(type) == {"ok"} \cup (IF type \in Refused THEN {"error"} ELSE {})

\* SendReply; on a lost connection it fails, which is only logged.
Answer(m, answer) ==
  to_client' = IF up THEN Append(to_client, Message(answer, m.id, {})) ELSE to_client

Release(frames) ==
  frame' = [f \in Frames |->
    IF f \in frames /\ frame[f] \in {"arrived", "pending"} THEN "released" ELSE frame[f]]

\* Core::OpenStream
OpenStream(m) ==
  /\ m.type = "Open"
  /\ \E answer \in Answers("Open") :
       /\ server' = IF answer = "ok" THEN "ready" ELSE server
       /\ worker' = IF answer = "ok" THEN "run" ELSE worker
       /\ Answer(m, answer)
  /\ UNCHANGED <<requests, frame>>

\* StartMonitoring after a refused Close, whose status nobody reads.  Without its
\* first thread the adapter takes requests that it leaves; without its callback
\* or another thread it drops them.
StartMonitoring ==
  /\ worker' = "run" \/ ("Monitor" \in Refused /\ worker' \in {"none", "barred"})
  /\ requests' = IF worker = "run" \/ worker' = "barred" THEN <<>> ELSE requests

\* CloseStream: the worker is joined and its messages are dropped; a refused
\* Close starts it again.
CloseStream(m) ==
  /\ m.type = "Close"
  /\ \/ /\ server # "none" /\ server' = "none" /\ Release(Frames)
        /\ requests' = <<>> /\ worker' = "none"
        /\ Answer(m, "ok")
     \/ /\ server # "none" /\ "error" \in Answers("Close")
        /\ StartMonitoring
        /\ Answer(m, "error") /\ UNCHANGED <<server, frame>>
     \/ /\ server = "none"
        /\ Answer(m, "error") /\ UNCHANGED <<server, requests, worker, frame>>

AcceptDisconnect(m) ==
  /\ m.type = "Disconnect"
  /\ Answer(m, "disconnected")
  /\ UNCHANGED <<server, requests, worker, frame>>

\* Any other message goes to the stream adapter, or is refused without one.
PushMessage(m) ==
  /\ m.type \in {"Start", "Stop", "ReleaseFrame", "SendFrame"}
  /\ \/ /\ server # "none"
        /\ requests' = IF worker = "barred" THEN requests ELSE Append(requests, m)
        /\ UNCHANGED to_client
     \/ server = "none" /\ Answer(m, "error") /\ UNCHANGED requests
  /\ UNCHANGED <<server, worker, frame>>

Acception ==
  /\ adapter
  /\ to_server # <<>>
  /\ to_server' = Tail(to_server)
  /\ LET m == Head(to_server) IN
       OpenStream(m) \/ CloseStream(m) \/ AcceptDisconnect(m) \/ PushMessage(m)
  /\ UNCHANGED <<shared, up, messenger_vars, app_vars, user_vars, sending_vars, memory_vars, adapter,
                 count_vars>>

\* OnMonitoringFinished and CloseAllStream: the adapter goes, a stream that
\* refuses to close stays.
CloseAllStream ==
  /\ adapter
  /\ ~up
  /\ adapter' = FALSE
  /\ requests' = <<>> /\ worker' = "none"
  /\ IF server = "none" THEN UNCHANGED <<server, frame>>
     ELSE \E answer \in Answers("Close") :
            IF answer = "ok" THEN server' = "none" /\ Release(Frames)
            ELSE server' = "leaked" /\ UNCHANGED frame
  /\ UNCHANGED <<connection_vars, messenger_vars, app_vars, user_vars, sending_vars, memory_vars,
                 count_vars>>

\* StreamAdapter::Start
StartStream(m) ==
  /\ m.type = "Start"
  /\ \E answer \in (IF server = "ready" THEN Answers("Start") ELSE {"error"}) :
       /\ server' = IF answer = "ok" THEN "running" ELSE server
       /\ Answer(m, answer)
  /\ UNCHANGED frame

\* Mutant: frames the client still has are released as well.
StopStreamReleasingAll(m) ==
  /\ m.type = "Stop"
  /\ \E answer \in (IF server = "running" THEN Answers("Stop") ELSE {"error"}) :
       /\ IF answer = "ok" THEN server' = "ready" /\ Release(Frames)
          ELSE UNCHANGED <<server, frame>>
       /\ Answer(m, answer)

\* StreamAdapter::Stop, with ClearFrames
StopStream(m) ==
  /\ m.type = "Stop"
  /\ \E answer \in (IF server = "running" THEN Answers("Stop") ELSE {"error"}) :
       /\ IF answer = "ok"
          THEN server' = "ready" /\ Release({f \in Frames : frame[f] = "arrived"})
          ELSE UNCHANGED <<server, frame>>
       /\ Answer(m, answer)

\* ReleaseFrame and ReleaseFrameBySendFrameReply; a frame that is not pending
\* is ignored.
ReleaseFrame(m) ==
  /\ m.type \in {"ReleaseFrame", "SendFrame"}
  /\ Release({f \in m.frames : frame[f] = "pending"})
  /\ IF m.type = "SendFrame" THEN UNCHANGED to_client ELSE Answer(m, "ok")
  /\ UNCHANGED server

DoMessage ==
  /\ worker = "run"
  /\ requests # <<>>
  /\ requests' = Tail(requests)
  /\ LET m == Head(requests) IN StartStream(m) \/ StopStream(m) \/ ReleaseFrame(m)
  /\ UNCHANGED <<shared, up, to_server, messenger_vars, app_vars, user_vars, sending_vars, memory_vars,
                 adapter, worker, count_vars>>

\* A frame of the component arrives in the stream of the server.
Arrive ==
  /\ server = "running"
  /\ \E f \in Frames :
       /\ frame[f] = None
       /\ \A g \in Frames : g < f => frame[g] # None
       /\ frame' = [frame EXCEPT ![f] = "arrived"]
  /\ UNCHANGED <<connection_vars, messenger_vars, app_vars, user_vars, sending_vars, memory_vars,
                 adapter, server, requests, worker, count_vars>>

\* PublishingFrame: all arrived frames in one message
PublishingFrame ==
  LET arrived == {f \in Frames : frame[f] = "arrived"} IN
  /\ server = "running"
  /\ arrived # {}
  /\ \/ /\ up
        /\ to_client' = Append(to_client, Message("SendFrame", 0, arrived))
        /\ frame' = [f \in Frames |-> IF f \in arrived THEN "pending" ELSE frame[f]]
     \/ /\ ~up
        /\ Release(arrived)
        /\ UNCHANGED to_client
  /\ UNCHANGED <<shared, up, to_server, messenger_vars, app_vars, user_vars, sending_vars, memory_vars,
                 adapter, server, requests, worker, count_vars>>

---------------------------------------------------------------------------
Replies == {"ok", "error", None}

AppStep ==
  \/ \E reply \in Replies :
       OpenReply(reply) \/ StartReply(reply) \/ StopReply(reply) \/ CloseReply(reply)
  \/ StartLock
  \/ StopPortSendings
  \/ CloseRequest
  \/ Disconnect
  \/ JoinRecv

UserStep ==
  \/ \E f \in Frames : UserRelease(f)
  \/ UserReleaseFrame
  \/ \E reply \in Replies : UserReply(reply)

MonitorStep ==
  \/ MonitorMessages
  \/ AddFrames
  \/ SendFrames
  \/ ReleaseDropped
  \/ \E reply \in Replies : MonitorReply(reply)
  \/ FramesDone

RecvStep == Recv \/ RecvEnd

\* Nobody deals with the requests of the stream: its adapter has no threads.
Unserved == server \in {"ready", "running"} /\ worker # "run"

\* The bounds end a behaviour, a stream the server could not close, and a call
\* that nobody answers.
Finished ==
  /\ \/ app = "idle" /\ calls = MaxCalls
     \/ app = "idle" /\ server = "leaked" /\ ~adapter /\ c_state = "closed"
     \/ Unserved
  /\ UNCHANGED vars

Next ==
  \/ CallOpen \/ CallStart \/ CallStop \/ CallClose
  \/ AppStep \/ UserStep \/ MonitorStep \/ RecvStep
  \/ Acception \/ CloseAllStream \/ DoMessage \/ PublishingFrame
  \/ Arrive \/ Break
  \/ Finished

Spec == Init /\ [][Next]_vars

\* A step that waits for a reply is not helped by a timeout: it is taken when
\* the reply is there or the connection is not.
Ready(c) == waiting[c].reply # None \/ waiting[c].woken

Fairness ==
  /\ WF_vars(AppStep /\ (app \in {"open", "start", "stop", "close"} => Ready("app")))
  /\ WF_vars(UserStep /\ (user_pc = "wait" => Ready("user")))
  /\ WF_vars(MonitorStep /\ (monitor = "wait" => Ready("monitor")))
  /\ WF_vars(RecvStep)
  /\ WF_vars(Acception \/ CloseAllStream)
  /\ WF_vars(DoMessage)
  /\ WF_vars(PublishingFrame)

FairSpec == Spec /\ Fairness

---------------------------------------------------------------------------
(***************************************************************************)
(* Properties                                                              *)
(***************************************************************************)
\* A frame the client still has, in its stream, in a release under way or in the
\* hands of the port sending thread, is in the list of frame_manager_, and its
\* memory is mapped: no Stop, failed Start, restart or Close unmaps it.
Added == {f \in batch : monitor \in {"send", "release", "wait"} /\ f \in fm_frames}

MappedWhileHeld ==
  /\ held \cup {f \in {user} : user_pc = "release"} \subseteq fm_frames
  /\ fm_frames \subseteq held \cup Added \cup {user}
  /\ fm_frames # {} => mapped
  /\ mapped <=> fm # None

\* As long as the connection is alive and no reply was given up, client and
\* server agree about the state of the stream between calls, whatever was
\* refused (the replies of Start, Stop and Close; ClosePort after an error).
StatesAgree == app = "idle" /\ up /\ timeouts = 0 => server = c_state

\* Where a frame that the server has sent may be: on its way to the client or
\* in its port sendings; in the client, which owes a release for it (the reply
\* to the message does it for copied frames); or in such a request.
FramesIn(q) == UNION {q[i].frames : i \in 1 .. Len(q)}

Sent == FramesIn(to_client) \cup FramesIn(messages)

Releasing == {f \in {user} : user_pc = "release"}

Owed == IF shared THEN held \cup Releasing \cup batch ELSE message

Asked == FramesIn(to_server) \cup FramesIn(requests)

\* While the connection is alive, every frame that the server waits for is in
\* one of these places, across Stops, restarts and late replies; and as long as
\* the client has or expects a frame the server keeps it: nobody has asked for
\* its release, and no Stop gives its memory to another frame.
FramesAccounted ==
  up /\ sendings =>
    /\ \A f \in Frames : frame[f] = "pending" => f \in Sent \cup Owed \cup Asked
    /\ \A f \in Sent \cup Owed : frame[f] = "pending" /\ f \notin Asked

\* After a refused Close the port has no port sendings and gets no frame.
Deaf == c_state # "closed" /\ ~sendings

\* The frames that the server waits for come back: through the user, a drop in
\* the client, the reply to a copied frame, or the end of the stream; not lost
\* by a Stop or a restart with frames under way, a timeout or a disconnection.
Pending == \E f \in Frames : frame[f] = "pending"

FramesComeBack == Pending ~> (~Pending \/ Deaf \/ server = "leaked")

\* Every call returns, although no reply is awaited with a limit: the threads
\* that wait for a reply, for the component lock, for the port sending thread
\* and for the receiving thread do not wait for each other; but for a call to
\* a stream whose adapter has no threads, which only a limit ends.
CallsReturn == app # "idle" ~> app = "idle" \/ Unserved

=============================================================================
