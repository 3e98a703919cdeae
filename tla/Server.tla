------------------------------- MODULE Server -------------------------------
(***************************************************************************)
(* The life of the clients of a server: Server::Open and Close, the        *)
(* listeners that accept connections, the ClientAdapterManager that        *)
(* deletes the adapters of clients that have gone, the receiving thread of *)
(* every adapter, and the thread of a stream adapter that locks and        *)
(* unlocks the properties of its stream.                                   *)
(*                                                                         *)
(* A primary client opens one stream at a time; a secondary one attaches   *)
(* itself to a primary by the id of a stream, to carry its frames.  Other  *)
(* requests of streams, which return by themselves, are left out, and so   *)
(* is what the core does (see Core and PropertyLock): it opens, refuses to *)
(* close, and gives one lock at a time.  A behaviour ends where a deleted  *)
(* object is used.                                                         *)
(***************************************************************************)
EXTENDS Naturals, Sequences, SequencesExt

CONSTANTS
  Primaries,    \* connections to the first listener
  Secondaries,  \* and to the second one
  Fails,        \* what may fail: "Open", "Listen", "Start" (of the thread of
                \* an adapter), "CloseStream" and "Monitor" (the callback or a
                \* thread of a stream adapter)
  MaxOpens,     \* bound: calls of Server::Open
  MaxStreams,   \* bound: streams opened
  Worlds        \* bounds of a behaviour: the clients that may connect, the
                \* requests to lock or unlock, and the failures

Clients == Primaries \cup Secondaries
Listeners == {"primary", "secondary"}

None == "none"

ASSUME ServerAssumption ==
  /\ Primaries \cap Secondaries = {}
  /\ None \notin Clients
  /\ Fails \subseteq {"Open", "Listen", "Start", "CloseStream", "Monitor"}
  /\ MaxOpens \in Nat /\ MaxStreams \in Nat
  /\ Worlds \subseteq [clients : SUBSET Clients, locks : Nat, faults : Nat]

VARIABLES
  server,        \* where the thread in Server::Open and Close is
  core,          \* whether core_ exists
  orphans,       \* primaries that point to a core that is deleted
  monitor,       \* where the thread of the ClientAdapterManager is
  end_flag,      \* its end_flag_
  clients,
  release_list,
  list,          \* list[r]: the clients that r, "server" or "monitor", releases
  passed,        \* passed[r]: whether Stop found no thread_ in the first of them
  listener,      \* listener[l]: where the thread of a listener is
  listener_end,  \* its end_flag_
  accepted,      \* and the adapter it has made
  link,          \* link[c]: the connection of a client
  life,          \* life[c]: its adapter
  thread,        \* where the receiving thread of the adapter is
  thread_end,    \* and its end_flag_
  stream,        \* stream[p]: the id of the stream of a primary, or 0
  locking,       \* where the locking thread of its stream adapter is
  locking_end,   \* the end_flag_ of the stream adapter
  messages,      \* messages_lock_property_
  opened,        \* opened streams of the core, with the client of each
  locked,        \* the stream that has locked the properties, or 0
  leaked,        \* streams the core kept open when their adapter was deleted,
  unstarted,     \* and those of them whose client had never heard of them
  secondary,     \* secondary_adapter_ of a primary
  attached,      \* the id by which it was set,
  saved,         \* and saved_stream_id_ of a secondary
  failed,        \* clients whose thread was not created
  misuse,        \* what deleted object was used, and by or of which client
  opens, streams,
  locks, faults  \* what is left of them

server_vars == <<server, core, orphans, opens>>
monitor_vars == <<monitor, end_flag, list, passed>>
listener_vars == <<listener, listener_end, accepted, failed>>
client_vars == <<thread, thread_end>>
stream_vars == <<stream, locking, locking_end, messages, opened, locked, leaked,
                 unstarted, streams, locks>>
secondary_vars == <<secondary, attached, saved>>
vars == <<server_vars, monitor_vars, clients, release_list, listener_vars, link, life,
          client_vars, stream_vars, secondary_vars, misuse, faults>>

NoMisuse == [of |-> None, client |-> None]

\* The state of the server, its threads and its clients.
TypeOK ==
  /\ server \in {"idle", "failed", "join_monitor", "release", "rest", "exit"} \cup Listeners
  /\ core \in BOOLEAN /\ orphans \subseteq Primaries
  /\ monitor \in {"none", "wait", "release", "ended"}
  /\ end_flag \in BOOLEAN
  /\ clients \in Seq(Clients) /\ release_list \in Seq(Clients)
  /\ list \in [{"server", "monitor"} -> Seq(Clients)]
  /\ passed \in [{"server", "monitor"} -> BOOLEAN]
  /\ listener \in
       [Listeners -> {"none", "listening", "register", "start", "started", "delete", "ended"}]
  /\ listener_end \in [Listeners -> BOOLEAN]
  /\ accepted \in [Listeners -> Clients \cup {None}]
  /\ link \in [Clients -> {"away", "up", "down"}]
  /\ life \in [Clients -> {"none", "alive", "deleted"}]
  /\ thread \in
       [Clients -> {"none", "run", "close", "finish", "close_all", "release", "ended"}]
  /\ thread_end \in [Clients -> BOOLEAN]
  /\ stream \in [Primaries -> 0 .. MaxStreams]
  /\ locking \in [Primaries -> {"none", "pop", "wait", "timed_wait", "ended"}]
  /\ locking_end \in [Primaries -> BOOLEAN]
  /\ messages \in [Primaries -> Seq({"lock", "unlock"})]
  /\ opened \subseteq [id : 1 .. MaxStreams, client : Primaries]
  /\ locked \in 0 .. MaxStreams
  /\ leaked \subseteq 1 .. MaxStreams /\ unstarted \subseteq leaked
  /\ secondary \in [Primaries -> Secondaries \cup {None}]
  /\ attached \in [Primaries -> 0 .. MaxStreams]
  /\ saved \in [Secondaries -> 0 .. MaxStreams]
  /\ failed \subseteq Clients
  /\ misuse \in
       [of : {None, "adapter", "start", "thread", "core", "secondary", "stream"},
        client : Clients \cup {None}]
  /\ opens \in 0 .. MaxOpens /\ streams \in 0 .. MaxStreams
  /\ locks \in Nat /\ faults \in Nat

Init ==
  /\ server = "idle" /\ core = FALSE /\ orphans = {}
  /\ monitor = "none" /\ end_flag = FALSE
  /\ clients = <<>> /\ release_list = <<>>
  /\ list = [r \in {"server", "monitor"} |-> <<>>]
  /\ passed = [r \in {"server", "monitor"} |-> FALSE]
  /\ listener = [l \in Listeners |-> "none"]
  /\ listener_end = [l \in Listeners |-> FALSE]
  /\ accepted = [l \in Listeners |-> None]
  /\ \E w \in Worlds :
       /\ link = [c \in Clients |-> IF c \in w.clients THEN "away" ELSE "down"]
       /\ locks = w.locks /\ faults = w.faults
  /\ life = [c \in Clients |-> "none"]
  /\ thread = [c \in Clients |-> "none"]
  /\ thread_end = [c \in Clients |-> FALSE]
  /\ stream = [p \in Primaries |-> 0]
  /\ locking = [p \in Primaries |-> "none"]
  /\ locking_end = [p \in Primaries |-> FALSE]
  /\ messages = [p \in Primaries |-> <<>>]
  /\ opened = {} /\ locked = 0 /\ leaked = {} /\ unstarted = {}
  /\ secondary = [p \in Primaries |-> None]
  /\ attached = [p \in Primaries |-> 0]
  /\ saved = [s \in Secondaries |-> 0]
  /\ failed = {} /\ misuse = NoMisuse
  /\ opens = 0 /\ streams = 0

\* Whether what succeeds; failures are counted, but for a second one that
\* follows from the first in the same step.
Succeeds(what, ok) ==
  /\ ok \/ (what \in Fails /\ faults > 0)
  /\ faults' = IF ok THEN faults ELSE faults - 1

\* A behaviour in which c, or the object named, is deleted and used ends.
Misused(what, c) ==
  /\ misuse' = [of |-> what, client |-> c]
  /\ UNCHANGED <<server_vars, monitor_vars, clients, release_list, listener_vars, link,
                 life, client_vars, stream_vars, secondary_vars, faults>>

----------------------------------------------------------------------------
(***************************************************************************)
(* Clients and connections                                                 *)
(***************************************************************************)
Kind(c) == IF c \in Primaries THEN "primary" ELSE "secondary"

Disconnect(c) ==
  /\ link[c] = "up"
  /\ link' = [link EXCEPT ![c] = "down"]
  /\ UNCHANGED <<server_vars, monitor_vars, clients, release_list, listener_vars, life,
                 client_vars, stream_vars, secondary_vars, misuse, faults>>

----------------------------------------------------------------------------
(***************************************************************************)
(* ClientListenerBase::Listening                                           *)
(***************************************************************************)
\* A connection may be accepted once more after end_flag_ is set, for the
\* thread waits up to a second and reads the flag afterwards.
Accept(l, c) ==
  /\ listener[l] = "listening" /\ link[c] = "away" /\ Kind(c) = l
  /\ listener' = [listener EXCEPT ![l] = "register"]
  /\ accepted' = [accepted EXCEPT ![l] = c]
  /\ link' = [link EXCEPT ![c] = "up"]
  /\ life' = [life EXCEPT ![c] = "alive"]
  /\ UNCHANGED <<server_vars, monitor_vars, clients, release_list, listener_end, failed,
                 client_vars, stream_vars, secondary_vars, misuse, faults>>

\* Nobody knocks, or the connection of the listener fails.
EndListening(l) ==
  /\ listener[l] = "listening"
  /\ Succeeds("Listen", listener_end[l])
  /\ listener' = [listener EXCEPT ![l] = "ended"]
  /\ UNCHANGED <<server_vars, monitor_vars, clients, release_list, listener_end, accepted,
                 failed, link, life, client_vars, stream_vars, secondary_vars, misuse>>

\* Mutant: clients are still registered after Stop, when nobody releases them.
WithClientAlways(c) == Append(clients, c)

WithClient(c) == IF end_flag THEN clients ELSE Append(clients, c)

Register(l) ==
  /\ listener[l] = "register"
  /\ clients' = WithClient(accepted[l])
  /\ listener' = [listener EXCEPT ![l] = "start"]
  /\ UNCHANGED <<server_vars, monitor_vars, release_list, listener_end, accepted, failed,
                 link, life, client_vars, stream_vars, secondary_vars, misuse, faults>>

\* ClientAdapterManager::Release: a client that is in clients_ moves.
Release(c) ==
  IF Contains(clients, c)
  THEN \E i \in DOMAIN clients :
         /\ clients[i] = c /\ \A j \in 1 .. i - 1 : clients[j] # c
         /\ clients' = RemoveAt(clients, i)
         /\ release_list' = Append(release_list, c)
  ELSE UNCHANGED <<clients, release_list>>

NextConnection(l) == IF listener_end[l] THEN "ended" ELSE "listening"

\* The thread of the adapter is created and runs, or its creation fails.
StartClient(l) ==
  LET c == accepted[l]
  IN /\ listener[l] = "start"
     /\ \/ /\ life[c] = "deleted"
           /\ Misused("start", c)
        \/ /\ life[c] = "alive"
           /\ \E created \in BOOLEAN :
                /\ Succeeds("Start", created)
                /\ IF created
                   THEN /\ thread' = [thread EXCEPT ![c] = "run"]
                        /\ thread_end' = [thread_end EXCEPT ![c] = FALSE]
                        /\ listener' = [listener EXCEPT ![l] = "started"]
                        /\ UNCHANGED <<clients, release_list, failed>>
                   ELSE /\ Release(c)
                        /\ listener' = [listener EXCEPT ![l] = "delete"]
                        /\ failed' = failed \cup {c}
                        /\ UNCHANGED client_vars
           /\ UNCHANGED <<server_vars, monitor_vars, listener_end, accepted, link, life,
                          stream_vars, secondary_vars, misuse>>

\* OSCreateThread writes thread_, the last that Start does to the adapter.
ClientStarted(l) ==
  LET c == accepted[l]
  IN /\ listener[l] = "started"
     /\ \/ life[c] = "deleted" /\ Misused("start", c)
        \/ /\ life[c] = "alive"
           /\ listener' = [listener EXCEPT ![l] = NextConnection(l)]
           /\ accepted' = [accepted EXCEPT ![l] = None]
           /\ UNCHANGED <<server_vars, monitor_vars, clients, release_list, listener_end,
                          failed, link, life, client_vars, stream_vars, secondary_vars,
                          misuse, faults>>

\* The adapter and its connection are deleted; its streams are closed by then.
Delete(c) ==
  /\ life' = [life EXCEPT ![c] = "deleted"]
  /\ link' = [link EXCEPT ![c] = "down"]
  /\ thread' = [thread EXCEPT ![c] = "none"]
  /\ thread_end' = [thread_end EXCEPT ![c] = FALSE]

DeleteFailed(l) ==
  LET c == accepted[l]
  IN /\ listener[l] = "delete"
     /\ \/ life[c] = "deleted" /\ Misused("adapter", c)
        \/ /\ life[c] = "alive"
           /\ Delete(c)
           /\ listener' = [listener EXCEPT ![l] = NextConnection(l)]
           /\ accepted' = [accepted EXCEPT ![l] = None]
           /\ UNCHANGED <<server_vars, monitor_vars, clients, release_list, listener_end,
                          failed, stream_vars, secondary_vars, misuse, faults>>

----------------------------------------------------------------------------
(***************************************************************************)
(* ClientAdapterManager                                                    *)
(***************************************************************************)
\* thread_ of the adapter: the thread may run before it is written.
Handle(c) ==
  thread[c] # "none" /\ ~ \E l \in Listeners : listener[l] = "started" /\ accepted[l] = c

\* ClientAdapterBase::Stop of the first client of a list, up to the join.
StopClient(r) ==
  LET c == Head(list[r])
  IN /\ list[r] # <<>> /\ ~passed[r]
     /\ \/ life[c] = "deleted" /\ Misused("adapter", c)
        \/ /\ life[c] = "alive"
           /\ \/ /\ Handle(c) /\ ~thread_end[c]
                 /\ thread_end' = [thread_end EXCEPT ![c] = TRUE]
                 /\ UNCHANGED passed
              \/ /\ ~Handle(c)
                 /\ passed' = [passed EXCEPT ![r] = TRUE]
                 /\ UNCHANGED thread_end
           /\ UNCHANGED <<server_vars, monitor, end_flag, list, clients, release_list,
                          listener_vars, link, life, thread, stream_vars, secondary_vars,
                          misuse, faults>>

Joined(c) == life[c] = "alive" /\ Handle(c) /\ thread_end[c] /\ thread[c] = "ended"

\* The join and the deletion.  If Stop found no thread there is one by now,
\* perhaps, or the adapter is gone.
DeleteClient(r) ==
  LET c == Head(list[r])
  IN /\ list[r] # <<>> /\ (passed[r] \/ Joined(c))
     /\ \/ life[c] = "deleted" /\ Misused("adapter", c)
        \/ life[c] = "alive" /\ thread[c] \notin {"none", "ended"} /\ Misused("thread", c)
        \/ /\ life[c] = "alive" /\ thread[c] \in {"none", "ended"}
           /\ Delete(c)
           /\ list' = [list EXCEPT ![r] = Tail(@)]
           /\ passed' = [passed EXCEPT ![r] = FALSE]
           /\ UNCHANGED <<server_vars, monitor, end_flag, clients, release_list,
                          listener_vars, stream_vars, secondary_vars, misuse, faults>>

\* Mutant: the wait of the manager's thread forgets end_flag_.
TakeReleasedOnly ==
  /\ monitor = "wait"
  /\ release_list # <<>>
  /\ monitor' = "release"
  /\ list' = [list EXCEPT !["monitor"] = release_list]
  /\ release_list' = <<>>
  /\ UNCHANGED <<server_vars, end_flag, passed, clients, listener_vars, link, life,
                 client_vars, stream_vars, secondary_vars, misuse, faults>>

\* Monitor: the released clients are taken out of the list at once, after
\* end_flag_ is set too.
TakeReleased ==
  /\ monitor = "wait"
  /\ end_flag \/ release_list # <<>>
  /\ monitor' = "release"
  /\ list' = [list EXCEPT !["monitor"] = release_list]
  /\ release_list' = <<>>
  /\ UNCHANGED <<server_vars, end_flag, passed, clients, listener_vars, link, life,
                 client_vars, stream_vars, secondary_vars, misuse, faults>>

ReleasedTaken ==
  /\ monitor = "release" /\ list["monitor"] = <<>>
  /\ monitor' = IF end_flag THEN "ended" ELSE "wait"
  /\ UNCHANGED <<server_vars, end_flag, list, passed, clients, release_list,
                 listener_vars, link, life, client_vars, stream_vars, secondary_vars, misuse, faults>>

\* ReleaseAllClients: the client that was registered last is the first to go.
ReleaseNext ==
  /\ server = "release" /\ list["server"] = <<>>
  /\ \/ /\ clients # <<>>
        /\ list' = [list EXCEPT !["server"] = <<Last(clients)>>]
        /\ clients' = Front(clients)
        /\ UNCHANGED <<release_list, server>>
     \/ /\ clients = <<>>
        /\ list' = [list EXCEPT !["server"] = release_list]
        /\ release_list' = <<>>
        /\ server' = "rest"
        /\ UNCHANGED clients
  /\ UNCHANGED <<core, orphans, opens, monitor, end_flag, passed, listener_vars, link, life,
                 client_vars, stream_vars, secondary_vars, misuse, faults>>

----------------------------------------------------------------------------
(***************************************************************************)
(* Server::Open and Close                                                  *)
(***************************************************************************)
\* Open refuses while there are listeners, and once more when an Open that
\* failed has left the manager's thread running.  If the second listener
\* fails, Open calls Close.
OpenServer ==
  /\ server = "idle" /\ opens < MaxOpens
  /\ listener["primary"] = "none" /\ monitor = "none"
  /\ opens' = opens + 1
  /\ core' = TRUE /\ monitor' = "wait"
  /\ UNCHANGED orphans
  /\ \E first, second \in BOOLEAN :
       LET listening == {l \in Listeners : first /\ (l = "primary" \/ second)}
       IN /\ Succeeds("Open", first /\ second)
          /\ listener' = [l \in Listeners |-> IF l \in listening THEN "listening" ELSE "none"]
          /\ listener_end' = [l \in Listeners |-> FALSE]
          /\ end_flag' = FALSE
          /\ server' = IF first /\ ~second THEN "failed" ELSE "idle"
  /\ UNCHANGED <<list, passed, clients, release_list, accepted, failed, link, life,
                 client_vars, stream_vars, secondary_vars, misuse>>

\* Without a core there is nothing to close.
CloseServer ==
  /\ server \in {"idle", "failed"} /\ core
  /\ end_flag' = TRUE
  /\ server' = "join_monitor"
  /\ UNCHANGED <<core, orphans, opens, monitor, list, passed, clients, release_list,
                 listener_vars, link, life, client_vars, stream_vars, secondary_vars, misuse, faults>>

JoinMonitor ==
  /\ server = "join_monitor" /\ monitor = "ended"
  /\ monitor' = "none"
  /\ server' = "release"
  /\ UNCHANGED <<core, orphans, opens, end_flag, list, passed, clients, release_list,
                 listener_vars, link, life, client_vars, stream_vars, secondary_vars, misuse, faults>>

RestReleased ==
  /\ server = "rest" /\ list["server"] = <<>>
  /\ server' = "primary"
  /\ UNCHANGED <<core, orphans, opens, monitor_vars, clients, release_list, listener_vars,
                 link, life, client_vars, stream_vars, secondary_vars, misuse, faults>>

NextToStop == IF server = "primary" THEN "secondary" ELSE "exit"

\* ClientListenerBase::Stop: the thread is told to end, and joined.
StopListener ==
  /\ server \in Listeners
  /\ \/ /\ listener[server] # "none" /\ ~listener_end[server]
        /\ listener_end' = [listener_end EXCEPT ![server] = TRUE]
        /\ UNCHANGED <<server, listener>>
     \/ /\ listener[server] = "none" \/ (listener_end[server] /\ listener[server] = "ended")
        /\ listener' = [listener EXCEPT ![server] = "none"]
        /\ server' = NextToStop
        /\ UNCHANGED listener_end
  /\ UNCHANGED <<core, orphans, opens, monitor_vars, clients, release_list, accepted,
                 failed, link, life, client_vars, stream_vars, secondary_vars, misuse,
                 faults>>

\* The core closes what is open and is deleted.
ExitCore ==
  /\ server = "exit"
  /\ core' = FALSE /\ server' = "idle"
  /\ orphans' = {p \in Primaries : life[p] = "alive"}
  /\ opened' = {} /\ locked' = 0
  /\ UNCHANGED <<opens, monitor_vars, clients, release_list, listener_vars, link, life,
                 client_vars, stream, locking, locking_end, messages, leaked, unstarted,
                 streams, locks, secondary_vars, misuse, faults>>

----------------------------------------------------------------------------
(***************************************************************************)
(* The receiving thread of a primary client                                *)
(***************************************************************************)
Receives(c) == thread[c] = "run" /\ link[c] = "up"

\* OpenStream and CreateStreamAdapter.  A refused request changes nothing.
\* If the monitoring cannot start the adapter goes, and the request is
\* refused whether or not the core has closed the stream.
OpenStream(p) ==
  /\ Receives(p) /\ stream[p] = 0 /\ streams < MaxStreams
  /\ \/ p \in orphans /\ Misused("core", p)
     \/ /\ p \notin orphans
        /\ streams' = streams + 1
        /\ \E monitored \in BOOLEAN :
             /\ Succeeds("Monitor", monitored)
             /\ IF monitored
                THEN /\ stream' = [stream EXCEPT ![p] = streams + 1]
                     /\ opened' = opened \cup {[id |-> streams + 1, client |-> p]}
                     /\ locking' = [locking EXCEPT ![p] = "pop"]
                     /\ locking_end' = [locking_end EXCEPT ![p] = FALSE]
                     /\ UNCHANGED <<leaked, unstarted>>
                ELSE /\ \/ UNCHANGED <<opened, leaked, unstarted>>
                        \/ /\ "CloseStream" \in Fails
                           /\ opened' = opened \cup {[id |-> streams + 1, client |-> p]}
                           /\ leaked' = leaked \cup {streams + 1}
                           /\ unstarted' = unstarted \cup {streams + 1}
                     /\ UNCHANGED <<stream, locking, locking_end>>
        /\ UNCHANGED <<server_vars, monitor_vars, clients, release_list, listener_vars,
                       link, life, client_vars, messages, locked, locks, secondary_vars,
                       misuse>>

\* PushMessage of a request to lock or to unlock; dropped once end_flag_ is set.
PushMessage(p, m) ==
  /\ Receives(p) /\ stream[p] # 0 /\ locks > 0
  /\ locks' = locks - 1
  /\ messages' = IF locking_end[p] THEN messages ELSE [messages EXCEPT ![p] = Append(@, m)]
  /\ UNCHANGED <<server_vars, monitor_vars, clients, release_list, listener_vars, link,
                 life, client_vars, stream, locking, locking_end, opened, locked, leaked,
                 unstarted, streams, secondary_vars, misuse, faults>>

\* Mutant: the threads of the stream adapter are not told to end.
StopMonitoringUntold(p) == UNCHANGED locking_end

\* StreamAdapter::StopMonitoring up to the join; nothing if there is no thread.
StopMonitoring(p) ==
  locking_end' = IF locking[p] = "none" THEN locking_end ELSE [locking_end EXCEPT ![p] = TRUE]

CloseStream(p) ==
  /\ Receives(p) /\ stream[p] # 0
  /\ StopMonitoring(p)
  /\ thread' = [thread EXCEPT ![p] = "close"]
  /\ UNCHANGED <<server_vars, monitor_vars, clients, release_list, listener_vars, link,
                 life, thread_end, stream, locking, messages, opened, locked, leaked,
                 unstarted, streams, locks, secondary_vars, misuse, faults>>

\* Mutant: the stream goes and keeps its lock.
CloseInCoreLocked(p, ok) ==
  /\ opened' = IF ok THEN opened \ {[id |-> stream[p], client |-> p]} ELSE opened
  /\ UNCHANGED locked

\* Core::CloseStream gives back the lock of the stream; if it refuses, it may
\* have done so or not.
CloseInCore(p, ok) ==
  /\ opened' = IF ok THEN opened \ {[id |-> stream[p], client |-> p]} ELSE opened
  /\ IF locked # stream[p] THEN UNCHANGED locked
     ELSE IF ok THEN locked' = 0 ELSE locked' \in {0, stream[p]}

\* The threads of the stream adapter, if there were any, are joined.
MonitoringStopped(p) == locking[p] \in {"none", "ended"}

\* After the join, which drops the requests that were left.  A closed stream
\* is forgotten.  A refused one is monitored again, or it keeps its adapter
\* without threads: end_flag_ is then set if a thread could not be created,
\* and clear if it was the first one.
StreamClosed(p) ==
  /\ thread[p] = "close" /\ MonitoringStopped(p)
  /\ \/ p \in orphans /\ Misused("core", p)
     \/ /\ p \notin orphans
        /\ thread' = [thread EXCEPT ![p] = "run"]
        /\ \E ok \in BOOLEAN :
             /\ Succeeds("CloseStream", ok)
             /\ CloseInCore(p, ok)
             /\ stream' = [stream EXCEPT ![p] = IF ok THEN 0 ELSE @]
             /\ \/ /\ locking' = [locking EXCEPT ![p] = IF ok THEN "none" ELSE "pop"]
                   /\ locking_end' = [locking_end EXCEPT ![p] = FALSE]
                \/ /\ ~ok /\ "Monitor" \in Fails
                   /\ locking' = [locking EXCEPT ![p] = "none"]
                   /\ \E end \in BOOLEAN : locking_end' = [locking_end EXCEPT ![p] = end]
             /\ messages' = IF ~ok /\ locking[p] = "none" THEN messages
                            ELSE [messages EXCEPT ![p] = <<>>]
        /\ UNCHANGED <<server_vars, monitor_vars, clients, release_list, listener_vars,
                       link, life, thread_end, leaked, unstarted, streams, locks,
                       secondary_vars, misuse>>

\* The loop of Monitoring ends and OnMonitoringFinished begins.
EndMonitoring(c) ==
  /\ thread[c] = "run"
  /\ thread_end[c] \/ link[c] = "down"
  /\ thread' = [thread EXCEPT ![c] = "finish"]
  /\ secondary' = IF c \in Primaries THEN [secondary EXCEPT ![c] = None] ELSE secondary
  /\ UNCHANGED <<server_vars, monitor_vars, clients, release_list, listener_vars, link,
                 life, thread_end, stream_vars, attached, saved, misuse, faults>>

\* CloseAllStream takes the stream adapters out of the list and stops them,
CloseAllStream(p) ==
  /\ thread[p] = "finish"
  /\ IF stream[p] = 0
     THEN /\ thread' = [thread EXCEPT ![p] = "release"]
          /\ UNCHANGED locking_end
     ELSE /\ thread' = [thread EXCEPT ![p] = "close_all"]
          /\ StopMonitoring(p)
  /\ UNCHANGED <<server_vars, monitor_vars, clients, release_list, listener_vars, link,
                 life, thread_end, stream, locking, messages, opened, locked, leaked,
                 unstarted, streams, locks, secondary_vars, misuse, faults>>

\* and deletes them, whether or not the core has closed the streams: a
\* refused one goes on with the callbacks of its deleted adapter.
AllStreamsClosed(p) ==
  /\ thread[p] = "close_all" /\ MonitoringStopped(p)
  /\ \/ p \in orphans /\ Misused("core", p)
     \/ /\ p \notin orphans
        /\ thread' = [thread EXCEPT ![p] = "release"]
        /\ \E ok \in BOOLEAN :
             /\ Succeeds("CloseStream", ok)
             /\ CloseInCore(p, ok)
             /\ leaked' = IF ok THEN leaked ELSE leaked \cup {stream[p]}
        /\ stream' = [stream EXCEPT ![p] = 0]
        /\ locking' = [locking EXCEPT ![p] = "none"]
        /\ messages' = [messages EXCEPT ![p] = <<>>]
        /\ UNCHANGED <<server_vars, monitor_vars, clients, release_list, listener_vars,
                       link, life, thread_end, locking_end, unstarted, streams, locks,
                       secondary_vars, misuse>>

\* The last thing the thread does is to hand its adapter to the manager.
ReleaseSelf(c) ==
  /\ thread[c] = "release"
  /\ Release(c)
  /\ thread' = [thread EXCEPT ![c] = "ended"]
  /\ UNCHANGED <<server_vars, monitor_vars, listener_vars, link, life, thread_end,
                 stream_vars, secondary_vars, misuse, faults>>

----------------------------------------------------------------------------
(***************************************************************************)
(* Secondary clients                                                       *)
(***************************************************************************)
\* The registered primaries among whose stream adapters is one for id.
Found(id) ==
  {p \in Primaries : Contains(clients, p) /\ stream[p] = id /\ thread[p] # "close_all"}

\* ConnectToPrimaryAdapter; refused if saved_stream_id_ is set.
Attach(s, p) ==
  /\ Receives(s) /\ saved[s] = 0
  /\ stream[p] # 0 /\ p \in Found(stream[p])
  /\ secondary' = [secondary EXCEPT ![p] = s]
  /\ attached' = [attached EXCEPT ![p] = stream[p]]
  /\ saved' = [saved EXCEPT ![s] = stream[p]]
  /\ UNCHANGED <<server_vars, monitor_vars, clients, release_list, listener_vars, link,
                 life, client_vars, stream_vars, misuse, faults>>

\* Mutant: the adapter goes without a word to the primary.
DetachedQuietly(s) == secondary

\* The primary is found by the stream; nothing is reset if that is gone.
Detached(s) ==
  [p \in Primaries |-> IF saved[s] # 0 /\ p \in Found(saved[s]) THEN None ELSE secondary[p]]

\* SecondaryClientAdapter::OnMonitoringFinished.
Detach(s) ==
  /\ thread[s] = "finish"
  /\ thread' = [thread EXCEPT ![s] = "release"]
  /\ saved' = [saved EXCEPT ![s] = 0]
  /\ secondary' = Detached(s)
  /\ UNCHANGED <<server_vars, monitor_vars, clients, release_list, listener_vars, link,
                 life, thread_end, stream_vars, attached, misuse, faults>>

\* ClientAdapter::SendMessageToClient of a frame, from the frame callback of
\* the stream.  A secondary adapter that exists sends it, or fails to.
SendFrame(p) ==
  /\ stream[p] # 0 /\ secondary[p] # None /\ life[secondary[p]] = "deleted"
  /\ Misused("secondary", p)

\* A frame or an event of an open stream whose adapter is deleted.
CallBack(p) ==
  /\ \E o \in opened : o.client = p /\ o.id # stream[p] /\ o.id \notin unstarted
  /\ Misused("stream", p)

----------------------------------------------------------------------------
(***************************************************************************)
(* The locking thread of a stream adapter                                  *)
(***************************************************************************)
Lockable(p) == locked \in {0, stream[p]}

\* Monitoring ends when the flag is set, with requests left or not; otherwise
\* a request is popped.  A lock that another stream has is waited for, with a limit
\* or without one, as the client asked.
PopMessage(p) ==
  /\ locking[p] = "pop"
  /\ \/ /\ locking_end[p]
        /\ locking' = [locking EXCEPT ![p] = "ended"]
        /\ UNCHANGED <<messages, locked>>
     \/ /\ ~locking_end[p] /\ messages[p] # <<>> /\ p \notin orphans
        /\ messages' = [messages EXCEPT ![p] = Tail(@)]
        /\ \/ /\ Head(messages[p]) = "unlock"
              /\ locked' = IF locked = stream[p] THEN 0 ELSE locked
              /\ UNCHANGED locking
           \/ /\ Head(messages[p]) = "lock" /\ Lockable(p)
              /\ locked' = stream[p]
              /\ UNCHANGED locking
           \/ /\ Head(messages[p]) = "lock" /\ ~Lockable(p)
              /\ \E w \in {"wait", "timed_wait"} : locking' = [locking EXCEPT ![p] = w]
              /\ UNCHANGED locked
  /\ UNCHANGED <<server_vars, monitor_vars, clients, release_list, listener_vars, link,
                 life, client_vars, stream, locking_end, opened, leaked, unstarted, streams,
                 locks, secondary_vars, misuse, faults>>

\* LockProperty returns with the lock, or when its time is over.
EndWait(p) ==
  /\ locking[p] \in {"wait", "timed_wait"} /\ p \notin orphans
  /\ Lockable(p) \/ locking[p] = "timed_wait"
  /\ locked' = IF Lockable(p) THEN stream[p] ELSE locked
  /\ locking' = [locking EXCEPT ![p] = "pop"]
  /\ UNCHANGED <<server_vars, monitor_vars, clients, release_list, listener_vars, link,
                 life, client_vars, stream, locking_end, messages, opened, leaked,
                 unstarted, streams, locks, secondary_vars, misuse, faults>>

LockInDeletedCore(p) ==
  /\ p \in orphans
  /\ \/ locking[p] = "pop" /\ ~locking_end[p] /\ messages[p] # <<>>
     \/ locking[p] \in {"wait", "timed_wait"}
  /\ Misused("core", p)

----------------------------------------------------------------------------
\* What the threads of the server do by themselves.
ReleaseStep(r) ==
  /\ IF r = "server" THEN server \in {"release", "rest"} ELSE monitor = "release"
  /\ StopClient(r) \/ DeleteClient(r)

ThreadStep ==
  \/ server = "failed" /\ CloseServer
  \/ ReleaseNext \/ RestReleased \/ JoinMonitor \/ StopListener \/ ExitCore
  \/ TakeReleased \/ ReleasedTaken
  \/ \E r \in {"server", "monitor"} : ReleaseStep(r)
  \/ \E l \in Listeners :
       \/ Register(l) \/ StartClient(l) \/ ClientStarted(l) \/ DeleteFailed(l)
       \/ listener_end[l] /\ EndListening(l)
  \/ \E c \in Clients : EndMonitoring(c) \/ ReleaseSelf(c)
  \/ \E p \in Primaries :
       \/ StreamClosed(p) \/ CloseAllStream(p) \/ AllStreamsClosed(p)
       \/ PopMessage(p) \/ EndWait(p) \/ LockInDeletedCore(p)
  \/ \E s \in Secondaries : Detach(s)

\* What clients, the network and the user of the server do.
Request ==
  \/ OpenServer
  \/ server = "idle" /\ CloseServer
  \/ \E c \in Clients : Disconnect(c) \/ Accept(Kind(c), c)
  \/ \E l \in Listeners : ~listener_end[l] /\ EndListening(l)
  \/ \E p \in Primaries :
       \/ OpenStream(p) \/ CloseStream(p) \/ SendFrame(p) \/ CallBack(p)
       \/ \E m \in {"lock", "unlock"} : PushMessage(p, m)
       \/ \E s \in Secondaries : Attach(s, p)

Next == misuse = NoMisuse /\ (ThreadStep \/ Request)

Spec == Init /\ [][Next]_vars

----------------------------------------------------------------------------
(***************************************************************************)
(* The only ways to use a deleted object: the adapter of a client whose    *)
(* thread could not be created, which both the manager and the listener    *)
(* delete; an adapter that ReleaseAllClients deletes before the listener   *)
(* starts it, or that is deleted, by then or by the manager's thread when  *)
(* the client has gone again, before the listener has written thread_; an  *)
(* adapter whose thread is created after Stop, in ReleaseAllClients, has   *)
(* found none; the core, by a client that came too late for Close; a       *)
(* secondary adapter whose stream the primary had closed before it left;   *)
(* and the adapter of a stream that the core refused to close when its     *)
(* client left.  In particular no adapter is deleted whose thread has      *)
(* registered with Stop, and nobody joins twice, whoever disconnects while *)
(* whatever is stopped.                                                    *)
(***************************************************************************)
NoUseAfterDelete ==
  LET c == misuse.client
  IN /\ misuse.of = "adapter" => c \in failed
     /\ misuse.of = "start" =>
          ~Contains(clients, c) /\ (server # "idle" \/ listener[Kind(c)] = "started")
     /\ misuse.of = "thread" => server = "release" /\ passed["server"]
     /\ misuse.of = "core" => ~Contains(clients, c)
     /\ misuse.of = "secondary" =>
          attached[c] # stream[c] \/ thread[c] = "close_all"
     /\ misuse.of = "stream" => \E o \in opened : o.client = c /\ o.id \in leaked

\* The manager has the client, or somebody is about to delete it.
Registered(c) == Contains(clients \o release_list \o list["server"] \o list["monitor"], c)

(***************************************************************************)
(* When Close has returned, no client that was registered is left: the     *)
(* adapters that still exist are those that Register refused.              *)
(***************************************************************************)
CloseReleasesClients ==
  server = "idle" /\ ~core => \A c \in Clients : ~Registered(c)

(***************************************************************************)
(* A stream is open in the core only for a stream adapter of its client,   *)
(* unless the core refused to close it; and the properties are locked only *)
(* by an open stream.  So a client that has gone leaves neither an open    *)
(* stream nor a lock behind.                                               *)
(***************************************************************************)
OpenStreamsOwned ==
  /\ \A o \in opened :
       \/ o.id \in leaked
       \/ stream[o.client] = o.id /\ life[o.client] = "alive"
  /\ locked # 0 => \E o \in opened : o.id = locked

\* A thread waits without a limit for a lock that another stream may keep.
WaitsForLock == \E p \in Primaries : locking[p] = "wait" /\ ~Lockable(p)

\* What r does with the first client of its list: it tells its thread to end, joins
\* it and deletes the adapter; or it uses an adapter that is deleted already.
CanRelease(r) ==
  LET c == Head(list[r])
  IN /\ IF r = "server" THEN server \in {"release", "rest"} ELSE monitor = "release"
     /\ list[r] # <<>>
     /\ \/ passed[r] \/ life[c] = "deleted" \/ Joined(c)
        \/ life[c] = "alive" /\ (~Handle(c) \/ ~thread_end[c])

\* Some thread of the server does not wait for another one, nor for a request.
CanGoOn ==
  \/ server = "failed" /\ core
  \/ server \in {"release", "rest"} /\ list["server"] = <<>>
  \/ server = "join_monitor" /\ monitor = "ended"
  \/ server \in Listeners /\ (~listener_end[server] \/ listener[server] \in {"none", "ended"})
  \/ server = "exit"
  \/ monitor = "wait" /\ (end_flag \/ release_list # <<>>)
  \/ monitor = "release" /\ list["monitor"] = <<>>
  \/ CanRelease("server") \/ CanRelease("monitor")
  \/ \E l \in Listeners :
       \/ listener[l] \in {"register", "start", "started", "delete"}
       \/ listener[l] = "listening" /\ listener_end[l]
  \/ \E c \in Clients :
       \/ thread[c] \in {"finish", "release"}
       \/ thread[c] = "run" /\ (thread_end[c] \/ link[c] = "down")
  \/ \E p \in Primaries :
       \/ thread[p] \in {"close", "close_all"} /\ MonitoringStopped(p)
       \/ locking[p] = "pop" /\ (locking_end[p] \/ messages[p] # <<>>)
       \/ locking[p] = "timed_wait"
       \/ locking[p] = "wait" /\ (Lockable(p) \/ p \in orphans)

(***************************************************************************)
(* In the states that are reached CanGoOn is no more and no less than that *)
(* a thread has a step: every flag and list that it looks at is one that   *)
(* the thread looks at when it waits.                                      *)
(***************************************************************************)
GoesOn == misuse = NoMisuse => (CanGoOn <=> ENABLED ThreadStep)

(***************************************************************************)
(* When no thread of the server can go on by itself, Close has returned    *)
(* and the registered clients that have disconnected are deleted; unless a *)
(* client waits without a limit for what another one has locked.  Then     *)
(* both may hang: ReleaseAllClients stops the clients one after the other, *)
(* the last first, and the one with the lock may come after the one that   *)
(* waits.                                                                  *)
(***************************************************************************)
StuckOnlyByLock ==
  misuse = NoMisuse /\ ~CanGoOn =>
    \/ WaitsForLock
    \/ server = "idle" /\ \A c \in Clients : Registered(c) => link[c] # "down"
=============================================================================
