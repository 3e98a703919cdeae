---------------------------- MODULE ServerProofs ----------------------------
(***************************************************************************)
(* The clients of a server, for any clients, any failures and any number   *)
(* of requests: each adapter is deleted once, apart from the listed cases,  *)
(* Close leaves no registered client, and an open stream has an owner.     *)
(***************************************************************************)
EXTENDS Server, SequenceTheorems, TLAPS

NoTwice(s) == \A i, j \in 1 .. Len(s) : s[i] = s[j] => i = j

(***************************************************************************)
(* Open and Close                                                          *)
(***************************************************************************)
\* Close has taken all clients.
Emptied == server \in {"rest", "primary", "secondary", "exit"} \/ (server = "idle" /\ ~core)

Phases ==
  /\ server \notin {"idle", "failed"} => end_flag
  /\ Emptied \/ server = "release" => monitor = "none"
  /\ monitor # "release" => list["monitor"] = <<>>
  /\ server \notin {"release", "rest"} => list["server"] = <<>>
  /\ server = "release" => Len(list["server"]) <= 1
  /\ Emptied => clients = <<>> /\ release_list = <<>>
  /\ server \in {"secondary", "exit"} => listener["primary"] = "none"
  /\ server = "exit" \/ (server = "idle" /\ ~core) =>
       \A l \in Listeners : listener[l] = "none"

(***************************************************************************)
(* The adapters                                                            *)
(***************************************************************************)
\* A client is in one list at most, once.
InOneList ==
  /\ NoTwice(clients) /\ NoTwice(release_list)
  /\ NoTwice(list["server"]) /\ NoTwice(list["monitor"])
  /\ \A c \in Clients :
       /\ Contains(clients, c) =>
            ~Contains(release_list, c) /\ ~Contains(list["server"], c)
              /\ ~Contains(list["monitor"], c)
       /\ Contains(release_list, c) =>
            ~Contains(list["server"], c) /\ ~Contains(list["monitor"], c)
       /\ Contains(list["server"], c) => ~Contains(list["monitor"], c)

InSomeList(c) ==
  \/ Contains(clients, c) \/ Contains(release_list, c)
  \/ Contains(list["server"], c) \/ Contains(list["monitor"], c)

\* A client that is in the lists of those that have ended.
IsReleased(c) ==
  \/ Contains(release_list, c) \/ Contains(list["monitor"], c)
  \/ server = "rest" /\ Contains(list["server"], c)

Adapters ==
  \A c \in Clients :
    /\ link[c] = "away" => life[c] = "none"
    /\ thread[c] # "none" => life[c] = "alive"
    /\ Contains(clients, c) => life[c] = "alive"
    /\ InSomeList(c) => life[c] = "alive" \/ (life[c] = "deleted" /\ c \in failed)
    /\ IsReleased(c) => thread[c] \in {"ended", "none"}
    /\ c \in orphans => life[c] # "none" /\ ~Contains(clients, c)

\* The adapter that a listener has accepted.
Accepted ==
  \A l \in Listeners : listener[l] \in {"register", "start", "started", "delete"} =>
    LET c == accepted[l] IN
    /\ c \in Clients /\ Kind(c) = l
    /\ life[c] # "none" /\ (listener[l] # "started" => thread[c] = "none")
    /\ listener[l] = "register" => life[c] = "alive" /\ ~InSomeList(c) /\ c \notin orphans
    /\ listener[l] = "start" => ~IsReleased(c)
    /\ listener[l] = "start" /\ life[c] = "deleted" =>
         server \in {"release", "rest"} \cup Listeners
    /\ listener[l] = "delete" => c \in failed /\ ~Contains(clients, c)

(***************************************************************************)
(* The streams                                                             *)
(***************************************************************************)
StreamOf(p) == [id |-> stream[p], client |-> p]

Streams ==
  \A p \in Primaries :
    /\ stream[p] <= streams
    /\ stream[p] # 0 => thread[p] \in {"run", "close", "finish", "close_all"}
    /\ thread[p] \in {"close", "close_all"} => stream[p] # 0
    /\ locking[p] # "none" => stream[p] # 0
    /\ stream[p] # 0 /\ p \notin orphans => StreamOf(p) \in opened

(***************************************************************************)
(* The secondary connections                                               *)
(***************************************************************************)
\* ReleaseAllClients is stopping p.
BeingReleased(p) == server = "release" /\ list["server"] = <<p>>

Secondary ==
  \A p \in Primaries :
    /\ attached[p] <= streams
    /\ thread[p] = "none" /\ life[p] # "deleted" => secondary[p] = None
    /\ secondary[p] # None /\ thread[p] \in {"run", "close", "finish"} =>
         Contains(clients, p) \/ BeingReleased(p)
    /\ secondary[p] # None /\ stream[p] # 0 /\ attached[p] = stream[p]
         /\ thread[p] # "close_all" =>
         \/ thread[secondary[p]] \in {"run", "finish"} /\ saved[secondary[p]] = stream[p]
         \/ BeingReleased(p) /\ thread[secondary[p]] \in {"release", "ended"}

AdapterInv == Phases /\ InOneList /\ Adapters /\ Accepted

StreamInv == Streams /\ OpenStreamsOwned /\ Secondary

ServerInv == TypeOK /\ AdapterInv /\ StreamInv /\ NoUseAfterDelete

----------------------------------------------------------------------------
(***************************************************************************)
(* The lists of clients                                                    *)
(***************************************************************************)
\* push_back of a client that is not there.
LEMMA AppendFacts ==
  ASSUME NEW S, NEW s \in Seq(S), NEW x \in S
  PROVE  /\ Append(s, x) \in Seq(S)
         /\ \A c : Contains(Append(s, x), c) <=> Contains(s, c) \/ c = x
         /\ NoTwice(s) /\ ~Contains(s, x) => NoTwice(Append(s, x))
<1>1. /\ \A i \in 1 .. Len(s) : Append(s, x)[i] = s[i]
      /\ Append(s, x)[Len(s) + 1] = x
      /\ Append(s, x) \in Seq(S) /\ Len(Append(s, x)) = Len(s) + 1 /\ Len(s) \in Nat
  OBVIOUS
<1>2. 1 .. Len(s) + 1 = (1 .. Len(s)) \cup {Len(s) + 1}
  BY <1>1
<1>3. \A c : Contains(Append(s, x), c) <=> Contains(s, c) \/ c = x
  BY <1>1, <1>2 DEF Contains
<1>4. ASSUME NoTwice(s), ~Contains(s, x) PROVE NoTwice(Append(s, x))
  BY <1>1, <1>2, <1>4 DEF Contains, NoTwice
<1> QED BY <1>1, <1>3, <1>4

\* A list that has no client, and one that has one.
LEMMA SmallLists ==
  /\ Len(<<>>) = 0 /\ NoTwice(<<>>) /\ \A c : ~Contains(<<>>, c)
  /\ \A S : <<>> \in Seq(S)
  /\ \A x : Len(<<x>>) = 1 /\ NoTwice(<<x>>) /\ Head(<<x>>) = x /\ Tail(<<x>>) = <<>>
  /\ \A x, c : Contains(<<x>>, c) <=> c = x
  /\ \A S : \A x \in S : <<x>> \in Seq(S)
BY DEF Contains, NoTwice

\* erase of the client at a position.
LEMMA RemoveAtFacts ==
  ASSUME NEW S, NEW s \in Seq(S), NEW k \in 1 .. Len(s)
  PROVE  /\ RemoveAt(s, k) \in Seq(S)
         /\ NoTwice(s) => /\ NoTwice(RemoveAt(s, k))
                          /\ \A c : Contains(RemoveAt(s, k), c) <=> Contains(s, c) /\ c # s[k]
<1> DEFINE a == SubSeq(s, 1, k - 1)
           b == SubSeq(s, k + 1, Len(s))
           r == RemoveAt(s, k)
<1>1. Len(s) \in Nat /\ k \in Nat /\ 1 <= k /\ k <= Len(s)
  OBVIOUS
<1>2. a \in Seq(S) /\ Len(a) = k - 1 /\ \A i \in 1 .. k - 1 : a[i] = s[i]
  OBVIOUS
<1>3. b \in Seq(S) /\ Len(b) = Len(s) - k /\ \A i \in 1 .. Len(s) - k : b[i] = s[k + i]
  OBVIOUS
<1>4. r = a \o b
  BY DEF RemoveAt
<1> HIDE DEF a, b, r
<1>5. r \in Seq(S) /\ Len(r) = Len(s) - 1
  <2>1. a \o b \in Seq(S) /\ Len(a \o b) = Len(a) + Len(b)
    BY <1>2, <1>3, ConcatProperties
  <2>2. Len(a \o b) = (k - 1) + (Len(s) - k)
    BY <2>1, <1>2, <1>3
  <2>3. Len(a \o b) = Len(s) - 1
    BY <2>2, <1>1
  <2>4. r \in Seq(S)
    BY <2>1, <1>4, Zenon
  <2>5. Len(r) = Len(s) - 1
    BY <2>3, <1>4, Zenon
  <2> QED BY <2>4, <2>5
<1>6. \A i \in 1 .. Len(r) : r[i] = IF i < k THEN s[i] ELSE s[i + 1]
  <2> TAKE i \in 1 .. Len(r)
  <2>1. CASE i < k
    BY <2>1, <1>1, <1>2, <1>3, <1>4, <1>5
  <2>2. CASE ~(i < k)
    <3>1. i - (k - 1) \in 1 .. Len(s) - k /\ k + (i - (k - 1)) = i + 1
      BY <2>2, <1>1, <1>5
    <3>2. (a \o b)[i] = b[i - (k - 1)]
      <4>1. Len(a) = k - 1 /\ i \in 1 .. Len(a) + Len(b) /\ ~(i <= Len(a))
        BY <2>2, <1>1, <1>2, <1>3, <1>5
      <4>2. (a \o b)[i] = IF i <= Len(a) THEN a[i] ELSE b[i - Len(a)]
        BY <4>1, <1>2, <1>3, ConcatProperties
      <4> QED BY <4>1, <4>2
    <3> QED BY <2>2, <3>1, <3>2, <1>3, <1>4
  <2> QED BY <2>1, <2>2
<1>7. \A i \in 1 .. Len(r) : \E j \in 1 .. Len(s) :
        j # k /\ r[i] = s[j] /\ j = IF i < k THEN i ELSE i + 1
  BY <1>1, <1>5, <1>6
<1>8. \A j \in 1 .. Len(s) : j # k => \E i \in 1 .. Len(r) : r[i] = s[j]
  <2> TAKE j \in 1 .. Len(s)
  <2>1. CASE j < k
    <3>1. j \in 1 .. Len(r) /\ r[j] = s[j]
      BY <2>1, <1>1, <1>5, <1>6
    <3> QED BY <3>1
  <2>2. CASE j > k
    <3>1. j - 1 \in 1 .. Len(r) /\ ~(j - 1 < k) /\ (j - 1) + 1 = j
      BY <2>2, <1>1, <1>5
    <3>2. r[j - 1] = s[j]
      BY <3>1, <1>6
    <3> QED BY <3>1, <3>2
  <2> QED BY <2>1, <2>2, <1>1
<1>9. ASSUME NoTwice(s) PROVE NoTwice(r)
  <2> SUFFICES ASSUME NEW i \in 1 .. Len(r), NEW j \in 1 .. Len(r), r[i] = r[j]
               PROVE  i = j
    BY DEF NoTwice
  <2>1. PICK x \in 1 .. Len(s) : r[i] = s[x] /\ x = IF i < k THEN i ELSE i + 1
    BY <1>7
  <2>2. PICK y \in 1 .. Len(s) : r[j] = s[y] /\ y = IF j < k THEN j ELSE j + 1
    BY <1>7
  <2>3. x = y
    BY <1>9, <2>1, <2>2 DEF NoTwice
  <2> QED BY <2>1, <2>2, <2>3, <1>1
<1>10. ASSUME NoTwice(s), NEW c
       PROVE  Contains(r, c) <=> Contains(s, c) /\ c # s[k]
  <2>1. ASSUME Contains(r, c) PROVE Contains(s, c) /\ c # s[k]
    <3>1. PICK i \in 1 .. Len(r) : r[i] = c
      BY <2>1 DEF Contains
    <3>2. PICK j \in 1 .. Len(s) : j # k /\ r[i] = s[j]
      BY <1>7
    <3> QED BY <1>10, <3>1, <3>2 DEF Contains, NoTwice
  <2>2. ASSUME Contains(s, c), c # s[k] PROVE Contains(r, c)
    <3>1. PICK j \in 1 .. Len(s) : s[j] = c
      BY <2>2 DEF Contains
    <3>2. PICK i \in 1 .. Len(r) : r[i] = s[j]
      BY <2>2, <3>1, <1>8
    <3> QED BY <3>1, <3>2 DEF Contains
  <2> QED BY <2>1, <2>2
<1> QED BY <1>5, <1>9, <1>10 DEF r

\* The first client of a list is the next to be deleted.
LEMMA TailFacts ==
  ASSUME NEW S, NEW s \in Seq(S), s # <<>>
  PROVE  /\ Tail(s) \in Seq(S) /\ Head(s) \in S /\ Contains(s, Head(s))
         /\ Len(Tail(s)) = Len(s) - 1
         /\ NoTwice(s) => /\ NoTwice(Tail(s))
                          /\ \A c : Contains(Tail(s), c) <=> Contains(s, c) /\ c # Head(s)
<1>1. /\ Len(s) \in Nat /\ Len(s) # 0 /\ Head(s) = s[1] /\ Head(s) \in S
      /\ Tail(s) \in Seq(S) /\ Len(Tail(s)) = Len(s) - 1
  OBVIOUS
<1>2. \A i \in 1 .. Len(s) - 1 : Tail(s)[i] = s[i + 1]
  BY <1>1
<1>3. 1 \in 1 .. Len(s) /\ \A i \in 1 .. Len(s) - 1 : i + 1 \in 1 .. Len(s) /\ i + 1 # 1
  BY <1>1
<1>4. ASSUME NoTwice(s) PROVE NoTwice(Tail(s))
  <2> SUFFICES ASSUME NEW i \in 1 .. Len(s) - 1, NEW j \in 1 .. Len(s) - 1, s[i + 1] = s[j + 1]
               PROVE  i = j
    BY <1>1, <1>2 DEF NoTwice
  <2>1. i + 1 = j + 1
    BY <1>3, <1>4 DEF NoTwice
  <2> QED BY <2>1, <1>1
<1>5. ASSUME NoTwice(s), NEW c
      PROVE  Contains(Tail(s), c) <=> Contains(s, c) /\ c # Head(s)
  <2>1. ASSUME Contains(Tail(s), c) PROVE Contains(s, c) /\ c # Head(s)
    <3>1. PICK i \in 1 .. Len(s) - 1 : s[i + 1] = c
      BY <1>1, <1>2, <2>1 DEF Contains
    <3>2. i + 1 \in 1 .. Len(s) /\ i + 1 # 1
      BY <1>3
    <3> QED BY <1>1, <1>3, <1>5, <3>1, <3>2 DEF Contains, NoTwice
  <2>2. ASSUME Contains(s, c), c # Head(s) PROVE Contains(Tail(s), c)
    <3>1. PICK j \in 1 .. Len(s) : s[j] = c
      BY <2>2 DEF Contains
    <3>2. j - 1 \in 1 .. Len(s) - 1 /\ (j - 1) + 1 = j
      BY <1>1, <2>2, <3>1
    <3>3. Tail(s)[j - 1] = c
      BY <1>2, <3>1, <3>2
    <3> QED BY <1>1, <3>2, <3>3 DEF Contains
  <2> QED BY <2>1, <2>2
<1>6. Contains(s, Head(s))
  BY <1>1, <1>3 DEF Contains
<1> QED BY <1>1, <1>4, <1>5, <1>6

\* The last client of a list goes first when all are released.
LEMMA FrontFacts ==
  ASSUME NEW S, NEW s \in Seq(S), s # <<>>
  PROVE  /\ Front(s) \in Seq(S) /\ Last(s) \in S /\ Contains(s, Last(s))
         /\ NoTwice(s) => /\ NoTwice(Front(s))
                          /\ \A c : Contains(Front(s), c) <=> Contains(s, c) /\ c # Last(s)
<1>1. Len(s) \in Nat /\ Len(s) # 0 /\ Last(s) = s[Len(s)] /\ Last(s) \in S /\ Len(s) \in 1 .. Len(s)
  BY DEF Last
<1>2. /\ Front(s) \in Seq(S) /\ Len(Front(s)) = Len(s) - 1
      /\ \A i \in 1 .. Len(s) - 1 : Front(s)[i] = s[i]
  <2> DEFINE r == SubSeq(s, 1, Len(s) - 1)
  <2>1. /\ r \in Seq(S)
        /\ Len(r) = IF 1 <= Len(s) - 1 THEN (Len(s) - 1) - 1 + 1 ELSE 0
        /\ \A i \in 1 .. (Len(s) - 1) - 1 + 1 : r[i] = s[1 + i - 1]
    <3>1. \A i \in 1 .. Len(s) - 1 : s[i] \in S
      BY <1>1
    <3> QED BY <1>1, <3>1, SubSeqProperties
  <2>2. Front(s) = r
    BY DEF Front
  <2> HIDE DEF r
  <2> QED BY <2>1, <2>2, <1>1
<1>3. 1 .. Len(s) = (1 .. Len(s) - 1) \cup {Len(s)} /\ Len(s) \notin 1 .. Len(s) - 1
  BY <1>1
<1>4. ASSUME NoTwice(s) PROVE NoTwice(Front(s))
  BY <1>2, <1>3, <1>4 DEF NoTwice
<1>5. ASSUME NoTwice(s), NEW c
      PROVE  Contains(Front(s), c) <=> Contains(s, c) /\ c # Last(s)
  BY <1>1, <1>2, <1>3, <1>5 DEF NoTwice, Contains
<1>6. Contains(s, Last(s))
  BY <1>1 DEF Contains
<1> QED BY <1>1, <1>2, <1>4, <1>5, <1>6

----------------------------------------------------------------------------
(***************************************************************************)
(* Every step keeps the types                                              *)
(***************************************************************************)
ServerTypes ==
  /\ server \in {"idle", "failed", "join_monitor", "release", "rest", "exit"} \cup Listeners
  /\ core \in BOOLEAN /\ orphans \subseteq Primaries /\ opens \in 0 .. MaxOpens

ManagerTypes ==
  /\ monitor \in {"none", "wait", "release", "ended"} /\ end_flag \in BOOLEAN
  /\ clients \in Seq(Clients) /\ release_list \in Seq(Clients)
  /\ list \in [{"server", "monitor"} -> Seq(Clients)]
  /\ passed \in [{"server", "monitor"} -> BOOLEAN]

ListenerTypes ==
  /\ listener \in
       [Listeners -> {"none", "listening", "register", "start", "started", "delete", "ended"}]
  /\ listener_end \in [Listeners -> BOOLEAN]
  /\ accepted \in [Listeners -> Clients \cup {None}]
  /\ failed \subseteq Clients

AdapterTypes ==
  /\ link \in [Clients -> {"away", "up", "down"}]
  /\ life \in [Clients -> {"none", "alive", "deleted"}]
  /\ thread \in
       [Clients -> {"none", "run", "close", "finish", "close_all", "release", "ended"}]
  /\ thread_end \in [Clients -> BOOLEAN]

StreamTypes ==
  /\ stream \in [Primaries -> 0 .. MaxStreams]
  /\ locking \in [Primaries -> {"none", "pop", "wait", "timed_wait", "ended"}]
  /\ locking_end \in [Primaries -> BOOLEAN]
  /\ messages \in [Primaries -> Seq({"lock", "unlock"})]
  /\ opened \subseteq [id : 1 .. MaxStreams, client : Primaries]
  /\ locked \in 0 .. MaxStreams
  /\ leaked \subseteq 1 .. MaxStreams /\ unstarted \subseteq leaked
  /\ streams \in 0 .. MaxStreams /\ locks \in Nat

SecondaryTypes ==
  /\ secondary \in [Primaries -> Secondaries \cup {None}]
  /\ attached \in [Primaries -> 0 .. MaxStreams]
  /\ saved \in [Secondaries -> 0 .. MaxStreams]

OtherTypes ==
  /\ misuse \in
       [of : {None, "adapter", "start", "thread", "core", "secondary", "stream"},
        client : Clients \cup {None}]
  /\ faults \in Nat

LEMMA TypeParts ==
  TypeOK <=> /\ ServerTypes /\ ManagerTypes /\ ListenerTypes /\ AdapterTypes
             /\ StreamTypes /\ SecondaryTypes /\ OtherTypes
BY DEF TypeOK, ServerTypes, ManagerTypes, ListenerTypes, AdapterTypes, StreamTypes,
       SecondaryTypes, OtherTypes

LEMMA TypePartsNext ==
  TypeOK' <=> /\ ServerTypes' /\ ManagerTypes' /\ ListenerTypes' /\ AdapterTypes'
              /\ StreamTypes' /\ SecondaryTypes' /\ OtherTypes'
BY DEF TypeOK, ServerTypes, ManagerTypes, ListenerTypes, AdapterTypes, StreamTypes,
       SecondaryTypes, OtherTypes

\* What a step leaves alone keeps its types.
LEMMA SameTypes ==
  ASSUME TypeOK
  PROVE  /\ UNCHANGED server_vars => ServerTypes'
         /\ UNCHANGED <<monitor_vars, clients, release_list>> => ManagerTypes'
         /\ UNCHANGED listener_vars => ListenerTypes'
         /\ UNCHANGED <<link, life, client_vars>> => AdapterTypes'
         /\ UNCHANGED stream_vars => StreamTypes'
         /\ UNCHANGED secondary_vars => SecondaryTypes'
         /\ UNCHANGED <<misuse, faults>> => OtherTypes'
<1> USE TypeParts
<1>1. UNCHANGED server_vars => ServerTypes'
  BY DEF ServerTypes, server_vars
<1>2. UNCHANGED <<monitor_vars, clients, release_list>> => ManagerTypes'
  BY DEF ManagerTypes, monitor_vars
<1>3. UNCHANGED listener_vars => ListenerTypes'
  BY DEF ListenerTypes, listener_vars
<1>4. UNCHANGED <<link, life, client_vars>> => AdapterTypes'
  BY DEF AdapterTypes, client_vars
<1>5. UNCHANGED stream_vars => StreamTypes'
  BY DEF StreamTypes, stream_vars
<1>6. UNCHANGED secondary_vars => SecondaryTypes'
  BY DEF SecondaryTypes, secondary_vars
<1>7. UNCHANGED <<misuse, faults>> => OtherTypes'
  BY DEF OtherTypes
<1> QED BY <1>1, <1>2, <1>3, <1>4, <1>5, <1>6, <1>7

LEMMA InitServerInv == Init => ServerInv
<1> SUFFICES ASSUME Init PROVE ServerInv
  OBVIOUS
<1> USE ServerAssumption, SmallLists
<1>1. TypeOK
  <2>1. link \in [Clients -> {"away", "up", "down"}] /\ locks \in Nat /\ faults \in Nat
    BY DEF Init
  <2>2. misuse \in [of : {None, "adapter", "start", "thread", "core", "secondary", "stream"},
                    client : Clients \cup {None}]
    BY DEF Init, NoMisuse
  <2>3. /\ clients \in Seq(Clients) /\ release_list \in Seq(Clients)
        /\ list \in [{"server", "monitor"} -> Seq(Clients)]
        /\ passed \in [{"server", "monitor"} -> BOOLEAN]
        /\ messages \in [Primaries -> Seq({"lock", "unlock"})]
    BY DEF Init
  <2>4. 0 \in 0 .. MaxStreams /\ 0 \in 0 .. MaxOpens
    OBVIOUS
  <2>5. /\ server = "idle" /\ core \in BOOLEAN /\ orphans \subseteq Primaries
        /\ monitor = "none" /\ end_flag \in BOOLEAN /\ failed \subseteq Clients
        /\ opened = {} /\ locked = 0 /\ leaked = {} /\ unstarted = {}
        /\ opens = 0 /\ streams = 0
    BY DEF Init
  <2>6. /\ listener \in [Listeners -> {"none", "listening", "register", "start", "started",
                                       "delete", "ended"}]
        /\ listener_end \in [Listeners -> BOOLEAN]
        /\ accepted \in [Listeners -> Clients \cup {None}]
    BY DEF Init
  <2>7. /\ life \in [Clients -> {"none", "alive", "deleted"}]
        /\ thread \in [Clients -> {"none", "run", "close", "finish", "close_all", "release",
                                   "ended"}]
        /\ thread_end \in [Clients -> BOOLEAN]
    BY DEF Init
  <2>8. /\ stream \in [Primaries -> 0 .. MaxStreams]
        /\ locking \in [Primaries -> {"none", "pop", "wait", "timed_wait", "ended"}]
        /\ locking_end \in [Primaries -> BOOLEAN]
        /\ secondary \in [Primaries -> Secondaries \cup {None}]
        /\ attached \in [Primaries -> 0 .. MaxStreams]
        /\ saved \in [Secondaries -> 0 .. MaxStreams]
    BY <2>4 DEF Init
  <2> QED BY <2>1, <2>2, <2>3, <2>4, <2>5, <2>6, <2>7, <2>8 DEF TypeOK
<1>2. Phases
  BY DEF Init, Phases, Emptied, Listeners
<1>3. InOneList
  BY DEF Init, InOneList
<1>4. Adapters
  BY DEF Init, Adapters, InSomeList, IsReleased
<1>5. Accepted
  BY DEF Init, Accepted
<1>6. Streams
  <2>1. streams = 0 /\ \A p \in Primaries : stream[p] = 0 /\ locking[p] = "none"
    BY DEF Init
  <2>2. \A p \in Primaries : thread[p] = "none"
    BY DEF Init, Clients
  <2> QED BY <2>1, <2>2 DEF Streams
<1>7. OpenStreamsOwned
  BY DEF Init, OpenStreamsOwned
<1>8. Secondary
  BY DEF Init, Secondary
<1>9. NoUseAfterDelete
  BY DEF Init, NoUseAfterDelete, NoMisuse, None
<1> QED BY <1>1, <1>2, <1>3, <1>4, <1>5, <1>6, <1>7, <1>8, <1>9
       DEF ServerInv, AdapterInv, StreamInv

\* A failure is one less, and none is owed.
LEMMA SucceedsType ==
  ASSUME faults \in Nat, NEW what, NEW ok \in BOOLEAN, Succeeds(what, ok)
  PROVE  faults' \in Nat
BY DEF Succeeds

\* The use of a deleted object, by one of the clients.
LEMMA MisusedType ==
  ASSUME TypeOK, NEW what \in {"adapter", "start", "thread", "core", "secondary", "stream"},
         NEW c \in Clients, Misused(what, c)
  PROVE  TypeOK'
<1>1. misuse' \in [of : {None, "adapter", "start", "thread", "core", "secondary", "stream"},
                   client : Clients \cup {None}]
  BY DEF Misused
<1> QED
  BY <1>1 DEF Misused, TypeOK, server_vars, monitor_vars, listener_vars, client_vars,
              stream_vars, secondary_vars

\* A client is moved, or is not there.
LEMMA ReleaseType ==
  ASSUME TypeOK, NEW c \in Clients, Release(c)
  PROVE  clients' \in Seq(Clients) /\ release_list' \in Seq(Clients)
<1>1. clients \in Seq(Clients) /\ release_list \in Seq(Clients)
  BY DEF TypeOK
<1>2. CASE Contains(clients, c)
  <2>1. PICK i \in DOMAIN clients :
          clients' = RemoveAt(clients, i) /\ release_list' = Append(release_list, c)
    BY <1>2 DEF Release
  <2>2. i \in 1 .. Len(clients)
    BY <1>1
  <2>3. RemoveAt(clients, i) \in Seq(Clients)
    BY <1>1, <2>2, RemoveAtFacts
  <2>4. Append(release_list, c) \in Seq(Clients)
    BY <1>1, AppendFacts
  <2> QED BY <2>1, <2>3, <2>4
<1>3. CASE ~Contains(clients, c)
  BY <1>1, <1>3 DEF Release
<1> QED BY <1>2, <1>3

\* What a client does, apart from its streams.
LEMMA ClientStepTypes ==
  ASSUME TypeOK, NEW c \in Clients,
         Disconnect(c) \/ Accept(Kind(c), c) \/ EndMonitoring(c) \/ ReleaseSelf(c)
  PROVE  TypeOK'
<1> USE TypeParts, TypePartsNext, SameTypes
<1>1. CASE Disconnect(c)
  <2>1. AdapterTypes'
    BY <1>1 DEF Disconnect, AdapterTypes, client_vars
  <2> QED BY <1>1, <2>1 DEF Disconnect
<1>2. CASE Accept(Kind(c), c)
  <2>1. PICK l \in Listeners : l = Kind(c)
    BY DEF Kind, Listeners
  <2>2. ListenerTypes'
    BY <1>2, <2>1 DEF Accept, ListenerTypes
  <2>3. AdapterTypes'
    BY <1>2 DEF Accept, AdapterTypes, client_vars
  <2> QED BY <1>2, <2>2, <2>3 DEF Accept
<1>3. CASE EndMonitoring(c)
  <2>1. AdapterTypes'
    BY <1>3 DEF EndMonitoring, AdapterTypes
  <2>2. SecondaryTypes'
    BY <1>3 DEF EndMonitoring, SecondaryTypes
  <2> QED BY <1>3, <2>1, <2>2 DEF EndMonitoring
<1>4. CASE ReleaseSelf(c)
  <2>1. ManagerTypes'
    BY <1>4, ReleaseType DEF ReleaseSelf, ManagerTypes, monitor_vars
  <2>2. AdapterTypes'
    BY <1>4 DEF ReleaseSelf, AdapterTypes
  <2> QED BY <1>4, <2>1, <2>2 DEF ReleaseSelf
<1> QED BY <1>1, <1>2, <1>3, <1>4

\* An adapter that is deleted.
LEMMA DeleteType ==
  ASSUME TypeOK, NEW c \in Clients, Delete(c)
  PROVE  AdapterTypes'
BY TypeParts DEF AdapterTypes, Delete

\* What a listener does.
LEMMA ListenerStepTypes ==
  ASSUME TypeOK, Accepted, NEW l \in Listeners,
         \/ EndListening(l) \/ Register(l) \/ StartClient(l) \/ ClientStarted(l)
         \/ DeleteFailed(l)
  PROVE  TypeOK'
<1> USE TypeParts, TypePartsNext, SameTypes
<1> DEFINE c == accepted[l]
<1>1. CASE EndListening(l)
  <2>1. OtherTypes'
    BY <1>1, SucceedsType DEF EndListening, OtherTypes, ListenerTypes
  <2>2. ListenerTypes'
    BY <1>1 DEF EndListening, ListenerTypes
  <2> QED BY <1>1, <2>1, <2>2 DEF EndListening
<1>2. CASE Register(l)
  <2>1. c \in Clients
    BY <1>2 DEF Register, Accepted
  <2>2. clients' \in Seq(Clients)
    BY <1>2, <2>1, AppendFacts DEF Register, WithClient, ManagerTypes
  <2>3. ManagerTypes'
    BY <1>2, <2>2 DEF Register, ManagerTypes, monitor_vars
  <2>4. ListenerTypes'
    BY <1>2 DEF Register, ListenerTypes
  <2> QED BY <1>2, <2>3, <2>4 DEF Register
<1>3. NextConnection(l) \in {"ended", "listening"}
  BY DEF NextConnection
<1>4. CASE StartClient(l)
  <2>1. c \in Clients /\ listener[l] = "start"
    BY <1>4 DEF StartClient, Accepted
  <2>2. CASE Misused("start", c)
    BY <2>1, <2>2, MisusedType
  <2>3. CASE ~Misused("start", c)
    <3>1. PICK created \in BOOLEAN :
            /\ Succeeds("Start", created)
            /\ IF created
               THEN /\ thread' = [thread EXCEPT ![c] = "run"]
                    /\ thread_end' = [thread_end EXCEPT ![c] = FALSE]
                    /\ listener' = [listener EXCEPT ![l] = "started"]
                    /\ UNCHANGED <<clients, release_list, failed>>
               ELSE /\ Release(c)
                    /\ listener' = [listener EXCEPT ![l] = "delete"]
                    /\ failed' = failed \cup {c}
                    /\ UNCHANGED client_vars
      BY <1>4, <2>3 DEF StartClient
    <3>2. UNCHANGED <<server_vars, monitor_vars, listener_end, accepted, link, life,
                      stream_vars, secondary_vars, misuse>>
      BY <1>4, <2>3 DEF StartClient
    <3>3. OtherTypes'
      BY <3>1, <3>2, SucceedsType DEF OtherTypes
    <3> HIDE DEF c
    <3>4. ManagerTypes'
      BY <3>1, <3>2, <2>1, ReleaseType DEF ManagerTypes, monitor_vars
    <3>5. ListenerTypes'
      <4>1. CASE created
        BY <3>1, <3>2, <1>3, <4>1 DEF ListenerTypes
      <4>2. CASE ~created
        BY <3>1, <3>2, <2>1, <4>2 DEF ListenerTypes
      <4> QED BY <4>1, <4>2
    <3>6. AdapterTypes'
      <4>1. CASE created
        BY <3>1, <3>2, <2>1, <4>1 DEF AdapterTypes
      <4>2. CASE ~created
        BY <3>1, <3>2, <4>2
      <4> QED BY <4>1, <4>2
    <3> QED BY <3>2, <3>3, <3>4, <3>5, <3>6
  <2> QED BY <2>2, <2>3
<1>5. CASE DeleteFailed(l)
  <2>1. c \in Clients /\ listener[l] = "delete"
    BY <1>5 DEF DeleteFailed, Accepted
  <2>2. CASE Misused("adapter", c)
    BY <2>1, <2>2, MisusedType
  <2>3. CASE ~Misused("adapter", c)
    <3>1. ListenerTypes'
      BY <1>5, <2>3, <1>3 DEF DeleteFailed, ListenerTypes
    <3>2. AdapterTypes'
      BY <1>5, <2>1, <2>3, DeleteType DEF DeleteFailed
    <3> QED BY <1>5, <2>3, <3>1, <3>2 DEF DeleteFailed
  <2> QED BY <2>2, <2>3
<1>6. CASE ClientStarted(l)
  <2>1. c \in Clients
    BY <1>6 DEF ClientStarted, Accepted
  <2>2. CASE Misused("start", c)
    BY <2>1, <2>2, MisusedType
  <2>3. CASE ~Misused("start", c)
    <3>1. ListenerTypes'
      BY <1>6, <2>3, <1>3 DEF ClientStarted, ListenerTypes
    <3> QED BY <1>6, <2>3, <3>1 DEF ClientStarted
  <2> QED BY <2>2, <2>3
<1> QED BY <1>1, <1>2, <1>4, <1>5, <1>6

\* What the threads in Server and in the ClientAdapterManager do.
LEMMA ServerStepTypes ==
  ASSUME TypeOK,
         \/ OpenServer \/ CloseServer \/ JoinMonitor \/ ReleaseNext \/ RestReleased
         \/ StopListener \/ ExitCore \/ TakeReleased \/ ReleasedTaken
  PROVE  TypeOK'
<1> USE TypeParts, TypePartsNext, SameTypes
<1>1. CASE OpenServer
  <2>1. opens' \in 0 .. MaxOpens
    BY <1>1, ServerAssumption DEF OpenServer, ServerTypes
  <2>2. ServerTypes'
    BY <1>1, <2>1 DEF OpenServer, ServerTypes
  <2>3. OtherTypes'
    BY <1>1, SucceedsType DEF OpenServer, OtherTypes
  <2>4. ListenerTypes'
    BY <1>1 DEF OpenServer, ListenerTypes
  <2>5. ManagerTypes'
    BY <1>1 DEF OpenServer, ManagerTypes
  <2> QED BY <1>1, <2>2, <2>3, <2>4, <2>5 DEF OpenServer
<1>2. CASE CloseServer
  BY <1>2 DEF CloseServer, ServerTypes, ManagerTypes
<1>3. CASE JoinMonitor
  BY <1>3 DEF JoinMonitor, ServerTypes, ManagerTypes
<1>4. CASE ReleaseNext
  <2>1. clients \in Seq(Clients) /\ release_list \in Seq(Clients)
    BY DEF ManagerTypes
  <2>2. CASE clients = <<>>
    <3>1. ManagerTypes'
      BY <1>4, <2>1, <2>2, SmallLists DEF ReleaseNext, ManagerTypes
    <3>2. ServerTypes'
      BY <1>4, <2>2 DEF ReleaseNext, ServerTypes
    <3> QED BY <1>4, <3>1, <3>2 DEF ReleaseNext
  <2>3. CASE clients # <<>>
    <3>1. PICK new \in Seq(Clients) : new = <<Last(clients)>>
      BY <2>1, <2>3, FrontFacts, SmallLists
    <3>2. PICK rest \in Seq(Clients) : rest = Front(clients)
      BY <2>1, <2>3, FrontFacts
    <3>3. ManagerTypes'
      BY <1>4, <2>1, <2>3, <3>1, <3>2 DEF ReleaseNext, ManagerTypes
    <3>4. ServerTypes'
      BY <1>4, <2>3 DEF ReleaseNext, ServerTypes
    <3> QED BY <1>4, <3>3, <3>4 DEF ReleaseNext
  <2> QED BY <2>2, <2>3
<1>5. CASE RestReleased
  BY <1>5 DEF RestReleased, ServerTypes, Listeners
<1>6. CASE StopListener
  <2>1. ServerTypes'
    BY <1>6 DEF StopListener, NextToStop, ServerTypes, Listeners
  <2>2. ListenerTypes'
    BY <1>6 DEF StopListener, ListenerTypes
  <2> QED BY <1>6, <2>1, <2>2 DEF StopListener
<1>7. CASE ExitCore
  <2>1. ServerTypes'
    BY <1>7 DEF ExitCore, ServerTypes
  <2>2. StreamTypes'
    BY <1>7, ServerAssumption DEF ExitCore, StreamTypes
  <2> QED BY <1>7, <2>1, <2>2 DEF ExitCore
<1>8. CASE TakeReleased
  <2>1. ManagerTypes'
    BY <1>8, SmallLists DEF TakeReleased, ManagerTypes
  <2> QED BY <1>8, <2>1 DEF TakeReleased
<1>9. CASE ReleasedTaken
  <2>1. ManagerTypes'
    BY <1>9 DEF ReleasedTaken, ManagerTypes
  <2> QED BY <1>9, <2>1 DEF ReleasedTaken
<1> QED BY <1>1, <1>2, <1>3, <1>4, <1>5, <1>6, <1>7, <1>8, <1>9

\* What whoever releases a client does.
LEMMA ReleaseStepTypes ==
  ASSUME TypeOK, NEW r \in {"server", "monitor"}, StopClient(r) \/ DeleteClient(r)
  PROVE  TypeOK'
<1> USE TypeParts, TypePartsNext, SameTypes
<1> DEFINE c == Head(list[r])
<1>1. list[r] \in Seq(Clients) /\ list[r] # <<>>
  BY DEF StopClient, DeleteClient, ManagerTypes
<1>2. c \in Clients /\ Tail(list[r]) \in Seq(Clients)
  BY <1>1, TailFacts
<1>3. CASE StopClient(r)
  <2>1. CASE Misused("adapter", c)
    BY <1>2, <2>1, MisusedType
  <2>2. CASE ~Misused("adapter", c)
    <3>1. /\ thread' = thread /\ life' = life /\ link' = link
          /\ thread_end' = thread_end \/ thread_end' = [thread_end EXCEPT ![c] = TRUE]
          /\ passed' = passed \/ passed' = [passed EXCEPT ![r] = TRUE]
          /\ UNCHANGED <<monitor, end_flag, list, clients, release_list>>
      BY <1>3, <2>2 DEF StopClient
    <3>2. AdapterTypes'
      BY <1>2, <3>1 DEF AdapterTypes
    <3>3. ManagerTypes'
      BY <3>1 DEF ManagerTypes
    <3> QED BY <1>3, <2>2, <3>2, <3>3 DEF StopClient
  <2> QED BY <2>1, <2>2
<1>4. CASE DeleteClient(r)
  <2>1. CASE Misused("adapter", c) \/ Misused("thread", c)
    BY <1>2, <2>1, MisusedType
  <2>2. CASE ~(Misused("adapter", c) \/ Misused("thread", c))
    <3>1. /\ Delete(c) /\ list' = [list EXCEPT ![r] = Tail(list[r])]
          /\ passed' = [passed EXCEPT ![r] = FALSE]
          /\ UNCHANGED <<server_vars, monitor, end_flag, clients, release_list,
                         listener_vars, stream_vars, secondary_vars, misuse, faults>>
      BY <1>4, <2>2 DEF DeleteClient
    <3>2. AdapterTypes'
      BY <1>2, <3>1, DeleteType
    <3>3. ManagerTypes'
      BY <1>2, <3>1 DEF ManagerTypes
    <3> QED BY <3>1, <3>2, <3>3
  <2> QED BY <2>1, <2>2
<1> QED BY <1>3, <1>4

\* What the core gives back when it closes a stream.
LEMMA CloseInCoreType ==
  ASSUME TypeOK, NEW p \in Primaries, NEW ok \in BOOLEAN, CloseInCore(p, ok)
  PROVE  opened' \subseteq opened /\ locked' \in {locked, 0}
BY DEF CloseInCore

\* What the clients do with their streams, and the threads of those.
LEMMA StreamStepTypes ==
  ASSUME TypeOK, Streams, NEW p \in Primaries,
         \/ OpenStream(p) \/ CloseStream(p) \/ StreamClosed(p) \/ CloseAllStream(p)
         \/ AllStreamsClosed(p) \/ PopMessage(p) \/ EndWait(p) \/ LockInDeletedCore(p)
         \/ SendFrame(p) \/ CallBack(p) \/ \E m \in {"lock", "unlock"} : PushMessage(p, m)
  PROVE  TypeOK'
<1> USE TypeParts, TypePartsNext, SameTypes
<1>1. p \in Clients
  BY DEF Clients
<1>2. /\ stream[p] \in 0 .. MaxStreams /\ messages[p] \in Seq({"lock", "unlock"})
      /\ MaxStreams \in Nat /\ <<>> \in Seq({"lock", "unlock"})
      /\ locked \in 0 .. MaxStreams /\ streams \in 0 .. MaxStreams
  BY SmallLists, ServerAssumption DEF StreamTypes
<1>3. CASE Misused("core", p) \/ Misused("secondary", p) \/ Misused("stream", p)
  BY <1>1, <1>3, MisusedType
<1>4. CASE LockInDeletedCore(p) \/ SendFrame(p) \/ CallBack(p)
  BY <1>3, <1>4 DEF LockInDeletedCore, SendFrame, CallBack
<1>5. CASE OpenStream(p) /\ ~Misused("core", p)
  <2>1. PICK s \in 1 .. MaxStreams : s = streams + 1
    BY <1>2, <1>5 DEF OpenStream
  <2>2. PICK o \in [id : 1 .. MaxStreams, client : Primaries] : o = [id |-> s, client |-> p]
    OBVIOUS
  <2>3. /\ streams' = s /\ s \in 0 .. MaxStreams /\ opened' \subseteq opened \cup {o}
        /\ leaked' \in {leaked, leaked \cup {s}} /\ unstarted' \subseteq leaked'
    BY <1>2, <1>5, <2>1, <2>2 DEF OpenStream, StreamTypes
  <2>4. /\ stream' = stream \/ stream' = [stream EXCEPT ![p] = s]
        /\ UNCHANGED <<messages, locked, locks>>
    BY <1>5, <2>1 DEF OpenStream
  <2>5. /\ locking' \in [Primaries -> {"none", "pop", "wait", "timed_wait", "ended"}]
        /\ locking_end' \in [Primaries -> BOOLEAN]
    BY <1>5 DEF OpenStream, StreamTypes
  <2>6. StreamTypes'
    <3>1. stream' \in [Primaries -> 0 .. MaxStreams]
      BY <2>3, <2>4 DEF StreamTypes
    <3>2. opened' \subseteq [id : 1 .. MaxStreams, client : Primaries]
      BY <2>2, <2>3 DEF StreamTypes
    <3>3. leaked' \subseteq 1 .. MaxStreams /\ unstarted' \subseteq leaked'
      BY <2>3 DEF StreamTypes
    <3> QED BY <2>3, <2>4, <2>5, <3>1, <3>2, <3>3 DEF StreamTypes
  <2>7. OtherTypes'
    BY <1>5, SucceedsType DEF OpenStream, OtherTypes
  <2> QED BY <1>5, <2>6, <2>7 DEF OpenStream
<1>6. CASE \E m \in {"lock", "unlock"} : PushMessage(p, m)
  <2>1. PICK m \in {"lock", "unlock"} : PushMessage(p, m)
    BY <1>6
  <2>2. PICK new \in Seq({"lock", "unlock"}) : new = Append(messages[p], m)
    BY <1>2, AppendFacts
  <2>3. StreamTypes'
    BY <2>1, <2>2, SMTT(30) DEF PushMessage, StreamTypes
  <2> QED BY <2>1, <2>3 DEF PushMessage
<1>7. CASE CloseStream(p)
  <2>1. StreamTypes'
    BY <1>7 DEF CloseStream, StopMonitoring, StreamTypes
  <2>2. AdapterTypes'
    BY <1>1, <1>7 DEF CloseStream, AdapterTypes
  <2> QED BY <1>7, <2>1, <2>2 DEF CloseStream
<1>8. CASE StreamClosed(p) /\ ~Misused("core", p)
  <2>1. PICK ok \in BOOLEAN :
          /\ Succeeds("CloseStream", ok)
          /\ CloseInCore(p, ok)
          /\ stream' = [stream EXCEPT ![p] = IF ok THEN 0 ELSE @]
          /\ \E place \in {"none", "pop"} : locking' = [locking EXCEPT ![p] = place]
          /\ \E end \in BOOLEAN : locking_end' = [locking_end EXCEPT ![p] = end]
          /\ messages' \in {messages, [messages EXCEPT ![p] = <<>>]}
    BY <1>8 DEF StreamClosed
  <2>2. OtherTypes'
    BY <1>8, <2>1, SucceedsType DEF StreamClosed, OtherTypes
  <2>3. opened' \subseteq opened /\ locked' \in {locked, 0}
    BY <2>1, CloseInCoreType
  <2>4. /\ stream' \in [Primaries -> 0 .. MaxStreams]
        /\ locking' \in [Primaries -> {"none", "pop", "wait", "timed_wait", "ended"}]
        /\ locking_end' \in [Primaries -> BOOLEAN]
    BY <1>2, <2>1 DEF StreamTypes
  <2>5. messages' \in [Primaries -> Seq({"lock", "unlock"})]
    BY <1>2, <2>1 DEF StreamTypes
  <2>6. UNCHANGED <<leaked, unstarted, streams, locks>>
    BY <1>8 DEF StreamClosed
  <2>7. StreamTypes'
    BY <1>2, <2>3, <2>4, <2>5, <2>6 DEF StreamTypes
  <2>8. AdapterTypes'
    BY <1>1, <1>8 DEF StreamClosed, AdapterTypes
  <2> QED BY <1>8, <2>2, <2>7, <2>8 DEF StreamClosed
<1>9. CASE CloseAllStream(p)
  <2>1. StreamTypes'
    BY <1>9 DEF CloseAllStream, StopMonitoring, StreamTypes
  <2>2. AdapterTypes'
    BY <1>1, <1>9 DEF CloseAllStream, AdapterTypes
  <2> QED BY <1>9, <2>1, <2>2 DEF CloseAllStream
<1>10. CASE AllStreamsClosed(p) /\ ~Misused("core", p)
  <2>1. PICK ok \in BOOLEAN :
          /\ Succeeds("CloseStream", ok)
          /\ CloseInCore(p, ok)
          /\ leaked' = IF ok THEN leaked ELSE leaked \cup {stream[p]}
    BY <1>10 DEF AllStreamsClosed
  <2>2. OtherTypes'
    BY <1>10, <2>1, SucceedsType DEF AllStreamsClosed, OtherTypes
  <2>3. opened' \subseteq opened /\ locked' \in {locked, 0}
    BY <2>1, CloseInCoreType
  <2>4. stream[p] \in 1 .. MaxStreams
    <3>1. thread[p] = "close_all"
      BY <1>10 DEF AllStreamsClosed
    <3>2. stream[p] # 0
      BY <3>1 DEF Streams
    <3> QED BY <1>2, <3>2
  <2>5. leaked' \subseteq 1 .. MaxStreams /\ leaked \subseteq leaked'
    BY <2>1, <2>4 DEF StreamTypes
  <2>6. /\ stream' \in [Primaries -> 0 .. MaxStreams]
        /\ locking' \in [Primaries -> {"none", "pop", "wait", "timed_wait", "ended"}]
    <3>1. stream' = [stream EXCEPT ![p] = 0] /\ locking' = [locking EXCEPT ![p] = "none"]
      BY <1>10 DEF AllStreamsClosed
    <3>2. 0 \in 0 .. MaxStreams
      BY <1>2
    <3> QED BY <3>1, <3>2 DEF StreamTypes
  <2>7. messages' \in [Primaries -> Seq({"lock", "unlock"})]
    BY <1>2, <1>10 DEF AllStreamsClosed, StreamTypes
  <2>8. UNCHANGED <<locking_end, unstarted, streams, locks>>
    BY <1>10 DEF AllStreamsClosed
  <2>9. StreamTypes'
    <3>1. unstarted' \subseteq leaked'
      BY <2>5, <2>8 DEF StreamTypes
    <3>2. opened' \subseteq [id : 1 .. MaxStreams, client : Primaries]
      BY <2>3 DEF StreamTypes
    <3>3. locked' \in 0 .. MaxStreams
      BY <1>2, <2>3
    <3> QED BY <2>5, <2>6, <2>7, <2>8, <3>1, <3>2, <3>3 DEF StreamTypes
  <2>10. AdapterTypes'
    BY <1>1, <1>10 DEF AllStreamsClosed, AdapterTypes
  <2> QED BY <1>10, <2>2, <2>9, <2>10 DEF AllStreamsClosed
<1>11. CASE PopMessage(p)
  <2>1. messages' \in [Primaries -> Seq({"lock", "unlock"})]
    <3>1. CASE messages[p] = <<>>
      BY <1>11, <3>1 DEF PopMessage, StreamTypes
    <3>2. CASE messages[p] # <<>>
      <4>1. Tail(messages[p]) \in Seq({"lock", "unlock"})
        BY <1>2, <3>2, TailFacts
      <4> QED BY <1>11, <4>1 DEF PopMessage, StreamTypes
    <3> QED BY <3>1, <3>2
  <2>2. locked' \in {locked, 0, stream[p]}
    BY <1>11 DEF PopMessage
  <2>3. locking' \in [Primaries -> {"none", "pop", "wait", "timed_wait", "ended"}]
    BY <1>11 DEF PopMessage, StreamTypes
  <2>4. StreamTypes'
    BY <1>2, <1>11, <2>1, <2>2, <2>3 DEF PopMessage, StreamTypes
  <2> QED BY <1>11, <2>4 DEF PopMessage
<1>12. CASE EndWait(p)
  <2>1. StreamTypes'
    BY <1>2, <1>12 DEF EndWait, StreamTypes
  <2> QED BY <1>12, <2>1 DEF EndWait
<1> QED
  BY <1>3, <1>4, <1>5, <1>6, <1>7, <1>8, <1>9, <1>10, <1>11, <1>12

\* What a secondary client does.
LEMMA SecondaryStepTypes ==
  ASSUME TypeOK, NEW s \in Secondaries,
         Detach(s) \/ \E p \in Primaries : Attach(s, p)
  PROVE  TypeOK'
<1> USE TypeParts, TypePartsNext, SameTypes
<1>1. CASE Detach(s)
  <2>1. AdapterTypes'
    BY <1>1 DEF Detach, AdapterTypes, Clients
  <2>2. SecondaryTypes'
    BY <1>1, ServerAssumption DEF Detach, Detached, SecondaryTypes
  <2> QED BY <1>1, <2>1, <2>2 DEF Detach
<1>2. CASE \E p \in Primaries : Attach(s, p)
  <2>1. PICK p \in Primaries : Attach(s, p)
    BY <1>2
  <2>2. stream[p] \in 0 .. MaxStreams
    BY DEF StreamTypes
  <2>3. SecondaryTypes'
    BY <2>1, <2>2 DEF Attach, SecondaryTypes
  <2> QED BY <2>1, <2>3 DEF Attach
<1> QED BY <1>1, <1>2

\* A step of Next is one of these.
LEMMA StepKinds ==
  ASSUME Next
  PROVE  /\ misuse = NoMisuse
         /\ \/ \/ OpenServer \/ CloseServer \/ JoinMonitor \/ ReleaseNext \/ RestReleased
               \/ StopListener \/ ExitCore \/ TakeReleased \/ ReleasedTaken
            \/ \E r \in {"server", "monitor"} : ReleaseStep(r)
            \/ \E l \in Listeners :
                 \/ EndListening(l) \/ Register(l) \/ StartClient(l) \/ ClientStarted(l)
                 \/ DeleteFailed(l)
            \/ \E c \in Clients :
                 Disconnect(c) \/ Accept(Kind(c), c) \/ EndMonitoring(c) \/ ReleaseSelf(c)
            \/ \E p \in Primaries :
                 \/ OpenStream(p) \/ CloseStream(p) \/ StreamClosed(p) \/ CloseAllStream(p)
                 \/ AllStreamsClosed(p) \/ PopMessage(p) \/ EndWait(p) \/ LockInDeletedCore(p)
                 \/ SendFrame(p) \/ CallBack(p) \/ \E m \in {"lock", "unlock"} : PushMessage(p, m)
            \/ \E s \in Secondaries : Detach(s) \/ \E p \in Primaries : Attach(s, p)
BY DEF Next, ThreadStep, Request

LEMMA NextTypeOK == TypeOK /\ Accepted /\ Streams /\ Next => TypeOK'
<1> SUFFICES ASSUME TypeOK, Accepted, Streams, Next PROVE TypeOK'
  OBVIOUS
<1> QED
  BY StepKinds, ServerStepTypes, ReleaseStepTypes, ListenerStepTypes, ClientStepTypes,
     StreamStepTypes, SecondaryStepTypes DEF ReleaseStep

----------------------------------------------------------------------------
(***************************************************************************)
(* Steps that leave the adapters, or the streams, as they are              *)
(***************************************************************************)
Same == UNCHANGED <<server, core, orphans, monitor, end_flag, list, clients, release_list,
                    listener_vars, life>>

\* A thread that runs goes on, and a connection breaks.
Calm ==
  /\ Same
  /\ \A c \in Clients :
       /\ thread'[c] = thread[c] \/ (thread[c] \notin {"none", "ended"} /\ thread'[c] # "none")
       /\ link'[c] = link[c] \/ link'[c] # "away"

LEMMA CalmKeeps ==
  ASSUME TypeOK, AdapterInv, Calm
  PROVE  AdapterInv'
<1> USE DEF AdapterInv, Calm, Same, monitor_vars, listener_vars
<1>1. Phases'
  BY DEF Phases, Emptied
<1>2. InOneList'
  BY DEF InOneList
<1>3. \A c \in Clients : IsReleased(c)' => IsReleased(c)
  BY DEF IsReleased
<1>4. \A c \in Clients : InSomeList(c)' => InSomeList(c)
  BY DEF InSomeList
<1>5. Adapters'
  BY <1>3, <1>4 DEF Adapters
<1>6. Accepted'
  <2> SUFFICES ASSUME NEW l \in Listeners, listener[l] \in {"register", "start", "started", "delete"}
               PROVE  Accepted!(l)!2'
    BY DEF Accepted
  <2> QED BY <1>3, <1>4 DEF Accepted
<1> QED BY <1>1, <1>2, <1>5, <1>6

\* The use of a deleted object that NoUseAfterDelete allows.
Justified(what, c) ==
  /\ what = "adapter" => c \in failed
  /\ what = "start" =>
       ~Contains(clients, c) /\ (server # "idle" \/ listener[Kind(c)] = "started")
  /\ what = "thread" => server = "release" /\ passed["server"]
  /\ what = "core" => ~Contains(clients, c)
  /\ what = "secondary" => attached[c] # stream[c] \/ thread[c] = "close_all"
  /\ what = "stream" => \E o \in opened : o.client = c /\ o.id \in leaked

LEMMA MisusedKeeps ==
  ASSUME TypeOK, AdapterInv, StreamInv,
         NEW what \in {"adapter", "start", "thread", "core", "secondary", "stream"}, NEW c \in Clients, Misused(what, c), Justified(what, c)
  PROVE  AdapterInv' /\ StreamInv' /\ NoUseAfterDelete'
<1>1. /\ misuse' = [of |-> what, client |-> c]
      /\ UNCHANGED <<server_vars, monitor_vars, clients, release_list, listener_vars, link,
                     life, client_vars, stream_vars, secondary_vars, faults>>
  BY DEF Misused
<1>2. Calm
  BY <1>1 DEF Calm, Same, server_vars, monitor_vars, client_vars
<1>3. AdapterInv'
  BY <1>2, CalmKeeps
<1>4. UNCHANGED <<server, list, passed, listener, clients, orphans, life, thread, stream, locking, opened, locked,
                  leaked, streams, secondary, attached, saved, failed>>
  BY <1>1 DEF server_vars, monitor_vars, listener_vars, client_vars, stream_vars, secondary_vars
<1>5. StreamInv'
  BY <1>4 DEF StreamInv, Streams, StreamOf, OpenStreamsOwned, Secondary, BeingReleased
<1>6. NoUseAfterDelete'
  BY <1>1, <1>4 DEF NoUseAfterDelete, Justified
<1> QED BY <1>3, <1>5, <1>6

\* No deleted object is used.
LEMMA NoMisuseKeeps ==
  ASSUME misuse' = NoMisuse
  PROVE  NoUseAfterDelete'
BY DEF NoUseAfterDelete, NoMisuse, None

\* Streams, and who carries frames for whom, stay; a thread begins or ends,
\* an adapter comes or goes.
Aside ==
  /\ UNCHANGED <<stream_vars, orphans, secondary_vars>>
  /\ \A c \in Clients :
       \/ /\ thread'[c] = thread[c]
          /\ life'[c] = life[c] \/ (life[c] = "none" /\ life'[c] = "alive")
       \/ thread[c] = "none" /\ thread'[c] = "run" /\ life[c] = "alive" /\ life'[c] = "alive"
       \/ thread[c] = "release" /\ thread'[c] = "ended" /\ life'[c] = life[c]
       \/ thread[c] \in {"none", "ended"} /\ thread'[c] = "none" /\ life'[c] = "deleted"
  /\ \A p \in Primaries : thread'[p] \notin {"none", "ended"} =>
       /\ Contains(clients, p) => Contains(clients', p) \/ BeingReleased(p)'
       /\ BeingReleased(p) => BeingReleased(p)'
  /\ \A p \in Primaries : BeingReleased(p) =>
       \A c \in Secondaries : thread[c] = "ended" => thread'[c] = "ended"

LEMMA AsideKeeps ==
  ASSUME TypeOK, AdapterInv, StreamInv, Aside
  PROVE  StreamInv'
<1> USE DEF StreamInv
<1>1. UNCHANGED <<stream, locking, opened, locked, leaked, streams, orphans, secondary, attached,
                  saved>>
  BY DEF Aside, stream_vars, secondary_vars
<1>2. \A c \in Clients :
       \/ /\ thread'[c] = thread[c]
          /\ life'[c] = life[c] \/ (life[c] = "none" /\ life'[c] = "alive")
       \/ thread[c] = "none" /\ thread'[c] = "run" /\ life[c] = "alive" /\ life'[c] = "alive"
       \/ thread[c] = "release" /\ thread'[c] = "ended" /\ life'[c] = life[c]
       \/ thread[c] \in {"none", "ended"} /\ thread'[c] = "none" /\ life'[c] = "deleted"
  BY DEF Aside
<1>3. \A p \in Primaries :
        /\ stream[p] # 0 => thread[p] \in {"run", "close", "finish", "close_all"}
        /\ stream[p] # 0 => thread'[p] = thread[p] /\ life[p] = "alive" /\ life'[p] = "alive"
  BY <1>2 DEF AdapterInv, Adapters, Streams, Clients
<1>4. Streams'
  <2> SUFFICES ASSUME NEW p \in Primaries
               PROVE  /\ stream[p] <= streams
                      /\ stream[p] # 0 => thread'[p] \in {"run", "close", "finish", "close_all"}
                      /\ thread'[p] \in {"close", "close_all"} => stream[p] # 0
                      /\ locking[p] # "none" => stream[p] # 0
                      /\ stream[p] # 0 /\ p \notin orphans => StreamOf(p) \in opened
    BY <1>1 DEF Streams, StreamOf
  <2>1. p \in Clients
    BY DEF Clients
  <2> QED BY <1>2, <1>3, <2>1 DEF Streams
<1>5. OpenStreamsOwned'
  <2>1. \A o \in opened : o.id # 0 /\ o.client \in Primaries
    BY DEF TypeOK
  <2> QED BY <1>1, <1>3, <2>1 DEF OpenStreamsOwned
<1>6. Secondary'
  <2> SUFFICES ASSUME NEW p \in Primaries PROVE Secondary!(p)'
    BY DEF Secondary
  <2>1. p \in Clients /\ (secondary[p] = None \/ secondary[p] \in Secondaries)
    BY DEF Clients, TypeOK
  <2>2. attached'[p] <= streams'
    BY <1>1 DEF Secondary
  <2>3. thread'[p] = "none" /\ life'[p] # "deleted" => secondary'[p] = None
    BY <1>1, <1>2, <2>1 DEF Secondary
  <2>4. secondary'[p] # None /\ thread'[p] \in {"run", "close", "finish"} =>
          Contains(clients', p) \/ BeingReleased(p)'
    BY <1>1, <1>2, <2>1 DEF Secondary, Aside
  <2>5. ASSUME secondary'[p] # None, stream'[p] # 0, attached'[p] = stream'[p],
               thread'[p] # "close_all"
        PROVE  \/ /\ thread'[secondary'[p]] \in {"run", "finish"}
                  /\ saved'[secondary'[p]] = stream'[p]
               \/ BeingReleased(p)' /\ thread'[secondary'[p]] \in {"release", "ended"}
    <3>1. secondary[p] \in Secondaries /\ secondary[p] \in Clients
      BY <1>1, <2>1, <2>5 DEF Clients
    <3>2. thread'[p] = thread[p] /\ thread[p] \in {"run", "close", "finish", "close_all"}
      BY <1>1, <1>3, <2>5
    <3>3. \/ thread[secondary[p]] \in {"run", "finish"} /\ saved[secondary[p]] = stream[p]
          \/ BeingReleased(p) /\ thread[secondary[p]] \in {"release", "ended"}
      BY <1>1, <2>5, <3>2 DEF Secondary
    <3>4. CASE thread[secondary[p]] \in {"run", "finish"} /\ saved[secondary[p]] = stream[p]
      BY <1>1, <1>2, <3>1, <3>4
    <3>5. CASE BeingReleased(p) /\ thread[secondary[p]] \in {"release", "ended"}
      <4>1. BeingReleased(p)'
        BY <2>5, <3>2, <3>5 DEF Aside
      <4>2. thread'[secondary[p]] \in {"release", "ended"}
        BY <1>2, <3>1, <3>5 DEF Aside
      <4> QED BY <1>1, <4>1, <4>2
    <3> QED BY <3>3, <3>4, <3>5
  <2> QED BY <2>2, <2>3, <2>4, <2>5
<1> QED BY <1>4, <1>5, <1>6

----------------------------------------------------------------------------
(***************************************************************************)
(* Steps that concern the stream of one primary                            *)
(***************************************************************************)
\* Nothing changes but the stream of p, its thread and what is locked; the
\* stream leaves the core only when p forgets it.
Touches(p) ==
  /\ UNCHANGED <<server, list, clients, orphans, life, secondary, attached, saved>>
  /\ \A c \in Clients : c # p => thread'[c] = thread[c]
  /\ \A q \in Primaries : q # p => stream'[q] = stream[q] /\ locking'[q] = locking[q]
  /\ streams <= streams' /\ leaked \subseteq leaked'
  /\ \A o \in opened' : o \in opened \cup {StreamOf(p)'} \/ o.id \in leaked'
  /\ opened \subseteq opened' \cup {StreamOf(p)}
  /\ StreamOf(p) \in opened' => stream'[p] = stream[p] \/ stream[p] \in leaked'
  /\ locked' # 0 => \E o \in opened' : o.id = locked'
  /\ stream'[p] <= streams'
  /\ stream'[p] # 0 => thread'[p] \in {"run", "close", "finish", "close_all"}
  /\ thread'[p] \in {"close", "close_all"} => stream'[p] # 0
  /\ locking'[p] # "none" => stream'[p] # 0
  /\ stream'[p] # 0 /\ p \notin orphans => StreamOf(p)' \in opened'
  /\ thread'[p] \in {"run", "close", "finish"} => thread[p] \in {"run", "close", "finish"}
  /\ thread'[p] = "none" => thread[p] = "none"
  /\ stream'[p] # 0 /\ thread'[p] # "close_all" =>
       \/ stream'[p] = stream[p] /\ thread[p] # "close_all"
       \/ attached[p] # stream'[p]

LEMMA TouchesKeeps ==
  ASSUME TypeOK, TypeOK', AdapterInv, StreamInv, NEW p \in Primaries, Touches(p),
         thread[p] # "none"
  PROVE  StreamInv'
<1> USE DEF StreamInv
<1>1. /\ UNCHANGED <<server, list, clients, orphans, life, secondary, attached, saved>>
      /\ \A c \in Clients : c # p => thread'[c] = thread[c]
      /\ \A q \in Primaries : q # p => stream'[q] = stream[q] /\ locking'[q] = locking[q]
  BY DEF Touches
<1>2. p \in Clients /\ life[p] = "alive"
  BY DEF Clients, AdapterInv, Adapters
<1>3. \A q \in Primaries : q \in Clients
  BY DEF Clients
<1>4. streams \in Nat /\ streams' \in Nat /\ \A q \in Primaries :
        stream[q] \in Nat /\ stream'[q] \in Nat /\ attached[q] \in Nat
  BY ServerAssumption DEF TypeOK
<1>5. Streams'
  <2> SUFFICES ASSUME NEW q \in Primaries PROVE Streams!(q)'
    BY DEF Streams
  <2>1. CASE q = p
    BY <1>1, <2>1 DEF Touches
  <2>2. CASE q # p
    <3>1. StreamOf(q)' = StreamOf(q) /\ StreamOf(q) # StreamOf(p)
      BY <1>1, <2>2 DEF StreamOf
    <3>2. StreamOf(q) \in opened => StreamOf(q)' \in opened'
      BY <3>1 DEF Touches
    <3>3. stream'[q] <= streams'
      <4>1. stream[q] <= streams /\ streams <= streams'
        BY DEF Streams, Touches
      <4> QED BY <1>1, <1>4, <2>2, <4>1
    <3> QED BY <1>1, <1>3, <2>2, <3>2, <3>3 DEF Streams
  <2> QED BY <2>1, <2>2
<1>6. OpenStreamsOwned'
  <2>1. ASSUME NEW o \in opened'
        PROVE  \/ o.id \in leaked'
               \/ stream'[o.client] = o.id /\ life'[o.client] = "alive"
    <3>1. CASE o = StreamOf(p)'
      BY <1>1, <1>2, <3>1 DEF StreamOf
    <3>2. CASE o \in opened
      <4>1. o.client \in Primaries /\ o = [id |-> o.id, client |-> o.client]
        BY <3>2 DEF TypeOK
      <4>2. CASE o.id \in leaked
        BY <4>2 DEF Touches
      <4>3. CASE stream[o.client] = o.id /\ life[o.client] = "alive" /\ o.client # p
        BY <1>1, <4>1, <4>3
      <4>4. CASE stream[o.client] = o.id /\ o.client = p
        <5>1. o = StreamOf(p)
          BY <4>1, <4>4 DEF StreamOf
        <5>2. stream'[p] = stream[p] \/ stream[p] \in leaked'
          BY <2>1, <5>1 DEF Touches
        <5> QED BY <1>1, <1>2, <4>4, <5>2
      <4> QED BY <3>2, <4>2, <4>3, <4>4 DEF OpenStreamsOwned
    <3>3. CASE o.id \in leaked'
      BY <3>3
    <3> QED BY <3>1, <3>2, <3>3 DEF Touches
  <2>2. locked' # 0 => \E o \in opened' : o.id = locked'
    BY DEF Touches
  <2> QED BY <2>1, <2>2 DEF OpenStreamsOwned
<1>7. \A q \in Primaries : BeingReleased(q)' <=> BeingReleased(q)
  BY <1>1 DEF BeingReleased
<1>8. Secondary'
  <2> SUFFICES ASSUME NEW q \in Primaries PROVE Secondary!(q)'
    BY DEF Secondary
  <2>1. attached'[q] <= streams'
    <3>1. attached[q] <= streams /\ streams <= streams'
      BY DEF Secondary, Touches
    <3> QED BY <1>1, <1>4, <3>1
  <2>2. secondary[q] # None => secondary[q] \in Clients /\ thread'[secondary[q]] = thread[secondary[q]]
    <3>1. secondary[q] # None => secondary[q] \in Secondaries /\ secondary[q] # p
      BY ServerAssumption DEF TypeOK
    <3> QED BY <1>1, <3>1 DEF Clients
  <2>3. thread'[q] = "none" => thread[q] = "none"
    BY <1>1, <1>3 DEF Touches
  <2>4. thread'[q] \in {"run", "close", "finish"} => thread[q] \in {"run", "close", "finish"}
    BY <1>1, <1>3 DEF Touches
  <2>5. stream'[q] # 0 /\ thread'[q] # "close_all" /\ attached[q] = stream'[q] =>
          stream'[q] = stream[q] /\ thread[q] # "close_all"
    BY <1>1, <1>3 DEF Touches
  <2>6. Secondary!(q)
    BY DEF Secondary
  <2> QED BY <1>1, <1>7, <2>1, <2>2, <2>3, <2>4, <2>5, <2>6
<1> QED BY <1>5, <1>6, <1>8

\* What every step has to keep besides the types.
Kept == AdapterInv' /\ StreamInv' /\ NoUseAfterDelete'

\* A client that came too late for Close uses the core that Close deleted.
LEMMA CoreMisuse ==
  ASSUME TypeOK, AdapterInv, StreamInv, NEW p \in Primaries, p \in orphans, Misused("core", p)
  PROVE  Kept
<1>1. p \in Clients /\ Justified("core", p)
  BY DEF Clients, Justified, AdapterInv, Adapters
<1> QED BY <1>1, MisusedKeeps DEF Kept

\* How streams, threads and locks are related before a step.
LEMMA StreamFacts ==
  ASSUME TypeOK, AdapterInv, StreamInv, NEW p \in Primaries
  PROVE  /\ p \in Clients /\ stream[p] \in Nat /\ streams \in Nat /\ attached[p] \in Nat
         /\ stream[p] <= streams /\ attached[p] <= streams
         /\ stream[p] # 0 => thread[p] \in {"run", "close", "finish", "close_all"}
         /\ thread[p] \in {"close", "close_all"} => stream[p] # 0
         /\ locking[p] # "none" => stream[p] # 0
         /\ stream[p] # 0 /\ p \notin orphans => StreamOf(p) \in opened
         /\ \A o \in opened : o.id # 0
         /\ locked # 0 => \E o \in opened : o.id = locked
         /\ StreamOf(p).id = stream[p]
<1>1. p \in Clients
  BY DEF Clients
<1>2. stream[p] \in Nat /\ streams \in Nat /\ attached[p] \in Nat /\ \A o \in opened : o.id # 0
  BY ServerAssumption DEF TypeOK
<1>3. StreamOf(p).id = stream[p]
  BY DEF StreamOf
<1>4. attached[p] <= streams
  BY DEF StreamInv, Secondary
<1>5. locked # 0 => \E o \in opened : o.id = locked
  BY DEF StreamInv, OpenStreamsOwned
<1> QED BY <1>1, <1>2, <1>3, <1>4, <1>5 DEF StreamInv, Streams

\* A step that touches the stream of p, and the adapters not.
LEMMA TouchesAll ==
  ASSUME TypeOK, TypeOK', AdapterInv, StreamInv, misuse = NoMisuse, misuse' = misuse,
         NEW p \in Primaries, Touches(p), thread[p] \notin {"none", "ended"}, thread'[p] # "none",
         Same, link' = link
  PROVE  Kept
<1>1. Calm
  BY DEF Calm, Touches, Clients
<1> QED BY <1>1, CalmKeeps, TouchesKeeps, NoMisuseKeeps DEF Kept

LEMMA OpenStreamKeeps ==
  ASSUME TypeOK, TypeOK', AdapterInv, StreamInv, misuse = NoMisuse, NEW p \in Primaries,
         OpenStream(p)
  PROVE  Kept
<1> USE StreamFacts
<1>1. CASE p \in orphans
  BY <1>1, CoreMisuse DEF OpenStream
<1>2. CASE p \notin orphans
  <2> DEFINE o == [id |-> streams + 1, client |-> p]
  <2>1. /\ thread[p] = "run" /\ stream[p] = 0 /\ streams' = streams + 1
        /\ UNCHANGED <<server_vars, monitor_vars, clients, release_list, listener_vars, link,
                       life, client_vars, locked, secondary_vars, misuse>>
        /\ \/ /\ stream' = [stream EXCEPT ![p] = streams + 1]
              /\ locking' = [locking EXCEPT ![p] = "pop"]
              /\ opened' = opened \cup {o} /\ leaked' = leaked
           \/ /\ UNCHANGED <<stream, locking>> /\ leaked \subseteq leaked'
              /\ opened' = opened \/ (opened' = opened \cup {o} /\ o.id \in leaked')
    BY <1>2 DEF OpenStream, Receives
  <2>2. /\ UNCHANGED <<server, core, orphans, list, thread, secondary, attached, saved>>
        /\ Same
    BY <2>1 DEF server_vars, monitor_vars, client_vars, secondary_vars, Same
  <2>3. /\ \A q \in Primaries : q # p => stream'[q] = stream[q] /\ locking'[q] = locking[q]
        /\ \/ stream'[p] = streams + 1 /\ opened' = opened \cup {o} /\ leaked' = leaked
           \/ /\ UNCHANGED <<stream, locking>> /\ leaked \subseteq leaked'
              /\ opened' = opened \/ (opened' = opened \cup {o} /\ o.id \in leaked')
    <3>1. /\ [stream EXCEPT ![p] = streams + 1][p] = streams + 1
          /\ \A q \in Primaries : q # p =>
               /\ [stream EXCEPT ![p] = streams + 1][q] = stream[q]
               /\ [locking EXCEPT ![p] = "pop"][q] = locking[q]
      BY TypeParts DEF StreamTypes
    <3> QED BY <2>1, <3>1
  <2> HIDE DEF o
  <2>4. o.id = streams + 1 /\ (stream'[p] = streams + 1 => o = StreamOf(p)')
    BY DEF StreamOf, o
  <2>5. attached[p] # streams + 1 /\ streams + 1 # 0 /\ streams + 1 <= streams'
        /\ streams <= streams' /\ 0 <= streams'
    BY <2>1
  <2>6. StreamOf(p) \notin opened'
    <3>1. StreamOf(p).id = 0 /\ \A q \in opened' : q.id # 0
      BY <2>1, <2>3, <2>4, <2>5
    <3> QED BY <3>1
  <2>7. /\ \A q \in opened' : q \in opened \cup {StreamOf(p)'} \/ q.id \in leaked'
        /\ opened \subseteq opened' /\ leaked \subseteq leaked'
        /\ stream'[p] # 0 => StreamOf(p)' \in opened'
    BY <2>1, <2>3, <2>4
  <2>8. locked' # 0 => \E q \in opened' : q.id = locked'
    BY <2>1, <2>7
  <2>9. stream'[p] \in {0, streams + 1} /\ (locking'[p] # "none" => stream'[p] # 0)
    BY <2>1, <2>3, <2>5
  <2>10. Touches(p)
    BY <2>1, <2>2, <2>3, <2>5, <2>6, <2>7, <2>8, <2>9 DEF Touches
  <2> QED BY <2>1, <2>2, <2>10, TouchesAll
<1> QED BY <1>1, <1>2

\* Requests are queued, taken, and waited for; streams stay.
LEMMA LockStepKeeps ==
  ASSUME TypeOK, TypeOK', AdapterInv, StreamInv, misuse = NoMisuse, NEW p \in Primaries,
         \/ PopMessage(p) \/ EndWait(p) \/ \E m \in {"lock", "unlock"} : PushMessage(p, m)
  PROVE  Kept
<1> USE StreamFacts
<1>1. /\ UNCHANGED <<server_vars, monitor_vars, clients, release_list, listener_vars, link, life,
                     client_vars, stream, opened, leaked, streams, secondary_vars, misuse>>
  BY DEF PopMessage, EndWait, PushMessage
<1>2. /\ UNCHANGED <<server, core, orphans, list, thread, secondary, attached, saved>>
      /\ Same
  BY <1>1 DEF server_vars, monitor_vars, client_vars, secondary_vars, Same
<1>3. /\ \A q \in Primaries : q # p => locking'[q] = locking[q]
      /\ locking'[p] # "none" => stream[p] # 0
      /\ stream[p] # 0
  <2>1. CASE PopMessage(p) \/ EndWait(p)
    <3>1. locking[p] # "none"
      BY <2>1 DEF PopMessage, EndWait
    <3>2. locking' = locking \/ \E w : locking' = [locking EXCEPT ![p] = w]
      BY <2>1 DEF PopMessage, EndWait
    <3> QED BY <3>1, <3>2, TypeParts DEF StreamTypes
  <2>2. CASE \E m \in {"lock", "unlock"} : PushMessage(p, m)
    BY <2>2 DEF PushMessage, Receives
  <2> QED BY <2>1, <2>2
<1>4. locked' \in {locked, 0} \/ (locked' = stream[p] /\ p \notin orphans)
  BY DEF PopMessage, EndWait, PushMessage
<1>5. locked' # 0 => \E o \in opened' : o.id = locked'
  BY <1>1, <1>3, <1>4
<1>6. StreamOf(p)' = StreamOf(p)
  BY <1>1 DEF StreamOf
<1>7. Touches(p)
  BY <1>1, <1>2, <1>3, <1>5, <1>6 DEF Touches
<1> QED BY <1>1, <1>2, <1>3, <1>7, TouchesAll

LEMMA LockMisuse ==
  ASSUME TypeOK, AdapterInv, StreamInv, NEW p \in Primaries, LockInDeletedCore(p)
  PROVE  Kept
BY CoreMisuse DEF LockInDeletedCore

\* A stream is told to end, by a request or when its client has gone.
LEMMA CloseStreamKeeps ==
  ASSUME TypeOK, TypeOK', AdapterInv, StreamInv, misuse = NoMisuse, NEW p \in Primaries,
         CloseStream(p) \/ CloseAllStream(p)
  PROVE  Kept
<1> USE StreamFacts
<1>1. UNCHANGED <<server_vars, monitor_vars, clients, release_list, listener_vars, link, life,
                  thread_end, stream, locking, messages, opened, locked, leaked, streams, locks,
                  secondary_vars, misuse>>
  BY DEF CloseStream, CloseAllStream
<1>2. /\ UNCHANGED <<server, core, orphans, list, secondary, attached, saved>>
      /\ Same
  BY <1>1 DEF server_vars, monitor_vars, secondary_vars, Same
<1>3. \/ thread[p] = "run" /\ stream[p] # 0 /\ thread' = [thread EXCEPT ![p] = "close"]
      \/ thread[p] = "finish" /\ stream[p] # 0 /\ thread' = [thread EXCEPT ![p] = "close_all"]
      \/ thread[p] = "finish" /\ stream[p] = 0 /\ thread' = [thread EXCEPT ![p] = "release"]
  BY DEF CloseStream, CloseAllStream, Receives
<1>4. /\ \A c \in Clients : c # p => thread'[c] = thread[c]
      /\ \/ thread[p] = "run" /\ stream[p] # 0 /\ thread'[p] = "close"
         \/ thread[p] = "finish" /\ stream[p] # 0 /\ thread'[p] = "close_all"
         \/ thread[p] = "finish" /\ stream[p] = 0 /\ thread'[p] = "release"
  BY <1>3, TypeParts DEF AdapterTypes
<1>5. StreamOf(p)' = StreamOf(p)
  BY <1>1 DEF StreamOf
<1>6. Touches(p)
  BY <1>1, <1>2, <1>4, <1>5 DEF Touches
<1> QED BY <1>1, <1>2, <1>4, <1>6, TouchesAll

\* The core has closed the stream, or has refused to.
LEMMA StreamClosedKeeps ==
  ASSUME TypeOK, TypeOK', AdapterInv, StreamInv, misuse = NoMisuse, NEW p \in Primaries,
         StreamClosed(p) \/ AllStreamsClosed(p)
  PROVE  Kept
<1> USE StreamFacts
<1>1. CASE p \in orphans
  BY <1>1, CoreMisuse DEF StreamClosed, AllStreamsClosed
<1>2. CASE p \notin orphans
  <2>1. /\ thread[p] \in {"close", "close_all"}
        /\ UNCHANGED <<server_vars, monitor_vars, clients, release_list, listener_vars, link, life,
                       thread_end, streams, secondary_vars, misuse>>
    BY <1>2 DEF StreamClosed, AllStreamsClosed
  <2>2. PICK ok \in BOOLEAN :
          /\ CloseInCore(p, ok)
          /\ \/ /\ thread' = [thread EXCEPT ![p] = "run"]
                /\ \E place \in {"none", "pop"} :
                     /\ locking' = [locking EXCEPT ![p] = place]
                     /\ ok => place = "none"
                /\ stream' = [stream EXCEPT ![p] = IF ok THEN 0 ELSE @]
                /\ leaked' = leaked /\ thread[p] = "close"
             \/ /\ thread' = [thread EXCEPT ![p] = "release"]
                /\ locking' = [locking EXCEPT ![p] = "none"]
                /\ stream' = [stream EXCEPT ![p] = 0]
                /\ leaked' = IF ok THEN leaked ELSE leaked \cup {stream[p]}
    BY <1>2 DEF StreamClosed, AllStreamsClosed
  <2>3. /\ UNCHANGED <<server, core, orphans, list, secondary, attached, saved>>
        /\ Same
    BY <2>1 DEF server_vars, monitor_vars, secondary_vars, Same
  <2>4. \A c \in Clients : c # p => thread'[c] = thread[c]
    BY <2>2, TypeParts DEF AdapterTypes
  <2>5. \A q \in Primaries : q # p => stream'[q] = stream[q] /\ locking'[q] = locking[q]
    BY <2>2, TypeParts DEF StreamTypes
  <2>6. \/ /\ thread'[p] = "release" /\ stream'[p] = 0 /\ locking'[p] = "none"
           /\ leaked' = IF ok THEN leaked ELSE leaked \cup {stream[p]}
        \/ /\ thread'[p] = "run" /\ thread[p] = "close" /\ leaked' = leaked
           /\ stream'[p] = IF ok THEN 0 ELSE stream[p]
           /\ ok => locking'[p] = "none"
    <3>1. /\ [thread EXCEPT ![p] = "run"][p] = "run"
          /\ [thread EXCEPT ![p] = "release"][p] = "release"
      BY TypeParts DEF AdapterTypes
    <3>2. \A v : [stream EXCEPT ![p] = v][p] = v /\ [locking EXCEPT ![p] = v][p] = v
      BY TypeParts DEF StreamTypes
    <3>3. CASE thread' = [thread EXCEPT ![p] = "run"] /\ thread' # [thread EXCEPT ![p] = "release"]
      BY <2>2, <3>1, <3>2, <3>3, ZenonT(30)
    <3>4. CASE thread' = [thread EXCEPT ![p] = "release"]
      BY <2>2, <3>1, <3>2, <3>4
    <3> QED BY <2>2, <3>3, <3>4
  <2>7. opened' = IF ok THEN opened \ {StreamOf(p)} ELSE opened
    BY <2>2 DEF CloseInCore, StreamOf
  <2>8. /\ leaked \subseteq leaked'
        /\ ~ok => stream'[p] = stream[p] \/ stream[p] \in leaked'
    BY <2>6
  <2>9. stream[p] # 0 /\ StreamOf(p) \in opened
    BY <1>2, <2>1
  <2>10. locked' # 0 => \E o \in opened' : o.id = locked'
    <3>1. CASE locked = stream[p]
      <4>1. locked' = 0 \/ (~ok /\ locked' = stream[p])
        BY <2>2, <3>1 DEF CloseInCore
      <4> QED BY <2>7, <2>9, <4>1
    <3>2. CASE locked # stream[p]
      <4>1. locked' = locked
        BY <2>2, <3>2 DEF CloseInCore
      <4> QED BY <2>7, <3>2, <4>1
    <3> QED BY <3>1, <3>2
  <2>11. stream'[p] # 0 => StreamOf(p)' = StreamOf(p) /\ ~ok
    BY <2>6 DEF StreamOf
  <2>12. Touches(p)
    BY <2>1, <2>3, <2>4, <2>5, <2>6, <2>7, <2>8, <2>9, <2>10, <2>11 DEF Touches
  <2> QED BY <2>1, <2>3, <2>6, <2>12, TouchesAll
<1> QED BY <1>1, <1>2

\* The frame callback finds the secondary adapter deleted: its primary had
\* closed the stream for which it was attached.
LEMMA SendFrameKeeps ==
  ASSUME TypeOK, AdapterInv, StreamInv, NEW p \in Primaries, SendFrame(p)
  PROVE  Kept
<1> DEFINE s == secondary[p]
<1>1. p \in Clients /\ stream[p] # 0 /\ s # None /\ life[s] = "deleted" /\ Misused("secondary", p)
  BY DEF SendFrame, Clients
<1>2. s \in Clients
  BY <1>1 DEF TypeOK, Clients
<1>3. thread[s] = "none"
  BY <1>1, <1>2 DEF AdapterInv, Adapters
<1>4. attached[p] # stream[p] \/ thread[p] = "close_all"
  BY <1>1, <1>3 DEF StreamInv, Secondary
<1>5. Justified("secondary", p)
  BY <1>4 DEF Justified
<1> QED BY <1>1, <1>5, MisusedKeeps DEF Kept

\* A stream that the core has kept open calls the adapter that is deleted.
LEMMA CallBackKeeps ==
  ASSUME TypeOK, AdapterInv, StreamInv, NEW p \in Primaries, CallBack(p)
  PROVE  Kept
<1>1. p \in Clients /\ Misused("stream", p)
  BY DEF CallBack, Clients
<1>2. PICK o \in opened : o.client = p /\ o.id # stream[p]
  BY DEF CallBack
<1>3. o.id \in leaked
  BY <1>2 DEF StreamInv, OpenStreamsOwned
<1>4. Justified("stream", p)
  BY <1>2, <1>3 DEF Justified
<1> QED BY <1>1, <1>4, MisusedKeeps DEF Kept

\* The receiving thread leaves its loop; a primary forgets its secondary.
LEMMA EndMonitoringKeeps ==
  ASSUME TypeOK, TypeOK', AdapterInv, StreamInv, misuse = NoMisuse, NEW c \in Clients,
         EndMonitoring(c)
  PROVE  Kept
<1>1. /\ UNCHANGED <<server_vars, monitor_vars, clients, release_list, listener_vars, link, life,
                     stream_vars, attached, saved, misuse>>
      /\ thread[c] = "run" /\ thread' = [thread EXCEPT ![c] = "finish"]
      /\ secondary' = IF c \in Primaries THEN [secondary EXCEPT ![c] = None] ELSE secondary
  BY DEF EndMonitoring
<1>2. /\ UNCHANGED <<server, orphans, list, stream, locking, opened, locked, leaked, streams>>
      /\ Same
  BY <1>1 DEF server_vars, monitor_vars, stream_vars, Same
<1>3. /\ thread'[c] = "finish" /\ \A d \in Clients : d # c => thread'[d] = thread[d]
  BY <1>1, TypeParts DEF AdapterTypes
<1>4. \A p \in Primaries : secondary'[p] = IF c = p THEN None ELSE secondary[p]
  BY <1>1, TypeParts DEF SecondaryTypes
<1>5. Calm
  BY <1>1, <1>2, <1>3 DEF Calm
<1>6. \A p \in Primaries : p \in Clients
  BY DEF Clients
<1>7. Streams'
  BY <1>1, <1>2, <1>3, <1>6 DEF StreamInv, Streams, StreamOf
<1>8. OpenStreamsOwned'
  BY <1>1, <1>2 DEF StreamInv, OpenStreamsOwned
<1>9. Secondary'
  <2> SUFFICES ASSUME NEW p \in Primaries PROVE Secondary!(p)'
    BY DEF Secondary
  <2>1. BeingReleased(p)' <=> BeingReleased(p)
    BY <1>2 DEF BeingReleased
  <2>2. secondary[p] # None => secondary[p] \in Clients
    BY TypeParts DEF SecondaryTypes, Clients
  <2>3. Secondary!(p)
    BY DEF StreamInv, Secondary
  <2> QED BY <1>1, <1>2, <1>3, <1>4, <1>6, <2>1, <2>2, <2>3
<1> QED BY <1>1, <1>5, <1>7, <1>8, <1>9, CalmKeeps, NoMisuseKeeps DEF Kept, StreamInv

\* A secondary is attached to a primary that is registered.
LEMMA AttachKeeps ==
  ASSUME TypeOK, TypeOK', AdapterInv, StreamInv, misuse = NoMisuse, NEW s \in Secondaries,
         NEW p \in Primaries, Attach(s, p)
  PROVE  Kept
<1>1. /\ UNCHANGED <<server_vars, monitor_vars, clients, release_list, listener_vars, link, life,
                     client_vars, stream_vars, misuse>>
      /\ thread[s] = "run" /\ saved[s] = 0 /\ stream[p] # 0 /\ Contains(clients, p)
      /\ secondary' = [secondary EXCEPT ![p] = s]
      /\ attached' = [attached EXCEPT ![p] = stream[p]]
      /\ saved' = [saved EXCEPT ![s] = stream[p]]
  BY DEF Attach, Receives, Found
<1>2. /\ UNCHANGED <<server, orphans, list, stream, locking, opened, locked, leaked, streams, thread>>
      /\ Same
  BY <1>1 DEF server_vars, monitor_vars, client_vars, stream_vars, Same
<1>3. /\ secondary'[p] = s /\ attached'[p] = stream[p] /\ saved'[s] = stream[p]
      /\ \A q \in Primaries : q # p => secondary'[q] = secondary[q] /\ attached'[q] = attached[q]
      /\ \A t \in Secondaries : t # s => saved'[t] = saved[t]
  BY <1>1, TypeParts DEF SecondaryTypes
<1>4. Calm
  BY <1>1, <1>2 DEF Calm
<1>5. Streams'
  BY <1>1, <1>2 DEF StreamInv, Streams, StreamOf
<1>6. OpenStreamsOwned'
  BY <1>1, <1>2 DEF StreamInv, OpenStreamsOwned
<1>7. p \in Clients /\ life[p] = "alive" /\ thread[p] # "none" /\ stream[p] <= streams
  BY <1>1 DEF Clients, AdapterInv, Adapters, StreamInv, Streams
<1>8. Secondary'
  <2> SUFFICES ASSUME NEW q \in Primaries PROVE Secondary!(q)'
    BY DEF Secondary
  <2>1. Secondary!(q)
    BY DEF StreamInv, Secondary
  <2>2. BeingReleased(q)' <=> BeingReleased(q)
    BY <1>2 DEF BeingReleased
  <2>3. secondary[q] # None => secondary[q] \in Secondaries
    BY TypeParts DEF SecondaryTypes
  <2>4. CASE q = p
    BY <1>1, <1>2, <1>3, <1>7, <2>4
  <2>5. CASE q # p
    BY <1>1, <1>2, <1>3, <2>1, <2>2, <2>3, <2>5
  <2> QED BY <2>4, <2>5
<1> QED BY <1>1, <1>4, <1>5, <1>6, <1>8, CalmKeeps, NoMisuseKeeps DEF Kept, StreamInv

\* A secondary that goes is forgotten by the primary that has the stream, if
\* that is still registered.
LEMMA DetachKeeps ==
  ASSUME TypeOK, TypeOK', AdapterInv, StreamInv, misuse = NoMisuse, NEW s \in Secondaries,
         Detach(s)
  PROVE  Kept
<1>1. /\ UNCHANGED <<server_vars, monitor_vars, clients, release_list, listener_vars, link, life,
                     stream_vars, attached, misuse>>
      /\ thread[s] = "finish" /\ thread' = [thread EXCEPT ![s] = "release"]
      /\ saved' = [saved EXCEPT ![s] = 0] /\ secondary' = Detached(s)
  BY DEF Detach
<1>2. /\ UNCHANGED <<server, orphans, list, stream, locking, opened, locked, leaked, streams>>
      /\ Same
  BY <1>1 DEF server_vars, monitor_vars, stream_vars, Same
<1>3. /\ s \in Clients /\ thread'[s] = "release"
      /\ \A d \in Clients : d # s => thread'[d] = thread[d]
  BY <1>1, TypeParts DEF AdapterTypes, Clients
<1>4. \A t \in Secondaries : t # s => saved'[t] = saved[t]
  BY <1>1, TypeParts DEF SecondaryTypes
<1>5. \A p \in Primaries : p \in Clients /\ p # s /\ thread'[p] = thread[p]
  BY <1>3, ServerAssumption DEF Clients
<1>6. \A p \in Primaries :
        secondary'[p] = IF saved[s] # 0 /\ p \in Found(saved[s]) THEN None ELSE secondary[p]
  BY <1>1 DEF Detached
<1>7. Calm
  BY <1>1, <1>2, <1>3 DEF Calm
<1>8. Streams'
  BY <1>1, <1>2, <1>5 DEF StreamInv, Streams, StreamOf
<1>9. OpenStreamsOwned'
  BY <1>1, <1>2 DEF StreamInv, OpenStreamsOwned
<1>10. Secondary'
  <2> SUFFICES ASSUME NEW p \in Primaries PROVE Secondary!(p)'
    BY DEF Secondary
  <2>1. Secondary!(p)
    BY DEF StreamInv, Secondary
  <2>2. BeingReleased(p)' <=> BeingReleased(p)
    BY <1>2 DEF BeingReleased
  <2>3. secondary[p] # None => secondary[p] \in Secondaries /\ secondary[p] \in Clients
    BY TypeParts DEF SecondaryTypes, Clients
  <2>4. secondary'[p] \in {None, secondary[p]}
    BY <1>6
  <2>5. ASSUME secondary'[p] # None, stream[p] # 0, attached[p] = stream[p],
               thread[p] # "close_all"
        PROVE  \/ /\ thread'[secondary[p]] \in {"run", "finish"}
                  /\ saved'[secondary[p]] = stream[p]
               \/ BeingReleased(p) /\ thread'[secondary[p]] \in {"release", "ended"}
    <3>1. secondary[p] # None /\ secondary[p] \in Secondaries /\ secondary[p] \in Clients
      BY <2>3, <2>4, <2>5
    <3>2. CASE secondary[p] # s
      BY <1>3, <1>4, <2>1, <2>5, <3>1, <3>2
    <3>3. CASE secondary[p] = s
      <4>1. saved[s] = stream[p]
        BY <1>1, <2>1, <2>5, <3>1, <3>3
      <4>2. ~Contains(clients, p)
        BY <1>6, <2>5, <4>1 DEF Found
      <4>3. thread[p] \in {"run", "close", "finish"}
        BY <2>5 DEF StreamInv, Streams
      <4>4. BeingReleased(p)
        BY <2>1, <3>1, <4>2, <4>3
      <4> QED BY <1>3, <3>3, <4>4
    <3> QED BY <3>2, <3>3
  <2> QED BY <1>1, <1>2, <1>5, <2>1, <2>2, <2>4, <2>5
<1> QED BY <1>1, <1>7, <1>8, <1>9, <1>10, CalmKeeps, NoMisuseKeeps DEF Kept, StreamInv

\* A connection breaks.
LEMMA DisconnectKeeps ==
  ASSUME TypeOK, TypeOK', AdapterInv, StreamInv, misuse = NoMisuse, NEW c \in Clients,
         Disconnect(c)
  PROVE  Kept
<1>1. /\ UNCHANGED <<server_vars, monitor_vars, clients, release_list, listener_vars, life,
                     client_vars, stream_vars, secondary_vars, misuse>>
      /\ link' = [link EXCEPT ![c] = "down"]
  BY DEF Disconnect
<1>2. UNCHANGED <<server, orphans, list, thread>> /\ Same
  BY <1>1 DEF server_vars, monitor_vars, client_vars, Same
<1>3. \A d \in Clients : link'[d] = link[d] \/ link'[d] # "away"
  BY <1>1, TypeParts DEF AdapterTypes
<1>4. Calm
  BY <1>2, <1>3 DEF Calm
<1>5. Aside
  BY <1>1, <1>2 DEF Aside, BeingReleased
<1> QED BY <1>1, <1>4, <1>5, CalmKeeps, AsideKeeps, NoMisuseKeeps DEF Kept

----------------------------------------------------------------------------
(***************************************************************************)
(* The steps of Open, Close and the listeners that move no client          *)
(***************************************************************************)
\* The lists and the adapters stay; the listeners begin or end.
Controls ==
  /\ UNCHANGED <<orphans, list, clients, release_list, failed, link, life, thread,
                 stream_vars, secondary_vars, misuse>>
  /\ server' = "rest" => server = "rest"
  /\ server = "release" => server' = "release"
  /\ \A l \in Listeners : listener'[l] \in {"register", "start", "started", "delete"} =>
       /\ listener'[l] = listener[l] /\ accepted'[l] = accepted[l]
       /\ server \in {"release", "rest"} \cup Listeners =>
            server' \in {"release", "rest"} \cup Listeners

LEMMA ControlsKeep ==
  ASSUME TypeOK, TypeOK', AdapterInv, StreamInv, misuse = NoMisuse, Controls, Phases'
  PROVE  Kept
<1> USE DEF AdapterInv
<1>1. UNCHANGED <<orphans, list, clients, release_list, failed, link, life, thread, misuse>>
  BY DEF Controls
<1>2. InOneList'
  BY <1>1 DEF InOneList
<1>3. \A c \in Clients : (IsReleased(c)' => IsReleased(c)) /\ (InSomeList(c)' <=> InSomeList(c))
  BY <1>1 DEF IsReleased, InSomeList, Controls
<1>4. Adapters'
  BY <1>1, <1>3 DEF Adapters
<1>5. Accepted'
  <2> SUFFICES ASSUME NEW l \in Listeners, listener'[l] \in {"register", "start", "started", "delete"}
               PROVE  Accepted!(l)!2'
    BY DEF Accepted
  <2>1. /\ listener'[l] = listener[l] /\ accepted'[l] = accepted[l]
        /\ server \in {"release", "rest"} \cup Listeners =>
             server' \in {"release", "rest"} \cup Listeners
    BY DEF Controls
  <2>2. Accepted!(l)!2
    BY <2>1 DEF Accepted
  <2> QED BY <1>1, <1>3, <2>1, <2>2
<1>6. Aside
  BY <1>1 DEF Aside, BeingReleased, Controls
<1> QED BY <1>1, <1>2, <1>4, <1>5, <1>6, AsideKeeps, NoMisuseKeeps DEF Kept

LEMMA OpenServerKeeps ==
  ASSUME TypeOK, TypeOK', AdapterInv, StreamInv, misuse = NoMisuse, OpenServer
  PROVE  Kept
<1>1. /\ server = "idle" /\ server' \in {"idle", "failed"} /\ core' /\ monitor = "none"
      /\ monitor' = "wait"
      /\ UNCHANGED <<list, clients, release_list, accepted, failed, link, life, client_vars,
                     stream_vars, secondary_vars, misuse, orphans>>
  BY DEF OpenServer
<1>2. \A l \in Listeners : listener'[l] \in {"none", "listening"}
  BY DEF OpenServer
<1>3. Controls
  BY <1>1, <1>2 DEF Controls, client_vars
<1>4. Phases'
  BY <1>1, <1>2 DEF AdapterInv, Phases, Emptied
<1> QED BY <1>3, <1>4, ControlsKeep

LEMMA CloseServerKeeps ==
  ASSUME TypeOK, TypeOK', AdapterInv, StreamInv, misuse = NoMisuse,
         CloseServer \/ JoinMonitor \/ RestReleased \/ ReleasedTaken
  PROVE  Kept
<1>1. UNCHANGED <<core, orphans, list, clients, release_list, listener_vars, link, life,
                  client_vars, stream_vars, secondary_vars, misuse>>
  BY DEF CloseServer, JoinMonitor, RestReleased, ReleasedTaken, server_vars, monitor_vars
<1>2. UNCHANGED <<listener, accepted, failed, thread>>
  BY <1>1 DEF listener_vars, client_vars
<1>3. \/ server \in {"idle", "failed"} /\ core /\ server' = "join_monitor" /\ end_flag' /\ monitor' = monitor
      \/ /\ server = "join_monitor" /\ server' = "release" /\ monitor = "ended" /\ monitor' = "none"
         /\ end_flag' = end_flag
      \/ /\ server = "rest" /\ server' = "primary" /\ list["server"] = <<>>
         /\ UNCHANGED <<monitor, end_flag>>
      \/ /\ UNCHANGED <<server, end_flag>> /\ list["monitor"] = <<>> /\ monitor = "release"
         /\ monitor' # "release" /\ monitor' # "none"
  BY DEF CloseServer, JoinMonitor, RestReleased, ReleasedTaken, server_vars, monitor_vars
<1>4. \A l \in Listeners : listener[l] = "start" /\ life[accepted[l]] = "deleted" =>
        server \in {"release", "rest"} \cup Listeners
  BY DEF AdapterInv, Accepted
<1>5. Controls
  BY <1>1, <1>2, <1>3 DEF Controls, Listeners
<1>6. Phases'
  BY <1>1, <1>2, <1>3, SmallLists DEF AdapterInv, Phases, Emptied
<1> QED BY <1>5, <1>6, ControlsKeep

\* When the listeners are being stopped, the clients are gone.
LEMMA StopListenerKeeps ==
  ASSUME TypeOK, TypeOK', AdapterInv, StreamInv, misuse = NoMisuse, StopListener
  PROVE  Kept
<1>1. /\ UNCHANGED <<core, orphans, opens, monitor_vars, clients, release_list, accepted, failed,
                     link, life, client_vars, stream_vars, secondary_vars, misuse>>
      /\ server \in Listeners
      /\ \/ UNCHANGED <<server, listener>>
         \/ /\ listener[server] \in {"none", "ended"}
            /\ listener' = [listener EXCEPT ![server] = "none"]
            /\ server' = IF server = "primary" THEN "secondary" ELSE "exit"
  BY DEF StopListener, NextToStop
<1>2. UNCHANGED <<list, monitor, end_flag, thread>>
  BY <1>1 DEF monitor_vars, client_vars
<1>3. \/ UNCHANGED <<server, listener>>
      \/ /\ server = "primary" /\ server' = "secondary" /\ listener'["primary"] = "none"
         /\ listener'["secondary"] = listener["secondary"]
         /\ listener["primary"] \in {"none", "ended"}
      \/ /\ server = "secondary" /\ server' = "exit" /\ listener'["secondary"] = "none"
         /\ listener'["primary"] = listener["primary"]
         /\ listener["secondary"] \in {"none", "ended"}
  BY <1>1, TypeParts DEF ListenerTypes, Listeners
<1>4. Phases'
  BY <1>1, <1>2, <1>3 DEF AdapterInv, Phases, Emptied, Listeners
<1>5. \A l \in Listeners : listener'[l] \in {"register", "start", "started", "delete"} =>
        listener'[l] = listener[l] /\ server' \in Listeners
  BY <1>1, <1>3 DEF AdapterInv, Phases, Listeners
<1>6. Controls
  BY <1>1, <1>2, <1>3, <1>5 DEF Controls, Listeners
<1> QED BY <1>4, <1>6, ControlsKeep

LEMMA EndListeningKeeps ==
  ASSUME TypeOK, TypeOK', AdapterInv, StreamInv, misuse = NoMisuse, NEW l \in Listeners,
         EndListening(l)
  PROVE  Kept
<1>1. /\ UNCHANGED <<server_vars, monitor_vars, clients, release_list, accepted, failed, link,
                     life, client_vars, stream_vars, secondary_vars, misuse>>
      /\ listener[l] = "listening" /\ listener' = [listener EXCEPT ![l] = "ended"]
  BY DEF EndListening
<1>2. UNCHANGED <<server, core, orphans, list, monitor, end_flag, thread>>
  BY <1>1 DEF server_vars, monitor_vars, client_vars
<1>3. listener'[l] = "ended" /\ \A k \in Listeners : k # l => listener'[k] = listener[k]
  BY <1>1, TypeParts DEF ListenerTypes
<1>4. Phases'
  BY <1>1, <1>2, <1>3 DEF AdapterInv, Phases, Emptied, Listeners
<1>5. Controls
  BY <1>1, <1>2, <1>3 DEF Controls
<1> QED BY <1>4, <1>5, ControlsKeep

\* The core is deleted: its clients that are left come too late.
LEMMA ExitCoreKeeps ==
  ASSUME TypeOK, TypeOK', AdapterInv, StreamInv, misuse = NoMisuse, ExitCore
  PROVE  Kept
<1>1. /\ UNCHANGED <<opens, monitor_vars, clients, release_list, listener_vars, link, life,
                     client_vars, stream, locking, streams, leaked, secondary_vars, misuse>>
      /\ server = "exit" /\ ~core' /\ server' = "idle" /\ opened' = {} /\ locked' = 0
      /\ orphans' = {p \in Primaries : life[p] = "alive"}
  BY DEF ExitCore
<1>2. UNCHANGED <<list, monitor, end_flag, listener, accepted, failed, thread, secondary, attached,
                  saved>>
  BY <1>1 DEF monitor_vars, listener_vars, client_vars, secondary_vars
<1>3. clients = <<>> /\ \A l \in Listeners : listener[l] = "none"
  BY <1>1 DEF AdapterInv, Phases, Emptied
<1>4. Phases'
  BY <1>1, <1>2 DEF AdapterInv, Phases, Emptied
<1>5. InOneList'
  BY <1>1, <1>2 DEF AdapterInv, InOneList
<1>6. \A c \in Clients : (IsReleased(c)' <=> IsReleased(c)) /\ (InSomeList(c)' <=> InSomeList(c))
  BY <1>1, <1>2 DEF IsReleased, InSomeList
<1>7. Adapters'
  BY <1>1, <1>2, <1>3, <1>6, SmallLists DEF AdapterInv, Adapters
<1>8. Accepted'
  BY <1>2, <1>3 DEF Accepted
<1>9. \A p \in Primaries : stream[p] # 0 => p \in orphans'
  BY <1>1 DEF AdapterInv, Adapters, StreamInv, Streams, Clients
<1>10. Streams'
  BY <1>1, <1>2, <1>9 DEF StreamInv, Streams
<1>11. OpenStreamsOwned'
  BY <1>1 DEF OpenStreamsOwned
<1>12. Secondary'
  <2>1. \A p \in Primaries : ~BeingReleased(p) /\ ~BeingReleased(p)'
    BY <1>1 DEF BeingReleased
  <2> QED BY <1>1, <1>2, <2>1 DEF StreamInv, Secondary
<1> QED
  BY <1>1, <1>4, <1>5, <1>7, <1>8, <1>10, <1>11, <1>12, NoMisuseKeeps DEF Kept, AdapterInv, StreamInv

----------------------------------------------------------------------------
(***************************************************************************)
(* The steps that make, move or delete an adapter                          *)
(***************************************************************************)
\* ClientAdapterManager::Release moves a client that is registered.
LEMMA ReleaseFacts ==
  ASSUME TypeOK, InOneList, NEW c \in Clients, Release(c)
  PROVE  /\ NoTwice(clients') /\ NoTwice(release_list')
         /\ \A d : Contains(clients', d) <=> Contains(clients, d) /\ d # c
         /\ \A d : Contains(release_list', d) <=>
                     Contains(release_list, d) \/ (d = c /\ Contains(clients, c))
         /\ clients = <<>> => clients' = clients /\ release_list' = release_list
<1>1. /\ clients \in Seq(Clients) /\ release_list \in Seq(Clients)
      /\ NoTwice(clients) /\ NoTwice(release_list)
  BY DEF TypeOK, InOneList
<1>2. CASE Contains(clients, c)
  <2>1. PICK i \in DOMAIN clients :
          /\ clients[i] = c /\ clients' = RemoveAt(clients, i)
          /\ release_list' = Append(release_list, c)
    BY <1>2 DEF Release
  <2>2. i \in 1 .. Len(clients)
    BY <1>1
  <2>3. NoTwice(clients') /\ \A d : Contains(clients', d) <=> Contains(clients, d) /\ d # c
    BY <1>1, <2>1, <2>2, RemoveAtFacts
  <2>4. ~Contains(release_list, c)
    BY <1>2 DEF InOneList
  <2>5. /\ NoTwice(release_list')
        /\ \A d : Contains(release_list', d) <=> Contains(release_list, d) \/ d = c
    BY <1>1, <2>1, <2>4, AppendFacts
  <2> QED BY <1>2, <2>3, <2>5, SmallLists
<1>3. CASE ~Contains(clients, c)
  BY <1>1, <1>3 DEF Release
<1> QED BY <1>2, <1>3

\* A new adapter is in no list.
LEMMA AcceptKeeps ==
  ASSUME TypeOK, TypeOK', AdapterInv, StreamInv, misuse = NoMisuse, NEW c \in Clients,
         Accept(Kind(c), c)
  PROVE  Kept
<1> USE DEF AdapterInv
<1>1. PICK l \in Listeners : l = Kind(c)
  BY DEF Kind, Listeners
<1>2. /\ UNCHANGED <<server_vars, monitor_vars, clients, release_list, failed, client_vars,
                     stream_vars, secondary_vars, misuse>>
      /\ listener[l] = "listening" /\ link[c] = "away"
      /\ listener' = [listener EXCEPT ![l] = "register"]
      /\ accepted' = [accepted EXCEPT ![l] = c]
      /\ link' = [link EXCEPT ![c] = "up"] /\ life' = [life EXCEPT ![c] = "alive"]
  BY <1>1 DEF Accept
<1>3. UNCHANGED <<server, core, orphans, list, monitor, end_flag, thread>>
  BY <1>2 DEF server_vars, monitor_vars, client_vars
<1>4. /\ listener'[l] = "register" /\ accepted'[l] = c
      /\ \A k \in Listeners : k # l => listener'[k] = listener[k] /\ accepted'[k] = accepted[k]
  BY <1>2, TypeParts DEF ListenerTypes
<1>5. /\ link'[c] = "up" /\ life'[c] = "alive"
      /\ \A d \in Clients : d # c => link'[d] = link[d] /\ life'[d] = life[d]
  BY <1>2, TypeParts DEF AdapterTypes
<1>6. life[c] = "none" /\ thread[c] = "none" /\ ~InSomeList(c) /\ c \notin orphans
  BY <1>2 DEF Adapters
<1>7. Phases'
  BY <1>2, <1>3, <1>4 DEF Phases, Emptied, Listeners
<1>8. InOneList'
  BY <1>2, <1>3 DEF InOneList
<1>9. \A d \in Clients : (IsReleased(d)' <=> IsReleased(d)) /\ (InSomeList(d)' <=> InSomeList(d))
  BY <1>2, <1>3 DEF IsReleased, InSomeList
<1>10. ~Contains(clients, c) /\ ~IsReleased(c)
  BY <1>6 DEF InSomeList, IsReleased
<1>11. Adapters'
  BY <1>2, <1>3, <1>5, <1>6, <1>9, <1>10 DEF Adapters
<1>12. Accepted'
  <2> SUFFICES ASSUME NEW k \in Listeners, listener'[k] \in {"register", "start", "started", "delete"}
               PROVE  Accepted!(k)!2'
    BY DEF Accepted
  <2>1. CASE k = l
    BY <1>1, <1>3, <1>4, <1>5, <1>6, <1>9, <2>1 DEF Kind
  <2>2. CASE k # l
    <3>1. Accepted!(k)!2
      BY <1>4, <2>2 DEF Accepted
    <3>2. accepted[k] # c
      BY <1>1, <2>2, <3>1
    <3> QED BY <1>2, <1>3, <1>4, <1>5, <1>9, <2>2, <3>1, <3>2
  <2> QED BY <2>1, <2>2
<1>13. Aside
  BY <1>2, <1>3, <1>5, <1>6 DEF Aside, BeingReleased
<1> QED BY <1>2, <1>7, <1>8, <1>11, <1>12, <1>13, AsideKeeps, NoMisuseKeeps DEF Kept

\* A client is registered unless the manager has stopped.
LEMMA RegisterKeeps ==
  ASSUME TypeOK, TypeOK', AdapterInv, StreamInv, misuse = NoMisuse, NEW l \in Listeners,
         Register(l)
  PROVE  Kept
<1> USE DEF AdapterInv
<1> DEFINE c == accepted[l]
<1>1. /\ UNCHANGED <<server_vars, monitor_vars, release_list, accepted, failed, link, life,
                     client_vars, stream_vars, secondary_vars, misuse>>
      /\ listener[l] = "register" /\ listener' = [listener EXCEPT ![l] = "start"]
      /\ clients' = IF end_flag THEN clients ELSE Append(clients, c)
  BY DEF Register, WithClient
<1>2. UNCHANGED <<server, core, orphans, list, monitor, end_flag, thread>>
  BY <1>1 DEF server_vars, monitor_vars, client_vars
<1>3. listener'[l] = "start" /\ \A k \in Listeners : k # l => listener'[k] = listener[k]
  BY <1>1, TypeParts DEF ListenerTypes
<1>4. /\ c \in Clients /\ Kind(c) = l /\ life[c] = "alive" /\ thread[c] = "none"
      /\ ~InSomeList(c) /\ c \notin orphans
  BY <1>1 DEF Accepted
<1>5. clients \in Seq(Clients) /\ NoTwice(clients) /\ ~Contains(clients, c)
  BY <1>4 DEF TypeOK, InOneList, InSomeList
<1>6. /\ NoTwice(clients')
      /\ \A d : Contains(clients', d) <=> Contains(clients, d) \/ (d = c /\ ~end_flag)
  BY <1>1, <1>4, <1>5, AppendFacts
<1>7. Emptied => end_flag
  BY <1>1 DEF Phases, Emptied
<1>8. Phases'
  BY <1>1, <1>2, <1>3, <1>7 DEF Phases, Emptied, Listeners
<1>9. InOneList'
  BY <1>1, <1>2, <1>4, <1>6 DEF InOneList, InSomeList
<1>10. /\ \A d \in Clients : IsReleased(d)' <=> IsReleased(d)
       /\ \A d \in Clients : d # c => (InSomeList(d)' <=> InSomeList(d))
       /\ ~IsReleased(c)
  BY <1>1, <1>2, <1>4, <1>6 DEF IsReleased, InSomeList
<1>11. Adapters'
  BY <1>1, <1>2, <1>4, <1>6, <1>10 DEF Adapters
<1>12. Accepted'
  <2> SUFFICES ASSUME NEW k \in Listeners, listener'[k] \in {"register", "start", "started", "delete"}
               PROVE  Accepted!(k)!2'
    BY DEF Accepted
  <2>1. CASE k = l
    BY <1>1, <1>2, <1>3, <1>4, <1>10, <2>1
  <2>2. CASE k # l
    <3>1. Accepted!(k)!2
      BY <1>3, <2>2 DEF Accepted
    <3>2. accepted[k] # c
      BY <1>4, <2>2, <3>1
    <3> QED BY <1>1, <1>2, <1>3, <1>6, <1>10, <2>2, <3>1, <3>2
  <2> QED BY <2>1, <2>2
<1>13. Aside
  BY <1>1, <1>2, <1>6 DEF Aside, BeingReleased
<1> QED BY <1>1, <1>8, <1>9, <1>11, <1>12, <1>13, AsideKeeps, NoMisuseKeeps DEF Kept

\* The thread has handed its adapter to the manager and ends.
LEMMA ReleaseSelfKeeps ==
  ASSUME TypeOK, TypeOK', AdapterInv, StreamInv, misuse = NoMisuse, NEW c \in Clients,
         ReleaseSelf(c)
  PROVE  Kept
<1> USE DEF AdapterInv
<1>1. /\ UNCHANGED <<server_vars, monitor_vars, listener_vars, link, life, stream_vars,
                     secondary_vars, misuse>>
      /\ thread[c] = "release" /\ thread' = [thread EXCEPT ![c] = "ended"]
      /\ Release(c)
  BY DEF ReleaseSelf
<1>2. UNCHANGED <<server, core, orphans, list, monitor, end_flag, listener, accepted, failed>>
  BY <1>1 DEF server_vars, monitor_vars, listener_vars
<1>3. thread'[c] = "ended" /\ \A d \in Clients : d # c => thread'[d] = thread[d]
  BY <1>1, TypeParts DEF AdapterTypes
<1>4. /\ NoTwice(clients') /\ NoTwice(release_list')
      /\ \A d : Contains(clients', d) <=> Contains(clients, d) /\ d # c
      /\ \A d : Contains(release_list', d) <=>
                  Contains(release_list, d) \/ (d = c /\ Contains(clients, c))
      /\ clients = <<>> => clients' = clients /\ release_list' = release_list
  BY <1>1, ReleaseFacts
<1>5. Phases'
  BY <1>1, <1>2, <1>4 DEF Phases, Emptied
<1>6. InOneList'
  BY <1>1, <1>2, <1>4 DEF InOneList
<1>7. \A d \in Clients : /\ InSomeList(d)' <=> InSomeList(d)
                         /\ d # c => (IsReleased(d)' <=> IsReleased(d))
  BY <1>1, <1>2, <1>4 DEF IsReleased, InSomeList
<1>8. Adapters'
  BY <1>1, <1>2, <1>3, <1>4, <1>7 DEF Adapters
<1>9. Accepted'
  <2> SUFFICES ASSUME NEW k \in Listeners, listener'[k] \in {"register", "start", "started", "delete"}
               PROVE  Accepted!(k)!2'
    BY DEF Accepted
  <2>1. Accepted!(k)!2
    BY <1>2 DEF Accepted
  <2>2. listener[k] = "started" \/ accepted[k] # c
    BY <1>1, <2>1
  <2> QED BY <1>1, <1>2, <1>3, <1>4, <1>7, <2>1, <2>2
<1>10. Aside
  BY <1>1, <1>2, <1>3, <1>4, ServerAssumption DEF Aside, BeingReleased
<1> QED BY <1>1, <1>5, <1>6, <1>8, <1>9, <1>10, AsideKeeps, NoMisuseKeeps DEF Kept

\* The thread of an adapter begins, if nobody has deleted that.
LEMMA StartClientKeeps ==
  ASSUME TypeOK, TypeOK', AdapterInv, StreamInv, misuse = NoMisuse, NEW l \in Listeners,
         StartClient(l)
  PROVE  Kept
<1> USE DEF AdapterInv
<1> DEFINE c == accepted[l]
<1>1. /\ listener[l] = "start" /\ c \in Clients /\ Kind(c) = l /\ thread[c] = "none"
      /\ ~IsReleased(c)
      /\ life[c] = "deleted" => server \in {"release", "rest"} \cup Listeners
  BY DEF StartClient, Accepted
<1>2. CASE life[c] = "deleted"
  <2>1. Misused("start", c)
    BY <1>2 DEF StartClient
  <2>2. ~Contains(clients, c)
    BY <1>1, <1>2 DEF Adapters
  <2>3. Justified("start", c)
    BY <1>1, <1>2, <2>2 DEF Justified, Listeners
  <2> QED BY <1>1, <2>1, <2>3, MisusedKeeps DEF Kept
<1>3. CASE life[c] # "deleted"
  <2>1. /\ life[c] = "alive"
        /\ UNCHANGED <<server_vars, monitor_vars, listener_end, accepted, link, life,
                       stream_vars, secondary_vars, misuse>>
        /\ \/ /\ thread' = [thread EXCEPT ![c] = "run"]
              /\ listener' = [listener EXCEPT ![l] = "started"]
              /\ UNCHANGED <<clients, release_list, failed>>
           \/ /\ Release(c) /\ listener' = [listener EXCEPT ![l] = "delete"]
              /\ failed' = failed \cup {c}
              /\ UNCHANGED client_vars
    BY <1>3 DEF StartClient
  <2>2. UNCHANGED <<server, core, orphans, list, monitor, end_flag>>
    BY <2>1 DEF server_vars, monitor_vars
  <2>3. \A k \in Listeners : k # l =>
          /\ listener'[k] = listener[k] /\ accepted'[k] = accepted[k]
          /\ listener[k] \in {"register", "start", "started", "delete"} => accepted[k] # c
    BY <1>1, <2>1, TypeParts DEF ListenerTypes, Accepted
  <2>4. CASE /\ thread' = [thread EXCEPT ![c] = "run"]
             /\ listener' = [listener EXCEPT ![l] = "started"]
             /\ UNCHANGED <<clients, release_list, failed>>
    <3>1. thread'[c] = "run" /\ \A d \in Clients : d # c => thread'[d] = thread[d]
      BY <1>1, <2>4, TypeParts DEF AdapterTypes
    <3>2. listener'[l] = "started"
      BY <2>4, TypeParts DEF ListenerTypes
    <3>3. Phases'
      BY <1>1, <2>2, <2>3, <2>4, <3>2 DEF Phases, Emptied, Listeners
    <3>4. InOneList'
      BY <2>2, <2>4 DEF InOneList
    <3>5. \A d \in Clients : (IsReleased(d)' <=> IsReleased(d)) /\ (InSomeList(d)' <=> InSomeList(d))
      BY <2>2, <2>4 DEF IsReleased, InSomeList
    <3>6. Adapters'
      BY <1>1, <2>1, <2>2, <2>4, <3>1, <3>5 DEF Adapters
    <3>7. Accepted'
      <4> SUFFICES ASSUME NEW k \in Listeners, listener'[k] \in {"register", "start", "started", "delete"}
                   PROVE  Accepted!(k)!2'
        BY DEF Accepted
      <4>1. CASE k = l
        BY <1>1, <2>1, <3>2, <4>1
      <4>2. CASE k # l
        <5>1. Accepted!(k)!2
          BY <2>3, <4>2 DEF Accepted
        <5> QED BY <2>1, <2>2, <2>3, <2>4, <3>1, <3>5, <4>2, <5>1
      <4> QED BY <4>1, <4>2
    <3>8. Aside
      BY <1>1, <2>1, <2>2, <2>4, <3>1 DEF Aside, BeingReleased
    <3> QED BY <2>1, <3>3, <3>4, <3>6, <3>7, <3>8, AsideKeeps, NoMisuseKeeps DEF Kept
  <2>5. CASE /\ Release(c) /\ listener' = [listener EXCEPT ![l] = "delete"]
             /\ failed' = failed \cup {c}
             /\ UNCHANGED client_vars
    <3>1. thread' = thread /\ accepted' = accepted /\ failed' = failed \cup {c}
      BY <2>1, <2>5 DEF client_vars
    <3>2. listener'[l] = "delete"
      BY <2>5, TypeParts DEF ListenerTypes
    <3>3. /\ NoTwice(clients') /\ NoTwice(release_list')
          /\ \A d : Contains(clients', d) <=> Contains(clients, d) /\ d # c
          /\ \A d : Contains(release_list', d) <=>
                      Contains(release_list, d) \/ (d = c /\ Contains(clients, c))
          /\ clients = <<>> => clients' = clients /\ release_list' = release_list
      BY <1>1, <2>5, ReleaseFacts
    <3>4. Phases'
      BY <1>1, <2>2, <2>3, <3>2, <3>3 DEF Phases, Emptied, Listeners
    <3>5. InOneList'
      BY <2>2, <3>3 DEF InOneList
    <3>6. \A d \in Clients : /\ InSomeList(d)' <=> InSomeList(d)
                             /\ d # c => (IsReleased(d)' <=> IsReleased(d))
      BY <2>2, <3>3 DEF IsReleased, InSomeList
    <3>7. Adapters'
      BY <1>1, <2>1, <2>2, <3>1, <3>3, <3>6 DEF Adapters
    <3>8. Accepted'
      <4> SUFFICES ASSUME NEW k \in Listeners, listener'[k] \in {"register", "start", "started", "delete"}
                   PROVE  Accepted!(k)!2'
        BY DEF Accepted
      <4>1. CASE k = l
        BY <1>1, <2>1, <3>1, <3>2, <3>3, <4>1
      <4>2. CASE k # l
        <5>1. Accepted!(k)!2 /\ accepted[k] # c
          BY <2>3, <4>2 DEF Accepted
        <5> QED BY <2>1, <2>2, <2>3, <3>1, <3>3, <3>6, <4>2, <5>1
      <4> QED BY <4>1, <4>2
    <3>9. Aside
      BY <1>1, <2>1, <2>2, <3>1, <3>3 DEF Aside, BeingReleased
    <3> QED BY <2>1, <3>4, <3>5, <3>7, <3>8, <3>9, AsideKeeps, NoMisuseKeeps DEF Kept
  <2> QED BY <2>1, <2>4, <2>5
<1> QED BY <1>2, <1>3

\* Start has returned, if nobody has deleted the adapter.
LEMMA ClientStartedKeeps ==
  ASSUME TypeOK, TypeOK', AdapterInv, StreamInv, misuse = NoMisuse, NEW l \in Listeners,
         ClientStarted(l)
  PROVE  Kept
<1> DEFINE c == accepted[l]
<1>1. listener[l] = "started" /\ c \in Clients /\ Kind(c) = l
  BY DEF ClientStarted, AdapterInv, Accepted
<1>2. CASE life[c] = "deleted"
  <2>1. Misused("start", c)
    BY <1>2 DEF ClientStarted
  <2>2. Justified("start", c)
    BY <1>1, <1>2 DEF Justified, AdapterInv, Adapters
  <2> QED BY <1>1, <2>1, <2>2, MisusedKeeps DEF Kept
<1>3. CASE life[c] # "deleted"
  <2>1. /\ listener' = [listener EXCEPT ![l] = NextConnection(l)]
        /\ accepted' = [accepted EXCEPT ![l] = None]
        /\ UNCHANGED <<server_vars, monitor_vars, clients, release_list, listener_end, failed,
                       link, life, client_vars, stream_vars, secondary_vars, misuse>>
    BY <1>3 DEF ClientStarted
  <2>2. UNCHANGED <<server, core, orphans, monitor, end_flag, list, thread>>
    BY <2>1 DEF server_vars, monitor_vars, client_vars
  <2>3. /\ listener'[l] \in {"ended", "listening"}
        /\ \A k \in Listeners : k # l =>
             listener'[k] = listener[k] /\ accepted'[k] = accepted[k]
    BY <2>1, TypeParts DEF NextConnection, ListenerTypes
  <2>4. Controls
    BY <2>1, <2>2, <2>3 DEF Controls
  <2>5. Phases'
    BY <1>1, <2>1, <2>2, <2>3 DEF AdapterInv, Phases, Emptied, Listeners
  <2> QED BY <2>4, <2>5, ControlsKeep
<1> QED BY <1>2, <1>3

\* Delete of a client that is in no list any more.
LEMMA DeletedAdapter ==
  ASSUME TypeOK, NEW c \in Clients, Delete(c)
  PROVE  /\ life'[c] = "deleted" /\ link'[c] = "down" /\ thread'[c] = "none"
         /\ \A d \in Clients : d # c =>
              life'[d] = life[d] /\ link'[d] = link[d] /\ thread'[d] = thread[d]
BY TypeParts DEF AdapterTypes, Delete

\* The listener deletes the adapter whose thread was not created, unless the
\* manager has done so.
LEMMA DeleteFailedKeeps ==
  ASSUME TypeOK, TypeOK', AdapterInv, StreamInv, misuse = NoMisuse, NEW l \in Listeners,
         DeleteFailed(l)
  PROVE  Kept
<1> USE DEF AdapterInv
<1> DEFINE c == accepted[l]
<1>1. /\ listener[l] = "delete" /\ c \in Clients /\ Kind(c) = l /\ thread[c] = "none"
      /\ life[c] # "none" /\ c \in failed /\ ~Contains(clients, c)
  BY DEF DeleteFailed, Accepted
<1>2. CASE life[c] = "deleted"
  <2>1. Misused("adapter", c)
    BY <1>2 DEF DeleteFailed
  <2>2. Justified("adapter", c)
    BY <1>1 DEF Justified
  <2> QED BY <1>1, <2>1, <2>2, MisusedKeeps DEF Kept
<1>3. CASE life[c] # "deleted"
  <2>1. /\ life[c] = "alive" /\ Delete(c)
        /\ UNCHANGED <<server_vars, monitor_vars, clients, release_list, listener_end, failed,
                       stream_vars, secondary_vars, misuse>>
        /\ listener' = [listener EXCEPT ![l] = NextConnection(l)]
        /\ accepted' = [accepted EXCEPT ![l] = None]
    BY <1>3 DEF DeleteFailed
  <2>2. UNCHANGED <<server, core, orphans, list, monitor, end_flag>>
    BY <2>1 DEF server_vars, monitor_vars
  <2>3. \A k \in Listeners : k # l =>
          /\ listener'[k] = listener[k] /\ accepted'[k] = accepted[k]
          /\ listener[k] \in {"register", "start", "started", "delete"} => accepted[k] # c
    BY <1>1, <2>1, TypeParts DEF ListenerTypes, Accepted
  <2>4. listener'[l] \in {"ended", "listening"}
    BY <2>1, TypeParts DEF NextConnection, ListenerTypes
  <2>5. /\ life'[c] = "deleted" /\ link'[c] = "down" /\ thread'[c] = "none"
        /\ \A d \in Clients : d # c =>
             life'[d] = life[d] /\ link'[d] = link[d] /\ thread'[d] = thread[d]
    BY <1>1, <2>1, DeletedAdapter
  <2>6. Phases'
    BY <1>1, <2>1, <2>2, <2>3, <2>4 DEF Phases, Emptied, Listeners
  <2>7. InOneList'
    BY <2>1, <2>2 DEF InOneList
  <2>8. \A d \in Clients : (IsReleased(d)' <=> IsReleased(d)) /\ (InSomeList(d)' <=> InSomeList(d))
    BY <2>1, <2>2 DEF IsReleased, InSomeList
  <2>9. Adapters'
    BY <1>1, <2>1, <2>2, <2>5, <2>8 DEF Adapters
  <2>10. Accepted'
    <3> SUFFICES ASSUME NEW k \in Listeners, listener'[k] \in {"register", "start", "started", "delete"}
                 PROVE  Accepted!(k)!2'
      BY DEF Accepted
    <3>1. k # l
      BY <2>4
    <3>2. Accepted!(k)!2 /\ accepted[k] # c
      BY <2>3, <3>1 DEF Accepted
    <3> QED BY <2>1, <2>2, <2>3, <2>5, <2>8, <3>1, <3>2
  <2>11. Aside
    <3>1. \A s \in Secondaries : thread[s] = "ended" => thread'[s] = "ended"
      BY <1>1, <2>5 DEF Clients
    <3> QED BY <1>1, <2>1, <2>2, <2>5, <3>1 DEF Aside, BeingReleased
  <2> QED BY <2>1, <2>6, <2>7, <2>9, <2>10, <2>11, AsideKeeps, NoMisuseKeeps DEF Kept
<1> QED BY <1>2, <1>3

\* Whoever releases a client stops its thread first.
LEMMA StopClientKeeps ==
  ASSUME TypeOK, TypeOK', AdapterInv, StreamInv, misuse = NoMisuse,
         NEW r \in {"server", "monitor"}, StopClient(r)
  PROVE  Kept
<1> DEFINE c == Head(list[r])
<1>1. list[r] \in Seq(Clients) /\ list[r] # <<>>
  BY DEF StopClient, TypeOK
<1>2. c \in Clients /\ Contains(list[r], c)
  BY <1>1, TailFacts
<1>3. CASE life[c] = "deleted"
  <2>1. Misused("adapter", c)
    BY <1>3 DEF StopClient
  <2>2. InSomeList(c)
    BY <1>2 DEF InSomeList
  <2>3. Justified("adapter", c)
    BY <1>2, <1>3, <2>2 DEF Justified, AdapterInv, Adapters
  <2> QED BY <1>2, <2>1, <2>3, MisusedKeeps DEF Kept
<1>4. CASE life[c] # "deleted"
  <2>1. UNCHANGED <<server_vars, monitor, end_flag, list, clients, release_list, listener_vars,
                    link, life, thread, stream_vars, secondary_vars, misuse>>
    BY <1>4 DEF StopClient
  <2>2. UNCHANGED <<server, orphans, list>> /\ Same
    BY <2>1 DEF server_vars, Same
  <2>3. Calm
    BY <2>1, <2>2 DEF Calm
  <2>4. Aside
    BY <2>1, <2>2 DEF Aside, BeingReleased
  <2> QED BY <2>1, <2>3, <2>4, CalmKeeps, AsideKeeps, NoMisuseKeeps DEF Kept
<1> QED BY <1>3, <1>4

\* Stop found no thread, and there is one by now, or the adapter is gone: a
\* thread that runs is not that of a client which has been released before.
LEMMA DeleteMisuse ==
  ASSUME TypeOK, AdapterInv, StreamInv, NEW r \in {"server", "monitor"}, DeleteClient(r),
         IF r = "server" THEN server \in {"release", "rest"} ELSE monitor = "release",
         Misused("adapter", Head(list[r])) \/ Misused("thread", Head(list[r]))
  PROVE  Kept
<1> DEFINE c == Head(list[r])
<1>1. list[r] \in Seq(Clients) /\ list[r] # <<>>
  BY DEF DeleteClient, TypeOK
<1>2. c \in Clients /\ Contains(list[r], c)
  BY <1>1, TailFacts
<1>3. misuse' \in {[of |-> "adapter", client |-> c], [of |-> "thread", client |-> c]}
      /\ UNCHANGED life
  BY DEF Misused
<1>4. CASE life[c] = "deleted" /\ Misused("adapter", c)
  <2>1. InSomeList(c)
    BY <1>2 DEF InSomeList
  <2>2. Justified("adapter", c)
    BY <1>2, <1>4, <2>1 DEF Justified, AdapterInv, Adapters
  <2> QED BY <1>2, <1>4, <2>2, MisusedKeeps DEF Kept
<1>5. CASE thread[c] \notin {"none", "ended"} /\ Misused("thread", c)
  <2>1. ~IsReleased(c)
    BY <1>2, <1>5 DEF AdapterInv, Adapters
  <2>2. r = "server" /\ server = "release"
    BY <1>2, <2>1 DEF IsReleased
  <2>3. passed["server"]
    BY <1>5, <2>2 DEF DeleteClient, Joined
  <2> QED BY <1>2, <1>5, <2>2, <2>3, MisusedKeeps DEF Kept, Justified
<1>6. CASE life[c] = "alive" /\ Delete(c)
  <2>1. life'[c] = "deleted" /\ life[c] = "alive"
    BY <1>2, <1>6 DEF Delete, TypeOK
  <2> QED BY <1>3, <2>1
<1> QED BY <1>4, <1>5, <1>6 DEF DeleteClient

\* A client that was released is deleted when its thread has been joined.
LEMMA DeleteClientKeeps ==
  ASSUME TypeOK, TypeOK', AdapterInv, StreamInv, misuse = NoMisuse,
         NEW r \in {"server", "monitor"}, DeleteClient(r),
         IF r = "server" THEN server \in {"release", "rest"} ELSE monitor = "release"
  PROVE  Kept
<1> USE DEF AdapterInv
<1>0. PICK c : c = Head(list[r])
  OBVIOUS
<1> SUFFICES ASSUME ~Misused("adapter", c), ~Misused("thread", c) PROVE Kept
  BY <1>0, DeleteMisuse
<1>1. /\ list[r] # <<>> /\ life[c] = "alive" /\ thread[c] \in {"none", "ended"}
      /\ Delete(c) /\ list' = [list EXCEPT ![r] = Tail(list[r])]
      /\ UNCHANGED <<server_vars, monitor, end_flag, clients, release_list, listener_vars,
                     stream_vars, secondary_vars, misuse>>
  BY <1>0 DEF DeleteClient, Joined
<1>2. UNCHANGED <<server, core, orphans, listener, accepted, failed>>
  BY <1>1 DEF server_vars, listener_vars
<1>3. list[r] \in Seq(Clients) /\ NoTwice(list[r])
  BY DEF TypeOK, InOneList
<1>4. /\ c \in Clients /\ Contains(list[r], c)
      /\ Len(Tail(list[r])) = Len(list[r]) - 1
      /\ NoTwice(Tail(list[r]))
      /\ \A d : Contains(Tail(list[r]), d) <=> Contains(list[r], d) /\ d # c
  BY <1>0, <1>1, <1>3, TailFacts
<1>5. /\ list'[r] = Tail(list[r])
      /\ \A q \in {"server", "monitor"} : q # r => list'[q] = list[q]
  BY <1>1, TypeParts DEF ManagerTypes
<1>6. /\ NoTwice(list'[r])
      /\ \A d : Contains(list'[r], d) <=> Contains(list[r], d) /\ d # c
      /\ Len(list'[r]) = Len(list[r]) - 1
  BY <1>4, <1>5
<1>7. /\ life'[c] = "deleted" /\ link'[c] = "down" /\ thread'[c] = "none"
      /\ \A d \in Clients : d # c =>
           life'[d] = life[d] /\ link'[d] = link[d] /\ thread'[d] = thread[d]
  BY <1>1, <1>4, DeletedAdapter
<1>8. \A d \in Clients : Contains(list[r], d) =>
        /\ ~Contains(clients, d) /\ ~Contains(release_list, d)
        /\ \A q \in {"server", "monitor"} : q # r => ~Contains(list[q], d)
  BY DEF InOneList
<1>9. \A q \in {"server", "monitor"} :
        /\ NoTwice(list'[q])
        /\ \A d \in Clients : Contains(list'[q], d) <=> Contains(list[q], d) /\ d # c
  BY <1>4, <1>5, <1>6, <1>8 DEF InOneList
<1>10. Phases'
  <2>1. CASE r = "server"
    <3>1. server = "release" => Len(list'["server"]) <= 1
      <4>1. Len(list["server"]) \in Nat
        BY <1>3, <2>1
      <4> QED BY <1>6, <2>1, <4>1 DEF Phases
    <3> QED BY <1>1, <1>2, <1>5, <2>1, <3>1 DEF Phases, Emptied
  <2>2. CASE r = "monitor"
    BY <1>1, <1>2, <1>5, <2>2 DEF Phases, Emptied
  <2> QED BY <2>1, <2>2
<1>11. InOneList'
  BY <1>1, <1>9 DEF InOneList
<1>12. /\ ~InSomeList(c)'
       /\ \A d \in Clients : d # c => (InSomeList(d)' <=> InSomeList(d))
       /\ \A d \in Clients : IsReleased(d)' => IsReleased(d)
  BY <1>1, <1>2, <1>4, <1>8, <1>9 DEF InSomeList, IsReleased
<1>13. InSomeList(c)
  BY <1>4 DEF InSomeList
<1>14. Adapters'
  <2> SUFFICES ASSUME NEW d \in Clients PROVE Adapters!(d)'
    BY DEF Adapters
  <2>1. Adapters!(d)
    BY DEF Adapters
  <2>2. CASE d = c
    BY <1>1, <1>2, <1>4, <1>7, <1>8, <1>12, <2>2
  <2>3. CASE d # c
    BY <1>1, <1>2, <1>7, <1>12, <2>1, <2>3
  <2> QED BY <2>2, <2>3
<1>15. Accepted'
  <2> SUFFICES ASSUME NEW k \in Listeners, listener[k] \in {"register", "start", "started", "delete"}
               PROVE  Accepted!(k)!2'
    BY <1>2 DEF Accepted
  <2>1. Accepted!(k)!2
    BY DEF Accepted
  <2>2. CASE accepted[k] # c
    BY <1>1, <1>2, <1>7, <1>12, <2>1, <2>2
  <2>3. CASE accepted[k] = c
    <3>1. listener[k] # "register"
      BY <1>13, <2>1, <2>3
    <3>2. listener[k] = "start" => r = "server" /\ server \in {"release", "rest"}
      BY <1>4, <2>1, <2>3 DEF IsReleased
    <3> QED BY <1>1, <1>2, <1>4, <1>7, <1>12, <2>1, <2>3, <3>1, <3>2
  <2> QED BY <2>2, <2>3
<1>16. Aside
  <2>1. ASSUME NEW p \in Primaries, BeingReleased(p) PROVE r = "server" /\ c = p
    <3>1. list["monitor"] = <<>>
      BY <2>1 DEF Phases, BeingReleased
    <3> QED BY <1>0, <1>1, <2>1, <3>1, SmallLists DEF BeingReleased
  <2>2. \A p \in Primaries : p \in Clients
    BY DEF Clients
  <2>3. \A p \in Primaries, s \in Secondaries : s \in Clients /\ s # p
    BY ServerAssumption DEF Clients
  <2> QED BY <1>1, <1>2, <1>4, <1>7, <2>1, <2>2, <2>3 DEF Aside
<1> QED BY <1>1, <1>10, <1>11, <1>14, <1>15, <1>16, AsideKeeps, NoMisuseKeeps DEF Kept

\* The manager takes the released clients out of its list at once.
LEMMA TakeReleasedKeeps ==
  ASSUME TypeOK, TypeOK', AdapterInv, StreamInv, misuse = NoMisuse, TakeReleased
  PROVE  Kept
<1> USE DEF AdapterInv
<1>1. /\ monitor = "wait" /\ monitor' = "release" /\ release_list' = <<>>
      /\ list' = [list EXCEPT !["monitor"] = release_list]
      /\ UNCHANGED <<server_vars, end_flag, clients, listener_vars, link, life, client_vars,
                     stream_vars, secondary_vars, misuse>>
  BY DEF TakeReleased
<1>2. UNCHANGED <<server, core, orphans, listener, accepted, failed, thread>>
  BY <1>1 DEF server_vars, listener_vars, client_vars
<1>3. list'["monitor"] = release_list /\ list'["server"] = list["server"]
  BY <1>1, TypeParts DEF ManagerTypes
<1>4. list["monitor"] = <<>> /\ server # "release" /\ ~Emptied
  BY <1>1 DEF Phases
<1>5. NoTwice(<<>>) /\ \A d : ~Contains(<<>>, d)
  BY SmallLists
<1>6. Phases'
  BY <1>1, <1>2, <1>3, <1>4 DEF Phases, Emptied
<1>7. InOneList'
  BY <1>1, <1>3, <1>5 DEF InOneList
<1>8. \A d \in Clients : (IsReleased(d)' <=> IsReleased(d)) /\ (InSomeList(d)' <=> InSomeList(d))
  BY <1>1, <1>2, <1>3, <1>4, <1>5 DEF IsReleased, InSomeList
<1>9. \A d : Contains(release_list, d)' => FALSE
  BY <1>1, <1>5
<1>10. Adapters'
  BY <1>1, <1>2, <1>8 DEF Adapters
<1>11. Accepted'
  <2> SUFFICES ASSUME NEW k \in Listeners, listener[k] \in {"register", "start", "started", "delete"}
               PROVE  Accepted!(k)!2'
    BY <1>2 DEF Accepted
  <2>1. Accepted!(k)!2
    BY DEF Accepted
  <2> QED BY <1>1, <1>2, <1>8, <2>1
<1>12. Aside
  BY <1>1, <1>2, <1>3 DEF Aside, BeingReleased
<1> QED BY <1>1, <1>6, <1>7, <1>10, <1>11, <1>12, AsideKeeps, NoMisuseKeeps DEF Kept

\* ReleaseAllClients takes the last client; after the last one, those that
\* were released by themselves.
LEMMA ReleaseNextKeeps ==
  ASSUME TypeOK, TypeOK', AdapterInv, StreamInv, misuse = NoMisuse, ReleaseNext
  PROVE  Kept
<1> USE DEF AdapterInv
<1>1. /\ server = "release" /\ list["server"] = <<>>
      /\ UNCHANGED <<core, orphans, opens, monitor, end_flag, listener_vars, link, life,
                     client_vars, stream_vars, secondary_vars, misuse>>
  BY DEF ReleaseNext
<1>2. UNCHANGED <<listener, accepted, failed, thread>>
  BY <1>1 DEF listener_vars, client_vars
<1>3. NoTwice(<<>>) /\ Len(<<>>) = 0 /\ \A d : ~Contains(<<>>, d)
  BY SmallLists
<1>4. CASE clients = <<>>
  <2>1. /\ list' = [list EXCEPT !["server"] = release_list] /\ release_list' = <<>>
        /\ server' = "rest" /\ clients' = clients
    BY <1>4 DEF ReleaseNext
  <2>2. list'["server"] = release_list /\ list'["monitor"] = list["monitor"]
    BY <2>1, TypeParts DEF ManagerTypes
  <2>3. Phases'
    BY <1>1, <1>2, <1>4, <2>1, <2>2 DEF Phases, Emptied
  <2>4. InOneList'
    BY <1>1, <1>3, <2>1, <2>2 DEF InOneList
  <2>5. \A d \in Clients : (IsReleased(d)' <=> IsReleased(d)) /\ (InSomeList(d)' <=> InSomeList(d))
    BY <1>1, <1>3, <2>1, <2>2 DEF IsReleased, InSomeList
  <2>6. Adapters'
    BY <1>1, <1>2, <2>1, <2>5 DEF Adapters
  <2>7. Accepted'
    <3> SUFFICES ASSUME NEW k \in Listeners, listener[k] \in {"register", "start", "started", "delete"}
                 PROVE  Accepted!(k)!2'
      BY <1>2 DEF Accepted
    <3>1. Accepted!(k)!2
      BY DEF Accepted
    <3> QED BY <1>1, <1>2, <2>1, <2>5, <3>1
  <2>8. \A p \in Primaries : ~BeingReleased(p)
    BY <1>1, <1>3, SmallLists DEF BeingReleased
  <2>9. Aside
    BY <1>1, <1>2, <2>1, <2>8 DEF Aside
  <2> QED BY <1>1, <2>3, <2>4, <2>6, <2>7, <2>9, AsideKeeps, NoMisuseKeeps DEF Kept
<1>5. CASE clients # <<>>
  <2>0. PICK c : c = Last(clients)
    OBVIOUS
  <2>1. /\ list' = [list EXCEPT !["server"] = <<c>>] /\ clients' = Front(clients)
        /\ release_list' = release_list /\ server' = server
    BY <1>5, <2>0 DEF ReleaseNext
  <2>2. clients \in Seq(Clients) /\ NoTwice(clients)
    BY DEF TypeOK, InOneList
  <2>3. /\ c \in Clients /\ Contains(clients, c) /\ NoTwice(clients')
        /\ \A d : Contains(clients', d) <=> Contains(clients, d) /\ d # c
    BY <1>5, <2>0, <2>1, <2>2, FrontFacts
  <2>4. list'["server"] = <<c>> /\ list'["monitor"] = list["monitor"]
    BY <2>1, TypeParts DEF ManagerTypes
  <2>5. Len(<<c>>) = 1 /\ NoTwice(<<c>>) /\ \A d : Contains(<<c>>, d) <=> d = c
    BY SmallLists
  <2>6. Phases'
    BY <1>1, <1>2, <2>1, <2>4, <2>5 DEF Phases, Emptied
  <2>7. InOneList'
    BY <1>1, <1>3, <2>1, <2>3, <2>4, <2>5 DEF InOneList
  <2>8. \A d \in Clients : (IsReleased(d)' <=> IsReleased(d)) /\ (InSomeList(d)' <=> InSomeList(d))
    BY <1>1, <1>3, <2>1, <2>3, <2>4, <2>5 DEF IsReleased, InSomeList
  <2>9. Adapters'
    BY <1>1, <1>2, <2>1, <2>3, <2>8 DEF Adapters
  <2>10. Accepted'
    <3> SUFFICES ASSUME NEW k \in Listeners, listener[k] \in {"register", "start", "started", "delete"}
                 PROVE  Accepted!(k)!2'
      BY <1>2 DEF Accepted
    <3>1. Accepted!(k)!2
      BY DEF Accepted
    <3> QED BY <1>1, <1>2, <2>1, <2>3, <2>8, <3>1
  <2>11. \A p \in Primaries : /\ ~BeingReleased(p)
                              /\ Contains(clients, p) => Contains(clients', p) \/ BeingReleased(p)'
    <3>1. \A p \in Primaries : ~BeingReleased(p)
      BY <1>1, <1>3, SmallLists DEF BeingReleased
    <3>2. BeingReleased(c)'
      BY <1>1, <2>1, <2>4 DEF BeingReleased
    <3> QED BY <2>3, <3>1, <3>2
  <2>12. Aside
    BY <1>1, <1>2, <2>1, <2>11 DEF Aside
  <2> QED BY <1>1, <2>6, <2>7, <2>9, <2>10, <2>12, AsideKeeps, NoMisuseKeeps DEF Kept
<1> QED BY <1>4, <1>5

----------------------------------------------------------------------------
(***************************************************************************)
(* The theorems                                                            *)
(***************************************************************************)
LEMMA NextServerInv == ServerInv /\ [Next]_vars => ServerInv'
<1> SUFFICES ASSUME ServerInv, [Next]_vars PROVE ServerInv'
  OBVIOUS
<1>1. TypeOK /\ AdapterInv /\ StreamInv /\ Accepted /\ Streams
  BY DEF ServerInv, AdapterInv, StreamInv
<1>2. CASE Next
  <2>1. TypeOK'
    BY <1>1, <1>2, NextTypeOK
  <2>2. misuse = NoMisuse
    BY <1>2, StepKinds
  <2>3. CASE \/ OpenServer \/ CloseServer \/ JoinMonitor \/ ReleaseNext \/ RestReleased
             \/ StopListener \/ ExitCore \/ TakeReleased \/ ReleasedTaken
    <3>1. Kept
      BY <1>1, <2>1, <2>2, <2>3, OpenServerKeeps, CloseServerKeeps, ReleaseNextKeeps,
         StopListenerKeeps, ExitCoreKeeps, TakeReleasedKeeps
    <3> QED BY <2>1, <3>1 DEF Kept, ServerInv
  <2>4. CASE \E r \in {"server", "monitor"} : ReleaseStep(r)
    <3>1. PICK r \in {"server", "monitor"} : ReleaseStep(r)
      BY <2>4
    <3>2. Kept
      BY <1>1, <2>1, <2>2, <3>1, StopClientKeeps, DeleteClientKeeps DEF ReleaseStep
    <3> QED BY <2>1, <3>2 DEF Kept, ServerInv
  <2>5. CASE \E l \in Listeners :
               \/ EndListening(l) \/ Register(l) \/ StartClient(l) \/ ClientStarted(l)
               \/ DeleteFailed(l)
    <3>1. Kept
      BY <1>1, <2>1, <2>2, <2>5, EndListeningKeeps, RegisterKeeps, StartClientKeeps,
         ClientStartedKeeps, DeleteFailedKeeps
    <3> QED BY <2>1, <3>1 DEF Kept, ServerInv
  <2>6. CASE \E c \in Clients :
               Disconnect(c) \/ Accept(Kind(c), c) \/ EndMonitoring(c) \/ ReleaseSelf(c)
    <3>1. Kept
      BY <1>1, <2>1, <2>2, <2>6, DisconnectKeeps, AcceptKeeps, EndMonitoringKeeps,
         ReleaseSelfKeeps
    <3> QED BY <2>1, <3>1 DEF Kept, ServerInv
  <2>7. CASE \E p \in Primaries :
               \/ OpenStream(p) \/ CloseStream(p) \/ StreamClosed(p) \/ CloseAllStream(p)
               \/ AllStreamsClosed(p) \/ PopMessage(p) \/ EndWait(p) \/ LockInDeletedCore(p)
               \/ SendFrame(p) \/ CallBack(p) \/ \E m \in {"lock", "unlock"} : PushMessage(p, m)
    <3>1. Kept
      BY <1>1, <2>1, <2>2, <2>7, OpenStreamKeeps, CloseStreamKeeps, StreamClosedKeeps,
         LockStepKeeps, LockMisuse, SendFrameKeeps, CallBackKeeps
    <3> QED BY <2>1, <3>1 DEF Kept, ServerInv
  <2>8. CASE \E s \in Secondaries : Detach(s) \/ \E p \in Primaries : Attach(s, p)
    <3>1. Kept
      BY <1>1, <2>1, <2>2, <2>8, AttachKeeps, DetachKeeps
    <3> QED BY <2>1, <3>1 DEF Kept, ServerInv
  <2> QED BY <1>2, <2>3, <2>4, <2>5, <2>6, <2>7, <2>8, StepKinds
<1>3. CASE UNCHANGED vars
  <2>1. /\ UNCHANGED <<server_vars, monitor_vars, clients, release_list, listener_vars, link, life,
                       client_vars, stream_vars, secondary_vars, misuse, faults>>
    BY <1>3 DEF vars
  <2>2. TypeOK'
    BY <1>1, <2>1, TypeParts, TypePartsNext, SameTypes
  <2>3. /\ UNCHANGED <<server, list, passed, listener, orphans, thread, attached, stream, opened,
                       leaked, failed>>
        /\ Same
    BY <2>1 DEF server_vars, monitor_vars, client_vars, secondary_vars, stream_vars, listener_vars,
                Same
  <2>4. Calm
    BY <2>1, <2>3 DEF Calm
  <2>5. Aside
    BY <2>1, <2>3 DEF Aside, BeingReleased
  <2>6. NoUseAfterDelete'
    BY <2>1, <2>3 DEF ServerInv, NoUseAfterDelete
  <2> QED BY <1>1, <2>2, <2>4, <2>5, <2>6, CalmKeeps, AsideKeeps DEF ServerInv
<1> QED BY <1>2, <1>3

(***************************************************************************)
(* The inductive invariant: what the lists of clients, the phase of Close, *)
(* the receiving threads and the listeners know about each other.          *)
(***************************************************************************)
THEOREM SpecServerInv == Spec => []ServerInv
BY InitServerInv, NextServerInv, PTL DEF Spec

(***************************************************************************)
(* Apart from the cases that NoUseAfterDelete lists no adapter, stream     *)
(* adapter or core is used after its deletion: no adapter is deleted,      *)
(* stopped or joined twice, whichever of the listener, the manager, its    *)
(* own thread and Server::Close comes first.                               *)
(***************************************************************************)
THEOREM SpecNoUseAfterDelete == Spec => []NoUseAfterDelete
<1>1. ServerInv => NoUseAfterDelete
  BY DEF ServerInv
<1> QED BY <1>1, SpecServerInv, PTL

(***************************************************************************)
(* When Server::Close has returned, no registered client is left, however  *)
(* many were connecting, disconnecting or being released meanwhile.        *)
(***************************************************************************)
THEOREM SpecCloseReleasesClients == Spec => []CloseReleasesClients
<1>1. ServerInv => CloseReleasesClients
  <2> SUFFICES ASSUME ServerInv, server = "idle", ~core, NEW c \in Clients
               PROVE  ~Registered(c)
    BY DEF CloseReleasesClients
  <2>1. Phases
    BY DEF ServerInv, AdapterInv
  <2>2. monitor = "none" /\ clients = <<>> /\ release_list = <<>>
    BY <2>1 DEF Phases, Emptied
  <2>3. list["server"] = <<>> /\ list["monitor"] = <<>>
    BY <2>1, <2>2 DEF Phases
  <2>4. <<>> \o <<>> \o <<>> \o <<>> = <<>>
    OBVIOUS
  <2> QED BY <2>2, <2>3, <2>4, SmallLists DEF Registered
<1> QED BY <1>1, SpecServerInv, PTL

(***************************************************************************)
(* A stream is open in the core only for a client that exists and has its  *)
(* adapter, unless the core refused to close it; and the properties are    *)
(* locked only by an open stream.                                          *)
(***************************************************************************)
THEOREM SpecOpenStreamsOwned == Spec => []OpenStreamsOwned
<1>1. ServerInv => OpenStreamsOwned
  BY DEF ServerInv, StreamInv
<1> QED BY <1>1, SpecServerInv, PTL

----------------------------------------------------------------------------
(***************************************************************************)
(* Nobody is stuck                                                         *)
(***************************************************************************)
\* Where the threads of Close and of the manager may be together.
Winding ==
  /\ server = "failed" => core
  /\ core /\ server \in {"idle", "failed"} => monitor # "none" /\ ~end_flag
  /\ server = "join_monitor" => monitor # "none"
  /\ monitor = "ended" => end_flag

\* A thread that closes streams has told their threads to end, if there are any.
Closing ==
  /\ \A s \in Secondaries : thread[s] \notin {"close", "close_all"}
  /\ \A p \in Primaries :
       thread[p] \in {"close", "close_all"} => locking[p] = "none" \/ locking_end[p]

\* The thread of a registered client runs, or a listener is about to start it.
Running ==
  \A c \in Clients : Contains(clients, c) =>
    /\ thread[c] # "ended"
    /\ thread[c] = "none" => \E l \in Listeners : listener[l] = "start" /\ accepted[l] = c

LEMMA WindingStep ==
  ASSUME ServerInv, Winding, Next
  PROVE  Winding'
<1> USE DEF Winding
<1>1. CASE \/ OpenServer \/ CloseServer \/ JoinMonitor \/ ReleaseNext \/ RestReleased
           \/ StopListener \/ ExitCore \/ TakeReleased \/ ReleasedTaken
  <2>1. CASE OpenServer
    BY <2>1 DEF OpenServer
  <2>2. CASE CloseServer \/ JoinMonitor \/ ReleaseNext \/ RestReleased
    BY <2>2 DEF CloseServer, JoinMonitor, ReleaseNext, RestReleased, monitor_vars
  <2>3. CASE StopListener
    <3>1. server' \notin {"idle", "failed", "join_monitor"}
      BY <2>3 DEF StopListener, NextToStop, Listeners
    <3>2. UNCHANGED monitor_vars
      BY <2>3 DEF StopListener
    <3> QED BY <3>1, <3>2 DEF monitor_vars
  <2>4. CASE ExitCore
    BY <2>4 DEF ExitCore, monitor_vars
  <2>5. CASE TakeReleased \/ ReleasedTaken
    BY <2>5 DEF TakeReleased, ReleasedTaken, server_vars
  <2> QED BY <1>1, <2>1, <2>2, <2>3, <2>4, <2>5
<1>2. ASSUME NEW r \in {"server", "monitor"}, ReleaseStep(r) PROVE Winding'
  BY <1>2 DEF ReleaseStep, StopClient, DeleteClient, Misused, server_vars, monitor_vars
<1>3. ASSUME NEW l \in Listeners,
             \/ EndListening(l) \/ Register(l) \/ StartClient(l) \/ ClientStarted(l)
             \/ DeleteFailed(l)
      PROVE  Winding'
  BY <1>3 DEF EndListening, Register, StartClient, ClientStarted, DeleteFailed, Misused,
              server_vars, monitor_vars
<1>4. ASSUME NEW c \in Clients,
             Disconnect(c) \/ Accept(Kind(c), c) \/ EndMonitoring(c) \/ ReleaseSelf(c)
      PROVE  Winding'
  BY <1>4 DEF Disconnect, Accept, EndMonitoring, ReleaseSelf, server_vars, monitor_vars
<1>5. ASSUME NEW p \in Primaries,
             \/ OpenStream(p) \/ CloseStream(p) \/ StreamClosed(p) \/ CloseAllStream(p)
             \/ AllStreamsClosed(p) \/ PopMessage(p) \/ EndWait(p) \/ LockInDeletedCore(p)
             \/ SendFrame(p) \/ CallBack(p) \/ \E m \in {"lock", "unlock"} : PushMessage(p, m)
      PROVE  Winding'
  BY <1>5 DEF OpenStream, CloseStream, StreamClosed, CloseAllStream, AllStreamsClosed, PopMessage,
              EndWait, LockInDeletedCore, SendFrame, CallBack, PushMessage, Misused, server_vars,
              monitor_vars
<1>6. ASSUME NEW s \in Secondaries, Detach(s) \/ \E p \in Primaries : Attach(s, p)
      PROVE  Winding'
  BY <1>6 DEF Detach, Attach, server_vars, monitor_vars
<1> QED BY StepKinds, <1>1, <1>2, <1>3, <1>4, <1>5, <1>6

\* What leaves the streams alone and lets no thread close them.
LEMMA ClosingKept ==
  ASSUME Closing, UNCHANGED <<locking, locking_end>>,
         \A c \in Clients : thread'[c] = thread[c] \/ thread'[c] \notin {"close", "close_all"}
  PROVE  Closing'
BY DEF Closing, Clients

LEMMA ClosingStep ==
  ASSUME ServerInv, Closing, Next
  PROVE  Closing'
<1>0. /\ thread \in [Clients -> {"none", "run", "close", "finish", "close_all", "release", "ended"}]
      /\ stream \in [Primaries -> 0 .. MaxStreams]
      /\ locking \in [Primaries -> {"none", "pop", "wait", "timed_wait", "ended"}]
      /\ locking_end \in [Primaries -> BOOLEAN]
      /\ Primaries \cap Secondaries = {} /\ Primaries \subseteq Clients
  BY ServerAssumption DEF ServerInv, TypeOK, Clients
<1>1. CASE \/ OpenServer \/ CloseServer \/ JoinMonitor \/ ReleaseNext \/ RestReleased
           \/ StopListener \/ ExitCore \/ TakeReleased \/ ReleasedTaken
  <2>1. UNCHANGED <<stream, locking, locking_end, thread>>
    BY <1>1 DEF OpenServer, CloseServer, JoinMonitor, ReleaseNext, RestReleased, StopListener,
                ExitCore, TakeReleased, ReleasedTaken, stream_vars, client_vars
  <2> QED BY <2>1, ClosingKept
<1>2. ASSUME NEW r \in {"server", "monitor"}, ReleaseStep(r) PROVE Closing'
  <2>1. UNCHANGED <<stream, locking, locking_end>>
    BY <1>2 DEF ReleaseStep, StopClient, DeleteClient, Misused, stream_vars
  <2>2. UNCHANGED thread \/ \E c : thread' = [thread EXCEPT ![c] = "none"]
    BY <1>2 DEF ReleaseStep, StopClient, DeleteClient, Delete, Misused, client_vars
  <2> QED BY <1>0, <2>1, <2>2, ClosingKept
<1>3. ASSUME NEW l \in Listeners,
             \/ EndListening(l) \/ Register(l) \/ StartClient(l) \/ ClientStarted(l)
             \/ DeleteFailed(l)
      PROVE  Closing'
  <2>1. UNCHANGED <<stream, locking, locking_end>>
    BY <1>3 DEF EndListening, Register, StartClient, ClientStarted, DeleteFailed, Misused,
                stream_vars
  <2>2. \/ UNCHANGED thread
        \/ \E c : \E place \in {"run", "none"} : thread' = [thread EXCEPT ![c] = place]
    BY <1>3 DEF EndListening, Register, StartClient, ClientStarted, DeleteFailed, Delete,
                Misused, client_vars
  <2> QED BY <1>0, <2>1, <2>2, ClosingKept
<1>4. ASSUME NEW c \in Clients,
             Disconnect(c) \/ Accept(Kind(c), c) \/ EndMonitoring(c) \/ ReleaseSelf(c)
      PROVE  Closing'
  <2>1. UNCHANGED <<stream, locking, locking_end>>
    BY <1>4 DEF Disconnect, Accept, EndMonitoring, ReleaseSelf, stream_vars
  <2>2. UNCHANGED thread \/ \E place \in {"finish", "ended"} : thread' = [thread EXCEPT ![c] = place]
    BY <1>4 DEF Disconnect, Accept, EndMonitoring, ReleaseSelf, client_vars
  <2> QED BY <1>0, <2>1, <2>2, ClosingKept
<1>5. ASSUME NEW p \in Primaries, OpenStream(p) \/ PopMessage(p) \/ EndWait(p) PROVE Closing'
  <2>1. CASE OpenStream(p)
    BY <1>0, <2>1 DEF OpenStream, Receives, Misused, Closing, stream_vars, client_vars
  <2>2. CASE PopMessage(p) \/ EndWait(p)
    <3>1. /\ UNCHANGED <<locking_end, thread>>
          /\ \A q \in Primaries : locking[q] = "none" => locking'[q] = "none"
      BY <1>0, <2>2 DEF PopMessage, EndWait, client_vars
    <3> QED BY <3>1 DEF Closing
  <2> QED BY <1>5, <2>1, <2>2
<1>6. ASSUME NEW p \in Primaries, CloseStream(p) \/ CloseAllStream(p) PROVE Closing'
  <2>1. /\ UNCHANGED <<stream, locking>>
        /\ \/ locking_end' = [locking_end EXCEPT ![p] = TRUE]
           \/ UNCHANGED locking_end /\ (thread'[p] = "release" \/ locking[p] = "none")
        /\ \E place \in {"close", "close_all", "release"} : thread' = [thread EXCEPT ![p] = place]
    BY <1>0, <1>6 DEF CloseStream, CloseAllStream, StopMonitoring
  <2> QED BY <1>0, <2>1 DEF Closing
<1>7. ASSUME NEW p \in Primaries, StreamClosed(p) \/ AllStreamsClosed(p) PROVE Closing'
  <2>1. CASE UNCHANGED <<stream, locking, locking_end, thread>>
    BY <2>1, ClosingKept
  <2>2. CASE ~UNCHANGED <<stream, locking, locking_end, thread>>
    <3>1. /\ \E place \in {"run", "release"} : thread' = [thread EXCEPT ![p] = place]
          /\ \E s : stream' = [stream EXCEPT ![p] = s]
          /\ \E s : locking' = [locking EXCEPT ![p] = s]
          /\ locking_end' = locking_end \/ \E s : locking_end' = [locking_end EXCEPT ![p] = s]
      BY <1>0, <1>7, <2>2
         DEF StreamClosed, AllStreamsClosed, Misused, stream_vars, client_vars
    <3> QED BY <1>0, <3>1 DEF Closing
  <2> QED BY <2>1, <2>2
<1>8. ASSUME NEW p \in Primaries,
             \/ LockInDeletedCore(p) \/ SendFrame(p) \/ CallBack(p)
             \/ \E m \in {"lock", "unlock"} : PushMessage(p, m)
      PROVE  Closing'
  <2>1. UNCHANGED <<stream, locking, locking_end, thread>>
    BY <1>8 DEF LockInDeletedCore, SendFrame, CallBack, PushMessage, Misused, stream_vars,
                client_vars
  <2> QED BY <2>1, ClosingKept
<1>9. ASSUME NEW s \in Secondaries, Detach(s) \/ \E p \in Primaries : Attach(s, p)
      PROVE  Closing'
  <2>1. UNCHANGED <<stream, locking, locking_end>>
    BY <1>9 DEF Detach, Attach, stream_vars
  <2>2. UNCHANGED thread \/ thread' = [thread EXCEPT ![s] = "release"]
    BY <1>9 DEF Detach, Attach, client_vars
  <2> QED BY <1>0, <2>1, <2>2, ClosingKept
<1> QED BY StepKinds, <1>1, <1>2, <1>3, <1>4, <1>5, <1>6, <1>7, <1>8, <1>9

\* What registers nobody and neither ends nor deletes an adapter's thread.
LEMMA RunningKept ==
  ASSUME Running, UNCHANGED accepted,
         \A c \in Clients : Contains(clients', c) =>
           /\ Contains(clients, c)
           /\ thread'[c] = thread[c] \/ thread'[c] \notin {"none", "ended"},
         \A l \in Listeners : listener[l] = "start" => listener'[l] = "start"
  PROVE  Running'
BY DEF Running

LEMMA RunningStep ==
  ASSUME ServerInv, Winding, Running, Next
  PROVE  Running'
<1>0. /\ thread \in [Clients -> {"none", "run", "close", "finish", "close_all", "release", "ended"}]
      /\ listener \in
           [Listeners -> {"none", "listening", "register", "start", "started", "delete", "ended"}]
      /\ accepted \in [Listeners -> Clients \cup {None}]
      /\ clients \in Seq(Clients)
      /\ Primaries \subseteq Clients /\ Secondaries \subseteq Clients
      /\ TypeOK /\ Phases /\ InOneList /\ Accepted
  BY DEF ServerInv, AdapterInv, TypeOK, Clients
<1>1. CASE OpenServer
  <2>1. clients = <<>> /\ UNCHANGED clients
    BY <1>0, <1>1 DEF OpenServer, Winding, Phases, Emptied
  <2> QED BY <2>1, SmallLists DEF Running
<1>2. CASE \/ CloseServer \/ JoinMonitor \/ RestReleased \/ ExitCore \/ TakeReleased
           \/ ReleasedTaken
  <2>1. UNCHANGED <<clients, thread, listener, accepted>>
    BY <1>2 DEF CloseServer, JoinMonitor, RestReleased, ExitCore, TakeReleased, ReleasedTaken,
                client_vars, listener_vars
  <2> QED BY <2>1, RunningKept
<1>3. CASE StopListener
  <2>1. /\ UNCHANGED <<clients, thread, accepted>>
        /\ UNCHANGED listener \/ /\ listener[server] \in {"none", "ended"}
                                 /\ listener' = [listener EXCEPT ![server] = "none"]
    BY <1>3 DEF StopListener, client_vars
  <2>2. \A l \in Listeners : listener[l] = "start" => listener'[l] = "start"
    BY <1>0, <2>1
  <2> QED BY <2>1, <2>2, RunningKept
<1>4. CASE ReleaseNext
  <2>1. UNCHANGED <<thread, listener, accepted>>
    BY <1>4 DEF ReleaseNext, client_vars, listener_vars
  <2>2. clients' = clients \/ (clients # <<>> /\ clients' = Front(clients))
    BY <1>4 DEF ReleaseNext
  <2>3. NoTwice(clients)
    BY <1>0 DEF InOneList
  <2>4. \A c : Contains(clients', c) => Contains(clients, c)
    BY <1>0, <2>2, <2>3, FrontFacts
  <2> QED BY <2>1, <2>4, RunningKept
<1>5. ASSUME NEW r \in {"server", "monitor"}, ReleaseStep(r) PROVE Running'
  <2>1. UNCHANGED <<clients, listener, accepted>>
    BY <1>5 DEF ReleaseStep, StopClient, DeleteClient, Misused, listener_vars
  <2>2. \/ UNCHANGED thread
        \/ list[r] # <<>> /\ thread' = [thread EXCEPT ![Head(list[r])] = "none"]
    BY <1>5 DEF ReleaseStep, StopClient, DeleteClient, Delete, Misused, client_vars
  <2>3. CASE UNCHANGED thread
    BY <2>1, <2>3, RunningKept
  <2>4. CASE list[r] # <<>> /\ thread' = [thread EXCEPT ![Head(list[r])] = "none"]
    <3>1. list[r] \in Seq(Clients)
      BY <1>0 DEF TypeOK
    <3>2. Head(list[r]) \in Clients /\ Contains(list[r], Head(list[r]))
      BY <2>4, <3>1, TailFacts
    <3>3. ~Contains(clients, Head(list[r]))
      BY <1>0, <3>2 DEF InOneList
    <3>4. \A c \in Clients : Contains(clients, c) => thread'[c] = thread[c]
      BY <1>0, <2>4, <3>3
    <3> QED BY <2>1, <3>4, RunningKept
  <2> QED BY <2>2, <2>3, <2>4
<1>6. ASSUME NEW l \in Listeners, EndListening(l) PROVE Running'
  <2>1. /\ UNCHANGED <<clients, thread, accepted>>
        /\ listener[l] = "listening" /\ listener' = [listener EXCEPT ![l] = "ended"]
    BY <1>6 DEF EndListening, client_vars
  <2>2. \A k \in Listeners : listener[k] = "start" => listener'[k] = "start"
    BY <1>0, <2>1
  <2> QED BY <2>1, <2>2, RunningKept
<1>7. ASSUME NEW l \in Listeners, Register(l) PROVE Running'
  <2> DEFINE a == accepted[l]
  <2>1. /\ listener[l] = "register" /\ listener' = [listener EXCEPT ![l] = "start"]
        /\ UNCHANGED <<thread, accepted>>
        /\ clients' = clients \/ clients' = Append(clients, a)
    BY <1>7 DEF Register, WithClient, client_vars
  <2>2. a \in Clients /\ thread[a] = "none"
    BY <1>0, <2>1 DEF Accepted
  <2> HIDE DEF a
  <2>3. \A c : Contains(clients', c) => Contains(clients, c) \/ c = a
    <3>1. a \in Clients /\ clients \in Seq(Clients)
      BY <1>0, <2>2
    <3>2. \A c : Contains(Append(clients, a), c) <=> Contains(clients, c) \/ c = a
      BY <3>1, AppendFacts
    <3> QED BY <2>1, <3>2
  <2>4. listener'[l] = "start" /\ \A k \in Listeners : listener[k] = "start" => listener'[k] = "start"
    BY <1>0, <2>1
  <2>5. accepted'[l] = a
    BY <2>1 DEF a
  <2> QED BY <2>1, <2>2, <2>3, <2>4, <2>5 DEF Running
<1>8. ASSUME NEW l \in Listeners, StartClient(l) PROVE Running'
  <2> DEFINE a == accepted[l]
  <2>1. CASE UNCHANGED <<clients, thread, listener, accepted>>
    BY <2>1, RunningKept
  <2>2. CASE ~UNCHANGED <<clients, thread, listener, accepted>>
    <3>1. /\ listener[l] = "start" /\ \E place : listener' = [listener EXCEPT ![l] = place]
          /\ UNCHANGED accepted
          /\ \/ thread' = [thread EXCEPT ![a] = "run"] /\ UNCHANGED clients
             \/ UNCHANGED thread /\ Release(a)
      <4>1. ~Misused("start", a)
        BY <2>2 DEF Misused, listener_vars, client_vars
      <4> QED BY <1>8, <4>1 DEF StartClient, client_vars
    <3>2. a \in Clients
      BY <1>0, <3>1 DEF Accepted
    <3>3. \A c \in Clients : Contains(clients', c) =>
            /\ Contains(clients, c)
            /\ thread'[c] = "run" \/ (c # a /\ thread'[c] = thread[c])
      BY <1>0, <3>1, <3>2, ReleaseFacts
    <3>4. \A k \in Listeners : k # l => listener'[k] = listener[k] /\ accepted'[k] = accepted[k]
      BY <1>0, <3>1
    <3> HIDE DEF a
    <3>5. \A c \in Clients, k \in Listeners : c # a /\ accepted[k] = c => k # l
      BY DEF a
    <3> QED BY <3>3, <3>4, <3>5 DEF Running
  <2> QED BY <2>1, <2>2
<1>13. ASSUME NEW l \in Listeners, ClientStarted(l) PROVE Running'
  <2>1. /\ UNCHANGED <<clients, thread>>
        /\ \/ UNCHANGED <<listener, accepted>>
           \/ /\ listener[l] = "started" /\ accepted' = [accepted EXCEPT ![l] = None]
              /\ \E place : listener' = [listener EXCEPT ![l] = place]
    BY <1>13 DEF ClientStarted, Misused, listener_vars, client_vars
  <2>2. \A k \in Listeners : listener[k] = "start" =>
          listener'[k] = "start" /\ accepted'[k] = accepted[k]
    BY <1>0, <2>1
  <2> QED BY <2>1, <2>2 DEF Running
<1>9. ASSUME NEW l \in Listeners, DeleteFailed(l) PROVE Running'
  <2> DEFINE a == accepted[l]
  <2>1. CASE UNCHANGED <<clients, thread, listener, accepted>>
    BY <2>1, RunningKept
  <2>2. CASE ~UNCHANGED <<clients, thread, listener, accepted>>
    <3>1. /\ listener[l] = "delete" /\ \E place : listener' = [listener EXCEPT ![l] = place]
          /\ accepted' = [accepted EXCEPT ![l] = None]
          /\ thread' = [thread EXCEPT ![a] = "none"] /\ UNCHANGED clients
      BY <1>9, <2>2 DEF DeleteFailed, Delete, Misused, listener_vars, client_vars
    <3>2. a \in Clients /\ ~Contains(clients, a)
      BY <1>0, <3>1 DEF Accepted
    <3>3. \A c \in Clients : Contains(clients, c) => thread'[c] = thread[c]
      BY <1>0, <3>1, <3>2
    <3>4. \A k \in Listeners : listener[k] = "start" =>
            listener'[k] = "start" /\ accepted'[k] = accepted[k]
      BY <1>0, <3>1
    <3> QED BY <3>1, <3>3, <3>4 DEF Running
  <2> QED BY <2>1, <2>2
<1>10. ASSUME NEW c \in Clients, Accept(Kind(c), c) PROVE Running'
  <2> DEFINE l == Kind(c)
  <2>1. /\ UNCHANGED <<clients, thread>> /\ listener[l] = "listening" /\ l \in Listeners
        /\ listener' = [listener EXCEPT ![l] = "register"]
        /\ accepted' = [accepted EXCEPT ![l] = c]
    BY <1>10 DEF Accept, client_vars, Kind, Listeners
  <2> HIDE DEF l
  <2>2. \A k \in Listeners : listener[k] = "start" =>
          listener'[k] = "start" /\ accepted'[k] = accepted[k]
    BY <1>0, <2>1
  <2> QED BY <2>1, <2>2 DEF Running
<1>11. ASSUME NEW c \in Clients, ReleaseSelf(c) PROVE Running'
  <2>1. /\ UNCHANGED <<listener, accepted>> /\ thread' = [thread EXCEPT ![c] = "ended"]
        /\ Release(c)
    BY <1>11 DEF ReleaseSelf, listener_vars
  <2>2. \A d : Contains(clients', d) => Contains(clients, d) /\ d # c
    BY <1>0, <2>1, ReleaseFacts
  <2>3. \A d \in Clients : d # c => thread'[d] = thread[d]
    BY <1>0, <2>1
  <2> QED BY <2>1, <2>2, <2>3, RunningKept
<1>12. ASSUME NEW c \in Clients,
              \/ Disconnect(c) \/ EndMonitoring(c)
              \/ c \in Primaries /\ \/ OpenStream(c) \/ CloseStream(c) \/ StreamClosed(c)
                                    \/ CloseAllStream(c) \/ AllStreamsClosed(c) \/ PopMessage(c)
                                    \/ EndWait(c) \/ LockInDeletedCore(c) \/ SendFrame(c)
                                    \/ CallBack(c)
                                    \/ \E m \in {"lock", "unlock"} : PushMessage(c, m)
              \/ c \in Secondaries /\ (Detach(c) \/ \E p \in Primaries : Attach(c, p))
       PROVE  Running'
  <2>1. UNCHANGED <<clients, listener, accepted>>
    BY <1>12
       DEF Disconnect, EndMonitoring, OpenStream, CloseStream, StreamClosed, CloseAllStream,
           AllStreamsClosed, PopMessage, EndWait, LockInDeletedCore, SendFrame, CallBack, PushMessage,
           Detach, Attach, Misused, listener_vars
  <2>2. \/ UNCHANGED thread
        \/ \E place \in {"run", "close", "finish", "close_all", "release"} :
             thread' = [thread EXCEPT ![c] = place]
    BY <1>12
       DEF Disconnect, EndMonitoring, OpenStream, CloseStream, StreamClosed, CloseAllStream,
           AllStreamsClosed, PopMessage, EndWait, LockInDeletedCore, SendFrame, CallBack, PushMessage,
           Detach, Attach, Misused, client_vars
  <2>3. \A d \in Clients : thread'[d] = thread[d] \/ thread'[d] \notin {"none", "ended"}
    BY <1>0, <2>2
  <2> QED BY <2>1, <2>3, RunningKept
<1> QED BY StepKinds, <1>0, <1>1, <1>2, <1>3, <1>4, <1>5, <1>6, <1>7, <1>8, <1>9, <1>10, <1>11, <1>12,
       <1>13

WindingInv == ServerInv /\ Winding /\ Closing /\ Running

LEMMA InitWindingInv == Init => WindingInv
<1> SUFFICES ASSUME Init PROVE WindingInv
  OBVIOUS
<1>1. Winding /\ Closing
  BY DEF Init, Winding, Closing, Clients
<1>2. Running
  BY SmallLists DEF Init, Running
<1> QED BY <1>1, <1>2, InitServerInv DEF WindingInv

LEMMA NextWindingInv == WindingInv /\ [Next]_vars => WindingInv'
<1> SUFFICES ASSUME WindingInv, [Next]_vars PROVE WindingInv'
  OBVIOUS
<1>1. ServerInv'
  BY NextServerInv DEF WindingInv
<1>2. CASE Next
  BY <1>1, <1>2, WindingStep, ClosingStep, RunningStep DEF WindingInv
<1>3. CASE UNCHANGED vars
  <2>1. UNCHANGED <<server, core, monitor, end_flag, stream, locking, locking_end, thread,
                    clients, listener, accepted>>
    BY <1>3 DEF vars, server_vars, monitor_vars, listener_vars, client_vars, stream_vars
  <2> QED BY <1>1, <2>1 DEF WindingInv, Winding, Closing, Running
<1> QED BY <1>2, <1>3

\* No thread that closes streams waits, unless a client waits for a lock.
LEMMA NobodyCloses ==
  ASSUME WindingInv, ~CanGoOn, ~WaitsForLock, NEW c \in Clients
  PROVE  thread[c] \in {"none", "run", "ended"}
<1>1. /\ thread[c] \in {"none", "run", "close", "finish", "close_all", "release", "ended"}
      /\ thread[c] \notin {"finish", "release"}
  BY DEF WindingInv, ServerInv, TypeOK, CanGoOn
<1>2. ASSUME thread[c] \in {"close", "close_all"} PROVE FALSE
  <2>1. c \in Primaries
    BY <1>2 DEF WindingInv, Closing, Clients
  <2>2. /\ locking[c] \in {"none", "pop", "wait", "timed_wait", "ended"}
        /\ locking[c] = "none" \/ locking_end[c]
    BY <1>2, <2>1 DEF WindingInv, Closing, ServerInv, TypeOK
  <2>3. locking[c] = "wait" /\ ~Lockable(c)
    BY <1>2, <2>1, <2>2 DEF CanGoOn, MonitoringStopped
  <2> QED BY <2>1, <2>3 DEF WaitsForLock
<1> QED BY <1>1, <1>2

\* Nobody is left half deleted.
LEMMA NobodyReleased ==
  ASSUME WindingInv, ~CanGoOn, ~WaitsForLock, NEW r \in {"server", "monitor"}
  PROVE  list[r] = <<>>
<1> SUFFICES ASSUME list[r] # <<>> PROVE FALSE
  OBVIOUS
<1>1. IF r = "server" THEN server \in {"release", "rest"} ELSE monitor = "release"
  BY DEF WindingInv, ServerInv, AdapterInv, Phases
<1> DEFINE c == Head(list[r])
<1>2. c \in Clients /\ Contains(list[r], c)
  <2>1. list[r] \in Seq(Clients)
    BY DEF WindingInv, ServerInv, TypeOK
  <2> QED BY <2>1, TailFacts
<1>3. life[c] \in {"alive", "deleted"}
  BY <1>2 DEF WindingInv, ServerInv, AdapterInv, Adapters, InSomeList
<1>4. ~CanRelease(r)
  BY DEF CanGoOn
<1>5. life[c] = "alive" /\ ~Joined(c) /\ Handle(c) /\ thread_end[c]
  BY <1>1, <1>2, <1>3, <1>4 DEF CanRelease, WindingInv, ServerInv, TypeOK
<1>6. thread[c] = "run"
  BY <1>2, <1>5, NobodyCloses DEF Joined, Handle
<1> QED BY <1>2, <1>5, <1>6 DEF CanGoOn

\* The thread in Open or Close has returned, and the manager's thread waits.
LEMMA ServerIdle ==
  ASSUME WindingInv, ~CanGoOn, ~WaitsForLock
  PROVE  server = "idle" /\ release_list = <<>>
<1>1. list["server"] = <<>> /\ list["monitor"] = <<>>
  BY NobodyReleased
<1>2. /\ server \in {"idle", "failed", "join_monitor", "release", "rest", "exit"} \cup Listeners
      /\ monitor \in {"none", "wait", "release", "ended"}
      /\ listener \in
           [Listeners -> {"none", "listening", "register", "start", "started", "delete", "ended"}]
      /\ end_flag \in BOOLEAN /\ core \in BOOLEAN
  BY DEF WindingInv, ServerInv, TypeOK
<1>3. server \notin {"failed", "release", "rest", "exit"} /\ monitor # "release"
  BY <1>1 DEF CanGoOn, WindingInv, Winding
<1>4. server # "join_monitor"
  <2>1. server = "join_monitor" => monitor \notin {"none", "wait", "ended"}
    BY DEF CanGoOn, WindingInv, Winding, ServerInv, AdapterInv, Phases
  <2> QED BY <1>2, <1>3, <2>1
<1>5. server \notin Listeners
  BY <1>2 DEF CanGoOn
<1>6. server = "idle"
  BY <1>2, <1>3, <1>4, <1>5
<1>7. CASE ~core
  BY <1>6, <1>7 DEF WindingInv, ServerInv, AdapterInv, Phases, Emptied
<1>8. CASE core
  <2>1. monitor = "wait"
    BY <1>2, <1>3, <1>6, <1>8 DEF WindingInv, Winding
  <2> QED BY <1>6, <2>1 DEF CanGoOn
<1> QED BY <1>2, <1>7, <1>8

(***************************************************************************)
(* The inductive invariant about waiting: which flag was set before each   *)
(* join, and who starts the thread of each registered client.              *)
(***************************************************************************)
THEOREM SpecWindingInv == Spec => []WindingInv
BY InitWindingInv, NextWindingInv, PTL DEF Spec

(***************************************************************************)
(* However many clients connect, disconnect or are being released, and     *)
(* whatever fails, the threads of the server never all wait for each       *)
(* other: Close returns and the clients that have gone are deleted, unless *)
(* a client waits without a limit for what another stream has locked.      *)
(***************************************************************************)
THEOREM SpecStuckOnlyByLock == Spec => []StuckOnlyByLock
<1>1. WindingInv => StuckOnlyByLock
  <2> SUFFICES ASSUME WindingInv, ~CanGoOn, ~WaitsForLock
               PROVE  server = "idle" /\ \A c \in Clients : Registered(c) => link[c] # "down"
    BY DEF StuckOnlyByLock
  <2>1. server = "idle" /\ release_list = <<>>
    BY ServerIdle
  <2>2. list["server"] = <<>> /\ list["monitor"] = <<>>
    BY NobodyReleased
  <2>3. clients \o <<>> \o <<>> \o <<>> = clients
    BY DEF WindingInv, ServerInv, TypeOK
  <2>4. ASSUME NEW c \in Clients, Registered(c) PROVE link[c] # "down"
    <3>1. Contains(clients, c)
      BY <2>1, <2>2, <2>3, <2>4 DEF Registered
    <3>2. thread[c] # "none"
      BY <3>1 DEF WindingInv, Running, CanGoOn
    <3>3. thread[c] = "run"
      BY <3>1, <3>2, NobodyCloses DEF WindingInv, Running
    <3> QED BY <3>3 DEF CanGoOn
  <2> QED BY <2>1, <2>4
<1> QED BY <1>1, SpecWindingInv, PTL
=============================================================================
