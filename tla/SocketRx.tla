------------------------------ MODULE SocketRx ------------------------------
(***************************************************************************)
(* The receiving side of a UDP port: io::Socket (src/io/socket.cc) under   *)
(* the thread of io::IoKey (src/io/io.hpp), and the devices that bind to   *)
(* it by key (the keyed dev::Dev of src/dev/dev.hpp).  A key is a sender's *)
(* address and port.                                                       *)
(*                                                                         *)
(* The network is external: it loses, duplicates and reorders datagrams;   *)
(* what has arrived waits in the socket's queue.  Sending keeps no state.  *)
(*                                                                         *)
(* recvfrom is given 256 bytes whatever the buffer_size of the port is:    *)
(* the module takes datagrams to fit the buffer, and what a longer one     *)
(* overwrites is left out.                                                 *)
(***************************************************************************)
EXTENDS Integers, Sequences, FiniteSets

CONSTANTS Senders,    \* the senders
          Devices,    \* devices that bind to the port
          KeyOf,      \* the key each of them uses
          TimeoutMs,  \* timeout_ms of the constructor
          MaxGrams    \* bound: datagrams sent

None == "none"

ASSUME SocketAssumption ==
    /\ KeyOf \in [Devices -> Senders]
    /\ None \notin Devices
    /\ MaxGrams \in Nat

\* num tells datagrams apart; a datagram may carry no byte at all.
Grams == [key : Senders, num : 1 .. MaxGrams, len : {0, 1}]
NoGram == [key |-> None, num |-> 0, len |-> 0]

VARIABLES running,    \* Io::running
          iopc,       \* the constructor ("open", "bind", "ready"), then the io's thread
          unpackers,  \* IoKey::unpackers: the device of each key that has one
          made,       \* history: the devices in the order they were constructed
          key,        \* IoKey::thread_func's key, uninitialised at first
          buffer,     \* the datagram in Io::buffer
          net,        \* datagrams under way
          queue,      \* datagrams that have arrived
          sent,       \* history: how many were sent
          taken,      \* history: datagrams recvfrom has returned
          delivered   \* history: calls of an unpacker, <<device, datagram>>

binding == <<unpackers, made>>
network == <<net, queue, sent>>
reading == <<key, buffer, taken, delivered>>
sockVars == <<running, iopc, binding, network, reading>>

SockInit ==
    /\ running = FALSE /\ iopc = "open"
    /\ unpackers = [k \in Senders |-> None] /\ made = <<>>
    /\ key = None /\ buffer = NoGram
    /\ net = {} /\ queue = <<>> /\ sent = 0
    /\ taken = <<>> /\ delivered = <<>>

-----------------------------------------------------------------------------
(* Construction.                                                           *)

\* Variant of Timeval that takes the milliseconds for microseconds.
TimevalMicro == [sec |-> TimeoutMs \div 1000000, usec |-> (TimeoutMs \div 1000) % 1000]

\* struct timeval of SO_RCVTIMEO
Timeval == [sec |-> TimeoutMs \div 1000, usec |-> (TimeoutMs * 1000) % 1000000]

\* A zero timeval means that recvfrom waits for ever.
Blocking == TimeoutMs <= 0 \/ Timeval = [sec |-> 0, usec |-> 0]

\* socket, then bind and setsockopt: a failure ends the process.
MakeSocket ==
    /\ \/ iopc = "open" /\ iopc' \in {"bind", "exited"}
       \/ iopc = "bind" /\ iopc' \in {"ready", "exited"}
    /\ UNCHANGED <<running, binding, network, reading>>

\* Variant of MakeDevice in which the last device wins.
MakeDeviceOver(d) ==
    /\ iopc = "ready" /\ \A i \in DOMAIN made : made[i] # d
    /\ made' = Append(made, d)
    /\ unpackers' = [unpackers EXCEPT ![KeyOf[d]] = d]
    /\ UNCHANGED <<running, iopc, network, reading>>

\* Dev<IoKey>: a key that is bound already is logged and stays.
MakeDevice(d) ==
    /\ iopc = "ready" /\ \A i \in DOMAIN made : made[i] # d
    /\ made' = Append(made, d)
    /\ unpackers' = IF unpackers[KeyOf[d]] = None
                    THEN [unpackers EXCEPT ![KeyOf[d]] = d]
                    ELSE unpackers
    /\ UNCHANGED <<running, iopc, network, reading>>

\* Io::run
RunPort ==
    /\ iopc = "ready"
    /\ Len(made) = Cardinality(Devices)
    /\ running' = TRUE /\ iopc' = "test"
    /\ UNCHANGED <<binding, network, reading>>

\* Io::stop clears the flag; it then joins the thread.
StopPort ==
    /\ running
    /\ running' = FALSE
    /\ UNCHANGED <<iopc, binding, network, reading>>

-----------------------------------------------------------------------------
(* The network, once the port is bound.                                    *)

Bound == iopc \notin {"open", "bind", "exited"}

SendGram(k, len) ==
    /\ Bound /\ sent < MaxGrams
    /\ sent' = sent + 1
    /\ net' = net \cup {[key |-> k, num |-> sent', len |-> len]}
    /\ UNCHANGED <<running, iopc, binding, queue, reading>>

\* A datagram arrives, or a copy of it, or it is lost.
Arrive(g) ==
    /\ \/ queue' = Append(queue, g) /\ net' \in {net, net \ {g}}
       \/ net' = net \ {g} /\ UNCHANGED queue
    /\ Len(taken \o queue') <= MaxGrams + 1
    /\ UNCHANGED <<running, iopc, binding, sent, reading>>

-----------------------------------------------------------------------------
(* IoKey::thread_func and Socket::read.                                    *)

\* while (running)
TestFlag ==
    /\ iopc = "test"
    /\ iopc' = IF running THEN "read" ELSE "done"
    /\ UNCHANGED <<running, binding, network, reading>>

\* if (len > 0)
Returned(len) == IF len > 0 THEN "find" ELSE "test"

\* recvfrom returns a datagram; len == 0 is taken (and logged) for a timeout.
Receive ==
    /\ iopc = "read" /\ queue # <<>>
    /\ LET g == Head(queue) IN
         /\ queue' = Tail(queue)
         /\ taken' = Append(taken, g)
         /\ IF g.len > 0 THEN key' = g.key /\ buffer' = g ELSE UNCHANGED <<key, buffer>>
         /\ iopc' = Returned(g.len)
    /\ UNCHANGED <<running, binding, net, sent, delivered>>

\* recvfrom answers -1: SO_RCVTIMEO has run out (EAGAIN), or an error.
ReceiveFails ==
    /\ iopc = "read" /\ queue = <<>> /\ ~Blocking
    /\ iopc' = Returned(-1)
    /\ UNCHANGED <<running, binding, network, reading>>

\* Variant of Unpack in which a key nobody has bound goes to some device.
UnpackAny ==
    /\ iopc = "find" /\ iopc' = "test"
    /\ \E d \in Devices : delivered' = Append(delivered, <<d, buffer>>)
    /\ UNCHANGED <<running, binding, network, key, buffer, taken>>

\* unpackers.find(key): an unbound key is logged.
Unpack ==
    /\ iopc = "find" /\ iopc' = "test"
    /\ delivered' = IF unpackers[key] = None THEN delivered
                    ELSE Append(delivered, <<unpackers[key], buffer>>)
    /\ UNCHANGED <<running, binding, network, key, buffer, taken>>

Thread == TestFlag \/ Receive \/ ReceiveFails \/ Unpack

SockNext ==
    \/ MakeSocket \/ RunPort \/ StopPort \/ Thread
    \/ \E d \in Devices : MakeDevice(d)
    \/ \E k \in Senders, len \in {0, 1} : SendGram(k, len)
    \/ \E g \in net : Arrive(g)

\* The thread is scheduled, and recvfrom returns what it has or times out.
SockFairness == WF_sockVars(Thread)

SockSpec == SockInit /\ [][SockNext]_sockVars /\ SockFairness

-----------------------------------------------------------------------------
\* The device at i was the first to be constructed with key k.
IsFirst(i, k) == KeyOf[made[i]] = k /\ \A j \in 1 .. i - 1 : KeyOf[made[j]] # k

FirstWith(k) == made[CHOOSE i \in DOMAIN made : IsFirst(i, k)]

\* A datagram reaches the device that bound its sender first and no other: a
\* device with a duplicate key (src/dev/dev.hpp:25) never gets one, in whatever
\* order the devices were made, and the first one keeps getting them.
RightDevice ==
    \A i \in DOMAIN delivered :
        delivered[i][1] = FirstWith(delivered[i][2].key)

\* Which of the datagrams taken from the socket carry something and have a
\* device; the last one may still be on its way to it.
Due == {n \in DOMAIN taken : taken[n].len > 0 /\ unpackers[taken[n].key] # None}
Handed == IF iopc = "find" THEN Due \ {Len(taken)} ELSE Due

Rank(n) == Cardinality({m \in Due : m <= n})

\* The datagrams that carry something and have a device are delivered once each
\* for every copy that arrived, in the order of arrival, however reads that
\* time out or return nothing fall between them.
DeliversWhatArrives ==
    /\ Len(delivered) = Cardinality(Handed)
    /\ \A n \in Handed : delivered[Rank(n)][2] = taken[n]

\* Once the io is told to stop, its thread ends, so that Io::stop returns: on a
\* silent port it is the timeout that wakes it up.
StopReturns == (Bound /\ iopc # "ready" /\ ~running) ~> (iopc = "done")

=============================================================================
