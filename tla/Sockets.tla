------------------------------- MODULE Sockets -------------------------------
(* The sockets of experimental/network.hpp as owners of descriptors: UDP     *)
(* sockets, TCP acceptors and connections, and asynchronous UDP sockets, as  *)
(* the POSIX branches have them. The kernel hands out the lowest number that *)
(* is free, so a number that was closed soon means another socket. A call    *)
(* that throws without having changed anything is a stuttering step. An      *)
(* object is used by one thread at a time; a send takes several steps, in    *)
(* between which the other objects are used, and so does a bind that runs in *)
(* a thread of its own.                                                      *)
EXTENDS Integers, Sequences

CONSTANTS
    Udps, Acceptors, Connections, Asyncs,   \* the objects
    Descriptors,    \* bound: the numbers the process may use
    Ports,
    Length,         \* how many pieces a message may be sent in
    MaxWire,        \* bound: the pieces sent over one connection
    Absent, Raw, Free, NoPort, AnyPort

Objects == Udps \cup Acceptors \cup Connections \cup Asyncs
Invalid == -1
SocketType == [kind : {"udp", "tcp"}, port : Ports \cup {NoPort, AnyPort},
               up : {"no", "listening", "connected"}, wire : Seq(Nat)]

ASSUME SocketsAssumption ==
    /\ Descriptors \subseteq Nat
    /\ Udps \cap (Acceptors \cup Connections \cup Asyncs) = {}
    /\ Acceptors \cap (Connections \cup Asyncs) = {} /\ Connections \cap Asyncs = {}
    /\ Free \notin SocketType
    /\ {Absent, Raw} \cap (Descriptors \cup {Invalid}) = {} /\ Absent # Raw
    /\ {NoPort, AnyPort} \cap Ports = {} /\ NoPort # AnyPort
    /\ Length \in Nat /\ MaxWire \in Nat

VARIABLES
    m_socket,   \* the number each object holds, or Invalid; Raw: not initialised
    kernel,     \* the socket behind each number, or Free
    loose,      \* numbers that extract_native has handed to the caller
    sending,    \* the sends under way: the number of each connection's ref, and st
    binding     \* the port that net_bind_async is to bind each UDP socket to
vars == <<m_socket, kernel, loose, sending, binding>>

-----------------------------------------------------------------------------
Socket(kind, port, up) == [kind |-> kind, port |-> port, up |-> up, wire |-> <<>>]
Alive == {o \in Objects : m_socket[o] # Absent}
Idle(o) == o \notin DOMAIN sending /\ (o \in Udps => binding[o] = NoPort)
Lowest(k, d) == k[d] = Free /\ \A e \in Descriptors : e < d => k[e] # Free
PortTaken(k, kind, p) == \E d \in Descriptors : k[d] # Free /\ k[d].kind = kind /\ k[d].port = p

\* close: the kernel without what o holds.
Without(o) ==
    [d \in Descriptors |-> IF d = m_socket[o] THEN Free ELSE kernel[d]]

CloseKeepsNumber(o) ==
    /\ o \in Alive \ Asyncs /\ Idle(o)
    /\ kernel' = Without(o)
    /\ UNCHANGED <<m_socket, loose, sending, binding>>
Close(o) ==
    /\ o \in Alive \ Asyncs /\ Idle(o)
    /\ kernel' = Without(o)
    /\ m_socket' = [m_socket EXCEPT ![o] = Invalid]
    /\ UNCHANGED <<loose, sending, binding>>

\* The asynchronous socket leaves its number as it is.
Construct(o) ==
    /\ o \notin Alive
    /\ m_socket' = [m_socket EXCEPT ![o] = IF o \in Asyncs THEN Raw ELSE Invalid]
    /\ UNCHANGED <<kernel, loose, sending, binding>>

\* It also has no destructor.
Destroy(o) ==
    /\ o \in Alive /\ Idle(o)
    /\ kernel' = IF o \in Asyncs THEN kernel ELSE Without(o)
    /\ m_socket' = [m_socket EXCEPT ![o] = Absent]
    /\ UNCHANGED <<loose, sending, binding>>

\* o takes a new socket from the kernel k, or none when there is none to have.
Take(o, k, s) ==
    \/ \E d \in Descriptors :
          /\ Lowest(k, d)
          /\ kernel' = [k EXCEPT ![d] = s]
          /\ m_socket' = [m_socket EXCEPT ![o] = d]
    \/ kernel' = k /\ m_socket' = [m_socket EXCEPT ![o] = Invalid]

Open(o) ==
    /\ o \in Alive \cap (Udps \cup Acceptors) /\ Idle(o)
    /\ Take(o, Without(o), Socket(IF o \in Udps THEN "udp" ELSE "tcp", NoPort, "no"))
    /\ UNCHANGED <<loose, sending, binding>>

OpenAsync(o) ==
    /\ o \in Alive \cap Asyncs
    /\ Take(o, kernel, Socket("udp", NoPort, "no"))
    /\ UNCHANGED <<loose, sending, binding>>

\* Nobody looks at what bind returns: with the port taken the acceptor keeps what
\* it would have without bind.
BoundBeforeClose(o, p, otherwise) == IF PortTaken(kernel, "tcp", p) THEN otherwise ELSE p
Bound(o, p, otherwise) == IF PortTaken(Without(o), "tcp", p) THEN otherwise ELSE p

\* open, bind and listen, which gives an unbound acceptor a port of the kernel's.
Listen(o, p) ==
    /\ o \in Alive \cap Acceptors
    /\ \/ Take(o, Without(o), Socket("tcp", Bound(o, p, AnyPort), "listening"))
       \/ Take(o, Without(o), Socket("tcp", Bound(o, p, NoPort), "no"))
    /\ UNCHANGED <<loose, sending, binding>>

\* The constructor tests the number again where it means the result of connect:
\* a connection that was refused is constructed like one that is established.
Connect(o) ==
    /\ o \in Connections \ Alive
    /\ \E d \in Descriptors, up \in {"connected", "no"} :
          /\ Lowest(kernel, d)
          /\ kernel' = [kernel EXCEPT ![d] = Socket("tcp", AnyPort, up)]
          /\ m_socket' = [m_socket EXCEPT ![o] = d]
    /\ UNCHANGED <<loose, sending, binding>>

AcceptedLeaks(a, c, k, d) == [k EXCEPT ![d] = Socket("tcp", kernel[m_socket[a]].port, "connected")]
\* The new connection is there before the temporary closes the one it replaces.
Accepted(a, c, k, d) ==
    [e \in Descriptors |->
        IF e = d THEN Socket("tcp", kernel[m_socket[a]].port, "connected")
        ELSE IF c \in Alive /\ e = m_socket[c] THEN Free ELSE k[e]]

\* net_accept_connection into a new connection, or one that is assigned to.
Accept(a, c) ==
    /\ a \in Alive \cap Acceptors /\ c \in Connections /\ Idle(c)
    /\ m_socket[a] \in Descriptors /\ kernel[m_socket[a]].up = "listening"
    /\ \E d \in Descriptors :
          /\ Lowest(kernel, d)
          /\ kernel' = Accepted(a, c, kernel, d)
          /\ m_socket' = [m_socket EXCEPT ![c] = d]
    /\ UNCHANGED <<loose, sending, binding>>

-----------------------------------------------------------------------------
SameClass(o, x) == \E class \in {Udps, Acceptors, Connections} : {o, x} \subseteq class

MoveConstructCopies(o, x) ==
    /\ SameClass(o, x) /\ o \notin Alive /\ x \in Alive /\ Idle(x)
    /\ m_socket' = [m_socket EXCEPT ![o] = m_socket[x]]
    /\ UNCHANGED <<kernel, loose, sending, binding>>
MoveConstruct(o, x) ==
    /\ SameClass(o, x) /\ o \notin Alive /\ x \in Alive /\ Idle(x)
    /\ m_socket' = [m_socket EXCEPT ![o] = m_socket[x], ![x] = Invalid]
    /\ UNCHANGED <<kernel, loose, sending, binding>>

MoveAssign(o, x) ==
    /\ {o, x} \subseteq Alive \cap Connections /\ Idle(o) /\ Idle(x)
    /\ m_socket' = [m_socket EXCEPT ![o] = m_socket[x], ![x] = m_socket[o]]
    /\ UNCHANGED <<kernel, loose, sending, binding>>

extract_native(c) ==
    /\ c \in Alive \cap Connections /\ Idle(c)
    /\ loose' = loose \cup ({m_socket[c]} \ {Invalid})
    /\ m_socket' = [m_socket EXCEPT ![c] = Invalid]
    /\ UNCHANGED <<kernel, sending, binding>>

\* The constructor that assumes ownership of a number.
Adopt(c, d) ==
    /\ c \in Connections \ Alive /\ d \in loose
    /\ loose' = loose \ {d}
    /\ m_socket' = [m_socket EXCEPT ![c] = d]
    /\ UNCHANGED <<kernel, sending, binding>>

-----------------------------------------------------------------------------
\* bind succeeds for a socket without a port, and a port without a socket.
net_bind(d, p) ==
    /\ d \in Descriptors /\ kernel[d] # Free /\ kernel[d].port = NoPort
    /\ ~PortTaken(kernel, kernel[d].kind, p)
    /\ kernel' = [kernel EXCEPT ![d].port = p]

\* A number that is not initialised may be anything.
Bind(o, p) ==
    /\ o \in Alive \cap (Udps \cup Asyncs) /\ Idle(o)
    /\ \/ net_bind(m_socket[o], p)
       \/ m_socket[o] = Raw /\ \E d \in Descriptors : net_bind(d, p)
    /\ UNCHANGED <<m_socket, loose, sending, binding>>

net_bind_async(o, p) ==
    /\ o \in Alive \cap Udps /\ Idle(o)
    /\ binding' = [binding EXCEPT ![o] = p]
    /\ UNCHANGED <<m_socket, kernel, loose, sending>>

\* The thread reads the number when it runs.
BindRuns(o) ==
    /\ o \in Alive \cap Udps /\ binding[o] # NoPort
    /\ \/ net_bind(m_socket[o], binding[o])
       \/ UNCHANGED kernel
    /\ binding' = [binding EXCEPT ![o] = NoPort]
    /\ UNCHANGED <<m_socket, loose, sending>>

-----------------------------------------------------------------------------
\* net_send over a connection: its ref keeps the number.
Pieces(st, n) == [i \in 1 .. n |-> st + i]
With(s, c, r) == [x \in DOMAIN s \cup {c} |-> IF x = c THEN r ELSE s[x]]
Done(s, c) == [x \in DOMAIN s \ {c} |-> s[x]]

StartSend(c) ==
    /\ c \in Alive \cap Connections /\ Idle(c)
    /\ sending' = With(sending, c, [socket |-> m_socket[c], st |-> 0])
    /\ UNCHANGED <<m_socket, kernel, loose, binding>>

SentAtOnce(st, count) == Length
Sent(st, count) == st + count

SendSome(c) ==
    /\ c \in DOMAIN sending
    /\ LET r == sending[c]
       IN  /\ r.socket \in Descriptors /\ kernel[r.socket] # Free
           /\ kernel[r.socket].up = "connected"
           /\ \E count \in 1 .. Length - r.st :
                 /\ Len(kernel[r.socket].wire) + count <= MaxWire
                 /\ kernel' = [kernel EXCEPT ![r.socket].wire = @ \o Pieces(r.st, count)]
                 /\ sending' = [sending EXCEPT ![c].st = Sent(r.st, count)]
    /\ UNCHANGED <<m_socket, loose, binding>>

SendReturns(c) ==
    /\ c \in DOMAIN sending /\ sending[c].st = Length
    /\ sending' = Done(sending, c)
    /\ UNCHANGED <<m_socket, kernel, loose, binding>>

SendThrows(c) ==
    /\ c \in DOMAIN sending /\ sending[c].st < Length
    /\ sending' = Done(sending, c)
    /\ UNCHANGED <<m_socket, kernel, loose, binding>>

-----------------------------------------------------------------------------
Init ==
    /\ m_socket = [o \in Objects |-> Absent]
    /\ kernel = [d \in Descriptors |-> Free]
    /\ loose = {}
    /\ sending = [c \in {} |-> Absent]
    /\ binding = [u \in Udps |-> NoPort]

Next ==
    \/ \E o \in Objects :
          \/ Construct(o) \/ Destroy(o) \/ Close(o) \/ Open(o) \/ OpenAsync(o) \/ BindRuns(o)
          \/ \E p \in Ports : Listen(o, p) \/ Bind(o, p) \/ net_bind_async(o, p)
          \/ \E x \in Objects : MoveConstruct(o, x) \/ MoveAssign(o, x) \/ Accept(o, x)
    \/ \E c \in Connections :
          \/ Connect(c) \/ extract_native(c) \/ \E d \in Descriptors : Adopt(c, d)
          \/ StartSend(c) \/ SendSome(c) \/ SendReturns(c) \/ SendThrows(c)

Spec == Init /\ [][Next]_vars
=============================================================================
