-------------------------- MODULE SocketProperties --------------------------
(* What the sockets keep of the descriptors and of what they are sent.      *)
EXTENDS Sockets, FiniteSets

CONSTANT None       \* the value of an object without a socket

SocketValue == [kind : {"udp", "tcp"}, up : {"no", "listening", "connected"}, wire : Seq(Nat)]
ASSUME ValuesAssumption ==
    /\ None \notin {Absent, Raw}
    /\ Absent \notin SocketValue /\ Raw \notin SocketValue /\ None \notin SocketValue

Opened == {d \in Descriptors : kernel[d] # Free}
Holders(d) == {o \in Objects : m_socket[o] = d}
Lost == {d \in Opened \ loose : Holders(d) = {}}

(* Types of the variables.                                                  *)
TypeOK ==
    /\ m_socket \in [Objects -> Descriptors \cup {Invalid, Absent, Raw}]
    /\ \A o \in Objects \ Asyncs : m_socket[o] # Raw
    /\ kernel \in [Descriptors -> SocketType \cup {Free}]
    /\ \A d \in Opened : Len(kernel[d].wire) <= MaxWire
    /\ loose \subseteq Descriptors
    /\ DOMAIN sending \subseteq Connections
    /\ sending \in [DOMAIN sending -> [socket : Descriptors \cup {Invalid}, st : 0 .. Length]]
    /\ binding \in [Udps -> Ports \cup {NoPort}]

(* A number that an object holds, or that its caller has taken out, is that *)
(* of an open socket and has this one owner: no close, by the object or by  *)
(* its destructor, ever hits a number the kernel has given out again.       *)
OneOwner ==
    /\ \A o \in Objects : m_socket[o] \in Descriptors => m_socket[o] \in Opened
    /\ \A o, x \in Objects : o # x /\ m_socket[o] = m_socket[x] => m_socket[o] \notin Descriptors
    /\ loose \subseteq Opened /\ \A o \in Objects : m_socket[o] \notin loose

(* A send that returns has sent the whole message, however the kernel cut   *)
(* it into pieces: it is the end of what went over the connection.          *)
EndsWithMessage(wire) ==
    /\ Len(wire) >= Length
    /\ SubSeq(wire, Len(wire) - Length + 1, Len(wire)) = Pieces(0, Length)
SendDelivers ==
    [][\A c \in DOMAIN sending \ DOMAIN sending' :
          SendThrows(c) \/ EndsWithMessage(kernel[m_socket[c]].wire)]_vars

(* A socket is lost only with an asynchronous UDP socket that is opened     *)
(* again or destroyed, and the socket of one object is bound by a call on   *)
(* another only if that is an asynchronous one that was never opened, whose *)
(* number is whatever was in its memory.                                    *)
IsBound(o) ==
    /\ m_socket[o] \in Opened /\ m_socket'[o] = m_socket[o]
    /\ kernel[m_socket[o]].port = NoPort /\ kernel'[m_socket[o]].port # NoPort

LosesOnlyWhereKnown ==
    [][/\ \A d \in Lost' \ Lost : \E o \in Asyncs : m_socket[o] = d /\ m_socket'[o] # d
       /\ \A o \in Objects \ Acceptors :
             IsBound(o) => \/ BindRuns(o)
                           \/ \E p \in Ports : Bind(o, p)
                           \/ \E s \in Asyncs : m_socket[s] = Raw]_vars

(* An acceptor that listens does so at the port it was asked to, unless     *)
(* another socket has it: its own old one never stands in the way.          *)
ListensWhereAsked ==
    [][\A o \in Acceptors, p \in Ports :
          Listen(o, p) /\ m_socket'[o] \in Descriptors =>
             \/ kernel'[m_socket'[o]].port = p
             \/ \E d \in Opened \ {m_socket[o]} : kernel[d].kind = "tcp" /\ kernel[d].port = p]_vars

(* The objects implement values: none is changed by a call on another.      *)
Value(o) ==
    LET s == m_socket[o]
    IN  IF s = Invalid THEN None
        ELSE IF s \notin Descriptors THEN s
        ELSE IF kernel[s] = Free THEN Raw
        ELSE [kind |-> kernel[s].kind, up |-> kernel[s].up, wire |-> kernel[s].wire]
Contract == INSTANCE SocketValues WITH value <- [o \in Objects |-> Value(o)]
KeepsValues == Contract!Spec
=============================================================================
