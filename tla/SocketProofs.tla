---------------------------- MODULE SocketProofs ----------------------------
(* Proofs of the properties of SocketProperties for any number of sockets,  *)
(* descriptors and ports and messages of any length.                        *)
EXTENDS SocketProperties, TLAPS

(* Who owns a number is decided by comparing numbers, so the types are      *)
(* needed: what an object without a socket holds is no number.              *)
Inv == TypeOK /\ OneOwner

Kernels == [Descriptors -> SocketType \cup {Free}]
Wires(k) == \A d \in Descriptors : k[d] # Free => Len(k[d].wire) <= MaxWire

\* What is not a number.
LEMMA NoNumbers == Invalid \notin Descriptors /\ Absent \notin Descriptors /\ Raw \notin Descriptors
                   /\ Absent # Invalid /\ Raw # Invalid /\ Absent # Raw
BY SocketsAssumption DEF SocketsAssumption, Invalid

LEMMA Classes ==
    /\ Udps \cup Acceptors \cup Connections \subseteq Objects \ Asyncs
    /\ Udps \cap Connections = {} /\ Acceptors \cap Connections = {} /\ Udps \cap Acceptors = {}
BY SocketsAssumption DEF Objects

LEMMA NewSocket ==
    ASSUME NEW kind \in {"udp", "tcp"}, NEW port \in Ports \cup {NoPort, AnyPort},
           NEW up \in {"no", "listening", "connected"}
    PROVE  LET s == Socket(kind, port, up)
           IN  s \in SocketType /\ s # Free /\ Len(s.wire) <= MaxWire
<1> DEFINE s == Socket(kind, port, up)
<1>1. s.wire = <<>> /\ s \in SocketType
  BY DEF Socket, SocketType
<1>2. s # Free
  BY <1>1, SocketsAssumption
<1> QED
  BY <1>1, <1>2, SocketsAssumption

\* A kernel k that an object o may be left with: everybody else's is as it was.
Spares(k, o) ==
    /\ k \in Kernels /\ Wires(k)
    /\ \A x \in Objects \ {o} : m_socket[x] \in Descriptors => k[m_socket[x]] # Free
    /\ \A d \in loose : k[d] # Free

LEMMA KernelSpares ==
    ASSUME Inv, NEW o \in Objects
    PROVE  Spares(kernel, o)
BY DEF Inv, TypeOK, OneOwner, Spares, Kernels, Wires, Opened

\* Closing spares everybody else because the number has one owner.
LEMMA CloseSpares ==
    ASSUME Inv, NEW o \in Objects
    PROVE  Spares(Without(o), o)
<1>1. Without(o) \in Kernels
  BY DEF Inv, TypeOK, Without, Kernels
<1>2. Wires(Without(o))
  BY DEF Inv, TypeOK, Without, Wires, Opened
<1>3. \A x \in Objects \ {o} : m_socket[x] \in Descriptors => Without(o)[m_socket[x]] # Free
  BY DEF Inv, OneOwner, Without, Opened
<1>4. \A d \in loose : Without(o)[d] # Free
  BY DEF Inv, TypeOK, OneOwner, Without, Opened
<1> QED
  BY <1>1, <1>2, <1>3, <1>4 DEF Spares

\* o is left with no number.
LEMMA KeepsWithoutNumber ==
    ASSUME Inv, NEW o \in Objects, NEW v \in {Invalid, Absent, Raw}, v = Raw => o \in Asyncs,
           Spares(kernel', o), m_socket' = [m_socket EXCEPT ![o] = v],
           UNCHANGED <<loose, sending, binding>>
    PROVE  Inv'
<1>1. TypeOK'
  BY NoNumbers DEF Inv, TypeOK, Spares, Kernels, Wires, Opened
<1>2. OneOwner'
  BY NoNumbers DEF Inv, TypeOK, OneOwner, Spares, Opened
<1> QED
  BY <1>1, <1>2 DEF Inv

\* o is left with a number that was free.
LEMMA KeepsWithNewNumber ==
    ASSUME Inv, NEW o \in Objects, NEW k, Spares(k, o), NEW d \in Descriptors, k[d] = Free,
           NEW s \in SocketType, s # Free, Len(s.wire) <= MaxWire,
           kernel' = [k EXCEPT ![d] = s], m_socket' = [m_socket EXCEPT ![o] = d],
           UNCHANGED <<loose, sending, binding>>
    PROVE  Inv'
<1>1. /\ kernel' \in Kernels /\ kernel'[d] = s
      /\ \A e \in Descriptors \ {d} : kernel'[e] = k[e]
  BY DEF Spares, Kernels
<1>2. \A x \in Objects \ {o} : m_socket'[x] = m_socket[x] /\ m_socket[x] # d
  BY DEF Inv, TypeOK, Spares
<1>3. m_socket'[o] = d /\ d \notin loose
  BY DEF Inv, TypeOK, Spares
<1>4. TypeOK'
  <2>1. Wires(kernel')
    BY <1>1 DEF Spares, Wires
  <2>2. /\ m_socket' \in [Objects -> Descriptors \cup {Invalid, Absent, Raw}]
        /\ \A x \in Objects \ Asyncs : m_socket'[x] # Raw
    BY <1>2, <1>3, NoNumbers DEF Inv, TypeOK
  <2> QED
    BY <1>1, <2>1, <2>2 DEF Inv, TypeOK, Kernels, Wires, Opened
<1>5. OneOwner'
  <2>1. \A x \in Objects : m_socket'[x] \in Descriptors => kernel'[m_socket'[x]] # Free
    BY <1>1, <1>2, <1>3 DEF Spares
  <2>2. \A x, y \in Objects :
           x # y /\ m_socket'[x] = m_socket'[y] => m_socket'[x] \notin Descriptors
    BY <1>2, <1>3 DEF Inv, OneOwner
  <2>3. loose' \subseteq Opened'
    BY <1>1, <1>3 DEF Inv, TypeOK, Spares, Opened
  <2>4. \A x \in Objects : m_socket'[x] \notin loose'
    BY <1>2, <1>3 DEF Inv, OneOwner
  <2> QED
    BY <2>1, <2>2, <2>3, <2>4 DEF OneOwner, Opened
<1> QED
  BY <1>4, <1>5 DEF Inv

LEMMA TakeKeeps ==
    ASSUME Inv, NEW o \in Objects, NEW k, Spares(k, o),
           NEW s \in SocketType, s # Free, Len(s.wire) <= MaxWire,
           Take(o, k, s), UNCHANGED <<loose, sending, binding>>
    PROVE  Inv'
<1>1. CASE kernel' = k /\ m_socket' = [m_socket EXCEPT ![o] = Invalid]
  <2>1. Spares(kernel', o)
    BY <1>1
  <2> QED
    BY <1>1, <2>1, KeepsWithoutNumber, NoNumbers
<1>2. CASE \E d \in Descriptors :
             /\ Lowest(k, d) /\ kernel' = [k EXCEPT ![d] = s]
             /\ m_socket' = [m_socket EXCEPT ![o] = d]
  BY <1>2, KeepsWithNewNumber DEF Lowest
<1> QED
  BY <1>1, <1>2 DEF Take

-----------------------------------------------------------------------------
LEMMA InitInv == Init => Inv
<1> SUFFICES ASSUME Init PROVE Inv
  OBVIOUS
<1>1. TypeOK
  BY NoNumbers, Classes DEF Init, TypeOK, Opened
<1>2. OneOwner
  BY NoNumbers DEF Init, OneOwner, Opened
<1> QED
  BY <1>1, <1>2 DEF Inv

\* The constructors, the destructor, close and open.
LEMMA LifeKeeps ==
    ASSUME Inv, NEW o \in Objects, Construct(o) \/ Destroy(o) \/ Close(o) \/ Open(o) \/ OpenAsync(o)
    PROVE  Inv'
<1>1. CASE Construct(o)
  <2>1. Spares(kernel', o)
    BY <1>1, KernelSpares DEF Construct
  <2> QED
    BY <1>1, <2>1, KeepsWithoutNumber, NoNumbers DEF Construct
<1>2. CASE Destroy(o)
  <2>1. Spares(kernel', o)
    BY <1>2, KernelSpares, CloseSpares DEF Destroy
  <2> QED
    BY <1>2, <2>1, KeepsWithoutNumber, NoNumbers DEF Destroy
<1>3. CASE Close(o)
  <2>1. Spares(kernel', o)
    BY <1>3, CloseSpares DEF Close
  <2> QED
    BY <1>3, <2>1, KeepsWithoutNumber, NoNumbers DEF Close
<1>4. CASE Open(o)
  <2> DEFINE s == Socket(IF o \in Udps THEN "udp" ELSE "tcp", NoPort, "no")
  <2>1. s \in SocketType /\ s # Free /\ Len(s.wire) <= MaxWire
    BY NewSocket
  <2>2. Spares(Without(o), o) /\ Take(o, Without(o), s) /\ UNCHANGED <<loose, sending, binding>>
    BY <1>4, CloseSpares DEF Open
  <2> HIDE DEF s
  <2> QED
    BY <2>1, <2>2, TakeKeeps
<1>5. CASE OpenAsync(o)
  <2> DEFINE s == Socket("udp", NoPort, "no")
  <2>1. s \in SocketType /\ s # Free /\ Len(s.wire) <= MaxWire
    BY NewSocket
  <2>2. Spares(kernel, o) /\ Take(o, kernel, s) /\ UNCHANGED <<loose, sending, binding>>
    BY <1>5, KernelSpares DEF OpenAsync
  <2> HIDE DEF s
  <2> QED
    BY <2>1, <2>2, TakeKeeps
<1> QED
  BY <1>1, <1>2, <1>3, <1>4, <1>5

LEMMA ListenKeeps ==
    ASSUME Inv, NEW o \in Objects, NEW p \in Ports, Listen(o, p)
    PROVE  Inv'
<1> DEFINE s1 == Socket("tcp", Bound(o, p, AnyPort), "listening")
           s2 == Socket("tcp", Bound(o, p, NoPort), "no")
<1>1. s1 \in SocketType /\ s1 # Free /\ Len(s1.wire) <= MaxWire
  <2>1. Bound(o, p, AnyPort) \in Ports \cup {NoPort, AnyPort}
    BY DEF Bound
  <2> QED
    BY <2>1, NewSocket
<1>2. s2 \in SocketType /\ s2 # Free /\ Len(s2.wire) <= MaxWire
  <2>1. Bound(o, p, NoPort) \in Ports \cup {NoPort, AnyPort}
    BY DEF Bound
  <2> QED
    BY <2>1, NewSocket
<1>3. /\ Spares(Without(o), o) /\ UNCHANGED <<loose, sending, binding>>
      /\ Take(o, Without(o), s1) \/ Take(o, Without(o), s2)
  BY CloseSpares DEF Listen
<1> HIDE DEF s1, s2
<1> QED
  BY <1>1, <1>2, <1>3, TakeKeeps

LEMMA ConnectKeeps ==
    ASSUME Inv, NEW c \in Connections, Connect(c)
    PROVE  Inv'
<1>1. PICK d \in Descriptors, up \in {"connected", "no"} :
         /\ Lowest(kernel, d)
         /\ kernel' = [kernel EXCEPT ![d] = Socket("tcp", AnyPort, up)]
         /\ m_socket' = [m_socket EXCEPT ![c] = d]
  BY DEF Connect
<1> DEFINE s == Socket("tcp", AnyPort, up)
<1>2. s \in SocketType /\ s # Free /\ Len(s.wire) <= MaxWire
  BY NewSocket
<1>3. c \in Objects /\ Spares(kernel, c) /\ kernel[d] = Free
  BY <1>1, Classes, KernelSpares DEF Lowest
<1>4. kernel' = [kernel EXCEPT ![d] = s] /\ UNCHANGED <<loose, sending, binding>>
  BY <1>1 DEF Connect
<1> HIDE DEF s
<1> QED
  BY <1>1, <1>2, <1>3, <1>4, KeepsWithNewNumber

\* An accept closes what the connection held before.
LEMMA AcceptKeeps ==
    ASSUME Inv, NEW a \in Objects, NEW c \in Objects, Accept(a, c)
    PROVE  Inv'
<1>1. PICK d \in Descriptors :
         /\ Lowest(kernel, d)
         /\ kernel' = Accepted(a, c, kernel, d)
         /\ m_socket' = [m_socket EXCEPT ![c] = d]
  BY DEF Accept
<1> DEFINE s == Socket("tcp", kernel[m_socket[a]].port, "connected")
<1>2. m_socket[a] \in Descriptors /\ kernel[m_socket[a]] \in SocketType
  BY DEF Accept, Inv, TypeOK, OneOwner, Opened
<1>3. s \in SocketType /\ s # Free /\ Len(s.wire) <= MaxWire
  <2>1. kernel[m_socket[a]].port \in Ports \cup {NoPort, AnyPort}
    BY <1>2 DEF SocketType
  <2> QED
    BY <2>1, NewSocket
<1>4. Spares(Without(c), c) /\ Without(c)[d] = Free
  BY <1>1, CloseSpares DEF Lowest, Without
<1>5. kernel' = [Without(c) EXCEPT ![d] = s]
  <2>1. \A e \in Descriptors : (c \in Alive /\ e = m_socket[c]) <=> e = m_socket[c]
    BY NoNumbers DEF Alive
  <2>2. kernel' = [e \in Descriptors |-> IF e = d THEN s ELSE Without(c)[e]]
    BY <1>1, <2>1 DEF Accepted, Without
  <2> QED
    BY <2>2 DEF Without
<1>6. UNCHANGED <<loose, sending, binding>>
  BY DEF Accept
<1> HIDE DEF s
<1> QED
  BY <1>1, <1>3, <1>4, <1>5, <1>6, KeepsWithNewNumber

-----------------------------------------------------------------------------
\* The calls that hand a number on.
LEMMA MoveConstructKeeps ==
    ASSUME Inv, NEW o \in Objects, NEW x \in Objects, MoveConstruct(o, x)
    PROVE  Inv'
<1>1. /\ o # x /\ m_socket[x] # Raw /\ UNCHANGED <<kernel, loose, sending, binding>>
      /\ m_socket' \in [Objects -> Descriptors \cup {Invalid, Absent, Raw}]
      /\ m_socket'[o] = m_socket[x] /\ m_socket'[x] = Invalid
      /\ \A y \in Objects \ {o, x} : m_socket'[y] = m_socket[y]
  BY Classes, NoNumbers DEF MoveConstruct, SameClass, Alive, Inv, TypeOK
<1>2. TypeOK'
  BY <1>1, NoNumbers DEF Inv, TypeOK, Opened
<1>3. OneOwner'
  BY <1>1, NoNumbers DEF Inv, TypeOK, OneOwner, Opened
<1> QED
  BY <1>2, <1>3 DEF Inv

LEMMA MoveAssignKeeps ==
    ASSUME Inv, NEW o \in Objects, NEW x \in Objects, MoveAssign(o, x)
    PROVE  Inv'
<1>1. /\ m_socket[x] # Raw /\ m_socket[o] # Raw /\ UNCHANGED <<kernel, loose, sending, binding>>
      /\ m_socket' \in [Objects -> Descriptors \cup {Invalid, Absent, Raw}]
      /\ m_socket'[o] = m_socket[x] /\ m_socket'[x] = m_socket[o]
      /\ \A y \in Objects \ {o, x} : m_socket'[y] = m_socket[y]
  BY Classes, NoNumbers DEF MoveAssign, Alive, Inv, TypeOK
<1>2. TypeOK'
  BY <1>1 DEF Inv, TypeOK, Opened
<1>3. OneOwner'
  BY <1>1 DEF Inv, TypeOK, OneOwner, Opened
<1> QED
  BY <1>2, <1>3 DEF Inv

LEMMA ExtractKeeps ==
    ASSUME Inv, NEW c \in Connections, extract_native(c)
    PROVE  Inv'
<1>1. /\ c \in Objects \ Asyncs /\ m_socket[c] \in Descriptors \cup {Invalid}
      /\ m_socket' = [m_socket EXCEPT ![c] = Invalid]
      /\ loose' = loose \cup ({m_socket[c]} \ {Invalid}) /\ UNCHANGED <<kernel, sending, binding>>
  BY Classes DEF extract_native, Alive, Inv, TypeOK
<1>2. TypeOK'
  BY <1>1, NoNumbers DEF Inv, TypeOK, Opened
<1>3. OneOwner'
  BY <1>1, NoNumbers DEF Inv, TypeOK, OneOwner, Opened
<1> QED
  BY <1>2, <1>3 DEF Inv

LEMMA AdoptKeeps ==
    ASSUME Inv, NEW c \in Connections, NEW d \in Descriptors, Adopt(c, d)
    PROVE  Inv'
<1>1. /\ c \in Objects \ Asyncs /\ d \in loose /\ loose' = loose \ {d}
      /\ m_socket' = [m_socket EXCEPT ![c] = d] /\ UNCHANGED <<kernel, sending, binding>>
  BY Classes DEF Adopt
<1>2. TypeOK'
  BY <1>1, NoNumbers DEF Inv, TypeOK, Opened
<1>3. OneOwner'
  BY <1>1, NoNumbers DEF Inv, TypeOK, OneOwner, Opened
<1> QED
  BY <1>2, <1>3 DEF Inv

-----------------------------------------------------------------------------
\* The calls that change what is behind a number, but not whether there is.
LEMMA KeepsSameNumbers ==
    ASSUME Inv, kernel' \in Kernels, Wires(kernel'),
           \A d \in Descriptors : kernel[d] # Free => kernel'[d] # Free,
           UNCHANGED <<m_socket, loose>>,
           DOMAIN sending' \subseteq Connections,
           sending' \in [DOMAIN sending' -> [socket : Descriptors \cup {Invalid}, st : 0 .. Length]],
           binding' \in [Udps -> Ports \cup {NoPort}]
    PROVE  Inv'
<1>1. TypeOK'
  BY DEF Inv, TypeOK, Kernels, Wires, Opened
<1>2. OneOwner'
  BY DEF Inv, OneOwner, Opened
<1> QED
  BY <1>1, <1>2 DEF Inv

LEMMA BindOne ==
    ASSUME Inv, NEW d, NEW p \in Ports, net_bind(d, p)
    PROVE  /\ kernel' \in Kernels /\ Wires(kernel')
           /\ \A e \in Descriptors : kernel[e] # Free => kernel'[e] # Free
<1> DEFINE s == [kernel[d] EXCEPT !.port = p]
<1>1. d \in Descriptors /\ kernel[d] \in SocketType /\ Len(kernel[d].wire) <= MaxWire
  BY DEF net_bind, Inv, TypeOK, Opened
<1>2. s \in SocketType /\ s.wire = kernel[d].wire
  BY <1>1 DEF SocketType
<1>3. s # Free
  BY <1>2, SocketsAssumption
<1>4. kernel' = [kernel EXCEPT ![d] = s]
  BY DEF net_bind
<1> HIDE DEF s
<1>5. kernel'[d] = s /\ \A e \in Descriptors \ {d} : kernel'[e] = kernel[e]
  BY <1>1, <1>4 DEF Inv, TypeOK
<1>6. kernel' \in Kernels
  BY <1>2, <1>4 DEF Inv, TypeOK, Kernels
<1> QED
  BY <1>1, <1>2, <1>3, <1>5, <1>6 DEF Inv, TypeOK, Wires, Opened

LEMMA BindingKeeps ==
    ASSUME Inv, NEW o \in Objects,
           \/ BindRuns(o)
           \/ \E p \in Ports : Bind(o, p) \/ net_bind_async(o, p)
    PROVE  Inv'
<1> DEFINE Bound1 == /\ kernel' \in Kernels /\ Wires(kernel')
                     /\ \A e \in Descriptors : kernel[e] # Free => kernel'[e] # Free
<1>1. UNCHANGED kernel => Bound1
  BY DEF Inv, TypeOK, Kernels, Wires, Opened
<1>2. CASE BindRuns(o)
  <2>1. o \in Udps /\ binding[o] \in Ports
    BY <1>2 DEF BindRuns, Inv, TypeOK
  <2>2. Bound1
    BY <1>1, <1>2, <2>1, BindOne DEF BindRuns
  <2>3. binding' \in [Udps -> Ports \cup {NoPort}] /\ UNCHANGED <<m_socket, loose, sending>>
    BY <1>2 DEF BindRuns, Inv, TypeOK
  <2> QED
    BY <2>2, <2>3, KeepsSameNumbers DEF Inv, TypeOK
<1>3. ASSUME NEW p \in Ports, Bind(o, p) PROVE Inv'
  <2>1. Bound1 /\ UNCHANGED <<m_socket, loose, sending, binding>>
    BY <1>3, BindOne DEF Bind
  <2> QED
    BY <2>1, KeepsSameNumbers DEF Inv, TypeOK
<1>4. ASSUME NEW p \in Ports, net_bind_async(o, p) PROVE Inv'
  <2>1. Bound1
    BY <1>1, <1>4 DEF net_bind_async
  <2>2. binding' \in [Udps -> Ports \cup {NoPort}] /\ UNCHANGED <<m_socket, loose, sending>>
    BY <1>4 DEF net_bind_async, Inv, TypeOK
  <2> QED
    BY <2>1, <2>2, KeepsSameNumbers DEF Inv, TypeOK
<1> QED
  BY <1>2, <1>3, <1>4

LEMMA StartSendKeeps ==
    ASSUME Inv, NEW c \in Connections, StartSend(c)
    PROVE  Inv'
<1> DEFINE r == [socket |-> m_socket[c], st |-> 0]
<1>1. r \in [socket : Descriptors \cup {Invalid}, st : 0 .. Length]
  BY Classes, SocketsAssumption DEF StartSend, Alive, Inv, TypeOK
<1>2. sending' = With(sending, c, r) /\ UNCHANGED <<m_socket, kernel, loose, binding>>
  BY DEF StartSend
<1> HIDE DEF r
<1>3. /\ DOMAIN sending' \subseteq Connections
      /\ sending' \in [DOMAIN sending' -> [socket : Descriptors \cup {Invalid}, st : 0 .. Length]]
  BY <1>1, <1>2 DEF With, Inv, TypeOK
<1> QED
  BY <1>2, <1>3, KeepsSameNumbers DEF Inv, TypeOK, Kernels, Wires, Opened

LEMMA SendEndsKeeps ==
    ASSUME Inv, NEW c \in Connections, SendReturns(c) \/ SendThrows(c)
    PROVE  Inv'
<1>1. sending' = Done(sending, c) /\ UNCHANGED <<m_socket, kernel, loose, binding>>
  BY DEF SendReturns, SendThrows
<1>2. /\ DOMAIN sending' \subseteq Connections
      /\ sending' \in [DOMAIN sending' -> [socket : Descriptors \cup {Invalid}, st : 0 .. Length]]
  BY <1>1 DEF Done, Inv, TypeOK
<1> QED
  BY <1>1, <1>2, KeepsSameNumbers DEF Inv, TypeOK, Kernels, Wires, Opened

LEMMA SendSomeKeeps ==
    ASSUME Inv, NEW c \in Connections, SendSome(c)
    PROVE  Inv'
<1> DEFINE n == sending[c].socket
           st == sending[c].st
<1>1. PICK count \in 1 .. Length - st :
         /\ Len(kernel[n].wire) + count <= MaxWire
         /\ kernel' = [kernel EXCEPT ![n].wire = @ \o Pieces(st, count)]
         /\ sending' = [sending EXCEPT ![c].st = Sent(st, count)]
  BY DEF SendSome
<1>2. /\ n \in Descriptors /\ kernel[n] \in SocketType /\ st \in 0 .. Length
      /\ c \in DOMAIN sending /\ sending[c] \in [socket : Descriptors \cup {Invalid}, st : 0 .. Length]
  BY DEF SendSome, Inv, TypeOK
<1> DEFINE more == kernel[n].wire \o Pieces(st, count)
           s == [kernel[n] EXCEPT !.wire = more]
<1>3. more \in Seq(Nat) /\ Len(more) <= MaxWire
  <2>1. Pieces(st, count) \in Seq(Nat) /\ Len(Pieces(st, count)) = count
    BY <1>2, SocketsAssumption DEF Pieces
  <2>2. kernel[n].wire \in Seq(Nat)
    BY <1>2 DEF SocketType
  <2>3. \A w, v \in Seq(Nat) : w \o v \in Seq(Nat) /\ Len(w \o v) = Len(w) + Len(v)
    OBVIOUS
  <2>4. Len(kernel[n].wire) + Len(Pieces(st, count)) <= MaxWire
    BY <1>1, <2>1
  <2> QED
    BY <2>1, <2>2, <2>3, <2>4
<1>4. kernel' = [kernel EXCEPT ![n] = s]
  BY <1>1
<1>5. s \in SocketType /\ s.wire = more
  BY <1>2, <1>3 DEF SocketType
<1> HIDE DEF s, more
<1>6. s # Free
  BY <1>5, SocketsAssumption
<1>7. kernel'[n] = s /\ \A e \in Descriptors \ {n} : kernel'[e] = kernel[e]
  BY <1>2, <1>4 DEF Inv, TypeOK
<1>8. kernel' \in Kernels /\ Wires(kernel')
  BY <1>2, <1>3, <1>4, <1>5, <1>7 DEF Inv, TypeOK, Kernels, Wires, Opened
<1>9. /\ DOMAIN sending' \subseteq Connections
      /\ sending' \in [DOMAIN sending' -> [socket : Descriptors \cup {Invalid}, st : 0 .. Length]]
  <2>1. Sent(st, count) \in 0 .. Length
    BY <1>1, <1>2, SocketsAssumption DEF Sent
  <2>2. sending' = [sending EXCEPT ![c] = [@ EXCEPT !.st = Sent(st, count)]]
    BY <1>1
  <2>3. [sending[c] EXCEPT !.st = Sent(st, count)] \in [socket : Descriptors \cup {Invalid}, st : 0 .. Length]
    BY <1>2, <2>1
  <2> QED
    BY <2>2, <2>3 DEF Inv, TypeOK
<1>10. UNCHANGED <<m_socket, loose, binding>>
  BY DEF SendSome
<1> QED
  BY <1>6, <1>7, <1>8, <1>9, <1>10, KeepsSameNumbers DEF Inv, TypeOK

-----------------------------------------------------------------------------
LEMMA NextInv == Inv /\ [Next]_vars => Inv'
<1> SUFFICES ASSUME Inv, [Next]_vars PROVE Inv'
  OBVIOUS
<1>1. CASE UNCHANGED vars
  BY <1>1 DEF vars, Inv, TypeOK, OneOwner, Opened
<1>2. ASSUME NEW o \in Objects, Construct(o) \/ Destroy(o) \/ Close(o) \/ Open(o) \/ OpenAsync(o)
      PROVE  Inv'
  BY <1>2, LifeKeeps
<1>3. ASSUME NEW o \in Objects, BindRuns(o) \/ \E p \in Ports : Bind(o, p) \/ net_bind_async(o, p)
      PROVE  Inv'
  BY <1>3, BindingKeeps
<1>4. ASSUME NEW o \in Objects, NEW p \in Ports, Listen(o, p) PROVE Inv'
  BY <1>4, ListenKeeps
<1>5. ASSUME NEW o \in Objects, NEW x \in Objects,
             MoveConstruct(o, x) \/ MoveAssign(o, x) \/ Accept(o, x)
      PROVE  Inv'
  BY <1>5, MoveConstructKeeps, MoveAssignKeeps, AcceptKeeps
<1>6. ASSUME NEW c \in Connections,
             \/ Connect(c) \/ extract_native(c) \/ \E d \in Descriptors : Adopt(c, d)
             \/ StartSend(c) \/ SendSome(c) \/ SendReturns(c) \/ SendThrows(c)
      PROVE  Inv'
  BY <1>6, ConnectKeeps, ExtractKeeps, AdoptKeeps, StartSendKeeps, SendSomeKeeps, SendEndsKeeps
<1> QED
  BY <1>1, <1>2, <1>3, <1>4, <1>5, <1>6 DEF Next

(* The invariants of the sockets hold in every reachable state.             *)
THEOREM Invariance == Spec => []Inv
BY InitInv, NextInv, PTL DEF Spec

(* No variable leaves its type: no send counts more pieces than its message *)
(* has.                                                                     *)
THEOREM TypeCorrect == Spec => []TypeOK
<1>1. Inv => TypeOK
  BY DEF Inv
<1> QED
  BY <1>1, Invariance, PTL

(* A descriptor has one owner, and an owner's descriptor is open: neither   *)
(* close nor a destructor hits a number that was handed out again.          *)
THEOREM DescriptorsHaveOneOwner == Spec => []OneOwner
<1>1. Inv => OneOwner
  BY DEF Inv
<1> QED
  BY <1>1, Invariance, PTL

-----------------------------------------------------------------------------
\* A send that is under way goes over the socket of its connection, and what it
\* has sent of its message is the end of what went over it.
EndsWith(wire, n) == Len(wire) >= n /\ \A i \in 1 .. n : wire[Len(wire) - n + i] = i
SendsUnderWay ==
    \A c \in DOMAIN sending :
       /\ sending[c].socket = m_socket[c]
       /\ sending[c].st > 0 => /\ m_socket[c] \in Opened
                               /\ EndsWith(kernel[m_socket[c]].wire, sending[c].st)

\* An object that a step leaves as it is, and its socket too.
Same(x) ==
    /\ m_socket'[x] = m_socket[x]
    /\ m_socket[x] \in Descriptors => kernel'[m_socket[x]] = kernel[m_socket[x]]

\* What opening, accepting, closing, constructing and destroying have in common:
\* o gives up its socket and is left with a new one or with none.
Renews(o) ==
    /\ UNCHANGED <<loose, sending, binding>>
    /\ o \notin DOMAIN sending
    /\ \E k \in {kernel, Without(o)} :
          /\ k = Without(o) \/ o \in Asyncs \/ o \notin Alive
          /\ \/ /\ kernel' = k
                /\ \E v \in {Invalid, Absent, Raw} :
                      /\ m_socket' = [m_socket EXCEPT ![o] = v]
                      /\ IF o \in Alive THEN v # Raw ELSE v # Absent
             \/ \E d \in Descriptors, s \in SocketType :
                   /\ k[d] = Free /\ s # Free /\ s.wire = <<>>
                   /\ kernel[d] = Free \/ o \in Acceptors \/ s.port = NoPort
                   /\ kernel' = [k EXCEPT ![d] = s]
                   /\ m_socket' = [m_socket EXCEPT ![o] = d]

LEMMA TakeRenews ==
    ASSUME Inv, NEW o \in Objects, NEW k \in {kernel, Without(o)},
           k = Without(o) \/ o \in Asyncs, o \notin DOMAIN sending,
           NEW s \in SocketType, s # Free, s.wire = <<>>,
           o \in Acceptors \/ s.port = NoPort,
           Take(o, k, s), UNCHANGED <<loose, sending, binding>>
    PROVE  Renews(o)
<1>1. CASE kernel' = k /\ m_socket' = [m_socket EXCEPT ![o] = Invalid]
  BY <1>1, NoNumbers DEF Renews
<1>2. CASE \E d \in Descriptors :
             /\ Lowest(k, d) /\ kernel' = [k EXCEPT ![d] = s]
             /\ m_socket' = [m_socket EXCEPT ![o] = d]
  BY <1>2 DEF Renews, Lowest
<1> QED
  BY <1>1, <1>2 DEF Take

\* A send is under way on a connection that is there.
LEMMA Senders ==
    ASSUME Inv, SendsUnderWay, NEW c \in DOMAIN sending
    PROVE  /\ c \in Connections /\ c \in Alive /\ c \notin Asyncs
           /\ sending[c] \in [socket : Descriptors \cup {Invalid}, st : 0 .. Length]
           /\ m_socket[c] = sending[c].socket
<1>1. /\ c \in Connections
      /\ sending[c] \in [socket : Descriptors \cup {Invalid}, st : 0 .. Length]
  BY DEF Inv, TypeOK
<1>2. m_socket[c] = sending[c].socket /\ m_socket[c] \in Descriptors \cup {Invalid}
  BY <1>1 DEF SendsUnderWay
<1> QED
  BY <1>1, <1>2, Classes, NoNumbers DEF Alive

LEMMA LifeRenews ==
    ASSUME Inv, SendsUnderWay, NEW o \in Objects,
           Construct(o) \/ Destroy(o) \/ Close(o) \/ Open(o) \/ OpenAsync(o)
    PROVE  Renews(o)
<1>1. CASE Construct(o)
  <2>1. o \notin DOMAIN sending
    BY <1>1, Senders DEF Construct
  <2> QED
    BY <1>1, <2>1, NoNumbers DEF Construct, Renews
<1>2. CASE Destroy(o)
  <2>1. o \notin DOMAIN sending
    BY <1>2 DEF Destroy, Idle
  <2>2. o \in Alive
    BY <1>2 DEF Destroy
  <2>3. m_socket' = [m_socket EXCEPT ![o] = Absent]
    BY <1>2 DEF Destroy
  <2> QED
    BY <1>2, <2>1, <2>2, <2>3, NoNumbers DEF Destroy, Renews
<1>3. CASE Close(o)
  BY <1>3, NoNumbers DEF Close, Idle, Renews
<1>4. CASE Open(o)
  <2> DEFINE s == Socket(IF o \in Udps THEN "udp" ELSE "tcp", NoPort, "no")
  <2>1. s \in SocketType /\ s # Free
    BY NewSocket
  <2>2. s.wire = <<>> /\ s.port = NoPort
    BY DEF Socket
  <2>3. /\ Take(o, Without(o), s) /\ UNCHANGED <<loose, sending, binding>>
        /\ o \notin DOMAIN sending
    BY <1>4 DEF Open, Idle
  <2> HIDE DEF s
  <2> QED
    BY <2>1, <2>2, <2>3, TakeRenews
<1>5. CASE OpenAsync(o)
  <2> DEFINE s == Socket("udp", NoPort, "no")
  <2>1. s \in SocketType /\ s # Free
    BY NewSocket
  <2>2. s.wire = <<>> /\ s.port = NoPort
    BY DEF Socket
  <2>3. /\ Take(o, kernel, s) /\ UNCHANGED <<loose, sending, binding>>
        /\ o \notin DOMAIN sending /\ o \in Asyncs
    BY <1>5, Senders DEF OpenAsync
  <2> HIDE DEF s
  <2> QED
    BY <2>1, <2>2, <2>3, TakeRenews
<1> QED
  BY <1>1, <1>2, <1>3, <1>4, <1>5

LEMMA ListenRenews ==
    ASSUME Inv, SendsUnderWay, NEW o \in Objects, NEW p \in Ports, Listen(o, p)
    PROVE  Renews(o)
<1> DEFINE s1 == Socket("tcp", Bound(o, p, AnyPort), "listening")
           s2 == Socket("tcp", Bound(o, p, NoPort), "no")
<1>1. s1 \in SocketType /\ s1 # Free /\ s1.wire = <<>>
  <2>1. Bound(o, p, AnyPort) \in Ports \cup {NoPort, AnyPort}
    BY DEF Bound
  <2>2. s1.wire = <<>>
    BY DEF Socket
  <2> QED
    BY <2>1, <2>2, NewSocket
<1>2. s2 \in SocketType /\ s2 # Free /\ s2.wire = <<>>
  <2>1. Bound(o, p, NoPort) \in Ports \cup {NoPort, AnyPort}
    BY DEF Bound
  <2>2. s2.wire = <<>>
    BY DEF Socket
  <2> QED
    BY <2>1, <2>2, NewSocket
<1>3. /\ o \in Acceptors /\ UNCHANGED <<loose, sending, binding>>
      /\ Take(o, Without(o), s1) \/ Take(o, Without(o), s2)
  BY DEF Listen
<1>4. o \notin DOMAIN sending
  BY <1>3, Senders, Classes
<1> HIDE DEF s1, s2
<1> QED
  BY <1>1, <1>2, <1>3, <1>4, TakeRenews

LEMMA ConnectRenews ==
    ASSUME Inv, SendsUnderWay, NEW c \in Connections, Connect(c)
    PROVE  Renews(c)
<1>1. PICK d \in Descriptors, up \in {"connected", "no"} :
         /\ Lowest(kernel, d)
         /\ kernel' = [kernel EXCEPT ![d] = Socket("tcp", AnyPort, up)]
         /\ m_socket' = [m_socket EXCEPT ![c] = d]
  BY DEF Connect
<1> DEFINE s == Socket("tcp", AnyPort, up)
<1>2. s \in SocketType /\ s # Free /\ s.wire = <<>>
  <2>1. s.wire = <<>>
    BY DEF Socket
  <2> QED
    BY <2>1, NewSocket
<1>3. c \notin Alive /\ c \notin DOMAIN sending /\ UNCHANGED <<loose, sending, binding>>
  BY Senders DEF Connect
<1>4. kernel' = [kernel EXCEPT ![d] = s] /\ kernel[d] = Free
  BY <1>1 DEF Lowest
<1> HIDE DEF s
<1> QED
  BY <1>1, <1>2, <1>3, <1>4 DEF Renews

LEMMA AcceptRenews ==
    ASSUME Inv, NEW a \in Objects, NEW c \in Objects, Accept(a, c)
    PROVE  Renews(c)
<1>1. PICK d \in Descriptors :
         /\ Lowest(kernel, d)
         /\ kernel' = Accepted(a, c, kernel, d)
         /\ m_socket' = [m_socket EXCEPT ![c] = d]
  BY DEF Accept
<1> DEFINE s == Socket("tcp", kernel[m_socket[a]].port, "connected")
<1>2. m_socket[a] \in Descriptors /\ kernel[m_socket[a]] \in SocketType
  BY DEF Accept, Inv, TypeOK, OneOwner, Opened
<1>3. s \in SocketType /\ s # Free /\ s.wire = <<>>
  <2>1. kernel[m_socket[a]].port \in Ports \cup {NoPort, AnyPort}
    BY <1>2 DEF SocketType
  <2>2. s.wire = <<>>
    BY DEF Socket
  <2> QED
    BY <2>1, <2>2, NewSocket
<1>4. kernel[d] = Free /\ Without(c)[d] = Free
  BY <1>1 DEF Lowest, Without
<1>5. kernel' = [Without(c) EXCEPT ![d] = s]
  <2>1. \A e \in Descriptors : (c \in Alive /\ e = m_socket[c]) <=> e = m_socket[c]
    BY NoNumbers DEF Alive
  <2>2. kernel' = [e \in Descriptors |-> IF e = d THEN s ELSE Without(c)[e]]
    BY <1>1, <2>1 DEF Accepted, Without
  <2> QED
    BY <2>2 DEF Without
<1>6. UNCHANGED <<loose, sending, binding>> /\ c \notin DOMAIN sending
  BY DEF Accept, Idle
<1> HIDE DEF s
<1> QED
  BY <1>1, <1>3, <1>4, <1>5, <1>6 DEF Renews

\* A renewal leaves the others alone, as nobody else has the number of o.
LEMMA RenewalSame ==
    ASSUME Inv, NEW o \in Objects, Renews(o)
    PROVE  \A x \in Objects \ {o} : Same(x)
<1> SUFFICES ASSUME NEW x \in Objects \ {o} PROVE Same(x)
  OBVIOUS
<1>1. PICK k \in {kernel, Without(o)} :
         \/ kernel' = k /\ \E v : m_socket' = [m_socket EXCEPT ![o] = v]
         \/ \E d \in Descriptors, s \in SocketType :
               /\ k[d] = Free /\ kernel' = [k EXCEPT ![d] = s]
               /\ m_socket' = [m_socket EXCEPT ![o] = d]
  BY DEF Renews
<1>2. m_socket'[x] = m_socket[x]
  BY <1>1 DEF Inv, TypeOK
<1>3. ASSUME m_socket[x] \in Descriptors
      PROVE  /\ k[m_socket[x]] = kernel[m_socket[x]]
             /\ kernel[m_socket[x]] # Free /\ k \in [Descriptors -> SocketType \cup {Free}]
  <2>1. m_socket[o] # m_socket[x] /\ kernel[m_socket[x]] # Free
    BY <1>3 DEF Inv, OneOwner, Opened
  <2> QED
    BY <1>3, <2>1 DEF Without, Inv, TypeOK
<1>4. m_socket[x] \in Descriptors => kernel'[m_socket[x]] = kernel[m_socket[x]]
  BY <1>1, <1>3
<1> QED
  BY <1>2, <1>4 DEF Same

-----------------------------------------------------------------------------
\* What the value of an object is.
ValueIs(o) ==
    /\ m_socket[o] \in Descriptors \cup {Invalid, Absent, Raw}
    /\ m_socket[o] = Invalid => Value(o) = None
    /\ m_socket[o] \in {Absent, Raw} => Value(o) = m_socket[o]
    /\ m_socket[o] \in Descriptors =>
          /\ kernel[m_socket[o]] # Free /\ kernel[m_socket[o]] \in SocketType
          /\ Value(o) \in SocketValue
          /\ Value(o).kind = kernel[m_socket[o]].kind
          /\ Value(o).up = kernel[m_socket[o]].up
          /\ Value(o).wire = kernel[m_socket[o]].wire
    /\ Value(o) = Absent <=> m_socket[o] = Absent

LEMMA Values == Inv => \A o \in Objects : ValueIs(o)
<1> SUFFICES ASSUME Inv, NEW o \in Objects PROVE ValueIs(o)
  OBVIOUS
<1>1. m_socket[o] \in Descriptors \cup {Invalid, Absent, Raw}
  BY DEF Inv, TypeOK
<1>2. CASE m_socket[o] = Invalid
  BY <1>2, NoNumbers, ValuesAssumption DEF Value, ValueIs
<1>3. CASE m_socket[o] \in {Absent, Raw}
  BY <1>3, NoNumbers DEF Value, ValueIs
<1>4. CASE m_socket[o] \in Descriptors
  <2> DEFINE s == kernel[m_socket[o]]
  <2>1. s # Free /\ s \in SocketType
    BY <1>4 DEF Inv, TypeOK, OneOwner, Opened
  <2>2. Value(o) = [kind |-> s.kind, up |-> s.up, wire |-> s.wire]
    BY <1>4, <2>1, NoNumbers DEF Value
  <2>3. Value(o) \in SocketValue
    BY <2>1, <2>2 DEF SocketType, SocketValue
  <2> QED
    BY <1>4, <2>1, <2>2, <2>3, NoNumbers, ValuesAssumption DEF ValueIs
<1> QED
  BY <1>1, <1>2, <1>3, <1>4

LEMMA NewValues == Inv' => (\A o \in Objects : ValueIs(o))'
BY Values, PTL

LEMMA SameValue ==
    ASSUME NEW x \in Objects, Same(x)
    PROVE  Value(x)' = Value(x)
BY DEF Same, Value

\* A step that leaves all but one alone changes the value of that one.
LEMMA OneValueChanges ==
    ASSUME NEW o \in Objects, \A x \in Objects \ {o} : Value(x)' = Value(x)
    PROVE  Contract!Change(o, Value(o)')
<1>1. [x \in Objects |-> Value(x)]' = [[x \in Objects |-> Value(x)] EXCEPT ![o] = Value(o)']
  OBVIOUS
<1> QED
  BY <1>1 DEF Contract!Change

LEMMA RenewalRefines ==
    ASSUME Inv, Inv', NEW o \in Objects, Renews(o)
    PROVE  Contract!Next
<1>1. Contract!Change(o, Value(o)')
  BY RenewalSame, SameValue, OneValueChanges
<1>2. ValueIs(o) /\ ValueIs(o)'
  BY Values, NewValues
<1>3. CASE \E v \in {Invalid, Absent, Raw} :
              /\ m_socket' = [m_socket EXCEPT ![o] = v]
              /\ IF o \in Alive THEN v # Raw ELSE v # Absent
  <2>1. PICK v \in {Invalid, Absent, Raw} :
              /\ m_socket' = [m_socket EXCEPT ![o] = v]
              /\ IF o \in Alive THEN v # Raw ELSE v # Absent
    BY <1>3
  <2>2. m_socket'[o] = v
    BY <2>1 DEF Inv, TypeOK
  <2>3. CASE o \notin Alive
    <3>1. Value(o) = Absent /\ Value(o)' \in {None, Raw}
      BY <1>2, <2>1, <2>2, <2>3 DEF ValueIs, Alive
    <3>2. Contract!Construct(o)
      BY <1>1, <3>1 DEF Contract!Construct
    <3> QED
      BY <3>2 DEF Contract!Next
  <2>4. CASE o \in Alive /\ v = Absent
    <3>1. Value(o) # Absent /\ Value(o)' = Absent
      BY <1>2, <2>2, <2>4, NoNumbers DEF ValueIs, Alive
    <3>2. Contract!Destroy(o)
      BY <1>1, <3>1 DEF Contract!Destroy
    <3> QED
      BY <3>2 DEF Contract!Next
  <2>5. CASE o \in Alive /\ v = Invalid
    <3>1. Value(o) # Absent /\ Value(o)' = None
      BY <1>2, <2>2, <2>5, NoNumbers DEF ValueIs, Alive
    <3>2. Contract!Close(o)
      BY <1>1, <3>1 DEF Contract!Close
    <3> QED
      BY <3>2 DEF Contract!Next
  <2> QED
    BY <2>1, <2>3, <2>4, <2>5
<1>4. CASE \E k \in {kernel, Without(o)}, d \in Descriptors, s \in SocketType :
              /\ s.wire = <<>>
              /\ kernel' = [k EXCEPT ![d] = s]
              /\ m_socket' = [m_socket EXCEPT ![o] = d]
  <2>1. PICK k \in {kernel, Without(o)}, d \in Descriptors, s \in SocketType :
              /\ s.wire = <<>>
              /\ kernel' = [k EXCEPT ![d] = s]
              /\ m_socket' = [m_socket EXCEPT ![o] = d]
    BY <1>4
  <2>2. m_socket'[o] = d /\ kernel'[d] = s
    BY <2>1 DEF Inv, TypeOK, Without
  <2>3. Value(o)' \in SocketValue /\ Value(o)'.wire = <<>>
    BY <1>2, <2>1, <2>2 DEF ValueIs
  <2>4. Contract!IsSocket(Value(o)')
    BY <2>3, ValuesAssumption DEF Contract!IsSocket
  <2>5. Contract!Renew(o)
    BY <1>1, <2>3, <2>4 DEF Contract!Renew
  <2> QED
    BY <2>5 DEF Contract!Next
<1>5. PICK k \in {kernel, Without(o)} :
         \/ \E v \in {Invalid, Absent, Raw} :
               /\ m_socket' = [m_socket EXCEPT ![o] = v]
               /\ IF o \in Alive THEN v # Raw ELSE v # Absent
         \/ \E d \in Descriptors, s \in SocketType :
               /\ s.wire = <<>>
               /\ kernel' = [k EXCEPT ![d] = s]
               /\ m_socket' = [m_socket EXCEPT ![o] = d]
  BY DEF Renews
<1> QED
  BY <1>3, <1>4, <1>5

-----------------------------------------------------------------------------
\* The calls that hand a socket on.
LEMMA MovesRefine ==
    ASSUME Inv, Inv', NEW o \in Objects, NEW x \in Objects, MoveConstruct(o, x) \/ MoveAssign(o, x)
    PROVE  Contract!Next \/ UNCHANGED [y \in Objects |-> Value(y)]
<1>0. kernel' = kernel
  BY DEF MoveConstruct, MoveAssign
<1>1. \A y \in Objects \ {o, x} : m_socket'[y] = m_socket[y]
  BY DEF MoveConstruct, MoveAssign, Inv, TypeOK
<1>2. \A y \in Objects \ {o, x} : Value(y)' = Value(y)
  BY <1>0, <1>1, SameValue DEF Same
<1>3. ValueIs(o) /\ ValueIs(x) /\ ValueIs(o)' /\ ValueIs(x)'
  BY Values, NewValues
<1>4. \A y, z \in Objects : m_socket'[y] = m_socket[z] => Value(y)' = Value(z)
  BY <1>0 DEF Value
<1>5. CASE MoveConstruct(o, x)
  <2>1. o # x /\ m_socket'[o] = m_socket[x] /\ m_socket'[x] = Invalid
    BY <1>5 DEF MoveConstruct, Inv, TypeOK
  <2>2. Value(o)' = Value(x) /\ Value(x)' = None
    BY <1>3, <1>4, <2>1 DEF ValueIs
  <2>3. Value(o) = Absent /\ Value(x) # Absent
    BY <1>3, <1>5 DEF MoveConstruct, Alive, ValueIs
  <2>4. [y \in Objects |-> Value(y)]' =
           [[y \in Objects |-> Value(y)] EXCEPT ![o] = Value(x), ![x] = None]
    BY <1>2, <2>1, <2>2
  <2>5. Contract!Move(o, x)
    BY <2>3, <2>4 DEF Contract!Move
  <2> QED
    BY <2>1, <2>5 DEF Contract!Next
<1>6. CASE MoveAssign(o, x)
  <2>1. m_socket'[o] = m_socket[x] /\ m_socket'[x] = m_socket[o]
    BY <1>6 DEF MoveAssign, Inv, TypeOK
  <2>2. Value(o)' = Value(x) /\ Value(x)' = Value(o)
    BY <1>4, <2>1
  <2>3. Value(o) # Absent /\ Value(x) # Absent
    BY <1>3, <1>6 DEF MoveAssign, Alive, ValueIs
  <2>4. [y \in Objects |-> Value(y)]' =
           [[y \in Objects |-> Value(y)] EXCEPT ![o] = Value(x), ![x] = Value(o)]
    BY <1>2, <2>2
  <2>5. Contract!Exchange(o, x)
    BY <2>3, <2>4 DEF Contract!Exchange
  <2>6. CASE o = x
    <3>1. \A y \in Objects : Value(y)' = Value(y)
      BY <1>2, <2>2, <2>6
    <3> QED
      BY <3>1
  <2> QED
    BY <2>5, <2>6 DEF Contract!Next
<1> QED
  BY <1>5, <1>6

LEMMA ExtractRefines ==
    ASSUME Inv, Inv', NEW c \in Connections, extract_native(c)
    PROVE  Contract!Next
<1>1. c \in Objects /\ kernel' = kernel /\ m_socket' = [m_socket EXCEPT ![c] = Invalid]
  BY Classes DEF extract_native
<1>2. \A y \in Objects \ {c} : Value(y)' = Value(y)
  BY <1>1, SameValue DEF Same, Inv, TypeOK
<1>3. Value(c)' = None
  BY <1>1, NewValues DEF ValueIs, Inv, TypeOK
<1>4. Value(c) # Absent
  BY <1>1, Values DEF ValueIs, extract_native, Alive
<1>5. Contract!Close(c)
  BY <1>1, <1>2, <1>3, <1>4, OneValueChanges DEF Contract!Close
<1> QED
  BY <1>1, <1>5 DEF Contract!Next

LEMMA AdoptRefines ==
    ASSUME Inv, Inv', NEW c \in Connections, NEW d \in Descriptors, Adopt(c, d)
    PROVE  Contract!Next
<1>1. c \in Objects /\ kernel' = kernel /\ m_socket' = [m_socket EXCEPT ![c] = d]
  BY Classes DEF Adopt
<1>2. \A y \in Objects \ {c} : Value(y)' = Value(y)
  BY <1>1, SameValue DEF Same, Inv, TypeOK
<1>3. Value(c)' \in SocketValue
  BY <1>1, NewValues DEF ValueIs, Inv, TypeOK
<1>4. Value(c) = Absent
  BY <1>1, Values DEF ValueIs, Adopt, Alive
<1>5. Contract!IsSocket(Value(c)')
  BY <1>3, ValuesAssumption DEF Contract!IsSocket
<1>6. Contract!Adopt(c)
  BY <1>1, <1>2, <1>4, <1>5, OneValueChanges DEF Contract!Adopt
<1> QED
  BY <1>1, <1>6 DEF Contract!Next

\* A port is not a part of the value.
LEMMA PortIsNoValue ==
    ASSUME Inv, NEW d, NEW p \in Ports, net_bind(d, p), UNCHANGED m_socket
    PROVE  UNCHANGED [y \in Objects |-> Value(y)]
<1> DEFINE s == [kernel[d] EXCEPT !.port = p]
<1>1. d \in Descriptors /\ kernel[d] \in SocketType
  BY DEF net_bind, Inv, TypeOK
<1>2. s \in SocketType /\ s.wire = kernel[d].wire /\ s.kind = kernel[d].kind /\ s.up = kernel[d].up
  BY <1>1 DEF SocketType
<1>3. s # Free /\ kernel[d] # Free
  BY <1>2, SocketsAssumption DEF net_bind
<1>4. kernel' = [kernel EXCEPT ![d] = s]
  BY DEF net_bind
<1> HIDE DEF s
<1>5. kernel'[d] = s /\ \A e \in Descriptors \ {d} : kernel'[e] = kernel[e]
  BY <1>1, <1>4 DEF Inv, TypeOK
<1>6. \A y \in Objects : Value(y)' = Value(y)
  BY <1>2, <1>3, <1>5 DEF Value
<1> QED
  BY <1>6

LEMMA BindingRefines ==
    ASSUME Inv, NEW o \in Objects,
           \/ BindRuns(o)
           \/ \E p \in Ports : Bind(o, p) \/ net_bind_async(o, p)
    PROVE  UNCHANGED [y \in Objects |-> Value(y)]
<1>0. (kernel' = kernel /\ m_socket' = m_socket) => UNCHANGED [y \in Objects |-> Value(y)]
  BY DEF Value
<1>1. CASE BindRuns(o)
  <2>1. binding[o] \in Ports
    BY <1>1 DEF BindRuns, Inv, TypeOK
  <2> QED
    BY <1>0, <1>1, <2>1, PortIsNoValue DEF BindRuns
<1>2. ASSUME NEW p \in Ports, Bind(o, p) PROVE UNCHANGED [y \in Objects |-> Value(y)]
  <2>1. UNCHANGED m_socket /\ \E d : net_bind(d, p)
    BY <1>2 DEF Bind
  <2> QED
    BY <2>1, PortIsNoValue
<1>3. ASSUME NEW p \in Ports, net_bind_async(o, p) PROVE UNCHANGED [y \in Objects |-> Value(y)]
  BY <1>0, <1>3 DEF net_bind_async
<1> QED
  BY <1>1, <1>2, <1>3

\* Pieces that are sent over a connection.
LEMMA PiecesOf ==
    ASSUME NEW st \in Nat, NEW n \in Nat
    PROVE  /\ Pieces(st, n) \in Seq(Nat) /\ Len(Pieces(st, n)) = n
           /\ \A i \in 1 .. n : Pieces(st, n)[i] = st + i
BY DEF Pieces

\* What a piece of a send does: to the socket of its connection, and to no other.
LEMMA SendSomeDoes ==
    ASSUME Inv, SendsUnderWay, NEW c \in Connections, SendSome(c)
    PROVE  /\ c \in DOMAIN sending /\ sending[c].st \in Nat
           /\ \A x \in Objects \ {c} : Same(x)
           /\ m_socket[c] \in Opened /\ m_socket'[c] = m_socket[c]
           /\ kernel[m_socket[c]].wire \in Seq(Nat)
           /\ \E count \in 1 .. Length - sending[c].st :
                 /\ kernel'[m_socket[c]] = [kernel[m_socket[c]] EXCEPT !.wire = @ \o Pieces(sending[c].st, count)]
                 /\ sending' = [sending EXCEPT ![c].st = @ + count]
<1> DEFINE d == m_socket[c]
           st == sending[c].st
<1>1. /\ c \in Objects /\ sending[c].socket = d /\ st \in 0 .. Length /\ c \in DOMAIN sending
  BY Classes, Senders DEF SendSome
<1>2. d \in Descriptors /\ kernel[d] # Free /\ m_socket' = m_socket
  BY <1>1 DEF SendSome
<1>3. kernel[d].wire \in Seq(Nat)
  BY <1>2 DEF Inv, TypeOK, SocketType
<1>4. PICK count \in 1 .. Length - st :
         /\ kernel' = [kernel EXCEPT ![d].wire = @ \o Pieces(st, count)]
         /\ sending' = [sending EXCEPT ![c].st = st + count]
  BY <1>1 DEF SendSome, Sent
<1>5. \A x \in Objects \ {c} : m_socket[x] # d
  BY <1>1, <1>2 DEF Inv, OneOwner
<1>6. \A x \in Objects \ {c} : Same(x)
  BY <1>2, <1>4, <1>5 DEF Same, Inv, TypeOK
<1>7. kernel'[d] = [kernel[d] EXCEPT !.wire = @ \o Pieces(st, count)]
  BY <1>2, <1>4 DEF Inv, TypeOK
<1>8. sending' = [sending EXCEPT ![c].st = @ + count]
  BY <1>4
<1>9. st \in Nat /\ d \in Opened
  BY <1>1, <1>2, SocketsAssumption DEF Opened
<1>10. \E n \in 1 .. Length - st :
          /\ kernel'[d] = [kernel[d] EXCEPT !.wire = @ \o Pieces(st, n)]
          /\ sending' = [sending EXCEPT ![c].st = @ + n]
  BY <1>7, <1>8
<1> QED
  BY <1>1, <1>2, <1>3, <1>6, <1>9, <1>10

LEMMA SendSomeRefines ==
    ASSUME Inv, SendsUnderWay, Inv', NEW c \in Connections, SendSome(c)
    PROVE  Contract!Next
<1> DEFINE d == m_socket[c]
           st == sending[c].st
           wire == kernel[d].wire
<1>1. PICK count \in 1 .. Length - st :
         kernel'[d] = [kernel[d] EXCEPT !.wire = @ \o Pieces(st, count)]
  BY SendSomeDoes
<1>2. /\ c \in DOMAIN sending /\ st \in Nat /\ m_socket'[c] = d /\ d \in Opened
      /\ \A x \in Objects \ {c} : Value(x)' = Value(x)
      /\ wire \in Seq(Nat) /\ c \in Objects /\ count \in Nat /\ count > 0
  <2>1. /\ c \in DOMAIN sending /\ st \in Nat /\ m_socket'[c] = d /\ d \in Opened
        /\ wire \in Seq(Nat) /\ \A x \in Objects \ {c} : Same(x)
    BY SendSomeDoes
  <2>2. count \in Nat /\ count > 0
    BY <2>1, SocketsAssumption
  <2> QED
    BY <2>1, <2>2, SameValue, Classes
<1>3. ValueIs(c) /\ ValueIs(c)'
  BY <1>2, Values, NewValues
<1> DEFINE more == wire \o Pieces(st, count)
<1>4. /\ Value(c) \in SocketValue /\ Value(c)' \in SocketValue
      /\ Value(c).wire = wire
      /\ kernel[d] \in SocketType
      /\ Value(c)'.wire = kernel'[d].wire /\ Value(c)'.up = kernel'[d].up /\ Value(c)'.kind = kernel'[d].kind
      /\ Value(c).up = kernel[d].up /\ Value(c).kind = kernel[d].kind
  BY <1>2, <1>3 DEF ValueIs, Opened
<1>5. Value(c)'.wire = more /\ Value(c)'.up = Value(c).up /\ Value(c)'.kind = Value(c).kind
  BY <1>1, <1>4 DEF SocketType
<1>6. Value(c)' = [Value(c) EXCEPT !.wire = more]
  BY <1>4, <1>5 DEF SocketValue
<1>7. /\ Len(more) = Len(wire) + count
      /\ \E start \in {0, IF wire = <<>> THEN 0 ELSE wire[Len(wire)]} :
            more = wire \o [i \in 1 .. Len(more) - Len(wire) |-> start + i]
  <2>1. Len(more) = Len(wire) + count
    <3>1. Pieces(st, count) \in Seq(Nat) /\ Len(Pieces(st, count)) = count
      BY <1>2, PiecesOf
    <3>2. \A w, v \in Seq(Nat) : Len(w \o v) = Len(w) + Len(v)
      OBVIOUS
    <3> QED
      BY <1>2, <3>1, <3>2
  <2>2. Len(more) - Len(wire) = count
    BY <1>2, <2>1
  <2>3. more = wire \o [i \in 1 .. Len(more) - Len(wire) |-> st + i]
    BY <2>2 DEF Pieces
  <2>4. st > 0 => wire # <<>> /\ wire[Len(wire)] = st
    BY <1>2 DEF SendsUnderWay, EndsWith
  <2>5. st \in {0, IF wire = <<>> THEN 0 ELSE wire[Len(wire)]}
    BY <1>2, <2>4
  <2> QED
    BY <2>1, <2>3, <2>5
<1>8. Contract!IsSocket(Value(c)) /\ Contract!IsSocket(Value(c)')
  BY <1>4, ValuesAssumption DEF Contract!IsSocket
<1>9. Contract!Change(c, Value(c)')
  BY <1>2, OneValueChanges
<1>10. Len(more) > Len(wire)
  BY <1>2, <1>7
<1> HIDE DEF more, wire
<1>11. Contract!Send(c)
  <2>1. /\ [o \in Objects |-> Value(o)][c] = Value(c)
        /\ [o \in Objects |-> Value(o)]'[c] = Value(c)'
    BY <1>2
  <2>2. Contract!Change(c, [Value(c) EXCEPT !.wire = more])
    BY <1>6, <1>9
  <2>3. Value(c).wire = wire /\ Value(c)'.wire = more
    BY <1>4, <1>5
  <2> QED
    BY <1>7, <1>8, <1>10, <2>1, <2>2, <2>3 DEF Contract!Send
<1> QED
  BY <1>2, <1>11 DEF Contract!Next

-----------------------------------------------------------------------------
\* A step that leaves the socket of each send that goes on as it is, but for its port.
LEMMA SendsGoOn ==
    ASSUME SendsUnderWay,
           \A c \in DOMAIN sending' :
              /\ c \in DOMAIN sending /\ sending'[c] = sending[c] /\ m_socket'[c] = m_socket[c]
              /\ m_socket[c] \in Opened =>
                    m_socket[c] \in Opened' /\ kernel'[m_socket[c]].wire = kernel[m_socket[c]].wire
    PROVE  SendsUnderWay'
BY DEF SendsUnderWay

LEMMA SameSendsGoOn ==
    ASSUME SendsUnderWay,
           \A c \in DOMAIN sending' : c \in DOMAIN sending /\ sending'[c] = sending[c] /\ Same(c)
    PROVE  SendsUnderWay'
<1>1. \A c \in DOMAIN sending' : m_socket[c] \in Opened =>
         m_socket[c] \in Opened' /\ kernel'[m_socket[c]].wire = kernel[m_socket[c]].wire
  BY DEF Same, Opened
<1> QED
  BY <1>1, SendsGoOn DEF Same

LEMMA BindKeepsSends ==
    ASSUME Inv, SendsUnderWay, NEW o \in Objects,
           \/ BindRuns(o)
           \/ \E p \in Ports : Bind(o, p) \/ net_bind_async(o, p)
    PROVE  SendsUnderWay'
<1>1. UNCHANGED <<m_socket, sending>>
  BY DEF BindRuns, Bind, net_bind_async
<1>2. kernel' = kernel \/ \E d \in Descriptors : kernel' = [kernel EXCEPT ![d].port = kernel'[d].port]
  BY DEF BindRuns, Bind, net_bind_async, net_bind, Inv, TypeOK
<1>3. \A d \in Opened : d \in Opened' /\ kernel'[d].wire = kernel[d].wire
  <2>1. \A d \in Opened : kernel'[d].wire = kernel[d].wire
    BY <1>2 DEF Opened, Inv, TypeOK, SocketType
  <2>2. kernel' = kernel \/ \E d : \E p \in Ports : net_bind(d, p)
    BY DEF BindRuns, Bind, net_bind_async, Inv, TypeOK
  <2>3. \A e \in Descriptors : kernel[e] # Free => kernel'[e] # Free
    BY <2>2, BindOne
  <2> QED
    BY <2>1, <2>3 DEF Opened
<1> QED
  BY <1>1, <1>3, SendsGoOn

LEMMA SendSomeKeepsSends ==
    ASSUME Inv, Inv', SendsUnderWay, NEW c \in Connections, SendSome(c)
    PROVE  SendsUnderWay'
<1> DEFINE d == m_socket[c]
           st == sending[c].st
           wire == kernel[d].wire
<1>1. /\ c \in DOMAIN sending /\ st \in Nat /\ d \in Opened /\ m_socket'[c] = d
      /\ \A x \in Objects \ {c} : Same(x)
      /\ wire \in Seq(Nat) /\ kernel[d] \in SocketType
  BY SendSomeDoes DEF Inv, TypeOK, Opened
<1>2. PICK count \in 1 .. Length - st :
         /\ kernel'[d] = [kernel[d] EXCEPT !.wire = @ \o Pieces(st, count)]
         /\ sending' = [sending EXCEPT ![c].st = @ + count]
  BY SendSomeDoes
<1>3. count \in Nat /\ count > 0
  BY <1>1, SocketsAssumption
<1> DEFINE more == wire \o Pieces(st, count)
<1>4. kernel'[d].wire = more
  BY <1>1, <1>2 DEF SocketType
<1>5. DOMAIN sending' = DOMAIN sending /\ \A x \in DOMAIN sending \ {c} : sending'[x] = sending[x]
  BY <1>2
<1>6. sending'[c].st = st + count /\ sending'[c].socket = sending[c].socket /\ sending[c].socket = d
  <2>1. sending[c] \in [socket : Descriptors \cup {Invalid}, st : 0 .. Length] /\ sending[c].socket = d
    BY <1>1, Senders
  <2> QED
    BY <1>1, <1>2, <2>1
<1>7. d \in Opened'
  <2>1. d \in Descriptors /\ c \in Objects
    BY <1>1, Classes DEF Opened
  <2> QED
    BY <1>1, <2>1 DEF Inv, OneOwner
<1>8. EndsWith(more, st + count)
  <2>1. Pieces(st, count) \in Seq(Nat) /\ Len(Pieces(st, count)) = count
    BY <1>1, <1>3, PiecesOf
  <2>2. \A i \in 1 .. count : Pieces(st, count)[i] = st + i
    BY <1>1, <1>3, PiecesOf
  <2>3. Len(wire) >= st /\ \A i \in 1 .. st : wire[Len(wire) - st + i] = i
    BY <1>1 DEF SendsUnderWay, EndsWith
  <2>4. \A w, v \in Seq(Nat) :
           /\ Len(w \o v) = Len(w) + Len(v)
           /\ \A i \in 1 .. Len(w) : (w \o v)[i] = w[i]
           /\ \A i \in 1 .. Len(v) : (w \o v)[Len(w) + i] = v[i]
    OBVIOUS
  <2>5. /\ Len(more) = Len(wire) + count
        /\ \A i \in 1 .. Len(wire) : more[i] = wire[i]
        /\ \A i \in 1 .. count : more[Len(wire) + i] = st + i
    <3> DEFINE sent == Pieces(st, count)
    <3> HIDE DEF sent, wire
    <3>1. wire \in Seq(Nat) /\ sent \in Seq(Nat) /\ Len(sent) = count
      BY <1>1, <2>1 DEF sent, wire
    <3>2. /\ Len(wire \o sent) = Len(wire) + Len(sent)
          /\ \A i \in 1 .. Len(wire) : (wire \o sent)[i] = wire[i]
          /\ \A i \in 1 .. Len(sent) : (wire \o sent)[Len(wire) + i] = sent[i]
      BY <2>4, <3>1, Zenon
    <3>3. more = wire \o sent
      BY DEF sent
    <3>4. \A i \in 1 .. count : sent[i] = st + i
      BY <2>2 DEF sent
    <3> HIDE DEF more
    <3> QED
      BY <3>1, <3>2, <3>3, <3>4
  <2> HIDE DEF more, wire
  <2>6. Len(wire) \in Nat
    BY <1>1 DEF wire
  <2>7. ASSUME NEW i \in 1 .. st + count
        PROVE  more[Len(more) - (st + count) + i] = i
    <3>1. Len(more) - (st + count) + i = Len(wire) - st + i
      BY <1>1, <1>3, <2>5, <2>6
    <3>2. CASE i <= st
      <4>1. Len(wire) - st + i \in 1 .. Len(wire) /\ i \in 1 .. st
        BY <1>1, <2>3, <2>6, <3>2
      <4> QED
        BY <2>3, <2>5, <3>1, <4>1
    <3>3. CASE i > st
      <4>1. i - st \in 1 .. count /\ Len(wire) - st + i = Len(wire) + (i - st) /\ st + (i - st) = i
        BY <1>1, <1>3, <2>6, <3>3
      <4>2. more[Len(wire) + (i - st)] = st + (i - st)
        BY <2>5, <4>1
      <4> QED
        BY <3>1, <4>1, <4>2
    <3> QED
      BY <1>1, <1>3, <3>2, <3>3
  <2>8. Len(more) >= st + count
    BY <1>1, <1>3, <2>3, <2>5, <2>6
  <2> QED
    BY <2>7, <2>8 DEF EndsWith
<1>9. ASSUME NEW x \in DOMAIN sending \ {c}
      PROVE  /\ sending'[x].socket = m_socket'[x]
             /\ sending'[x].st > 0 => /\ m_socket'[x] \in Opened'
                                      /\ EndsWith(kernel'[m_socket'[x]].wire, sending'[x].st)
  <2>1. x \in Objects
    BY Senders, Classes
  <2>2. Same(x) /\ sending'[x] = sending[x]
    BY <1>1, <1>5, <2>1
  <2> QED
    BY <2>2 DEF SendsUnderWay, Same, Opened
<1> HIDE DEF more
<1> QED
  BY <1>1, <1>4, <1>5, <1>6, <1>7, <1>8, <1>9 DEF SendsUnderWay

LEMMA NextSends ==
    ASSUME Inv, Inv', SendsUnderWay, [Next]_vars
    PROVE  SendsUnderWay'
<1>1. CASE UNCHANGED vars
  BY <1>1, SameSendsGoOn DEF vars, Same
<1>2. ASSUME NEW o \in Objects, Renews(o)
      PROVE  SendsUnderWay'
  <2>1. sending' = sending /\ o \notin DOMAIN sending
    BY <1>2 DEF Renews
  <2>2. \A c \in DOMAIN sending : c \in Objects \ {o}
    BY <2>1, Senders, Classes
  <2> QED
    BY <1>2, <2>1, <2>2, RenewalSame, SameSendsGoOn
<1>3. ASSUME NEW o \in Objects, NEW x \in Objects, MoveConstruct(o, x) \/ MoveAssign(o, x)
      PROVE  SendsUnderWay'
  <2>1. o \notin DOMAIN sending /\ x \notin DOMAIN sending
    BY <1>3, Senders DEF MoveConstruct, MoveAssign, Idle
  <2>2. \A c \in DOMAIN sending : c \in Objects \ {o, x}
    BY <2>1, Senders, Classes
  <2>3. sending' = sending /\ \A c \in Objects \ {o, x} : Same(c)
    BY <1>3 DEF MoveConstruct, MoveAssign, Same, Inv, TypeOK
  <2> QED
    BY <2>2, <2>3, SameSendsGoOn
<1>4. ASSUME NEW c \in Connections, extract_native(c) \/ \E d \in Descriptors : Adopt(c, d)
      PROVE  SendsUnderWay'
  <2>1. c \notin DOMAIN sending
    BY <1>4, Senders DEF extract_native, Adopt, Idle
  <2>2. \A x \in DOMAIN sending : x \in Objects \ {c}
    BY <2>1, Senders, Classes
  <2>3. sending' = sending /\ \A x \in Objects \ {c} : Same(x)
    BY <1>4 DEF extract_native, Adopt, Same, Inv, TypeOK
  <2> QED
    BY <2>2, <2>3, SameSendsGoOn
<1>5. ASSUME NEW c \in Connections, StartSend(c)
      PROVE  SendsUnderWay'
  <2> DEFINE r == [socket |-> m_socket[c], st |-> 0]
  <2>1. r.socket = m_socket[c] /\ ~(r.st > 0)
    OBVIOUS
  <2>2. sending' = With(sending, c, r) /\ UNCHANGED <<m_socket, kernel>>
    BY <1>5 DEF StartSend
  <2> HIDE DEF r
  <2>3. DOMAIN sending' = DOMAIN sending \cup {c} /\ sending'[c] = r
    BY <2>2 DEF With
  <2>4. \A x \in DOMAIN sending' : x = c \/ (x \in DOMAIN sending /\ sending'[x] = sending[x])
    BY <2>2 DEF With
  <2> QED
    BY <2>1, <2>2, <2>3, <2>4 DEF SendsUnderWay, Opened
<1>6. ASSUME NEW c \in Connections, SendReturns(c) \/ SendThrows(c)
      PROVE  SendsUnderWay'
  <2>1. sending' = Done(sending, c) /\ UNCHANGED <<m_socket, kernel>>
    BY <1>6 DEF SendReturns, SendThrows
  <2> QED
    BY <2>1, SameSendsGoOn DEF Done, Same
<1>7. ASSUME NEW o \in Objects,
             \/ Construct(o) \/ Destroy(o) \/ Close(o) \/ Open(o) \/ OpenAsync(o) \/ BindRuns(o)
             \/ \E p \in Ports : Listen(o, p) \/ Bind(o, p) \/ net_bind_async(o, p)
             \/ \E x \in Objects : MoveConstruct(o, x) \/ MoveAssign(o, x) \/ Accept(o, x)
      PROVE  SendsUnderWay'
  BY <1>2, <1>3, <1>7, LifeRenews, ListenRenews, AcceptRenews, BindKeepsSends
<1>8. ASSUME NEW c \in Connections,
             \/ Connect(c) \/ extract_native(c) \/ \E d \in Descriptors : Adopt(c, d)
             \/ StartSend(c) \/ SendSome(c) \/ SendReturns(c) \/ SendThrows(c)
      PROVE  SendsUnderWay'
  BY <1>2, <1>4, <1>5, <1>6, <1>8, Classes, ConnectRenews, SendSomeKeepsSends
<1> QED
  BY <1>1, <1>7, <1>8 DEF Next

\* What the properties of steps rest on.
SendsInv == Inv /\ SendsUnderWay

LEMMA SendsInvariance == Spec => []SendsInv
<1>1. Init => SendsInv
  BY InitInv DEF Init, SendsInv, SendsUnderWay
<1>2. SendsInv /\ [Next]_vars => SendsInv'
  BY NextInv, NextSends DEF SendsInv
<1> QED
  BY <1>1, <1>2, PTL DEF Spec

LEMMA ReturnsDelivered ==
    ASSUME Length # 0, SendsInv, [Next]_vars
    PROVE  \A c \in DOMAIN sending \ DOMAIN sending' :
              SendThrows(c) \/ EndsWithMessage(kernel[m_socket[c]].wire)
<1> SUFFICES ASSUME NEW c \in DOMAIN sending \ DOMAIN sending'
             PROVE  SendThrows(c) \/ EndsWithMessage(kernel[m_socket[c]].wire)
  OBVIOUS
<1>1. SendReturns(c) \/ SendThrows(c)
  <2>1. sending' # sending
    OBVIOUS
  <2>2. \A x \in Connections : StartSend(x) => DOMAIN sending \subseteq DOMAIN sending'
    BY DEF StartSend, With
  <2>3. \A x \in Connections : SendSome(x) => DOMAIN sending \subseteq DOMAIN sending'
    BY DEF SendSome
  <2>4. \A x \in Connections : SendReturns(x) \/ SendThrows(x) => DOMAIN sending' = DOMAIN sending \ {x}
    BY DEF SendReturns, SendThrows, Done
  <2>5. \E x \in Connections : StartSend(x) \/ SendSome(x) \/ SendReturns(x) \/ SendThrows(x)
    BY <2>1 DEF Next, vars, Construct, Destroy, Close, Open, OpenAsync, BindRuns, Listen, Bind,
          net_bind_async, MoveConstruct, MoveAssign, Accept, Connect, extract_native, Adopt
  <2> QED
    BY <2>2, <2>3, <2>4, <2>5
<1>2. CASE SendReturns(c)
  <2> DEFINE wire == kernel[m_socket[c]].wire
  <2>1. sending[c].st = Length /\ Length \in Nat
    BY <1>2, SocketsAssumption DEF SendReturns
  <2>2. m_socket[c] \in Opened /\ EndsWith(wire, Length)
    BY <2>1 DEF SendsInv, SendsUnderWay
  <2>3. wire \in Seq(Nat)
    BY <2>2 DEF SendsInv, Inv, TypeOK, Opened, SocketType
  <2> HIDE DEF wire
  <2>4. Len(wire) >= Length /\ \A i \in 1 .. Length : wire[Len(wire) - Length + i] = i
    BY <2>2 DEF EndsWith
  <2> DEFINE end == SubSeq(wire, Len(wire) - Length + 1, Len(wire))
  <2>5. /\ Len(end) = Length /\ end \in Seq(Nat)
        /\ \A i \in 1 .. Length : end[i] = wire[Len(wire) - Length + i]
    BY <2>1, <2>3, <2>4
  <2>6. /\ Len(Pieces(0, Length)) = Length /\ Pieces(0, Length) \in Seq(Nat)
        /\ \A i \in 1 .. Length : Pieces(0, Length)[i] = i
    BY <2>1 DEF Pieces
  <2>7. end = Pieces(0, Length)
    <3> HIDE DEF end
    <3> QED
      <4> DEFINE all == Pieces(0, Length)
      <4>1. Len(all) = Length /\ all \in Seq(Nat) /\ \A i \in 1 .. Length : all[i] = i
        BY <2>6
      <4> HIDE DEF all
      <4>2. Len(end) = Len(all) /\ \A i \in 1 .. Len(end) : end[i] = all[i]
        BY <2>4, <2>5, <4>1
      <4>3. end = all
        BY <2>5, <4>1, <4>2
      <4> QED
        BY <4>3 DEF all
  <2> QED
    BY <2>4, <2>7 DEF EndsWithMessage, wire
<1> QED
  BY <1>1, <1>2

(* A send that returns has sent its whole message, however the kernel cut   *)
(* it: it is the end of what went over the connection. A message without    *)
(* pieces is returned from at once, and needs no connection.                *)
THEOREM SendsDeliver == Length # 0 => (Spec => SendDelivers)
<1> SUFFICES ASSUME Length # 0 PROVE Spec => SendDelivers
  OBVIOUS
<1>1. SendsInv /\ [Next]_vars =>
         [\A c \in DOMAIN sending \ DOMAIN sending' :
             SendThrows(c) \/ EndsWithMessage(kernel[m_socket[c]].wire)]_vars
  BY ReturnsDelivered
<1> QED
  BY <1>1, SendsInvariance, PTL DEF Spec, SendDelivers

-----------------------------------------------------------------------------
LEMMA StepRefines ==
    ASSUME SendsInv, Inv', [Next]_vars
    PROVE  Contract!Next \/ UNCHANGED [o \in Objects |-> Value(o)]
<1>0. Inv /\ SendsUnderWay
  BY DEF SendsInv
<1>1. (kernel' = kernel /\ m_socket' = m_socket) => UNCHANGED [o \in Objects |-> Value(o)]
  BY DEF Value
<1>2. ASSUME NEW o \in Objects,
             \/ Construct(o) \/ Destroy(o) \/ Close(o) \/ Open(o) \/ OpenAsync(o)
             \/ \E p \in Ports : Listen(o, p)
      PROVE  Contract!Next
  BY <1>0, <1>2, LifeRenews, ListenRenews, RenewalRefines
<1>3. ASSUME NEW o \in Objects,
             \/ BindRuns(o)
             \/ \E p \in Ports : Bind(o, p) \/ net_bind_async(o, p)
      PROVE  UNCHANGED [y \in Objects |-> Value(y)]
  BY <1>0, <1>3, BindingRefines
<1>4. ASSUME NEW o \in Objects, NEW x \in Objects, MoveConstruct(o, x) \/ MoveAssign(o, x)
      PROVE  Contract!Next \/ UNCHANGED [y \in Objects |-> Value(y)]
  BY <1>0, <1>4, MovesRefine
<1>5. ASSUME NEW o \in Objects, NEW x \in Objects, Accept(o, x)
      PROVE  Contract!Next
  BY <1>0, <1>5, AcceptRenews, RenewalRefines
<1>6. ASSUME NEW c \in Connections,
             Connect(c) \/ extract_native(c) \/ (\E d \in Descriptors : Adopt(c, d)) \/ SendSome(c)
      PROVE  Contract!Next
  BY <1>0, <1>6, Classes, ConnectRenews, RenewalRefines, ExtractRefines, AdoptRefines, SendSomeRefines
<1>7. ASSUME NEW c \in Connections, StartSend(c) \/ SendReturns(c) \/ SendThrows(c)
      PROVE  UNCHANGED [y \in Objects |-> Value(y)]
  BY <1>1, <1>7 DEF StartSend, SendReturns, SendThrows
<1> QED
  BY <1>1, <1>2, <1>3, <1>4, <1>5, <1>6, <1>7 DEF Next, vars

(* The socket objects implement values.                                     *)
THEOREM Implementation == Spec => KeepsValues
<1>1. Init => [o \in Objects |-> Value(o)] = [o \in Objects |-> Absent]
  BY NoNumbers DEF Init, Value
<1>2. SendsInv /\ SendsInv' /\ [Next]_vars => [Contract!Next]_([o \in Objects |-> Value(o)])
  BY StepRefines DEF SendsInv
<1> QED
  BY <1>1, <1>2, SendsInvariance, PTL DEF Spec, KeepsValues, Contract!Spec

-----------------------------------------------------------------------------
LEMMA ListensThere ==
    ASSUME Inv, NEW o \in Acceptors, NEW p \in Ports, Listen(o, p), m_socket'[o] \in Descriptors
    PROVE  \/ kernel'[m_socket'[o]].port = p
           \/ \E d \in Opened \ {m_socket[o]} : kernel[d].kind = "tcp" /\ kernel[d].port = p
<1>1. CASE PortTaken(Without(o), "tcp", p)
  BY <1>1 DEF PortTaken, Without, Opened
<1>2. CASE ~PortTaken(Without(o), "tcp", p)
  <2> DEFINE s1 == Socket("tcp", Bound(o, p, AnyPort), "listening")
             s2 == Socket("tcp", Bound(o, p, NoPort), "no")
  <2>1. s1.port = p /\ s2.port = p
    BY <1>2 DEF Socket, Bound
  <2>2. Take(o, Without(o), s1) \/ Take(o, Without(o), s2)
    BY DEF Listen
  <2>3. o \in Objects /\ Without(o) \in [Descriptors -> SocketType \cup {Free}]
    BY Classes DEF Without, Inv, TypeOK
  <2> HIDE DEF s1, s2
  <2> QED
    BY <2>1, <2>2, <2>3, NoNumbers DEF Take, Inv, TypeOK
<1> QED
  BY <1>1, <1>2

(* An acceptor that got a socket listens at the port it was asked to, or    *)
(* another socket has it.                                                   *)
THEOREM AcceptorsListen == Spec => ListensWhereAsked
<1>1. Inv => [\A o \in Acceptors, p \in Ports :
                 Listen(o, p) /\ m_socket'[o] \in Descriptors =>
                    \/ kernel'[m_socket'[o]].port = p
                    \/ \E d \in Opened \ {m_socket[o]} :
                          kernel[d].kind = "tcp" /\ kernel[d].port = p]_vars
  BY ListensThere
<1> QED
  BY <1>1, Invariance, PTL DEF ListensWhereAsked

-----------------------------------------------------------------------------
\* A step loses no socket but that of an asynchronous one.
Losing(d) == \E o \in Asyncs : m_socket[o] = d /\ m_socket'[o] # d

\* What is opened is held, what is taken back from the caller is held, and what
\* an object gives up is closed, or held by another, or handed to the caller.
LEMMA NothingLost ==
    ASSUME Inv,
           \A d \in Opened' \ Opened : Holders(d)' # {},
           \A d \in loose \ loose' : Holders(d)' # {},
           \A o \in Objects, d \in Descriptors : m_socket[o] = d /\ m_socket'[o] # d =>
              o \in Asyncs \/ Holders(d)' # {} \/ d \in loose' \/ d \notin Opened'
    PROVE  \A d \in Lost' \ Lost : Losing(d)
<1> SUFFICES ASSUME NEW d \in Lost' \ Lost PROVE Losing(d)
  OBVIOUS
<1>1. d \in Opened' /\ d \notin loose' /\ Holders(d)' = {} /\ d \in Descriptors
  BY DEF Lost, Opened
<1>2. d \in Opened /\ d \notin loose
  BY <1>1
<1>3. PICK o \in Objects : m_socket[o] = d
  BY <1>2 DEF Lost, Holders
<1>4. m_socket'[o] # d
  BY <1>1 DEF Holders
<1>5. o \in Asyncs
  BY <1>1, <1>3, <1>4
<1> QED
  BY <1>3, <1>4, <1>5 DEF Losing

LEMMA RenewalLoses ==
    ASSUME Inv, NEW o \in Objects, Renews(o)
    PROVE  /\ \A d \in Lost' \ Lost : Losing(d)
           /\ \A x \in Objects \ Acceptors : ~IsBound(x)
<1>1. PICK k \in {kernel, Without(o)} :
         /\ k = Without(o) \/ o \in Asyncs \/ o \notin Alive
         /\ \/ /\ kernel' = k
               /\ \E v \in {Invalid, Absent, Raw} : m_socket' = [m_socket EXCEPT ![o] = v]
            \/ \E d \in Descriptors, s \in SocketType :
                  /\ k[d] = Free /\ s # Free
                  /\ kernel[d] = Free \/ o \in Acceptors \/ s.port = NoPort
                  /\ kernel' = [k EXCEPT ![d] = s]
                  /\ m_socket' = [m_socket EXCEPT ![o] = d]
  BY DEF Renews
<1>2. loose' = loose /\ k \in [Descriptors -> SocketType \cup {Free}]
  BY DEF Renews, Without, Inv, TypeOK
<1>3. \A x \in Objects \ {o} : m_socket'[x] = m_socket[x]
  BY RenewalSame DEF Same
<1>4. o \in Alive /\ o \notin Asyncs /\ m_socket[o] \in Descriptors => k[m_socket[o]] = Free
  BY <1>1 DEF Without
<1>5. o \notin Alive => m_socket[o] \notin Descriptors
  BY NoNumbers DEF Alive
<1>6. \A d \in Descriptors : kernel[d] = Free => k[d] = Free
  BY DEF Without
<1>7. CASE kernel' = k /\ \E v \in {Invalid, Absent, Raw} : m_socket' = [m_socket EXCEPT ![o] = v]
  <2>1. \A d \in Lost' \ Lost : Losing(d)
    BY <1>2, <1>3, <1>4, <1>5, <1>6, <1>7, NothingLost DEF Opened
  <2>2. m_socket'[o] \notin Descriptors
    BY <1>7, NoNumbers DEF Inv, TypeOK
  <2>3. \A x \in Objects : ~IsBound(x)
    BY <2>2, RenewalSame DEF IsBound, Same, Opened
  <2> QED
    BY <2>1, <2>3
<1>8. ASSUME NEW d \in Descriptors, NEW s \in SocketType,
             k[d] = Free, s # Free,
             kernel[d] = Free \/ o \in Acceptors \/ s.port = NoPort,
             kernel' = [k EXCEPT ![d] = s],
             m_socket' = [m_socket EXCEPT ![o] = d]
      PROVE  /\ \A e \in Lost' \ Lost : Losing(e)
             /\ \A x \in Objects \ Acceptors : ~IsBound(x)
  <2>1. m_socket'[o] = d /\ d \in Opened' /\ \A e \in Descriptors \ {d} : kernel'[e] = k[e]
    BY <1>2, <1>8 DEF Inv, TypeOK, Opened
  <2>2. o \in Holders(d)'
    BY <2>1 DEF Holders
  <2>3. \A e \in Opened' \ Opened : Holders(e)' # {}
    BY <1>6, <2>1, <2>2 DEF Opened
  <2>4. m_socket[o] \in Descriptors /\ m_socket'[o] # m_socket[o] /\ o \notin Asyncs =>
           m_socket[o] \notin Opened'
    BY <1>4, <1>5, <2>1 DEF Opened
  <2>5. \A e \in Lost' \ Lost : Losing(e)
    BY <1>2, <1>3, <2>3, <2>4, NothingLost
  <2>6. kernel'[d] = s
    BY <1>2, <1>8
  <2>7. o \notin Acceptors => ~IsBound(o)
    BY <1>8, <2>1, <2>6 DEF IsBound, Opened
  <2>8. \A x \in Objects \ {o} : ~IsBound(x)
    BY RenewalSame DEF IsBound, Same, Opened
  <2> QED
    BY <2>5, <2>7, <2>8
<1> QED
  BY <1>1, <1>7, <1>8

LEMMA SameKernelLoses ==
    ASSUME Inv, kernel' = kernel,
           \A d \in loose \ loose' : Holders(d)' # {},
           \A o \in Objects, d \in Descriptors : m_socket[o] = d /\ m_socket'[o] # d =>
              Holders(d)' # {} \/ d \in loose'
    PROVE  /\ \A d \in Lost' \ Lost : Losing(d)
           /\ \A x \in Objects \ Acceptors : ~IsBound(x)
<1>1. \A d \in Lost' \ Lost : Losing(d)
  BY NothingLost DEF Opened
<1>2. \A x \in Objects : ~IsBound(x)
  BY DEF IsBound
<1> QED
  BY <1>1, <1>2

\* A bind opens and closes nothing; it binds the socket of the object it is called
\* on, or that of whoever has the number an asynchronous one has not been given.
LEMMA BindLoses ==
    ASSUME Inv, NEW o \in Objects,
           \/ BindRuns(o)
           \/ \E p \in Ports : Bind(o, p) \/ net_bind_async(o, p)
    PROVE  /\ \A d \in Lost' \ Lost : Losing(d)
           /\ \A x \in Objects \ Acceptors :
                 IsBound(x) => \/ BindRuns(x)
                               \/ \E p \in Ports : Bind(x, p)
                               \/ \E s \in Asyncs : m_socket[s] = Raw
<1>1. UNCHANGED <<m_socket, loose>>
  BY DEF BindRuns, Bind, net_bind_async
<1>2. kernel' = kernel \/ \E d : \E p \in Ports : net_bind(d, p)
  BY DEF BindRuns, Bind, net_bind_async, Inv, TypeOK
<1>3. \A e \in Descriptors : kernel[e] = Free => kernel'[e] = Free
  BY <1>2 DEF net_bind, Inv, TypeOK
<1>4. \A d \in Lost' \ Lost : Losing(d)
  BY <1>1, <1>3, NothingLost DEF Opened
<1>5. ASSUME NEW x \in Objects \ Acceptors, IsBound(x), \A s \in Asyncs : m_socket[s] # Raw
      PROVE  BindRuns(x) \/ \E p \in Ports : Bind(x, p)
  <2>1. m_socket[x] \in Descriptors /\ kernel'[m_socket[x]] # kernel[m_socket[x]]
    BY <1>5 DEF IsBound, Opened
  <2>2. BindRuns(o) \/ \E p \in Ports : Bind(o, p)
    BY <2>1 DEF net_bind_async
  <2>3. m_socket[o] # Raw
    BY <1>5 DEF Inv, TypeOK
  <2>4. \E p : net_bind(m_socket[o], p)
    BY <2>1, <2>2, <2>3 DEF BindRuns, Bind
  <2>5. m_socket[o] = m_socket[x]
    BY <2>1, <2>4 DEF net_bind, Inv, TypeOK
  <2>6. o = x
    BY <2>1, <2>5 DEF Inv, OneOwner
  <2> QED
    BY <2>2, <2>6
<1> QED
  BY <1>4, <1>5

LEMMA SendSomeLoses ==
    ASSUME Inv, SendsUnderWay, NEW c \in Connections, SendSome(c)
    PROVE  /\ \A d \in Lost' \ Lost : Losing(d)
           /\ \A x \in Objects \ Acceptors : ~IsBound(x)
<1> DEFINE d == sending[c].socket
<1>1. UNCHANGED <<m_socket, loose>>
  BY DEF SendSome
<1>2. \E count \in 1 .. Length - sending[c].st :
         kernel' = [kernel EXCEPT ![d].wire = @ \o Pieces(sending[c].st, count)]
  BY DEF SendSome
<1>3. d \in Descriptors /\ kernel[d] # Free
  BY DEF SendSome
<1>4. \A e \in Descriptors : kernel[e] = Free => kernel'[e] = Free
  BY <1>2, <1>3 DEF Inv, TypeOK
<1>5. \A e \in Descriptors : kernel[e] # Free => kernel'[e].port = kernel[e].port
  BY <1>2, <1>3 DEF Inv, TypeOK, SocketType
<1>6. \A e \in Lost' \ Lost : Losing(e)
  BY <1>1, <1>4, NothingLost DEF Opened
<1> QED
  BY <1>5, <1>6 DEF IsBound, Opened

LEMMA StepLoses ==
    ASSUME SendsInv, [Next]_vars
    PROVE  /\ \A d \in Lost' \ Lost : Losing(d)
           /\ \A x \in Objects \ Acceptors :
                 IsBound(x) => \/ BindRuns(x)
                               \/ \E p \in Ports : Bind(x, p)
                               \/ \E s \in Asyncs : m_socket[s] = Raw
<1> DEFINE Known == /\ \A d \in Lost' \ Lost : Losing(d)
                    /\ \A x \in Objects \ Acceptors :
                          IsBound(x) => \/ BindRuns(x)
                                        \/ \E p \in Ports : Bind(x, p)
                                        \/ \E s \in Asyncs : m_socket[s] = Raw
<1>0. Inv /\ SendsUnderWay
  BY DEF SendsInv
<1>1. ASSUME UNCHANGED <<m_socket, kernel, loose>> PROVE Known
  BY <1>0, <1>1, SameKernelLoses
<1>2. ASSUME NEW o \in Objects,
             \/ Construct(o) \/ Destroy(o) \/ Close(o) \/ Open(o) \/ OpenAsync(o)
             \/ \E p \in Ports : Listen(o, p)
             \/ \E a \in Objects : Accept(a, o)
      PROVE  Known
  <2>1. Renews(o)
    BY <1>0, <1>2, LifeRenews, ListenRenews, AcceptRenews
  <2> QED
    BY <1>0, <2>1, RenewalLoses
<1>3. ASSUME NEW o \in Objects,
             BindRuns(o) \/ \E p \in Ports : Bind(o, p) \/ net_bind_async(o, p)
      PROVE  Known
  BY <1>0, <1>3, BindLoses
<1>4. ASSUME NEW o \in Objects, NEW x \in Objects, MoveConstruct(o, x) \/ MoveAssign(o, x)
      PROVE  Known
  <2>1. UNCHANGED <<kernel, loose>>
    BY <1>4 DEF MoveConstruct, MoveAssign
  <2>2. \A y \in Objects \ {o, x} : m_socket'[y] = m_socket[y]
    BY <1>0, <1>4 DEF MoveConstruct, MoveAssign, Inv, TypeOK
  <2>3. m_socket'[o] = m_socket[x] /\ (m_socket'[x] = m_socket[o] \/ m_socket[o] \notin Descriptors)
    BY <1>0, <1>4, NoNumbers DEF MoveConstruct, MoveAssign, Alive, Inv, TypeOK
  <2>4. \A y \in Objects, d \in Descriptors : m_socket[y] = d /\ m_socket'[y] # d =>
           Holders(d)' # {}
    BY <2>2, <2>3 DEF Holders
  <2> QED
    BY <1>0, <2>1, <2>4, SameKernelLoses
<1>5. ASSUME NEW c \in Connections, extract_native(c) PROVE Known
  <2>1. /\ UNCHANGED kernel /\ loose \subseteq loose' /\ m_socket[c] \in loose' \cup {Invalid}
        /\ \A y \in Objects \ {c} : m_socket'[y] = m_socket[y]
    BY <1>0, <1>5 DEF extract_native, Inv, TypeOK
  <2> QED
    BY <1>0, <2>1, SameKernelLoses, NoNumbers
<1>6. ASSUME NEW c \in Connections, NEW d \in Descriptors, Adopt(c, d) PROVE Known
  <2>1. /\ UNCHANGED kernel /\ loose \ loose' \subseteq {d} /\ m_socket'[c] = d
        /\ \A y \in Objects \ {c} : m_socket'[y] = m_socket[y]
        /\ m_socket[c] \notin Descriptors
    BY <1>0, <1>6, Classes, NoNumbers DEF Adopt, Alive, Inv, TypeOK
  <2>2. c \in Holders(d)'
    BY <2>1, Classes DEF Holders
  <2> QED
    BY <1>0, <2>1, <2>2, SameKernelLoses
<1>7. ASSUME NEW c \in Connections, Connect(c) PROVE Known
  BY <1>0, <1>7, Classes, ConnectRenews, RenewalLoses
<1>8. ASSUME NEW c \in Connections, SendSome(c) PROVE Known
  BY <1>0, <1>8, SendSomeLoses
<1>9. ASSUME NEW c \in Connections, StartSend(c) \/ SendReturns(c) \/ SendThrows(c) PROVE Known
  BY <1>1, <1>9 DEF StartSend, SendReturns, SendThrows
<1>10. ASSUME UNCHANGED vars PROVE Known
  BY <1>1, <1>10 DEF vars
<1> HIDE DEF Known
<1>11. ASSUME NEW o \in Objects,
             \/ Construct(o) \/ Destroy(o) \/ Close(o) \/ Open(o) \/ OpenAsync(o) \/ BindRuns(o)
             \/ \E p \in Ports : Listen(o, p) \/ Bind(o, p) \/ net_bind_async(o, p)
             \/ \E x \in Objects : MoveConstruct(o, x) \/ MoveAssign(o, x) \/ Accept(o, x)
      PROVE  Known
  <2>1. ASSUME NEW x \in Objects, Accept(o, x) PROVE Known
    BY <1>2, <2>1
  <2>2. CASE \/ Construct(o) \/ Destroy(o) \/ Close(o) \/ Open(o) \/ OpenAsync(o)
             \/ \E p \in Ports : Listen(o, p)
    BY <1>2, <2>2
  <2> QED
    BY <1>3, <1>4, <1>11, <2>1, <2>2
<1>12. ASSUME NEW c \in Connections,
             \/ Connect(c) \/ extract_native(c) \/ \E d \in Descriptors : Adopt(c, d)
             \/ StartSend(c) \/ SendSome(c) \/ SendReturns(c) \/ SendThrows(c)
      PROVE  Known
  BY <1>5, <1>6, <1>7, <1>8, <1>9, <1>12
<1>13. ASSUME Next PROVE Known
  BY <1>11, <1>12, <1>13, Zenon DEF Next
<1>14. Known
  BY <1>10, <1>13
<1> QED
  BY <1>14 DEF Known

(* Only an asynchronous socket that is opened again or destroyed leaves its *)
(* descriptor open; and only one that was never opened binds the socket of  *)
(* another object.                                                          *)
THEOREM LossesKnown == Spec => LosesOnlyWhereKnown
<1>1. SendsInv /\ [Next]_vars =>
         [/\ \A d \in Lost' \ Lost : \E o \in Asyncs : m_socket[o] = d /\ m_socket'[o] # d
          /\ \A o \in Objects \ Acceptors :
                IsBound(o) => \/ BindRuns(o)
                              \/ \E p \in Ports : Bind(o, p)
                              \/ \E s \in Asyncs : m_socket[s] = Raw]_vars
  BY StepLoses DEF Losing
<1> QED
  BY <1>1, SendsInvariance, PTL DEF Spec, LosesOnlyWhereKnown
=============================================================================
