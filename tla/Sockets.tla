------------------------------ MODULE Sockets ------------------------------
(***************************************************************************)
(* The socket system calls (userprog/exception.cc) and the maps of Kernel  *)
(* they work on (threads/kernel.cc): connected_sockets, bind_sockets and   *)
(* datagrams, with UDP_Layer::Receive putting datagrams in.  The maps      *)
(* belong to the machine, not to a process, and nothing compares a socket  *)
(* number with the ones Create_Socket gave out: any process may name any   *)
(* int.                                                                    *)
(*                                                                         *)
(* Maps are functions on the keys they hold.  The code between two         *)
(* semaphore operations is one step; Recv_Msg can lose the processor after *)
(* it has looked up the port, and Send_Msg after each fragment.            *)
(***************************************************************************)
EXTENDS Integers, Sequences, FiniteSetsExt, Functions

CONSTANTS
  Process,     \* user processes of this machine
  Socket,      \* socket numbers given to the calls: any int, created or not
  IP,          \* addresses of other machines
  BindPort,    \* ports given to Bind (an int)
  DestPort,    \* destination ports in the headers of incoming datagrams
  Fragments,   \* fragments of a message
  MaxSockets,  \* bound: sockets created
  MaxData,     \* bound: datagrams that come in
  MaxSends     \* bound: messages sent

ASSUME SocketAssumption ==
  /\ Socket \subseteq Int
  /\ BindPort \subseteq Int /\ IsFiniteSet(BindPort)
  /\ DestPort \subseteq 0 .. 2^16 - 1
  /\ Fragments \in Nat \ {0}
  /\ {MaxSockets, MaxData, MaxSends} \subseteq Nat

NoPort == -1      \* "int port = -1" in getData and deleteSocket

VARIABLES
  current_socket,     \* the next socket number
  connected_sockets,  \* socket -> address it is connected to
  bind_sockets,       \* port -> socket
  datagrams,          \* port -> the queue of what has come in
  receiving,          \* the port a process waits for in Recv_Msg, or NoPort
  sending,            \* what a process is in IP_Layer::Send with, <<>> or <<m>>
  arrived,            \* history: what came in for each port
  taken,              \* history: what Recv_Msg returned from each port
  frames,             \* history: <<machine, header's destIP>> of frames sent
  sends

socketsVars == <<current_socket, connected_sockets, bind_sockets, datagrams, receiving,
          sending, arrived, taken, frames, sends>>

SocketsInit ==
  /\ current_socket = 1
  /\ connected_sockets = <<>>
  /\ bind_sockets = <<>>
  /\ datagrams = <<>>
  /\ receiving = [p \in Process |-> NoPort]
  /\ sending = [p \in Process |-> <<>>]
  /\ arrived = [port \in DestPort |-> <<>>]
  /\ taken = [port \in BindPort \cup DestPort |-> <<>>]
  /\ frames = {}
  /\ sends = 0

InUser(p) == receiving[p] = NoPort /\ sending[p] = <<>>

\* map[key] = value
Put(map, key, value) ==
  [k \in DOMAIN map \cup {key} |-> IF k = key THEN value ELSE map[k]]

Erase(map, key) == Restrict(map, DOMAIN map \ {key})

\* The loop over bind_sockets in getData and deleteSocket: a map is ordered by
\* key, so that the smallest port of the socket is found, or NoPort.
PortOf(sock) ==
  LET ports == {port \in DOMAIN bind_sockets : bind_sockets[port] = sock}
  IN IF ports = {} THEN NoPort ELSE Min(ports)

----------------------------------------------------------------------------
(* Create_Socket, Connect, Bind *)

Create_Socket(p) ==
  /\ InUser(p)
  /\ current_socket <= MaxSockets
  /\ current_socket' = current_socket + 1
  /\ UNCHANGED <<connected_sockets, bind_sockets, datagrams, receiving, sending,
                 arrived, taken, frames, sends>>

\* insert_connect_socket with an address of four numbers; with fewer or more it
\* returns -1 and changes nothing.  A part that is not a number makes stoi throw,
\* which ends Nachos: addresses with one are left out.  Overwriting an entry
\* changes it in place.
Connect(p, sock, ip) ==
  /\ InUser(p)
  /\ connected_sockets' = Put(connected_sockets, sock, ip)
  /\ UNCHANGED <<current_socket, bind_sockets, datagrams, receiving, sending,
                 arrived, taken, frames, sends>>

\* Mutant: the queue of a port is made by its first datagram only.
BindMakesNoQueue(p, sock, port) ==
  /\ InUser(p)
  /\ port \notin DOMAIN bind_sockets
  /\ bind_sockets' = Put(bind_sockets, port, sock)
  /\ UNCHANGED <<current_socket, connected_sockets, datagrams, receiving, sending,
                 arrived, taken, frames, sends>>

\* Mutant: Bind does not look whether the port is bound.
BindUnchecked(p, sock, port) ==
  /\ InUser(p)
  /\ bind_sockets' = Put(bind_sockets, port, sock)
  /\ datagrams' = IF port \in DOMAIN datagrams
                  THEN datagrams ELSE Put(datagrams, port, <<>>)
  /\ UNCHANGED <<current_socket, connected_sockets, receiving, sending, arrived,
                 taken, frames, sends>>

\* insert_bind_socket; a port that is bound is refused.
Bind(p, sock, port) ==
  /\ InUser(p)
  /\ port \notin DOMAIN bind_sockets
  /\ bind_sockets' = Put(bind_sockets, port, sock)
  /\ datagrams' = IF port \in DOMAIN datagrams
                  THEN datagrams ELSE Put(datagrams, port, <<>>)
  /\ UNCHANGED <<current_socket, connected_sockets, receiving, sending, arrived,
                 taken, frames, sends>>

----------------------------------------------------------------------------
(* Close_Socket *)

\* The address of connected_sockets[sock] that Send_Msg of other processes hold
\* dangles once the entry is erased.
Dangle(sock) ==
  [p \in Process |->
     IF sending[p] # <<>> /\ sending[p][1].sock = sock
     THEN <<[sending[p][1] EXCEPT !.dangling = TRUE]>> ELSE sending[p]]

\* deleteSocket; port NoPort is taken for "not bound".
Close_Socket(p, sock) ==
  /\ InUser(p)
  /\ connected_sockets' = Erase(connected_sockets, sock)
  /\ sending' = IF sock \in DOMAIN connected_sockets THEN Dangle(sock) ELSE sending
  /\ bind_sockets' = IF PortOf(sock) # NoPort
                     THEN Erase(bind_sockets, PortOf(sock)) ELSE bind_sockets
  /\ UNCHANGED <<current_socket, datagrams, receiving, arrived, taken, frames, sends>>

----------------------------------------------------------------------------
(* Send_Msg *)

\* send_message, UDP_Layer::Send and IP_Layer::Send up to its loop: the machine is
\* looked up once, the address is passed on as a pointer into the map.
Send_Msg(p, sock) ==
  /\ InUser(p)
  /\ sock \in DOMAIN connected_sockets
  /\ sends < MaxSends
  /\ sends' = sends + 1
  /\ sending' = [sending EXCEPT ![p] =
       <<[sock |-> sock, machine |-> connected_sockets[sock], left |-> Fragments,
          dangling |-> FALSE]>>]
  /\ UNCHANGED <<current_socket, connected_sockets, bind_sockets, datagrams,
                 receiving, arrived, taken, frames>>

\* One fragment: its header's destIP is read through the pointer.  A dangling one
\* reads whatever the allocator has put there.
SendFragment(p) ==
  /\ sending[p] # <<>>
  /\ LET m == sending[p][1]
     IN /\ \E ip \in (IF m.dangling THEN IP ELSE {connected_sockets[m.sock]}) :
             frames' = frames \cup {<<m.machine, ip>>}
        /\ sending' = [sending EXCEPT ![p] =
             IF m.left = 1 THEN <<>> ELSE <<[m EXCEPT !.left = @ - 1]>>]
  /\ UNCHANGED <<current_socket, connected_sockets, bind_sockets, datagrams,
                 receiving, arrived, taken, sends>>

----------------------------------------------------------------------------
(* Recv_Msg, and what comes from the network *)

\* getData up to RemoveFront; without a port, Recv_Msg fails at once.
Recv_Msg(p, sock) ==
  /\ InUser(p)
  /\ PortOf(sock) # NoPort
  /\ receiving' = [receiving EXCEPT ![p] = PortOf(sock)]
  /\ UNCHANGED <<current_socket, connected_sockets, bind_sockets, datagrams, sending,
                 arrived, taken, frames, sends>>

\* RemoveFront of the port's SynchList (module BlockingQueue).
RemoveFront(p) ==
  /\ receiving[p] # NoPort
  /\ LET port == receiving[p]
     IN /\ datagrams[port] # <<>>
        /\ taken' = [taken EXCEPT ![port] = Append(@, Head(datagrams[port]))]
        /\ datagrams' = [datagrams EXCEPT ![port] = Tail(@)]
  /\ receiving' = [receiving EXCEPT ![p] = NoPort]
  /\ UNCHANGED <<current_socket, connected_sockets, bind_sockets, sending, arrived,
                 frames, sends>>

\* The n-th datagram that comes in for a port.
NextData(port) == <<port, Len(arrived[port]) + 1>>

\* How many datagrams have come in.
Arrivals == SumFunction([port \in DestPort |-> Len(arrived[port])])

\* Mutant: a datagram for a port nobody is bound to is dropped.
putDataBound(port) ==
  /\ Arrivals < MaxData
  /\ arrived' = [arrived EXCEPT ![port] = Append(@, NextData(port))]
  /\ datagrams' = IF port \in DOMAIN bind_sockets
                  THEN Put(datagrams, port, Append(datagrams[port], NextData(port)))
                  ELSE datagrams
  /\ UNCHANGED <<current_socket, connected_sockets, bind_sockets, receiving, sending,
                 taken, frames, sends>>

\* putData, called by UDP_Layer::Receive.
putData(port) ==
  /\ Arrivals < MaxData
  /\ arrived' = [arrived EXCEPT ![port] = Append(@, NextData(port))]
  /\ datagrams' = Put(datagrams, port,
       Append(IF port \in DOMAIN datagrams THEN datagrams[port] ELSE <<>>, NextData(port)))
  /\ UNCHANGED <<current_socket, connected_sockets, bind_sockets, receiving, sending,
                 taken, frames, sends>>

----------------------------------------------------------------------------
Call(p) ==
  \/ Create_Socket(p)
  \/ \E sock \in Socket :
       \/ \E ip \in IP : Connect(p, sock, ip)
       \/ \E port \in BindPort : Bind(p, sock, port)
       \/ Close_Socket(p, sock)
       \/ Send_Msg(p, sock)
       \/ Recv_Msg(p, sock)

SocketsNext ==
  \/ \E p \in Process : Call(p) \/ SendFragment(p) \/ RemoveFront(p)
  \/ \E port \in DestPort : putData(port)

\* Threads get the processor again; a SynchList hands out what it has.
SocketsSpec ==
  /\ SocketsInit /\ [][SocketsNext]_socketsVars
  /\ \A p \in Process : WF_socketsVars(SendFragment(p)) /\ WF_socketsVars(RemoveFront(p))

----------------------------------------------------------------------------
(* Properties *)

\* A bound port, and a port somebody waits for, has a queue: getData never makes
\* one up with an uninitialized pointer, whatever socket numbers the calls name.
QueueExists ==
  DOMAIN bind_sockets \cup (Range(receiving) \ {NoPort}) \subseteq DOMAIN datagrams

\* Per port, what was handed out and then what is queued is what came in, in that
\* order: no datagram is lost, duplicated or reordered, whoever binds, closes or
\* receives meanwhile, and also before anyone binds.
PortFIFO ==
  \A port \in DestPort :
    taken[port] \o (IF port \in DOMAIN datagrams THEN datagrams[port] ELSE <<>>)
      = arrived[port]

\* A port changes hands only through Close of the socket that has it.
NoStealing ==
  [][\A port \in DOMAIN bind_sockets :
       \/ port \in DOMAIN bind_sockets' /\ bind_sockets'[port] = bind_sockets[port]
       \/ \E p \in Process : Close_Socket(p, bind_sockets[port])]_socketsVars

\* A frame goes to the machine its IP header names: IP_Layer::Send is to "compute
\* the destMAC from destIP".
HeaderMatches == \A f \in frames : f[1] = f[2]

\* When a port has a datagram and somebody waits for it, a receiver returns.
SomeoneReceives ==
  \A port \in DestPort, n \in 0 .. MaxData :
    /\ Len(taken[port]) = n /\ Len(arrived[port]) > n
    /\ port \in Range(receiving)
    ~> Len(taken[port]) > n
=============================================================================
