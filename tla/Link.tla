-------------------------------- MODULE Link --------------------------------
(***************************************************************************)
(* The link layer: the learning switch (Switch/switch.cpp), the network    *)
(* card each machine simulates (machine/network.cc), Ethernet_Layer::Send  *)
(* and the receiving thread pktrecv (network/post.cc), and the UNIX        *)
(* datagram sockets between them (lib/sysdep.cc).                          *)
(*                                                                         *)
(* Machine m has MAC address macpool[m] and is attached to port m, so one  *)
(* number names the machine, its address and its port.  A socket holds at  *)
(* most QLen datagrams; a sender blocks while it is full.  A machine is    *)
(* one process: while a thread of it blocks in sendto nothing of it runs.  *)
(***************************************************************************)
EXTENDS Naturals, Sequences, FiniteSets, Functions, SequencesExt

CONSTANTS
  Machine,      \* the machines, numbers like the ports of the switch
  OtherMac,     \* a destination address that no machine has
  Broadcast,    \* 255-255-255-255-255-255
  Traffic,      \* the pairs <<source, destination address>> of the frames sent
  NoFrame,      \* no frame is there
  NoPort,       \* an address the switch has not learned
  QLen,         \* capacity of a datagram socket
  MaxSend,      \* bound: frames each machine sends
  MaxRestarts   \* bound: how often a process stops

ASSUME LinkAssumption ==
  /\ Machine \subseteq Nat
  /\ {OtherMac, Broadcast, NoPort} \cap Machine = {}
  /\ Traffic \subseteq Machine \X (Machine \cup {OtherMac, Broadcast})
  /\ QLen \in Nat \ {0}
  /\ MaxSend \in [Machine -> Nat]
  /\ MaxRestarts \in Nat

Frame == [src : Machine, dst : Machine \cup {OtherMac, Broadcast}, id : Nat]

ASSUME NoFrameAssumption == NoFrame \notin Frame

VARIABLES
  up,                \* the machines that run
  sent,              \* how many frames each machine has sent
  tx,                \* the frame a machine is in SendToSocket with
  toSwitch,          \* the sockets /tmp/switch<m>
  toMachine,         \* the sockets /tmp/machine<m>
  current_packet,    \* NetworkInput::current_packet
  messageAvailable,  \* value of Ethernet_Layer::messageAvailable
  pktTaken,          \* pktrecv is between its P and networkIn->Receive
  messages,          \* what pktrecv has appended to Ethernet_Layer::messages
  switchUp,          \* the switch runs
  switchMap,         \* the switch's table
  connected,         \* the machines machine_ports are connected to
  ready,             \* the ports the switch's select reported, still to be read
  fwdFrame,          \* the frame the switch is sending on
  fwdPorts,          \* the ports it is still to be sent to
  restarts           \* how many processes have stopped

machineVars == <<up, sent, tx, current_packet, messageAvailable, pktTaken, messages>>
switchVars == <<switchUp, switchMap, connected, ready, fwdFrame, fwdPorts>>
vars == <<machineVars, switchVars, toSwitch, toMachine, restarts>>

Init ==
  /\ up = Machine
  /\ sent = [m \in Machine |-> 0]
  /\ tx = [m \in Machine |-> NoFrame]
  /\ toSwitch = [m \in Machine |-> <<>>]
  /\ toMachine = [m \in Machine |-> <<>>]
  /\ current_packet = [m \in Machine |-> NoFrame]
  /\ messageAvailable = [m \in Machine |-> 0]
  /\ pktTaken = [m \in Machine |-> FALSE]
  /\ messages = [m \in Machine |-> <<>>]
  /\ switchUp = TRUE
  /\ switchMap = [m \in Machine |-> NoPort]
  /\ connected = {}
  /\ ready = {}
  /\ fwdFrame = NoFrame
  /\ fwdPorts = {}
  /\ restarts = 0

\* The process of m runs and no thread of it blocks in sendto.
Runs(m) == m \in up /\ tx[m] = NoFrame

----------------------------------------------------------------------------
(* Sending *)

\* Ethernet_Layer::Send and NetworkOutput::Send, up to the call of sendto.
Send(m, d) ==
  /\ Runs(m)
  /\ sent[m] < MaxSend[m]
  /\ sent' = [sent EXCEPT ![m] = @ + 1]
  /\ tx' = [tx EXCEPT ![m] = [src |-> m, dst |-> d, id |-> sent[m] + 1]]
  /\ UNCHANGED <<up, current_packet, messageAvailable, pktTaken, messages,
                 switchVars, toSwitch, toMachine, restarts>>

\* SendToSocket: sendto succeeds as soon as the socket has room.
SendTo(m) ==
  /\ m \in up
  /\ tx[m] # NoFrame
  /\ switchUp
  /\ Len(toSwitch[m]) < QLen
  /\ toSwitch' = [toSwitch EXCEPT ![m] = Append(@, tx[m])]
  /\ tx' = [tx EXCEPT ![m] = NoFrame]
  /\ UNCHANGED <<up, sent, current_packet, messageAvailable, pktTaken, messages,
                 switchVars, toMachine, restarts>>

\* SendToSocket: without a switch sendto fails, ten times, and the frame is gone.
GiveUp(m) ==
  /\ m \in up
  /\ tx[m] # NoFrame
  /\ ~ switchUp
  /\ tx' = [tx EXCEPT ![m] = NoFrame]
  /\ UNCHANGED <<up, sent, current_packet, messageAvailable, pktTaken, messages,
                 switchVars, toSwitch, toMachine, restarts>>

----------------------------------------------------------------------------
(* The switch *)

\* select returns: the ports with a frame are read in this pass.
Select ==
  /\ switchUp
  /\ fwdPorts = {} /\ ready = {}
  /\ ready' = {i \in Machine : toSwitch[i] # <<>>}
  /\ ready' # {}
  /\ UNCHANGED <<machineVars, switchUp, switchMap, connected, fwdFrame, fwdPorts,
                 toSwitch, toMachine, restarts>>

\* Mutant: the table is filled with the destination (getString(eth, true)).
RecvLearnsDestination ==
  /\ switchUp
  /\ fwdPorts = {} /\ ready # {}
  /\ LET i == Min(ready)
         f == Head(toSwitch[i])
     IN /\ ready' = ready \ {i}
        /\ toSwitch' = [toSwitch EXCEPT ![i] = Tail(@)]
        /\ switchMap' = IF f.dst \in Machine THEN [switchMap EXCEPT ![f.dst] = i]
                                            ELSE switchMap
        /\ fwdFrame' = f
        /\ fwdPorts' = IF f.dst \in Machine /\ switchMap'[f.dst] # NoPort
                       THEN {switchMap'[f.dst]}
                       ELSE Machine \ {i}
  /\ connected' = up
  /\ UNCHANGED <<machineVars, switchUp, toMachine, restarts>>

\* recv on the next port of the pass: connect to the machines that are there
\* (Set_Machine_Addresses), learn the source, choose the ports.
Recv ==
  /\ switchUp
  /\ fwdPorts = {} /\ ready # {}
  /\ LET i == Min(ready)
         f == Head(toSwitch[i])
     IN /\ ready' = ready \ {i}
        /\ toSwitch' = [toSwitch EXCEPT ![i] = Tail(@)]
        /\ switchMap' = [switchMap EXCEPT ![f.src] = i]
        /\ fwdFrame' = f
        /\ fwdPorts' = IF f.dst \in Machine /\ switchMap'[f.dst] # NoPort
                       THEN {switchMap'[f.dst]}
                       ELSE Machine \ {i}
  /\ connected' = up
  /\ UNCHANGED <<machineVars, switchUp, toMachine, restarts>>

\* Mutant: the switch waits for a machine that is not there.
ForwardWaits ==
  /\ switchUp
  /\ fwdPorts # {}
  /\ LET j == Min(fwdPorts)
     IN /\ j \in connected /\ Len(toMachine[j]) < QLen
        /\ toMachine' = [toMachine EXCEPT ![j] = Append(@, fwdFrame)]
        /\ fwdPorts' = fwdPorts \ {j}
        /\ fwdFrame' = IF fwdPorts' = {} THEN NoFrame ELSE fwdFrame
  /\ UNCHANGED <<machineVars, switchUp, switchMap, connected, ready, toSwitch, restarts>>

\* send to the next of the chosen ports: it blocks while the machine's socket is
\* full, and fails, which the switch ignores, when the machine it was connected to
\* before sending is gone.
Forward ==
  /\ switchUp
  /\ fwdPorts # {}
  /\ LET j == Min(fwdPorts)
     IN /\ j \in connected => Len(toMachine[j]) < QLen
        /\ toMachine' = IF j \in connected
                        THEN [toMachine EXCEPT ![j] = Append(@, fwdFrame)]
                        ELSE toMachine
        /\ fwdPorts' = fwdPorts \ {j}
        /\ fwdFrame' = IF fwdPorts' = {} THEN NoFrame ELSE fwdFrame
  /\ UNCHANGED <<machineVars, switchUp, switchMap, connected, ready, toSwitch, restarts>>

----------------------------------------------------------------------------
(* Receiving *)

\* NetworkInput::CallBack when a frame is there: it replaces the current packet,
\* read or not, and Ethernet_Layer::CallBack calls V.
Poll(m) ==
  /\ Runs(m)
  /\ toMachine[m] # <<>>
  /\ current_packet' = [current_packet EXCEPT ![m] = Head(toMachine[m])]
  /\ toMachine' = [toMachine EXCEPT ![m] = Tail(@)]
  /\ messageAvailable' = [messageAvailable EXCEPT ![m] = @ + 1]
  /\ UNCHANGED <<up, sent, tx, pktTaken, messages, switchVars, toSwitch, restarts>>

\* pktrecv: messageAvailable->P() returns.
PktWait(m) ==
  /\ Runs(m)
  /\ ~ pktTaken[m]
  /\ messageAvailable[m] > 0
  /\ messageAvailable' = [messageAvailable EXCEPT ![m] = @ - 1]
  /\ pktTaken' = [pktTaken EXCEPT ![m] = TRUE]
  /\ UNCHANGED <<up, sent, tx, current_packet, messages,
                 switchVars, toSwitch, toMachine, restarts>>

\* Mutant: pktrecv does not compare the destination address.
PktReceiveAll(m) ==
  /\ Runs(m)
  /\ pktTaken[m]
  /\ pktTaken' = [pktTaken EXCEPT ![m] = FALSE]
  /\ messages' = [messages EXCEPT ![m] = Append(@, current_packet[m])]
  /\ UNCHANGED <<up, sent, tx, current_packet, messageAvailable,
                 switchVars, toSwitch, toMachine, restarts>>

\* Mutant: pktrecv empties the semaphore when it has read a packet.
PktReceiveResets(m) ==
  /\ Runs(m)
  /\ pktTaken[m]
  /\ pktTaken' = [pktTaken EXCEPT ![m] = FALSE]
  /\ messages' = IF current_packet[m].dst = m /\ messageAvailable[m] = 0
                 THEN [messages EXCEPT ![m] = Append(@, current_packet[m])]
                 ELSE messages
  /\ messageAvailable' = [messageAvailable EXCEPT ![m] = 0]
  /\ UNCHANGED <<up, sent, tx, current_packet,
                 switchVars, toSwitch, toMachine, restarts>>

\* pktrecv: copy the current packet and keep it when it is addressed to us.
PktReceive(m) ==
  /\ Runs(m)
  /\ pktTaken[m]
  /\ pktTaken' = [pktTaken EXCEPT ![m] = FALSE]
  /\ messages' = IF current_packet[m].dst = m
                 THEN [messages EXCEPT ![m] = Append(@, current_packet[m])]
                 ELSE messages
  /\ UNCHANGED <<up, sent, tx, current_packet, messageAvailable,
                 switchVars, toSwitch, toMachine, restarts>>

----------------------------------------------------------------------------
(* Processes come and go *)

\* A machine halts or is killed; its socket and what is in it disappear.
Halt(m) ==
  /\ m \in up
  /\ restarts < MaxRestarts
  /\ restarts' = restarts + 1
  /\ up' = up \ {m}
  /\ tx' = [tx EXCEPT ![m] = NoFrame]
  /\ toMachine' = [toMachine EXCEPT ![m] = <<>>]
  /\ connected' = connected \ {m}
  /\ UNCHANGED <<sent, current_packet, messageAvailable, pktTaken, messages,
                 switchUp, switchMap, ready, fwdFrame, fwdPorts, toSwitch>>

\* The constructors of Ethernet_Layer and NetworkInput.
Boot(m) ==
  /\ m \notin up
  /\ up' = up \cup {m}
  /\ current_packet' = [current_packet EXCEPT ![m] = NoFrame]
  /\ messageAvailable' = [messageAvailable EXCEPT ![m] = 0]
  /\ pktTaken' = [pktTaken EXCEPT ![m] = FALSE]
  /\ messages' = [messages EXCEPT ![m] = <<>>]
  /\ UNCHANGED <<sent, tx, switchVars, toSwitch, toMachine, restarts>>

\* The switch is killed.
SwitchStop ==
  /\ switchUp
  /\ restarts < MaxRestarts
  /\ restarts' = restarts + 1
  /\ switchUp' = FALSE
  /\ ready' = {} /\ fwdFrame' = NoFrame /\ fwdPorts' = {}
  /\ connected' = {}
  /\ toSwitch' = [m \in Machine |-> <<>>]
  /\ UNCHANGED <<machineVars, switchMap, toMachine>>

\* main of the switch up to its loop: new sockets and an empty table.
SwitchStart ==
  /\ ~ switchUp
  /\ switchUp' = TRUE
  /\ switchMap' = [m \in Machine |-> NoPort]
  /\ UNCHANGED <<machineVars, connected, ready, fwdFrame, fwdPorts, toSwitch,
                 toMachine, restarts>>

----------------------------------------------------------------------------
SwitchStep == Select \/ Recv \/ Forward
SendStep(m) == SendTo(m) \/ GiveUp(m)
ReceiveStep(m) == PktWait(m) \/ PktReceive(m)

Next ==
  \/ \E m \in Machine :
       \/ \E d \in Machine \cup {OtherMac, Broadcast} : <<m, d>> \in Traffic /\ Send(m, d)
       \/ SendStep(m) \/ Poll(m) \/ ReceiveStep(m)
       \/ Halt(m) \/ Boot(m)
  \/ SwitchStep
  \/ SwitchStop
  \/ SwitchStart

\* The switch runs its loop; a machine polls its card every NetworkTime ticks and
\* schedules pktrecv; the operating system completes a sendto that can complete.
Fairness ==
  /\ WF_vars(SwitchStep)
  /\ \A m \in Machine :
       WF_vars(SendStep(m)) /\ WF_vars(Poll(m)) /\ WF_vars(ReceiveStep(m))

Spec == Init /\ [][Next]_vars /\ Fairness
----------------------------------------------------------------------------
(* Properties *)

\* Every variable keeps its type, and no socket exceeds its capacity.
TypeOK ==
  /\ up \subseteq Machine
  /\ sent \in [Machine -> Nat]
  /\ tx \in [Machine -> Frame \cup {NoFrame}]
  /\ toSwitch \in [Machine -> Seq(Frame)]
  /\ toMachine \in [Machine -> Seq(Frame)]
  /\ messages \in [Machine -> Seq(Frame)]
  /\ \A m \in Machine : Len(toSwitch[m]) <= QLen /\ Len(toMachine[m]) <= QLen
  /\ current_packet \in [Machine -> Frame \cup {NoFrame}]
  /\ messageAvailable \in [Machine -> Nat]
  /\ pktTaken \in [Machine -> BOOLEAN]
  /\ switchUp \in BOOLEAN
  /\ switchMap \in [Machine -> Machine \cup {NoPort}]
  /\ connected \subseteq up
  /\ ready \subseteq Machine
  /\ fwdFrame \in Frame \cup {NoFrame}
  /\ fwdPorts \subseteq Machine
  /\ restarts \in 0 .. MaxRestarts

\* The link delivers in order: what a machine receives was sent to it, and the
\* frames from one sender have numbers that never go down, through floods, lost
\* frames, frames read twice and restarts of machines and switch (network.h: "in
\* order but unreliably").
InOrder ==
  \A m \in Machine :
    /\ \A f \in Range(messages[m]) : f.dst = m /\ f.id <= sent[f.src]
    /\ \A i, j \in DOMAIN messages[m] :
         i < j /\ messages[m][i].src = messages[m][j].src =>
           messages[m][i].id <= messages[m][j].id

\* What the switch has learned is right: a frame goes by the table only to the
\* port its destination is attached to, also after restarts, and never back to the
\* machine it came from, unless that machine sent it to itself.  All types are kept.
LearnedRight ==
  /\ TypeOK
  /\ \A m \in Machine : switchMap[m] \in {m, NoPort}
  /\ \A m \in Machine : \A f \in Range(toMachine[m]) : f.src = m => f.dst = m

\* The card may overwrite packets, but never loses the newest one: when pktrecv
\* has nothing more to do, the current packet is the last it has passed on.
NewestKept ==
  \A m \in Machine :
    /\ messageAvailable[m] = 0 /\ ~ pktTaken[m]
    /\ current_packet[m] # NoFrame
    /\ current_packet[m].dst = m
    => messages[m] # <<>> /\ Last(messages[m]) = current_packet[m]

\* A thread that calls SendToSocket gets out of it again: the function is to "Try
\* 10 times with a one second delay between attempts" and then stop trying.
SendReturns == \A m \in Machine : tx[m] # NoFrame ~> tx[m] = NoFrame

\* The switch is in send to a machine that is in sendto to the switch, with both
\* sockets full: neither reads before its own call returns.
MutuallyBlocked ==
  /\ switchUp /\ fwdPorts # {}
  /\ LET j == Min(fwdPorts)
     IN /\ j \in connected /\ Len(toMachine[j]) = QLen
        /\ tx[j] # NoFrame /\ Len(toSwitch[j]) = QLen

\* Nothing else keeps a thread in SendToSocket: full sockets, floods, frames to
\* nobody, machines that stop while frames are on the way to them and restarts of
\* the switch delay a send, but it returns unless the switch and a machine block
\* each other.
OnlyMutualBlocking ==
  \A m \in Machine : tx[m] # NoFrame ~> tx[m] = NoFrame \/ MutuallyBlocked
=============================================================================
