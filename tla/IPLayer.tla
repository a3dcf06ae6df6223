------------------------------ MODULE IPLayer ------------------------------
(***************************************************************************)
(* IP_Layer and UDP_Layer (network/post.cc): threads of several machines   *)
(* send datagrams to one machine, fragment by fragment; the link carries   *)
(* the fragments in order, may lose some and may deliver one twice in a    *)
(* row (module Link shows that and how); the thread ethrecv of the         *)
(* receiver puts the datagrams together again.                             *)
(*                                                                         *)
(* A fragment's payload is named by the datagram and the index it was      *)
(* made from; datagrams are numbered in the order they are sent.           *)
(***************************************************************************)
EXTENDS Fragmentation, Functions

CONSTANTS
  Thread,        \* the sending threads
  Host,          \* the machine each thread runs on
  Receiver,      \* the machine that receives
  Size,          \* the sizes of the datagrams, UDP header included
  Identification,\* what get_Random_Identification returns after a boot, call by call
  MaxDatagrams,  \* bound: datagrams sent
  MaxLost,       \* bound: fragments the link loses
  MaxRepeated,   \* bound: fragments the link delivers once more
  MaxReboots     \* bound: how often a sending machine restarts

ASSUME IPAssumption ==
  /\ Host \in [Thread -> 0 .. 9]
  /\ Receiver \in 0 .. 9
  /\ Size \subseteq UdpHeaderSize .. MaxUdpSize
  /\ {MaxDatagrams, MaxLost, MaxRepeated, MaxReboots} \subseteq Nat
  /\ Identification \in [1 .. MaxDatagrams -> 0 .. 2^16 - 1]

Sender == Range(Host)

VARIABLES
  datagrams,    \* what was sent: source, identification and size of each datagram
  randCount,    \* how often each machine has called rand() since it booted
  sending,      \* the datagram a thread is in IP_Layer::Send with, 0 if none
  next,         \* the index of the next fragment it sends
  wire,         \* the fragments on their way to ethrecv
  fragmentDict, \* IP_Layer::fragmentDict of the receiver
  received,     \* history: the payloads ethrecv has got
  delivered,    \* history: the datagrams given to UDP_Layer::Receive
  lost,         \* history: the payloads the link has lost
  repeated,     \* history: the payloads that were received twice
  reboots

vars == <<datagrams, randCount, sending, next, wire, fragmentDict, received,
          delivered, lost, repeated, reboots>>

Init ==
  /\ datagrams = <<>>
  /\ randCount = [m \in Sender |-> 0]
  /\ sending = [t \in Thread |-> 0]
  /\ next = [t \in Thread |-> 0]
  /\ wire = <<>>
  /\ fragmentDict = <<>>
  /\ received = {}
  /\ delivered = <<>>
  /\ lost = {} /\ repeated = {} /\ reboots = 0

----------------------------------------------------------------------------
(* Sending *)

\* IP_Layer::get_Random_Identification: rand() % 2^16.  Unless Nachos is started
\* with -rs the generator is not seeded, so that every boot of every machine
\* gets the same values in the same order.
get_Random_Identification(m) == Identification[randCount[m] + 1]

\* UDP_Layer::Send and IP_Layer::Send up to the loop.
Send(t, size) ==
  /\ sending[t] = 0
  /\ Len(datagrams) < MaxDatagrams
  /\ datagrams' = Append(datagrams,
       [src |-> Host[t], id |-> get_Random_Identification(Host[t]), size |-> size])
  /\ randCount' = [randCount EXCEPT ![Host[t]] = @ + 1]
  /\ sending' = [sending EXCEPT ![t] = Len(datagrams')]
  /\ next' = [next EXCEPT ![t] = 0]
  /\ UNCHANGED <<wire, fragmentDict, received, delivered, lost, repeated, reboots>>

\* Mutant: the loop ends before the last fragment of a longer datagram.
SendFragmentShort(t) ==
  /\ sending[t] # 0
  /\ LET d == datagrams[sending[t]]
         f == FragmentOf(d.size, next[t])
     IN /\ wire' = Append(wire,
             [src |-> d.src, id |-> d.id, fragmentOffset |-> f.fragmentOffset,
              MF |-> f.MF, payload |-> <<sending[t], next[t]>>])
        /\ next' = [next EXCEPT ![t] = @ + 1]
        /\ sending' = IF next'[t] >= NumFragments(d.size) - 1
                      THEN [sending EXCEPT ![t] = 0] ELSE sending
  /\ UNCHANGED <<datagrams, randCount, fragmentDict, received, delivered,
                 lost, repeated, reboots>>

\* One pass of the loop in IP_Layer::Send; Ethernet_Layer::Send gives the
\* processor away, so that other threads' fragments come in between.
SendFragment(t) ==
  /\ sending[t] # 0
  /\ LET d == datagrams[sending[t]]
         f == FragmentOf(d.size, next[t])
     IN /\ wire' = Append(wire,
             [src |-> d.src, id |-> d.id, fragmentOffset |-> f.fragmentOffset,
              MF |-> f.MF, payload |-> <<sending[t], next[t]>>])
        /\ next' = [next EXCEPT ![t] = @ + 1]
        /\ sending' = IF next'[t] = NumFragments(d.size)
                      THEN [sending EXCEPT ![t] = 0] ELSE sending
  /\ UNCHANGED <<datagrams, randCount, fragmentDict, received, delivered,
                 lost, repeated, reboots>>

\* A sending machine is stopped and started again.
Reboot(m) ==
  /\ reboots < MaxReboots
  /\ reboots' = reboots + 1
  /\ randCount' = [randCount EXCEPT ![m] = 0]
  /\ sending' = [t \in Thread |-> IF Host[t] = m THEN 0 ELSE sending[t]]
  /\ UNCHANGED <<datagrams, next, wire, fragmentDict, received, delivered,
                 lost, repeated>>

----------------------------------------------------------------------------
(* The link *)

Lose ==
  /\ wire # <<>>
  /\ Cardinality(lost) < MaxLost
  /\ lost' = lost \cup {Head(wire).payload}
  /\ wire' = Tail(wire)
  /\ UNCHANGED <<datagrams, randCount, sending, next, fragmentDict, received,
                 delivered, repeated, reboots>>

----------------------------------------------------------------------------
(* Receiving *)

\* IP_Layer::Receive in ethrecv: insertToMap, then check, which passes a complete
\* datagram to UDP_Layer::Receive and erases its entry.
Receive(f) ==
  LET key == computeHash(ippool[f.src], ippool[Receiver], f.id)
      old == IF key \in DOMAIN fragmentDict THEN fragmentDict[key] ELSE <<>>
      v   == insertToMap(old, f)
      others == DOMAIN fragmentDict \ {key}
  IN /\ received' = received \cup {f.payload}
     /\ IF check(v)
        THEN /\ delivered' = Append(delivered, [i \in DOMAIN v |-> v[i].payload])
             /\ fragmentDict' = [k \in others |-> fragmentDict[k]]
        ELSE /\ fragmentDict' = [k \in others \cup {key} |->
                                   IF k = key THEN v ELSE fragmentDict[k]]
             /\ UNCHANGED delivered

\* Mutant: the packet stays in the list of received packets.
EthrecvKeeps ==
  /\ wire # <<>>
  /\ Receive(Head(wire))
  /\ UNCHANGED <<datagrams, randCount, sending, next, wire, lost, repeated, reboots>>

\* The loop of Ethernet_Layer::ethrecv.
Ethrecv ==
  /\ wire # <<>>
  /\ Receive(Head(wire))
  /\ wire' = Tail(wire)
  /\ UNCHANGED <<datagrams, randCount, sending, next, lost, repeated, reboots>>

\* pktrecv has read the same packet twice, so ethrecv gets it twice.
EthrecvAgain ==
  /\ wire # <<>>
  /\ Cardinality(repeated) < MaxRepeated
  /\ repeated' = repeated \cup {Head(wire).payload}
  /\ Receive(Head(wire))
  /\ UNCHANGED <<datagrams, randCount, sending, next, wire, lost, reboots>>

Next ==
  \/ \E t \in Thread : SendFragment(t) \/ \E size \in Size : Send(t, size)
  \/ \E m \in Sender : Reboot(m)
  \/ Lose
  \/ Ethrecv
  \/ EthrecvAgain

\* Sending and receiving threads get their turn.
Fairness == WF_vars(Ethrecv) /\ \A t \in Thread : WF_vars(SendFragment(t))

Spec == Init /\ [][Next]_vars /\ Fairness

----------------------------------------------------------------------------
(* Properties *)

Fragment ==
  [src : Sender, id : Nat, fragmentOffset : 0 .. 2^13 - 1, MF : BOOLEAN,
   payload : Nat \X Nat]

\* Every variable keeps its type.
TypeOK ==
  /\ datagrams \in Seq([src : Sender, id : Nat, size : Size])
  /\ randCount \in [Sender -> 0 .. Len(datagrams)]
  /\ sending \in [Thread -> 0 .. Len(datagrams)]
  /\ next \in [Thread -> Nat]
  /\ wire \in Seq(Fragment)
  /\ \A k \in DOMAIN fragmentDict : fragmentDict[k] \in Seq(Fragment)
  /\ received \subseteq Nat \X Nat
  /\ delivered \in Seq(Seq(Nat \X Nat))

\* All payloads of datagram d, in order.
Whole(d) == [i \in 1 .. NumFragments(datagrams[d].size) |-> <<d, i - 1>>]

\* Two datagrams have the same key in fragmentDict.
SameKey(d, e) ==
  datagrams[d].src = datagrams[e].src /\ datagrams[d].id = datagrams[e].id

\* A restarted machine has used the key of datagram d for another one.
Reused(d) == \E e \in DOMAIN datagrams \ {d} : SameKey(d, e)

\* What UDP_Layer::Receive gets is in order, has no piece missing or of another
\* key, and is a datagram as it was sent unless its key was reused, whatever is
\* lost, delivered twice or interleaved on the way.  All types are kept.
Integrity ==
  TypeOK /\ \A v \in Range(delivered) :
    LET d == v[1][1]
    IN /\ \A k \in DOMAIN v : v[k][2] = k - 1 /\ (v[k][1] = d \/ SameKey(v[k][1], d))
       /\ Reused(d) \/ v = Whole(d)

\* Entries of fragmentDict are sorted, hold fragments of one datagram (or of those
\* with one key), and are not complete: a complete datagram is passed on at once.
EntriesPending ==
  \A k \in DOMAIN fragmentDict :
    LET v == fragmentDict[k]
    IN /\ v # <<>>
       /\ IsSorted(v, LAMBDA f, g : f.fragmentOffset <= g.fragmentOffset)
       /\ \A i, j \in DOMAIN v : SameKey(v[i].payload[1], v[j].payload[1])
       /\ ~ check(v)

\* No fragment of d was received twice, and its key is its own.
Clean(d) == ~ Reused(d) /\ \A r \in repeated : r[1] # d

\* A datagram is delivered as soon as all its fragments have been received, if
\* none came twice and no restarted machine has used its key.
CleanDelivered ==
  \A d \in DOMAIN datagrams :
    Clean(d) /\ Range(Whole(d)) \subseteq received => Whole(d) \in Range(delivered)

\* A datagram is delivered at most once, unless each of its fragments came twice.
DeliveredOnce ==
  \A i, j \in DOMAIN delivered :
    i # j /\ delivered[i] = delivered[j] => Range(delivered[i]) \subseteq repeated

\* Every datagram that the link and restarts leave alone is delivered.
EventuallyDelivered ==
  \A d \in 1 .. MaxDatagrams :
    d \in DOMAIN datagrams ~>
      /\ d \in DOMAIN datagrams
      /\ \/ Whole(d) \in Range(delivered)
         \/ ~ Clean(d) \/ reboots > 0 \/ \E l \in lost : l[1] = d
=============================================================================
