----------------------------- MODULE LinkProofs -----------------------------
(***************************************************************************)
(* Proofs, for any machines, traffic and numbers of restarts, of the       *)
(* invariants of module Link.                                              *)
(***************************************************************************)
EXTENDS Link, LibraryLemmas

----------------------------------------------------------------------------
(* The inductive invariant *)

\* The frames of S are no newer than those of T from the same sender.
NoNewer(S, T) == \A f \in S, g \in T : f.src = g.src => f.id <= g.id

\* The frames of a socket or list are in the order they were sent in.
Sorted(q) == \A i, j \in DOMAIN q : i < j /\ q[i].src = q[j].src => q[i].id <= q[j].id

\* The places a frame passes through on its way to machine m.
InSend == {tx[s] : s \in Machine} \ {NoFrame}
InSwitchSockets == UNION {Range(toSwitch[s]) : s \in Machine}
InSwitch(m) == IF m \in fwdPorts THEN {fwdFrame} ELSE {}
InSocket(m) == Range(toMachine[m])
InCard(m) == {current_packet[m]} \ {NoFrame}

BehindSwitch == InSend \cup InSwitchSockets
Passed(m) == Range(messages[m])

\* Frames overtake one another nowhere on the way: what is at one place is no newer
\* than what is at the places behind it.
Flow(behind, switch, socket, card, passed) ==
  /\ NoNewer(switch, behind)
  /\ NoNewer(socket, behind \cup switch)
  /\ NoNewer(card, behind \cup switch \cup socket)
  /\ NoNewer(passed, behind \cup switch \cup socket \cup card)

OnTheWay(m) == BehindSwitch \cup InSwitch(m) \cup InSocket(m) \cup InCard(m) \cup Passed(m)

Pipeline(m) ==
  /\ Flow(BehindSwitch, InSwitch(m), InSocket(m), InCard(m), Passed(m))
  /\ Sorted(toMachine[m]) /\ Sorted(messages[m])
  /\ \A f \in OnTheWay(m) : f.id <= sent[f.src]
  /\ \A f \in Passed(m) : f.dst = m

Pipelines ==
  /\ NoNewer(InSwitchSockets, InSend)
  /\ \A s \in Machine : Sorted(toSwitch[s])
  /\ \A m \in Machine : Pipeline(m)

\* A machine sends frames with its own address, through its own port.
Own ==
  \A s \in Machine :
    /\ tx[s] # NoFrame => tx[s].src = s
    /\ \A f \in Range(toSwitch[s]) : f.src = s

\* The switch reads from ports that have a frame, and sends a frame.
SwitchReady ==
  /\ ready \subseteq {i \in Machine : toSwitch[i] # <<>>}
  /\ fwdPorts # {} => fwdFrame \in Frame
  /\ \A m \in fwdPorts : fwdFrame.src = m => fwdFrame.dst = m

\* There is a packet when pktrecv is told so.
CardReady ==
  \A m \in Machine : pktTaken[m] \/ messageAvailable[m] > 0 => current_packet[m] \in Frame

IInv == LearnedRight /\ Own /\ SwitchReady /\ CardReady /\ Pipelines /\ NewestKept
----------------------------------------------------------------------------
(* Sockets and lists *)

\* Adding a frame that is no older than the others keeps a list in order.
LEMMA AppendFrame ==
  ASSUME NEW q \in Seq(Frame), NEW e \in Frame
  PROVE  /\ Append(q, e) \in Seq(Frame) /\ Len(Append(q, e)) = Len(q) + 1
         /\ Range(Append(q, e)) = Range(q) \cup {e}
         /\ Append(q, e) # <<>> /\ Last(Append(q, e)) = e
         /\ Sorted(q) /\ NoNewer(Range(q), {e}) => Sorted(Append(q, e))
<1>1. /\ Append(q, e) \in Seq(Frame)
      /\ Len(Append(q, e)) = Len(q) + 1
      /\ \A i \in 1 .. Len(q) : Append(q, e)[i] = q[i]
      /\ Append(q, e)[Len(q) + 1] = e
      /\ Append(q, e) # <<>>
  BY AppendProperties
<1>2. DOMAIN Append(q, e) = 1 .. Len(q) + 1 /\ DOMAIN q = 1 .. Len(q) /\ Len(q) \in Nat
  BY <1>1, LenProperties
<1>3. Range(Append(q, e)) = Range(q) \cup {e}
  BY <1>1, <1>2 DEF Range
<1>4. Last(Append(q, e)) = e
  BY Zenon, <1>1 DEF Last
<1>5. ASSUME Sorted(q), NoNewer(Range(q), {e}) PROVE Sorted(Append(q, e))
  <2> DEFINE a == Append(q, e)
  <2> SUFFICES ASSUME NEW i \in 1 .. Len(q) + 1, NEW j \in 1 .. Len(q) + 1,
                      i < j, a[i].src = a[j].src
               PROVE  a[i].id <= a[j].id
    BY <1>2 DEF Sorted
  <2>1. i \in 1 .. Len(q) /\ a[i] = q[i]
    BY <1>1, <1>2
  <2>2. CASE j = Len(q) + 1
    <3>1. a[j] = e /\ q[i] \in Range(q)
      BY <1>1, <1>2, <2>1, <2>2 DEF Range
    <3> QED BY <1>5, <2>1, <3>1 DEF NoNewer
  <2>3. CASE j # Len(q) + 1
    <3>1. j \in 1 .. Len(q) /\ a[j] = q[j]
      BY <1>1, <1>2, <2>3
    <3> QED BY <1>2, <1>5, <2>1, <3>1 DEF Sorted
  <2> QED BY <2>2, <2>3
<1> QED BY <1>1, <1>3, <1>4, <1>5

\* Taking the first frame of a socket: the others are no older.
LEMMA TakeFrame ==
  ASSUME NEW q \in Seq(Frame), q # <<>>
  PROVE  /\ Head(q) \in Frame /\ Head(q) \in Range(q)
         /\ Tail(q) \in Seq(Frame) /\ Len(Tail(q)) <= Len(q)
         /\ Range(Tail(q)) \subseteq Range(q)
         /\ Sorted(q) => Sorted(Tail(q)) /\ NoNewer({Head(q)}, Range(Tail(q)))
<1>1. /\ Head(q) \in Frame
      /\ Tail(q) \in Seq(Frame)
      /\ Len(Tail(q)) = Len(q) - 1
      /\ \A i \in 1 .. Len(Tail(q)) : Tail(q)[i] = q[i + 1]
  BY HeadTailProperties
<1>2. /\ Len(q) \in Nat \ {0}
      /\ DOMAIN q = 1 .. Len(q)
      /\ DOMAIN Tail(q) = 1 .. Len(Tail(q))
      /\ Head(q) = q[1]
  BY <1>1, LenProperties, EmptySeq
<1>3. Head(q) \in Range(q)
  BY <1>2 DEF Range
<1>4. Range(Tail(q)) \subseteq Range(q)
  BY <1>1, <1>2 DEF Range
<1>5. ASSUME Sorted(q) PROVE Sorted(Tail(q)) /\ NoNewer({Head(q)}, Range(Tail(q)))
  <2> DEFINE a == Tail(q)
  <2>1. \A i \in 1 .. Len(q) - 1 : i + 1 \in 1 .. Len(q) /\ a[i] = q[i + 1]
    BY <1>1, <1>2
  <2>2. DOMAIN a = 1 .. Len(q) - 1
    BY <1>1, <1>2
  <2> HIDE DEF a
  <2>3. ASSUME NEW i \in 1 .. Len(q) - 1, NEW j \in 1 .. Len(q) - 1, i < j, a[i].src = a[j].src
        PROVE  a[i].id <= a[j].id
    <3>1. /\ i + 1 \in 1 .. Len(q) /\ j + 1 \in 1 .. Len(q) /\ i + 1 < j + 1
          /\ a[i] = q[i + 1] /\ a[j] = q[j + 1]
      BY <1>2, <2>1, <2>3
    <3> QED BY <1>2, <1>5, <2>3, <3>1 DEF Sorted
  <2>4. ASSUME NEW g \in Range(a), q[1].src = g.src PROVE q[1].id <= g.id
    <3>1. PICK i \in 1 .. Len(q) - 1 : a[i] = g
      BY <2>2 DEF Range
    <3>2. i + 1 \in 1 .. Len(q) /\ q[i + 1] = g /\ 1 < i + 1 /\ 1 \in 1 .. Len(q)
      BY <1>2, <2>1, <3>1
    <3> QED BY <1>2, <1>5, <2>4, <3>2 DEF Sorted
  <2>5. Sorted(a)
    BY <2>2, <2>3 DEF Sorted
  <2> QED BY <1>2, <2>4, <2>5 DEF NoNewer, a
<1> QED BY <1>1, <1>2, <1>3, <1>4, <1>5

----------------------------------------------------------------------------
(* Moving frames on *)

\* The switch takes a frame from a socket of its own.
LEMMA FlowRecv ==
  ASSUME NEW b, NEW s, NEW c, NEW p, Flow(b, {}, s, c, p),
         NEW b1 \in SUBSET b, NEW w1 \in SUBSET b, NoNewer(w1, b1)
  PROVE  Flow(b1, w1, s, c, p)
BY DEF Flow, NoNewer

\* The switch sends the frame to the machine's socket.
LEMMA FlowForward ==
  ASSUME NEW b, NEW w, NEW s, NEW c, NEW p, Flow(b, w, s, c, p),
         NEW s1 \in SUBSET (s \cup w)
  PROVE  Flow(b, {}, s1, c, p)
BY DEF Flow, NoNewer

\* The card takes a frame from the socket.
LEMMA FlowPoll ==
  ASSUME NEW b, NEW w, NEW s, NEW c, NEW p, Flow(b, w, s, c, p),
         NEW s1 \in SUBSET s, NEW c1 \in SUBSET s, NoNewer(c1, s1)
  PROVE  Flow(b, w, s1, c1, p)
BY DEF Flow, NoNewer

\* pktrecv passes on the frame in the card, which stays there.
LEMMA FlowReceive ==
  ASSUME NEW b, NEW w, NEW s, NEW e \in Frame, NEW p, Flow(b, w, s, {e}, p),
         NEW p1 \in SUBSET (p \cup {e})
  PROVE  Flow(b, w, s, {e}, p1)
BY DEF Flow, NoNewer, Frame

\* A machine sends a frame that is newer than all others of that machine.
LEMMA FlowSend ==
  ASSUME NEW b, NEW w, NEW s, NEW c, NEW p, Flow(b, w, s, c, p), NEW e,
         \A f \in w \cup s \cup c \cup p : f.src = e.src => f.id <= e.id,
         NEW b1 \in SUBSET (b \cup {e})
  PROVE  Flow(b1, w, s, c, p)
BY DEF Flow, NoNewer
----------------------------------------------------------------------------
(* The invariant holds initially *)

LEMMA InitIInv == Init => IInv
<1> SUFFICES ASSUME Init PROVE IInv
  OBVIOUS
<1>1. <<>> \in Seq(Frame) /\ Len(<<>>) = 0 /\ DOMAIN <<>> = {} /\ Range(<<>>) = {}
  <2>1. <<>> \in Seq(Frame) /\ Len(<<>>) = 0
    BY EmptySeq
  <2>2. DOMAIN <<>> = 1 .. 0
    BY <2>1, LenProperties
  <2>3. DOMAIN <<>> = {}
    BY <2>2
  <2> QED BY <2>1, <2>3 DEF Range
<1>2. \A m \in Machine : /\ toSwitch[m] = <<>> /\ toMachine[m] = <<>> /\ messages[m] = <<>>
                         /\ tx[m] = NoFrame /\ current_packet[m] = NoFrame
                         /\ messageAvailable[m] = 0 /\ ~ pktTaken[m] /\ switchMap[m] = NoPort
  BY DEF Init
<1>3. TypeOK
  <2>1. /\ toSwitch \in [Machine -> Seq(Frame)] /\ toMachine \in [Machine -> Seq(Frame)]
        /\ messages \in [Machine -> Seq(Frame)]
    BY <1>1 DEF Init
  <2>2. \A m \in Machine : Len(toSwitch[m]) <= QLen /\ Len(toMachine[m]) <= QLen
    BY <1>1, <1>2, LinkAssumption
  <2>3. /\ tx \in [Machine -> Frame \cup {NoFrame}]
        /\ current_packet \in [Machine -> Frame \cup {NoFrame}]
        /\ pktTaken \in [Machine -> BOOLEAN]
        /\ switchMap \in [Machine -> Machine \cup {NoPort}]
    BY DEF Init
  <2>4. /\ sent \in [Machine -> Nat] /\ messageAvailable \in [Machine -> Nat]
        /\ restarts \in 0 .. MaxRestarts
    BY LinkAssumption DEF Init
  <2>5. /\ up \subseteq Machine /\ switchUp \in BOOLEAN /\ connected \subseteq up
        /\ ready \subseteq Machine /\ fwdPorts \subseteq Machine
        /\ fwdFrame \in Frame \cup {NoFrame}
    BY Zenon DEF Init
  <2> QED BY <2>1, <2>2, <2>3, <2>4, <2>5 DEF TypeOK
<1>4. LearnedRight /\ Own /\ CardReady /\ NewestKept
  BY <1>1, <1>2, <1>3 DEF LearnedRight, Own, CardReady, NewestKept
<1>5. SwitchReady
  BY DEF Init, SwitchReady
<1>6. /\ InSend = {} /\ InSwitchSockets = {}
      /\ \A m \in Machine : InSwitch(m) = {} /\ InSocket(m) = {} /\ InCard(m) = {} /\ Passed(m) = {}
  BY <1>1, <1>2 DEF Init, InSend, InSwitchSockets, InSwitch, InSocket, InCard, Passed
<1>7. Pipelines
  <2>1. \A m \in Machine : Sorted(toSwitch[m]) /\ Sorted(toMachine[m]) /\ Sorted(messages[m])
    BY <1>1, <1>2 DEF Sorted
  <2>2. NoNewer(InSwitchSockets, InSend)
    BY <1>6 DEF NoNewer
  <2>3. ASSUME NEW m \in Machine PROVE Pipeline(m)
    BY <1>6, <2>1 DEF Pipeline, Flow, NoNewer, OnTheWay, BehindSwitch
  <2> QED BY <2>1, <2>2, <2>3 DEF Pipelines
<1> QED BY <1>4, <1>5, <1>7 DEF IInv

----------------------------------------------------------------------------
(* What the actions have in common *)

\* Whatever is on the way to a machine is a frame.
LEMMA FramesOnTheWay ==
  ASSUME IInv, NEW m \in Machine
  PROVE  OnTheWay(m) \subseteq Frame
<1>1. TypeOK
  BY DEF IInv, LearnedRight
<1>2. \A q \in Seq(Frame) : Range(q) \subseteq Frame
  <2> SUFFICES ASSUME NEW q \in Seq(Frame) PROVE Range(q) \subseteq Frame
    OBVIOUS
  <2>1. DOMAIN q = 1 .. Len(q) /\ \A i \in 1 .. Len(q) : q[i] \in Frame
    BY LenProperties, ElementOfSeq
  <2> QED BY <2>1 DEF Range
<1>3. InSend \subseteq Frame /\ InCard(m) \subseteq Frame
  BY <1>1 DEF TypeOK, InSend, InCard
<1>4. InSwitchSockets \subseteq Frame /\ InSocket(m) \subseteq Frame /\ Passed(m) \subseteq Frame
  <2>1. /\ \A k \in Machine : toSwitch[k] \in Seq(Frame)
        /\ toMachine[m] \in Seq(Frame) /\ messages[m] \in Seq(Frame)
    BY <1>1 DEF TypeOK
  <2> QED BY Zenon, <1>2, <2>1 DEF InSwitchSockets, InSocket, Passed
<1>5. InSwitch(m) \subseteq Frame
  BY DEF IInv, SwitchReady, InSwitch
<1> QED BY Zenon, <1>3, <1>4, <1>5 DEF OnTheWay, BehindSwitch

\* When no place gets a frame, order is kept.
LEMMA PipelineLess ==
  ASSUME IInv, NEW m \in Machine, UNCHANGED sent,
         BehindSwitch' \subseteq BehindSwitch, InSwitch(m)' \subseteq InSwitch(m),
         InSocket(m)' \subseteq InSocket(m), InCard(m)' \subseteq InCard(m),
         Passed(m)' \subseteq Passed(m), Sorted(toMachine[m])', Sorted(messages[m])'
  PROVE  Pipeline(m)'
<1>1. Pipeline(m)
  BY DEF IInv, Pipelines
<1>2. Flow(BehindSwitch, InSwitch(m), InSocket(m), InCard(m), Passed(m))'
  BY Zenon, <1>1 DEF Pipeline, Flow, NoNewer
<1>3. OnTheWay(m)' \subseteq OnTheWay(m)
  BY Zenon DEF OnTheWay
<1> QED BY Zenon, <1>1, <1>2, <1>3 DEF Pipeline

----------------------------------------------------------------------------
(* The actions keep the invariant: sending *)

LEMMA SendIInv ==
  ASSUME IInv, NEW m \in Machine, NEW d \in Machine \cup {OtherMac, Broadcast}, Send(m, d)
  PROVE  IInv'
<1> DEFINE e == [src |-> m, dst |-> d, id |-> sent[m] + 1]
<1>1. /\ tx[m] = NoFrame
      /\ sent' = [sent EXCEPT ![m] = sent[m] + 1] /\ tx' = [tx EXCEPT ![m] = e]
      /\ UNCHANGED <<up, current_packet, messageAvailable, pktTaken, messages, switchUp,
                     switchMap, connected, ready, fwdFrame, fwdPorts, toSwitch, toMachine, restarts>>
  BY DEF Send, Runs, switchVars
<1>2. TypeOK /\ sent[m] \in Nat
  BY DEF IInv, LearnedRight, TypeOK
<1>3. e \in Frame /\ e.src = m /\ e.id = sent[m] + 1
  BY <1>2 DEF Frame
<1> HIDE DEF e
<1>4. /\ sent' \in [Machine -> Nat] /\ sent'[m] = sent[m] + 1
      /\ \A k \in Machine : k # m => sent'[k] = sent[k]
      /\ tx' \in [Machine -> Frame \cup {NoFrame}] /\ tx'[m] = e
      /\ \A k \in Machine : k # m => tx'[k] = tx[k]
  BY <1>1, <1>2, <1>3 DEF TypeOK
<1>5. LearnedRight'
  <2>1. TypeOK'
    BY <1>1, <1>2, <1>4 DEF TypeOK
  <2> QED BY <1>1, <2>1 DEF IInv, LearnedRight
<1>6. Own'
  BY <1>1, <1>3, <1>4 DEF IInv, Own
<1>7. SwitchReady' /\ CardReady' /\ NewestKept'
  BY <1>1 DEF IInv, SwitchReady, CardReady, NewestKept
<1>8. /\ InSend' \subseteq InSend \cup {e} /\ UNCHANGED InSwitchSockets
      /\ \A k \in Machine : InSwitch(k)' = InSwitch(k) /\ InSocket(k)' = InSocket(k)
                            /\ InCard(k)' = InCard(k) /\ Passed(k)' = Passed(k)
  BY <1>1, <1>4 DEF InSend, InSwitchSockets, InSwitch, InSocket, InCard, Passed
<1>9. ASSUME NEW k \in Machine, NEW f \in OnTheWay(k)
      PROVE  f.id <= sent'[f.src] /\ (f.src = m => f.id <= e.id)
  <2>1. f \in Frame /\ f.id <= sent[f.src]
    BY <1>9, FramesOnTheWay DEF IInv, Pipelines, Pipeline
  <2>2. f.id \in Nat /\ f.src \in Machine /\ sent[f.src] \in Nat
    BY <1>2, <2>1 DEF Frame, TypeOK
  <2> QED BY <1>2, <1>3, <1>4, <2>1, <2>2
<1>10. Pipelines'
  <2>1. NoNewer(InSwitchSockets, InSend)'
    <3>1. ASSUME NEW f \in InSwitchSockets PROVE f.src = m => f.id <= e.id
      BY Zenon, <1>9, <3>1 DEF OnTheWay, BehindSwitch
    <3> QED BY Zenon, <1>3, <1>8, <3>1 DEF IInv, Pipelines, NoNewer
  <2>2. ASSUME NEW k \in Machine PROVE Pipeline(k)'
    <3>1. Pipeline(k)
      BY DEF IInv, Pipelines
    <3>2. BehindSwitch' \subseteq BehindSwitch \cup {e}
      BY Zenon, <1>8 DEF BehindSwitch
    <3>3. \A f \in InSwitch(k) \cup InSocket(k) \cup InCard(k) \cup Passed(k) :
             f.src = e.src => f.id <= e.id
      BY Zenon, <1>3, <1>9 DEF OnTheWay
    <3>4. Flow(BehindSwitch', InSwitch(k), InSocket(k), InCard(k), Passed(k))
      BY Zenon, <3>1, <3>2, <3>3, FlowSend DEF Pipeline
    <3>5. Flow(BehindSwitch, InSwitch(k), InSocket(k), InCard(k), Passed(k))'
      BY Zenon, <1>8, <3>4
    <3>6. e.id <= sent'[e.src]
      BY <1>2, <1>3, <1>4
    <3>7. OnTheWay(k)' \subseteq OnTheWay(k) \cup {e}
      BY Zenon, <1>8, <3>2 DEF OnTheWay
    <3>8. \A f \in OnTheWay(k)' : f.id <= sent'[f.src]
      BY Zenon, <1>9, <3>6, <3>7
    <3> QED BY Zenon, <1>1, <1>8, <3>1, <3>5, <3>8 DEF Pipeline
  <2> QED BY Zenon, <1>1, <2>1, <2>2 DEF IInv, Pipelines
<1> QED BY <1>5, <1>6, <1>7, <1>10 DEF IInv

LEMMA SendToIInv ==
  ASSUME IInv, NEW m \in Machine, SendTo(m)
  PROVE  IInv'
<1> DEFINE e == tx[m]
           q == toSwitch[m]
<1>1. /\ e # NoFrame /\ Len(q) < QLen
      /\ toSwitch' = [toSwitch EXCEPT ![m] = Append(q, e)] /\ tx' = [tx EXCEPT ![m] = NoFrame]
      /\ UNCHANGED <<up, sent, current_packet, messageAvailable, pktTaken, messages, switchUp,
                     switchMap, connected, ready, fwdFrame, fwdPorts, toMachine, restarts>>
  BY DEF SendTo, switchVars
<1>2. TypeOK /\ e \in Frame /\ q \in Seq(Frame) /\ QLen \in Nat /\ Len(q) \in Nat
  <2>1. TypeOK /\ e \in Frame /\ q \in Seq(Frame) /\ QLen \in Nat
    BY Zenon, <1>1, LinkAssumption DEF IInv, LearnedRight, TypeOK
  <2> QED BY <2>1, LenProperties
<1>3. e.src = m /\ e \in InSend /\ Range(q) \subseteq InSwitchSockets
  BY <1>1 DEF IInv, Own, InSend, InSwitchSockets
<1>4. Sorted(q) /\ NoNewer(Range(q), {e})
  BY <1>3 DEF IInv, Pipelines, NoNewer
<1> HIDE DEF e, q
<1>5. /\ Append(q, e) \in Seq(Frame) /\ Len(Append(q, e)) <= QLen
      /\ Range(Append(q, e)) = Range(q) \cup {e}
      /\ Append(q, e) # <<>> /\ Sorted(Append(q, e))
  <2>1. /\ Append(q, e) \in Seq(Frame) /\ Len(Append(q, e)) = Len(q) + 1
        /\ Range(Append(q, e)) = Range(q) \cup {e}
        /\ Append(q, e) # <<>> /\ Sorted(Append(q, e))
    BY Zenon, <1>2, <1>4, AppendFrame
  <2> QED BY <1>1, <1>2, <2>1
<1>6. /\ toSwitch' \in [Machine -> Seq(Frame)] /\ toSwitch'[m] = Append(q, e)
      /\ \A k \in Machine : k # m => toSwitch'[k] = toSwitch[k]
      /\ tx' \in [Machine -> Frame \cup {NoFrame}] /\ tx'[m] = NoFrame
      /\ \A k \in Machine : k # m => tx'[k] = tx[k]
  <2> DEFINE a == Append(q, e)
  <2>1. a \in Seq(Frame) /\ toSwitch' = [toSwitch EXCEPT ![m] = a]
    BY <1>1, <1>5
  <2> HIDE DEF a
  <2>2. /\ toSwitch' \in [Machine -> Seq(Frame)] /\ toSwitch'[m] = a
        /\ \A k \in Machine : k # m => toSwitch'[k] = toSwitch[k]
    BY <1>2, <2>1 DEF TypeOK
  <2>3. /\ tx' \in [Machine -> Frame \cup {NoFrame}] /\ tx'[m] = NoFrame
        /\ \A k \in Machine : k # m => tx'[k] = tx[k]
    BY <1>1, <1>2 DEF TypeOK
  <2> QED BY <2>2, <2>3 DEF a
<1>7. LearnedRight'
  <2>1. \A k \in Machine : Len(toSwitch'[k]) <= QLen
    BY Zenon, <1>2, <1>5, <1>6 DEF TypeOK
  <2>2. TypeOK'
    BY Zenon, <1>1, <1>2, <1>6, <2>1 DEF TypeOK
  <2> QED BY <1>1, <2>2 DEF IInv, LearnedRight
<1>8. Range(toSwitch'[m]) = Range(q) \cup {e} /\ q = toSwitch[m] /\ e = tx[m]
  BY <1>5, <1>6 DEF q, e
<1>9. Own'
  BY Zenon, <1>3, <1>6, <1>8 DEF IInv, Own
<1>10. SwitchReady' /\ CardReady' /\ NewestKept'
  <2>1. \A k \in Machine : toSwitch[k] # <<>> => toSwitch'[k] # <<>>
    BY Zenon, <1>5, <1>6
  <2> QED BY <1>1, <2>1 DEF IInv, SwitchReady, CardReady, NewestKept
<1>11. /\ InSend' \subseteq InSend /\ InSwitchSockets' \subseteq InSwitchSockets \cup {e}
       /\ \A k \in Machine : InSwitch(k)' = InSwitch(k) /\ InSocket(k)' = InSocket(k)
                             /\ InCard(k)' = InCard(k) /\ Passed(k)' = Passed(k)
  <2>1. InSend' \subseteq InSend
    BY <1>6 DEF InSend
  <2>2. InSwitchSockets' \subseteq InSwitchSockets \cup {e}
    BY Zenon, <1>6, <1>8 DEF InSwitchSockets
  <2> QED BY <1>1, <2>1, <2>2 DEF InSwitch, InSocket, InCard, Passed
<1>12. Pipelines'
  <2>1. NoNewer(InSwitchSockets, InSend)'
    <3>1. ASSUME NEW g \in InSend' PROVE g \in InSend /\ g.src # m
      BY <1>6, <3>1 DEF InSend, IInv, Own
    <3> QED BY Zenon, <1>3, <1>11, <3>1 DEF IInv, Pipelines, NoNewer
  <2>2. BehindSwitch' \subseteq BehindSwitch
    BY Zenon, <1>3, <1>11 DEF BehindSwitch
  <2>3. ASSUME NEW k \in Machine PROVE Pipeline(k)'
    <3>1. Sorted(toMachine[k])' /\ Sorted(messages[k])'
      BY Zenon, <1>1 DEF IInv, Pipelines, Pipeline, Sorted
    <3> QED BY Zenon, <1>1, <1>11, <2>2, <3>1, PipelineLess
  <2>4. \A k \in Machine : Sorted(toSwitch[k])'
    BY Zenon, <1>5, <1>6 DEF IInv, Pipelines, Sorted
  <2> QED BY <2>1, <2>3, <2>4 DEF Pipelines
<1> QED BY <1>7, <1>9, <1>10, <1>12 DEF IInv
\* A step after which no place has a frame it did not have before.
LEMMA PipelinesLess ==
  ASSUME IInv, UNCHANGED sent, InSend' \subseteq InSend, InSwitchSockets' \subseteq InSwitchSockets,
         \A s \in Machine : toSwitch'[s] = toSwitch[s] \/ toSwitch'[s] = <<>>,
         \A m \in Machine : toMachine'[m] = toMachine[m] \/ toMachine'[m] = <<>>,
         \A m \in Machine : messages'[m] = messages[m] \/ messages'[m] = <<>>,
         \A m \in Machine : InSwitch(m)' \subseteq InSwitch(m) /\ InCard(m)' \subseteq InCard(m)
  PROVE  Pipelines'
<1>1. Sorted(<<>>) /\ Range(<<>>) = {}
  <2>1. DOMAIN <<>> = 1 .. 0
    BY EmptySeq, LenProperties
  <2>2. DOMAIN <<>> = {}
    BY <2>1
  <2> QED BY Zenon, <2>2 DEF Sorted, Range
<1>2. NoNewer(InSwitchSockets, InSend)'
  BY Zenon DEF IInv, Pipelines, NoNewer
<1>3. \A k \in Machine : Sorted(toSwitch[k])'
  BY Zenon, <1>1 DEF IInv, Pipelines
<1>4. BehindSwitch' \subseteq BehindSwitch
  BY Zenon DEF BehindSwitch
<1>5. ASSUME NEW k \in Machine PROVE Pipeline(k)'
  <2>1. Sorted(toMachine[k])' /\ Sorted(messages[k])'
    BY Zenon, <1>1 DEF IInv, Pipelines, Pipeline
  <2>2. InSocket(k)' \subseteq InSocket(k) /\ Passed(k)' \subseteq Passed(k)
    BY Zenon, <1>1 DEF InSocket, Passed
  <2> QED BY Zenon, <1>4, <2>1, <2>2, PipelineLess
<1> QED BY Zenon, <1>2, <1>3, <1>5 DEF Pipelines

LEMMA GiveUpIInv ==
  ASSUME IInv, NEW m \in Machine, GiveUp(m)
  PROVE  IInv'
<1>1. /\ tx' = [tx EXCEPT ![m] = NoFrame]
      /\ UNCHANGED <<up, sent, current_packet, messageAvailable, pktTaken, messages, switchUp, switchMap,
                     connected, ready, fwdFrame, fwdPorts, toSwitch, toMachine, restarts>>
  BY DEF GiveUp, switchVars
<1>2. TypeOK
  BY DEF IInv, LearnedRight
<1>3. /\ tx' \in [Machine -> Frame \cup {NoFrame}]
      /\ \A k \in Machine : tx'[k] = tx[k] \/ tx'[k] = NoFrame
  BY <1>1, <1>2 DEF TypeOK
<1>4. LearnedRight'
  <2>1. TypeOK'
    BY <1>1, <1>2, <1>3 DEF TypeOK
  <2> QED BY <1>1, <2>1 DEF IInv, LearnedRight
<1>5. Own'
  BY Zenon, <1>1, <1>3 DEF IInv, Own
<1>6. SwitchReady' /\ CardReady' /\ NewestKept'
  BY <1>1 DEF IInv, SwitchReady, CardReady, NewestKept
<1>7. Pipelines'
  <2>1. InSend' \subseteq InSend
    BY Zenon, <1>3 DEF InSend
  <2>2. /\ InSwitchSockets' = InSwitchSockets
        /\ \A k \in Machine : InSwitch(k)' = InSwitch(k) /\ InCard(k)' = InCard(k)
    BY Zenon, <1>1 DEF InSwitchSockets, InSwitch, InCard
  <2> QED BY Zenon, <1>1, <2>1, <2>2, PipelinesLess
<1> QED BY <1>4, <1>5, <1>6, <1>7 DEF IInv

----------------------------------------------------------------------------
(* The actions keep the invariant: the switch *)

\* Steps that move no frame.
LEMMA StillPipelines ==
  ASSUME IInv, UNCHANGED <<sent, tx, toSwitch, toMachine, fwdFrame, fwdPorts, current_packet, messages>>
  PROVE  Pipelines'
<1>1. /\ InSwitchSockets' = InSwitchSockets /\ InSend' = InSend
      /\ \A k \in Machine : InSwitch(k)' = InSwitch(k) /\ InCard(k)' = InCard(k)
  BY Zenon DEF InSwitchSockets, InSend, InSwitch, InCard
<1> QED BY Zenon, <1>1, PipelinesLess

LEMMA SelectIInv ==
  ASSUME IInv, Select
  PROVE  IInv'
<1>1. /\ ready' = {i \in Machine : toSwitch[i] # <<>>}
      /\ UNCHANGED <<up, sent, tx, current_packet, messageAvailable, pktTaken, messages, switchUp,
                     switchMap, connected, fwdFrame, fwdPorts, toSwitch, toMachine, restarts>>
  BY DEF Select, machineVars
<1>2. LearnedRight'
  <2>1. TypeOK'
    BY <1>1 DEF IInv, LearnedRight, TypeOK
  <2> QED BY <1>1, <2>1 DEF IInv, LearnedRight
<1>3. Own' /\ CardReady' /\ NewestKept'
  BY <1>1 DEF IInv, Own, CardReady, NewestKept
<1>4. SwitchReady'
  BY <1>1 DEF IInv, SwitchReady
<1>5. Pipelines'
  BY <1>1, StillPipelines
<1> QED BY <1>2, <1>3, <1>4, <1>5 DEF IInv

LEMMA RecvIInv ==
  ASSUME IInv, Recv
  PROVE  IInv'
<1> DEFINE i == Min(ready)
           q == toSwitch[i]
           f == Head(q)
<1>1. /\ fwdPorts = {} /\ ready # {}
      /\ ready' = ready \ {i}
      /\ toSwitch' = [toSwitch EXCEPT ![i] = Tail(q)]
      /\ switchMap' = [switchMap EXCEPT ![f.src] = i]
      /\ fwdFrame' = f
      /\ fwdPorts' = IF f.dst \in Machine /\ switchMap'[f.dst] # NoPort
                     THEN {switchMap'[f.dst]} ELSE Machine \ {i}
      /\ connected' = up
      /\ UNCHANGED <<up, sent, tx, current_packet, messageAvailable, pktTaken, messages, switchUp,
                     toMachine, restarts>>
  BY DEF Recv, machineVars
<1>2. TypeOK
  BY DEF IInv, LearnedRight
<1>3. i \in ready /\ i \in Machine /\ q \in Seq(Frame) /\ q # <<>>
  <2>1. ready \subseteq Nat /\ ready \subseteq Machine
    BY <1>2, LinkAssumption DEF TypeOK
  <2>2. i \in ready
    BY Zenon, <1>1, <2>1, MinOfNaturals
  <2>3. i \in Machine
    BY Zenon, <2>1, <2>2
  <2> HIDE DEF i
  <2> QED BY <1>2, <2>2, <2>3 DEF IInv, SwitchReady, TypeOK
<1> HIDE DEF i, q
<1>q. q = toSwitch[i]
  BY DEF q
<1>4. /\ f \in Frame /\ f \in Range(q)
      /\ Tail(q) \in Seq(Frame) /\ Len(Tail(q)) <= Len(q)
      /\ Range(Tail(q)) \subseteq Range(q)
      /\ Sorted(Tail(q)) /\ NoNewer({f}, Range(Tail(q)))
  <2>1. Sorted(q)
    BY Zenon, <1>3, <1>q DEF IInv, Pipelines
  <2> QED BY Zenon, <1>3, <2>1, TakeFrame
<1>5. f.src = i
  BY Zenon, <1>3, <1>4, <1>q DEF IInv, Own
<1>6. f.dst \in Machine \cup {OtherMac, Broadcast}
  BY <1>4 DEF Frame
<1> DEFINE t == Tail(q)
<1>t. t = Tail(q)
  OBVIOUS
<1> HIDE DEF f, t
<1>7. /\ toSwitch' \in [Machine -> Seq(Frame)] /\ toSwitch'[i] = t
      /\ \A k \in Machine : k # i => toSwitch'[k] = toSwitch[k]
  BY <1>1, <1>2, <1>3, <1>4, <1>t DEF TypeOK
<1>8. /\ switchMap' \in [Machine -> Machine \cup {NoPort}]
      /\ \A k \in Machine : switchMap'[k] \in {k, NoPort}
  BY <1>1, <1>2, <1>3, <1>5 DEF TypeOK, IInv, LearnedRight
<1>9. fwdPorts' \subseteq Machine /\ \A k \in fwdPorts' : f.src = k => f.dst = k
  <2>1. CASE f.dst \in Machine /\ switchMap'[f.dst] # NoPort
    <3>1. fwdPorts' = {switchMap'[f.dst]}
      BY Zenon, <1>1, <2>1
    <3>2. switchMap'[f.dst] = f.dst
      BY Zenon, <1>8, <2>1
    <3> QED BY Zenon, <2>1, <3>1, <3>2
  <2>2. CASE ~ (f.dst \in Machine /\ switchMap'[f.dst] # NoPort)
    <3>1. fwdPorts' = Machine \ {i}
      BY Zenon, <1>1, <2>2
    <3> QED BY Zenon, <1>5, <3>1
  <2> QED BY Zenon, <2>1, <2>2
<1>10. LearnedRight'
  <2>1. \A k \in Machine : Len(toSwitch'[k]) <= QLen
    <3>1. Len(q) <= QLen /\ Len(q) \in Nat /\ Len(t) \in Nat /\ QLen \in Nat
      BY <1>2, <1>3, <1>4, <1>q, <1>t, LenProperties, LinkAssumption DEF TypeOK
    <3>2. Len(t) <= QLen
      BY <1>4, <1>t, <3>1
    <3> QED BY Zenon, <1>2, <1>7, <3>2 DEF TypeOK
  <2>2. ready' \subseteq Machine /\ connected' \subseteq up'
    BY <1>1, <1>2 DEF TypeOK
  <2>3. TypeOK'
    BY Zenon, <1>1, <1>2, <1>4, <1>7, <1>8, <1>9, <2>1, <2>2 DEF TypeOK
  <2> QED BY <1>1, <1>8, <2>3 DEF IInv, LearnedRight
<1>11. Own'
  BY Zenon, <1>1, <1>3, <1>4, <1>7, <1>q, <1>t DEF IInv, Own
<1>12. SwitchReady'
  <2>1. \A k \in ready' : k \in Machine /\ toSwitch'[k] # <<>>
    BY <1>1, <1>7 DEF IInv, SwitchReady
  <2> QED BY <1>1, <1>4, <1>9, <2>1 DEF SwitchReady
<1>13. CardReady' /\ NewestKept'
  BY <1>1 DEF IInv, CardReady, NewestKept
<1>14. /\ InSend' = InSend /\ InSwitchSockets' \subseteq InSwitchSockets
       /\ f \in InSwitchSockets
       /\ \A k \in Machine : /\ InSwitch(k) = {} /\ InSwitch(k)' \subseteq {f}
                             /\ InSocket(k)' = InSocket(k)
                             /\ InCard(k)' = InCard(k) /\ Passed(k)' = Passed(k)
  <2>1. InSend' = InSend
    BY <1>1 DEF InSend
  <2>2. InSwitchSockets' \subseteq InSwitchSockets /\ f \in InSwitchSockets
    BY Zenon, <1>3, <1>4, <1>7, <1>q, <1>t DEF InSwitchSockets
  <2>3. \A k \in Machine : InSwitch(k) = {} /\ InSwitch(k)' \subseteq {f}
    BY <1>1 DEF InSwitch
  <2> QED BY <1>1, <2>1, <2>2, <2>3 DEF InSocket, InCard, Passed
<1>15. NoNewer({f}, BehindSwitch')
  <2> SUFFICES ASSUME NEW g \in BehindSwitch', f.src = g.src PROVE f.id <= g.id
    BY DEF NoNewer
  <2>1. CASE g \in InSend'
    BY Zenon, <1>14, <2>1 DEF IInv, Pipelines, NoNewer
  <2>2. CASE g \in InSwitchSockets'
    <3>1. PICK k \in Machine : g \in Range(toSwitch'[k])
      BY <2>2 DEF InSwitchSockets
    <3>2. k = i
      BY Zenon, <1>5, <1>11, <3>1 DEF Own
    <3> QED BY Zenon, <1>4, <1>7, <1>t, <3>1, <3>2 DEF NoNewer
  <2> QED BY Zenon, <2>1, <2>2 DEF BehindSwitch
<1>16. Pipelines'
  <2>1. NoNewer(InSwitchSockets, InSend)'
    BY Zenon, <1>14 DEF IInv, Pipelines, NoNewer
  <2>2. \A k \in Machine : Sorted(toSwitch[k])'
    BY Zenon, <1>4, <1>7, <1>t DEF IInv, Pipelines
  <2>3. ASSUME NEW k \in Machine PROVE Pipeline(k)'
    <3>1. Pipeline(k)
      BY DEF IInv, Pipelines
    <3>2. BehindSwitch' \subseteq BehindSwitch /\ f \in BehindSwitch
      BY Zenon, <1>14 DEF BehindSwitch
    <3>3. Flow(BehindSwitch, {}, InSocket(k), InCard(k), Passed(k))
      BY Zenon, <1>14, <3>1 DEF Pipeline
    <3>4. NoNewer(InSwitch(k)', BehindSwitch')
      BY Zenon, <1>14, <1>15 DEF NoNewer
    <3>5. BehindSwitch' \in SUBSET BehindSwitch /\ InSwitch(k)' \in SUBSET BehindSwitch
      BY Zenon, <1>14, <3>2
    <3>6. Flow(BehindSwitch', InSwitch(k)', InSocket(k), InCard(k), Passed(k))
      BY Zenon, <3>3, <3>4, <3>5, FlowRecv
    <3>7. Flow(BehindSwitch, InSwitch(k), InSocket(k), InCard(k), Passed(k))'
      BY Zenon, <1>14, <3>6
    <3>8. OnTheWay(k)' \subseteq OnTheWay(k)
      BY Zenon, <1>14, <3>5 DEF OnTheWay
    <3> QED BY Zenon, <1>1, <1>14, <3>1, <3>7, <3>8 DEF Pipeline
  <2> QED BY Zenon, <2>1, <2>2, <2>3 DEF Pipelines
<1> QED BY <1>10, <1>11, <1>12, <1>13, <1>16 DEF IInv
LEMMA ForwardIInv ==
  ASSUME IInv, Forward
  PROVE  IInv'
<1> DEFINE j == Min(fwdPorts)
           q == toMachine[j]
           e == fwdFrame
<1>1. /\ fwdPorts # {}
      /\ j \in connected => Len(q) < QLen
      /\ toMachine' = IF j \in connected THEN [toMachine EXCEPT ![j] = Append(q, e)] ELSE toMachine
      /\ fwdPorts' = fwdPorts \ {j}
      /\ fwdFrame' = IF fwdPorts' = {} THEN NoFrame ELSE e
      /\ UNCHANGED <<up, sent, tx, current_packet, messageAvailable, pktTaken, messages, switchUp,
                     switchMap, connected, ready, toSwitch, restarts>>
  BY DEF Forward, machineVars
<1>2. TypeOK
  BY DEF IInv, LearnedRight
<1>3. j \in fwdPorts /\ j \in Machine
  <2>1. fwdPorts \subseteq Nat /\ fwdPorts \subseteq Machine
    BY <1>2, LinkAssumption DEF TypeOK
  <2>2. j \in fwdPorts
    BY Zenon, <1>1, <2>1, MinOfNaturals
  <2> QED BY Zenon, <2>1, <2>2
<1>q. q = toMachine[j] /\ e = fwdFrame
  OBVIOUS
<1> HIDE DEF j, q, e
<1>4. e \in Frame /\ q \in Seq(Frame) /\ Len(q) \in Nat /\ QLen \in Nat
  <2>1. e \in Frame /\ q \in Seq(Frame)
    BY <1>1, <1>2, <1>3, <1>q DEF IInv, SwitchReady, TypeOK
  <2> QED BY <2>1, LenProperties, LinkAssumption
<1>5. InSwitch(j) = {e} /\ InSocket(j) = Range(q) /\ Pipeline(j)
  BY <1>3, <1>q DEF InSwitch, InSocket, IInv, Pipelines
<1> DEFINE a == Append(q, e)
<1>6. /\ a \in Seq(Frame) /\ Len(a) = Len(q) + 1
      /\ Range(a) = Range(q) \cup {e} /\ Sorted(a)
  <2>1. Sorted(q)
    BY Zenon, <1>5, <1>q DEF Pipeline
  <2>2. NoNewer(Range(q), {e})
    BY Zenon, <1>5 DEF Pipeline, Flow, NoNewer
  <2> QED BY Zenon, <1>4, <2>1, <2>2, AppendFrame
<1> HIDE DEF a
<1>7. /\ toMachine' \in [Machine -> Seq(Frame)]
      /\ \A k \in Machine : k # j => toMachine'[k] = toMachine[k]
      /\ toMachine'[j] = q \/ (toMachine'[j] = a /\ j \in connected)
  <2>1. CASE j \in connected
    <3>1. toMachine' = [toMachine EXCEPT ![j] = a]
      BY <1>1, <2>1 DEF a
    <3> QED BY <1>2, <1>3, <1>6, <2>1, <3>1 DEF TypeOK
  <2>2. CASE j \notin connected
    BY <1>1, <1>2, <1>q, <2>2 DEF TypeOK
  <2> QED BY <2>1, <2>2
<1>8. /\ Range(toMachine'[j]) \subseteq Range(q) \cup {e} /\ Sorted(toMachine'[j])
      /\ Len(toMachine'[j]) <= QLen
  <2>1. Sorted(q) /\ Len(q) <= QLen
    BY Zenon, <1>2, <1>3, <1>5, <1>q DEF Pipeline, TypeOK
  <2>2. j \in connected => Len(a) <= QLen
    BY <1>1, <1>4, <1>6
  <2> QED BY Zenon, <1>6, <1>7, <2>1, <2>2
<1>9. LearnedRight'
  <2>1. \A k \in Machine : Len(toMachine'[k]) <= QLen
    BY Zenon, <1>2, <1>7, <1>8 DEF TypeOK
  <2>2. fwdPorts' \subseteq Machine /\ fwdFrame' \in Frame \cup {NoFrame}
    BY <1>1, <1>2, <1>4 DEF TypeOK
  <2>3. TypeOK'
    BY Zenon, <1>1, <1>2, <1>7, <2>1, <2>2 DEF TypeOK
  <2>4. e.src = j => e.dst = j
    BY Zenon, <1>3, <1>q DEF IInv, SwitchReady
  <2>5. \A k \in Machine : \A f \in Range(toMachine'[k]) : f.src = k => f.dst = k
    BY Zenon, <1>7, <1>8, <1>q, <2>4 DEF IInv, LearnedRight
  <2> QED BY <1>1, <2>3, <2>5 DEF IInv, LearnedRight
<1>10. Own' /\ CardReady' /\ NewestKept'
  BY <1>1 DEF IInv, Own, CardReady, NewestKept
<1>11. SwitchReady'
  <2>1. fwdPorts' # {} => fwdFrame' \in Frame
    BY <1>1, <1>4
  <2>2. \A k \in fwdPorts' : k \in fwdPorts /\ fwdFrame' = fwdFrame
    BY <1>1, <1>q
  <2> QED BY <1>1, <2>1, <2>2 DEF IInv, SwitchReady
<1>12. Pipelines'
  <2>1. /\ InSend' = InSend /\ InSwitchSockets' = InSwitchSockets
        /\ \A k \in Machine : InCard(k)' = InCard(k) /\ Passed(k)' = Passed(k)
    BY <1>1 DEF InSend, InSwitchSockets, InCard, Passed
  <2>2. BehindSwitch' = BehindSwitch
    BY Zenon, <2>1 DEF BehindSwitch
  <2>3. ASSUME NEW k \in Machine, k # j PROVE Pipeline(k)'
    <3>1. InSwitch(k)' \subseteq InSwitch(k)
      BY <1>1, <1>q, <2>3 DEF InSwitch
    <3>2. InSocket(k)' = InSocket(k) /\ Sorted(toMachine[k])' /\ Sorted(messages[k])'
      BY Zenon, <1>1, <1>7, <2>3 DEF InSocket, IInv, Pipelines, Pipeline
    <3> QED BY Zenon, <1>1, <2>1, <2>2, <3>1, <3>2, PipelineLess
  <2>4. ASSUME NEW k \in Machine, k = j PROVE Pipeline(k)'
    <3>1. InSwitch(k)' = {} /\ InSwitch(k) = {e}
      BY <1>1, <1>5, <2>4 DEF InSwitch
    <3>2. InSocket(k)' \in SUBSET (InSocket(k) \cup InSwitch(k))
      BY Zenon, <1>8, <1>q, <2>4, <3>1 DEF InSocket
    <3>3. Flow(BehindSwitch, InSwitch(k), InSocket(k), InCard(k), Passed(k)) /\ Sorted(messages[k])
      BY Zenon DEF IInv, Pipelines, Pipeline
    <3>4. Flow(BehindSwitch, {}, InSocket(k)', InCard(k), Passed(k))
      BY Zenon, <3>2, <3>3, FlowForward
    <3>5. Flow(BehindSwitch, InSwitch(k), InSocket(k), InCard(k), Passed(k))'
      BY Zenon, <2>1, <2>2, <3>1, <3>4
    <3>6. OnTheWay(k)' \subseteq OnTheWay(k)
      BY Zenon, <2>1, <2>2, <3>1, <3>2 DEF OnTheWay
    <3>7. Sorted(toMachine[k])' /\ Sorted(messages[k])'
      BY Zenon, <1>1, <1>8, <2>4, <3>3
    <3> QED BY Zenon, <1>1, <2>1, <3>5, <3>6, <3>7 DEF IInv, Pipelines, Pipeline
  <2> QED BY Zenon, <1>1, <2>1, <2>3, <2>4 DEF IInv, Pipelines
<1> QED BY <1>9, <1>10, <1>11, <1>12 DEF IInv

LEMMA SwitchStopIInv ==
  ASSUME IInv, SwitchStop
  PROVE  IInv'
<1>1. /\ restarts < MaxRestarts /\ restarts' = restarts + 1
      /\ switchUp' = FALSE /\ ready' = {} /\ fwdFrame' = NoFrame /\ fwdPorts' = {}
      /\ connected' = {} /\ toSwitch' = [m \in Machine |-> <<>>]
      /\ UNCHANGED <<up, sent, tx, current_packet, messageAvailable, pktTaken, messages, switchMap,
                     toMachine>>
  BY DEF SwitchStop, machineVars
<1>2. <<>> \in Seq(Frame) /\ Len(<<>>) = 0 /\ Range(<<>>) = {}
  <2>1. DOMAIN <<>> = 1 .. 0
    BY EmptySeq, LenProperties
  <2>2. DOMAIN <<>> = {}
    BY <2>1
  <2> QED BY <2>2, EmptySeq DEF Range
<1>3. /\ toSwitch' \in [Machine -> Seq(Frame)]
      /\ \A k \in Machine : toSwitch'[k] = <<>> /\ Range(toSwitch'[k]) = {} /\ Len(toSwitch'[k]) <= QLen
  BY <1>1, <1>2, LinkAssumption
<1>4. LearnedRight'
  <2>1. restarts' \in 0 .. MaxRestarts
    BY <1>1, LinkAssumption DEF IInv, LearnedRight, TypeOK
  <2>2. /\ switchUp' \in BOOLEAN /\ connected' \subseteq up' /\ ready' \subseteq Machine
        /\ fwdFrame' \in Frame \cup {NoFrame} /\ fwdPorts' \subseteq Machine
    BY Zenon, <1>1
  <2>3. TypeOK'
    BY Zenon, <1>1, <1>3, <2>1, <2>2 DEF IInv, LearnedRight, TypeOK
  <2> QED BY <1>1, <2>3 DEF IInv, LearnedRight
<1>5. Own'
  BY Zenon, <1>1, <1>3 DEF IInv, Own
<1>6. SwitchReady' /\ CardReady' /\ NewestKept'
  BY <1>1 DEF IInv, SwitchReady, CardReady, NewestKept
<1>7. Pipelines'
  <2>1. /\ InSend' = InSend /\ InSwitchSockets' \subseteq InSwitchSockets
        /\ \A k \in Machine : InSwitch(k)' \subseteq InSwitch(k) /\ InCard(k)' = InCard(k)
    BY Zenon, <1>1, <1>3 DEF InSend, InSwitchSockets, InSwitch, InCard
  <2> QED BY Zenon, <1>1, <1>3, <2>1, PipelinesLess
<1> QED BY <1>4, <1>5, <1>6, <1>7 DEF IInv

LEMMA SwitchStartIInv ==
  ASSUME IInv, SwitchStart
  PROVE  IInv'
<1>1. /\ switchUp' = TRUE /\ switchMap' = [m \in Machine |-> NoPort]
      /\ UNCHANGED <<up, sent, tx, current_packet, messageAvailable, pktTaken, messages, connected,
                     ready, fwdFrame, fwdPorts, toSwitch, toMachine, restarts>>
  BY DEF SwitchStart, machineVars
<1>2. LearnedRight'
  <2>1. /\ switchMap' \in [Machine -> Machine \cup {NoPort}] /\ switchUp' \in BOOLEAN
        /\ \A m \in Machine : switchMap'[m] \in {m, NoPort}
    BY Zenon, <1>1
  <2>2. TypeOK'
    BY Zenon, <1>1, <2>1 DEF IInv, LearnedRight, TypeOK
  <2> QED BY Zenon, <1>1, <2>1, <2>2 DEF IInv, LearnedRight
<1>3. Own' /\ SwitchReady' /\ CardReady' /\ NewestKept'
  BY Zenon, <1>1 DEF IInv, Own, SwitchReady, CardReady, NewestKept
<1>4. Pipelines'
  BY <1>1, StillPipelines
<1> QED BY <1>2, <1>3, <1>4 DEF IInv

----------------------------------------------------------------------------
(* The actions keep the invariant: receiving *)

LEMMA PollIInv ==
  ASSUME IInv, NEW m \in Machine, Poll(m)
  PROVE  IInv'
<1> DEFINE q == toMachine[m]
           f == Head(q)
           t == Tail(q)
<1>1. /\ q # <<>>
      /\ current_packet' = [current_packet EXCEPT ![m] = f]
      /\ toMachine' = [toMachine EXCEPT ![m] = t]
      /\ messageAvailable' = [messageAvailable EXCEPT ![m] = messageAvailable[m] + 1]
      /\ UNCHANGED <<up, sent, tx, pktTaken, messages, switchUp, switchMap, connected, ready,
                     fwdFrame, fwdPorts, toSwitch, restarts>>
  BY DEF Poll, switchVars
<1>2. TypeOK /\ q \in Seq(Frame)
  BY DEF IInv, LearnedRight, TypeOK
<1>q. q = toMachine[m]
  OBVIOUS
<1> HIDE DEF q
<1>3. /\ f \in Frame /\ f \in Range(q)
      /\ t \in Seq(Frame) /\ Len(t) <= Len(q)
      /\ Range(t) \subseteq Range(q)
      /\ Sorted(t) /\ NoNewer({f}, Range(t))
  <2>1. Sorted(q)
    BY Zenon, <1>q DEF IInv, Pipelines, Pipeline
  <2> QED BY Zenon, <1>1, <1>2, <2>1, TakeFrame
<1>l. Len(t) <= QLen
  <2>1. Len(t) \in Nat /\ Len(q) \in Nat
    BY <1>2, <1>3, LenProperties
  <2> QED BY <1>2, <1>3, <1>q, <2>1, LinkAssumption DEF TypeOK
<1> HIDE DEF f, t
<1>4. /\ current_packet' \in [Machine -> Frame \cup {NoFrame}] /\ current_packet'[m] = f
      /\ \A k \in Machine : k # m => current_packet'[k] = current_packet[k]
      /\ toMachine' \in [Machine -> Seq(Frame)] /\ toMachine'[m] = t
      /\ \A k \in Machine : k # m => toMachine'[k] = toMachine[k]
  BY <1>1, <1>2, <1>3 DEF TypeOK
<1>5. /\ messageAvailable' \in [Machine -> Nat] /\ messageAvailable'[m] > 0
      /\ \A k \in Machine : k # m => messageAvailable'[k] = messageAvailable[k]
  BY <1>1, <1>2 DEF TypeOK
<1>6. LearnedRight'
  <2>1. \A k \in Machine : Len(toMachine'[k]) <= QLen
    BY Zenon, <1>2, <1>4, <1>l DEF TypeOK
  <2>2. TypeOK'
    BY Zenon, <1>1, <1>2, <1>4, <1>5, <2>1 DEF TypeOK
  <2>3. \A k \in Machine : \A g \in Range(toMachine'[k]) : g.src = k => g.dst = k
    BY Zenon, <1>3, <1>4, <1>q DEF IInv, LearnedRight
  <2> QED BY <1>1, <2>2, <2>3 DEF IInv, LearnedRight
<1>7. Own' /\ SwitchReady'
  BY <1>1 DEF IInv, Own, SwitchReady
<1>8. CardReady'
  BY Zenon, <1>1, <1>3, <1>4, <1>5 DEF IInv, CardReady
<1>9. NewestKept'
  <2>1. messageAvailable'[m] # 0
    BY <1>5
  <2> QED BY Zenon, <1>1, <1>4, <1>5, <2>1 DEF IInv, NewestKept
<1>10. Pipelines'
  <2>1. /\ InSend' = InSend /\ InSwitchSockets' = InSwitchSockets /\ BehindSwitch' = BehindSwitch
        /\ \A k \in Machine : InSwitch(k)' = InSwitch(k) /\ Passed(k)' = Passed(k)
    BY <1>1 DEF InSend, InSwitchSockets, BehindSwitch, InSwitch, Passed
  <2>2. ASSUME NEW k \in Machine, k # m PROVE Pipeline(k)'
    <3>1. /\ InCard(k)' = InCard(k) /\ InSocket(k)' = InSocket(k)
          /\ Sorted(toMachine[k])' /\ Sorted(messages[k])'
      BY Zenon, <1>1, <1>4, <2>2 DEF InCard, InSocket, IInv, Pipelines, Pipeline
    <3> QED BY Zenon, <1>1, <2>1, <3>1, PipelineLess
  <2>3. Pipeline(m)'
    <3>1. /\ InSocket(m)' \in SUBSET InSocket(m) /\ InCard(m)' \in SUBSET InSocket(m)
          /\ InCard(m)' \subseteq {f} /\ InSocket(m)' = Range(t)
      BY Zenon, <1>3, <1>4, <1>q DEF InSocket, InCard
    <3>2. NoNewer(InCard(m)', InSocket(m)')
      BY Zenon, <1>3, <3>1 DEF NoNewer
    <3>3. Flow(BehindSwitch, InSwitch(m), InSocket(m), InCard(m), Passed(m)) /\ Sorted(messages[m])
      BY Zenon DEF IInv, Pipelines, Pipeline
    <3>4. Flow(BehindSwitch, InSwitch(m), InSocket(m)', InCard(m)', Passed(m))
      BY Zenon, <3>1, <3>2, <3>3, FlowPoll
    <3>5. Flow(BehindSwitch, InSwitch(m), InSocket(m), InCard(m), Passed(m))'
      BY Zenon, <2>1, <3>4
    <3>6. OnTheWay(m)' \subseteq OnTheWay(m)
      BY Zenon, <2>1, <3>1 DEF OnTheWay
    <3>7. Sorted(toMachine[m])' /\ Sorted(messages[m])'
      BY Zenon, <1>1, <1>3, <1>4, <3>3
    <3> QED BY Zenon, <1>1, <2>1, <3>5, <3>6, <3>7 DEF IInv, Pipelines, Pipeline
  <2> QED BY Zenon, <1>1, <2>1, <2>2, <2>3 DEF IInv, Pipelines
<1> QED BY <1>6, <1>7, <1>8, <1>9, <1>10 DEF IInv

LEMMA PktWaitIInv ==
  ASSUME IInv, NEW m \in Machine, PktWait(m)
  PROVE  IInv'
<1>1. /\ messageAvailable[m] > 0
      /\ messageAvailable' = [messageAvailable EXCEPT ![m] = messageAvailable[m] - 1]
      /\ pktTaken' = [pktTaken EXCEPT ![m] = TRUE]
      /\ UNCHANGED <<up, sent, tx, current_packet, messages, switchUp, switchMap, connected, ready,
                     fwdFrame, fwdPorts, toSwitch, toMachine, restarts>>
  BY DEF PktWait, switchVars
<1>2. TypeOK
  BY DEF IInv, LearnedRight
<1>3. /\ messageAvailable' \in [Machine -> Nat]
      /\ \A k \in Machine : k # m => messageAvailable'[k] = messageAvailable[k]
  BY <1>1, <1>2 DEF TypeOK
<1>4. /\ pktTaken' \in [Machine -> BOOLEAN] /\ pktTaken'[m]
      /\ \A k \in Machine : k # m => pktTaken'[k] = pktTaken[k]
  BY Zenon, <1>1, <1>2 DEF TypeOK
<1>5. LearnedRight'
  <2>1. TypeOK'
    BY Zenon, <1>1, <1>2, <1>3, <1>4 DEF TypeOK
  <2> QED BY Zenon, <1>1, <2>1 DEF IInv, LearnedRight
<1>6. Own' /\ SwitchReady'
  BY Zenon, <1>1 DEF IInv, Own, SwitchReady
<1>7. CardReady' /\ NewestKept'
  BY Zenon, <1>1, <1>3, <1>4 DEF IInv, CardReady, NewestKept
<1>8. Pipelines'
  BY <1>1, StillPipelines
<1> QED BY <1>5, <1>6, <1>7, <1>8 DEF IInv

LEMMA PktReceiveIInv ==
  ASSUME IInv, NEW m \in Machine, PktReceive(m)
  PROVE  IInv'
<1> DEFINE e == current_packet[m]
           q == messages[m]
           a == Append(q, e)
<1>1. /\ pktTaken[m]
      /\ pktTaken' = [pktTaken EXCEPT ![m] = FALSE]
      /\ messages' = IF e.dst = m THEN [messages EXCEPT ![m] = a] ELSE messages
      /\ UNCHANGED <<up, sent, tx, current_packet, messageAvailable, switchUp, switchMap, connected,
                     ready, fwdFrame, fwdPorts, toSwitch, toMachine, restarts>>
  BY DEF PktReceive, switchVars
<1>2. TypeOK /\ q \in Seq(Frame)
  BY DEF IInv, LearnedRight, TypeOK
<1>3. e \in Frame /\ e # NoFrame
  BY <1>1, NoFrameAssumption DEF IInv, CardReady
<1>q. e = current_packet[m] /\ q = messages[m]
  OBVIOUS
<1> HIDE DEF e, q
<1>4. InCard(m) = {e} /\ Passed(m) = Range(q) /\ Pipeline(m)
  BY <1>3, <1>q DEF InCard, Passed, IInv, Pipelines
<1>5. /\ a \in Seq(Frame) /\ Range(a) = Range(q) \cup {e}
      /\ a # <<>> /\ Last(a) = e /\ Sorted(a)
  <2>1. Sorted(q)
    BY Zenon, <1>4, <1>q DEF Pipeline
  <2>2. NoNewer(Range(q), {e})
    BY Zenon, <1>4 DEF Pipeline, Flow, NoNewer
  <2> QED BY Zenon, <1>2, <1>3, <2>1, <2>2, AppendFrame
<1> HIDE DEF a
<1>6. /\ messages' \in [Machine -> Seq(Frame)]
      /\ \A k \in Machine : k # m => messages'[k] = messages[k]
      /\ messages'[m] = IF e.dst = m THEN a ELSE q
  <2>1. CASE e.dst = m
    BY <1>1, <1>2, <1>5, <2>1 DEF TypeOK
  <2>2. CASE e.dst # m
    BY <1>1, <1>2, <1>q, <2>2 DEF TypeOK
  <2> QED BY <2>1, <2>2
<1>7. /\ pktTaken' \in [Machine -> BOOLEAN] /\ ~ pktTaken'[m]
      /\ \A k \in Machine : k # m => pktTaken'[k] = pktTaken[k]
  BY Zenon, <1>1, <1>2 DEF TypeOK
<1>8. LearnedRight'
  <2>1. TypeOK'
    BY Zenon, <1>1, <1>2, <1>6, <1>7 DEF TypeOK
  <2> QED BY Zenon, <1>1, <2>1 DEF IInv, LearnedRight
<1>9. Own' /\ SwitchReady'
  BY Zenon, <1>1 DEF IInv, Own, SwitchReady
<1>10. CardReady'
  BY Zenon, <1>1, <1>3, <1>7, <1>q DEF IInv, CardReady
<1>11. NewestKept'
  <2>1. e.dst = m => messages'[m] # <<>> /\ Last(messages'[m]) = e
    BY <1>5, <1>6
  <2> QED BY Zenon, <1>1, <1>6, <1>7, <1>q, <2>1 DEF IInv, NewestKept
<1>12. Pipelines'
  <2>1. /\ InSend' = InSend /\ InSwitchSockets' = InSwitchSockets /\ BehindSwitch' = BehindSwitch
        /\ \A k \in Machine : /\ InSwitch(k)' = InSwitch(k) /\ InSocket(k)' = InSocket(k)
                              /\ InCard(k)' = InCard(k)
    BY <1>1 DEF InSend, InSwitchSockets, BehindSwitch, InSwitch, InSocket, InCard
  <2>2. ASSUME NEW k \in Machine, k # m PROVE Pipeline(k)'
    <3>1. Passed(k)' = Passed(k) /\ Sorted(toMachine[k])' /\ Sorted(messages[k])'
      BY Zenon, <1>1, <1>6, <2>2 DEF Passed, IInv, Pipelines, Pipeline
    <3> QED BY Zenon, <1>1, <2>1, <3>1, PipelineLess
  <2>3. Pipeline(m)'
    <3>1. /\ Passed(m)' \in SUBSET (Passed(m) \cup {e}) /\ Sorted(messages[m])'
          /\ \A f \in Passed(m)' : f.dst = m
      <4>1. CASE e.dst = m
        BY Zenon, <1>4, <1>5, <1>6, <4>1 DEF Passed, Pipeline
      <4>2. CASE e.dst # m
        BY Zenon, <1>4, <1>6, <1>q, <4>2 DEF Passed, Pipeline
      <4> QED BY <4>1, <4>2
    <3>2. Flow(BehindSwitch, InSwitch(m), InSocket(m), {e}, Passed(m))
      BY Zenon, <1>4 DEF Pipeline
    <3>3. Flow(BehindSwitch, InSwitch(m), InSocket(m), {e}, Passed(m)')
      BY Zenon, <1>3, <3>1, <3>2, FlowReceive
    <3>4. Flow(BehindSwitch, InSwitch(m), InSocket(m), InCard(m), Passed(m))'
      BY Zenon, <1>4, <2>1, <3>3
    <3>5. OnTheWay(m)' \subseteq OnTheWay(m)
      BY Zenon, <1>4, <2>1, <3>1 DEF OnTheWay
    <3>6. Sorted(toMachine[m])'
      BY Zenon, <1>1, <1>4 DEF Pipeline
    <3> QED BY Zenon, <1>1, <1>4, <3>1, <3>4, <3>5, <3>6 DEF Pipeline
  <2> QED BY Zenon, <1>1, <2>1, <2>2, <2>3 DEF IInv, Pipelines
<1> QED BY <1>8, <1>9, <1>10, <1>11, <1>12 DEF IInv

----------------------------------------------------------------------------
(* The actions keep the invariant: machines come and go *)

LEMMA HaltIInv ==
  ASSUME IInv, NEW m \in Machine, Halt(m)
  PROVE  IInv'
<1>1. /\ restarts < MaxRestarts /\ restarts' = restarts + 1
      /\ up' = up \ {m} /\ connected' = connected \ {m}
      /\ tx' = [tx EXCEPT ![m] = NoFrame]
      /\ toMachine' = [toMachine EXCEPT ![m] = <<>>]
      /\ UNCHANGED <<sent, current_packet, messageAvailable, pktTaken, messages, switchUp, switchMap,
                     ready, fwdFrame, fwdPorts, toSwitch>>
  BY DEF Halt
<1>2. TypeOK
  BY DEF IInv, LearnedRight
<1>3. <<>> \in Seq(Frame) /\ Len(<<>>) = 0 /\ Range(<<>>) = {}
  <2>1. DOMAIN <<>> = 1 .. 0
    BY EmptySeq, LenProperties
  <2>2. DOMAIN <<>> = {}
    BY <2>1
  <2> QED BY <2>2, EmptySeq DEF Range
<1>4. /\ tx' \in [Machine -> Frame \cup {NoFrame}]
      /\ \A k \in Machine : tx'[k] = tx[k] \/ tx'[k] = NoFrame
      /\ toMachine' \in [Machine -> Seq(Frame)]
      /\ \A k \in Machine : toMachine'[k] = toMachine[k] \/ toMachine'[k] = <<>>
  BY <1>1, <1>2, <1>3 DEF TypeOK
<1>5. LearnedRight'
  <2>1. restarts' \in 0 .. MaxRestarts
    BY <1>1, <1>2, LinkAssumption DEF TypeOK
  <2>2. \A k \in Machine : Len(toMachine'[k]) <= QLen
    <3>1. Len(<<>>) <= QLen
      BY <1>3, LinkAssumption
    <3> QED BY Zenon, <1>2, <1>4, <3>1 DEF TypeOK
  <2>3. up' \subseteq Machine /\ connected' \subseteq up'
    BY Zenon, <1>1, <1>2 DEF TypeOK
  <2>4. TypeOK'
    BY Zenon, <1>1, <1>2, <1>4, <2>1, <2>2, <2>3 DEF TypeOK
  <2>5. \A k \in Machine : \A g \in Range(toMachine'[k]) : g.src = k => g.dst = k
    BY Zenon, <1>3, <1>4 DEF IInv, LearnedRight
  <2> QED BY Zenon, <1>1, <2>4, <2>5 DEF IInv, LearnedRight
<1>6. Own'
  BY Zenon, <1>1, <1>4 DEF IInv, Own
<1>7. SwitchReady' /\ CardReady' /\ NewestKept'
  BY Zenon, <1>1 DEF IInv, SwitchReady, CardReady, NewestKept
<1>8. Pipelines'
  <2>1. /\ InSwitchSockets' = InSwitchSockets
        /\ \A k \in Machine : InSwitch(k)' = InSwitch(k) /\ InCard(k)' = InCard(k)
    BY Zenon, <1>1 DEF InSwitchSockets, InSwitch, InCard
  <2>2. InSend' \subseteq InSend
    BY <1>4 DEF InSend
  <2> QED BY Zenon, <1>1, <1>4, <2>1, <2>2, PipelinesLess
<1> QED BY <1>5, <1>6, <1>7, <1>8 DEF IInv

LEMMA BootIInv ==
  ASSUME IInv, NEW m \in Machine, Boot(m)
  PROVE  IInv'
<1>1. /\ up' = up \cup {m}
      /\ current_packet' = [current_packet EXCEPT ![m] = NoFrame]
      /\ messageAvailable' = [messageAvailable EXCEPT ![m] = 0]
      /\ pktTaken' = [pktTaken EXCEPT ![m] = FALSE]
      /\ messages' = [messages EXCEPT ![m] = <<>>]
      /\ UNCHANGED <<sent, tx, switchUp, switchMap, connected, ready, fwdFrame, fwdPorts, toSwitch,
                     toMachine, restarts>>
  BY DEF Boot, switchVars
<1>2. TypeOK
  BY DEF IInv, LearnedRight
<1>3. /\ current_packet' \in [Machine -> Frame \cup {NoFrame}] /\ current_packet'[m] = NoFrame
      /\ messages' \in [Machine -> Seq(Frame)] /\ messages'[m] = <<>>
      /\ \A k \in Machine : k # m => current_packet'[k] = current_packet[k]
      /\ \A k \in Machine : k # m => messages'[k] = messages[k]
  BY <1>1, <1>2, EmptySeq DEF TypeOK
<1>4. /\ messageAvailable' \in [Machine -> Nat] /\ ~ (messageAvailable'[m] > 0)
      /\ \A k \in Machine : k # m => messageAvailable'[k] = messageAvailable[k]
  BY <1>1, <1>2 DEF TypeOK
<1>5. /\ pktTaken' \in [Machine -> BOOLEAN] /\ ~ pktTaken'[m]
      /\ \A k \in Machine : k # m => pktTaken'[k] = pktTaken[k]
  BY Zenon, <1>1, <1>2 DEF TypeOK
<1>6. LearnedRight'
  <2>1. up' \subseteq Machine /\ connected' \subseteq up'
    BY Zenon, <1>1, <1>2 DEF TypeOK
  <2>2. TypeOK'
    BY Zenon, <1>1, <1>2, <1>3, <1>4, <1>5, <2>1 DEF TypeOK
  <2> QED BY Zenon, <1>1, <2>2 DEF IInv, LearnedRight
<1>7. Own' /\ SwitchReady'
  BY Zenon, <1>1 DEF IInv, Own, SwitchReady
<1>8. CardReady' /\ NewestKept'
  BY Zenon, <1>1, <1>3, <1>4, <1>5 DEF IInv, CardReady, NewestKept
<1>9. Pipelines'
  <2>1. /\ InSend' = InSend /\ InSwitchSockets' = InSwitchSockets
        /\ \A k \in Machine : InSwitch(k)' = InSwitch(k)
    BY Zenon, <1>1 DEF InSend, InSwitchSockets, InSwitch
  <2>2. \A k \in Machine : InCard(k)' \subseteq InCard(k)
    BY Zenon, <1>3 DEF InCard
  <2>3. \A k \in Machine : messages'[k] = messages[k] \/ messages'[k] = <<>>
    BY Zenon, <1>3
  <2> QED BY Zenon, <1>1, <2>1, <2>2, <2>3, PipelinesLess
<1> QED BY <1>6, <1>7, <1>8, <1>9 DEF IInv

----------------------------------------------------------------------------
(* The theorems *)

LEMMA NextIInv == IInv /\ [Next]_vars => IInv'
<1> SUFFICES ASSUME IInv, [Next]_vars PROVE IInv'
  OBVIOUS
<1>1. CASE \E m \in Machine : \E d \in Machine \cup {OtherMac, Broadcast} : Send(m, d)
  BY <1>1, SendIInv
<1>2. CASE \E m \in Machine : SendStep(m)
  BY <1>2, SendToIInv, GiveUpIInv DEF SendStep
<1>3. CASE \E m \in Machine : Poll(m)
  BY <1>3, PollIInv
<1>4. CASE \E m \in Machine : ReceiveStep(m)
  BY <1>4, PktWaitIInv, PktReceiveIInv DEF ReceiveStep
<1>5. CASE \E m \in Machine : Halt(m)
  BY <1>5, HaltIInv
<1>6. CASE \E m \in Machine : Boot(m)
  BY <1>6, BootIInv
<1>7. CASE SwitchStep
  BY <1>7, SelectIInv, RecvIInv, ForwardIInv DEF SwitchStep
<1>8. CASE SwitchStop
  BY <1>8, SwitchStopIInv
<1>9. CASE SwitchStart
  BY <1>9, SwitchStartIInv
<1>10. CASE UNCHANGED vars
  <2>1. UNCHANGED <<up, sent, tx, current_packet, messageAvailable, pktTaken, messages, switchUp,
                    switchMap, connected, ready, fwdFrame, fwdPorts, toSwitch, toMachine, restarts>>
    BY <1>10 DEF vars, machineVars, switchVars
  <2>2. LearnedRight'
    BY Zenon, <2>1 DEF IInv, LearnedRight, TypeOK
  <2>3. Own' /\ SwitchReady' /\ CardReady' /\ NewestKept'
    BY Zenon, <2>1 DEF IInv, Own, SwitchReady, CardReady, NewestKept
  <2>4. Pipelines'
    BY <2>1, StillPipelines
  <2> QED BY <2>2, <2>3, <2>4 DEF IInv
<1> QED BY Zenon, <1>1, <1>2, <1>3, <1>4, <1>5, <1>6, <1>7, <1>8, <1>9, <1>10 DEF Next

\* Every step of the machines, the switch and the operating system keeps the invariant.
THEOREM LinkInvariant == Spec => []IInv
BY InitIInv, NextIInv, PTL DEF Spec

\* The link delivers in order for any number of machines: between the sendto of
\* Ethernet_Layer::Send and the list pktrecv appends to, no frame overtakes another
\* of its sender, whatever is flooded, lost, read twice or restarted.
THEOREM FramesInOrder == Spec => []InOrder
<1>1. IInv => InOrder
  <2> SUFFICES ASSUME IInv, NEW m \in Machine, Pipeline(m)
               PROVE  /\ \A f \in Range(messages[m]) : f.dst = m /\ f.id <= sent[f.src]
                      /\ \A i, j \in DOMAIN messages[m] :
                           i < j /\ messages[m][i].src = messages[m][j].src =>
                             messages[m][i].id <= messages[m][j].id
    BY Zenon DEF IInv, Pipelines, InOrder
  <2> QED BY Zenon DEF Pipeline, OnTheWay, Passed, Sorted
<1> QED BY <1>1, LinkInvariant, PTL

\* The switch's table names for an address only the port of the machine that has it,
\* and no machine gets its own frame back, also after the switch or a machine restarts.
THEOREM SwitchLearnsRight == Spec => []LearnedRight
<1>1. IInv => LearnedRight
  BY DEF IInv
<1> QED BY <1>1, LinkInvariant, PTL

\* NetworkInput::CallBack may overwrite a packet that pktrecv has not read, but when
\* the semaphore is used up the newest packet has been passed on.
THEOREM NewestPacketKept == Spec => []NewestKept
<1>1. IInv => NewestKept
  BY DEF IInv
<1> QED BY <1>1, LinkInvariant, PTL
=============================================================================
