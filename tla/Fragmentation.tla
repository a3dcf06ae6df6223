--------------------------- MODULE Fragmentation ---------------------------
(***************************************************************************)
(* The pure part of IP_Layer and UDP_Layer (network/post.cc, post.h): how  *)
(* a datagram is cut into fragments, the key that names a datagram at the  *)
(* receiver, the insertion of a fragment into the sorted vector of its     *)
(* datagram, and the test whether that vector is complete.  Header fields  *)
(* keep their width.                                                       *)
(***************************************************************************)
EXTENDS Naturals, Sequences, SequencesExt

PayloadSize == 1480      \* ip_payload_size
UdpHeaderSize == 8
MaxUdpSize == UdpHeaderSize + 2^16   \* UDP_Datagram, whose data has 65536 bytes

\* ippool; a machine's number is its index.
ippool ==
  [m \in 0 .. 9 |->
    << <<229, 174, 50, 24>>, <<174, 50, 24, 217>>, <<62, 50, 24, 217>>,
       <<174, 52, 24, 217>>, <<169, 50, 24, 217>>, <<174, 50, 88, 217>>,
       <<174, 50, 24, 169>>, <<174, 50, 40, 217>>, <<174, 102, 24, 217>>,
       <<174, 50, 153, 217>> >>[m + 1]]

----------------------------------------------------------------------------
(* Sending *)

\* The length field of UDP_Datagram, an unsigned short.
UdpLength(size) == (size + UdpHeaderSize) % 2^16

\* ceil(size / ip_payload_size)
NumFragments(size) == (size + PayloadSize - 1) \div PayloadSize

\* The header of fragment i, with the 13 bits of fragmentOffset, and the number
\* of bytes memcpy puts into its payload.
FragmentOf(size, i) ==
  [fragmentOffset |-> ((i * PayloadSize) \div 8) % 2^13,
   MF             |-> i < NumFragments(size) - 1,
   bytes          |-> Min({size - i * PayloadSize, PayloadSize})]

----------------------------------------------------------------------------
(* Receiving *)

\* Mutant: the key leaves the identification out.
computeHashOfIPs(srcIP, destIP, identification) ==
  <<[i \in 1 .. 4 |-> (srcIP[i] + destIP[i]) % 256], 0>>

\* IP_Layer::computeHash: four characters and the decimal identification.
computeHash(srcIP, destIP, identification) ==
  <<[i \in 1 .. 4 |-> (srcIP[i] + destIP[i]) % 256], identification>>

\* Mutant: fragments stay in the order they come.
insertAtEnd(v, f) == Append(v, f)

\* IP_Layer::insertToMap on the vector v of the fragment's key, empty when the
\* key is new: before the first fragment with a larger offset.
insertToMap(v, f) ==
  LET i == SelectInSeq(v, LAMBDA g : g.fragmentOffset > f.fragmentOffset)
  IN IF i = 0 THEN Append(v, f) ELSE InsertAt(v, i, f)

\* Mutant: only the last fragment is looked at.
checkLast(v) == ~ Last(v).MF

\* Mutant: offsets are counted from 1.
checkFromOne(v) ==
  /\ \A i \in DOMAIN v : v[i].fragmentOffset = i * 185
  /\ ~ Last(v).MF

\* IP_Layer::check: no offset is missing or repeated, and the last fragment is
\* the last one of the datagram.
check(v) ==
  /\ \A i \in DOMAIN v : v[i].fragmentOffset = (i - 1) * 185
  /\ ~ Last(v).MF
=============================================================================
