--------------------------- MODULE IPLayerProofs ---------------------------
(***************************************************************************)
(* Proofs, for any threads and machines that send, any datagrams, losses,  *)
(* repeated fragments and restarts, of the invariants of module IPLayer.   *)
(***************************************************************************)
EXTENDS IPLayer, LibraryLemmas

----------------------------------------------------------------------------
(* The inductive invariant *)

Datagram == [src : Sender, id : Nat, size : Size]

\* The key in fragmentDict of a fragment or a datagram.
KeyOf(f) == computeHash(ippool[f.src], ippool[Receiver], f.id)

\* Of the datagrams ds that were sent: two with one key; one that has its key to
\* itself; all payloads of one; a payload of one.
Same(d, e, ds) == ds[d].src = ds[e].src /\ ds[d].id = ds[e].id
Unique(d, ds) == \A e \in DOMAIN ds : Same(d, e, ds) => e = d
Count(d, ds) == NumFragments(ds[d].size)
All(d, ds) == [i \in 1 .. Count(d, ds) |-> <<d, i - 1>>]
Piece(p, ds) == p[1] \in DOMAIN ds /\ p[2] \in 0 .. Count(p[1], ds) - 1

\* A fragment as IP_Layer::Send makes it.
Genuine(f, ds) ==
  LET d == f.payload[1]
      i == f.payload[2]
  IN /\ Piece(f.payload, ds)
     /\ f.src = ds[d].src /\ f.id = ds[d].id
     /\ f.fragmentOffset = i * 185
     /\ f.MF <=> i < Count(d, ds) - 1

Sorted(v) == \A i, j \in DOMAIN v : i < j => v[i].fragmentOffset <= v[j].fragmentOffset

\* A vector of fragmentDict under the key k.
Entry(v, k, ds) ==
  /\ v # <<>> /\ Sorted(v) /\ ~ check(v)
  /\ \A i \in DOMAIN v : Genuine(v[i], ds) /\ KeyOf(v[i]) = k

\* What may be given to UDP_Layer::Receive.
Deliverable(v, ds) ==
  LET d == v[1][1]
  IN /\ v # <<>>
     /\ \A k \in DOMAIN v : Piece(v[k], ds) /\ v[k][2] = k - 1 /\ Same(v[k][1], d, ds)
     /\ Unique(d, ds) => v = All(d, ds)

\* A datagram is sent by one thread, fragment by fragment.
Sendings ==
  /\ \A t \in Thread : sending[t] # 0 =>
       Host[t] = datagrams[sending[t]].src /\ next[t] < Count(sending[t], datagrams)
  /\ \A t, u \in Thread : sending[t] = sending[u] /\ sending[t] # 0 => t = u

\* No fragment is made twice.
OnWire ==
  /\ \A i \in DOMAIN wire : Genuine(wire[i], datagrams)
  /\ \A i, j \in DOMAIN wire : wire[i].payload = wire[j].payload => i = j
  /\ \A i \in DOMAIN wire : wire[i].payload \in received => wire[i].payload \in repeated

\* What was received or is on the wire has been sent.
Sent ==
  LET seen == received \cup {wire[i].payload : i \in DOMAIN wire}
  IN \A p \in seen :
       Piece(p, datagrams) /\ \A t \in Thread : sending[t] = p[1] => p[2] < next[t]

Entries ==
  \A k \in DOMAIN fragmentDict :
    LET v == fragmentDict[k]
    IN /\ Entry(v, k, datagrams)
       /\ \A i \in DOMAIN v : v[i].payload \in received

Deliveries ==
  \A n \in DOMAIN delivered :
    Deliverable(delivered[n], datagrams) /\ Range(delivered[n]) \subseteq received

\* A fragment that was not received twice is in one place of one vector.
Once ==
  /\ \A k \in DOMAIN fragmentDict :
       LET v == fragmentDict[k]
       IN /\ \A i, j \in DOMAIN v : v[i].payload = v[j].payload => i = j \/ v[i].payload \in repeated
          /\ \A i \in DOMAIN v, n \in DOMAIN delivered :
               v[i].payload \in Range(delivered[n]) => v[i].payload \in repeated
  /\ \A m, n \in DOMAIN delivered : m # n => Range(delivered[m]) \cap Range(delivered[n]) \subseteq repeated

\* A fragment of a clean datagram is kept until the datagram is delivered.
Holds(p, dict, ds) ==
  LET k == KeyOf(ds[p[1]])
  IN k \in DOMAIN dict /\ \E i \in DOMAIN dict[k] : dict[k][i].payload = p

Kept ==
  \A p \in received :
    Unique(p[1], datagrams) /\ (\A r \in repeated : r[1] # p[1]) =>
      All(p[1], datagrams) \in Range(delivered) \/ Holds(p, fragmentDict, datagrams)

IInv == TypeOK /\ Sendings /\ OnWire /\ Sent /\ Entries /\ Deliveries /\ Once /\ Kept
----------------------------------------------------------------------------
(* Fragments, keys and vectors *)

\* A datagram has at most 45 fragments, so that the 13 bits of fragmentOffset suffice.
LEMMA Offsets ==
  ASSUME NEW size \in Size
  PROVE  /\ NumFragments(size) \in 1 .. 45
         /\ \A i \in 0 .. NumFragments(size) - 1 :
              FragmentOf(size, i).fragmentOffset = i * 185 /\ i * 185 \in 0 .. 2^13 - 1
<1>1. size \in 8 .. 2^16 + 8
  <2>1. Size \subseteq UdpHeaderSize .. MaxUdpSize
    BY Zenon, IPAssumption
  <2>2. UdpHeaderSize = 8 /\ MaxUdpSize = 2^16 + 8
    BY DEF MaxUdpSize, UdpHeaderSize
  <2> QED BY Zenon, <2>1, <2>2
<1>2. NumFragments(size) \in 1 .. 45
  <2>1. size \in Int /\ size >= 8 /\ size <= 2^16 + 8
    BY <1>1
  <2>2. size + PayloadSize - 1 = size + 1479 /\ PayloadSize = 1480
    BY <2>1 DEF PayloadSize
  <2>3. (size + 1479) \div 1480 \in Int
    BY <2>1
  <2>4. (size + 1479) \div 1480 <= 45
    BY <2>1
  <2>5. (size + 1479) \div 1480 >= 1
    BY <2>1
  <2> QED BY <2>2, <2>3, <2>4, <2>5 DEF NumFragments
<1>3. ASSUME NEW i \in 0 .. NumFragments(size) - 1
      PROVE  FragmentOf(size, i).fragmentOffset = i * 185 /\ i * 185 \in 0 .. 2^13 - 1
  <2>1. i \in 0 .. 44
    BY <1>2
  <2>2. i * 1480 = 8 * (i * 185) /\ i * 185 \in 0 .. 2^13 - 1
    BY <2>1
  <2>3. \A x \in Nat : (8 * x) \div 8 = x
    OBVIOUS
  <2>4. (i * 1480) \div 8 = i * 185
    BY <2>2, <2>3
  <2>5. (i * 185) % 2^13 = i * 185
    BY <2>2
  <2> QED BY <2>2, <2>4, <2>5 DEF FragmentOf, PayloadSize
<1> QED BY <1>2, <1>3

\* Bytes, and their sum as computeHash stores it in an unsigned char.
Byte == 0 .. 255
PlusByte(x, z) == (x + z) % 256

\* The sum wraps once at most.
LEMMA WrapsOnce ==
  ASSUME NEW a \in Byte, NEW b \in Byte
  PROVE  PlusByte(a, b) = a + b \/ PlusByte(a, b) = (a + b) - 256
<1> DEFINE s == a + b
<1>1. s \in 0 .. 510
  BY DEF Byte
<1>2. PlusByte(a, b) = s % 256
  BY DEF PlusByte
<1> HIDE DEF s
<1>3. s % 256 = s \/ s % 256 = s - 256
  BY <1>1
<1>4. PlusByte(a, b) = s \/ PlusByte(a, b) = s - 256
  BY Zenon, <1>2, <1>3
<1> QED BY Zenon, <1>4 DEF s

\* Adding a byte loses nothing when it is known.
LEMMA ByteSum ==
  ASSUME NEW x \in Byte, NEW y \in Byte, NEW z \in Byte, PlusByte(x, z) = PlusByte(y, z)
  PROVE  x = y
<1> DEFINE p == PlusByte(x, z)
<1>1. p = x + z \/ p = (x + z) - 256
  BY WrapsOnce
<1>2. PlusByte(y, z) = y + z \/ PlusByte(y, z) = (y + z) - 256
  BY WrapsOnce
<1>3. p = y + z \/ p = (y + z) - 256
  BY Zenon, <1>2
<1> HIDE DEF p
<1> QED BY <1>1, <1>3 DEF Byte

\* The addresses of the machines are bytes, and no two machines have the same.
LEMMA Pool ==
  /\ \A m \in 0 .. 9 : \A i \in 1 .. 4 : ippool[m][i] \in Byte
  /\ \A m, n \in 0 .. 9 : (\A i \in 1 .. 4 : ippool[m][i] = ippool[n][i]) => m = n
<1>1. /\ ippool[0] = <<229, 174, 50, 24>> /\ ippool[1] = <<174, 50, 24, 217>>
      /\ ippool[2] = <<62, 50, 24, 217>> /\ ippool[3] = <<174, 52, 24, 217>>
      /\ ippool[4] = <<169, 50, 24, 217>> /\ ippool[5] = <<174, 50, 88, 217>>
      /\ ippool[6] = <<174, 50, 24, 169>> /\ ippool[7] = <<174, 50, 40, 217>>
      /\ ippool[8] = <<174, 102, 24, 217>> /\ ippool[9] = <<174, 50, 153, 217>>
  BY DEF ippool
<1>2. \A m \in 0 .. 9 : \/ m = 0 \/ m = 1 \/ m = 2 \/ m = 3 \/ m = 4
                         \/ m = 5 \/ m = 6 \/ m = 7 \/ m = 8 \/ m = 9
  OBVIOUS
<1>3. \A m \in 0 .. 9 : \A i \in 1 .. 4 : ippool[m][i] \in Byte
  <2>1. /\ ippool[0][1] \in Byte /\ ippool[1][1] \in Byte /\ ippool[2][1] \in Byte /\ ippool[3][1] \in Byte
        /\ ippool[4][1] \in Byte /\ ippool[5][1] \in Byte /\ ippool[6][1] \in Byte /\ ippool[7][1] \in Byte
        /\ ippool[8][1] \in Byte /\ ippool[9][1] \in Byte
    BY <1>1 DEF Byte
  <2>2. /\ ippool[0][2] \in Byte /\ ippool[1][2] \in Byte /\ ippool[2][2] \in Byte /\ ippool[3][2] \in Byte
        /\ ippool[4][2] \in Byte /\ ippool[5][2] \in Byte /\ ippool[6][2] \in Byte /\ ippool[7][2] \in Byte
        /\ ippool[8][2] \in Byte /\ ippool[9][2] \in Byte
    BY <1>1 DEF Byte
  <2>3. /\ ippool[0][3] \in Byte /\ ippool[1][3] \in Byte /\ ippool[2][3] \in Byte /\ ippool[3][3] \in Byte
        /\ ippool[4][3] \in Byte /\ ippool[5][3] \in Byte /\ ippool[6][3] \in Byte /\ ippool[7][3] \in Byte
        /\ ippool[8][3] \in Byte /\ ippool[9][3] \in Byte
    BY <1>1 DEF Byte
  <2>4. /\ ippool[0][4] \in Byte /\ ippool[1][4] \in Byte /\ ippool[2][4] \in Byte /\ ippool[3][4] \in Byte
        /\ ippool[4][4] \in Byte /\ ippool[5][4] \in Byte /\ ippool[6][4] \in Byte /\ ippool[7][4] \in Byte
        /\ ippool[8][4] \in Byte /\ ippool[9][4] \in Byte
    BY <1>1 DEF Byte
  <2>5. \A i \in 1 .. 4 : i = 1 \/ i = 2 \/ i = 3 \/ i = 4
    OBVIOUS
  <2>6. \A m \in 0 .. 9 : ippool[m][1] \in Byte /\ ippool[m][2] \in Byte
                          /\ ippool[m][3] \in Byte /\ ippool[m][4] \in Byte
    BY Zenon, <1>2, <2>1, <2>2, <2>3, <2>4
  <2> QED BY Zenon, <2>5, <2>6
<1>4. ASSUME NEW m \in 0 .. 9, NEW n \in 0 .. 9, \A i \in 1 .. 4 : ippool[m][i] = ippool[n][i]
      PROVE  m = n
  BY <1>1, <1>2, <1>4
<1> QED BY Zenon, <1>3, <1>4

\* computeHash tells the machines and identifications apart.
LEMMA KeysDiffer ==
  ASSUME NEW f, NEW g, f.src \in 0 .. 9, g.src \in 0 .. 9, KeyOf(f) = KeyOf(g)
  PROVE  f.src = g.src /\ f.id = g.id
<1> DEFINE a == ippool[f.src]
           b == ippool[g.src]
           r == ippool[Receiver]
<1>1. /\ [i \in 1 .. 4 |-> PlusByte(a[i], r[i])] = [i \in 1 .. 4 |-> PlusByte(b[i], r[i])]
      /\ f.id = g.id
  <2> DEFINE A == [i \in 1 .. 4 |-> PlusByte(a[i], r[i])]
             B == [i \in 1 .. 4 |-> PlusByte(b[i], r[i])]
  <2>1. computeHash(a, r, f.id) = computeHash(b, r, g.id)
    BY Zenon DEF KeyOf
  <2>2. <<A, f.id>> = <<B, g.id>>
    BY Zenon, <2>1 DEF computeHash, PlusByte
  <2> HIDE DEF A, B
  <2>3. A = B /\ f.id = g.id
    BY <2>2
  <2> QED BY <2>3 DEF A, B
<1>2. \A i \in 1 .. 4 : a[i] \in Byte /\ b[i] \in Byte /\ r[i] \in Byte
  <2>1. Receiver \in 0 .. 9
    BY Zenon, IPAssumption
  <2> QED BY Zenon, <2>1, Pool
<1> HIDE DEF a, b, r
<1>3. \A i \in 1 .. 4 : PlusByte(a[i], r[i]) = PlusByte(b[i], r[i])
  BY <1>1
<1>4. \A i \in 1 .. 4 : a[i] = b[i]
  <2> TAKE i \in 1 .. 4
  <2>1. a[i] \in Byte /\ b[i] \in Byte /\ r[i] \in Byte /\ PlusByte(a[i], r[i]) = PlusByte(b[i], r[i])
    BY Zenon, <1>2, <1>3
  <2> QED BY Zenon, <2>1, ByteSum
<1> QED BY Zenon, <1>1, <1>4, Pool DEF a, b

\* Inserting an element into a sequence.
LEMMA InsertElement ==
  ASSUME NEW S, NEW v \in Seq(S), NEW p \in 1 .. Len(v), NEW e \in S
  PROVE  LET w == InsertAt(v, p, e)
         IN /\ w \in Seq(S) /\ Len(w) = Len(v) + 1
            /\ w[p] = e
            /\ \A i \in 1 .. p - 1 : w[i] = v[i]
            /\ \A i \in p + 1 .. Len(v) + 1 : w[i] = v[i - 1]
<1> DEFINE n == Len(v)
           a == SubSeq(v, 1, p - 1)
           b == SubSeq(v, p, n)
           c == a \o <<e>>
<1>1. n \in Nat /\ \A i \in 1 .. n : v[i] \in S
  BY LenProperties, ElementOfSeq
<1>2. /\ a \in Seq(S) /\ Len(a) = p - 1
      /\ \A i \in 1 .. p - 1 : a[i] = v[i]
  <2>1. 1 \in Int /\ p - 1 \in Int /\ \A i \in 1 .. p - 1 : v[i] \in S
    BY <1>1
  <2>2. /\ a \in Seq(S)
        /\ Len(a) = IF 1 <= p - 1 THEN p - 1 - 1 + 1 ELSE 0
        /\ \A i \in 1 .. p - 1 - 1 + 1 : a[i] = v[1 + i - 1]
    BY <2>1, SubSeqProperties
  <2> HIDE DEF a
  <2>3. p - 1 - 1 + 1 = p - 1 /\ \A i \in 1 .. p - 1 : 1 + i - 1 = i
    BY <1>1
  <2> QED BY <1>1, <2>2, <2>3
<1>3. /\ b \in Seq(S) /\ Len(b) = n - p + 1
      /\ \A i \in 1 .. n - p + 1 : b[i] = v[p + i - 1]
  <2>1. p \in Int /\ n \in Int /\ \A i \in p .. n : v[i] \in S
    BY <1>1
  <2>2. /\ b \in Seq(S)
        /\ Len(b) = IF p <= n THEN n - p + 1 ELSE 0
        /\ \A i \in 1 .. n - p + 1 : b[i] = v[p + i - 1]
    BY <2>1, SubSeqProperties
  <2> HIDE DEF b
  <2> QED BY <1>1, <2>2
<1> HIDE DEF a, b
<1>4. /\ c \in Seq(S) /\ Len(c) = p
      /\ c[p] = e /\ \A i \in 1 .. p - 1 : c[i] = v[i]
  <2>1. <<e>> \in Seq(S) /\ Len(<<e>>) = 1 /\ <<e>>[1] = e
    OBVIOUS
  <2>2. /\ c \in Seq(S) /\ Len(c) = Len(a) + 1
        /\ \A i \in 1 .. Len(a) + 1 : c[i] = IF i <= Len(a) THEN a[i] ELSE <<e>>[i - Len(a)]
    BY <1>2, <2>1, ConcatProperties
  <2> HIDE DEF c
  <2>3. p - (p - 1) = 1 /\ p \in 1 .. Len(a) + 1 /\ ~ (p <= Len(a))
    BY <1>1, <1>2
  <2>4. c[p] = e
    BY <1>2, <2>1, <2>2, <2>3
  <2> QED BY <1>1, <1>2, <2>2, <2>4
<1> DEFINE w == c \o b
<1>5. /\ w \in Seq(S) /\ Len(w) = p + (n - p + 1)
      /\ \A i \in 1 .. p + (n - p + 1) : w[i] = IF i <= p THEN c[i] ELSE b[i - p]
  <2> HIDE DEF c
  <2>1. /\ w \in Seq(S) /\ Len(w) = Len(c) + Len(b)
        /\ \A i \in 1 .. Len(c) + Len(b) : w[i] = IF i <= Len(c) THEN c[i] ELSE b[i - Len(c)]
    BY Zenon, <1>3, <1>4, ConcatProperties
  <2> QED BY <1>3, <1>4, <2>1
<1>6. w = InsertAt(v, p, e)
  BY DEF InsertAt, a, b
<1> HIDE DEF c, w
<1>7. p + (n - p + 1) = n + 1
  BY <1>1
<1>8. \A i \in 1 .. p : w[i] = c[i]
  BY <1>1, <1>5, <1>7
<1>9. ASSUME NEW i \in p + 1 .. n + 1 PROVE w[i] = v[i - 1]
  <2>1. i \in 1 .. n + 1 /\ ~ (i <= p) /\ i - p \in 1 .. n - p + 1 /\ p + (i - p) - 1 = i - 1
    BY <1>1
  <2>2. w[i] = b[i - p]
    BY <1>5, <1>7, <2>1
  <2>3. b[i - p] = v[p + (i - p) - 1]
    BY <1>3, <2>1
  <2> QED BY <2>1, <2>2, <2>3
<1>10. w[p] = e /\ \A i \in 1 .. p - 1 : w[i] = v[i]
  BY <1>1, <1>4, <1>8
<1> QED BY <1>5, <1>6, <1>7, <1>9, <1>10

\* insertToMap puts the fragment somewhere between the others, where it belongs.
LEMMA InsertFragment ==
  ASSUME NEW v \in Seq(Fragment), NEW f \in Fragment
  PROVE  LET w == insertToMap(v, f)
         IN /\ w \in Seq(Fragment) /\ Len(w) = Len(v) + 1
            /\ \E p \in 1 .. Len(v) + 1 :
                 /\ w[p] = f
                 /\ \A i \in 1 .. p - 1 : w[i] = v[i]
                 /\ \A i \in p + 1 .. Len(v) + 1 : w[i] = v[i - 1]
            /\ Sorted(v) => Sorted(w)
<1> DEFINE n == Len(v)
           I == {i \in 1 .. n : v[i].fragmentOffset > f.fragmentOffset}
           w == insertToMap(v, f)
           First(p) == /\ p \in 1 .. n + 1
                       /\ \A i \in 1 .. p - 1 : ~ (v[i].fragmentOffset > f.fragmentOffset)
                       /\ p # n + 1 => v[p].fragmentOffset > f.fragmentOffset
           Placed(p) == /\ w \in Seq(Fragment) /\ Len(w) = n + 1 /\ w[p] = f
                        /\ \A i \in 1 .. p - 1 : w[i] = v[i]
                        /\ \A i \in p + 1 .. n + 1 : w[i] = v[i - 1]
<1>1. /\ n \in Nat /\ DOMAIN v = 1 .. n
      /\ \A i \in 1 .. n : v[i].fragmentOffset \in Nat
      /\ f.fragmentOffset \in Nat
  <2>1. n \in Nat /\ DOMAIN v = 1 .. n /\ \A i \in 1 .. n : v[i] \in Fragment
    BY LenProperties, ElementOfSeq
  <2>2. \A g \in Fragment : g.fragmentOffset \in 0 .. 2^13 - 1
    BY Zenon DEF Fragment
  <2> QED BY <2>1, <2>2
<1>2. I \subseteq 1 .. n /\ (I # {} => Min(I) \in I /\ \A i \in I : Min(I) <= i)
  <2>1. I \subseteq 1 .. n /\ I \subseteq Nat
    BY <1>1
  <2> QED BY Zenon, <2>1, MinOfNaturals
<1>3. w = IF I = {} THEN Append(v, f) ELSE InsertAt(v, Min(I), f)
  <2>1. SelectInSeq(v, LAMBDA g : g.fragmentOffset > f.fragmentOffset) = IF I # {} THEN Min(I) ELSE 0
    BY DEF SelectInSeq
  <2>2. I # {} => Min(I) # 0
    BY <1>1, <1>2
  <2> QED BY <2>1, <2>2 DEF insertToMap
<1>4. \E p \in 1 .. n + 1 : First(p) /\ Placed(p)
  <2>1. CASE I = {}
    <3>1. w = Append(v, f)
      BY <1>3, <2>1
    <3>2. Placed(n + 1)
      BY <1>1, <3>1, AppendProperties
    <3>3. First(n + 1)
      BY <1>1, <2>1
    <3> QED BY <1>1, <3>2, <3>3
  <2>2. CASE I # {}
    <3>1. Min(I) \in I /\ Min(I) \in 1 .. n /\ \A i \in I : Min(I) <= i
      BY <1>2, <2>2
    <3>2. w = InsertAt(v, Min(I), f)
      BY <1>3, <2>2
    <3>3. Placed(Min(I))
      <4> DEFINE m == Min(I)
                 x == InsertAt(v, m, f)
      <4>1. m \in 1 .. Len(v) /\ w = x
        BY <3>1, <3>2
      <4> HIDE DEF m
      <4>2. /\ x \in Seq(Fragment) /\ Len(x) = Len(v) + 1
            /\ x[m] = f
            /\ \A i \in 1 .. m - 1 : x[i] = v[i]
            /\ \A i \in m + 1 .. Len(v) + 1 : x[i] = v[i - 1]
        BY <4>1, InsertElement
      <4> QED BY Zenon, <4>1, <4>2 DEF m
    <3>4. First(Min(I))
      <4>1. \A i \in 1 .. Min(I) - 1 : i \in 1 .. n /\ ~ (Min(I) <= i)
        BY <1>1, <3>1
      <4> QED BY <1>1, <3>1, <4>1
    <3> QED BY Zenon, <1>1, <3>1, <3>3, <3>4
  <2> QED BY <2>1, <2>2
<1> HIDE DEF w, I
<1>5. PICK p \in 1 .. n + 1 : First(p) /\ Placed(p)
  BY <1>4
<1>6. ASSUME Sorted(v) PROVE Sorted(w)
  <2>1. DOMAIN w = 1 .. n + 1
    BY <1>5, LenProperties
  <2> SUFFICES ASSUME NEW i \in 1 .. n + 1, NEW j \in 1 .. n + 1, i < j
               PROVE  w[i].fragmentOffset <= w[j].fragmentOffset
    BY <2>1 DEF Sorted
  <2>2. \A x, y \in 1 .. n : x < y => v[x].fragmentOffset <= v[y].fragmentOffset
    BY <1>1, <1>6 DEF Sorted
  <2>3. p # n + 1 => \A y \in p .. n : f.fragmentOffset <= v[y].fragmentOffset
    <3> SUFFICES ASSUME p # n + 1, NEW y \in p .. n PROVE f.fragmentOffset <= v[y].fragmentOffset
      OBVIOUS
    <3>1. p \in 1 .. n /\ y \in 1 .. n /\ (p = y \/ p < y)
      BY <1>1
    <3>2. v[p].fragmentOffset > f.fragmentOffset /\ v[p].fragmentOffset <= v[y].fragmentOffset
      BY <1>1, <1>5, <2>2, <3>1
    <3> QED BY <1>1, <3>1, <3>2
  <2>4. CASE i < p /\ j < p
    <3>1. i \in 1 .. p - 1 /\ j \in 1 .. p - 1 /\ i \in 1 .. n /\ j \in 1 .. n
      BY <1>1, <2>4
    <3> QED BY <1>5, <2>2, <3>1
  <2>5. CASE i < p /\ j = p
    <3>1. i \in 1 .. p - 1 /\ i \in 1 .. n
      BY <1>1, <2>5
    <3> QED BY <1>1, <1>5, <2>5, <3>1
  <2>6. CASE i < p /\ j > p
    <3>1. i \in 1 .. p - 1 /\ i \in 1 .. n /\ j \in p + 1 .. n + 1 /\ j - 1 \in 1 .. n /\ i < j - 1
      BY <1>1, <2>6
    <3> QED BY <1>5, <2>2, <3>1
  <2>7. CASE i = p /\ j > p
    <3>1. j \in p + 1 .. n + 1 /\ j - 1 \in p .. n /\ p # n + 1
      BY <1>1, <2>7
    <3> QED BY <1>5, <2>3, <2>7, <3>1
  <2>8. CASE i > p /\ j > p
    <3>1. /\ i \in p + 1 .. n + 1 /\ j \in p + 1 .. n + 1
          /\ i - 1 \in 1 .. n /\ j - 1 \in 1 .. n /\ i - 1 < j - 1
      BY <1>1, <2>8
    <3> QED BY Zenon, <1>5, <2>2, <3>1
  <2> QED BY <1>1, <2>4, <2>5, <2>6, <2>7, <2>8
<1> QED BY <1>5, <1>6 DEF w

Rising(w, l) == \A i, j \in 1 .. l : i < j => w[i] < w[j]
Onto(w, l, n) == \A x \in 0 .. n - 1 : \E i \in 1 .. l : w[i] = x

\* A rising sequence of all numbers below n has them in their places.
LEMMA Staircase ==
  \A n, l \in Nat : \A w \in [1 .. l -> 0 .. n - 1] :
    Rising(w, l) /\ Onto(w, l, n) => l = n /\ \A i \in 1 .. l : w[i] = i - 1
<1> TAKE n, l \in Nat
<1> TAKE w \in [1 .. l -> 0 .. n - 1]
<1> HAVE Rising(w, l) /\ Onto(w, l, n)
<1> DEFINE Bad == {i \in 1 .. l : w[i] # i - 1}
<1>1. Bad = {}
  <2> SUFFICES ASSUME Bad # {} PROVE FALSE
    OBVIOUS
  <2>1. Bad \subseteq Nat
    OBVIOUS
  <2>2. PICK i \in Bad : \A y \in Bad : i <= y
    BY Zenon, <2>1, LeastNatural
  <2>3. i \in 1 .. l /\ w[i] # i - 1 /\ w[i] \in 0 .. n - 1
    BY <2>2
  <2>4. \A j \in 1 .. i - 1 : w[j] = j - 1
    BY <2>2, <2>3
  <2>5. ~ (w[i] < i - 1)
    <3> SUFFICES ASSUME w[i] < i - 1 PROVE FALSE
      OBVIOUS
    <3> DEFINE x == w[i]
    <3>x. x = w[i] /\ x \in Nat /\ x < i - 1
      BY <2>3
    <3> HIDE DEF x
    <3>0. i \in Nat /\ i <= l
      BY <2>3
    <3>1. x + 1 \in 1 .. i - 1 /\ x + 1 \in 1 .. l /\ x + 1 < i
      BY <3>0, <3>x
    <3>2. w[x + 1] = x
      BY <2>4, <3>1, <3>x
    <3>3. w[x + 1] < w[i]
      BY <2>3, <3>1 DEF Rising
    <3> QED BY <3>2, <3>3, <3>x
  <2>6. i - 1 \in 0 .. n - 1
    BY <2>3, <2>5
  <2>7. PICK j \in 1 .. l : w[j] = i - 1
    BY <2>6 DEF Onto
  <2>8. j \notin 1 .. i - 1
    <3> SUFFICES ASSUME j \in 1 .. i - 1 PROVE FALSE
      OBVIOUS
    <3>1. w[j] = j - 1
      BY <2>4
    <3> QED BY <2>3, <2>7, <3>1
  <2>9. j # i /\ i < j
    BY <2>3, <2>7, <2>8
  <2>10. w[i] < w[j]
    BY <2>3, <2>9 DEF Rising
  <2> QED BY <2>3, <2>5, <2>7, <2>10
<1>2. \A i \in 1 .. l : w[i] = i - 1
  BY Zenon, <1>1
<1>3. l <= n
  <2> SUFFICES ASSUME l > n PROVE FALSE
    OBVIOUS
  <2>1. l \in 1 .. l /\ w[l] \in 0 .. n - 1
    OBVIOUS
  <2> QED BY <1>2, <2>1
<1>4. n <= l
  <2> SUFFICES ASSUME n > l PROVE FALSE
    OBVIOUS
  <2>1. n - 1 \in 0 .. n - 1
    OBVIOUS
  <2>2. PICK i \in 1 .. l : w[i] = n - 1
    BY <2>1 DEF Onto
  <2> QED BY <1>2, <2>2
<1> QED BY <1>2, <1>3, <1>4

\* The datagrams and fragments of one sequence of datagrams.
LEMMA DatagramTypes ==
  ASSUME NEW ds \in Seq(Datagram)
  PROVE  /\ DOMAIN ds = 1 .. Len(ds) /\ Len(ds) \in Nat
         /\ \A d \in DOMAIN ds : ds[d].src \in 0 .. 9 /\ Count(d, ds) \in 1 .. 45
<1>1. DOMAIN ds = 1 .. Len(ds) /\ Len(ds) \in Nat /\ \A d \in 1 .. Len(ds) : ds[d] \in Datagram
  BY LenProperties, ElementOfSeq
<1>2. \A x \in Datagram : x.src \in Sender /\ x.size \in Size
  BY Zenon DEF Datagram
<1>3. Sender \subseteq 0 .. 9
  <2>1. Host \in [Thread -> 0 .. 9]
    BY Zenon, IPAssumption
  <2> QED BY Zenon, <2>1 DEF Sender, Range
<1>4. ASSUME NEW d \in DOMAIN ds PROVE ds[d].src \in 0 .. 9 /\ Count(d, ds) \in 1 .. 45
  <2>1. ds[d].src \in Sender /\ ds[d].size \in Size
    BY Zenon, <1>1, <1>2
  <2> QED BY Zenon, <1>3, <2>1, Offsets DEF Count
<1> QED BY Zenon, <1>1, <1>4

LEMMA FragmentTypes ==
  ASSUME NEW v \in Seq(Fragment)
  PROVE  /\ DOMAIN v = 1 .. Len(v) /\ Len(v) \in Nat
         /\ \A i \in DOMAIN v : /\ v[i] \in Fragment /\ v[i].payload \in Nat \X Nat
                                /\ v[i].MF \in BOOLEAN /\ v[i].src \in Sender
<1>1. DOMAIN v = 1 .. Len(v) /\ Len(v) \in Nat /\ \A i \in 1 .. Len(v) : v[i] \in Fragment
  BY LenProperties, ElementOfSeq
<1>2. \A f \in Fragment : f.payload \in Nat \X Nat /\ f.MF \in BOOLEAN /\ f.src \in Sender
  BY Zenon DEF Fragment
<1> QED BY Zenon, <1>1, <1>2

LEMMA PairOf ==
  ASSUME NEW p \in Nat \X Nat
  PROVE  p = <<p[1], p[2]>> /\ p[1] \in Nat /\ p[2] \in Nat
OBVIOUS

\* A genuine fragment has the key of its datagram.
LEMMA GenuineKey ==
  ASSUME NEW ds \in Seq(Datagram), NEW f, NEW g, Genuine(f, ds), Genuine(g, ds), KeyOf(f) = KeyOf(g)
  PROVE  Same(f.payload[1], g.payload[1], ds)
<1>1. /\ f.payload[1] \in DOMAIN ds /\ f.src = ds[f.payload[1]].src /\ f.id = ds[f.payload[1]].id
      /\ g.payload[1] \in DOMAIN ds /\ g.src = ds[g.payload[1]].src /\ g.id = ds[g.payload[1]].id
  BY Zenon DEF Genuine, Piece
<1>2. f.src \in 0 .. 9 /\ g.src \in 0 .. 9
  BY Zenon, <1>1, DatagramTypes
<1>3. f.src = g.src /\ f.id = g.id
  BY Zenon, <1>2, KeysDiffer
<1> QED BY Zenon, <1>1, <1>3 DEF Same

\* check is passed only by a vector that may be given to UDP_Layer::Receive.
LEMMA CheckedIsDeliverable ==
  ASSUME NEW ds \in Seq(Datagram), NEW v \in Seq(Fragment), NEW k, v # <<>>, check(v),
         \A i \in DOMAIN v : Genuine(v[i], ds) /\ KeyOf(v[i]) = k
  PROVE  Deliverable([i \in DOMAIN v |-> v[i].payload], ds)
<1> DEFINE u == [i \in DOMAIN v |-> v[i].payload]
           d == u[1][1]
           n == Len(v)
<1>1. /\ DOMAIN v = 1 .. n /\ n \in Nat /\ n # 0
      /\ \A i \in 1 .. n : v[i].payload \in Nat \X Nat
  <2>1. DOMAIN v = 1 .. n /\ n \in Nat /\ \A i \in 1 .. n : v[i].payload \in Nat \X Nat
    BY Zenon, FragmentTypes
  <2> QED BY <2>1, EmptySeq
<1>2. 1 \in 1 .. n /\ n \in 1 .. n
  BY <1>1
<1>3. DOMAIN u = 1 .. n /\ \A i \in 1 .. n : u[i] = v[i].payload
  BY <1>1
<1>u. d = u[1][1]
  OBVIOUS
<1> HIDE DEF u, d, n
<1>4. ASSUME NEW i \in 1 .. n
      PROVE  Piece(u[i], ds) /\ u[i] = <<u[i][1], u[i][2]>> /\ u[i][2] = i - 1
  <2>1. Genuine(v[i], ds) /\ u[i] = v[i].payload /\ u[i] \in Nat \X Nat
    BY Zenon, <1>1, <1>3
  <2>2. v[i].fragmentOffset = u[i][2] * 185 /\ Piece(u[i], ds)
    BY Zenon, <2>1 DEF Genuine
  <2>3. v[i].fragmentOffset = (i - 1) * 185
    BY Zenon, <1>1 DEF check
  <2>4. u[i] = <<u[i][1], u[i][2]>> /\ u[i][2] \in Nat
    BY Zenon, <2>1, PairOf
  <2>5. u[i][2] = i - 1
    BY <1>1, <2>2, <2>3, <2>4
  <2> QED BY <2>2, <2>4, <2>5
<1>5. ASSUME NEW i \in 1 .. n PROVE Same(u[i][1], d, ds)
  <2>1. /\ Genuine(v[i], ds) /\ Genuine(v[1], ds) /\ KeyOf(v[i]) = KeyOf(v[1])
        /\ u[i] = v[i].payload /\ u[1] = v[1].payload
    BY Zenon, <1>1, <1>2, <1>3
  <2>2. Same(v[i].payload[1], v[1].payload[1], ds)
    BY Zenon, <2>1, GenuineKey
  <2> QED BY Zenon, <1>u, <2>1, <2>2
<1>6. ASSUME Unique(d, ds) PROVE u = All(d, ds)
  <2>1. \A i \in 1 .. n : u[i][1] = d
    <3> SUFFICES ASSUME NEW i \in 1 .. n PROVE u[i][1] = d
      OBVIOUS
    <3>1. u[i][1] \in DOMAIN ds
      BY Zenon, <1>4 DEF Piece
    <3> QED BY Zenon, <1>5, <1>6, <3>1 DEF Unique, Same
  <2>2. Count(d, ds) \in Nat /\ n - 1 \in 0 .. Count(d, ds) - 1
    <3>1. Piece(u[n], ds) /\ u[n][2] = n - 1 /\ u[n][1] = d
      BY Zenon, <1>2, <1>4, <2>1
    <3>2. d \in DOMAIN ds /\ n - 1 \in 0 .. Count(d, ds) - 1
      BY Zenon, <3>1 DEF Piece
    <3>3. Count(d, ds) \in 1 .. 45
      BY Zenon, <3>2, DatagramTypes
    <3>4. 1 .. 45 \subseteq Nat
      OBVIOUS
    <3> QED BY Zenon, <3>2, <3>3, <3>4
  <2>3. ~ (n - 1 < Count(d, ds) - 1)
    <3>1. ~ v[n].MF
      BY Zenon DEF check, Last, n
    <3>2. Genuine(v[n], ds) /\ u[n] = v[n].payload /\ u[n][1] = d /\ u[n][2] = n - 1
      BY Zenon, <1>1, <1>2, <1>3, <1>4, <2>1
    <3> QED BY Zenon, <3>1, <3>2 DEF Genuine
  <2>4. n = Count(d, ds)
    BY <1>1, <2>2, <2>3
  <2>5. u = [i \in 1 .. n |-> u[i]]
    BY Zenon, <1>3 DEF u
  <2>6. \A i \in 1 .. n : u[i] = <<d, i - 1>>
    BY Zenon, <1>4, <2>1
  <2> QED BY Zenon, <2>4, <2>5, <2>6 DEF All
<1>7. u # <<>>
  BY <1>1, <1>3, EmptySeq, LenProperties
<1> QED BY Zenon, <1>3, <1>4, <1>5, <1>6, <1>7, <1>u DEF Deliverable, u

\* A sorted vector with every fragment of a datagram once passes check.
LEMMA CompletePassesCheck ==
  ASSUME NEW ds \in Seq(Datagram), NEW v \in Seq(Fragment), NEW d \in DOMAIN ds, Sorted(v),
         \A i \in DOMAIN v : Genuine(v[i], ds) /\ v[i].payload[1] = d,
         \A i, j \in DOMAIN v : v[i].payload = v[j].payload => i = j,
         \A x \in 0 .. Count(d, ds) - 1 : \E i \in DOMAIN v : v[i].payload = <<d, x>>
  PROVE  check(v)
<1> DEFINE l == Len(v)
           n == Count(d, ds)
           w == [i \in 1 .. l |-> v[i].payload[2]]
<1>1. /\ DOMAIN v = 1 .. l /\ l \in Nat /\ n \in Nat /\ n # 0
      /\ \A i \in 1 .. l : v[i].payload \in Nat \X Nat
  <2>1. DOMAIN v = 1 .. l /\ l \in Nat /\ \A i \in 1 .. l : v[i].payload \in Nat \X Nat
    BY Zenon, FragmentTypes
  <2>2. n \in 1 .. 45
    BY Zenon, DatagramTypes
  <2>3. \A x \in 1 .. 45 : x \in Nat /\ x # 0
    OBVIOUS
  <2> QED BY Zenon, <2>1, <2>2, <2>3
<1>2. \A i \in 1 .. l : w[i] = v[i].payload[2]
  OBVIOUS
<1> HIDE DEF l, n
<1>3. ASSUME NEW i \in 1 .. l
      PROVE  /\ w[i] \in 0 .. n - 1 /\ v[i].payload = <<d, w[i]>>
             /\ v[i].fragmentOffset = w[i] * 185 /\ (v[i].MF <=> w[i] < n - 1)
  <2>1. Genuine(v[i], ds) /\ v[i].payload[1] = d /\ v[i].payload = <<v[i].payload[1], v[i].payload[2]>>
    BY Zenon, <1>1, PairOf
  <2> QED BY Zenon, <1>2, <2>1 DEF Genuine, Piece, n
<1>4. w \in [1 .. l -> 0 .. n - 1]
  BY Zenon, <1>3
<1> HIDE DEF w
<1>5. ASSUME NEW i \in 1 .. l, NEW j \in 1 .. l, i < j PROVE w[i] < w[j]
  <2>1. w[i] \in Nat /\ w[j] \in Nat
    BY <1>1, <1>3
  <2>2. w[i] * 185 <= w[j] * 185
    <3>1. v[i].fragmentOffset <= v[j].fragmentOffset
      BY Zenon, <1>1, <1>5 DEF Sorted
    <3>2. v[i].fragmentOffset = w[i] * 185 /\ v[j].fragmentOffset = w[j] * 185
      BY Zenon, <1>3
    <3> QED BY <3>1, <3>2
  <2>3. i # j
    BY <1>5
  <2>4. w[i] # w[j]
    <3>1. v[i].payload = <<d, w[i]>> /\ v[j].payload = <<d, w[j]>>
      BY Zenon, <1>3
    <3>2. v[i].payload # v[j].payload
      BY Zenon, <1>1, <2>3
    <3> QED BY Zenon, <3>1, <3>2
  <2> QED BY <2>1, <2>2, <2>4
<1>6. ASSUME NEW x \in 0 .. n - 1 PROVE \E i \in 1 .. l : w[i] = x
  <2>1. PICK i \in 1 .. l : v[i].payload = <<d, x>>
    BY Zenon, <1>1 DEF n
  <2>2. <<d, w[i]>> = <<d, x>>
    BY Zenon, <1>3, <2>1
  <2> QED BY <2>2
<1>7. l = n /\ \A i \in 1 .. l : w[i] = i - 1
  <2>1. Rising(w, l) /\ Onto(w, l, n)
    BY Zenon, <1>5, <1>6 DEF Rising, Onto
  <2>2. l \in Nat /\ n \in Nat
    BY Zenon, <1>1
  <2>3. \A z \in [1 .. l -> 0 .. n - 1] :
          Rising(z, l) /\ Onto(z, l, n) => l = n /\ \A i \in 1 .. l : z[i] = i - 1
    BY Zenon, <2>2, Staircase
  <2> QED BY Zenon, <1>4, <2>1, <2>3
<1>8. ASSUME NEW i \in DOMAIN v PROVE v[i].fragmentOffset = (i - 1) * 185
  <2>1. i \in 1 .. l
    BY Zenon, <1>1
  <2>2. v[i].fragmentOffset = w[i] * 185 /\ w[i] = i - 1
    BY Zenon, <1>3, <1>7, <2>1
  <2> QED BY Zenon, <2>2
<1>9. ~ v[l].MF
  <2>1. l \in 1 .. l /\ w[l] = l - 1 /\ ~ (l - 1 < n - 1)
    BY <1>1, <1>7
  <2> QED BY Zenon, <1>3, <2>1
<1> QED BY Zenon, <1>8, <1>9 DEF check, Last, l

----------------------------------------------------------------------------
(* More datagrams *)

\* es has the datagrams of ds, and maybe more.
More(ds, es) == DOMAIN ds \subseteq DOMAIN es /\ \A d \in DOMAIN ds : es[d] = ds[d]

LEMMA MorePiece ==
  ASSUME NEW ds, NEW es, More(ds, es), NEW p, Piece(p, ds)
  PROVE  Piece(p, es) /\ All(p[1], es) = All(p[1], ds) /\ (Unique(p[1], es) => Unique(p[1], ds))
<1>1. p[1] \in DOMAIN ds /\ es[p[1]] = ds[p[1]] /\ p[1] \in DOMAIN es /\ Count(p[1], es) = Count(p[1], ds)
  BY Zenon DEF More, Piece, Count
<1>2. Piece(p, es) /\ All(p[1], es) = All(p[1], ds)
  BY Zenon, <1>1 DEF Piece, All
<1>3. ASSUME Unique(p[1], es), NEW e \in DOMAIN ds, Same(p[1], e, ds) PROVE e = p[1]
  <2>1. e \in DOMAIN es /\ Same(p[1], e, es)
    BY Zenon, <1>1, <1>3 DEF More, Same
  <2> QED BY Zenon, <1>3, <2>1 DEF Unique
<1> QED BY Zenon, <1>2, <1>3 DEF Unique

LEMMA MoreGenuine ==
  ASSUME NEW ds, NEW es, More(ds, es), NEW f, Genuine(f, ds)
  PROVE  Genuine(f, es)
<1>1. Piece(f.payload, ds) /\ Piece(f.payload, es)
  BY Zenon, MorePiece DEF Genuine
<1>2. es[f.payload[1]] = ds[f.payload[1]]
  BY Zenon, <1>1 DEF More, Piece
<1> QED BY Zenon, <1>1, <1>2 DEF Genuine, Count

LEMMA MoreDeliverable ==
  ASSUME NEW ds, NEW es, More(ds, es), NEW v \in Seq(Nat \X Nat), Deliverable(v, ds)
  PROVE  Deliverable(v, es)
<1> DEFINE d == v[1][1]
<1>1. 1 \in DOMAIN v
  <2>1. v # <<>>
    BY Zenon DEF Deliverable
  <2> QED BY <2>1, LenProperties, EmptySeq
<1>2. /\ v # <<>>
      /\ \A k \in DOMAIN v : Piece(v[k], ds) /\ v[k][2] = k - 1 /\ Same(v[k][1], d, ds)
      /\ Unique(d, ds) => v = All(d, ds)
  BY Zenon DEF Deliverable
<1>3. /\ \A k \in DOMAIN v : Piece(v[k], es) /\ v[k][1] \in DOMAIN ds
      /\ All(d, es) = All(d, ds) /\ (Unique(d, es) => Unique(d, ds))
  BY Zenon, <1>1, <1>2, MorePiece DEF Piece
<1>4. \A k \in DOMAIN v : Same(v[k][1], d, es)
  BY Zenon, <1>1, <1>2, <1>3 DEF Same, More
<1> QED BY Zenon, <1>2, <1>3, <1>4 DEF Deliverable

LEMMA MoreAppend ==
  ASSUME NEW ds \in Seq(Datagram), NEW e \in Datagram
  PROVE  /\ Append(ds, e) \in Seq(Datagram) /\ Len(Append(ds, e)) = Len(ds) + 1 /\ Len(ds) \in Nat
         /\ DOMAIN Append(ds, e) = 1 .. Len(ds) + 1 /\ DOMAIN ds = 1 .. Len(ds)
         /\ Append(ds, e)[Len(ds) + 1] = e
         /\ More(ds, Append(ds, e))
<1> DEFINE es == Append(ds, e)
<1>1. /\ es \in Seq(Datagram) /\ Len(es) = Len(ds) + 1
      /\ \A i \in 1 .. Len(ds) : es[i] = ds[i]
      /\ es[Len(ds) + 1] = e
  BY AppendProperties
<1>2. DOMAIN es = 1 .. Len(ds) + 1 /\ DOMAIN ds = 1 .. Len(ds) /\ Len(ds) \in Nat
  BY <1>1, LenProperties
<1> HIDE DEF es
<1>3. More(ds, es)
  BY <1>1, <1>2 DEF More
<1> QED BY Zenon, <1>1, <1>2, <1>3 DEF es

----------------------------------------------------------------------------
(* The invariant holds initially *)

LEMMA InitIInv == Init => IInv
<1> SUFFICES ASSUME Init PROVE IInv
  OBVIOUS
<1>1. \A S : <<>> \in Seq(S) /\ Len(<<>>) = 0 /\ DOMAIN <<>> = {}
  <2>1. DOMAIN <<>> = 1 .. 0
    BY EmptySeq, LenProperties
  <2>2. DOMAIN <<>> = {}
    BY <2>1
  <2> QED BY <2>2, EmptySeq
<1>2. /\ datagrams = <<>> /\ wire = <<>> /\ fragmentDict = <<>> /\ delivered = <<>>
      /\ randCount = [m \in Sender |-> 0] /\ sending = [t \in Thread |-> 0]
      /\ next = [t \in Thread |-> 0] /\ received = {}
  BY DEF Init
<1>3. TypeOK
  <2>1. /\ randCount \in [Sender -> 0 .. Len(datagrams)] /\ sending \in [Thread -> 0 .. Len(datagrams)]
        /\ next \in [Thread -> Nat]
    BY <1>1, <1>2
  <2> QED BY Zenon, <1>1, <1>2, <2>1 DEF TypeOK
<1>4. Sendings
  BY Zenon, <1>2 DEF Sendings
<1>5. OnWire /\ Sent /\ Entries /\ Deliveries /\ Once /\ Kept
  BY Zenon, <1>1, <1>2 DEF OnWire, Sent, Entries, Deliveries, Once, Kept
<1> QED BY Zenon, <1>3, <1>4, <1>5 DEF IInv

----------------------------------------------------------------------------
(* The actions keep the invariant: sending and losing *)

\* What the receiver has is right also when there are more datagrams.
LEMMA ReceiverKept ==
  ASSUME IInv, More(datagrams, datagrams'), UNCHANGED <<fragmentDict, received, delivered, repeated>>
  PROVE  Entries' /\ Deliveries' /\ Once' /\ Kept'
<1>1. TypeOK /\ Sent /\ Entries /\ Deliveries /\ Once /\ Kept
  BY Zenon DEF IInv
<1>2. \A p \in received : Piece(p, datagrams)
  BY Zenon, <1>1 DEF Sent
<1>3. Entries'
  BY Zenon, <1>1, MoreGenuine DEF Entries, Entry
<1>4. Deliveries'
  <2> SUFFICES ASSUME NEW n \in DOMAIN delivered
               PROVE  Deliverable(delivered[n], datagrams') /\ Range(delivered[n]) \subseteq received
    BY Zenon DEF Deliveries
  <2>1. delivered[n] \in Seq(Nat \X Nat)
    BY <1>1, LenProperties, ElementOfSeq DEF TypeOK
  <2> QED BY Zenon, <1>1, <2>1, MoreDeliverable DEF Deliveries
<1>5. Once'
  BY Zenon, <1>1 DEF Once
<1>6. Kept'
  <2> SUFFICES ASSUME NEW p \in received, Unique(p[1], datagrams'), \A r \in repeated : r[1] # p[1]
               PROVE  All(p[1], datagrams') \in Range(delivered) \/ Holds(p, fragmentDict, datagrams')
    BY Zenon DEF Kept
  <2>1. /\ Piece(p, datagrams) /\ Unique(p[1], datagrams)
        /\ All(p[1], datagrams') = All(p[1], datagrams) /\ datagrams'[p[1]] = datagrams[p[1]]
    BY Zenon, <1>2, MorePiece DEF More, Piece
  <2> QED BY Zenon, <1>1, <2>1 DEF Kept, Holds
<1> QED BY <1>3, <1>4, <1>5, <1>6

LEMMA SendIInv ==
  ASSUME IInv, NEW t \in Thread, NEW size \in Size, Send(t, size)
  PROVE  IInv'
<1> DEFINE n == Len(datagrams)
           m == Host[t]
           e == [src |-> m, id |-> Identification[randCount[m] + 1], size |-> size]
<1>1. /\ n < MaxDatagrams
      /\ datagrams' = Append(datagrams, e)
      /\ randCount' = [randCount EXCEPT ![m] = randCount[m] + 1]
      /\ sending' = [sending EXCEPT ![t] = Len(datagrams')]
      /\ next' = [next EXCEPT ![t] = 0]
      /\ UNCHANGED <<wire, fragmentDict, received, delivered, lost, repeated, reboots>>
  BY DEF Send, get_Random_Identification
<1>2. TypeOK /\ Sendings /\ OnWire /\ Sent
  BY Zenon DEF IInv
<1>3. datagrams \in Seq(Datagram) /\ n \in Nat /\ DOMAIN datagrams = 1 .. n
  <2>1. datagrams \in Seq(Datagram)
    BY Zenon, <1>2 DEF TypeOK, Datagram
  <2> QED BY <2>1, LenProperties
<1>4. m \in Sender /\ randCount[m] \in 0 .. n
  <2>1. Host \in [Thread -> 0 .. 9]
    BY Zenon, IPAssumption
  <2>2. m \in Sender
    BY Zenon, <2>1 DEF Sender, Range
  <2> QED BY Zenon, <1>2, <2>2 DEF TypeOK
<1>5. e \in Datagram /\ e.src = m /\ e.size = size
  <2>1. randCount[m] + 1 \in 1 .. MaxDatagrams
    <3>1. MaxDatagrams \in Nat
      BY Zenon, IPAssumption
    <3> QED BY <1>1, <1>3, <1>4, <3>1
  <2>2. Identification[randCount[m] + 1] \in Nat
    <3>1. Identification \in [1 .. MaxDatagrams -> 0 .. 2^16 - 1]
      BY Zenon, IPAssumption
    <3>2. Identification[randCount[m] + 1] \in 0 .. 2^16 - 1
      BY Zenon, <2>1, <3>1
    <3> QED BY <3>2
  <2> QED BY Zenon, <1>4, <2>2 DEF Datagram
<1>n. n = Len(datagrams)
  OBVIOUS
<1> HIDE DEF e, m, n
<1>6. /\ datagrams' \in Seq(Datagram) /\ Len(datagrams') = n + 1
      /\ DOMAIN datagrams' = 1 .. n + 1 /\ datagrams'[n + 1] = e
      /\ More(datagrams, datagrams')
  BY Zenon, <1>1, <1>3, <1>5, <1>n, MoreAppend
<1>7. Entries' /\ Deliveries' /\ Once' /\ Kept'
  BY Zenon, <1>1, <1>6, ReceiverKept
<1>8. /\ sending' \in [Thread -> 0 .. n + 1] /\ sending'[t] = n + 1
      /\ next' \in [Thread -> Nat] /\ next'[t] = 0
      /\ \A u \in Thread : u # t => sending'[u] = sending[u] /\ next'[u] = next[u]
      /\ \A u \in Thread : sending[u] \in 0 .. n
  BY <1>1, <1>2, <1>3, <1>6, <1>n DEF TypeOK
<1>9. TypeOK'
  <2>1. randCount' \in [Sender -> 0 .. n + 1]
    BY <1>1, <1>2, <1>3, <1>4, <1>n DEF TypeOK
  <2> QED BY Zenon, <1>1, <1>2, <1>6, <1>8, <2>1 DEF TypeOK, Datagram
<1>10. Sendings'
  <2>1. ASSUME NEW u \in Thread, sending'[u] # 0
        PROVE  Host[u] = datagrams'[sending'[u]].src /\ next'[u] < Count(sending'[u], datagrams')
    <3>1. CASE u = t
      <4>1. sending'[u] = n + 1 /\ next'[u] = 0 /\ Host[u] = datagrams'[n + 1].src
        BY Zenon, <1>5, <1>6, <1>8, <3>1 DEF m
      <4>2. n + 1 \in DOMAIN datagrams'
        BY <1>3, <1>6
      <4>3. Count(n + 1, datagrams') \in 1 .. 45
        BY Zenon, <1>6, <4>2, DatagramTypes
      <4>4. 0 < Count(n + 1, datagrams')
        BY <4>3
      <4> QED BY Zenon, <4>1, <4>4
    <3>2. CASE u # t
      <4>1. sending'[u] = sending[u] /\ next'[u] = next[u] /\ sending[u] \in 0 .. n /\ sending[u] # 0
        BY Zenon, <1>8, <2>1, <3>2
      <4>2. sending[u] \in DOMAIN datagrams
        BY <1>3, <4>1
      <4>3. datagrams'[sending[u]] = datagrams[sending[u]]
        BY Zenon, <1>6, <4>2 DEF More
      <4> QED BY Zenon, <1>2, <4>1, <4>3 DEF Sendings, Count
    <3> QED BY <3>1, <3>2
  <2>2. ASSUME NEW u \in Thread, NEW w \in Thread, sending'[u] = sending'[w], sending'[u] # 0
        PROVE  u = w
    <3>1. \A x \in Thread : sending[x] # n + 1
      BY <1>3, <1>8
    <3> QED BY Zenon, <1>2, <1>8, <2>2, <3>1 DEF Sendings
  <2> QED BY Zenon, <2>1, <2>2 DEF Sendings
<1>11. OnWire'
  BY Zenon, <1>1, <1>2, <1>6, MoreGenuine DEF OnWire
<1>12. Sent'
  <2>w. received' = received /\ wire' = wire
    BY <1>1
  <2> SUFFICES ASSUME NEW p \in received \cup {wire[i].payload : i \in DOMAIN wire}
               PROVE  /\ Piece(p, datagrams')
                      /\ \A u \in Thread : sending'[u] = p[1] => p[2] < next'[u]
    BY Zenon, <2>w DEF Sent
  <2>1. Piece(p, datagrams) /\ \A u \in Thread : sending[u] = p[1] => p[2] < next[u]
    BY Zenon, <1>2 DEF Sent
  <2>2. p[1] # n + 1
    BY <1>3, <2>1 DEF Piece
  <2> QED BY Zenon, <1>6, <1>8, <2>1, <2>2, MorePiece
<1> QED BY Zenon, <1>7, <1>9, <1>10, <1>11, <1>12 DEF IInv

LEMMA SendFragmentIInv ==
  ASSUME IInv, NEW t \in Thread, SendFragment(t)
  PROVE  IInv'
<1> DEFINE d == sending[t]
           i == next[t]
           h == FragmentOf(datagrams[d].size, i)
           f == [src |-> datagrams[d].src, id |-> datagrams[d].id, fragmentOffset |-> h.fragmentOffset,
                 MF |-> h.MF, payload |-> <<d, i>>]
           n == Len(wire)
<1>1. /\ d # 0
      /\ wire' = Append(wire, f)
      /\ next' = [next EXCEPT ![t] = i + 1]
      /\ sending' = IF next'[t] = NumFragments(datagrams[d].size)
                    THEN [sending EXCEPT ![t] = 0] ELSE sending
      /\ UNCHANGED <<datagrams, randCount, fragmentDict, received, delivered, lost, repeated, reboots>>
  BY DEF SendFragment
<1>2. TypeOK /\ Sendings /\ OnWire /\ Sent
  BY Zenon DEF IInv
<1>3. datagrams \in Seq(Datagram) /\ d \in DOMAIN datagrams /\ datagrams[d] \in Datagram
  <2>1. datagrams \in Seq(Datagram) /\ d \in 0 .. Len(datagrams)
    BY Zenon, <1>2 DEF TypeOK, Datagram
  <2> QED BY <1>1, <2>1, LenProperties, ElementOfSeq
<1>4. /\ Count(d, datagrams) \in 1 .. 45 /\ i \in Nat /\ i < Count(d, datagrams)
      /\ i \in 0 .. Count(d, datagrams) - 1
  <2>1. Count(d, datagrams) \in 1 .. 45 /\ i \in Nat /\ i < Count(d, datagrams)
    BY Zenon, <1>1, <1>2, <1>3, DatagramTypes DEF Sendings, TypeOK
  <2> QED BY <2>1
<1>5. h.fragmentOffset = i * 185 /\ i * 185 \in 0 .. 2^13 - 1 /\ h.MF = (i < Count(d, datagrams) - 1)
  <2>1. datagrams[d].size \in Size
    BY Zenon, <1>3 DEF Datagram
  <2>2. h.fragmentOffset = i * 185 /\ i * 185 \in 0 .. 2^13 - 1
    BY Zenon, <1>4, <2>1, Offsets DEF Count
  <2> QED BY Zenon, <2>2 DEF FragmentOf, Count
<1>6. f \in Fragment /\ Genuine(f, datagrams) /\ f.payload = <<d, i>>
  <2>1. datagrams[d].src \in Sender /\ datagrams[d].id \in Nat
    BY Zenon, <1>3 DEF Datagram
  <2>2. d \in Nat /\ <<d, i>> \in Nat \X Nat
    BY <1>3, <1>4, LenProperties
  <2>3. f \in Fragment
    <3>0. h.MF \in BOOLEAN
      BY DEF FragmentOf
    <3>1. h.MF \in BOOLEAN /\ h.fragmentOffset \in 0 .. 2^13 - 1
      BY Zenon, <1>5, <3>0
    <3> HIDE DEF h
    <3> QED BY Zenon, <2>1, <2>2, <3>1 DEF Fragment
  <2>4. Piece(<<d, i>>, datagrams)
    BY <1>3, <1>4 DEF Piece
  <2> HIDE DEF d, i
  <2>5. f.payload = <<d, i>> /\ f.payload[1] = d /\ f.payload[2] = i
    OBVIOUS
  <2> QED BY Zenon, <1>5, <2>3, <2>4, <2>5 DEF Genuine
<1>d. d = sending[t] /\ i = next[t] /\ n = Len(wire)
  OBVIOUS
<1> HIDE DEF f, h, d, i, n
<1>7. /\ wire \in Seq(Fragment) /\ n \in Nat /\ DOMAIN wire = 1 .. n
      /\ wire' \in Seq(Fragment) /\ DOMAIN wire' = 1 .. n + 1
      /\ wire'[n + 1] = f /\ \A j \in 1 .. n : wire'[j] = wire[j]
  <2>1. wire \in Seq(Fragment)
    BY Zenon, <1>2 DEF TypeOK
  <2>2. n \in Nat /\ DOMAIN wire = 1 .. n
    BY <2>1, LenProperties DEF n
  <2>3. /\ wire' \in Seq(Fragment) /\ Len(wire') = n + 1
        /\ wire'[n + 1] = f /\ \A j \in 1 .. n : wire'[j] = wire[j]
    <3>1. wire' = Append(wire, f) /\ f \in Fragment
      BY Zenon, <1>1, <1>6
    <3> DEFINE w == Append(wire, f)
    <3>2. /\ w \in Seq(Fragment) /\ Len(w) = Len(wire) + 1
          /\ w[Len(wire) + 1] = f /\ \A j \in 1 .. Len(wire) : w[j] = wire[j]
      BY <2>1, <3>1, AppendProperties
    <3> HIDE DEF w
    <3>3. wire' = w
      BY Zenon, <3>1 DEF w
    <3> QED BY Zenon, <3>2, <3>3 DEF n
  <2>4. DOMAIN wire' = 1 .. Len(wire')
    BY Zenon, <2>3, LenProperties
  <2> QED BY Zenon, <2>1, <2>2, <2>3, <2>4
<1>8. \A j \in DOMAIN wire' : wire'[j] = f \/ (j \in DOMAIN wire /\ wire'[j] = wire[j])
  BY <1>7
<1>9. /\ next' \in [Thread -> Nat] /\ next'[t] = i + 1
      /\ \A u \in Thread : u # t => next'[u] = next[u]
  BY <1>1, <1>2, <1>4 DEF TypeOK
<1>10. /\ sending' \in [Thread -> 0 .. Len(datagrams)]
       /\ \A u \in Thread : sending'[u] = sending[u] \/ sending'[u] = 0
       /\ sending'[t] # 0 => i + 1 # Count(d, datagrams)
       /\ \A u \in Thread : u # t => sending'[u] = sending[u]
  <2>0. Len(datagrams) \in Nat /\ sending \in [Thread -> 0 .. Len(datagrams)]
    BY <1>2, <1>3, LenProperties DEF TypeOK
  <2>1. CASE i + 1 = Count(d, datagrams)
    BY <1>1, <1>9, <2>0, <2>1 DEF Count
  <2>2. CASE i + 1 # Count(d, datagrams)
    BY <1>1, <1>9, <2>0, <2>2 DEF Count
  <2> QED BY <2>1, <2>2
<1>11. Entries' /\ Deliveries' /\ Once' /\ Kept'
  <2>1. More(datagrams, datagrams')
    BY Zenon, <1>1 DEF More
  <2> QED BY Zenon, <1>1, <2>1, ReceiverKept
<1>12. TypeOK'
  BY Zenon, <1>1, <1>2, <1>7, <1>9, <1>10 DEF TypeOK
<1>13. Sendings'
  <2>1. ASSUME NEW u \in Thread, sending'[u] # 0
        PROVE  Host[u] = datagrams[sending'[u]].src /\ next'[u] < Count(sending'[u], datagrams)
    <3>1. sending'[u] = sending[u]
      BY Zenon, <1>10, <2>1
    <3>2. CASE u = t
      <4>1. next'[u] = i + 1 /\ i + 1 # Count(d, datagrams) /\ sending[u] = d
        BY Zenon, <1>9, <1>10, <1>d, <2>1, <3>2
      <4>2. i + 1 < Count(d, datagrams)
        BY <1>4, <4>1
      <4> QED BY Zenon, <1>2, <2>1, <3>1, <4>1, <4>2 DEF Sendings
    <3>3. CASE u # t
      BY Zenon, <1>2, <1>9, <2>1, <3>1, <3>3 DEF Sendings
    <3> QED BY <3>2, <3>3
  <2>2. \A u, w \in Thread : sending'[u] = sending'[w] /\ sending'[u] # 0 => u = w
    BY Zenon, <1>2, <1>10 DEF Sendings
  <2> QED BY Zenon, <1>1, <2>1, <2>2 DEF Sendings
<1>14. ASSUME NEW p \in received \cup {wire[j].payload : j \in DOMAIN wire} PROVE p # <<d, i>>
  <2>1. sending[t] = p[1] => p[2] < next[t]
    BY Zenon, <1>2 DEF Sent
  <2> QED BY <1>4, <1>d, <2>1
<1>15. OnWire'
  <2>1. \A j \in DOMAIN wire' : Genuine(wire'[j], datagrams)
    BY Zenon, <1>2, <1>6, <1>8 DEF OnWire
  <2>2. \A j \in DOMAIN wire' : wire'[j].payload \in received => wire'[j].payload \in repeated
    BY Zenon, <1>2, <1>6, <1>8, <1>14 DEF OnWire
  <2>3. ASSUME NEW j \in DOMAIN wire', NEW k \in DOMAIN wire', wire'[j].payload = wire'[k].payload
        PROVE  j = k
    <3>1. \A x \in 1 .. n : wire'[x].payload # f.payload
      BY Zenon, <1>6, <1>7, <1>14
    <3>2. \A x \in 1 .. n + 1 : x \in 1 .. n \/ x = n + 1
      BY <1>7
    <3> QED BY Zenon, <1>2, <1>7, <2>3, <3>1, <3>2 DEF OnWire
  <2> QED BY Zenon, <1>1, <2>1, <2>2, <2>3 DEF OnWire
<1>16. Sent'
  <2> SUFFICES ASSUME NEW p \in received \cup {wire'[j].payload : j \in DOMAIN wire'}
               PROVE  Piece(p, datagrams) /\ \A u \in Thread : sending'[u] = p[1] => p[2] < next'[u]
    BY Zenon, <1>1 DEF Sent
  <2>1. p = <<d, i>> \/ p \in received \cup {wire[j].payload : j \in DOMAIN wire}
    BY Zenon, <1>6, <1>8
  <2>2. CASE p = <<d, i>>
    <3>1. Piece(p, datagrams)
      BY Zenon, <1>6, <2>2 DEF Genuine
    <3>2. ASSUME NEW u \in Thread, sending'[u] = p[1] PROVE p[2] < next'[u]
      <4>1. p[1] = d /\ p[2] = i
        BY <2>2
      <4>2. sending[u] = d
        BY Zenon, <1>1, <1>10, <3>2, <4>1
      <4>3. u = t
        BY Zenon, <1>1, <1>2, <1>d, <4>2 DEF Sendings
      <4> QED BY <1>4, <1>9, <4>1, <4>3
    <3> QED BY <3>1, <3>2
  <2>3. CASE p \in received \cup {wire[j].payload : j \in DOMAIN wire}
    <3>1. Piece(p, datagrams) /\ \A u \in Thread : sending[u] = p[1] => p[2] < next[u]
      BY Zenon, <1>2, <2>3 DEF Sent
    <3>2. p[1] # 0 /\ p[2] \in Nat
      <4>1. p[1] \in 1 .. Len(datagrams) /\ p[2] \in 0 .. Count(p[1], datagrams) - 1
        BY Zenon, <1>3, <3>1, DatagramTypes DEF Piece
      <4> QED BY <4>1
    <3>3. ASSUME NEW u \in Thread, sending'[u] = p[1] PROVE p[2] < next'[u]
      <4>1. sending[u] = p[1] /\ p[2] < next[u]
        BY Zenon, <1>10, <3>1, <3>2, <3>3
      <4>2. CASE u = t
        BY <1>4, <1>9, <1>d, <3>2, <4>1, <4>2
      <4>3. CASE u # t
        BY <1>9, <4>1, <4>3
      <4> QED BY <4>2, <4>3
    <3> QED BY <3>1, <3>3
  <2> QED BY <2>1, <2>2, <2>3
<1> QED BY Zenon, <1>11, <1>12, <1>13, <1>15, <1>16 DEF IInv

LEMMA RebootIInv ==
  ASSUME IInv, NEW m \in Sender, Reboot(m)
  PROVE  IInv'
<1>1. /\ randCount' = [randCount EXCEPT ![m] = 0]
      /\ sending' = [t \in Thread |-> IF Host[t] = m THEN 0 ELSE sending[t]]
      /\ UNCHANGED <<datagrams, next, wire, fragmentDict, received, delivered, lost, repeated>>
  BY DEF Reboot
<1>2. TypeOK /\ Sendings /\ OnWire /\ Sent
  BY Zenon DEF IInv
<1>3. /\ randCount' \in [Sender -> 0 .. Len(datagrams)] /\ sending' \in [Thread -> 0 .. Len(datagrams)]
      /\ \A t \in Thread : sending'[t] = sending[t] \/ sending'[t] = 0
  <2>1. datagrams \in Seq(Datagram)
    BY Zenon, <1>2 DEF TypeOK, Datagram
  <2>2. 0 \in 0 .. Len(datagrams)
    BY <2>1, LenProperties
  <2> QED BY Zenon, <1>1, <1>2, <2>2 DEF TypeOK
<1>4. TypeOK'
  BY Zenon, <1>1, <1>2, <1>3 DEF TypeOK
<1>5. Sendings'
  BY Zenon, <1>1, <1>2, <1>3 DEF Sendings
<1>6. OnWire'
  BY Zenon, <1>1, <1>2 DEF OnWire
<1>7. Sent'
  <2> SUFFICES ASSUME NEW p \in received \cup {wire[i].payload : i \in DOMAIN wire}
               PROVE  /\ Piece(p, datagrams)
                      /\ \A u \in Thread : sending'[u] = p[1] => p[2] < next[u]
    BY Zenon, <1>1 DEF Sent
  <2>1. Piece(p, datagrams) /\ \A u \in Thread : sending[u] = p[1] => p[2] < next[u]
    BY Zenon, <1>2 DEF Sent
  <2>2. p[1] # 0
    <3>1. datagrams \in Seq(Datagram)
      BY Zenon, <1>2 DEF TypeOK, Datagram
    <3>2. p[1] \in 1 .. Len(datagrams)
      BY Zenon, <2>1, <3>1, DatagramTypes DEF Piece
    <3> QED BY <3>2
  <2> QED BY Zenon, <1>3, <2>1, <2>2
<1>8. Entries' /\ Deliveries' /\ Once' /\ Kept'
  <2>1. More(datagrams, datagrams')
    BY Zenon, <1>1 DEF More
  <2> QED BY Zenon, <1>1, <2>1, ReceiverKept
<1> QED BY Zenon, <1>4, <1>5, <1>6, <1>7, <1>8 DEF IInv

\* The first fragment leaves the wire.
LEMMA FirstLeaves ==
  ASSUME IInv, wire # <<>>, wire' = Tail(wire)
  PROVE  /\ Head(wire) \in Fragment /\ wire' \in Seq(Fragment)
         /\ \E i \in DOMAIN wire : wire[i] = Head(wire)
         /\ \A i \in DOMAIN wire' : \E j \in DOMAIN wire : wire'[i] = wire[j]
         /\ \A i \in DOMAIN wire' : wire'[i].payload # Head(wire).payload
         /\ \A i, j \in DOMAIN wire' : wire'[i].payload = wire'[j].payload => i = j
<1>1. wire \in Seq(Fragment) /\ OnWire
  BY Zenon DEF IInv, TypeOK
<1> DEFINE n == Len(wire)
           f == Head(wire)
<1>2. /\ n \in Nat /\ n # 0 /\ DOMAIN wire = 1 .. n /\ f \in Fragment /\ f = wire[1]
  BY <1>1, LenProperties, EmptySeq, HeadTailProperties
<1>3. /\ wire' \in Seq(Fragment) /\ Len(wire') = n - 1
      /\ \A i \in 1 .. n - 1 : wire'[i] = wire[i + 1]
  BY <1>1, HeadTailProperties
<1>4. DOMAIN wire' = 1 .. n - 1
  BY <1>3, LenProperties
<1>5. 1 \in DOMAIN wire /\ \A i \in DOMAIN wire' : i + 1 \in DOMAIN wire /\ i + 1 # 1
  BY <1>2, <1>4
<1> HIDE DEF f, n
<1>6. \A i \in DOMAIN wire' : wire'[i].payload # f.payload
  BY Zenon, <1>1, <1>2, <1>3, <1>4, <1>5 DEF OnWire
<1>7. ASSUME NEW i \in DOMAIN wire', NEW j \in DOMAIN wire', wire'[i].payload = wire'[j].payload
      PROVE  i = j
  <2>0. /\ i + 1 \in DOMAIN wire /\ wire'[i] = wire[i + 1]
        /\ j + 1 \in DOMAIN wire /\ wire'[j] = wire[j + 1]
    BY Zenon, <1>3, <1>4, <1>5
  <2>1. i + 1 = j + 1
    BY Zenon, <1>1, <1>7, <2>0 DEF OnWire
  <2> QED BY <1>2, <1>4, <2>1
<1> QED BY Zenon, <1>2, <1>3, <1>4, <1>5, <1>6, <1>7 DEF f

LEMMA LoseIInv ==
  ASSUME IInv, Lose
  PROVE  IInv'
<1>1. /\ wire # <<>> /\ wire' = Tail(wire)
      /\ UNCHANGED <<datagrams, randCount, sending, next, fragmentDict, received, delivered, repeated>>
  BY DEF Lose
<1>2. TypeOK /\ Sendings /\ OnWire /\ Sent
  BY Zenon DEF IInv
<1>3. TypeOK' /\ Sendings'
  BY Zenon, <1>1, <1>2, FirstLeaves DEF TypeOK, Sendings
<1>4. OnWire'
  <2>1. \A i \in DOMAIN wire' : Genuine(wire'[i], datagrams')
    BY Zenon, <1>1, <1>2, FirstLeaves DEF OnWire
  <2>2. \A i \in DOMAIN wire' : wire'[i].payload \in received => wire'[i].payload \in repeated
    BY Zenon, <1>1, <1>2, FirstLeaves DEF OnWire
  <2> QED BY Zenon, <1>1, <2>1, <2>2, FirstLeaves DEF OnWire
<1>5. Sent'
  <2>1. {wire'[i].payload : i \in DOMAIN wire'} \subseteq {wire[i].payload : i \in DOMAIN wire}
    <3>1. \A i \in DOMAIN wire' : \E j \in DOMAIN wire : wire'[i] = wire[j]
      BY Zenon, <1>1, FirstLeaves
    <3> QED BY <3>1
  <2> QED BY Zenon, <1>1, <1>2, <2>1 DEF Sent
<1>6. Entries' /\ Deliveries' /\ Once' /\ Kept'
  <2>1. More(datagrams, datagrams')
    BY Zenon, <1>1 DEF More
  <2> QED BY Zenon, <1>1, <2>1, ReceiverKept
<1> QED BY Zenon, <1>3, <1>4, <1>5, <1>6 DEF IInv

----------------------------------------------------------------------------
(* The actions keep the invariant: receiving *)

\* The vector under the key of a fragment, before it is inserted.
OldVector(f) == IF KeyOf(f) \in DOMAIN fragmentDict THEN fragmentDict[KeyOf(f)] ELSE <<>>

\* What insertToMap leaves under the key of the fragment.
LEMMA Inserted ==
  ASSUME IInv, NEW f \in Fragment, Genuine(f, datagrams), received' = received \cup {f.payload},
         repeated \subseteq repeated', f.payload \in received => f.payload \in repeated'
  PROVE  LET v == insertToMap(OldVector(f), f)
         IN /\ v \in Seq(Fragment) /\ v # <<>> /\ Sorted(v)
            /\ \A i \in DOMAIN v : /\ Genuine(v[i], datagrams) /\ KeyOf(v[i]) = KeyOf(f)
                                   /\ v[i].payload \in received'
            /\ \A i, j \in DOMAIN v : v[i].payload = v[j].payload => i = j \/ v[i].payload \in repeated'
            /\ \A i \in DOMAIN v, n \in DOMAIN delivered :
                 v[i].payload \in Range(delivered[n]) => v[i].payload \in repeated'
            /\ \E i \in DOMAIN v : v[i] = f
            /\ \A j \in DOMAIN OldVector(f) : \E i \in DOMAIN v : v[i] = OldVector(f)[j]
<1> DEFINE old == OldVector(f)
           v == insertToMap(old, f)
           n == Len(old)
<1>1. TypeOK /\ Entries /\ Deliveries /\ Once
  BY Zenon DEF IInv
<1>2. old \in Seq(Fragment)
  <2>1. <<>> \in Seq(Fragment)
    BY EmptySeq
  <2> QED BY Zenon, <1>1, <2>1 DEF OldVector, TypeOK
<1>3. /\ Sorted(old)
      /\ \A i \in DOMAIN old : /\ Genuine(old[i], datagrams) /\ KeyOf(old[i]) = KeyOf(f)
                               /\ old[i].payload \in received
      /\ \A i, j \in DOMAIN old : old[i].payload = old[j].payload => i = j \/ old[i].payload \in repeated
      /\ \A i \in DOMAIN old, m \in DOMAIN delivered :
           old[i].payload \in Range(delivered[m]) => old[i].payload \in repeated
  <2>1. CASE KeyOf(f) \in DOMAIN fragmentDict
    <3>1. old = fragmentDict[KeyOf(f)]
      BY Zenon, <2>1 DEF OldVector
    <3> HIDE DEF old
    <3> QED BY Zenon, <1>1, <2>1, <3>1 DEF Entries, Entry, Once
  <2>2. CASE KeyOf(f) \notin DOMAIN fragmentDict
    <3>1. old = <<>>
      BY Zenon, <2>2 DEF OldVector
    <3>2. DOMAIN <<>> = 1 .. 0
      BY EmptySeq, LenProperties
    <3>3. DOMAIN <<>> = {}
      BY <3>2
    <3> HIDE DEF old
    <3> QED BY Zenon, <3>1, <3>3 DEF Sorted
  <2> QED BY <2>1, <2>2
<1> HIDE DEF old
<1>4. /\ v \in Seq(Fragment) /\ Len(v) = n + 1
      /\ \E p \in 1 .. n + 1 :
           /\ v[p] = f
           /\ \A i \in 1 .. p - 1 : v[i] = old[i]
           /\ \A i \in p + 1 .. n + 1 : v[i] = old[i - 1]
      /\ Sorted(v)
  BY Zenon, <1>2, <1>3, InsertFragment
<1> HIDE DEF v
<1>5. n \in Nat /\ DOMAIN old = 1 .. n /\ DOMAIN v = 1 .. n + 1 /\ v # <<>>
  BY <1>2, <1>4, LenProperties, EmptySeq
<1> HIDE DEF n
<1>6. PICK p \in 1 .. n + 1 : /\ v[p] = f
                              /\ \A i \in 1 .. p - 1 : v[i] = old[i]
                              /\ \A i \in p + 1 .. n + 1 : v[i] = old[i - 1]
  BY Zenon, <1>4
<1> DEFINE at(i) == IF i < p THEN i ELSE i - 1
<1>7. \A i \in 1 .. n + 1 : i # p => at(i) \in 1 .. n /\ v[i] = old[at(i)]
  <2> SUFFICES ASSUME NEW i \in 1 .. n + 1, i # p PROVE at(i) \in 1 .. n /\ v[i] = old[at(i)]
    OBVIOUS
  <2>1. CASE i < p
    <3>1. i \in 1 .. p - 1 /\ i \in 1 .. n
      BY <1>5, <2>1
    <3> QED BY <1>6, <2>1, <3>1
  <2>2. CASE ~ (i < p)
    <3>1. i \in p + 1 .. n + 1 /\ i - 1 \in 1 .. n
      BY <1>5, <2>2
    <3> QED BY <1>6, <2>2, <3>1
  <2> QED BY <2>1, <2>2
<1>8. \A i, j \in 1 .. n + 1 : i # p /\ j # p /\ at(i) = at(j) => i = j
  BY <1>5
<1>9. \A j \in 1 .. n : \E i \in 1 .. n + 1 : v[i] = old[j]
  <2> SUFFICES ASSUME NEW j \in 1 .. n PROVE \E i \in 1 .. n + 1 : v[i] = old[j]
    OBVIOUS
  <2>1. CASE j < p
    <3>1. j \in 1 .. p - 1 /\ j \in 1 .. n + 1
      BY <1>5, <2>1
    <3> QED BY <1>6, <3>1
  <2>2. CASE ~ (j < p)
    <3>1. j + 1 \in p + 1 .. n + 1 /\ j + 1 \in 1 .. n + 1 /\ (j + 1) - 1 = j
      BY <1>5, <2>2
    <3>2. v[j + 1] = old[(j + 1) - 1]
      BY <1>6, <3>1
    <3> QED BY <3>1, <3>2
  <2> QED BY <2>1, <2>2
<1> HIDE DEF at
<1>10. \A i \in DOMAIN v : v[i] = f \/ \E j \in DOMAIN old : v[i] = old[j]
  BY Zenon, <1>5, <1>6, <1>7
<1>11. \A i \in DOMAIN v : /\ Genuine(v[i], datagrams) /\ KeyOf(v[i]) = KeyOf(f)
                           /\ v[i].payload \in received'
  <2> SUFFICES ASSUME NEW i \in DOMAIN v
               PROVE  /\ Genuine(v[i], datagrams) /\ KeyOf(v[i]) = KeyOf(f)
                      /\ v[i].payload \in received'
    BY Zenon
  <2>1. CASE v[i] = f
    BY Zenon, <2>1
  <2>2. CASE \E j \in DOMAIN old : v[i] = old[j]
    <3>1. PICK j \in DOMAIN old : v[i] = old[j]
      BY Zenon, <2>2
    <3>2. Genuine(old[j], datagrams) /\ KeyOf(old[j]) = KeyOf(f) /\ old[j].payload \in received
      BY Zenon, <1>3
    <3>3. old[j].payload \in received'
      BY Zenon, <3>2
    <3> QED BY Zenon, <3>1, <3>2, <3>3
  <2> QED BY Zenon, <1>10, <2>1, <2>2
<1>12. ASSUME NEW i \in DOMAIN v, NEW j \in DOMAIN v, v[i].payload = v[j].payload
       PROVE  i = j \/ v[i].payload \in repeated'
  <2>1. \A x \in DOMAIN v : x # p /\ v[x].payload = f.payload => f.payload \in repeated'
    BY Zenon, <1>3, <1>5, <1>7
  <2>2. CASE i = p \/ j = p
    BY Zenon, <1>6, <1>12, <2>1, <2>2
  <2>3. CASE i # p /\ j # p
    <3>1. at(i) \in DOMAIN old /\ v[i] = old[at(i)] /\ at(j) \in DOMAIN old /\ v[j] = old[at(j)]
      BY Zenon, <1>5, <1>7, <2>3
    <3>2. at(i) = at(j) \/ v[i].payload \in repeated
      BY Zenon, <1>3, <1>12, <3>1
    <3>3. at(i) = at(j) => i = j
      BY Zenon, <1>5, <1>8, <2>3
    <3> QED BY Zenon, <3>2, <3>3
  <2> QED BY <2>2, <2>3
<1>13. ASSUME NEW i \in DOMAIN v, NEW m \in DOMAIN delivered, v[i].payload \in Range(delivered[m])
       PROVE  v[i].payload \in repeated'
  BY Zenon, <1>1, <1>3, <1>10, <1>13 DEF Deliveries
<1>14. \E i \in DOMAIN v : v[i] = f
  BY Zenon, <1>5, <1>6
<1>15. \A j \in DOMAIN old : \E i \in DOMAIN v : v[i] = old[j]
  BY Zenon, <1>5, <1>9
<1> QED BY Zenon, <1>4, <1>5, <1>11, <1>12, <1>13, <1>14, <1>15 DEF v, old

\* Fragments with the same payload have the same key, which is that of the datagram.
LEMMA PayloadKey ==
  ASSUME NEW ds, NEW f, Genuine(f, ds)
  PROVE  KeyOf(f) = KeyOf(ds[f.payload[1]])
BY Zenon DEF Genuine, KeyOf

\* IP_Layer::Receive keeps what is known of the receiver.
LEMMA ReceiveKeeps ==
  ASSUME IInv, NEW f \in Fragment, Genuine(f, datagrams), Receive(f), UNCHANGED datagrams,
         repeated \subseteq repeated', f.payload \in received => f.payload \in repeated'
  PROVE  /\ \A k \in DOMAIN fragmentDict' : fragmentDict'[k] \in Seq(Fragment)
         /\ received' = received \cup {f.payload}
         /\ delivered' \in Seq(Seq(Nat \X Nat))
         /\ Entries' /\ Deliveries' /\ Once' /\ Kept'
<1> DEFINE key == KeyOf(f)
           old == OldVector(f)
           v == insertToMap(old, f)
           u == [i \in DOMAIN v |-> v[i].payload]
           others == DOMAIN fragmentDict \ {key}
<1>1. /\ received' = received \cup {f.payload}
      /\ check(v) => /\ delivered' = Append(delivered, u)
                     /\ fragmentDict' = [k \in others |-> fragmentDict[k]]
      /\ ~ check(v) => /\ fragmentDict' = [k \in others \cup {key} |->
                                            IF k = key THEN v ELSE fragmentDict[k]]
                       /\ delivered' = delivered
  BY Zenon DEF Receive, KeyOf, OldVector
<1>2. TypeOK /\ Sent /\ Entries /\ Deliveries /\ Once /\ Kept
  BY Zenon DEF IInv
<1>3. /\ v \in Seq(Fragment) /\ v # <<>> /\ Sorted(v)
      /\ \A i \in DOMAIN v : /\ Genuine(v[i], datagrams) /\ KeyOf(v[i]) = key
                             /\ v[i].payload \in received'
      /\ \A i, j \in DOMAIN v : v[i].payload = v[j].payload => i = j \/ v[i].payload \in repeated'
      /\ \A i \in DOMAIN v, n \in DOMAIN delivered :
           v[i].payload \in Range(delivered[n]) => v[i].payload \in repeated'
      /\ \E i \in DOMAIN v : v[i] = f
      /\ \A j \in DOMAIN old : \E i \in DOMAIN v : v[i] = old[j]
  BY Zenon, <1>1, Inserted
<1>4. key \in DOMAIN fragmentDict => old = fragmentDict[key]
  BY Zenon DEF OldVector
<1>5. DOMAIN u = DOMAIN v /\ \A i \in DOMAIN v : u[i] = v[i].payload
  BY Zenon
<1>6. datagrams \in Seq(Datagram)
  BY Zenon, <1>2 DEF TypeOK, Datagram
<1>k. KeyOf(datagrams[f.payload[1]]) = key
  BY Zenon, PayloadKey
<1>o. others = DOMAIN fragmentDict \ {key}
  OBVIOUS
<1>c. check(v) => Deliverable(u, datagrams)
  BY Zenon, <1>3, <1>6, CheckedIsDeliverable
<1>t. u \in Seq(Nat \X Nat)
  <2> HIDE DEF v
  <2>1. DOMAIN v = 1 .. Len(v) /\ Len(v) \in Nat /\ \A i \in DOMAIN v : v[i].payload \in Nat \X Nat
    BY Zenon, <1>3, FragmentTypes
  <2>2. u \in [1 .. Len(v) -> Nat \X Nat]
    BY Zenon, <2>1
  <2> HIDE DEF u
  <2> QED BY <2>1, <2>2
<1> HIDE DEF key, old, v, u, others
<1>7. CASE check(v)
  <2> DEFINE m == Len(delivered)
  <2>1. /\ DOMAIN fragmentDict' = others
        /\ \A k \in others : k \in DOMAIN fragmentDict /\ k # key /\ fragmentDict'[k] = fragmentDict[k]
    BY Zenon, <1>1, <1>7, <1>o
  <2>2. /\ delivered' \in Seq(Seq(Nat \X Nat)) /\ DOMAIN delivered = 1 .. m
        /\ DOMAIN delivered' = 1 .. m + 1 /\ m \in Nat
        /\ \A n \in 1 .. m : delivered'[n] = delivered[n]
        /\ delivered'[m + 1] = u
    <3>1. delivered \in Seq(Seq(Nat \X Nat)) /\ delivered' = Append(delivered, u)
      BY Zenon, <1>1, <1>2, <1>7 DEF TypeOK
    <3>2. /\ delivered' \in Seq(Seq(Nat \X Nat)) /\ Len(delivered') = m + 1
          /\ \A n \in 1 .. m : delivered'[n] = delivered[n]
          /\ delivered'[m + 1] = u
      BY <1>t, <3>1, AppendProperties
    <3> QED BY <3>1, <3>2, LenProperties
  <2> HIDE DEF m
  <2>3. \A n \in DOMAIN delivered' : n = m + 1 \/ (n \in DOMAIN delivered /\ n # m + 1)
    BY <2>2
  <2>4. Range(u) = {v[i].payload : i \in DOMAIN v} /\ Range(u) \subseteq received'
    <3>1. Range(u) = {v[i].payload : i \in DOMAIN v}
      BY <1>5 DEF Range
    <3>2. \A i \in DOMAIN v : v[i].payload \in received'
      BY Zenon, <1>3
    <3> QED BY <3>1, <3>2
  <2>5. \A k \in DOMAIN fragmentDict' : fragmentDict'[k] \in Seq(Fragment)
    BY Zenon, <1>2, <2>1 DEF TypeOK
  <2>6. Entries'
    <3> SUFFICES ASSUME NEW k \in others
                 PROVE  /\ Entry(fragmentDict[k], k, datagrams)
                        /\ \A i \in DOMAIN fragmentDict[k] : fragmentDict[k][i].payload \in received'
      BY Zenon, <2>1 DEF Entries
    <3>1. k \in DOMAIN fragmentDict
      BY Zenon, <2>1
    <3>2. received' = received \cup {f.payload}
      BY Zenon, <1>1
    <3>3. received \subseteq received'
      BY Zenon, <3>2
    <3> QED BY Zenon, <1>2, <3>1, <3>3 DEF Entries
  <2>7. Deliveries'
    <3>1. ASSUME NEW n \in DOMAIN delivered'
          PROVE  Deliverable(delivered'[n], datagrams) /\ Range(delivered'[n]) \subseteq received'
      <4>1. CASE n = m + 1
        BY Zenon, <1>7, <1>c, <2>2, <2>4, <4>1
      <4>2. CASE n \in DOMAIN delivered
        BY Zenon, <1>1, <1>2, <2>2, <4>2 DEF Deliveries
      <4> QED BY <2>3, <4>1, <4>2
    <3> QED BY Zenon, <3>1 DEF Deliveries
  <2>8. Once'
    <3>1. ASSUME NEW k \in others, NEW i \in DOMAIN fragmentDict[k]
          PROVE  fragmentDict[k][i].payload \notin Range(u)
      <4> DEFINE g == fragmentDict[k][i]
      <4> SUFFICES ASSUME NEW j \in DOMAIN v, g.payload = v[j].payload PROVE FALSE
        BY Zenon, <2>4
      <4>1. Genuine(g, datagrams) /\ KeyOf(g) = k /\ k # key
        BY Zenon, <1>2, <2>1 DEF Entries, Entry
      <4>2. Genuine(v[j], datagrams) /\ KeyOf(v[j]) = key
        BY Zenon, <1>3
      <4> HIDE DEF g
      <4> QED BY Zenon, <4>1, <4>2, PayloadKey
    <3>2. ASSUME NEW k \in others
          PROVE  /\ \A i, j \in DOMAIN fragmentDict[k] :
                      fragmentDict[k][i].payload = fragmentDict[k][j].payload =>
                        i = j \/ fragmentDict[k][i].payload \in repeated'
                 /\ \A i \in DOMAIN fragmentDict[k], n \in DOMAIN delivered' :
                      fragmentDict[k][i].payload \in Range(delivered'[n]) =>
                        fragmentDict[k][i].payload \in repeated'
      <4> DEFINE w == fragmentDict[k]
      <4>1. /\ \A i, j \in DOMAIN w : w[i].payload = w[j].payload => i = j \/ w[i].payload \in repeated
            /\ \A i \in DOMAIN w, n \in DOMAIN delivered :
                 w[i].payload \in Range(delivered[n]) => w[i].payload \in repeated
            /\ \A i \in DOMAIN w : w[i].payload \notin Range(u)
        BY Zenon, <1>2, <2>1, <3>1 DEF Once
      <4> HIDE DEF w
      <4>2. ASSUME NEW i \in DOMAIN w, NEW n \in DOMAIN delivered', w[i].payload \in Range(delivered'[n])
            PROVE  w[i].payload \in repeated'
        BY Zenon, <2>2, <2>3, <4>1, <4>2
      <4> QED BY Zenon, <4>1, <4>2 DEF w
    <3>3. ASSUME NEW a \in DOMAIN delivered', NEW b \in DOMAIN delivered', a # b,
                 NEW p \in Range(delivered'[a]), p \in Range(delivered'[b])
          PROVE  p \in repeated'
      <4>1. ASSUME NEW n \in DOMAIN delivered, p \in Range(u), p \in Range(delivered[n])
            PROVE  p \in repeated'
        <5>1. PICK j \in DOMAIN v : p = v[j].payload
          BY Zenon, <2>4, <4>1
        <5> QED BY Zenon, <1>3, <4>1, <5>1
      <4>2. CASE a = m + 1
        BY Zenon, <2>2, <2>3, <3>3, <4>1, <4>2
      <4>3. CASE b = m + 1
        BY Zenon, <2>2, <2>3, <3>3, <4>1, <4>3
      <4>4. CASE a # m + 1 /\ b # m + 1
        BY Zenon, <1>2, <2>2, <2>3, <3>3, <4>4 DEF Once
      <4> QED BY <4>2, <4>3, <4>4
    <3> QED BY Zenon, <2>1, <3>2, <3>3 DEF Once
  <2>9. Kept'
    <3> SUFFICES ASSUME NEW p \in received', Unique(p[1], datagrams), \A r \in repeated' : r[1] # p[1]
                 PROVE  All(p[1], datagrams) \in Range(delivered') \/ Holds(p, fragmentDict', datagrams)
      BY Zenon DEF Kept
    <3>1. Range(delivered) \subseteq Range(delivered') /\ u \in Range(delivered')
      <4>1. m + 1 \in DOMAIN delivered' /\ \A n \in 1 .. m : n \in DOMAIN delivered'
        <5>1. \A x \in Nat : x + 1 \in 1 .. x + 1 /\ \A n \in 1 .. x : n \in 1 .. x + 1
          OBVIOUS
        <5> QED BY Zenon, <2>2, <5>1
      <4>2. ASSUME NEW n \in DOMAIN delivered PROVE delivered[n] \in Range(delivered')
        BY Zenon, <2>2, <4>1 DEF Range
      <4>3. u \in Range(delivered')
        BY Zenon, <2>2, <4>1 DEF Range
      <4> QED BY Zenon, <4>2, <4>3 DEF Range
    <3>2. ASSUME NEW i \in DOMAIN v, v[i].payload = p PROVE All(p[1], datagrams) \in Range(delivered')
      <4>1. 1 \in DOMAIN v
        BY <1>3, LenProperties, EmptySeq
      <4>2. Same(u[i][1], u[1][1], datagrams) /\ u[i] = p /\ Piece(u[1], datagrams)
        BY Zenon, <1>5, <1>7, <1>c, <3>2, <4>1 DEF Deliverable
      <4>3. u[1][1] = p[1]
        BY Zenon, <4>2 DEF Unique, Piece
      <4>4. u = All(p[1], datagrams)
        BY Zenon, <1>7, <1>c, <4>3 DEF Deliverable
      <4> QED BY Zenon, <3>1, <4>4
    <3>3. CASE p = f.payload
      BY Zenon, <1>3, <3>2, <3>3
    <3>4. CASE p \in received
      <4>1. All(p[1], datagrams) \in Range(delivered) \/ Holds(p, fragmentDict, datagrams)
        BY Zenon, <1>2, <3>4 DEF Kept
      <4>2. CASE Holds(p, fragmentDict, datagrams)
        <5> DEFINE k == KeyOf(datagrams[p[1]])
        <5>1. k \in DOMAIN fragmentDict /\ \E i \in DOMAIN fragmentDict[k] : fragmentDict[k][i].payload = p
          BY Zenon, <4>2 DEF Holds
        <5>2. CASE k = key
          <6>1. PICK j \in DOMAIN old : old[j].payload = p
            BY Zenon, <1>4, <5>1, <5>2
          <6>2. PICK i \in DOMAIN v : v[i] = old[j]
            BY Zenon, <1>3
          <6> QED BY Zenon, <3>2, <6>1, <6>2
        <5>3. CASE k # key
          BY Zenon, <1>o, <2>1, <5>1, <5>3 DEF Holds
        <5> QED BY Zenon, <5>2, <5>3
      <4> QED BY Zenon, <3>1, <4>1, <4>2
    <3> QED BY Zenon, <1>1, <3>3, <3>4
  <2> QED BY Zenon, <1>1, <2>2, <2>5, <2>6, <2>7, <2>8, <2>9
<1>8. CASE ~ check(v)
  <2>1. /\ DOMAIN fragmentDict' = others \cup {key} /\ fragmentDict'[key] = v
        /\ \A k \in others : k \in DOMAIN fragmentDict /\ k # key /\ fragmentDict'[k] = fragmentDict[k]
        /\ delivered' = delivered
    BY Zenon, <1>1, <1>8, <1>o
  <2>2. \A k \in DOMAIN fragmentDict' : fragmentDict'[k] \in Seq(Fragment)
    BY Zenon, <1>2, <1>3, <2>1 DEF TypeOK
  <2>3. Entries'
    <3> SUFFICES ASSUME NEW k \in DOMAIN fragmentDict'
                 PROVE  /\ Entry(fragmentDict'[k], k, datagrams)
                        /\ \A i \in DOMAIN fragmentDict'[k] : fragmentDict'[k][i].payload \in received'
      BY Zenon DEF Entries
    <3>1. CASE k = key
      BY Zenon, <1>3, <1>8, <2>1, <3>1 DEF Entry
    <3>2. CASE k \in others
      BY Zenon, <1>1, <1>2, <2>1, <3>2 DEF Entries
    <3> QED BY Zenon, <2>1, <3>1, <3>2
  <2>4. Deliveries'
    BY Zenon, <1>1, <1>2, <2>1 DEF Deliveries
  <2>5. Once'
    <3>1. ASSUME NEW k \in DOMAIN fragmentDict'
          PROVE  /\ \A i, j \in DOMAIN fragmentDict'[k] :
                      fragmentDict'[k][i].payload = fragmentDict'[k][j].payload =>
                        i = j \/ fragmentDict'[k][i].payload \in repeated'
                 /\ \A i \in DOMAIN fragmentDict'[k], n \in DOMAIN delivered :
                      fragmentDict'[k][i].payload \in Range(delivered[n]) =>
                        fragmentDict'[k][i].payload \in repeated'
      <4>1. CASE k = key
        BY Zenon, <1>3, <2>1, <4>1
      <4>2. CASE k \in others
        BY Zenon, <1>2, <2>1, <4>2 DEF Once
      <4> QED BY Zenon, <2>1, <4>1, <4>2
    <3>2. \A a, b \in DOMAIN delivered : a # b => Range(delivered[a]) \cap Range(delivered[b]) \subseteq repeated'
      BY Zenon, <1>2 DEF Once
    <3> QED BY Zenon, <2>1, <3>1, <3>2 DEF Once
  <2>6. Kept'
    <3> SUFFICES ASSUME NEW p \in received', Unique(p[1], datagrams), \A r \in repeated' : r[1] # p[1]
                 PROVE  All(p[1], datagrams) \in Range(delivered) \/ Holds(p, fragmentDict', datagrams)
      BY Zenon, <2>1 DEF Kept
    <3>1. CASE p = f.payload
      BY Zenon, <1>3, <1>k, <2>1, <3>1 DEF Holds
    <3>2. CASE p \in received
      <4>1. All(p[1], datagrams) \in Range(delivered) \/ Holds(p, fragmentDict, datagrams)
        BY Zenon, <1>2, <3>2 DEF Kept
      <4>2. CASE Holds(p, fragmentDict, datagrams)
        <5> DEFINE k == KeyOf(datagrams[p[1]])
        <5>1. k \in DOMAIN fragmentDict /\ \E i \in DOMAIN fragmentDict[k] : fragmentDict[k][i].payload = p
          BY Zenon, <4>2 DEF Holds
        <5>2. CASE k = key
          <6>1. PICK j \in DOMAIN old : old[j].payload = p
            BY Zenon, <1>4, <5>1, <5>2
          <6>2. PICK i \in DOMAIN v : v[i] = old[j]
            BY Zenon, <1>3
          <6> QED BY Zenon, <2>1, <5>2, <6>1, <6>2 DEF Holds
        <5>3. CASE k # key
          BY Zenon, <1>o, <2>1, <5>1, <5>3 DEF Holds
        <5> QED BY Zenon, <5>2, <5>3
      <4> QED BY Zenon, <4>1, <4>2
    <3> QED BY Zenon, <1>1, <3>1, <3>2
  <2>7. delivered' \in Seq(Seq(Nat \X Nat))
    BY Zenon, <1>2, <2>1 DEF TypeOK
  <2> QED BY Zenon, <1>1, <2>2, <2>3, <2>4, <2>5, <2>6, <2>7
<1> QED BY <1>7, <1>8

\* The first fragment on the wire.
LEMMA FirstOnWire ==
  ASSUME IInv, wire # <<>>
  PROVE  /\ Head(wire) \in Fragment /\ Genuine(Head(wire), datagrams)
         /\ \E i \in DOMAIN wire : wire[i] = Head(wire)
         /\ Head(wire).payload \in received => Head(wire).payload \in repeated
         /\ Head(wire).payload \in Nat \X Nat
<1>1. wire \in Seq(Fragment) /\ OnWire
  BY Zenon DEF IInv, TypeOK
<1>2. Head(wire) \in Fragment /\ 1 \in DOMAIN wire /\ wire[1] = Head(wire)
  BY <1>1, LenProperties, EmptySeq, HeadTailProperties
<1>3. wire[1].payload \in Nat \X Nat
  BY Zenon, <1>1, <1>2, FragmentTypes
<1> QED BY Zenon, <1>1, <1>2, <1>3 DEF OnWire

\* What ethrecv receives had been sent, whether it stays on the wire or not.
LEMMA ReceivedWasSent ==
  ASSUME IInv, wire # <<>>, received' = received \cup {Head(wire).payload},
         \A i \in DOMAIN wire' : \E j \in DOMAIN wire : wire'[i] = wire[j],
         UNCHANGED <<datagrams, sending, next>>
  PROVE  Sent'
<1> DEFINE seen == received \cup {wire[i].payload : i \in DOMAIN wire}
<1>1. Sent /\ \E i \in DOMAIN wire : wire[i] = Head(wire)
  BY Zenon, FirstOnWire DEF IInv
<1>2. \A p \in seen : Piece(p, datagrams) /\ \A t \in Thread : sending[t] = p[1] => p[2] < next[t]
  BY Zenon, <1>1 DEF Sent
<1>3. \A i \in DOMAIN wire : wire[i].payload \in seen
  BY Zenon
<1>4. received \subseteq seen
  BY Zenon
<1> HIDE DEF seen
<1>5. ASSUME NEW p \in received' \cup {wire'[i].payload : i \in DOMAIN wire'}
      PROVE  p \in seen
  <2>1. CASE p \in received'
    BY Zenon, <1>1, <1>3, <1>4, <2>1
  <2>2. CASE p \in {wire'[i].payload : i \in DOMAIN wire'}
    <3>1. PICK i \in DOMAIN wire' : p = wire'[i].payload
      BY Zenon, <2>2
    <3>2. PICK j \in DOMAIN wire : wire'[i] = wire[j]
      BY Zenon
    <3> QED BY Zenon, <1>3, <3>1, <3>2
  <2> QED BY Zenon, <1>5, <2>1, <2>2
<1> QED BY Zenon, <1>2, <1>5 DEF Sent

LEMMA EthrecvIInv ==
  ASSUME IInv, Ethrecv
  PROVE  IInv'
<1> DEFINE f == Head(wire)
<1>1. /\ wire # <<>> /\ Receive(f) /\ wire' = Tail(wire)
      /\ UNCHANGED <<datagrams, randCount, sending, next, repeated>>
  BY Zenon DEF Ethrecv
<1>2. TypeOK /\ Sendings /\ OnWire
  BY Zenon DEF IInv
<1>3. f \in Fragment /\ Genuine(f, datagrams) /\ f.payload \in Nat \X Nat
      /\ (f.payload \in received => f.payload \in repeated)
  BY Zenon, <1>1, FirstOnWire
<1>4. /\ wire' \in Seq(Fragment)
      /\ \A i \in DOMAIN wire' : \E j \in DOMAIN wire : wire'[i] = wire[j]
      /\ \A i \in DOMAIN wire' : wire'[i].payload # f.payload
      /\ \A i, j \in DOMAIN wire' : wire'[i].payload = wire'[j].payload => i = j
  BY Zenon, <1>1, FirstLeaves
<1> HIDE DEF f
<1>5. repeated \subseteq repeated' /\ (f.payload \in received => f.payload \in repeated')
  BY Zenon, <1>1, <1>3
<1>6. /\ \A k \in DOMAIN fragmentDict' : fragmentDict'[k] \in Seq(Fragment)
      /\ received' = received \cup {f.payload}
      /\ delivered' \in Seq(Seq(Nat \X Nat))
      /\ Entries' /\ Deliveries' /\ Once' /\ Kept'
  BY Zenon, <1>1, <1>3, <1>5, ReceiveKeeps
<1>7. TypeOK' /\ Sendings'
  BY Zenon, <1>1, <1>2, <1>3, <1>4, <1>6 DEF TypeOK, Sendings
<1>8. OnWire'
  <2>1. ASSUME NEW i \in DOMAIN wire'
        PROVE  /\ Genuine(wire'[i], datagrams')
               /\ wire'[i].payload \in received' => wire'[i].payload \in repeated'
    <3>1. PICK j \in DOMAIN wire : wire'[i] = wire[j]
      BY Zenon, <1>4
    <3>2. Genuine(wire[j], datagrams) /\ (wire[j].payload \in received => wire[j].payload \in repeated)
      BY Zenon, <1>2 DEF OnWire
    <3>3. wire[j].payload # f.payload
      BY Zenon, <1>4, <3>1
    <3>4. received' = received \cup {f.payload} /\ datagrams' = datagrams /\ repeated' = repeated
      BY Zenon, <1>1, <1>6
    <3>5. wire[j].payload \in received' => wire[j].payload \in repeated'
      BY Zenon, <3>2, <3>3, <3>4
    <3> QED BY Zenon, <3>1, <3>2, <3>4, <3>5
  <2> QED BY Zenon, <1>4, <2>1 DEF OnWire
<1>9. Sent'
  BY Zenon, <1>1, <1>4, <1>6, ReceivedWasSent DEF f
<1> QED BY Zenon, <1>6, <1>7, <1>8, <1>9 DEF IInv

LEMMA EthrecvAgainIInv ==
  ASSUME IInv, EthrecvAgain
  PROVE  IInv'
<1> DEFINE f == Head(wire)
<1>1. /\ wire # <<>> /\ Receive(f) /\ repeated' = repeated \cup {f.payload}
      /\ UNCHANGED <<datagrams, randCount, sending, next, wire>>
  BY Zenon DEF EthrecvAgain
<1>2. TypeOK /\ Sendings /\ OnWire
  BY Zenon DEF IInv
<1>3. f \in Fragment /\ Genuine(f, datagrams) /\ f.payload \in Nat \X Nat
  BY Zenon, <1>1, FirstOnWire
<1> HIDE DEF f
<1>5. repeated \subseteq repeated' /\ f.payload \in repeated'
  BY Zenon, <1>1
<1>6. /\ \A k \in DOMAIN fragmentDict' : fragmentDict'[k] \in Seq(Fragment)
      /\ received' = received \cup {f.payload}
      /\ delivered' \in Seq(Seq(Nat \X Nat))
      /\ Entries' /\ Deliveries' /\ Once' /\ Kept'
  BY Zenon, <1>1, <1>3, <1>5, ReceiveKeeps
<1>7. TypeOK' /\ Sendings'
  BY Zenon, <1>1, <1>2, <1>3, <1>6 DEF TypeOK, Sendings
<1>8. OnWire'
  <2>1. ASSUME NEW i \in DOMAIN wire
        PROVE  wire[i].payload \in received' => wire[i].payload \in repeated'
    BY Zenon, <1>1, <1>2, <1>6 DEF OnWire
  <2> QED BY Zenon, <1>1, <1>2, <2>1 DEF OnWire
<1>9. Sent'
  <2>1. \A i \in DOMAIN wire' : \E j \in DOMAIN wire : wire'[i] = wire[j]
    BY Zenon, <1>1
  <2>2. received' = received \cup {Head(wire).payload} /\ UNCHANGED <<datagrams, sending, next>>
    BY Zenon, <1>1, <1>6 DEF f
  <2>3. wire # <<>>
    BY Zenon, <1>1
  <2> QED BY <2>1, <2>2, <2>3, ReceivedWasSent
<1> QED BY Zenon, <1>6, <1>7, <1>8, <1>9 DEF IInv

----------------------------------------------------------------------------
(* Theorems *)

LEMMA NextIInv ==
  ASSUME IInv, [Next]_vars
  PROVE  IInv'
<1>1. ASSUME NEW t \in Thread, SendFragment(t) PROVE IInv'
  BY Zenon, <1>1, SendFragmentIInv
<1>2. ASSUME NEW t \in Thread, NEW size \in Size, Send(t, size) PROVE IInv'
  BY Zenon, <1>2, SendIInv
<1>3. ASSUME NEW m \in Sender, Reboot(m) PROVE IInv'
  BY Zenon, <1>3, RebootIInv
<1>4. CASE Lose
  BY Zenon, <1>4, LoseIInv
<1>5. CASE Ethrecv
  BY Zenon, <1>5, EthrecvIInv
<1>6. CASE EthrecvAgain
  BY Zenon, <1>6, EthrecvAgainIInv
<1>7. CASE UNCHANGED vars
  <2>1. UNCHANGED <<datagrams, randCount, sending, next, wire, fragmentDict, received, delivered, repeated>>
    BY <1>7 DEF vars
  <2>2. TypeOK /\ Sendings /\ OnWire /\ Sent
    BY Zenon DEF IInv
  <2>3. TypeOK' /\ Sendings'
    BY Zenon, <2>1, <2>2 DEF TypeOK, Sendings
  <2>4. OnWire'
    BY Zenon, <2>1, <2>2 DEF OnWire
  <2>5. wire' = wire /\ received' = received /\ datagrams' = datagrams /\ sending' = sending /\ next' = next
    BY Zenon, <2>1
  <2>6. Sent'
    BY <2>2, <2>5 DEF Sent, Piece
  <2>7. Entries' /\ Deliveries' /\ Once' /\ Kept'
    <3>1. More(datagrams, datagrams')
      BY Zenon, <2>1 DEF More
    <3> QED BY Zenon, <2>1, <3>1, ReceiverKept
  <2> QED BY Zenon, <2>3, <2>4, <2>6, <2>7 DEF IInv
<1> QED BY Zenon, <1>1, <1>2, <1>3, <1>4, <1>5, <1>6, <1>7 DEF Next

\* The invariant holds in every state.  It says of each fragment where it is (still
\* to be sent, on the wire, in one vector of fragmentDict or in one delivered
\* datagram) and that it carries the offset, the flag and the key of its datagram.
THEOREM IPInvariant == Spec => []IInv
<1>1. Init => IInv
  BY Zenon, InitIInv
<1>2. IInv /\ [Next]_vars => IInv'
  BY Zenon, NextIInv
<1> QED BY <1>1, <1>2, PTL DEF Spec

\* The names the proofs use and the ones the properties use.
LEMMA Names ==
  ASSUME NEW d \in DOMAIN datagrams
  PROVE  /\ Whole(d) = All(d, datagrams)
         /\ Unique(d, datagrams) <=> ~ Reused(d)
         /\ \A e : SameKey(e, d) <=> Same(e, d, datagrams)
<1>1. Whole(d) = All(d, datagrams)
  BY Zenon DEF Whole, All, Count
<1>2. \A e : SameKey(e, d) <=> Same(e, d, datagrams)
  BY Zenon DEF SameKey, Same
<1>3. Unique(d, datagrams) <=> ~ Reused(d)
  BY Zenon DEF Unique, Reused, SameKey, Same
<1> QED BY Zenon, <1>1, <1>2, <1>3

\* What IP_Layer gives to UDP_Layer::Receive is in order, has no piece missing or of
\* another key, and is a datagram as it was sent unless its key was reused: for any
\* number of threads and machines, any sizes a UDP_Datagram can have, any loss,
\* repetition and restart.
THEOREM DatagramsIntact == Spec => []Integrity
<1>1. IInv => Integrity
  <2> SUFFICES ASSUME IInv, NEW v \in Range(delivered)
               PROVE  LET d == v[1][1]
                      IN /\ \A k \in DOMAIN v : v[k][2] = k - 1 /\ (v[k][1] = d \/ SameKey(v[k][1], d))
                         /\ Reused(d) \/ v = Whole(d)
    BY Zenon DEF IInv, Integrity
  <2> DEFINE d == v[1][1]
  <2>1. PICK n \in DOMAIN delivered : delivered[n] = v
    BY Zenon DEF Range
  <2>2. Deliverable(v, datagrams) /\ delivered \in Seq(Seq(Nat \X Nat))
    BY Zenon, <2>1 DEF IInv, TypeOK, Deliveries
  <2>3. v \in Seq(Nat \X Nat)
    BY <2>1, <2>2, LenProperties, ElementOfSeq
  <2>4. 1 \in DOMAIN v
    <3>1. v # <<>>
      BY Zenon, <2>2 DEF Deliverable
    <3> QED BY <2>3, <3>1, LenProperties, EmptySeq
  <2>5. /\ \A k \in DOMAIN v : Piece(v[k], datagrams) /\ v[k][2] = k - 1 /\ Same(v[k][1], d, datagrams)
        /\ Unique(d, datagrams) => v = All(d, datagrams)
    BY Zenon, <2>2 DEF Deliverable
  <2>6. d \in DOMAIN datagrams
    BY Zenon, <2>4, <2>5 DEF Piece
  <2> HIDE DEF d
  <2>7. /\ \A k \in DOMAIN v : v[k][2] = k - 1 /\ SameKey(v[k][1], d)
        /\ Reused(d) \/ v = Whole(d)
    BY Zenon, <2>5, <2>6, Names
  <2> QED BY Zenon, <2>7 DEF d
<1> QED BY <1>1, IPInvariant, PTL

\* Entries of fragmentDict are sorted, hold fragments of one datagram (or of those with
\* one key), and are not complete: insertToMap and check leave nothing else behind.
THEOREM EntriesArePending == Spec => []EntriesPending
<1>1. IInv => EntriesPending
  <2> SUFFICES ASSUME IInv, NEW k \in DOMAIN fragmentDict
               PROVE  LET v == fragmentDict[k]
                      IN /\ v # <<>>
                         /\ IsSorted(v, LAMBDA f, g : f.fragmentOffset <= g.fragmentOffset)
                         /\ \A i, j \in DOMAIN v : SameKey(v[i].payload[1], v[j].payload[1])
                         /\ ~ check(v)
    BY Zenon DEF EntriesPending
  <2> DEFINE v == fragmentDict[k]
  <2>1. v \in Seq(Fragment) /\ datagrams \in Seq(Datagram) /\ Entry(v, k, datagrams)
    BY Zenon DEF IInv, TypeOK, Datagram, Entries
  <2> HIDE DEF v
  <2>2. v # <<>> /\ ~ check(v) /\ Sorted(v)
    BY Zenon, <2>1 DEF Entry
  <2>3. \A i, j \in 1 .. Len(v) : i < j => v[i].fragmentOffset <= v[j].fragmentOffset
    BY Zenon, <2>1, <2>2, FragmentTypes DEF Sorted
  <2>4. IsSorted(v, LAMBDA f, g : f.fragmentOffset <= g.fragmentOffset)
    BY <2>3 DEF IsSorted
  <2>5. \A i, j \in DOMAIN v : SameKey(v[i].payload[1], v[j].payload[1])
    <3> SUFFICES ASSUME NEW i \in DOMAIN v, NEW j \in DOMAIN v
                 PROVE  Same(v[i].payload[1], v[j].payload[1], datagrams)
      BY Zenon DEF SameKey, Same
    <3>1. Genuine(v[i], datagrams) /\ Genuine(v[j], datagrams) /\ KeyOf(v[i]) = KeyOf(v[j])
      BY Zenon, <2>1 DEF Entry
    <3> QED BY Zenon, <2>1, <3>1, GenuineKey
  <2> QED BY Zenon, <2>2, <2>4, <2>5 DEF v
<1> QED BY <1>1, IPInvariant, PTL

\* IP_Layer::Receive passes a datagram on as soon as all its fragments have come, if
\* none came twice and no restarted machine has used its key.
THEOREM CleanDatagramsDelivered == Spec => []CleanDelivered
<1>1. IInv => CleanDelivered
  <2> SUFFICES ASSUME IInv, NEW d \in DOMAIN datagrams, Clean(d), Range(Whole(d)) \subseteq received,
                      Whole(d) \notin Range(delivered)
               PROVE  FALSE
    BY Zenon DEF CleanDelivered
  <2> DEFINE c == Count(d, datagrams)
             k == KeyOf(datagrams[d])
             v == fragmentDict[k]
  <2>1. /\ Unique(d, datagrams) /\ All(d, datagrams) \notin Range(delivered)
        /\ \A r \in repeated : r[1] # d
    BY Zenon, Names DEF Clean
  <2>2. datagrams \in Seq(Datagram) /\ c \in 1 .. 45
    <3>1. datagrams \in Seq(Datagram)
      BY Zenon DEF IInv, TypeOK, Datagram
    <3> QED BY Zenon, <3>1, DatagramTypes, Offsets DEF Count
  <2> HIDE DEF c
  <2>3. ASSUME NEW x \in 0 .. c - 1
        PROVE  /\ k \in DOMAIN fragmentDict
               /\ \E i \in DOMAIN v : v[i].payload = <<d, x>>
    <3>1. x + 1 \in 1 .. c /\ (x + 1) - 1 = x
      BY <2>2
    <3>2. Whole(d) = [i \in 1 .. c |-> <<d, i - 1>>]
      BY Zenon DEF Whole, c, Count
    <3>3. <<d, x>> \in Range(Whole(d))
      <4>1. x + 1 \in DOMAIN Whole(d) /\ Whole(d)[x + 1] = <<d, x>>
        BY <3>1, <3>2
      <4> QED BY Zenon, <4>1 DEF Range
    <3>4. <<d, x>> \in received /\ <<d, x>>[1] = d
      BY Zenon, <3>3
    <3>5. Holds(<<d, x>>, fragmentDict, datagrams)
      BY Zenon, <2>1, <3>4 DEF IInv, Kept
    <3> QED BY Zenon, <3>4, <3>5 DEF Holds
  <2>4. 0 \in 0 .. c - 1
    BY <2>2
  <2>5. k \in DOMAIN fragmentDict
    BY Zenon, <2>3, <2>4
  <2>6. PICK a \in DOMAIN v : v[a].payload = <<d, 0>>
    BY Zenon, <2>3, <2>4
  <2>7. /\ v \in Seq(Fragment) /\ Sorted(v) /\ ~ check(v)
        /\ \A i \in DOMAIN v : Genuine(v[i], datagrams) /\ KeyOf(v[i]) = k
        /\ \A i, j \in DOMAIN v : v[i].payload = v[j].payload => i = j \/ v[i].payload \in repeated
    BY Zenon, <2>5 DEF IInv, TypeOK, Entries, Entry, Once
  <2> HIDE DEF v
  <2>8. ASSUME NEW i \in DOMAIN v PROVE v[i].payload[1] = d
    <3>1. Same(v[i].payload[1], v[a].payload[1], datagrams)
      BY Zenon, <2>2, <2>7, GenuineKey
    <3>2. v[a].payload[1] = d
      BY <2>6
    <3>3. v[i].payload[1] \in DOMAIN datagrams
      BY Zenon, <2>7 DEF Genuine, Piece
    <3> QED BY Zenon, <2>1, <3>1, <3>2, <3>3 DEF Unique, Same
  <2>9. \A i, j \in DOMAIN v : v[i].payload = v[j].payload => i = j
    BY Zenon, <2>1, <2>7, <2>8
  <2> QED BY Zenon, <2>2, <2>3, <2>7, <2>8, <2>9, CompletePassesCheck DEF c
<1> QED BY <1>1, IPInvariant, PTL

\* A datagram is given to UDP_Layer::Receive at most once, unless each of its fragments
\* was read twice by pktrecv.
THEOREM DatagramsDeliveredOnce == Spec => []DeliveredOnce
<1>1. IInv => DeliveredOnce
  <2> SUFFICES ASSUME IInv, NEW i \in DOMAIN delivered, NEW j \in DOMAIN delivered,
                      i # j, delivered[i] = delivered[j]
               PROVE  Range(delivered[i]) \subseteq repeated
    BY Zenon DEF DeliveredOnce
  <2>1. Range(delivered[i]) \cap Range(delivered[j]) \subseteq repeated
    BY Zenon DEF IInv, Once
  <2> QED BY Zenon, <2>1
<1> QED BY <1>1, IPInvariant, PTL
=============================================================================
