----------------------------- MODULE StunProofs -----------------------------
(* What the STUN codec makes of a message.  It never reads outside it, whatever
   octets it consists of; and of what a server said it lists just the
   attributes that arrived, each with the octets the server put there.       *)
EXTENDS Servers, CollectionLemmas

-----------------------------------------------------------------------------
(* Octets of a datagram. *)

(* Two octets, big endian, are a number. *)
LEMMA NumberOfOctets ==
    ASSUME NEW a \in Octet, NEW b \in Octet
    PROVE  256 * a + b \in Nat
<1>1. a \in Nat /\ b \in Nat
  BY DEF Octet
<1>2. QED
  BY <1>1

(* Octets are numbers. *)
LEMMA NumbersOfOctets ==
    ASSUME NEW s \in Seq(Octet)
    PROVE  s \in Seq(Int) /\ Len(s) \in Nat
<1>1. Octet \subseteq Int
  BY DEF Octet
<1>2. QED
  BY <1>1, SeqMonotonic, LenProperties

(* Zeros are octets. *)
LEMMA ZerosTyped ==
    ASSUME NEW n \in Nat
    PROVE  Zeros(n) \in Seq(Int) /\ Len(Zeros(n)) = n /\ Zeros(n) \in [1..n -> Octet]
<1>1. Zeros(n) \in [1..n -> Octet] /\ Zeros(n) \in [1..n -> Int]
  BY DEF Zeros, Octet
<1>2. QED
  BY <1>1, FunctionIsSeq

(* A datagram, as far as it goes, holds some octets from a place on. *)
Holds(m, header, at, octets) ==
    \A p \in 1..Len(octets) : at + p <= m.size => m.body[(at + p) - header] = octets[p]

(* A datagram that holds octets holds what lies in them. *)
LEMMA HoldsWithin ==
    ASSUME NEW m, NEW header, NEW at \in Nat, NEW all, NEW octets, NEW i \in Nat,
           LiesAt(octets, i, all), Holds(m, header, at, all)
    PROVE  Holds(m, header, at + i, octets)
<1>1. ASSUME NEW p \in 1..Len(octets), at + i + p <= m.size
      PROVE  m.body[(at + i + p) - header] = octets[p]
  <2>1. i + p \in 1..Len(all) /\ at + (i + p) = at + i + p
    BY DEF LiesAt
  <2>2. all[i + p] = octets[p]
    BY DEF LiesAt
  <2>3. QED
    BY <1>1, <2>1, <2>2 DEF Holds
<1>2. QED
  BY <1>1 DEF Holds

(* What a cut leaves is held by what is received. *)
LEMMA CutHolds ==
    ASSUME NEW S, NEW body \in Seq(S), NEW header \in Nat, NEW size \in Nat, size <= header + Len(body),
           NEW m, m.size = size, NEW kept, m.body = kept,
           kept = body \/ kept = SubSeq(body, 1, IF size > header THEN size - header ELSE 0)
    PROVE  Holds(m, header, header, body)
<1> DEFINE L == Len(body)
           n == IF size > header THEN size - header ELSE 0
<1>1. L \in Nat
  OBVIOUS
<1> SUFFICES ASSUME NEW p \in 1..L, header + p <= size
             PROVE  kept[(header + p) - header] = body[p]
  BY DEF Holds
<1>2. (header + p) - header = p /\ p \in Nat
  BY <1>1
<1>3. CASE kept = body
  BY <1>2, <1>3
<1>4. CASE kept = SubSeq(body, 1, n)
  <2>1. n \in 0..L /\ p \in 1..n
    BY <1>1, <1>2
  <2> HIDE DEF n
  <2>2. SubSeq(body, 1, n)[p] = body[p]
    <3>1. \A i \in 1..n : SubSeq(body, 1, n)[i] = body[1 + i - 1]
      BY <1>1, <2>1
    <3>2. 1 + p - 1 = p
      BY <1>2
    <3>3. QED
      BY <2>1, <3>1, <3>2
  <2>3. QED
    BY <1>2, <1>4, <2>2
<1>5. QED
  BY <1>3, <1>4

-----------------------------------------------------------------------------
(* decode stays within the message and is aligned. *)

(* What decode keeps of its message, and where it stands in it: the end of
   the message and the place of decode are aligned.                          *)
Decoding ==
    /\ msg \in StunMsg
    /\ decoding \in {"idle", "attributes", "rejected", "decoded"}
    /\ decoding = "attributes" =>
          /\ HeaderIsValid
          /\ offset \in HEADER..End /\ (offset - HEADER) % 4 = 0

(* The fields of a STUN message. *)
LEMMA StunMsgFields ==
    ASSUME NEW m \in StunMsg
    PROVE  /\ m.size \in Nat /\ m.method \in Nat /\ m.length \in Nat
           /\ m.cookie \in Seq(Octet) /\ m.id \in Seq(Octet) /\ m.body \in Seq(Octet)
           /\ m.size >= HEADER => Len(m.body) = m.size - HEADER
BY DEF StunMsg

(* The message of no reply has no header. *)
LEMMA NoMsgTyped == NoMsg \in StunMsg
<1>1. MAGIC_COOKIE \in Seq(Octet)
  BY DEF MAGIC_COOKIE, Octet
<1>2. <<>> \in Seq(Octet)
  OBVIOUS
<1>3. QED
  BY <1>1, <1>2 DEF NoMsg, StunMsg, HEADER

(* An octet within the datagram and behind its header is one of the body's. *)
LEMMA StunOctet ==
    ASSUME msg \in StunMsg, NEW at \in Nat, at >= HEADER, at < msg.size
    PROVE  OctetOf(at) \in Octet
<1>1. /\ msg.size \in Nat /\ msg.body \in Seq(Octet) /\ Len(msg.body) = msg.size - HEADER
      /\ at - HEADER + 1 \in 1..Len(msg.body)
  BY StunMsgFields DEF HEADER
<1>2. QED
  BY <1>1, ElementOfSeq DEF OctetOf

(* The padding of a value fills its attribute up to a multiple of four. *)
LEMMA Padded ==
    ASSUME NEW len \in Nat
    PROVE  Padding(len) \in 0..3 /\ (4 + len + Padding(len)) % 4 = 0
<1>1. Padding(len) \in 0..3
  BY DEF Padding
<1>2. (4 + len + Padding(len)) % 4 = 0
  BY DEF Padding
<1>3. QED
  BY <1>1, <1>2

(* Before an aligned end there is room for the header of an attribute, and with
   a value that fits also its padding does.                                   *)
LEMMA AlignedFits ==
    ASSUME NEW at \in Nat, NEW length \in Nat, NEW len \in Nat, NEW pad \in 0..3,
           at >= HEADER, (at - HEADER) % 4 = 0, length % 4 = 0, at < HEADER + length,
           (4 + len + pad) % 4 = 0
    PROVE  /\ at + 4 <= HEADER + length
           /\ ((at + 4 + len + pad) - HEADER) % 4 = 0
           /\ at + 4 + len <= HEADER + length => at + 4 + len + pad <= HEADER + length
<1>1. at + 4 <= HEADER + length
  BY DEF HEADER
<1>2. ((at + 4 + len + pad) - HEADER) % 4 = 0
  BY DEF HEADER
<1>3. at + 4 + len <= HEADER + length => at + 4 + len + pad <= HEADER + length
  BY <1>2 DEF HEADER
<1>4. QED
  BY <1>1, <1>2, <1>3

(* decode begins aligned with the end of the message, ... *)
LEMMA DecodingBegins ==
    ASSUME NEW m \in StunMsg, DecodeHeader(m)
    PROVE  Decoding'
<1>1. msg' \in StunMsg /\ decoding' \in {"attributes", "rejected"}
  BY DEF DecodeHeader
<1>2. ASSUME decoding' = "attributes"
      PROVE  HeaderIsValid' /\ offset' \in HEADER..End' /\ (offset' - HEADER) % 4 = 0
  <2>1. HeaderIsValid' /\ offset' = HEADER
    BY <1>2 DEF DecodeHeader
  <2>2. msg'.length \in Nat
    BY <1>1, StunMsgFields
  <2>3. QED
    BY <2>1, <2>2 DEF End, HEADER
<1>3. QED
  BY <1>1, <1>2 DEF Decoding

(* ... and each of its turns goes on by a multiple of four, as long as the value
   and its padding fit, so that it never stands a few octets before the end.  *)
Turns ==
    LET len   == U16Of(offset + 2)
        value == offset + 4
        next  == value + len + Padding(len)
    IN  /\ offset \in Nat /\ HEADER <= offset /\ offset < End
        /\ value <= End /\ End \in Nat /\ End <= msg.size /\ len \in Nat /\ next \in Nat
        /\ HEADER <= next /\ (next - HEADER) % 4 = 0
        /\ \/ value + len > End /\ DecodeEnds("rejected")
           \/ /\ value + len <= End /\ next <= End
              /\ attributes' = Append(attributes, [type |-> U16Of(offset), at |-> value, len |-> len])
              /\ offset' = next /\ UNCHANGED <<msg, decoding>>

(* The tests of the turn that the alignment makes superfluous never fail. *)
LEMMA DecodeTurn ==
    ASSUME Decoding, DecodeAttribute
    PROVE  Turns
<1>1. /\ decoding = "attributes" /\ msg \in StunMsg /\ HeaderIsValid
      /\ offset \in HEADER..End /\ (offset - HEADER) % 4 = 0
  BY DEF Decoding, DecodeAttribute
<1>2. /\ msg.size \in Nat /\ msg.length \in Nat /\ msg.length % 4 = 0 /\ End <= msg.size
      /\ End = HEADER + msg.length /\ HEADER = 20 /\ End \in Nat /\ offset \in Nat
      /\ HEADER <= offset /\ offset <= End
  BY <1>1, StunMsgFields DEF HeaderIsValid, End, HEADER
<1> DEFINE len == U16Of(offset + 2)
           end == offset + 4 + len
           next == end + Padding(len)
<1>3. offset < End
  BY DEF DecodeAttribute
<1>4. offset + 4 <= End
  <2>1. 0 \in Nat /\ 0 \in 0..3 /\ (4 + 0 + 0) % 4 = 0
    OBVIOUS
  <2>2. QED
    BY <1>1, <1>2, <1>3, <2>1, AlignedFits
<1>5. len \in Nat
  <2>1. /\ offset + 2 \in Nat /\ offset + 2 >= HEADER /\ offset + 2 < msg.size
        /\ offset + 3 \in Nat /\ offset + 3 >= HEADER /\ offset + 3 < msg.size
        /\ offset + 2 + 1 = offset + 3
    BY <1>2, <1>4
  <2>2. OctetOf(offset + 2) \in Octet /\ OctetOf(offset + 3) \in Octet
    BY <1>1, <2>1, StunOctet
  <2>3. len = 256 * OctetOf(offset + 2) + OctetOf(offset + 3)
    BY <2>1 DEF U16Of
  <2> HIDE DEF len
  <2>4. QED
    BY <2>2, <2>3, NumberOfOctets
<1>6. /\ next \in Nat /\ HEADER <= next /\ (next - HEADER) % 4 = 0
      /\ end \in Nat /\ (end <= End => next <= End)
  <2> DEFINE pad == Padding(len)
  <2> HIDE DEF len
  <2>1. pad \in 0..3 /\ (4 + len + pad) % 4 = 0
    BY <1>5, Padded
  <2> HIDE DEF pad
  <2>2. /\ ((offset + 4 + len + pad) - HEADER) % 4 = 0
        /\ offset + 4 + len <= End => offset + 4 + len + pad <= End
    BY <1>1, <1>2, <1>3, <1>5, <2>1, AlignedFits
  <2>3. pad \in Nat
    BY <2>1
  <2>4. offset + 4 + len + pad \in Nat /\ HEADER <= offset + 4 + len + pad
        /\ offset + 4 + len \in Nat
    BY <1>2, <1>5, <2>3
  <2>5. next = offset + 4 + len + pad /\ end = offset + 4 + len
    BY DEF pad
  <2> HIDE DEF end, next
  <2>6. next \in Nat /\ HEADER <= next /\ end \in Nat
    BY <2>4, <2>5
  <2>7. (next - HEADER) % 4 = 0
    BY <2>2, <2>5
  <2>8. end <= End => next <= End
    BY <2>2, <2>5
  <2>9. QED
    BY <2>6, <2>7, <2>8
<1> HIDE DEF len
<1>7. InBounds(offset + 4) /\ (end <= End => InBounds(end))
  <2> HIDE DEF end, next
  <2>1. offset + 4 <= msg.size /\ (end <= End => end <= msg.size)
    BY <1>2, <1>4, <1>6
  <2>2. QED
    BY <2>1 DEF InBounds
<1>8. ~(offset + 4 > End) /\ (~(end > End) => end <= End) /\ (end <= End => ~(next > End))
  <2> HIDE DEF end, next
  <2>1. QED
    BY <1>2, <1>4, <1>6
<1>9. ASSUME ~(end > End) PROVE end <= End
  <2> HIDE DEF end, next
  <2>1. QED
    BY <1>2, <1>6, <1>9
<1>10. \/ end > End /\ DecodeEnds("rejected")
       \/ /\ end <= End /\ next <= End
          /\ attributes' = Append(attributes,
                              [type |-> U16Of(offset), at |-> offset + 4, len |-> len])
          /\ offset' = next /\ UNCHANGED <<msg, decoding>>
  <2>1. CASE end > End
    BY <1>7, <1>8, <2>1 DEF DecodeAttribute, len
  <2>2. CASE ~(end > End)
    <3>1. end <= End /\ ~(next > End) /\ InBounds(end) /\ InBounds(offset + 4)
      BY <1>7, <1>8, <1>9, <2>2
    <3>2. next <= End
      BY <1>6, <3>1
    <3>3. /\ attributes' = Append(attributes,
                              [type |-> U16Of(offset), at |-> offset + 4, len |-> len])
          /\ offset' = next /\ UNCHANGED <<msg, decoding>>
      BY <1>8, <2>2, <3>1, Zenon DEF DecodeAttribute, len
    <3>4. QED
      BY <3>1, <3>2, <3>3
  <2>3. QED
    BY <2>1, <2>2
<1>11. QED
  BY <1>2, <1>3, <1>4, <1>5, <1>6, <1>10 DEF Turns, len

(* Every step of decode leaves it within the message, and aligned. *)
LEMMA DecodingGoesOn ==
    ASSUME Decoding, StunStep
    PROVE  Decoding'
<1>1. decoding = "attributes" /\ msg \in StunMsg /\ HeaderIsValid
  BY DEF Decoding, StunStep, DecodeAttribute, DecodeDone
<1>2. CASE DecodeDone
  BY <1>1, <1>2 DEF DecodeDone, DecodeEnds, Decoding
<1>3. CASE DecodeAttribute
  <2>1. Turns
    BY <1>3, DecodeTurn
  <2>2. CASE DecodeEnds("rejected")
    BY <1>1, <2>2 DEF DecodeEnds, Decoding
  <2>3. CASE ~DecodeEnds("rejected")
    <3>1. /\ offset' \in Nat /\ HEADER <= offset' /\ offset' <= End /\ End \in Nat
          /\ (offset' - HEADER) % 4 = 0 /\ UNCHANGED <<msg, decoding>>
      BY <2>1, <2>3 DEF Turns
    <3>2. HeaderIsValid' /\ End' = End
      BY <1>1, <3>1 DEF HeaderIsValid, End
    <3>3. offset' \in HEADER..End'
      <4>1. HEADER \in Nat
        BY DEF HEADER
      <4>2. QED
        BY <3>1, <3>2, <4>1
    <3>4. QED
      BY <1>1, <3>1, <3>2, <3>3 DEF Decoding
  <2>4. QED
    BY <2>2, <2>3
<1>4. QED
  BY <1>2, <1>3 DEF StunStep

-----------------------------------------------------------------------------
(* What decode reads where an attribute lies. *)

(* What a datagram holds is what decode reads there. *)
LEMMA StunHeld ==
    ASSUME NEW at \in Nat, NEW octets, Holds(msg, HEADER, at, octets), Len(octets) \in Nat,
           NEW p \in 1..Len(octets), at + p <= msg.size, NEW q, q = at + p - 1
    PROVE  OctetOf(q) = octets[p]
<1>1. p \in Int
  OBVIOUS
<1>2. q - HEADER + 1 = (at + p) - HEADER
  BY <1>1 DEF HEADER
<1>3. QED
  BY <1>2 DEF OctetOf, Holds

(* The header of an attribute: its type and the length of its value. *)
LEMMA StunHeaderHeld ==
    ASSUME NEW at \in Nat, NEW a, Len(a) \in Nat, Len(a) >= 4, Holds(msg, HEADER, at, a),
           msg.size \in Nat, at + 4 <= msg.size
    PROVE  U16Of(at) = 256 * a[1] + a[2] /\ U16Of(at + 2) = 256 * a[3] + a[4]
<1>1. \A p \in 1..4 : p \in 1..Len(a) /\ at + p <= msg.size
  OBVIOUS
<1>2. OctetOf(at) = a[1]
  <2>1. at = at + 1 - 1 /\ 1 \in 1..Len(a) /\ at + 1 <= msg.size
    BY <1>1
  <2>2. QED
    BY <2>1, StunHeld
<1>3. OctetOf(at + 1) = a[2]
  <2>1. at + 1 = at + 2 - 1 /\ 2 \in 1..Len(a) /\ at + 2 <= msg.size
    BY <1>1
  <2>2. QED
    BY <2>1, StunHeld
<1>4. OctetOf(at + 2) = a[3]
  <2>1. at + 2 = at + 3 - 1 /\ 3 \in 1..Len(a) /\ at + 3 <= msg.size
    BY <1>1
  <2>2. QED
    BY <2>1, StunHeld
<1>5. OctetOf(at + 2 + 1) = a[4]
  <2>1. at + 2 + 1 = at + 4 - 1 /\ 4 \in 1..Len(a) /\ at + 4 <= msg.size
    BY <1>1
  <2>2. QED
    BY <2>1, StunHeld
<1>6. QED
  BY <1>2, <1>3, <1>4, <1>5 DEF U16Of

(* An attribute is its header, its value and its padding. *)
Laid(a, type, v) ==
    /\ a \in Seq(Int) /\ v \in Seq(Int) /\ Len(a) \in Nat /\ Len(v) \in Nat
    /\ a[1] = 0 /\ a[2] = type /\ a[3] = 0 /\ a[4] = Len(v)
    /\ LiesAt(v, 4, a)
    /\ Len(a) = 4 + Len(v) + Padding(Len(v))

(* Attribute lays it out that way. *)
LEMMA AttributeLaid ==
    ASSUME NEW type \in Nat, NEW v \in Seq(Int)
    PROVE  Laid(Attribute(type, v), type, v)
<1> DEFINE h == <<0, type, 0, Len(v)>>
           z == Zeros(Padding(Len(v)))
<1>1. Len(v) \in Nat
  BY LenProperties
<1>2. Padding(Len(v)) \in Nat
  <2>1. Padding(Len(v)) \in 0..3
    BY <1>1, Padded
  <2>2. QED
    BY <2>1
<1>3. h \in Seq(Int) /\ Len(h) = 4 /\ h[1] = 0 /\ h[2] = type /\ h[3] = 0 /\ h[4] = Len(v)
  BY <1>1
<1>4. z \in Seq(Int) /\ Len(z) = Padding(Len(v))
  BY <1>2, ZerosTyped
<1>5. Attribute(type, v) = h \o v \o z
  BY DEF Attribute, Padding
<1> HIDE DEF h, z
<1> DEFINE hv == h \o v
<1>6. /\ hv \in Seq(Int) /\ Len(hv) = 4 + Len(v)
      /\ \A p \in 1..Len(h) : hv[p] = h[p]
      /\ \A p \in 1..Len(v) : hv[Len(h) + p] = v[p]
  <2>1. Concatenated(h, v, hv)
    BY <1>3, ConcatNumbers
  <2> HIDE DEF hv
  <2>2. QED
    BY <1>3, <2>1 DEF Concatenated
<1> HIDE DEF hv
<1> DEFINE a == hv \o z
<1>7. /\ a \in Seq(Int) /\ Len(a) = Len(hv) + Len(z) /\ Len(hv) \in Nat
      /\ \A p \in 1..Len(hv) : a[p] = hv[p]
  BY <1>4, <1>6, ConcatNumbers DEF Concatenated
<1>8. Attribute(type, v) = a
  BY <1>5 DEF hv
<1> HIDE DEF a
<1>9. Len(a) = 4 + Len(v) + Padding(Len(v)) /\ Len(a) \in Nat
  BY <1>1, <1>2, <1>4, <1>6, <1>7
<1>10. \A p \in 1..4 : p \in 1..Len(hv) /\ p \in 1..Len(h)
  BY <1>1, <1>3, <1>6
<1>11. a[1] = 0 /\ a[2] = type /\ a[3] = 0 /\ a[4] = Len(v)
  <2>1. \A p \in 1..4 : a[p] = h[p]
    BY <1>6, <1>7, <1>10
  <2>2. QED
    BY <1>3, <2>1
<1>12. LiesAt(v, 4, a)
  <2>1. ASSUME NEW p \in 1..Len(v) PROVE a[4 + p] = v[p]
    <3>1. 4 + p \in 1..Len(hv)
      BY <1>1, <1>6
    <3>2. a[4 + p] = hv[4 + p]
      BY <1>7, <3>1
    <3>3. QED
      BY <1>3, <1>6, <3>2
  <2>2. 4 + Len(v) <= Len(a)
    BY <1>1, <1>2, <1>9
  <2>3. QED
    BY <1>1, <1>9, <2>1, <2>2 DEF LiesAt
<1>13. QED
  BY <1>1, <1>7, <1>8, <1>9, <1>11, <1>12 DEF Laid

(* The value of an attribute that carries an address. *)
ValueLaid(v, n, family, data, key) ==
    /\ v \in Seq(Int) /\ Len(v) = 4 + n
    /\ v[2] = family
    /\ \A i \in 1..n : v[4 + i] = XorOctet(data[i], key[i])

(* AddressValue lays it out that way, xored with the key. *)
LEMMA AddressValueLaid ==
    ASSUME NEW n \in Nat, NEW data \in [1..n -> Octet], NEW key,
           \A i \in 1..n : key[i] \in Octet, NEW family \in Nat
    PROVE  ValueLaid(AddressValue(family, data, key), n, family, data, key)
<1> DEFINE h == <<0, family, 0, 0>>
           x == [i \in DOMAIN data |-> XorOctet(data[i], key[i])]
<1>1. data \in Seq(Octet) /\ Len(data) = n /\ DOMAIN data = 1..n
  BY FunctionIsSeq
<1>2. x \in [1..n -> Int]
  <2>1. \A i \in 1..n : XorOctet(data[i], key[i]) \in Octet
    BY XorAssumption
  <2>2. Octet \subseteq Int
    BY DEF Octet
  <2>3. QED
    BY <1>1, <2>1, <2>2
<1>3. x \in Seq(Int) /\ Len(x) = n /\ \A i \in 1..n : x[i] = XorOctet(data[i], key[i])
  <2>1. \A i \in 1..n : x[i] = XorOctet(data[i], key[i])
    BY <1>1
  <2> HIDE DEF x
  <2>2. QED
    BY <1>2, <2>1, FunctionIsSeq
<1>4. h \in Seq(Int) /\ Len(h) = 4 /\ h[2] = family
  OBVIOUS
<1>5. AddressValue(family, data, key) = h \o x
  BY DEF AddressValue
<1> HIDE DEF h, x
<1>6. /\ h \o x \in Seq(Int) /\ Len(h \o x) = 4 + n
      /\ \A p \in 1..Len(h) : (h \o x)[p] = h[p]
      /\ \A p \in 1..Len(x) : (h \o x)[Len(h) + p] = x[p]
  <2> DEFINE u == h \o x
  <2>1. Concatenated(h, x, u)
    BY <1>3, <1>4, ConcatNumbers
  <2> HIDE DEF u
  <2>2. /\ u \in Seq(Int) /\ Len(u) = 4 + n
        /\ \A p \in 1..Len(h) : u[p] = h[p]
        /\ \A p \in 1..Len(x) : u[Len(h) + p] = x[p]
    BY <1>3, <1>4, <2>1 DEF Concatenated
  <2>3. QED
    BY <2>2 DEF u
<1>7. 2 \in 1..Len(h)
  BY <1>4
<1>8. QED
  BY <1>1, <1>3, <1>4, <1>5, <1>6, <1>7 DEF ValueLaid

(* The octets of an address stand behind four others in its value. *)
LEMMA PlaceInValue ==
    ASSUME NEW at \in Nat, NEW n \in Nat, NEW i \in 1..n, NEW size \in Nat,
           at + (4 + n) <= size
    PROVE  4 + i \in 1..(4 + n) /\ at + (4 + i) <= size /\ at + 3 + i = at + (4 + i) - 1
  OBVIOUS

(* parse_mapped_address and parse_xor_mapped_address undo what the server did to
   the address, and make nothing of a family that they do not know.           *)
LEMMA AddressParsed ==
    ASSUME NEW v6 \in BOOLEAN, NEW saw \in AddressesOf(v6), NEW key,
           \A i \in 1..16 : key[i] \in Octet, NEW v,
           v = AddressValue(Family(saw), saw.data, key), NEW a, NEW at \in Nat,
           a.at = at, a.len = Len(v),
           msg.size \in Nat, at + Len(v) <= msg.size, Holds(msg, HEADER, at, v)
    PROVE  ParseAddress(a, key) = saw
<1> DEFINE n == AddressLen(v6)
<1>1. n \in Nat /\ n <= 16 /\ (n = IF v6 THEN 16 ELSE 4)
  BY DEF AddressLen
<1>2. saw = [v6 |-> v6, data |-> saw.data] /\ saw.v6 = v6 /\ saw.data \in [1..n -> Octet]
  BY DEF AddressesOf
<1> DEFINE family == Family(saw)
           data == saw.data
<1>3. family = (IF v6 THEN 2 ELSE 1)
  BY <1>2 DEF Family
<1>4. /\ data \in [1..n -> Octet] /\ v = AddressValue(family, data, key)
      /\ saw = [v6 |-> v6, data |-> data]
  BY <1>2
<1> HIDE DEF n, family, data
<1>5. family \in Nat /\ \A i \in 1..n : key[i] \in Octet
  <2>1. \A k \in Nat : k <= 16 => \A i \in 1..k : i \in 1..16
    OBVIOUS
  <2>2. \A i \in 1..n : i \in 1..16
    BY <1>1, <2>1
  <2>3. QED
    BY <1>3, <2>2
<1>6. ValueLaid(v, n, family, data, key)
  BY <1>1, <1>4, <1>5, AddressValueLaid
<1>7. /\ Len(v) = 4 + n /\ Len(v) \in Nat /\ v[2] = family
      /\ \A i \in 1..n : v[4 + i] = XorOctet(data[i], key[i])
  BY <1>1, <1>6 DEF ValueLaid
<1>8. OctetOf(at + 1) = family
  <2>1. 2 \in 1..Len(v) /\ at + 2 <= msg.size /\ at + 1 = at + 2 - 1
    BY <1>1, <1>7
  <2>2. QED
    BY <1>7, <2>1, StunHeld
<1>9. \A i \in 1..n : OctetOf(at + 3 + i) = XorOctet(data[i], key[i])
  <2>1. ASSUME NEW i \in 1..n PROVE OctetOf(at + 3 + i) = v[4 + i]
    <3>1. at + (4 + n) <= msg.size
      BY <1>7
    <3>2. msg.size \in Nat /\ n \in Nat /\ at \in Nat /\ i \in 1..n
      BY <1>1
    <3>3. 4 + i \in 1..(4 + n) /\ at + (4 + i) <= msg.size /\ at + 3 + i = at + (4 + i) - 1
      BY <3>1, <3>2, PlaceInValue, ZenonT(60)
    <3> DEFINE q == at + 3 + i
               p == 4 + i
    <3>4. p \in 1..Len(v) /\ at + p <= msg.size /\ q = at + p - 1
      BY <1>7, <3>3
    <3> HIDE DEF p, q
    <3>5. OctetOf(q) = v[p]
      <4>1. Len(v) \in Nat
        BY <1>7
      <4>2. QED
        BY <3>4, <4>1, StunHeld, ZenonT(60)
    <3>6. QED
      BY <3>5 DEF p, q
  <2>2. QED
    BY <1>7, <2>1
<1>10. \A i \in 1..n : XorOctet(OctetOf(at + 3 + i), key[i]) = data[i]
  <2>1. ASSUME NEW i \in 1..n PROVE XorOctet(OctetOf(at + 3 + i), key[i]) = data[i]
    <3>1. data[i] \in Octet /\ key[i] \in Octet
      BY <1>4, <1>5
    <3>2. XorOctet(XorOctet(data[i], key[i]), key[i]) = data[i]
      BY <3>1, XorAssumption
    <3>3. QED
      BY <1>9, <3>2
  <2>2. QED
    BY <2>1
<1>11. [i \in 1..n |-> XorOctet(OctetOf(at + 3 + i), key[i])] = data
  BY <1>4, <1>10
<1>12. a.len = 4 + n
  BY <1>7
<1>13. CASE v6
  <2>1. n = 16 /\ a.len >= 20 /\ OctetOf(at + 1) = 2 /\ ~(OctetOf(at + 1) = 1)
    BY <1>1, <1>3, <1>8, <1>12, <1>13
  <2>2. Addr(TRUE, [i \in 1..16 |-> XorOctet(OctetOf(at + 3 + i), key[i])]) = saw
    BY <1>4, <1>11, <1>13, <2>1 DEF Addr
  <2>3. QED
    BY <2>1, <2>2, Zenon DEF ParseAddress
<1>14. CASE ~v6
  <2>1. n = 4 /\ a.len >= 8 /\ OctetOf(at + 1) = 1
    BY <1>1, <1>3, <1>8, <1>12, <1>14
  <2>2. Addr(FALSE, [i \in 1..4 |-> XorOctet(OctetOf(at + 3 + i), key[i])]) = saw
    BY <1>4, <1>11, <1>14, <2>1 DEF Addr
  <2>3. QED
    BY <2>1, <2>2, Zenon DEF ParseAddress
<1>15. QED
  BY <1>13, <1>14

(* No address is made of the value of a family that the parsers do not know. *)
LEMMA UnknownFamilyParsed ==
    ASSUME NEW key, NEW v, Len(v) \in Nat, Len(v) >= 2, v[2] = 3,
           NEW a, NEW at \in Nat, a.at = at, msg.size \in Nat, at + Len(v) <= msg.size,
           Holds(msg, HEADER, at, v)
    PROVE  ParseAddress(a, key) = NoAddr
<1>1. 2 \in 1..Len(v) /\ at + 2 <= msg.size /\ at + 1 = at + 2 - 1
  OBVIOUS
<1>2. OctetOf(at + 1) = 3
  BY <1>1, StunHeld
<1>3. OctetOf(a.at + 1) # 1 /\ OctetOf(a.at + 1) # 2
  BY <1>2
<1>4. QED
  BY <1>3, Zenon DEF ParseAddress

-----------------------------------------------------------------------------
(* The attributes a server says, and what parse_address makes of each. *)

(* The type and the value of an attribute, by its kind. *)
TypeOf(kind) ==
    IF kind \in {"xor", "unknown"} THEN XorMappedAddress
    ELSE IF kind \in {"mapped", "mangled"} THEN MappedAddress ELSE 34

ValueOf(kind, id, saw) ==
    CASE kind = "xor" -> AddressValue(Family(saw), saw.data, MAGIC_COOKIE \o id)
      [] kind = "mapped" -> AddressValue(Family(saw), saw.data, NoKey)
      [] kind = "mangled" -> AddressValue(1, Zeros(4), NoKey)
      [] kind = "unknown" -> AddressValue(3, Zeros(4), NoKey)
      [] kind = "software" -> Zeros(5)

(* What an address is xored with is octets: those of the cookie and the ID,
   or zeros.                                                                 *)
KeyOfOctets(key) == \A i \in 1..16 : key[i] \in Octet

(* The two keys a server uses. *)
LEMMA Keys ==
    ASSUME NEW id \in [1..12 -> Octet]
    PROVE  KeyOfOctets(MAGIC_COOKIE \o id) /\ KeyOfOctets(NoKey)
<1>1. MAGIC_COOKIE \in Seq(Octet) /\ Len(MAGIC_COOKIE) = 4
  BY DEF MAGIC_COOKIE, Octet
<1>2. id \in Seq(Octet) /\ Len(id) = 12
  BY FunctionIsSeq
<1> DEFINE c == MAGIC_COOKIE
           key == c \o id
<1> HIDE DEF c
<1>3. key \in Seq(Octet) /\ Len(key) = Len(c) + Len(id)
  BY <1>1, <1>2, ConcatProperties DEF c
<1> HIDE DEF key
<1>4. Len(key) = 16
  BY <1>1, <1>2, <1>3 DEF c
<1>5. \A i \in 1..16 : key[i] \in Octet
  BY <1>3, <1>4, ElementOfSeq
<1>6. \A i \in 1..16 : NoKey[i] \in Octet
  BY DEF NoKey, Octet
<1>7. QED
  BY <1>5, <1>6 DEF KeyOfOctets, key, c

(* An IPv4 address takes the first octets of the key. *)
LEMMA KeyBegins ==
    ASSUME NEW key, KeyOfOctets(key), NEW n \in Nat, n <= 16
    PROVE  \A i \in 1..n : key[i] \in Octet
<1>1. \A i \in 1..n : i \in 1..16
  OBVIOUS
<1>2. QED
  BY <1>1 DEF KeyOfOctets

(* The octets of an address of a family. *)
LEMMA FamilyTyped ==
    ASSUME NEW v6 \in BOOLEAN, NEW saw \in AddressesOf(v6)
    PROVE  /\ saw.data \in [1..AddressLen(v6) -> Octet] /\ AddressLen(v6) \in 4..16
           /\ Family(saw) \in Nat
BY DEF AddressesOf, AddressLen, Family

(* Every kind of attribute but the overlong one is laid out as its type and
   value.                                                                    *)
LEMMA KindLaid ==
    ASSUME NEW kind \in AttributeKinds \ {"overlong"}, NEW id \in [1..12 -> Octet],
           NEW v6 \in BOOLEAN, NEW saw \in AddressesOf(v6)
    PROVE  Laid(StunAttribute(kind, id, saw), TypeOf(kind), ValueOf(kind, id, saw))
<1> DEFINE v == ValueOf(kind, id, saw)
<1>1. TypeOf(kind) \in Nat
  BY DEF TypeOf, XorMappedAddress, MappedAddress
<1>2. StunAttribute(kind, id, saw) = Attribute(TypeOf(kind), v)
  BY DEF StunAttribute, ValueOf, TypeOf, AttributeKinds
<1>3. KeyOfOctets(MAGIC_COOKIE \o id) /\ KeyOfOctets(NoKey)
  BY Keys
<1>4. ASSUME NEW n \in 4..16, NEW data \in [1..n -> Octet], NEW family \in Nat,
             NEW key, KeyOfOctets(key)
      PROVE  AddressValue(family, data, key) \in Seq(Int)
  <2>1. n \in Nat /\ \A i \in 1..n : key[i] \in Octet
    BY <1>4, KeyBegins
  <2>2. ValueLaid(AddressValue(family, data, key), n, family, data, key)
    BY <2>1, AddressValueLaid
  <2>3. QED
    BY <2>2 DEF ValueLaid
<1>5. Zeros(4) \in [1..4 -> Octet] /\ Zeros(5) \in Seq(Int)
  BY ZerosTyped
<1>6. v \in Seq(Int)
  <2> DEFINE n == AddressLen(v6)
             data == saw.data
             family == Family(saw)
             key == MAGIC_COOKIE \o id
  <2>1. n \in 4..16 /\ data \in [1..n -> Octet] /\ family \in Nat
    BY FamilyTyped
  <2>2. KeyOfOctets(key)
    BY <1>3
  <2> HIDE DEF n, data, family, key
  <2>3. CASE kind = "xor"
    <3>1. v = AddressValue(family, data, key)
      BY <2>3 DEF ValueOf, family, data, key
    <3>2. QED
      BY <1>4, <2>1, <2>2, <3>1, ZenonT(60)
  <2>4. CASE kind = "mapped"
    <3>1. v = AddressValue(family, data, NoKey)
      BY <2>4 DEF ValueOf, family, data
    <3>2. QED
      BY <1>3, <1>4, <2>1, <3>1, ZenonT(60)
  <2>5. CASE kind = "mangled"
    <3>1. v = AddressValue(1, Zeros(4), NoKey)
      BY <2>5 DEF ValueOf
    <3>2. 4 \in 4..16 /\ 1 \in Nat
      OBVIOUS
    <3>3. QED
      BY <1>3, <1>4, <1>5, <3>1, <3>2
  <2>6. CASE kind = "unknown"
    <3>1. v = AddressValue(3, Zeros(4), NoKey)
      BY <2>6 DEF ValueOf
    <3>2. 4 \in 4..16 /\ 3 \in Nat
      OBVIOUS
    <3>3. QED
      BY <1>3, <1>4, <1>5, <3>1, <3>2
  <2>7. CASE kind = "software"
    BY <1>5, <2>7 DEF ValueOf
  <2>8. QED
    BY <2>3, <2>4, <2>5, <2>6, <2>7 DEF AttributeKinds
<1> HIDE DEF v
<1>7. QED
  BY <1>1, <1>2, <1>6, AttributeLaid DEF v

(* What decode makes of the value of each kind. *)
KeyFor(kind, id) == IF kind = "mapped" THEN NoKey ELSE MAGIC_COOKIE \o id

ParsedTo(a, key, kind, saw) == ParseAddress(a, key) = IF kind = "unknown" THEN NoAddr ELSE saw

HeldAs(a, v) ==
    a.at \in Nat /\ a.len = Len(v) /\ a.at + Len(v) <= msg.size /\ Holds(msg, HEADER, a.at, v)

(* The address that parse_address makes of each kind. *)
LEMMA KindParsed ==
    ASSUME NEW id \in [1..12 -> Octet], NEW v6 \in BOOLEAN, NEW saw \in AddressesOf(v6),
           NEW kind \in {"xor", "mapped", "unknown"}, msg.size \in Nat,
           NEW a, HeldAs(a, ValueOf(kind, id, saw))
    PROVE  ParsedTo(a, KeyFor(kind, id), kind, saw)
<1> DEFINE key == KeyFor(kind, id)
           v == ValueOf(kind, id, saw)
           at == a.at
<1>x. key = (IF kind = "mapped" THEN NoKey ELSE MAGIC_COOKIE \o id) /\ v = ValueOf(kind, id, saw)
  BY DEF KeyFor
<1>y. /\ a.at = at /\ at \in Nat /\ a.len = Len(v) /\ at + Len(v) <= msg.size
      /\ Holds(msg, HEADER, at, v)
  BY DEF HeldAs
<1> HIDE DEF key, v, at
<1>1. \A i \in 1..16 : key[i] \in Octet
  <2>1. KeyOfOctets(key)
    BY <1>x, Keys
  <2>2. QED
    BY <2>1 DEF KeyOfOctets
<1>2. CASE kind # "unknown"
  <2>1. v = AddressValue(Family(saw), saw.data, key)
    BY <1>x, <1>2 DEF ValueOf
  <2>2. ParseAddress(a, key) = saw
    BY <1>1, <1>y, <2>1, AddressParsed
  <2>3. QED
    BY <1>2, <2>2 DEF ParsedTo, key
<1>3. CASE kind = "unknown"
  <2>1. v = AddressValue(3, Zeros(4), NoKey)
    BY <1>x, <1>3 DEF ValueOf
  <2>2. Zeros(4) \in [1..4 -> Octet] /\ \A i \in 1..4 : NoKey[i] \in Octet
    <3>1. KeyOfOctets(NoKey)
      BY Keys
    <3>2. 4 \in Nat /\ 4 <= 16
      OBVIOUS
    <3>3. QED
      BY <3>1, <3>2, ZerosTyped, KeyBegins
  <2>3. ValueLaid(v, 4, 3, Zeros(4), NoKey)
    <3>1. 4 \in Nat /\ 3 \in Nat
      OBVIOUS
    <3>2. QED
      BY <2>1, <2>2, <3>1, AddressValueLaid, ZenonT(60)
  <2>4. Len(v) = 4 + 4 /\ v[2] = 3
    BY <2>3, Zenon DEF ValueLaid
  <2>5. Len(v) \in Nat /\ Len(v) >= 2
    BY <2>4
  <2>6. ParseAddress(a, key) = NoAddr
    BY <1>y, <2>4, <2>5, UnknownFamilyParsed
  <2>7. QED
    BY <1>3, <2>6 DEF ParsedTo, key
<1>4. QED
  BY <1>2, <1>3

-----------------------------------------------------------------------------
(* Where they lie in the message. *)

(* A message that a server sends, attribute by attribute. *)
AttrParts(shape, id, saw) ==
    [i \in DOMAIN shape.attributes |-> StunAttribute(shape.attributes[i], id, saw)]

StunBody(shape, id, saw) == FlattenSeq(AttrParts(shape, id, saw))

(* What a server can say to a request: a message of StunShape, in which an
   overlong attribute is one that says more than the message has.            *)
Sayable(shape, id, saw) ==
    /\ shape \in StunShape /\ id \in [1..12 -> Octet]
    /\ saw.v6 \in BOOLEAN /\ saw \in AddressesOf(saw.v6)
    /\ "overlong" \in ToSet(shape.attributes) => Len(StunBody(shape, id, saw)) < 255

(* The n-th attribute has this place among the octets behind the header. *)
AttrAt(shape, id, saw, n) == Len(JoinOf(AttrParts(shape, id, saw))[n - 1])

Attributed(shape, id, saw, n) ==
    LET kind == shape.attributes[n]
        a    == StunAttribute(kind, id, saw)
        v    == ValueOf(kind, id, saw)
        at   == AttrAt(shape, id, saw, n)
    IN  /\ kind \in AttributeKinds
        /\ at \in Nat /\ Len(a) \in Nat /\ Len(a) >= 4
        /\ LiesAt(a, at, StunBody(shape, id, saw))
        /\ AttrAt(shape, id, saw, n + 1) = at + Len(a)
        /\ kind # "overlong" => Laid(a, TypeOf(kind), v)
        /\ kind = "overlong" => a = <<0, 34, 0, 255>>

(* The attributes of a shape. *)
LEMMA ShapeTyped ==
    ASSUME NEW shape \in StunShape
    PROVE  /\ shape.attributes \in Seq(AttributeKinds) /\ shape.off \in Int
           /\ DOMAIN shape.attributes = 1..Len(shape.attributes)
           /\ Len(shape.attributes) \in Nat
           /\ \A i \in 1..Len(shape.attributes) : shape.attributes[i] \in AttributeKinds
           /\ ToSet(shape.attributes) = {shape.attributes[i] : i \in 1..Len(shape.attributes)}
<1>1. shape.attributes \in Seq(AttributeKinds) /\ shape.off \in Int
  BY DEF StunShape
<1>2. QED
  BY <1>1, LenProperties, ElementOfSeq DEF ToSet

(* The octets of a message, attribute by attribute and all together. *)
LEMMA PartsTyped ==
    ASSUME NEW shape, NEW id, NEW saw, Sayable(shape, id, saw)
    PROVE  /\ AttrParts(shape, id, saw) \in Seq(Seq(Int))
           /\ Len(AttrParts(shape, id, saw)) = Len(shape.attributes)
           /\ Len(shape.attributes) \in Nat
           /\ StunBody(shape, id, saw) \in Seq(Int) /\ Len(StunBody(shape, id, saw)) \in Nat
<1> DEFINE n == Len(shape.attributes)
           P == AttrParts(shape, id, saw)
<1>1. /\ shape \in StunShape /\ n \in Nat /\ DOMAIN shape.attributes = 1..n
      /\ \A i \in 1..n : shape.attributes[i] \in AttributeKinds
  BY ShapeTyped DEF Sayable
<1>2. ASSUME NEW kind \in AttributeKinds PROVE StunAttribute(kind, id, saw) \in Seq(Int)
  <2>1. CASE kind = "overlong"
    BY <2>1 DEF StunAttribute
  <2>2. CASE kind # "overlong"
    <3>1. Laid(StunAttribute(kind, id, saw), TypeOf(kind), ValueOf(kind, id, saw))
      BY <2>2, KindLaid DEF Sayable
    <3>2. QED
      BY <3>1 DEF Laid
  <2>3. QED
    BY <2>1, <2>2
<1> HIDE DEF n
<1>3. P \in [1..n -> Seq(Int)]
  BY <1>1, <1>2 DEF AttrParts
<1> HIDE DEF P
<1>4. P \in Seq(Seq(Int)) /\ Len(P) = n
  BY <1>1, <1>3, FunctionIsSeq
<1>5. FlattenSeq(P) \in Seq(Int)
  BY <1>4, FlattenTyped
<1>6. Len(FlattenSeq(P)) \in Nat
  BY <1>5, LenProperties
<1>7. QED
  BY <1>1, <1>4, <1>5, <1>6 DEF n, P, StunBody

(* Every attribute lies in the message, behind the one before. *)
LEMMA AttributesLie ==
    ASSUME NEW shape, NEW id, NEW saw, Sayable(shape, id, saw),
           NEW n \in 1..Len(shape.attributes)
    PROVE  Attributed(shape, id, saw, n)
<1> DEFINE P == AttrParts(shape, id, saw)
           kind == shape.attributes[n]
           a == StunAttribute(kind, id, saw)
<1>1. P \in Seq(Seq(Int)) /\ Len(P) = Len(shape.attributes) /\ n \in 1..Len(P) /\ n \in Nat
  BY PartsTyped
<1>2. kind \in AttributeKinds /\ P[n] = a
  <2>1. DOMAIN shape.attributes = 1..Len(shape.attributes) /\ kind \in AttributeKinds
    BY ShapeTyped DEF Sayable
  <2>2. QED
    BY <2>1 DEF AttrParts
<1>3. kind # "overlong" => Laid(a, TypeOf(kind), ValueOf(kind, id, saw))
  BY <1>2, KindLaid DEF Sayable
<1>4. kind = "overlong" => a = <<0, 34, 0, 255>>
  BY DEF StunAttribute
<1> HIDE DEF P, a
<1>5. LiesAt(P[n], Len(JoinOf(P)[n - 1]), FlattenSeq(P))
  BY <1>1, PartWithin
<1>6. PartAdded(Int, P, n)
  BY <1>1, JoinedLen
<1>7. Len(JoinOf(P)[n]) = Len(JoinOf(P)[n - 1]) + Len(P[n])
  BY <1>6 DEF PartAdded
<1>8. n + 1 - 1 = n
  BY <1>1
<1>9. Len(a) \in Nat /\ Len(a) >= 4
  <2>1. CASE kind = "overlong"
    <3>1. Len(<<0, 34, 0, 255>>) = 4
      OBVIOUS
    <3>2. QED
      BY <1>4, <2>1, <3>1
  <2>2. CASE kind # "overlong"
    <3>1. Laid(a, TypeOf(kind), ValueOf(kind, id, saw))
      BY <1>3, <2>2
    <3> DEFINE l == Len(ValueOf(kind, id, saw))
    <3>2. Len(a) = 4 + l + Padding(l) /\ l \in Nat
      BY <3>1 DEF Laid
    <3> HIDE DEF l
    <3>3. Padding(l) \in 0..3
      BY <3>2, Padded
    <3>4. QED
      BY <3>2, <3>3
  <2>3. QED
    BY <2>1, <2>2
<1>10. Len(JoinOf(P)[n - 1]) \in Nat
  BY <1>6 DEF PartAdded
<1>11. AttrAt(shape, id, saw, n) = Len(JoinOf(P)[n - 1])
  BY DEF AttrAt, P
<1>12. AttrAt(shape, id, saw, n + 1) = Len(JoinOf(P)[n])
  BY <1>8 DEF AttrAt, P
<1>13. StunBody(shape, id, saw) = FlattenSeq(P)
  BY DEF StunBody, P
<1>14. LiesAt(a, AttrAt(shape, id, saw, n), StunBody(shape, id, saw))
  BY <1>2, <1>5, <1>11, <1>13
<1>15. AttrAt(shape, id, saw, n + 1) = AttrAt(shape, id, saw, n) + Len(a)
  BY <1>2, <1>7, <1>11, <1>12
<1>16. AttrAt(shape, id, saw, n) \in Nat
  BY <1>10, <1>11
<1> HIDE DEF kind
<1>17. QED
  BY <1>2, <1>3, <1>4, <1>9, <1>14, <1>15, <1>16 DEF Attributed, a, kind

(* Multiples of four add up to one. *)
LEMMA FoursAdd ==
    ASSUME NEW a \in Nat, NEW b \in Nat, a % 4 = 0, b % 4 = 0
    PROVE  (a + b) % 4 = 0
OBVIOUS

(* There is no more of the message than its attributes. *)
LEMMA BehindTheLast ==
    ASSUME NEW shape, NEW id, NEW saw, Sayable(shape, id, saw)
    PROVE  AttrAt(shape, id, saw, Len(shape.attributes) + 1) = Len(StunBody(shape, id, saw))
<1> DEFINE P == AttrParts(shape, id, saw)
<1>1. P \in Seq(Seq(Int)) /\ Len(P) = Len(shape.attributes) /\ Len(shape.attributes) \in Nat
  BY PartsTyped
<1> HIDE DEF P
<1>2. FlattenSeq(P) = JoinOf(P)[Len(P)]
  BY <1>1, Flattened
<1>3. Len(shape.attributes) + 1 - 1 = Len(P)
  BY <1>1
<1>4. QED
  BY <1>2, <1>3 DEF AttrAt, StunBody, P

(* A message all of whose attributes are whole ends aligned. *)
LEMMA BodyAligned ==
    ASSUME NEW shape, NEW id, NEW saw, Sayable(shape, id, saw),
           "overlong" \notin ToSet(shape.attributes)
    PROVE  Len(StunBody(shape, id, saw)) % 4 = 0
<1> DEFINE N == Len(shape.attributes)
           At(n) == AttrAt(shape, id, saw, n)
           T == {n \in Nat : n <= N => At(n + 1) \in Nat /\ At(n + 1) % 4 = 0}
<1>1. /\ N \in Nat /\ \A i \in 1..N : shape.attributes[i] \in AttributeKinds
      /\ ToSet(shape.attributes) = {shape.attributes[i] : i \in 1..N}
  BY ShapeTyped DEF Sayable
<1>2. 0 \in T
  <2>1. AttrParts(shape, id, saw) \in Seq(Seq(Int))
    BY PartsTyped
  <2> DEFINE parts == AttrParts(shape, id, saw)
  <2>2. At(0 + 1) = Len(JoinOf(parts)[(0 + 1) - 1])
    BY DEF AttrAt
  <2> HIDE DEF parts
  <2>3. JoinOf(parts)[0] = <<>>
    BY <2>1, JoinedBy DEF parts
  <2>4. Len(JoinOf(parts)[(0 + 1) - 1]) = 0
    BY <2>3
  <2>5. At(0 + 1) = 0
    BY <2>2, <2>4
  <2> HIDE DEF At
  <2>6. QED
    BY <2>5
<1>3. ASSUME NEW n \in Nat, n \in T PROVE n + 1 \in T
  <2> SUFFICES ASSUME n + 1 <= N
               PROVE  At((n + 1) + 1) \in Nat /\ At((n + 1) + 1) % 4 = 0
    OBVIOUS
  <2> DEFINE k == n + 1
             kind == shape.attributes[k]
             a == StunAttribute(kind, id, saw)
             v == ValueOf(kind, id, saw)
  <2>1. k \in 1..N /\ kind # "overlong"
    BY <1>1
  <2>2. Attributed(shape, id, saw, k)
    BY <2>1, AttributesLie
  <2>3. At(k) \in Nat /\ Len(a) \in Nat /\ At(k + 1) = At(k) + Len(a) /\ Laid(a, TypeOf(kind), v)
    BY <2>1, <2>2 DEF Attributed
  <2>4. Len(v) \in Nat /\ Len(a) = 4 + Len(v) + Padding(Len(v))
    BY <2>3 DEF Laid
  <2>5. At(k) % 4 = 0
    <3>1. n <= N /\ (n <= N => At(n + 1) \in Nat /\ At(n + 1) % 4 = 0)
      BY <1>1, <1>3
    <3>2. QED
      BY <3>1
  <2> HIDE DEF At, a, v
  <2>6. Len(a) % 4 = 0
    BY <2>4, Padded
  <2>7. (At(k) + Len(a)) % 4 = 0
    BY <2>3, <2>5, <2>6, FoursAdd
  <2>8. QED
    BY <2>3, <2>7
<1> HIDE DEF T
<1>4. N \in T
  BY <1>1, <1>2, <1>3, SetInduction
<1>5. At(N + 1) % 4 = 0
  BY <1>1, <1>4 DEF T
<1>6. QED
  BY <1>5, BehindTheLast

-----------------------------------------------------------------------------
(* What decode has listed of them, in each state. *)

(* What decode has of a message that a server sent: as much of it as it received,
   and of its attributes the first ones, in order, each with its own value.   *)
StunHeard(shape, id, saw) ==
    /\ msg.method = shape.method /\ msg.id = id
    /\ msg.length = Len(StunBody(shape, id, saw)) + shape.off
    /\ msg.size <= HEADER + Len(StunBody(shape, id, saw))
    /\ Holds(msg, HEADER, HEADER, StunBody(shape, id, saw))

(* The j-th of the attributes listed is the j-th that the server said. *)
Listed(shape, id, saw, j) ==
    LET kind == shape.attributes[j]
        at   == HEADER + AttrAt(shape, id, saw, j) + 4
        len  == Len(ValueOf(kind, id, saw))
    IN  /\ kind # "overlong" /\ at + len <= msg.size
        /\ attributes[j] = [type |-> TypeOf(kind), at |-> at, len |-> len]

AllListed(shape, id, saw) ==
    /\ HeaderIsValid /\ StunHeard(shape, id, saw)
    /\ attributes \in Seq([type : Nat, at : Nat, len : Nat])
    /\ Len(attributes) <= Len(shape.attributes)
    /\ \A j \in 1..Len(attributes) : Listed(shape, id, saw, j)

StunReads(shape, id, saw) ==
    /\ decoding \in {"attributes", "decoded"} => AllListed(shape, id, saw)
    /\ decoding = "attributes" => offset = HEADER + AttrAt(shape, id, saw, Len(attributes) + 1)
    /\ decoding = "decoded" /\ shape.off >= 0 => Len(attributes) = Len(shape.attributes)
    /\ decoding = "rejected" /\ msg.size = HEADER + Len(StunBody(shape, id, saw))
          => ~GoodStun(shape)

(* The header of the attribute where decode stands is the server's. *)
LEMMA AttributeRead ==
    ASSUME NEW shape, NEW id, NEW saw, Sayable(shape, id, saw), StunHeard(shape, id, saw),
           NEW n \in 1..Len(shape.attributes), msg.size \in Nat,
           offset = HEADER + AttrAt(shape, id, saw, n), offset + 4 <= msg.size
    PROVE  LET kind == shape.attributes[n]
           IN  /\ U16Of(offset) = (IF kind = "overlong" THEN 34 ELSE TypeOf(kind))
               /\ U16Of(offset + 2) = (IF kind = "overlong" THEN 255
                                       ELSE Len(ValueOf(kind, id, saw)))
<1> DEFINE kind == shape.attributes[n]
           a == StunAttribute(kind, id, saw)
           at == AttrAt(shape, id, saw, n)
           B == StunBody(shape, id, saw)
<1>1. Attributed(shape, id, saw, n)
  BY AttributesLie
<1> HIDE DEF kind, a, at, B
<1>2. /\ at \in Nat /\ Len(a) \in Nat /\ Len(a) >= 4 /\ LiesAt(a, at, B)
      /\ kind # "overlong" => Laid(a, TypeOf(kind), ValueOf(kind, id, saw))
      /\ kind = "overlong" => a = <<0, 34, 0, 255>>
  BY <1>1 DEF Attributed, kind, a, at, B
<1>3. Holds(msg, HEADER, HEADER, B) /\ HEADER \in Nat
  BY DEF StunHeard, B, HEADER
<1>4. Holds(msg, HEADER, HEADER + at, a)
  BY <1>2, <1>3, HoldsWithin
<1>5. offset = HEADER + at /\ offset \in Nat
  BY <1>2, <1>3 DEF at
<1>6. Holds(msg, HEADER, offset, a)
  BY <1>4, <1>5
<1>7. U16Of(offset) = 256 * a[1] + a[2] /\ U16Of(offset + 2) = 256 * a[3] + a[4]
  BY <1>2, <1>5, <1>6, StunHeaderHeld
<1>8. CASE kind = "overlong"
  <2>1. a[1] = 0 /\ a[2] = 34 /\ a[3] = 0 /\ a[4] = 255
    BY <1>2, <1>8
  <2>2. QED
    BY <1>7, <1>8, <2>1 DEF kind
<1>9. CASE kind # "overlong"
  <2> DEFINE type == TypeOf(kind)
             len == Len(ValueOf(kind, id, saw))
  <2>1. a[1] = 0 /\ a[2] = type /\ a[3] = 0 /\ a[4] = len /\ len \in Nat
    BY <1>2, <1>9 DEF Laid
  <2>2. type \in Nat
    BY DEF TypeOf, XorMappedAddress, MappedAddress
  <2> HIDE DEF type, len
  <2>3. U16Of(offset) = type /\ U16Of(offset + 2) = len
    BY <1>7, <2>1, <2>2
  <2>4. QED
    BY <1>9, <2>3 DEF kind, type, len
<1>10. QED
  BY <1>8, <1>9

(* A turn of decode that takes an attribute. *)
LEMMA AttributeTaken ==
    ASSUME NEW shape, NEW id, NEW saw, Sayable(shape, id, saw), AllListed(shape, id, saw),
           NEW n \in 1..Len(shape.attributes), n = Len(attributes) + 1, msg \in StunMsg,
           offset = HEADER + AttrAt(shape, id, saw, n), Turns, ~DecodeEnds("rejected")
    PROVE  /\ AllListed(shape, id, saw)' /\ decoding' = decoding
           /\ offset' = HEADER + AttrAt(shape, id, saw, Len(attributes') + 1)
<1> DEFINE kind == shape.attributes[n]
           at == AttrAt(shape, id, saw, n)
           B == StunBody(shape, id, saw)
           R == [type : Nat, at : Nat, len : Nat]
           len == U16Of(offset + 2)
           rec == [type |-> U16Of(offset), at |-> offset + 4, len |-> len]
           next == offset + 4 + len + Padding(len)
<1>1. /\ offset \in Nat /\ HEADER <= offset /\ offset + 4 <= End /\ End \in Nat
      /\ End <= msg.size /\ len \in Nat /\ next \in Nat
      /\ offset + 4 + len <= End /\ next <= End
      /\ attributes' = Append(attributes, rec) /\ offset' = next /\ UNCHANGED <<msg, decoding>>
  BY DEF Turns
<1>2. HeaderIsValid /\ StunHeard(shape, id, saw) /\ attributes \in Seq(R)
      /\ \A j \in 1..Len(attributes) : Listed(shape, id, saw, j)
  BY DEF AllListed
<1>3. msg.size \in Nat
  BY StunMsgFields
<1>4. Attributed(shape, id, saw, n)
  BY AttributesLie
<1>5. End = HEADER + msg.length /\ msg.length = Len(B) + shape.off /\ msg.size <= HEADER + Len(B)
  BY <1>2 DEF StunHeard, End
<1> HIDE DEF kind, at, B
<1>6. /\ U16Of(offset) = (IF kind = "overlong" THEN 34 ELSE TypeOf(kind))
      /\ len = (IF kind = "overlong" THEN 255 ELSE Len(ValueOf(kind, id, saw)))
  <2>1. offset + 4 <= msg.size
    BY <1>1, <1>3
  <2>2. QED
    BY <1>2, <1>3, <2>1, AttributeRead DEF kind
<1> HIDE DEF len, next
<1>7. kind # "overlong"
  <2>1. SUFFICES ASSUME kind = "overlong" PROVE FALSE
    OBVIOUS
  <2>2. len = 255
    BY <1>6, <2>1
  <2>3. Len(B) < 255 /\ Len(B) \in Nat
    <3>1. "overlong" \in ToSet(shape.attributes)
      BY <2>1, ShapeTyped DEF kind, Sayable
    <3>2. QED
      BY <3>1, PartsTyped DEF Sayable, B
  <2>4. offset + 4 + 255 <= HEADER + Len(B)
    BY <1>1, <1>3, <1>5, <2>2, <2>3 DEF HEADER
  <2>5. QED
    BY <1>1, <2>3, <2>4 DEF HEADER
<1> DEFINE v == ValueOf(kind, id, saw)
           a == StunAttribute(kind, id, saw)
<1>8. /\ at \in Nat /\ Laid(a, TypeOf(kind), v)
      /\ AttrAt(shape, id, saw, n + 1) = at + Len(a)
  BY <1>4, <1>7 DEF Attributed, kind, at
<1> HIDE DEF v, a
<1>9. Len(v) \in Nat /\ Len(a) = 4 + Len(v) + Padding(Len(v)) /\ len = Len(v)
      /\ U16Of(offset) = TypeOf(kind) /\ offset = HEADER + at
  BY <1>6, <1>7, <1>8 DEF Laid, v, at
<1>10. next = HEADER + AttrAt(shape, id, saw, n + 1)
  <2>1. Padding(len) \in 0..3
    BY <1>1, Padded
  <2> DEFINE pad == Padding(len)
             next2 == AttrAt(shape, id, saw, n + 1)
  <2>2. next = offset + 4 + len + pad /\ Len(a) = 4 + len + pad /\ pad \in Nat
        /\ next2 = at + Len(a)
    BY <1>8, <1>9, <2>1 DEF next
  <2> HIDE DEF pad, next2
  <2>3. HEADER \in Nat
    BY DEF HEADER
  <2>4. next = HEADER + next2
    <3>1. \A h, x, l, p \in Nat : (h + x) + 4 + l + p = h + (x + (4 + l + p))
      OBVIOUS
    <3>2. QED
      BY <1>1, <1>8, <1>9, <2>2, <2>3, <3>1
  <2>5. QED
    BY <2>4 DEF next2
<1>11. rec = [type |-> TypeOf(kind), at |-> HEADER + at + 4, len |-> Len(v)]
  BY <1>9
<1>12. rec \in R
  <2>1. TypeOf(kind) \in Nat
    BY DEF TypeOf, XorMappedAddress, MappedAddress
  <2>2. offset + 4 \in Nat
    BY <1>1
  <2>3. QED
    BY <1>1, <1>9, <2>1, <2>2
<1> HIDE DEF rec, R
<1>13. /\ attributes' \in Seq(R) /\ Len(attributes') = n
       /\ \A j \in 1..Len(attributes) : attributes'[j] = attributes[j]
       /\ attributes'[n] = rec
  BY <1>1, <1>2, <1>12, AppendProperties
<1>14. HeaderIsValid' /\ StunHeard(shape, id, saw)'
  BY <1>1, <1>2 DEF HeaderIsValid, StunHeard, End
<1>15. Listed(shape, id, saw, n)'
  <2>1. HEADER + at + 4 + Len(v) <= msg.size
    BY <1>1, <1>3, <1>9
  <2>2. msg' = msg
    BY <1>1
  <2>3. QED
    BY <1>7, <1>11, <1>13, <2>1, <2>2 DEF Listed, kind, at, v
<1>16. ASSUME NEW j \in 1..Len(attributes) PROVE Listed(shape, id, saw, j)'
  BY <1>1, <1>2, <1>13 DEF Listed
<1>17. \A j \in 1..Len(attributes') : Listed(shape, id, saw, j)'
  <2>1. Len(attributes) \in Nat
    BY <1>2, LenProperties
  <2>2. \A j \in 1..n : j \in 1..Len(attributes) \/ j = n
    BY <2>1
  <2>3. QED
    BY <1>13, <1>15, <1>16, <2>2
<1>18. n <= Len(shape.attributes)
  BY PartsTyped
<1>19. QED
  BY <1>1, <1>10, <1>13, <1>14, <1>17, <1>18 DEF AllListed, R

(* What decode has read stays what the server sent. *)
LEMMA StunReadsOn ==
    ASSUME NEW shape, NEW id, NEW saw, Sayable(shape, id, saw), Decoding,
           StunReads(shape, id, saw), StunStep
    PROVE  StunReads(shape, id, saw)'
<1> DEFINE B == StunBody(shape, id, saw)
           n == Len(attributes) + 1
           N == Len(shape.attributes)
           at == AttrAt(shape, id, saw, n)
<1>1. decoding = "attributes" /\ msg \in StunMsg
  BY DEF Decoding, StunStep, DecodeAttribute, DecodeDone
<1>2. AllListed(shape, id, saw) /\ offset = HEADER + at
  BY <1>1 DEF StunReads
<1>3. /\ End = HEADER + msg.length /\ msg.length = Len(B) + shape.off
      /\ msg.size <= HEADER + Len(B) /\ End <= msg.size
  BY <1>2 DEF AllListed, StunHeard, End, HeaderIsValid
<1>4. /\ Len(B) \in Nat /\ N \in Nat /\ msg.size \in Nat /\ msg.length \in Nat
      /\ shape.off \in Int /\ HEADER \in Nat
  <2>1. Len(B) \in Nat /\ N \in Nat
    BY PartsTyped
  <2>2. shape.off \in Int
    BY ShapeTyped DEF Sayable
  <2>3. QED
    BY <1>1, <2>1, <2>2, StunMsgFields DEF HEADER
<1>5. Len(attributes) \in Nat /\ Len(attributes) <= N
  BY <1>2, LenProperties DEF AllListed
<1>6. n \in 1..N \/ (Len(attributes) = N /\ n = N + 1)
  BY <1>4, <1>5
<1>7. n = N + 1 => at = Len(B)
  BY BehindTheLast
<1>8. n \in 1..N => at \in Nat /\ at + 4 <= Len(B)
  <2>1. SUFFICES ASSUME n \in 1..N PROVE at \in Nat /\ at + 4 <= Len(B)
    OBVIOUS
  <2> DEFINE a == StunAttribute(shape.attributes[n], id, saw)
  <2> HIDE DEF n
  <2>2. at \in Nat /\ Len(a) \in Nat /\ Len(a) >= 4 /\ LiesAt(a, at, B)
    BY <2>1, AttributesLie DEF Attributed
  <2> HIDE DEF at, a, B
  <2>3. at + Len(a) <= Len(B)
    BY <2>2 DEF LiesAt
  <2>4. QED
    BY <1>4, <2>2, <2>3
<1> HIDE DEF n, N, at, B
<1>9. CASE DecodeDone
  <2>1. /\ decoding' = "decoded" /\ UNCHANGED <<msg, offset, attributes>> /\ offset >= End
    BY <1>9 DEF DecodeDone, DecodeEnds
  <2>2. AllListed(shape, id, saw)'
    BY <1>2, <2>1 DEF AllListed, HeaderIsValid, End, StunHeard, Listed
  <2>3. shape.off >= 0 => Len(attributes) = N
    <3>1. SUFFICES ASSUME shape.off >= 0, n \in 1..N PROVE FALSE
      BY <1>6
    <3>2. at \in Nat /\ at + 4 <= Len(B) /\ HEADER + at >= HEADER + (Len(B) + shape.off)
      BY <1>2, <1>3, <1>8, <2>1, <3>1
    <3>3. QED
      BY <1>4, <3>1, <3>2
  <2>4. QED
    BY <2>1, <2>2, <2>3 DEF StunReads, N
<1>10. CASE DecodeAttribute
  <2>1. Turns
    BY <1>10, DecodeTurn
  <2>2. offset < End /\ offset + 4 <= End /\ offset \in Nat /\ End \in Nat
    BY <2>1 DEF Turns
  <2>3. n \in 1..N
    <3>1. SUFFICES ASSUME at = Len(B) PROVE FALSE
      BY <1>6, <1>7
    <3>2. HEADER + Len(B) < End
      BY <1>2, <2>2, <3>1
    <3>3. QED
      BY <1>3, <1>4, <3>2
  <2>4. CASE ~DecodeEnds("rejected")
    <3>1. /\ AllListed(shape, id, saw)' /\ decoding' = decoding
          /\ offset' = HEADER + AttrAt(shape, id, saw, Len(attributes') + 1)
      <4>1. n \in 1..Len(shape.attributes) /\ n = Len(attributes) + 1
            /\ offset = HEADER + AttrAt(shape, id, saw, n)
        BY <1>2, <2>3 DEF n, N, at
      <4>2. QED
        BY <1>1, <1>2, <2>1, <2>4, <4>1, AttributeTaken
    <3>2. QED
      BY <1>1, <3>1 DEF StunReads
  <2>5. CASE DecodeEnds("rejected")
    <3>1. decoding' = "rejected" /\ UNCHANGED <<msg, offset, attributes>>
      BY <2>5 DEF DecodeEnds
    <3>2. ASSUME msg.size = HEADER + Len(B), GoodStun(shape) PROVE FALSE
      <4> DEFINE kind == shape.attributes[n]
                 v == ValueOf(kind, id, saw)
                 a == StunAttribute(kind, id, saw)
                 len == U16Of(offset + 2)
      <4>1. shape.off = 0 /\ "overlong" \notin ToSet(shape.attributes)
        BY <3>2 DEF GoodStun
      <4>2. kind # "overlong"
        BY <2>3, <4>1, ShapeTyped DEF Sayable, N
      <4>3. Laid(a, TypeOf(kind), v) /\ at \in Nat /\ LiesAt(a, at, B)
        BY <2>3, <4>2, AttributesLie DEF Attributed, N, at, B
      <4> HIDE DEF a, v
      <4>4. Len(a) = 4 + Len(v) + Padding(Len(v)) /\ Len(v) \in Nat /\ Len(a) \in Nat
            /\ at + Len(a) <= Len(B)
        BY <4>3 DEF Laid, LiesAt
      <4>5. len = Len(v)
        <5>1. offset + 4 <= msg.size
          BY <1>3, <1>4, <2>2
        <5>2. n \in 1..Len(shape.attributes) /\ offset = HEADER + AttrAt(shape, id, saw, n)
              /\ StunHeard(shape, id, saw)
          BY <1>2, <2>3 DEF N, at, AllListed
        <5>3. QED
          BY <1>4, <4>2, <5>1, <5>2, AttributeRead DEF v
      <4>6. Padding(Len(v)) \in Nat
        <5>1. Padding(Len(v)) \in 0..3
          BY <4>4, Padded
        <5>2. QED
          BY <5>1
      <4>7. offset + 4 + len > End
        <5>1. ASSUME decoding' = decoding PROVE FALSE
          BY <1>1, <3>1, <5>1
        <5>2. QED
          BY <2>1, <5>1 DEF Turns
      <4> HIDE DEF len, kind
      <4>8. End = HEADER + Len(B)
        BY <1>3, <1>4, <4>1
      <4>9. HEADER + at + 4 + Len(v) > HEADER + Len(B)
        BY <1>2, <4>5, <4>7, <4>8
      <4>10. at + (4 + Len(v) + Padding(Len(v))) <= Len(B)
        BY <4>4
      <4> DEFINE pad == Padding(Len(v))
      <4> HIDE DEF pad
      <4>11. QED
        BY <1>4, <4>3, <4>4, <4>6, <4>9, <4>10 DEF pad
    <3>3. QED
      BY <1>1, <3>1, <3>2 DEF StunReads, B
  <2>6. QED
    BY <2>4, <2>5
<1>11. QED
  BY <1>9, <1>10 DEF StunStep

-----------------------------------------------------------------------------
(* What get_mapped_address finds among them. *)

(* Of the attributes of a type there is a first one. *)
LEMMA FirstExists ==
    ASSUME NEW type, NEW S, attributes \in Seq(S), NEW i \in 1..Len(attributes),
           attributes[i].type = type
    PROVE  \E j \in FirstOf(type) : j <= i
<1> DEFINE T == {j \in 1..Len(attributes) : attributes[j].type = type}
<1>1. T \in SUBSET Nat /\ T # {} /\ i \in T /\ DOMAIN attributes = 1..Len(attributes)
      /\ Len(attributes) \in Nat
  BY LenProperties
<1>2. PICK t \in T : \A u \in T : t <= u
  <2> HIDE DEF T
  <2>1. QED
    BY <1>1, LeastNatural
<1>3. t \in DOMAIN attributes /\ attributes[t].type = type /\ t \in Nat
  BY <1>1
<1>4. ASSUME NEW j \in 1..t-1, attributes[j].type = type PROVE FALSE
  <2>1. j \in 1..Len(attributes) /\ ~(t <= j)
    BY <1>1, <1>3
  <2>2. j \in T
    BY <1>4, <2>1
  <2> HIDE DEF T
  <2>3. QED
    BY <1>2, <2>1, <2>2
<1>5. t \in FirstOf(type)
  BY <1>3, <1>4 DEF FirstOf
<1>6. t <= i
  <2> HIDE DEF T
  <2>1. QED
    BY <1>1, <1>2
<1>7. QED
  BY <1>5, <1>6

(* What FirstOf finds is the first attribute of its type. *)
LEMMA FirstKnown ==
    ASSUME NEW type, NEW S, attributes \in Seq(S), NEW i \in FirstOf(type)
    PROVE  /\ i \in 1..Len(attributes) /\ attributes[i].type = type
           /\ \A j \in 1..i-1 : attributes[j].type # type
BY LenProperties DEF FirstOf

(* What get_mapped_address makes of an attribute, by its kind. *)
LEMMA ListedParsed ==
    ASSUME NEW shape, NEW id, NEW saw, Sayable(shape, id, saw), AllListed(shape, id, saw),
           msg \in StunMsg, NEW i \in 1..Len(attributes),
           NEW kind \in {"xor", "mapped", "unknown"}, kind = shape.attributes[i]
    PROVE  ParsedTo(attributes[i], KeyFor(kind, id), kind, saw)
<1> DEFINE a == StunAttribute(kind, id, saw)
           v == ValueOf(kind, id, saw)
           at == AttrAt(shape, id, saw, i)
           B == StunBody(shape, id, saw)
<1>1. i \in 1..Len(shape.attributes)
  <2>1. Len(attributes) <= Len(shape.attributes) /\ Len(attributes) \in Nat
        /\ Len(shape.attributes) \in Nat
    BY PartsTyped, LenProperties DEF AllListed
  <2>2. QED
    BY <2>1
<1>2. Attributed(shape, id, saw, i) /\ Listed(shape, id, saw, i)
  BY <1>1, AttributesLie DEF AllListed
<1> HIDE DEF a, v, at, B
<1>3. /\ at \in Nat /\ LiesAt(a, at, B) /\ Laid(a, TypeOf(kind), v)
      /\ HEADER + at + 4 + Len(v) <= msg.size
      /\ attributes[i] = [type |-> TypeOf(kind), at |-> HEADER + at + 4, len |-> Len(v)]
  BY <1>2 DEF Attributed, Listed, a, v, at, B
<1>4. Holds(msg, HEADER, HEADER, B) /\ HEADER \in Nat /\ 4 \in Nat
  BY DEF AllListed, StunHeard, B, HEADER
<1>5. Holds(msg, HEADER, HEADER + at, a)
  BY <1>3, <1>4, HoldsWithin
<1> DEFINE place == HEADER + at
<1>6. place \in Nat
  BY <1>3, <1>4
<1>7. LiesAt(v, 4, a)
  BY <1>3 DEF Laid
<1> HIDE DEF place
<1>8. Holds(msg, HEADER, place + 4, v)
  BY <1>4, <1>5, <1>6, <1>7, HoldsWithin DEF place
<1> DEFINE q == place + 4
<1>9. q \in Nat /\ q + Len(v) <= msg.size /\ attributes[i].at = q /\ attributes[i].len = Len(v)
      /\ Holds(msg, HEADER, q, v)
  BY <1>3, <1>6, <1>8 DEF place
<1> HIDE DEF q
<1>10. id \in [1..12 -> Octet] /\ saw.v6 \in BOOLEAN /\ saw \in AddressesOf(saw.v6)
       /\ msg.size \in Nat
  BY StunMsgFields DEF Sayable
<1> DEFINE r == attributes[i]
<1>11. r.at \in Nat /\ r.len = Len(v) /\ r.at + Len(v) <= msg.size /\ Holds(msg, HEADER, r.at, v)
  BY <1>9
<1> HIDE DEF r
<1>12. HeldAs(r, ValueOf(kind, id, saw))
  BY <1>11 DEF HeldAs, v
<1>13. ParsedTo(r, KeyFor(kind, id), kind, saw)
  BY <1>10, <1>12, KindParsed
<1>14. QED
  BY <1>13 DEF r

(* get_mapped_address finds the address that the server saw, or none; and finds
   it in every response that lets a client know it.                          *)
LEMMA MappedAddressFound ==
    ASSUME NEW shape, NEW id, NEW saw, Sayable(shape, id, saw), SentBeside(shape),
           StunReads(shape, id, saw), decoding = "decoded", msg \in StunMsg
    PROVE  /\ GetMappedAddress \in {saw, NoAddr}
           /\ GoodStun(shape) => GetMappedAddress = saw
<1> DEFINE kinds == shape.attributes
           F32 == FirstOf(XorMappedAddress)
           F1 == FirstOf(MappedAddress)
           R == [type : Nat, at : Nat, len : Nat]
<1>1. /\ AllListed(shape, id, saw) /\ attributes \in Seq(R) /\ Len(attributes) \in Nat
      /\ Len(attributes) <= Len(kinds) /\ Len(kinds) \in Nat
      /\ shape.off >= 0 => Len(attributes) = Len(kinds)
  BY PartsTyped, LenProperties DEF StunReads, AllListed
<1>2. \A i \in 1..Len(attributes) :
          kinds[i] \in AttributeKinds \ {"overlong"} /\ attributes[i].type = TypeOf(kinds[i])
  <2>1. \A i \in 1..Len(attributes) : i \in 1..Len(kinds)
    BY <1>1
  <2>2. \A i \in 1..Len(kinds) : kinds[i] \in AttributeKinds
    BY ShapeTyped DEF Sayable
  <2>3. \A i \in 1..Len(attributes) : Listed(shape, id, saw, i)
    BY <1>1 DEF AllListed
  <2>4. ASSUME NEW i \in 1..Len(attributes)
        PROVE  attributes[i].type = TypeOf(kinds[i]) /\ kinds[i] # "overlong"
    <3>1. Listed(shape, id, saw, i)
      BY <2>3
    <3>2. QED
      BY <3>1 DEF Listed
  <2>5. QED
    BY <2>1, <2>2, <2>4
<1>3. ToSet(kinds) = {kinds[i] : i \in 1..Len(kinds)}
  BY ShapeTyped DEF Sayable
<1>4. XorKey = MAGIC_COOKIE \o id
  BY <1>1 DEF XorKey, AllListed, StunHeard
<1>5. ASSUME NEW i \in 1..Len(attributes)
      PROVE  /\ TypeOf(kinds[i]) = XorMappedAddress => kinds[i] \in {"xor", "unknown"}
             /\ TypeOf(kinds[i]) = MappedAddress => kinds[i] \in {"mapped", "mangled"}
             /\ kinds[i] \in {"xor", "unknown"} => attributes[i].type = XorMappedAddress
             /\ kinds[i] \in {"mapped", "mangled"} => attributes[i].type = MappedAddress
  BY <1>2 DEF TypeOf, XorMappedAddress, MappedAddress, AttributeKinds
<1>6. CASE F32 # {}
  <2> DEFINE i == CHOOSE i \in F32 : TRUE
  <2>1. i \in F32 /\ GetMappedAddress = ParseAddress(attributes[i], XorKey)
    BY <1>6 DEF GetMappedAddress
  <2> HIDE DEF i
  <2>2. /\ i \in 1..Len(attributes) /\ attributes[i].type = XorMappedAddress
        /\ \A j \in 1..i-1 : attributes[j].type # XorMappedAddress
    BY <1>1, <2>1, FirstKnown
  <2>3. kinds[i] \in {"xor", "unknown"}
    BY <1>2, <1>5, <2>2
  <2>4. GetMappedAddress = IF kinds[i] = "unknown" THEN NoAddr ELSE saw
    <3> DEFINE kind == kinds[i]
    <3>1. kind = shape.attributes[i] /\ kind \in {"xor", "mapped", "unknown"} /\ kind # "mapped"
      BY <2>3
    <3> HIDE DEF kind
    <3>2. ParsedTo(attributes[i], KeyFor(kind, id), kind, saw)
      BY <1>1, <2>2, <3>1, ListedParsed
    <3>3. QED
      BY <1>4, <2>1, <3>1, <3>2 DEF kind, ParsedTo, KeyFor
  <2>5. ASSUME GoodStun(shape) PROVE kinds[i] # "unknown"
    <3>1. SUFFICES ASSUME kinds[i] = "unknown" PROVE FALSE
      OBVIOUS
    <3>2. i \in 1..Len(kinds) /\ shape.off = 0 /\ Len(attributes) = Len(kinds)
          /\ DOMAIN kinds = 1..Len(kinds)
      <4>1. shape.off = 0 /\ shape \in StunShape
        BY <2>5 DEF GoodStun, Sayable
      <4>2. DOMAIN kinds = 1..Len(kinds)
        BY <4>1, ShapeTyped
      <4>3. QED
        BY <1>1, <2>2, <4>1, <4>2
    <3>3. "unknown" \in ToSet(kinds)
      BY <1>3, <3>1, <3>2
    <3>4. PICK t \in 1..Len(kinds) : kinds[t] = "xor" /\ \A j \in 1..t-1 : kinds[j] # "unknown"
      BY <2>5, <3>2, <3>3 DEF GoodStun
    <3>5. attributes[t].type = XorMappedAddress
      BY <1>5, <3>2, <3>4
    <3>6. ~(t \in 1..i-1) /\ ~(i \in 1..t-1) /\ t # i
      BY <2>2, <3>1, <3>4, <3>5
    <3>7. QED
      BY <1>1, <3>2, <3>6
  <2>6. QED
    BY <2>4, <2>5
<1>7. CASE F32 = {}
  <2>1. \A i \in 1..Len(attributes) : kinds[i] \notin {"xor", "unknown"}
    BY <1>1, <1>5, <1>7, FirstExists
  <2>2. ASSUME shape.off >= 0 PROVE ToSet(kinds) \cap {"xor", "unknown"} = {}
    BY <1>1, <1>3, <2>1, <2>2
  <2>3. "mangled" \notin ToSet(kinds)
    BY <2>2 DEF SentBeside
  <2>4. \A i \in 1..Len(attributes) : kinds[i] # "mangled"
    BY <1>1, <1>3, <2>3
  <2>5. CASE F1 # {}
    <3> DEFINE i == CHOOSE i \in F1 : TRUE
    <3>1. i \in F1 /\ GetMappedAddress = ParseAddress(attributes[i], NoKey)
      BY <1>7, <2>5 DEF GetMappedAddress
    <3> HIDE DEF i
    <3>2. i \in 1..Len(attributes) /\ attributes[i].type = MappedAddress
      BY <1>1, <3>1, FirstKnown
    <3>3. kinds[i] = "mapped"
      BY <1>2, <1>5, <2>4, <3>2
    <3>4. GetMappedAddress = saw
      <4> DEFINE kind == kinds[i]
      <4>1. kind = shape.attributes[i] /\ kind \in {"xor", "mapped", "unknown"} /\ kind = "mapped"
        BY <3>3
      <4> HIDE DEF kind
      <4>2. ParsedTo(attributes[i], KeyFor(kind, id), kind, saw)
        BY <1>1, <3>2, <4>1, ListedParsed
      <4>3. QED
        BY <3>1, <4>1, <4>2 DEF ParsedTo, KeyFor
    <3>5. QED
      BY <3>4
  <2>6. CASE F1 = {}
    <3>1. GetMappedAddress = NoAddr
      BY <1>7, <2>6 DEF GetMappedAddress
    <3>2. \A i \in 1..Len(attributes) : kinds[i] # "mapped"
      BY <1>1, <1>5, <2>6, FirstExists
    <3>3. ASSUME GoodStun(shape) PROVE FALSE
      <4>1. shape.off = 0 /\ Len(attributes) = Len(kinds)
        BY <1>1, <3>3 DEF GoodStun
      <4>2. "mapped" \notin ToSet(kinds) /\ \A i \in DOMAIN kinds : kinds[i] # "xor"
        BY <1>3, <2>1, <3>2, <4>1, ShapeTyped DEF Sayable
      <4>3. QED
        BY <3>3, <4>2 DEF GoodStun
    <3>4. QED
      BY <3>1, <3>3
  <2>7. QED
    BY <2>5, <2>6
<1>8. QED
  BY <1>6, <1>7
=============================================================================
