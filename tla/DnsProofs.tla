----------------------------- MODULE DnsProofs ------------------------------
(* What the parser of DNS responses makes of a datagram.  The texts it reads lie
   within it, whatever octets it consists of; and of what a server said it has
   just the records that arrived, each with the text the server put there.
   The lemmas about octets are those of StunProofs.                          *)
EXTENDS StunProofs

-----------------------------------------------------------------------------
(* The parser goes on, and what it takes lies within the datagram. *)

(* What the parser keeps of its response, and where it stands in it: its
   place may be beyond the end, but a text it reads lies within.             *)
Reading ==
    /\ packet \in DnsMsg
    /\ parsing \in {"idle", "questions", "qname", "question", "answers", "rname",
                    "answer", "text", "parsed", "rejected"}
    /\ parsing \notin {"idle", "parsed", "rejected"} =>
          packet.size >= HEADER_LEN /\ pos \in Nat /\ pos >= HEADER_LEN
    /\ parsing = "text" =>
          /\ text \in [at : Nat, end : Nat, txt : Seq(Octet)]
          /\ text.at >= HEADER_LEN /\ text.at <= text.end /\ text.end <= packet.size

(* The fields of a DNS response. *)
LEMMA DnsMsgFields ==
    ASSUME NEW p \in DnsMsg
    PROVE  /\ p.size \in Nat /\ p.qdcount \in Nat /\ p.ancount \in Nat
           /\ p.body \in Seq(Octet)
           /\ p.size >= HEADER_LEN => Len(p.body) = p.size - HEADER_LEN
BY DEF DnsMsg

(* The response of no reply has no header. *)
LEMMA NoPacketTyped == NoPacket \in DnsMsg
BY DEF NoPacket, DnsMsg, HEADER_LEN

(* An octet within the response and behind its header is one of the body's. *)
LEMMA DnsOctet ==
    ASSUME packet \in DnsMsg, NEW at \in Nat, at >= HEADER_LEN, at < packet.size
    PROVE  OctetAt(at) \in Octet
<1>1. /\ packet.size \in Nat /\ packet.body \in Seq(Octet)
      /\ Len(packet.body) = packet.size - HEADER_LEN
      /\ at - HEADER_LEN + 1 \in 1..Len(packet.body)
  BY DnsMsgFields DEF HEADER_LEN
<1>2. QED
  BY <1>1, ElementOfSeq DEF OctetAt

(* The parser of DNS responses begins behind the header, ... *)
LEMMA ReadingBegins ==
    ASSUME NEW p \in DnsMsg, NEW id, NEW type, ParseHeader(p, id, type)
    PROVE  Reading'
<1>1. /\ packet' = p /\ pos' = 12 /\ HEADER_LEN = 12
      /\ parsing' \in {"questions", "rejected"}
      /\ parsing' = "questions" => p.size >= HEADER_LEN
  BY DEF ParseHeader, ResponseIsValid, HEADER_LEN
<1>2. pos' \in Nat /\ pos' >= HEADER_LEN /\ packet' \in DnsMsg
  BY <1>1
<1>3. QED
  BY <1>1, <1>2 DEF Reading

(* ... and a name moves it on, ... *)
LEMMA NextPlace ==
    ASSUME packet \in DnsMsg, packet.size >= HEADER_LEN, pos \in Nat, pos >= HEADER_LEN,
           ~(pos >= packet.size)
    PROVE  /\ pos + 1 \in Nat /\ pos + 1 >= HEADER_LEN
           /\ pos + 2 \in Nat /\ pos + 2 >= HEADER_LEN
           /\ pos + 1 + OctetAt(pos) \in Nat /\ pos + 1 + OctetAt(pos) >= HEADER_LEN
<1>1. packet.size \in Nat
  BY DnsMsgFields
<1>2. OctetAt(pos) \in Octet
  BY <1>1, DnsOctet
<1>3. OctetAt(pos) \in Nat
  BY <1>2 DEF Octet
<1>4. QED
  BY <1>3 DEF HEADER_LEN

(* ... as skip_name does, in a question and in a record, ... *)
LEMMA NameSkipped ==
    ASSUME Reading, parsing \in {"qname", "rname"},
           NEW then \in {"question", "answer"}, SkipName(then)
    PROVE  Reading'
<1>1. /\ packet \in DnsMsg /\ packet.size >= HEADER_LEN /\ pos \in Nat /\ pos >= HEADER_LEN
  BY DEF Reading
<1>2. packet' = packet /\ text' = text
  BY DEF SkipName
<1>3. CASE ParserEnds("rejected")
  BY <1>1, <1>2, <1>3 DEF ParserEnds, Reading
<1>4. CASE ~(pos >= packet.size)
  <2>1. parsing' = then \/ parsing' = parsing
    BY <1>4 DEF SkipName
  <2>2. pos' = pos + 2 \/ pos' = pos + 1 \/ pos' = pos + 1 + OctetAt(pos)
    BY <1>4 DEF SkipName
  <2>3. pos' \in Nat /\ pos' >= HEADER_LEN
    BY <1>1, <1>4, <2>2, NextPlace
  <2>4. QED
    BY <1>1, <1>2, <2>1, <2>3 DEF Reading
<1>5. QED
  BY <1>3, <1>4 DEF SkipName, ParserEnds

(* ... the part of a datagram between two places of it consists of octets, ... *)
LEMMA SliceTyped ==
    ASSUME packet \in DnsMsg, packet.size >= HEADER_LEN, NEW from \in Nat, NEW to \in Nat,
           from >= HEADER_LEN, to <= packet.size
    PROVE  Slice(from, to) \in Seq(Octet)
<1>1. /\ packet.size \in Nat /\ packet.body \in Seq(Octet)
      /\ Len(packet.body) = packet.size - HEADER_LEN
  BY DnsMsgFields
<1> DEFINE m == from - HEADER_LEN + 1
           n == to - HEADER_LEN
<1>2. m \in Int /\ n \in Int /\ m >= 1 /\ n <= Len(packet.body)
  BY <1>1 DEF HEADER_LEN
<1>3. Slice(from, to) = SubSeq(packet.body, m, n)
  BY DEF Slice
<1> HIDE DEF m, n
<1>4. \A i \in m..n : packet.body[i] \in Octet
  <2>1. \A i \in m..n : i \in 1..Len(packet.body)
    BY <1>1, <1>2
  <2>2. QED
    BY <1>1, <2>1, ElementOfSeq
<1>5. QED
  BY <1>2, <1>3, <1>4, SubSeqProperties

(* ... and what it reads of a record was tested to lie within the datagram. *)
LEMMA ReadingGoesOn ==
    ASSUME Reading, DnsStep
    PROVE  Reading'
<1>1. /\ packet \in DnsMsg /\ packet.size >= HEADER_LEN /\ pos \in Nat /\ pos >= HEADER_LEN
      /\ packet.size \in Nat
  BY DnsMsgFields DEF Reading, DnsStep, NextQuestion, QuestionName, SkipQuestion, NextAnswer,
     AnswerName, ReadRecord, ReadString, TextDone
<1>2. packet' = packet
  BY DEF DnsStep, NextQuestion, QuestionName, SkipQuestion, NextAnswer, AnswerName, ReadRecord,
     ReadString, TextDone, SkipName, ParserEnds
<1>3. ASSUME pos' \in Nat, pos' >= HEADER_LEN,
             parsing' \in {"questions", "qname", "question", "answers", "rname",
                           "answer", "parsed", "rejected"}
      PROVE  Reading'
  BY <1>1, <1>2, <1>3 DEF Reading
<1>4. CASE NextQuestion
  BY <1>1, <1>3, <1>4 DEF NextQuestion
<1>5. CASE QuestionName
  BY <1>5, NameSkipped DEF QuestionName
<1>6. CASE SkipQuestion
  <2>1. pos + 4 \in Nat /\ pos + 4 >= HEADER_LEN
    BY <1>1 DEF HEADER_LEN
  <2>2. /\ pos' = pos \/ pos' = pos + 4
        /\ parsing' \in {"questions", "rejected"}
    BY <1>6 DEF SkipQuestion, ParserEnds
  <2>3. QED
    BY <1>1, <1>3, <2>1, <2>2
<1>7. CASE NextAnswer
  BY <1>1, <1>3, <1>7 DEF NextAnswer, ParserEnds
<1>8. CASE AnswerName
  BY <1>8, NameSkipped DEF AnswerName
<1>9. CASE ReadRecord
  <2>1. CASE ParserEnds("parsed")
    BY <1>1, <1>3, <2>1 DEF ParserEnds
  <2>2. CASE pos + 10 <= packet.size
    <3> DEFINE data == pos + 10
               end == data + U16At(pos + 8)
    <3>1. U16At(pos + 8) \in Nat
      <4>1. /\ pos + 8 \in Nat /\ pos + 8 >= HEADER_LEN /\ pos + 8 < packet.size
            /\ pos + 9 \in Nat /\ pos + 9 >= HEADER_LEN /\ pos + 9 < packet.size
            /\ pos + 8 + 1 = pos + 9
        BY <1>1, <2>2 DEF HEADER_LEN
      <4>2. OctetAt(pos + 8) \in Octet /\ OctetAt(pos + 9) \in Octet
        BY <1>1, <4>1, DnsOctet
      <4>3. U16At(pos + 8) = 256 * OctetAt(pos + 8) + OctetAt(pos + 9)
        BY <4>1 DEF U16At
      <4>4. QED
        BY <4>2, <4>3, NumberOfOctets
    <3>2. /\ data \in Nat /\ data >= HEADER_LEN
          /\ end \in Nat /\ end >= HEADER_LEN /\ data <= end
      BY <1>1, <3>1 DEF HEADER_LEN
    <3>3. \/ ParserEnds("parsed")
          \/ /\ end <= packet.size /\ text' = [at |-> data, end |-> end, txt |-> <<>>]
             /\ parsing' = "text" /\ pos' = pos
          \/ pos' = end /\ parsing' = "answers"
      <4>1. ~(pos + 10 > packet.size) /\ (Within(end) => end <= packet.size)
        BY <1>1, <2>2 DEF Within
      <4>2. QED
        BY <1>9, <4>1 DEF ReadRecord
    <3> HIDE DEF data, end
    <3>4. CASE pos' = end /\ parsing' = "answers"
      BY <1>3, <3>2, <3>4
    <3>5. CASE /\ end <= packet.size /\ text' = [at |-> data, end |-> end, txt |-> <<>>]
               /\ parsing' = "text" /\ pos' = pos
      <4>1. <<>> \in Seq(Octet)
        OBVIOUS
      <4>2. text' \in [at : Nat, end : Nat, txt : Seq(Octet)] /\ text'.at = data /\ text'.end = end
        BY <3>2, <3>5, <4>1
      <4>3. QED
        BY <1>1, <1>2, <3>2, <3>5, <4>2 DEF Reading
    <3>6. QED
      BY <2>1, <3>3, <3>4, <3>5
  <2>3. QED
    BY <1>1, <1>9, <2>1, <2>2 DEF ReadRecord
<1>10. CASE ReadString
  <2>1. /\ parsing = "text" /\ text \in [at : Nat, end : Nat, txt : Seq(Octet)]
        /\ text.at >= HEADER_LEN /\ text.end <= packet.size /\ text.at < text.end
        /\ text.at \in Nat /\ text.end \in Nat /\ text.txt \in Seq(Octet)
    BY <1>10 DEF ReadString, Reading
  <2> DEFINE from == text.at + 1
             to == from + OctetAt(text.at)
  <2>2. Within(from) /\ from \in Nat /\ from >= HEADER_LEN /\ text.at < packet.size
    BY <1>1, <2>1 DEF Within, HEADER_LEN
  <2>3. to \in Nat /\ text.at <= to
    <3>1. OctetAt(text.at) \in Octet
      BY <1>1, <2>1, <2>2, DnsOctet
    <3>2. OctetAt(text.at) \in Nat
      BY <3>1 DEF Octet
    <3>3. QED
      BY <2>1, <3>2
  <2>4. /\ parsing' = parsing /\ pos' = pos
        /\ \/ text' = [text EXCEPT !.at = text.end]
           \/ /\ to <= text.end
              /\ \/ text' = [text EXCEPT !.at = to, !.txt = @ \o Slice(from, to)]
                 \/ text' = [text EXCEPT !.at = to, !.txt = @]
    <3>1. ~(to > text.end) => to <= text.end
      BY <2>1, <2>3
    <3> HIDE DEF to
    <3>2. QED
      BY <1>10, <2>2, <3>1 DEF ReadString, to
  <2>5. to <= text.end => text.txt \o Slice(from, to) \in Seq(Octet)
    <3> HIDE DEF from, to
    <3>1. to <= text.end => to <= packet.size
      BY <1>1, <2>1, <2>3
    <3>2. QED
      BY <1>1, <2>1, <2>2, <2>3, <3>1, SliceTyped, ConcatProperties
  <2> HIDE DEF from, to
  <2>6. /\ text' \in [at : Nat, end : Nat, txt : Seq(Octet)]
        /\ text'.end = text.end /\ (text'.at = to \/ text'.at = text.end) /\ text'.at <= text.end
    <3>1. CASE text' = [text EXCEPT !.at = text.end]
      BY <2>1, <3>1
    <3>2. CASE to <= text.end /\ text' = [text EXCEPT !.at = to, !.txt = @ \o Slice(from, to)]
      BY <2>1, <2>3, <2>5, <3>2
    <3>3. CASE to <= text.end /\ text' = [text EXCEPT !.at = to, !.txt = @]
      BY <2>1, <2>3, <3>3
    <3>4. QED
      BY <2>4, <3>1, <3>2, <3>3
  <2>7. text'.at >= HEADER_LEN
    BY <2>1, <2>3, <2>6 DEF HEADER_LEN
  <2>8. QED
    BY <1>1, <1>2, <2>1, <2>4, <2>6, <2>7 DEF Reading
<1>11. CASE TextDone
  <2>1. pos' = text.end /\ parsing' = "answers" /\ text.end \in Nat /\ text.at \in Nat
        /\ text.at >= HEADER_LEN /\ text.at <= text.end
    BY <1>11 DEF TextDone, Reading
  <2>2. QED
    BY <1>3, <2>1 DEF HEADER_LEN
<1>12. QED
  BY <1>4, <1>5, <1>6, <1>7, <1>8, <1>9, <1>10, <1>11 DEF DnsStep

-----------------------------------------------------------------------------
(* What a server says: a question, and records with strings. *)

(* What a server is asked, q: labels, type and class. *)
Inquiry(q) == Question(q.labels, q.type, q.class)

(* A name, label by label, and as a response repeats it: in full, or as a
   pointer to the question's.                                                *)
NameParts(labels) == [i \in DOMAIN labels |-> CharString(labels[i])]

NameOf(shape, q) == IF shape.pointer THEN <<192, 12>> ELSE EncodeName(q.labels)

(* The records of a response, one after the other, and what each says. *)
RecordParts(shape, q, saw) ==
    [i \in DOMAIN shape.records |->
        LET r == DnsRecord(shape.records[i], saw) IN Record(NameOf(shape, q), r.type, r.data)]

SayParts(shape, q, saw) ==
    [i \in DOMAIN shape.records |->
        LET r == DnsRecord(shape.records[i], saw) IN IF r.type = q.type THEN r.says ELSE <<>>]

DnsBody(shape, q, saw) == Inquiry(q) \o FlattenSeq(RecordParts(shape, q, saw))

(* Where the n-th record begins, where the j-th label of a name does, and
   that the parser stands at a label of the name that begins at a place.     *)
RecordAt(shape, q, saw, n) ==
    HEADER_LEN + Len(Inquiry(q)) + Len(JoinOf(RecordParts(shape, q, saw))[n - 1])

LabelAt(labels, j) == Len(JoinOf(NameParts(labels))[j - 1])

AtLabel(labels, start) ==
    \E j \in 1..Len(labels) + 1 : pos = start + LabelAt(labels, j)

(* The character strings of a text record, and those of them that are text. *)
Strings(kind, t) ==
    CASE kind = "text"   -> <<t>>
      [] kind = "split"  -> <<SubSeq(t, 1, 2), SubSeq(t, 3, Len(t))>>
      [] kind = "binary" -> <<Binary, t>>
      [] kind = "subnet" -> <<Subnet(t)>>
      [] kind = "empty"  -> <<<<>>>>

(* What the reader keeps of a string, and that it has read none, one or two
   of the strings that begin at a place.                                     *)
Kept(s) == IF IsUtf8(s) THEN s ELSE <<>>

AtString(strings, start) ==
    \/ text.at = start /\ text.txt = <<>>
    \/ text.at = start + 1 + Len(strings[1]) /\ text.txt = Kept(strings[1])
    \/ /\ Len(strings) = 2
       /\ text.at = start + 1 + Len(strings[1]) + 1 + Len(strings[2])
       /\ text.txt = Kept(strings[1]) \o Kept(strings[2])

-----------------------------------------------------------------------------
(* What the parser has of it, in each state. *)

(* What the parser has of a response that a server sent: as much of it as it
   received, ...                                                             *)
DnsHeard(shape, q, saw) ==
    /\ packet.qdcount = 1 /\ packet.ancount = Len(shape.records) /\ rtype = q.type
    /\ packet.size <= HEADER_LEN + Len(DnsBody(shape, q, saw))
    /\ Holds(packet, HEADER_LEN, HEADER_LEN, DnsBody(shape, q, saw))

(* ... or, where the buffer was too small, not all of it, ... *)
WasCut(shape, q, saw) == packet.size < HEADER_LEN + Len(DnsBody(shape, q, saw))

(* ... of its records the first ones, each with what it says, ... *)
Turn(shape) == (Len(shape.records) - todo) + 1

AnswersRead(shape, q, saw) ==
    /\ todo \in 0..Len(shape.records)
    /\ results = JoinOf(SayParts(shape, q, saw))[Len(shape.records) - todo]

(* ... and of the next one what it has come to. *)
NextAt(shape, q, saw) == RecordAt(shape, q, saw, Turn(shape))

AtName(shape, q, saw) ==
    IF shape.pointer THEN pos = NextAt(shape, q, saw)
                     ELSE AtLabel(q.labels, NextAt(shape, q, saw))

(* ... which is a text only where texts were asked for, ... *)
AtText(shape, q, saw) ==
    LET kind == shape.records[Turn(shape)]
        data == (NextAt(shape, q, saw) + Len(NameOf(shape, q))) + 10
    IN  /\ q.type = Txt /\ DnsRecord(kind, saw).type = Txt
        /\ text.end = data + Len(DnsRecord(kind, saw).data)
        /\ AtString(Strings(kind, Spell(saw)), data)

(* ... state by state.  It rejects only what was cut or says no answer. *)
DnsReads(shape, q, saw) ==
    /\ parsing # "rejected" => DnsHeard(shape, q, saw)
    /\ parsing = "questions" =>
          /\ results = <<>>
          /\ \/ todo = 1 /\ pos = HEADER_LEN
             \/ todo = 0 /\ pos = HEADER_LEN + Len(Inquiry(q))
    /\ parsing = "qname" => results = <<>> /\ todo = 1 /\ AtLabel(q.labels, HEADER_LEN)
    /\ parsing = "question" =>
          results = <<>> /\ todo = 1 /\ pos = HEADER_LEN + Len(EncodeName(q.labels))
    /\ parsing \in {"answers", "rname", "answer", "text", "parsed"} => AnswersRead(shape, q, saw)
    /\ parsing = "answers" => pos = NextAt(shape, q, saw)
    /\ parsing = "rname" => todo # 0 /\ AtName(shape, q, saw)
    /\ parsing = "answer" => todo # 0 /\ pos = NextAt(shape, q, saw) + Len(NameOf(shape, q))
    /\ parsing = "text" => todo # 0 /\ AtText(shape, q, saw)
    /\ parsing = "parsed" /\ todo # 0 => WasCut(shape, q, saw)
    /\ parsing = "rejected" =>
          WasCut(shape, q, saw) \/ shape.rcode # 0 \/ shape.tc \/ Len(shape.records) = 0

-----------------------------------------------------------------------------
(* What it reads where octets lie. *)

(* What a datagram holds is what the parser reads there. *)
LEMMA DnsHeld ==
    ASSUME NEW at \in Nat, NEW octets, Holds(packet, HEADER_LEN, at, octets), Len(octets) \in Nat,
           NEW p \in 1..Len(octets), at + p <= packet.size, NEW q, q = at + p - 1
    PROVE  OctetAt(q) = octets[p]
<1>1. p \in Int
  OBVIOUS
<1>2. q - HEADER_LEN + 1 = (at + p) - HEADER_LEN
  BY <1>1 DEF HEADER_LEN
<1>3. QED
  BY <1>2 DEF OctetAt, Holds

(* Two octets are a number. *)
LEMMA DnsNumberHeld ==
    ASSUME NEW at \in Nat, NEW octets, Holds(packet, HEADER_LEN, at, octets), Len(octets) \in Nat,
           NEW p \in 1..Len(octets), p + 1 \in 1..Len(octets), packet.size \in Nat,
           at + p + 1 <= packet.size, NEW q, q = at + p - 1
    PROVE  U16At(q) = 256 * octets[p] + octets[p + 1]
<1>1. p \in Nat
  OBVIOUS
<1>2. at + p <= packet.size
  BY <1>1
<1>3. OctetAt(q) = octets[p]
  BY <1>2, DnsHeld
<1> DEFINE u == q + 1
           r == p + 1
<1>4. u = at + r - 1 /\ r \in 1..Len(octets) /\ at + r <= packet.size
  BY <1>1
<1> HIDE DEF u, r
<1>5. OctetAt(u) = octets[r]
  BY <1>4, DnsHeld
<1>6. QED
  BY <1>3, <1>5 DEF U16At, u, r

(* A slice has the octets that are held there. *)
LEMMA SliceHeld ==
    ASSUME packet \in DnsMsg, NEW at \in Nat, at >= HEADER_LEN, NEW octets \in Seq(Octet),
           Holds(packet, HEADER_LEN, at, octets), at + Len(octets) <= packet.size
    PROVE  Slice(at, at + Len(octets)) = octets
<1> DEFINE n == Len(octets)
           b == packet.body
           i == at - HEADER_LEN + 1
           j == (at + n) - HEADER_LEN
           s == SubSeq(b, i, j)
<1>1. n \in Nat /\ packet.size \in Nat /\ b \in Seq(Octet)
  BY LenProperties, DnsMsgFields
<1>2. Len(b) = packet.size - HEADER_LEN
  <2>1. packet.size >= HEADER_LEN
    BY <1>1 DEF HEADER_LEN
  <2>2. QED
    BY <2>1, DnsMsgFields
<1>3. i \in Nat /\ j \in Int /\ i >= 1 /\ j <= Len(b) /\ j = i + n - 1
  BY <1>1, <1>2 DEF HEADER_LEN
<1>4. Slice(at, at + Len(octets)) = s
  BY DEF Slice
<1>5. \A p \in 1..n : b[i + p - 1] = octets[p]
  <2>1. ASSUME NEW p \in 1..n PROVE b[i + p - 1] = octets[p]
    <3>1. at + p <= packet.size /\ i + p - 1 = (at + p) - HEADER_LEN
      BY <1>1 DEF HEADER_LEN
    <3>2. QED
      BY <3>1 DEF Holds
  <2>2. QED
    BY <2>1
<1> HIDE DEF i, j, b
<1>6. \A k \in i..j : b[k] \in Octet
  <2>1. \A k \in i..j : k \in 1..Len(b)
    BY <1>1, <1>2, <1>3 DEF HEADER_LEN
  <2>2. QED
    BY <1>1, <2>1, ElementOfSeq
<1>7. /\ s \in Seq(Octet) /\ Len(s) = IF i <= j THEN j - i + 1 ELSE 0
      /\ \A p \in 1..j - i + 1 : s[p] = b[i + p - 1]
  BY <1>3, <1>6, SubSeqProperties
<1> HIDE DEF s, n
<1>8. Len(s) = n /\ j - i + 1 = n
  BY <1>1, <1>3, <1>7
<1>9. s \in [1..n -> Octet] /\ octets \in [1..n -> Octet]
  BY <1>7, <1>8, LenProperties DEF n
<1>10. \A p \in 1..n : s[p] = octets[p]
  BY <1>5, <1>7, <1>8
<1>11. s = octets
  <2>1. s = [p \in 1..n |-> s[p]] /\ octets = [p \in 1..n |-> octets[p]]
    BY <1>9
  <2>2. QED
    BY <1>10, <2>1, SameFunction
<1>12. QED
  BY <1>4, <1>11

-----------------------------------------------------------------------------
(* Names, and how they are skipped. *)

(* A string of the wire: its length, then its octets. *)
Counted(c, s) ==
    /\ c \in Seq(Int) /\ Len(s) \in Nat /\ Len(c) = 1 + Len(s) /\ c[1] = Len(s)
    /\ LiesAt(s, 1, c)

(* CharString puts it that way. *)
LEMMA CharStringCounts ==
    ASSUME NEW s \in Seq(Octet)
    PROVE  Counted(CharString(s), s)
<1> DEFINE h == <<Len(s)>>
           c == h \o s
<1>1. s \in Seq(Int) /\ Len(s) \in Nat
  BY NumbersOfOctets
<1>2. h \in Seq(Int) /\ Len(h) = 1 /\ h[1] = Len(s)
  BY <1>1
<1>3. CharString(s) = c
  BY DEF CharString
<1> HIDE DEF h
<1>4. Concatenated(h, s, c)
  BY <1>1, <1>2, ConcatNumbers
<1> HIDE DEF c
<1>5. c \in Seq(Int) /\ Len(c) = 1 + Len(s) /\ c[1] = Len(s)
  <2>1. 1 \in 1..Len(h)
    BY <1>2
  <2>2. QED
    BY <1>2, <1>4, <2>1 DEF Concatenated
<1>6. \A p \in 1..Len(s) : c[1 + p] = s[p]
  BY <1>2, <1>4 DEF Concatenated
<1>7. LiesAt(s, 1, c)
  BY <1>1, <1>5, <1>6 DEF LiesAt
<1>8. QED
  BY <1>1, <1>3, <1>5, <1>7 DEF Counted

(* A name: labels, none of them empty or long, and an octet of zero. *)
Named(labels) == labels \in Seq(Seq(Octet)) /\ QueryIsValid(labels)

(* A name is its labels and a zero. *)
LEMMA NameTyped ==
    ASSUME NEW labels, Named(labels)
    PROVE  /\ NameParts(labels) \in Seq(Seq(Int)) /\ Len(NameParts(labels)) = Len(labels)
           /\ Len(labels) \in Nat
           /\ EncodeName(labels) \in Seq(Int) /\ Len(EncodeName(labels)) \in Nat
           /\ Len(EncodeName(labels)) = LabelAt(labels, Len(labels) + 1) + 1
           /\ EncodeName(labels)[Len(EncodeName(labels))] = 0
           /\ LabelAt(labels, Len(labels) + 1) \in Nat
           /\ LiesAt(FlattenSeq(NameParts(labels)), 0, EncodeName(labels))
<1> DEFINE n == Len(labels)
           P == NameParts(labels)
           f == FlattenSeq(P)
           z == <<0>>
<1>1. n \in Nat /\ DOMAIN labels = 1..n /\ \A j \in 1..n : labels[j] \in Seq(Octet)
  BY LenProperties, ElementOfSeq DEF Named
<1>2. P \in [1..n -> Seq(Int)]
  <2>1. \A j \in 1..n : CharString(labels[j]) \in Seq(Int)
    <3>1. ASSUME NEW j \in 1..n PROVE CharString(labels[j]) \in Seq(Int)
      <4>1. Counted(CharString(labels[j]), labels[j])
        BY <1>1, CharStringCounts
      <4>2. QED
        BY <4>1 DEF Counted
    <3>2. QED
      BY <3>1
  <2>2. QED
    BY <1>1, <2>1 DEF NameParts
<1> HIDE DEF P, n
<1>3. P \in Seq(Seq(Int)) /\ Len(P) = n
  BY <1>1, <1>2, FunctionIsSeq
<1>4. f \in Seq(Int) /\ f = JoinOf(P)[n]
  BY <1>3, FlattenTyped, Flattened
<1>5. z \in Seq(Int) /\ Len(z) = 1 /\ z[1] = 0
  OBVIOUS
<1>6. EncodeName(labels) = f \o z
  BY DEF EncodeName, NameParts, P
<1> HIDE DEF f, z
<1> DEFINE e == f \o z
<1>7. Concatenated(f, z, e)
  BY <1>4, <1>5, ConcatNumbers
<1>8. LiesAt(f, 0, e)
  BY <1>4, <1>5, ConcatLies
<1> HIDE DEF e
<1>9. e \in Seq(Int) /\ Len(e) \in Nat /\ Len(e) = Len(f) + 1 /\ Len(f) \in Nat
  BY <1>5, <1>7 DEF Concatenated
<1>10. e[Len(e)] = 0
  <2>1. 1 \in 1..Len(z)
    BY <1>5
  <2>2. e[Len(f) + 1] = z[1]
    BY <1>7, <2>1 DEF Concatenated
  <2>3. QED
    BY <1>5, <1>9, <2>2
<1>11. LabelAt(labels, n + 1) = Len(f)
  <2>1. (n + 1) - 1 = n
    BY <1>1
  <2>2. LabelAt(labels, n + 1) = Len(JoinOf(P)[(n + 1) - 1])
    BY DEF LabelAt, P
  <2>3. LabelAt(labels, n + 1) = Len(JoinOf(P)[n])
    BY <2>1, <2>2
  <2>4. QED
    BY <1>4, <2>3
<1>12. EncodeName(labels) = e
  BY <1>6 DEF e
<1>13. QED
  BY <1>1, <1>3, <1>8, <1>9, <1>10, <1>11, <1>12 DEF P, n, f

(* Where a label lies, and how long it may be. *)
Labelled(labels, j) ==
    LET l == Len(labels[j])
    IN  /\ l \in 1..MAX_LABEL /\ LabelAt(labels, j) \in Nat
        /\ LabelAt(labels, j + 1) = LabelAt(labels, j) + 1 + l
        /\ LabelAt(labels, j) + 1 <= Len(EncodeName(labels))
        /\ EncodeName(labels)[LabelAt(labels, j) + 1] = l

(* Every label lies in the name, behind the one before. *)
LEMMA LabelsLie ==
    ASSUME NEW labels, Named(labels), NEW j \in 1..Len(labels)
    PROVE  Labelled(labels, j)
<1> DEFINE n == Len(labels)
           P == NameParts(labels)
           c == CharString(labels[j])
           l == Len(labels[j])
           at == LabelAt(labels, j)
           e == EncodeName(labels)
           f == FlattenSeq(P)
<1>1. P \in Seq(Seq(Int)) /\ Len(P) = n /\ n \in Nat /\ j \in 1..Len(P) /\ j \in Nat
      /\ LiesAt(f, 0, e) /\ Len(e) \in Nat
  <2>1. Len(labels) \in Nat
    BY NameTyped
  <2>2. j \in Nat
    BY <2>1
  <2>3. QED
    BY <2>2, NameTyped
<1>2. labels[j] \in Seq(Octet) /\ P[j] = c /\ l \in 1..MAX_LABEL
  <2>1. DOMAIN labels = 1..n /\ labels[j] \in Seq(Octet)
    BY LenProperties, ElementOfSeq DEF Named
  <2>2. QED
    BY <2>1 DEF NameParts, Named, QueryIsValid
<1>3. Counted(c, labels[j])
  BY <1>2, CharStringCounts
<1> HIDE DEF P, c, f
<1>4. LiesAt(P[j], Len(JoinOf(P)[j - 1]), f) /\ PartAdded(Int, P, j)
  BY <1>1, PartWithin, JoinedLen DEF f
<1>5. at = Len(JoinOf(P)[j - 1]) /\ LabelAt(labels, j + 1) = Len(JoinOf(P)[j])
  <2>1. j + 1 - 1 = j
    BY <1>1
  <2>2. QED
    BY <2>1 DEF LabelAt, P
<1> HIDE DEF at, l, e
<1>6. at \in Nat /\ LabelAt(labels, j + 1) = at + Len(c)
  BY <1>2, <1>4, <1>5 DEF PartAdded
<1>7. Len(c) = 1 + l /\ c[1] = l /\ l \in Nat
  BY <1>3 DEF Counted, l
<1>8. LiesAt(c, at, f)
  BY <1>2, <1>4, <1>5
<1>9. at + 1 <= Len(f) /\ Len(f) \in Nat /\ f[at + 1] = l
  <2>1. 1 \in 1..Len(c)
    BY <1>7
  <2>2. f[at + 1] = c[1]
    BY <1>8, <2>1 DEF LiesAt
  <2>3. QED
    BY <1>6, <1>7, <1>8, <2>2 DEF LiesAt
<1>10. at + 1 <= Len(e) /\ e[at + 1] = l
  <2>1. at + 1 \in 1..Len(f)
    BY <1>6, <1>9
  <2>2. e[0 + (at + 1)] = f[at + 1] /\ 0 + Len(f) <= Len(e)
    BY <1>1, <2>1 DEF LiesAt
  <2>3. QED
    BY <1>1, <1>6, <1>9, <2>2
<1>11. LabelAt(labels, j + 1) = at + 1 + l
  BY <1>6, <1>7
<1>12. QED
  BY <1>2, <1>6, <1>10, <1>11 DEF Labelled, at, l, e

(* One turn of skip_name in a name that a server wrote. *)
NameTurn(start, len, then, within) ==
    /\ UNCHANGED <<packet, rtype, todo, text, results>>
    /\ \/ packet.size < start + len /\ parsing' = "rejected"
       \/ parsing' = then /\ pos' = start + len
       \/ parsing' = parsing /\ within

(* skip_name at a pointer. *)
LEMMA PointerSkipped ==
    ASSUME NEW start \in Nat, Holds(packet, HEADER_LEN, start, <<192, 12>>),
           packet.size \in Nat, pos = start, NEW then, SkipName(then)
    PROVE  NameTurn(start, 2, then, FALSE)
<1>1. UNCHANGED <<packet, rtype, todo, text, results>>
  BY DEF SkipName
<1>2. CASE pos >= packet.size
  <2>1. parsing' = "rejected"
    BY <1>2 DEF SkipName, ParserEnds
  <2>2. packet.size < start + 2
    BY <1>2
  <2>3. QED
    BY <1>1, <2>1, <2>2 DEF NameTurn
<1>3. CASE ~(pos >= packet.size)
  <2> DEFINE octets == <<192, 12>>
  <2>1. octets[1] = 192 /\ Len(octets) \in Nat /\ 1 \in 1..Len(octets)
    OBVIOUS
  <2>2. start + 1 <= packet.size /\ start = start + 1 - 1
    BY <1>3
  <2>3. Holds(packet, HEADER_LEN, start, octets)
    OBVIOUS
  <2> HIDE DEF octets
  <2>4. OctetAt(start) = octets[1]
    BY <2>1, <2>2, <2>3, DnsHeld
  <2>5. OctetAt(pos) >= 192
    BY <2>1, <2>4
  <2>6. parsing' = then /\ pos' = pos + 2
    BY <1>3, <2>5 DEF SkipName
  <2>7. QED
    BY <1>1, <2>6 DEF NameTurn
<1>4. QED
  BY <1>2, <1>3

(* skip_name at a label, or at the zero behind the last. *)
LEMMA NameSkips ==
    ASSUME NEW labels, Named(labels), NEW start \in Nat,
           Holds(packet, HEADER_LEN, start, EncodeName(labels)), AtLabel(labels, start),
           packet.size \in Nat, NEW then, SkipName(then)
    PROVE  NameTurn(start, Len(EncodeName(labels)), then, AtLabel(labels, start)')
<1> DEFINE e == EncodeName(labels)
           n == Len(labels)
<1>1. PICK j \in 1..Len(labels) + 1 : pos = start + LabelAt(labels, j)
  BY DEF AtLabel
<1> DEFINE at == LabelAt(labels, j)
<1>2. UNCHANGED <<packet, rtype, todo, text, results>>
  BY DEF SkipName
<1>3. n \in Nat /\ Len(e) \in Nat /\ LabelAt(labels, n + 1) \in Nat
      /\ Len(e) = LabelAt(labels, n + 1) + 1 /\ e[Len(e)] = 0
  BY NameTyped
<1> HIDE DEF e, n
<1>4. j \in Nat /\ j \in 1..n + 1 /\ (j \in 1..n \/ j = n + 1)
  BY <1>1, <1>3 DEF n
<1>5. j \in 1..n => Labelled(labels, j)
  BY LabelsLie DEF n
<1> HIDE DEF at
<1>6. at \in Nat /\ at + 1 <= Len(e) /\ e[at + 1] = IF j = n + 1 THEN 0 ELSE Len(labels[j])
  <2>1. CASE j = n + 1
    BY <1>3, <2>1 DEF at
  <2>2. CASE j # n + 1
    BY <1>4, <1>5, <2>2 DEF Labelled, at, e
  <2>3. QED
    BY <2>1, <2>2
<1>7. pos = start + at
  BY <1>1 DEF at
<1>8. CASE pos >= packet.size
  <2>1. parsing' = "rejected"
    BY <1>8 DEF SkipName, ParserEnds
  <2>2. packet.size < start + Len(e)
    BY <1>3, <1>6, <1>7, <1>8
  <2>3. QED
    BY <1>2, <2>1, <2>2 DEF NameTurn, e
<1>9. CASE ~(pos >= packet.size)
  <2> DEFINE p == at + 1
  <2>1. p \in 1..Len(e) /\ start + p <= packet.size /\ pos = start + p - 1
    BY <1>3, <1>6, <1>7, <1>9
  <2>2. Holds(packet, HEADER_LEN, start, e)
    BY DEF e
  <2> HIDE DEF p
  <2>3. OctetAt(pos) = e[p]
    BY <1>3, <2>1, <2>2, DnsHeld
  <2>4. CASE j = n + 1
    <3>1. OctetAt(pos) = 0 /\ ~(0 >= 192)
      BY <1>6, <2>3, <2>4 DEF p
    <3>2. parsing' = then /\ pos' = pos + 1
      BY <1>9, <3>1 DEF SkipName
    <3>3. pos' = start + Len(e)
      BY <1>3, <1>7, <2>4, <3>2 DEF at
    <3>4. QED
      BY <1>2, <3>2, <3>3 DEF NameTurn, e
  <2>5. CASE j # n + 1
    <3> DEFINE l == Len(labels[j])
    <3>1. l \in 1..MAX_LABEL /\ LabelAt(labels, j + 1) = at + 1 + l /\ OctetAt(pos) = l
      BY <1>4, <1>5, <1>6, <2>3, <2>5 DEF Labelled, at, p
    <3> HIDE DEF l
    <3>2. ~(OctetAt(pos) >= 192) /\ OctetAt(pos) # 0 /\ l \in Nat
      BY <3>1 DEF MAX_LABEL
    <3>3. parsing' = parsing /\ pos' = pos + 1 + l
      BY <1>9, <3>1, <3>2 DEF SkipName
    <3>4. pos' = start + LabelAt(labels, j + 1)
      BY <1>6, <1>7, <3>1, <3>2, <3>3
    <3>5. j + 1 \in 1..Len(labels) + 1
      BY <1>3, <1>4, <2>5 DEF n
    <3>6. AtLabel(labels, start)'
      BY <3>4, <3>5 DEF AtLabel
    <3>7. QED
      BY <1>2, <3>3, <3>6 DEF NameTurn
  <2>6. QED
    BY <2>4, <2>5
<1>10. QED
  BY <1>8, <1>9

-----------------------------------------------------------------------------
(* The strings of a record. *)

(* What is said of the address seen, in a result. *)
Said(saw) ==
    LET t == Spell(saw)
    IN  {[txt |-> <<>>, ip |-> saw], [txt |-> t, ip |-> NoAddr], [txt |-> Subnet(t), ip |-> NoAddr]}

(* An address that a server can see, and say. *)
Seen(saw) == saw.v6 \in BOOLEAN /\ saw \in AddressesOf(saw.v6) /\ Legible(saw)

(* The text of an address, and its parts. *)
Spelt(t) ==
    /\ t \in Seq(Octet) /\ Len(t) \in Nat /\ Len(t) >= 2 /\ t # <<>>
    /\ SubSeq(t, 1, 2) \in Seq(Octet) /\ SubSeq(t, 3, Len(t)) \in Seq(Octet)
    /\ SubSeq(t, 1, 2) \o SubSeq(t, 3, Len(t)) = t
    /\ Subnet(t) \in Seq(Octet) /\ Subnet(t) # <<>>
    /\ Kept(t) = t /\ Kept(SubSeq(t, 1, 2)) = SubSeq(t, 1, 2)
    /\ Kept(SubSeq(t, 3, Len(t))) = SubSeq(t, 3, Len(t)) /\ Kept(Subnet(t)) = Subnet(t)

(* What a sequence is split into makes it up. *)
LEMMA SplitJoins ==
    ASSUME NEW S, NEW t \in Seq(S), NEW k \in 0..Len(t)
    PROVE  /\ SubSeq(t, 1, k) \in Seq(S) /\ SubSeq(t, k + 1, Len(t)) \in Seq(S)
           /\ SubSeq(t, 1, k) \o SubSeq(t, k + 1, Len(t)) = t
<1> DEFINE n == Len(t)
           a == SubSeq(t, 1, k)
           b == SubSeq(t, k + 1, n)
<1>1. n \in Nat /\ k \in Nat /\ k <= n /\ \A i \in 1..n : t[i] \in S
  <2>1. n \in Nat
    BY LenProperties
  <2>2. k \in Nat /\ k <= n
    BY <2>1
  <2>3. QED
    BY <2>1, <2>2, ElementOfSeq
<1>2. (\A i \in 1..k : t[i] \in S) /\ (\A i \in k + 1..n : t[i] \in S)
  <2>1. (\A i \in 1..k : i \in 1..n) /\ (\A i \in k + 1..n : i \in 1..n)
    <3> HIDE DEF n
    <3>1. QED
      BY <1>1
  <2>2. QED
    BY <1>1, <2>1
<1> HIDE DEF n
<1>3. 1 \in Int /\ k \in Int /\ k + 1 \in Int /\ n \in Int
  BY <1>1
<1>4. /\ a \in Seq(S) /\ Len(a) = IF 1 <= k THEN k - 1 + 1 ELSE 0
      /\ \A i \in 1..k - 1 + 1 : a[i] = t[1 + i - 1]
  BY <1>2, <1>3, SubSeqProperties
<1>5. /\ b \in Seq(S) /\ Len(b) = IF k + 1 <= n THEN n - (k + 1) + 1 ELSE 0
      /\ \A i \in 1..n - (k + 1) + 1 : b[i] = t[k + 1 + i - 1]
  BY <1>2, <1>3, SubSeqProperties
<1> HIDE DEF a, b
<1>6. Len(a) = k /\ Len(b) = n - k
  BY <1>1, <1>4, <1>5
<1>7. (\A i \in 1..k : a[i] = t[i]) /\ (\A i \in 1..n - k : b[i] = t[k + i])
  <2>1. ASSUME NEW i \in 1..k PROVE a[i] = t[i]
    <3>1. i \in 1..k - 1 + 1 /\ 1 + i - 1 = i
      BY <1>1
    <3>2. a[i] = t[1 + i - 1]
      BY <1>4, <3>1
    <3>3. QED
      BY <3>1, <3>2
  <2>2. ASSUME NEW i \in 1..n - k PROVE b[i] = t[k + i]
    <3>1. i \in 1..n - (k + 1) + 1 /\ k + 1 + i - 1 = k + i
      BY <1>1
    <3>2. b[i] = t[k + 1 + i - 1]
      BY <1>5, <3>1
    <3>3. QED
      BY <3>1, <3>2
  <2>3. QED
    BY <2>1, <2>2
<1> DEFINE c == a \o b
<1>8. /\ c \in Seq(S) /\ Len(c) = Len(a) + Len(b)
      /\ \A i \in 1..Len(a) + Len(b) : c[i] = IF i <= Len(a) THEN a[i] ELSE b[i - Len(a)]
  BY <1>4, <1>5, ConcatProperties
<1> HIDE DEF c
<1>9. Len(c) = n
  BY <1>1, <1>6, <1>8
<1>10. \A i \in 1..Len(c) : c[i] = t[i]
  <2>1. ASSUME NEW i \in 1..n PROVE c[i] = t[i]
    <3>1. i \in Nat /\ i \in 1..Len(a) + Len(b)
      BY <1>1, <1>6
    <3>2. CASE i <= k
      <4>1. c[i] = a[i] /\ i \in 1..k
        BY <1>6, <1>8, <3>1, <3>2
      <4>2. QED
        BY <1>7, <4>1
    <3>3. CASE ~(i <= k)
      <4>1. c[i] = b[i - k]
        BY <1>6, <1>8, <3>1, <3>3
      <4>2. i - k \in 1..n - k /\ k + (i - k) = i
        BY <1>1, <3>1, <3>3
      <4>3. QED
        BY <1>7, <4>1, <4>2
    <3>4. QED
      BY <3>2, <3>3
  <2>2. QED
    BY <1>9, <2>1
<1>11. c = t
  BY <1>8, <1>9, <1>10, SameSeq DEF n
<1>12. QED
  BY <1>4, <1>5, <1>11 DEF a, b, c, n

(* The text of a legible address is one. *)
LEMMA SpeltOut ==
    ASSUME NEW saw, Legible(saw)
    PROVE  Spelt(Spell(saw))
<1> DEFINE t == Spell(saw)
<1>1. /\ t \in Seq(Octet) /\ Len(t) >= 2
      /\ \A u \in {t, SubSeq(t, 1, 2), SubSeq(t, 3, Len(t)), Subnet(t)} : IsUtf8(u)
  BY DEF Legible
<1> HIDE DEF t
<1>2. Len(t) \in Nat /\ 2 \in 0..Len(t) /\ 2 + 1 = 3 /\ t # <<>>
  <2>1. Len(t) \in Nat
    BY <1>1, LenProperties
  <2>2. t # <<>>
    BY <1>1
  <2>3. QED
    BY <1>1, <2>1, <2>2
<1>3. /\ SubSeq(t, 1, 2) \in Seq(Octet) /\ SubSeq(t, 3, Len(t)) \in Seq(Octet)
      /\ SubSeq(t, 1, 2) \o SubSeq(t, 3, Len(t)) = t
  <2>1. /\ SubSeq(t, 1, 2) \in Seq(Octet) /\ SubSeq(t, 2 + 1, Len(t)) \in Seq(Octet)
        /\ SubSeq(t, 1, 2) \o SubSeq(t, 2 + 1, Len(t)) = t
    BY <1>1, <1>2, SplitJoins
  <2>2. QED
    BY <1>2, <2>1
<1>4. Subnet(t) \in Seq(Octet) /\ Subnet(t) # <<>>
  <2> DEFINE h == <<101, Space>>
             e == <<Slash, 50>>
             ht == h \o t
  <2>1. h \in Seq(Octet) /\ e \in Seq(Octet) /\ Len(h) = 2 /\ Len(e) = 2
    BY DEF Space, Slash, Octet
  <2> HIDE DEF h, e
  <2>2. ht \in Seq(Octet)
    BY <1>1, <2>1, ConcatProperties
  <2> HIDE DEF ht
  <2>3. ht \o e \in Seq(Octet) /\ Len(ht \o e) = Len(ht) + Len(e) /\ Len(ht) \in Nat
    BY <2>1, <2>2, ConcatProperties, LenProperties
  <2>4. Len(ht \o e) # 0
    BY <2>1, <2>3
  <2>5. ht \o e # <<>>
    BY <2>3, <2>4, EmptySeq
  <2>6. QED
    BY <2>3, <2>5 DEF Subnet, h, e, ht
<1>5. /\ Kept(t) = t /\ Kept(SubSeq(t, 1, 2)) = SubSeq(t, 1, 2)
      /\ Kept(SubSeq(t, 3, Len(t))) = SubSeq(t, 3, Len(t)) /\ Kept(Subnet(t)) = Subnet(t)
  BY <1>1 DEF Kept
<1>6. QED
  BY <1>1, <1>2, <1>3, <1>4, <1>5 DEF Spelt, t

(* What a record of each kind is made of. *)
Whole(strings) ==
    IF Len(strings) = 2 THEN Kept(strings[1]) \o Kept(strings[2]) ELSE Kept(strings[1])

(* A record that consists of these strings says their text. *)
InStrings(kind, saw, strings) ==
    LET r == DnsRecord(kind, saw)
        whole == Whole(strings)
    IN  /\ Len(strings) \in {1, 2} /\ \A i \in 1..Len(strings) : strings[i] \in Seq(Octet)
        /\ r.data = IF Len(strings) = 2 THEN CharString(strings[1]) \o CharString(strings[2])
                                        ELSE CharString(strings[1])
        /\ r.says = IF whole = <<>> THEN <<>> ELSE <<TextResult(whole)>>

(* A record of one string ... *)
LEMMA OneString ==
    ASSUME NEW kind, NEW saw, NEW s, NEW u \in Seq(Octet), Len(s) = 1, s[1] = u,
           NEW w, Kept(u) = w, DnsRecord(kind, saw).data = CharString(u),
           DnsRecord(kind, saw).says = IF w = <<>> THEN <<>> ELSE <<TextResult(w)>>
    PROVE  InStrings(kind, saw, s)
<1>1. Whole(s) = w
  BY DEF Whole
<1>2. Len(s) \in {1, 2} /\ Len(s) # 2
  OBVIOUS
<1>3. \A i \in 1..Len(s) : s[i] \in Seq(Octet)
  OBVIOUS
<1>4. QED
  BY <1>1, <1>2, <1>3, Zenon DEF InStrings

(* ... and one of two. *)
LEMMA TwoStrings ==
    ASSUME NEW kind, NEW saw, NEW s, NEW a \in Seq(Octet), NEW b \in Seq(Octet), Len(s) = 2,
           s[1] = a, s[2] = b, NEW w, Kept(a) \o Kept(b) = w,
           DnsRecord(kind, saw).data = CharString(a) \o CharString(b),
           DnsRecord(kind, saw).says = IF w = <<>> THEN <<>> ELSE <<TextResult(w)>>
    PROVE  InStrings(kind, saw, s)
<1>1. Whole(s) = w
  BY DEF Whole
<1>2. Len(s) \in {1, 2}
  OBVIOUS
<1>3. \A i \in 1..Len(s) : s[i] \in Seq(Octet)
  OBVIOUS
<1>4. QED
  BY <1>1, <1>2, <1>3, Zenon DEF InStrings

(* Every text record, and the empty one, consists of its Strings. *)
LEMMA TextStrings ==
    ASSUME NEW saw, Seen(saw), NEW kind \in TextKinds \cup {"empty"}
    PROVE  InStrings(kind, saw, Strings(kind, Spell(saw))) /\ DnsRecord(kind, saw).type = Txt
<1> DEFINE t == Spell(saw)
           s == Strings(kind, t)
           r == DnsRecord(kind, saw)
<1>1. Spelt(t)
  BY SpeltOut DEF Seen
<1>2. TextResult(t) = [txt |-> t, ip |-> NoAddr] /\ TextResult(Subnet(t)) = [txt |-> Subnet(t), ip |-> NoAddr]
  BY DEF TextResult
<1>3. CASE kind = "text"
  <2>1. /\ s = <<t>> /\ r.type = Txt /\ r.data = CharString(t)
        /\ r.says = <<[txt |-> t, ip |-> NoAddr]>>
    BY <1>3 DEF Strings, DnsRecord
  <2> HIDE DEF t, s, r
  <2>2. Len(s) = 1 /\ s[1] = t /\ t \in Seq(Octet) /\ Kept(t) = t /\ t # <<>>
    BY <1>1, <2>1 DEF Spelt
  <2>3. InStrings(kind, saw, s)
    BY <1>2, <2>1, <2>2, OneString DEF r
  <2>4. QED
    BY <2>1, <2>3 DEF r, s, t
<1>4. CASE kind = "split"
  <2> DEFINE a == SubSeq(t, 1, 2)
             b == SubSeq(t, 3, Len(t))
  <2>1. /\ s = <<a, b>> /\ r.type = Txt /\ r.data = CharString(a) \o CharString(b)
        /\ r.says = <<[txt |-> t, ip |-> NoAddr]>>
    BY <1>4 DEF Strings, DnsRecord
  <2>2. a \in Seq(Octet) /\ b \in Seq(Octet) /\ Kept(a) = a /\ Kept(b) = b /\ a \o b = t /\ t # <<>>
    BY <1>1 DEF Spelt
  <2> HIDE DEF t, s, r, a, b
  <2>3. Len(s) = 2 /\ s[1] = a /\ s[2] = b /\ Kept(a) \o Kept(b) = t
    BY <2>1, <2>2
  <2>4. InStrings(kind, saw, s)
    BY <1>2, <2>1, <2>2, <2>3, TwoStrings DEF r
  <2>5. QED
    BY <2>1, <2>4 DEF r, s, t
<1>5. CASE kind = "binary"
  <2> DEFINE a == Binary
  <2>1. /\ s = <<a, t>> /\ r.type = Txt /\ r.data = CharString(a) \o CharString(t)
        /\ r.says = <<[txt |-> t, ip |-> NoAddr]>>
    BY <1>5 DEF Strings, DnsRecord
  <2>2. a \in Seq(Octet) /\ Kept(a) = <<>>
    BY TextAssumption DEF Binary, Octet, Kept
  <2> HIDE DEF t, s, r, a
  <2>3. Len(s) = 2 /\ s[1] = a /\ s[2] = t
    BY <2>1
  <2>4. Kept(a) \o Kept(t) = t /\ t \in Seq(Octet) /\ t # <<>>
    <3>1. <<>> \o t = t
      BY <1>1, ConcatEmptySeq DEF Spelt
    <3>2. Kept(t) = t
      BY <1>1 DEF Spelt
    <3>3. QED
      BY <1>1, <2>2, <3>1, <3>2 DEF Spelt
  <2>5. InStrings(kind, saw, s)
    BY <1>2, <2>1, <2>2, <2>3, <2>4, TwoStrings DEF r
  <2>6. QED
    BY <2>1, <2>5 DEF r, s, t
<1>6. CASE kind = "subnet"
  <2> DEFINE u == Subnet(t)
  <2>1. /\ s = <<u>> /\ r.type = Txt /\ r.data = CharString(u)
        /\ r.says = <<[txt |-> u, ip |-> NoAddr]>>
    BY <1>6 DEF Strings, DnsRecord
  <2>2. u \in Seq(Octet) /\ u # <<>> /\ Kept(u) = u
    BY <1>1 DEF Spelt
  <2> HIDE DEF t, s, r, u
  <2>3. Len(s) = 1 /\ s[1] = u
    BY <2>1
  <2>4. InStrings(kind, saw, s)
    <3>1. TextResult(u) = [txt |-> u, ip |-> NoAddr]
      BY <1>2 DEF u
    <3>2. QED
      BY <2>1, <2>2, <2>3, <3>1, OneString DEF r
  <2>5. QED
    BY <2>1, <2>4 DEF r, s, t
<1>7. CASE kind = "empty"
  <2> DEFINE u == <<>>
  <2>1. s = <<u>> /\ r.type = Txt /\ r.data = CharString(u) /\ r.says = <<>>
    BY <1>7 DEF Strings, DnsRecord
  <2>2. u \in Seq(Octet) /\ Kept(u) = u
    BY DEF Kept
  <2>3. u = <<>>
    OBVIOUS
  <2> HIDE DEF t, s, r, u
  <2>4. Len(s) = 1 /\ s[1] = u
    BY <2>1
  <2>5. InStrings(kind, saw, s)
    BY <2>1, <2>2, <2>3, <2>4, OneString DEF r
  <2>6. QED
    BY <2>1, <2>5 DEF r, s, t
<1>8. QED
  BY <1>3, <1>4, <1>5, <1>6, <1>7 DEF TextKinds

-----------------------------------------------------------------------------
(* Records, and where they lie. *)

(* What a record of a kind is made of, and what it says. *)
RecordTyped(kind, saw) ==
    LET r == DnsRecord(kind, saw)
    IN  /\ r.type \in Nat /\ r.data \in Seq(Int) /\ Len(r.data) \in Nat
        /\ r.says \in Seq(Said(saw))
        /\ kind \in TextKinds =>
              r.type = Txt /\ \E x \in Said(saw) : x.txt # <<>> /\ r.says = <<x>>

(* ... to a reader that looks for addresses. *)
AddressSaid(kind, saw, type) ==
    LET r == DnsRecord(kind, saw)
    IN  IF r.type = type /\ Len(r.data) = (IF type = A THEN 4 ELSE 16)
        THEN r.data \in Seq(Octet) /\ r.says = <<[txt |-> <<>>, ip |-> Addr(type = Aaaa, r.data)]>>
        ELSE r.type = type => r.says = <<>>

(* An address record has the octets of the address. *)
LEMMA AddressRecord ==
    ASSUME NEW saw, Seen(saw)
    PROVE  LET r == DnsRecord("address", saw)
           IN  /\ r.type = (IF saw.v6 THEN Aaaa ELSE A) /\ r.data = saw.data
               /\ r.says = <<[txt |-> <<>>, ip |-> saw]>>
               /\ saw.data \in Seq(Octet) /\ Len(saw.data) = (IF saw.v6 THEN 16 ELSE 4)
               /\ saw = Addr(saw.v6, saw.data) /\ saw.v6 \in BOOLEAN /\ saw # NoAddr
<1> DEFINE v6 == saw.v6
           n == AddressLen(v6)
<1>1. v6 \in BOOLEAN /\ saw \in [v6 : {v6}, data : [1..n -> Octet]]
  BY DEF Seen, AddressesOf
<1>2. saw.data \in [1..n -> Octet] /\ saw = [v6 |-> v6, data |-> saw.data]
  BY <1>1
<1>3. n \in Nat /\ n = (IF v6 THEN 16 ELSE 4)
  BY <1>1 DEF AddressLen
<1> HIDE DEF n
<1>4. saw.data \in Seq(Octet) /\ Len(saw.data) = n
  BY <1>2, <1>3, FunctionIsSeq
<1>5. saw # NoAddr
  <2>1. Len(saw.data) # 0
    BY <1>1, <1>3, <1>4
  <2>2. NoAddr.data = <<>> /\ Len(<<>>) = 0
    BY DEF NoAddr, Addr
  <2>3. QED
    BY <2>1, <2>2
<1>6. QED
  BY <1>1, <1>2, <1>3, <1>4, <1>5 DEF DnsRecord, Addr

(* Records of every kind are of octets and say what can be said. *)
LEMMA RecordsTyped ==
    ASSUME NEW saw, Seen(saw), NEW kind \in RecordKinds
    PROVE  RecordTyped(kind, saw)
<1> DEFINE r == DnsRecord(kind, saw)
           t == Spell(saw)
           S == Said(saw)
<1>1. <<>> \in Seq(S) /\ \A x \in S : <<x>> \in Seq(S)
  OBVIOUS
<1>2. CASE kind = "address"
  <2>1. /\ r.type = (IF saw.v6 THEN Aaaa ELSE A) /\ r.data = saw.data
        /\ r.says = <<[txt |-> <<>>, ip |-> saw]>> /\ saw.data \in Seq(Octet)
    BY <1>2, AddressRecord
  <2>2. [txt |-> <<>>, ip |-> saw] \in S
    BY DEF Said
  <2> HIDE DEF S, r
  <2>3. r.says \in Seq(S)
    BY <1>1, <2>1, <2>2
  <2>4. r.type \in Nat
    BY <2>1 DEF Aaaa, A
  <2>5. r.data \in Seq(Int) /\ Len(r.data) \in Nat
    BY <2>1, NumbersOfOctets
  <2>6. kind \notin TextKinds
    BY <1>2 DEF TextKinds
  <2>7. QED
    BY <2>3, <2>4, <2>5, <2>6 DEF RecordTyped, S, r
<1>3. CASE kind \in {"short", "cname"}
  <2>1. /\ r.says = <<>> /\ r.type \in {A, 5} /\ (r.data = Zeros(3) \/ r.data = <<192, 12>>)
    BY <1>3 DEF DnsRecord
  <2>2. Zeros(3) \in Seq(Int) /\ <<192, 12>> \in Seq(Int)
    BY ZerosTyped
  <2> HIDE DEF S, r
  <2>3. r.data \in Seq(Int)
    BY <2>1, <2>2
  <2>4. r.type \in Nat
    BY <2>1 DEF A
  <2>5. r.says \in Seq(S)
    BY <1>1, <2>1
  <2>6. Len(r.data) \in Nat
    BY <2>3, LenProperties
  <2>7. kind \notin TextKinds
    BY <1>3 DEF TextKinds
  <2>8. QED
    BY <2>3, <2>4, <2>5, <2>6, <2>7 DEF RecordTyped, S, r
<1>4. CASE kind \in TextKinds \cup {"empty"}
  <2> DEFINE s == Strings(kind, t)
  <2>1. InStrings(kind, saw, s) /\ r.type = Txt
    BY <1>4, TextStrings
  <2>2. /\ Len(s) \in {1, 2} /\ \A i \in 1..Len(s) : s[i] \in Seq(Octet)
        /\ r.data = IF Len(s) = 2 THEN CharString(s[1]) \o CharString(s[2]) ELSE CharString(s[1])
    BY <2>1 DEF InStrings
  <2> HIDE DEF s
  <2>3. r.data \in Seq(Int)
    <3>1. 1 \in 1..Len(s) /\ (Len(s) = 2 => 2 \in 1..Len(s))
      BY <2>2
    <3>2. s[1] \in Seq(Octet) /\ (Len(s) = 2 => s[2] \in Seq(Octet))
      BY <2>2, <3>1
    <3>3. CharString(s[1]) \in Seq(Int) /\ (Len(s) = 2 => CharString(s[2]) \in Seq(Int))
      BY <3>2, CharStringCounts DEF Counted
    <3>4. Len(s) = 2 => CharString(s[1]) \o CharString(s[2]) \in Seq(Int)
      BY <3>3, ConcatProperties
    <3>5. QED
      BY <2>2, <3>3, <3>4
  <2>4. Len(r.data) \in Nat
    BY <2>3, LenProperties
  <2>5. Spelt(t)
    BY SpeltOut DEF Seen
  <2>6. r.says = (CASE kind \in {"text", "split", "binary"} -> <<[txt |-> t, ip |-> NoAddr]>>
                    [] kind = "subnet" -> <<[txt |-> Subnet(t), ip |-> NoAddr]>>
                    [] kind = "empty" -> <<>>)
    BY <1>4 DEF DnsRecord, TextKinds
  <2>7. kind \in TextKinds => \E x \in S : x.txt # <<>> /\ r.says = <<x>>
    <3>1. CASE kind \in {"text", "split", "binary"}
      <4> DEFINE x == [txt |-> t, ip |-> NoAddr]
      <4>1. x \in S /\ x.txt # <<>>
        BY <2>5 DEF Said, Spelt
      <4>2. QED
        BY <2>6, <3>1, <4>1
    <3>2. CASE kind = "subnet"
      <4> DEFINE x == [txt |-> Subnet(t), ip |-> NoAddr]
      <4>1. x \in S /\ x.txt # <<>>
        BY <2>5 DEF Said, Spelt
      <4>2. QED
        BY <2>6, <3>2, <4>1
    <3>3. QED
      BY <1>4, <3>1, <3>2 DEF TextKinds
  <2>8. r.says \in Seq(S)
    <3>1. CASE kind = "empty"
      BY <1>1, <2>6, <3>1
    <3>2. CASE kind # "empty"
      <4>1. PICK x \in S : r.says = <<x>>
        BY <1>4, <2>7, <3>2
      <4>2. QED
        BY <1>1, <4>1
    <3>3. QED
      BY <3>1, <3>2
  <2> HIDE DEF S, r
  <2>9. Txt \in Nat
    BY DEF Txt
  <2>10. QED
    BY <2>1, <2>3, <2>4, <2>7, <2>8, <2>9 DEF RecordTyped, S, r
<1>5. QED
  BY <1>2, <1>3, <1>4 DEF RecordKinds

(* A record says an address to who asks for its type and finds its length. *)
LEMMA AddressesSaid ==
    ASSUME NEW saw, Seen(saw), NEW kind \in RecordKinds, NEW type \in {A, Aaaa}
    PROVE  AddressSaid(kind, saw, type)
<1> DEFINE r == DnsRecord(kind, saw)
<1>1. A = 1 /\ Aaaa = 28 /\ Txt = 16
  BY DEF A, Aaaa, Txt
<1>2. CASE kind = "address"
  <2>1. /\ r.type = (IF saw.v6 THEN Aaaa ELSE A) /\ r.data = saw.data
        /\ r.says = <<[txt |-> <<>>, ip |-> saw]>> /\ saw.data \in Seq(Octet)
        /\ Len(saw.data) = (IF saw.v6 THEN 16 ELSE 4)
        /\ saw = Addr(saw.v6, saw.data) /\ saw.v6 \in BOOLEAN
    BY <1>2, AddressRecord
  <2> HIDE DEF r
  <2>2. r.type = type => saw.v6 = (type = Aaaa)
    BY <1>1, <2>1
  <2>3. r.type = type => Len(r.data) = (IF type = A THEN 4 ELSE 16)
    BY <1>1, <2>1
  <2>4. r.type = type => saw = Addr(type = Aaaa, r.data)
    BY <2>1, <2>2
  <2>5. QED
    BY <2>1, <2>3, <2>4 DEF AddressSaid, r
<1>3. CASE kind = "short"
  <2>1. r.says = <<>> /\ r.data = Zeros(3)
    BY <1>3 DEF DnsRecord
  <2>2. Len(Zeros(3)) = 3
    BY ZerosTyped
  <2> HIDE DEF r
  <2>3. Len(r.data) = 3
    BY <2>1, <2>2
  <2>4. Len(r.data) # (IF type = A THEN 4 ELSE 16)
    BY <2>3
  <2>5. QED
    BY <2>1, <2>4 DEF AddressSaid, r
<1>4. CASE kind \notin {"address", "short"}
  <2>1. r.type # type
    <3>1. CASE kind = "cname"
      BY <1>1, <3>1 DEF DnsRecord
    <3>2. CASE kind # "cname"
      <4>1. kind \in TextKinds \cup {"empty"}
        BY <1>4, <3>2 DEF RecordKinds
      <4>2. r.type = Txt
        BY <4>1, TextStrings
      <4>3. QED
        BY <1>1, <4>2
    <3>3. QED
      BY <3>1, <3>2
  <2>2. QED
    BY <2>1 DEF AddressSaid
<1>5. QED
  BY <1>2, <1>3, <1>4

(* A record on the wire: its name, ten octets, and its data. *)
Recorded(a, name, type, data) ==
    /\ a \in Seq(Int) /\ Len(a) \in Nat /\ Len(name) \in Nat /\ Len(data) \in Nat
    /\ Len(a) = Len(name) + 10 + Len(data)
    /\ LiesAt(name, 0, a) /\ LiesAt(data, Len(name) + 10, a)
    /\ a[Len(name) + 1] = 0 /\ a[Len(name) + 2] = type
    /\ a[Len(name) + 9] = 0 /\ a[Len(name) + 10] = Len(data)

(* Record puts it that way. *)
LEMMA RecordLaid ==
    ASSUME NEW name \in Seq(Int), NEW type \in Nat, NEW data \in Seq(Int)
    PROVE  Recorded(Record(name, type, data), name, type, data)
<1> DEFINE h == <<0, type, 0, 1, 0, 0, 0, 0, 0, Len(data)>>
           nh == name \o h
           a == nh \o data
<1>1. Len(data) \in Nat /\ Len(name) \in Nat
  BY LenProperties
<1>2. h \in Seq(Int) /\ Len(h) = 10 /\ h[1] = 0 /\ h[2] = type /\ h[9] = 0 /\ h[10] = Len(data)
  BY <1>1
<1>3. Record(name, type, data) = a
  BY DEF Record
<1> HIDE DEF h
<1>4. Concatenated(name, h, nh)
  BY <1>2, ConcatNumbers
<1> HIDE DEF nh
<1>5. nh \in Seq(Int) /\ Len(nh) = Len(name) + 10 /\ Len(nh) \in Nat
  BY <1>2, <1>4 DEF Concatenated
<1>6. Concatenated(nh, data, a)
  BY <1>5, ConcatNumbers
<1> HIDE DEF a
<1>7. a \in Seq(Int) /\ Len(a) = Len(name) + 10 + Len(data) /\ Len(a) \in Nat
  BY <1>1, <1>5, <1>6 DEF Concatenated
<1>8. \A p \in 1..Len(nh) : a[p] = nh[p]
  BY <1>6 DEF Concatenated
<1>9. \A p \in 1..10 : a[Len(name) + p] = h[p]
  <2>1. ASSUME NEW p \in 1..10 PROVE a[Len(name) + p] = h[p]
    <3>1. p \in 1..Len(h) /\ Len(name) + p \in 1..Len(nh)
      BY <1>1, <1>2, <1>5
    <3>2. nh[Len(name) + p] = h[p]
      BY <1>4, <3>1 DEF Concatenated
    <3>3. QED
      BY <1>8, <3>1, <3>2
  <2>2. QED
    BY <2>1
<1>10. LiesAt(name, 0, a)
  <2>1. ASSUME NEW p \in 1..Len(name) PROVE a[0 + p] = name[p]
    <3>1. p \in 1..Len(nh) /\ 0 + p = p
      BY <1>1, <1>5
    <3>2. nh[p] = name[p]
      BY <1>4 DEF Concatenated
    <3>3. QED
      BY <1>8, <3>1, <3>2
  <2>2. QED
    BY <1>1, <1>7, <2>1 DEF LiesAt
<1>11. LiesAt(data, Len(name) + 10, a)
  <2>1. \A p \in 1..Len(data) : a[(Len(name) + 10) + p] = data[p]
    BY <1>5, <1>6 DEF Concatenated
  <2>2. Len(name) + 10 \in Nat /\ (Len(name) + 10) + Len(data) <= Len(a)
    BY <1>1, <1>7
  <2>3. QED
    BY <1>1, <1>7, <2>1, <2>2 DEF LiesAt
<1>12. /\ a[Len(name) + 1] = 0 /\ a[Len(name) + 2] = type
       /\ a[Len(name) + 9] = 0 /\ a[Len(name) + 10] = Len(data)
  BY <1>2, <1>9
<1>13. QED
  BY <1>1, <1>3, <1>7, <1>10, <1>11, <1>12 DEF Recorded

(* What a server can say to a question. *)
Answerable(shape, q, saw) ==
    /\ shape \in DnsShape /\ Seen(saw) /\ Named(q.labels)
    /\ q.type \in {A, Txt, Aaaa} /\ q.class \in Nat

(* The records of a shape. *)
LEMMA RecordsOf ==
    ASSUME NEW shape \in DnsShape
    PROVE  /\ shape.records \in Seq(RecordKinds) /\ Len(shape.records) \in Nat
           /\ DOMAIN shape.records = 1..Len(shape.records)
           /\ \A i \in 1..Len(shape.records) : shape.records[i] \in RecordKinds
<1>1. shape.records \in Seq(RecordKinds)
  BY DEF DnsShape
<1> DEFINE s == shape.records
<1>2. s \in Seq(RecordKinds)
  BY <1>1
<1> HIDE DEF s
<1>3. /\ s \in Seq(RecordKinds) /\ Len(s) \in Nat /\ DOMAIN s = 1..Len(s)
      /\ \A i \in 1..Len(s) : s[i] \in RecordKinds
  BY <1>2
<1>4. QED
  BY <1>3 DEF s

(* A question is a name and four octets. *)
LEMMA InquiryLaid ==
    ASSUME NEW q, Named(q.labels), q.type \in Nat, q.class \in Nat
    PROVE  /\ Inquiry(q) \in Seq(Int) /\ Len(Inquiry(q)) \in Nat
           /\ Len(EncodeName(q.labels)) \in Nat
           /\ Len(Inquiry(q)) = Len(EncodeName(q.labels)) + 4
           /\ LiesAt(EncodeName(q.labels), 0, Inquiry(q))
<1> DEFINE name == EncodeName(q.labels)
           rest == <<0, q.type, 0, q.class>>
<1>1. name \in Seq(Int) /\ Len(name) \in Nat
  BY NameTyped
<1>2. rest \in Seq(Int) /\ Len(rest) = 4
  OBVIOUS
<1>3. Inquiry(q) = name \o rest
  BY DEF Inquiry, Question
<1> HIDE DEF name, rest
<1>4. LiesAt(name, 0, name \o rest)
  BY <1>1, <1>2, ConcatLies
<1>5. Concatenated(name, rest, name \o rest)
  BY <1>1, <1>2, ConcatNumbers
<1>6. /\ name \o rest \in Seq(Int) /\ Len(name \o rest) \in Nat
      /\ Len(name \o rest) = Len(name) + 4
  BY <1>2, <1>5 DEF Concatenated
<1>7. QED
  BY <1>1, <1>3, <1>4, <1>6 DEF name

(* A name in a response: a pointer to the question's, or the name in full. *)
LEMMA NameOfTyped ==
    ASSUME NEW shape, NEW q, NEW saw, Answerable(shape, q, saw)
    PROVE  NameOf(shape, q) \in Seq(Int) /\ Len(NameOf(shape, q)) \in Nat
<1>1. EncodeName(q.labels) \in Seq(Int)
  BY NameTyped DEF Answerable
<1>2. <<192, 12>> \in Seq(Int)
  OBVIOUS
<1>3. NameOf(shape, q) \in Seq(Int)
  BY <1>1, <1>2 DEF NameOf
<1>4. QED
  BY <1>3, LenProperties

(* The octets of the response, record by record, ... *)
LEMMA RecordPartsTyped ==
    ASSUME NEW shape, NEW q, NEW saw, Answerable(shape, q, saw)
    PROVE  /\ RecordParts(shape, q, saw) \in Seq(Seq(Int))
           /\ Len(RecordParts(shape, q, saw)) = Len(shape.records)
           /\ \A n \in 1..Len(shape.records) :
                 LET r == DnsRecord(shape.records[n], saw)
                     a == Record(NameOf(shape, q), r.type, r.data)
                 IN  /\ RecordParts(shape, q, saw)[n] = a
                     /\ Recorded(a, NameOf(shape, q), r.type, r.data)
<1> DEFINE N == Len(shape.records)
           R(n) == DnsRecord(shape.records[n], saw)
           Rec(n) == Record(NameOf(shape, q), R(n).type, R(n).data)
           parts == RecordParts(shape, q, saw)
<1>1. shape \in DnsShape /\ Seen(saw)
  BY DEF Answerable
<1>2. N \in Nat /\ DOMAIN shape.records = 1..N /\ \A n \in 1..N : shape.records[n] \in RecordKinds
  BY <1>1, RecordsOf
<1>3. ASSUME NEW n \in 1..N PROVE Recorded(Rec(n), NameOf(shape, q), R(n).type, R(n).data)
  <2>1. shape.records[n] \in RecordKinds
    BY <1>2
  <2>2. RecordTyped(shape.records[n], saw)
    BY <1>1, <2>1, RecordsTyped
  <2>3. R(n).type \in Nat /\ R(n).data \in Seq(Int)
    BY <2>2 DEF RecordTyped
  <2>4. NameOf(shape, q) \in Seq(Int)
    BY NameOfTyped
  <2> HIDE DEF R
  <2>5. QED
    BY <2>3, <2>4, RecordLaid
<1>4. parts = [n \in 1..N |-> Rec(n)]
  BY <1>2 DEF RecordParts
<1>5. ASSUME NEW n \in 1..N PROVE Rec(n) \in Seq(Int)
  BY <1>3 DEF Recorded
<1> HIDE DEF Rec, R, parts, N
<1>6. parts \in [1..N -> Seq(Int)]
  BY <1>4, <1>5
<1>7. parts \in Seq(Seq(Int)) /\ Len(parts) = N
  BY <1>2, <1>6, FunctionIsSeq
<1>8. \A n \in 1..N : parts[n] = Rec(n) /\ Recorded(Rec(n), NameOf(shape, q), R(n).type, R(n).data)
  BY <1>3, <1>4
<1>9. QED
  BY <1>7, <1>8 DEF Rec, R, parts, N

(* Where a record lies in the response, and where the last one ends. *)
Placed(shape, q, saw, n) ==
    LET r == DnsRecord(shape.records[n], saw)
        name == NameOf(shape, q)
        a == Record(name, r.type, r.data)
        at == RecordAt(shape, q, saw, n)
    IN  /\ at \in Nat /\ at >= HEADER_LEN
        /\ Recorded(a, name, r.type, r.data)
        /\ at - HEADER_LEN \in Nat
        /\ LiesAt(a, at - HEADER_LEN, DnsBody(shape, q, saw))
        /\ RecordAt(shape, q, saw, n + 1) = at + Len(a)

(* ... and all together, behind the question. *)
LEMMA BodyTyped ==
    ASSUME NEW shape, NEW q, NEW saw, Answerable(shape, q, saw)
    PROVE  LET all == FlattenSeq(RecordParts(shape, q, saw))
           IN  /\ all \in Seq(Int) /\ Len(all) \in Nat /\ Len(Inquiry(q)) \in Nat
               /\ LiesAt(Inquiry(q), 0, DnsBody(shape, q, saw))
               /\ LiesAt(all, Len(Inquiry(q)), DnsBody(shape, q, saw))
               /\ Len(DnsBody(shape, q, saw)) \in Nat
               /\ Len(DnsBody(shape, q, saw)) = Len(Inquiry(q)) + Len(all)
<1> DEFINE all == FlattenSeq(RecordParts(shape, q, saw))
           ask == Inquiry(q)
<1>1. Named(q.labels) /\ q.type \in Nat /\ q.class \in Nat
  BY DEF Answerable, A, Txt, Aaaa
<1>2. ask \in Seq(Int) /\ Len(ask) \in Nat
  BY <1>1, InquiryLaid
<1>3. RecordParts(shape, q, saw) \in Seq(Seq(Int))
  BY RecordPartsTyped
<1>4. all \in Seq(Int)
  BY <1>3, FlattenTyped
<1>5. DnsBody(shape, q, saw) = ask \o all
  BY DEF DnsBody
<1> HIDE DEF all, ask
<1>6. LiesAt(ask, 0, ask \o all) /\ LiesAt(all, Len(ask), ask \o all)
  BY <1>2, <1>4, ConcatLies
<1>7. Concatenated(ask, all, ask \o all)
  BY <1>2, <1>4, ConcatNumbers
<1>8. /\ Len(ask \o all) \in Nat /\ Len(ask \o all) = Len(ask) + Len(all) /\ Len(all) \in Nat
  BY <1>7 DEF Concatenated
<1>9. QED
  BY <1>2, <1>4, <1>5, <1>6, <1>8 DEF all, ask

(* Every record lies in the response, behind the one before, ... *)
LEMMA RecordsLie ==
    ASSUME NEW shape, NEW q, NEW saw, Answerable(shape, q, saw),
           NEW n \in 1..Len(shape.records)
    PROVE  Placed(shape, q, saw, n)
<1> DEFINE N == Len(shape.records)
           r == DnsRecord(shape.records[n], saw)
           name == NameOf(shape, q)
           a == Record(name, r.type, r.data)
           at == RecordAt(shape, q, saw, n)
           parts == RecordParts(shape, q, saw)
           all == FlattenSeq(parts)
           k == Len(Inquiry(q))
           body == DnsBody(shape, q, saw)
           before == Len(JoinOf(parts)[n - 1])
           after == Len(JoinOf(parts)[n])
<1>1. parts \in Seq(Seq(Int)) /\ Len(parts) = N
  BY RecordPartsTyped
<1>2. parts[n] = a /\ Recorded(a, name, r.type, r.data)
  BY RecordPartsTyped
<1>3. k \in Nat /\ LiesAt(all, k, body)
  BY BodyTyped
<1>4. at = (HEADER_LEN + k) + before
  BY DEF RecordAt
<1>5. RecordAt(shape, q, saw, n + 1) = (HEADER_LEN + k) + Len(JoinOf(parts)[(n + 1) - 1])
  BY DEF RecordAt
<1>6. n \in Nat
  BY <1>1, RecordsOf DEF Answerable
<1>7. (n + 1) - 1 = n
  BY <1>6
<1>8. n \in 1..Len(parts)
  BY <1>1
<1> HIDE DEF parts
<1>9. PartAdded(Int, parts, n)
  BY <1>1, <1>8, JoinedLen
<1>10. before \in Nat /\ after \in Nat /\ after = before + Len(parts[n])
  BY <1>9 DEF PartAdded
<1>11. LiesAt(parts[n], before, all)
  BY <1>1, <1>8, PartWithin
<1> HIDE DEF before, after, all, a, at, k, body
<1>12. LiesAt(a, k + before, body)
  BY <1>2, <1>3, <1>11, LiesWithin
<1>13. HEADER_LEN = 12
  BY DEF HEADER_LEN
<1>14. at \in Nat /\ at >= HEADER_LEN /\ at - HEADER_LEN = k + before
  BY <1>3, <1>4, <1>10, <1>13
<1>15. Len(a) \in Nat
  BY <1>2 DEF Recorded
<1>16. RecordAt(shape, q, saw, n + 1) = (HEADER_LEN + k) + after
  BY <1>5, <1>7 DEF after
<1>17. RecordAt(shape, q, saw, n + 1) = at + Len(a)
  BY <1>2, <1>3, <1>4, <1>10, <1>13, <1>15, <1>16
<1>18. LiesAt(a, at - HEADER_LEN, body) /\ at - HEADER_LEN \in Nat
  BY <1>3, <1>10, <1>12, <1>14
<1>19. QED
  BY <1>2, <1>14, <1>17, <1>18 DEF Placed, a, at, body

(* ... the first behind the question, and there is no more behind the last. *)
LEMMA RecordsEnd ==
    ASSUME NEW shape, NEW q, NEW saw, Answerable(shape, q, saw)
    PROVE  /\ RecordAt(shape, q, saw, Len(shape.records) + 1) = HEADER_LEN + Len(DnsBody(shape, q, saw))
           /\ RecordAt(shape, q, saw, 1) = HEADER_LEN + Len(Inquiry(q))
           /\ Len(DnsBody(shape, q, saw)) \in Nat
<1> DEFINE N == Len(shape.records)
           parts == RecordParts(shape, q, saw)
           k == Len(Inquiry(q))
<1>1. parts \in Seq(Seq(Int)) /\ Len(parts) = N
  BY RecordPartsTyped
<1>2. k \in Nat /\ Len(FlattenSeq(parts)) \in Nat /\ Len(DnsBody(shape, q, saw)) = k + Len(FlattenSeq(parts))
  BY BodyTyped
<1>3. N \in Nat
  BY RecordsOf DEF Answerable
<1>4. (N + 1) - 1 = N /\ 1 - 1 = 0
  BY <1>3
<1>5. RecordAt(shape, q, saw, N + 1) = (HEADER_LEN + k) + Len(JoinOf(parts)[(N + 1) - 1])
  BY DEF RecordAt
<1>6. RecordAt(shape, q, saw, 1) = (HEADER_LEN + k) + Len(JoinOf(parts)[1 - 1])
  BY DEF RecordAt
<1> HIDE DEF parts
<1>7. FlattenSeq(parts) = JoinOf(parts)[Len(parts)] /\ JoinOf(parts)[0] = <<>>
  BY <1>1, Flattened, JoinedBy
<1> DEFINE l == Len(FlattenSeq(parts))
<1>8. RecordAt(shape, q, saw, N + 1) = (HEADER_LEN + k) + l
  BY <1>1, <1>4, <1>5, <1>7
<1>9. RecordAt(shape, q, saw, 1) = (HEADER_LEN + k) + 0
  <2>1. Len(JoinOf(parts)[1 - 1]) = 0
    BY <1>4, <1>7
  <2>2. QED
    BY <1>6, <2>1
<1>10. k \in Nat /\ l \in Nat /\ Len(DnsBody(shape, q, saw)) = k + l /\ HEADER_LEN = 12
  BY <1>2 DEF HEADER_LEN
<1> HIDE DEF k, l
<1>11. QED
  <2>1. (HEADER_LEN + k) + l = HEADER_LEN + (k + l) /\ (HEADER_LEN + k) + 0 = HEADER_LEN + k /\ k + l \in Nat
    BY <1>10
  <2>2. QED
    BY <1>8, <1>9, <1>10, <2>1 DEF k

(* What the records that were read so far say. *)
Says(shape, q, saw, n) ==
    LET r == DnsRecord(shape.records[n], saw) IN IF r.type = q.type THEN r.says ELSE <<>>

(* Each record adds what it says. *)
LEMMA SaysAdded ==
    ASSUME NEW shape, NEW q, NEW saw, Answerable(shape, q, saw)
    PROVE  /\ SayParts(shape, q, saw) \in Seq(Seq(Said(saw)))
           /\ Len(SayParts(shape, q, saw)) = Len(shape.records)
           /\ JoinOf(SayParts(shape, q, saw))[0] = <<>>
           /\ \A n \in 1..Len(shape.records) :
                 /\ SayParts(shape, q, saw)[n] = Says(shape, q, saw, n)
                 /\ JoinOf(SayParts(shape, q, saw))[n] =
                       JoinOf(SayParts(shape, q, saw))[n - 1] \o Says(shape, q, saw, n)
<1> DEFINE N == Len(shape.records)
           S == Said(saw)
           parts == SayParts(shape, q, saw)
           Sa(n) == Says(shape, q, saw, n)
<1>1. shape \in DnsShape /\ Seen(saw)
  BY DEF Answerable
<1>2. N \in Nat /\ DOMAIN shape.records = 1..N /\ \A n \in 1..N : shape.records[n] \in RecordKinds
  BY <1>1, RecordsOf
<1>3. ASSUME NEW n \in 1..N PROVE Sa(n) \in Seq(S)
  <2>1. shape.records[n] \in RecordKinds
    BY <1>2
  <2>2. RecordTyped(shape.records[n], saw)
    BY <1>1, <2>1, RecordsTyped
  <2>3. DnsRecord(shape.records[n], saw).says \in Seq(S)
    BY <2>2 DEF RecordTyped
  <2>4. <<>> \in Seq(S)
    OBVIOUS
  <2> HIDE DEF S
  <2>5. QED
    BY <2>3, <2>4 DEF Says
<1>4. parts = [n \in 1..N |-> Sa(n)]
  BY <1>2 DEF SayParts, Says
<1> HIDE DEF parts, S, N, Sa
<1>5. parts \in [1..N -> Seq(S)]
  BY <1>3, <1>4
<1>6. parts \in Seq(Seq(S)) /\ Len(parts) = N
  BY <1>2, <1>5, FunctionIsSeq
<1>7. /\ JoinOf(parts)[0] = <<>>
      /\ \A n \in 1..Len(parts) : JoinOf(parts)[n] = JoinOf(parts)[n - 1] \o parts[n]
  BY <1>6, JoinedBy
<1>8. \A n \in 1..N : parts[n] = Sa(n)
  BY <1>4
<1>9. \A n \in 1..N : JoinOf(parts)[n] = JoinOf(parts)[n - 1] \o Sa(n)
  BY <1>6, <1>7, <1>8
<1>10. QED
  BY <1>6, <1>7, <1>8, <1>9 DEF parts, S, N, Sa

-----------------------------------------------------------------------------
(* What the parser reads of a record, and of its strings. *)

(* The octets of a record, where the parser comes to it. *)
RecordHeld(shape, q, saw, n) ==
    LET r == DnsRecord(shape.records[n], saw)
        at == RecordAt(shape, q, saw, n)
        type == at + Len(NameOf(shape, q))
    IN  /\ at \in Nat /\ at >= HEADER_LEN /\ Len(NameOf(shape, q)) \in Nat /\ Len(r.data) \in Nat
        /\ Holds(packet, HEADER_LEN, at, NameOf(shape, q))
        /\ Holds(packet, HEADER_LEN, type + 10, r.data)
        /\ RecordAt(shape, q, saw, n + 1) = (type + 10) + Len(r.data)
        /\ (type + 10) + Len(r.data) <= HEADER_LEN + Len(DnsBody(shape, q, saw))
        /\ type + 10 <= packet.size => U16At(type) = r.type /\ U16At(type + 8) = Len(r.data)

(* The octets of the response are those of its records. *)
LEMMA RecordRead ==
    ASSUME NEW shape, NEW q, NEW saw, Answerable(shape, q, saw),
           NEW n \in 1..Len(shape.records), DnsHeard(shape, q, saw), packet.size \in Nat
    PROVE  RecordHeld(shape, q, saw, n)
<1> DEFINE r == DnsRecord(shape.records[n], saw)
           name == NameOf(shape, q)
           a == Record(name, r.type, r.data)
           at == RecordAt(shape, q, saw, n)
           body == DnsBody(shape, q, saw)
           type == at + Len(name)
<1>1. Placed(shape, q, saw, n)
  BY RecordsLie
<1>2. /\ at \in Nat /\ at >= HEADER_LEN /\ Recorded(a, name, r.type, r.data)
      /\ at - HEADER_LEN \in Nat /\ LiesAt(a, at - HEADER_LEN, body)
      /\ RecordAt(shape, q, saw, n + 1) = at + Len(a)
  BY <1>1 DEF Placed
<1>3. Holds(packet, HEADER_LEN, HEADER_LEN, body) /\ HEADER_LEN = 12
  BY DEF DnsHeard, HEADER_LEN
<1>4. r.type \in Nat
  <2>1. shape.records[n] \in RecordKinds /\ Seen(saw)
    BY RecordsOf DEF Answerable
  <2>2. QED
    BY <2>1, RecordsTyped DEF RecordTyped
<1>5. /\ Len(name) \in Nat /\ Len(r.data) \in Nat /\ Len(a) \in Nat
      /\ Len(a) = Len(name) + 10 + Len(r.data)
      /\ LiesAt(name, 0, a) /\ LiesAt(r.data, Len(name) + 10, a)
      /\ a[Len(name) + 1] = 0 /\ a[Len(name) + 2] = r.type
      /\ a[Len(name) + 9] = 0 /\ a[Len(name) + 10] = Len(r.data)
  BY <1>2 DEF Recorded
<1> DEFINE l == Len(name)
           d == Len(r.data)
           la == Len(a)
<1> HIDE DEF r, a, at, body, name
<1>6. Holds(packet, HEADER_LEN, HEADER_LEN + (at - HEADER_LEN), a)
  BY <1>2, <1>3, HoldsWithin
<1>7. HEADER_LEN + (at - HEADER_LEN) = at
  BY <1>2, <1>3
<1>8. Holds(packet, HEADER_LEN, at, a)
  BY <1>6, <1>7
<1>9. Holds(packet, HEADER_LEN, at, name)
  <2>1. Holds(packet, HEADER_LEN, at + 0, name)
    BY <1>2, <1>5, <1>8, HoldsWithin
  <2>2. at + 0 = at
    BY <1>2
  <2>3. QED
    BY <2>1, <2>2
<1>10. Holds(packet, HEADER_LEN, type + 10, r.data)
  <2>1. Len(name) + 10 \in Nat
    BY <1>5
  <2>2. Holds(packet, HEADER_LEN, at + (Len(name) + 10), r.data)
    BY <1>2, <1>5, <1>8, <2>1, HoldsWithin
  <2>3. at + (Len(name) + 10) = type + 10
    BY <1>2, <1>5
  <2>4. QED
    BY <2>2, <2>3
<1>11. /\ at \in Nat /\ l \in Nat /\ d \in Nat /\ la \in Nat /\ la = l + 10 + d
       /\ type = at + l
  BY <1>2, <1>5
<1>12. Len(body) \in Nat /\ (at - HEADER_LEN) + Len(a) <= Len(body)
  BY <1>2 DEF LiesAt
<1> HIDE DEF l, d, la, type
<1>13. at + la = (type + 10) + d /\ (type + 10) + d <= HEADER_LEN + Len(body)
  <2>1. (at - HEADER_LEN) + la <= Len(body)
    BY <1>12 DEF la
  <2> DEFINE lb == Len(body)
  <2>2. lb \in Nat /\ (at - 12) + la <= lb
    BY <1>3, <1>12, <2>1
  <2> HIDE DEF lb
  <2>3. at + la = (type + 10) + d /\ (type + 10) + d <= 12 + lb
    BY <1>11, <2>2
  <2>4. QED
    BY <1>3, <2>3 DEF lb
<1>14. ASSUME type + 10 <= packet.size
       PROVE U16At(type) = r.type /\ U16At(type + 8) = d
  <2> DEFINE p == l + 1
             s == l + 9
             u == type + 8
  <2>1. p \in 1..Len(a) /\ p + 1 \in 1..Len(a) /\ s \in 1..Len(a) /\ s + 1 \in 1..Len(a)
    BY <1>11 DEF la
  <2>2. /\ at + p + 1 <= packet.size /\ type = at + p - 1
        /\ at + s + 1 <= packet.size /\ u = at + s - 1
    BY <1>11, <1>14
  <2>3. Len(a) \in Nat
    BY <1>5
  <2> HIDE DEF p, s, u
  <2>4. U16At(type) = 256 * a[p] + a[p + 1]
    BY <1>2, <1>8, <2>1, <2>2, <2>3, DnsNumberHeld
  <2>5. U16At(u) = 256 * a[s] + a[s + 1]
    BY <1>2, <1>8, <2>1, <2>2, <2>3, DnsNumberHeld
  <2>6. (l + 1) + 1 = l + 2 /\ (l + 9) + 1 = l + 10
    BY <1>11
  <2>7. a[p] = 0 /\ a[p + 1] = r.type /\ a[s] = 0 /\ a[s + 1] = d
    BY <1>5, <2>6 DEF l, d, p, s
  <2>8. 256 * 0 + r.type = r.type /\ 256 * 0 + d = d
    BY <1>4, <1>11 DEF r
  <2>9. QED
    BY <2>4, <2>5, <2>7, <2>8 DEF u
<1>15. RecordAt(shape, q, saw, n + 1) = (type + 10) + d
  BY <1>2, <1>13 DEF la
<1>16. QED
  BY <1>2, <1>9, <1>10, <1>5, <1>13, <1>14, <1>15
     DEF RecordHeld, r, at, type, body, d, name

(* The record whose turn it is. *)
LEMMA TurnOf ==
    ASSUME NEW shape, NEW q, NEW saw, Answerable(shape, q, saw),
           AnswersRead(shape, q, saw), todo # 0
    PROVE  /\ Turn(shape) \in 1..Len(shape.records)
           /\ results = JoinOf(SayParts(shape, q, saw))[Turn(shape) - 1]
           /\ todo - 1 \in 0..Len(shape.records)
           /\ Len(shape.records) - (todo - 1) = Turn(shape)
           /\ (Len(shape.records) - (todo - 1)) + 1 = Turn(shape) + 1
           /\ NextAt(shape, q, saw) = RecordAt(shape, q, saw, Turn(shape))
<1> DEFINE N == Len(shape.records)
<1>1. N \in Nat
  BY RecordsOf DEF Answerable
<1>2. todo \in 0..N /\ results = JoinOf(SayParts(shape, q, saw))[N - todo]
  BY DEF AnswersRead
<1>3. Turn(shape) = (N - todo) + 1
  BY DEF Turn
<1> HIDE DEF N
<1>4. /\ Turn(shape) \in 1..N /\ Turn(shape) - 1 = N - todo /\ todo - 1 \in 0..N
      /\ N - (todo - 1) = Turn(shape) /\ (N - (todo - 1)) + 1 = Turn(shape) + 1
  BY <1>1, <1>2, <1>3
<1>5. QED
  BY <1>2, <1>4 DEF N, NextAt

(* After a record comes the next one. *)
LEMMA TurnDone ==
    ASSUME NEW shape, NEW q, NEW saw, Answerable(shape, q, saw), AnswersRead(shape, q, saw),
           DnsHeard(shape, q, saw), packet.size \in Nat, todo # 0, UNCHANGED <<packet, rtype>>,
           todo' = todo - 1, results' = results \o Says(shape, q, saw, Turn(shape)),
           pos' = RecordAt(shape, q, saw, Turn(shape) + 1), parsing' = "answers"
    PROVE  DnsReads(shape, q, saw)'
<1> DEFINE N == Len(shape.records)
           n == Turn(shape)
<1>1. /\ n \in 1..N /\ results = JoinOf(SayParts(shape, q, saw))[n - 1]
      /\ todo - 1 \in 0..N /\ N - (todo - 1) = n /\ (N - (todo - 1)) + 1 = n + 1
  BY TurnOf
<1>2. results' = JoinOf(SayParts(shape, q, saw))[n]
  <2>1. JoinOf(SayParts(shape, q, saw))[n] =
            JoinOf(SayParts(shape, q, saw))[n - 1] \o Says(shape, q, saw, n)
    BY <1>1, SaysAdded
  <2>2. QED
    BY <1>1, <2>1
<1>3. AnswersRead(shape, q, saw)'
  BY <1>1, <1>2 DEF AnswersRead
<1>4. NextAt(shape, q, saw)' = RecordAt(shape, q, saw, n + 1)
  BY <1>1 DEF NextAt, Turn
<1>5. DnsHeard(shape, q, saw)'
  BY DEF DnsHeard, Holds
<1> HIDE DEF n
<1>6. QED
  BY <1>3, <1>4, <1>5 DEF DnsReads, n

(* ReadString, on a string that a server wrote. *)
StringTaken(s) ==
    /\ text'.at = (text.at + 1) + Len(s) /\ text'.end = text.end
    /\ text'.txt = text.txt \o Kept(s)
    /\ UNCHANGED <<packet, rtype, parsing, pos, todo, results>>

(* A string that lies within its record is taken. *)
LEMMA StringRead ==
    ASSUME Reading, NEW s \in Seq(Octet), Holds(packet, HEADER_LEN, text.at, CharString(s)),
           parsing = "text", (text.at + 1) + Len(s) <= text.end, ReadString
    PROVE  StringTaken(s)
<1> DEFINE at == text.at
           end == text.end
           txt == text.txt
           c == CharString(s)
           l == Len(s)
<1>1. /\ packet \in DnsMsg /\ text \in [at : Nat, end : Nat, txt : Seq(Octet)]
      /\ at >= HEADER_LEN /\ end <= packet.size
  BY DEF Reading
<1>2. at \in Nat /\ end \in Nat /\ txt \in Seq(Octet) /\ packet.size \in Nat
  BY <1>1, DnsMsgFields
<1>3. Counted(c, s)
  BY CharStringCounts
<1>4. l \in Nat /\ Len(c) = 1 + l /\ c[1] = l /\ LiesAt(s, 1, c)
  BY <1>3 DEF Counted
<1>5. Len(c) \in Nat /\ 1 \in 1..Len(c)
  BY <1>4
<1>6. (at + 1) + l <= end
  OBVIOUS
<1>7. Holds(packet, HEADER_LEN, at, c) /\ HEADER_LEN = 12
  BY DEF HEADER_LEN
<1> HIDE DEF c, l, at, end, txt
<1>8. (at + 1) + l <= packet.size /\ at + 1 <= packet.size /\ at = at + 1 - 1 /\ at + 1 \in Nat
  BY <1>1, <1>2, <1>4, <1>6
<1>9. OctetAt(at) = l
  BY <1>2, <1>4, <1>5, <1>7, <1>8, DnsHeld
<1>10. Holds(packet, HEADER_LEN, at + 1, s)
  BY <1>2, <1>4, <1>7, HoldsWithin
<1>11. at + 1 >= HEADER_LEN
  BY <1>1, <1>2, <1>7
<1>12. Slice(at + 1, (at + 1) + l) = s
  BY <1>1, <1>8, <1>10, <1>11, SliceHeld DEF l
<1>13. Within(at + 1)
  BY <1>8 DEF Within
<1>14. ~((at + 1) + l > end)
  BY <1>2, <1>4, <1>6
<1>15. /\ text' = IF (at + 1) + OctetAt(at) > end THEN [text EXCEPT !.at = end]
                  ELSE [text EXCEPT !.at = (at + 1) + OctetAt(at),
                           !.txt = IF IsUtf8(Slice(at + 1, (at + 1) + OctetAt(at)))
                                   THEN txt \o Slice(at + 1, (at + 1) + OctetAt(at)) ELSE txt]
       /\ UNCHANGED <<packet, rtype, parsing, pos, todo, results>>
  BY <1>13 DEF ReadString, at, end, txt
<1>16. text' = [text EXCEPT !.at = (at + 1) + l, !.txt = IF IsUtf8(s) THEN txt \o s ELSE txt]
  BY <1>9, <1>12, <1>14, <1>15
<1>17. text'.at = (at + 1) + l /\ text'.end = end /\ text'.txt = (IF IsUtf8(s) THEN txt \o s ELSE txt)
  BY <1>1, <1>16 DEF end
<1>18. txt \o <<>> = txt
  BY <1>2, ConcatEmptySeq
<1>19. text'.txt = txt \o Kept(s)
  BY <1>17, <1>18 DEF Kept
<1>20. QED
  BY <1>15, <1>17, <1>19 DEF StringTaken, at, end, txt, l

(* The character strings of a record, in the place that the datagram has them. *)
StringsHeld(strings, at, n) ==
    /\ Len(strings) \in {1, 2} /\ Len(strings[1]) \in Nat
    /\ strings[1] \in Seq(Octet) /\ Holds(packet, HEADER_LEN, at, CharString(strings[1]))
    /\ Len(strings) = 1 => n = 1 + Len(strings[1])
    /\ Len(strings) = 2 =>
          /\ strings[2] \in Seq(Octet) /\ Len(strings[2]) \in Nat
          /\ n = 1 + Len(strings[1]) + 1 + Len(strings[2])
          /\ Holds(packet, HEADER_LEN, (at + 1) + Len(strings[1]), CharString(strings[2]))

(* Where the data of a text record are held its strings are. *)
LEMMA StringsAreHeld ==
    ASSUME NEW kind, NEW saw, NEW strings, InStrings(kind, saw, strings), NEW at \in Nat,
           Holds(packet, HEADER_LEN, at, DnsRecord(kind, saw).data)
    PROVE  StringsHeld(strings, at, Len(DnsRecord(kind, saw).data))
<1> DEFINE data == DnsRecord(kind, saw).data
           a == strings[1]
           b == strings[2]
           ca == CharString(a)
           cb == CharString(b)
<1>1. /\ Len(strings) \in {1, 2} /\ \A i \in 1..Len(strings) : strings[i] \in Seq(Octet)
      /\ data = IF Len(strings) = 2 THEN ca \o cb ELSE ca
  BY DEF InStrings
<1>2. 1 \in 1..Len(strings) /\ (Len(strings) = 2 => 2 \in 1..Len(strings))
  BY <1>1
<1>3. a \in Seq(Octet) /\ (Len(strings) = 2 => b \in Seq(Octet))
  BY <1>1, <1>2
<1>4. Counted(ca, a) /\ (Len(strings) = 2 => Counted(cb, b))
  BY <1>3, CharStringCounts
<1> HIDE DEF data, a, b, ca, cb
<1>5. Len(a) \in Nat /\ Len(ca) = 1 + Len(a) /\ ca \in Seq(Int)
  BY <1>4 DEF Counted
<1>6. Holds(packet, HEADER_LEN, at, data)
  BY DEF data
<1>7. CASE Len(strings) = 1
  <2>1. data = ca
    BY <1>1, <1>7
  <2>2. QED
    BY <1>1, <1>3, <1>5, <1>6, <1>7, <2>1 DEF StringsHeld, a, ca, data
<1>8. CASE Len(strings) = 2
  <2>1. data = ca \o cb
    BY <1>1, <1>8
  <2>2. Len(b) \in Nat /\ Len(cb) = 1 + Len(b) /\ cb \in Seq(Int)
    BY <1>4, <1>8 DEF Counted
  <2>3. LiesAt(ca, 0, data) /\ LiesAt(cb, Len(ca), data)
    BY <1>5, <2>1, <2>2, ConcatLies
  <2>4. Concatenated(ca, cb, data)
    BY <1>5, <2>1, <2>2, ConcatNumbers
  <2>5. Len(data) = Len(ca) + Len(cb)
    BY <2>4 DEF Concatenated
  <2>6. Holds(packet, HEADER_LEN, at + 0, ca)
    BY <1>6, <2>3, HoldsWithin
  <2>7. Len(ca) \in Nat
    BY <1>5
  <2>8. Holds(packet, HEADER_LEN, at + Len(ca), cb)
    BY <1>6, <2>3, <2>7, HoldsWithin
  <2>9. at + 0 = at /\ at + Len(ca) = (at + 1) + Len(a)
    BY <1>5
  <2>10. Len(data) = 1 + Len(a) + 1 + Len(b)
    BY <1>5, <2>2, <2>5
  <2>11. Holds(packet, HEADER_LEN, at, ca) /\ Holds(packet, HEADER_LEN, (at + 1) + Len(a), cb)
    BY <2>6, <2>8, <2>9
  <2>12. QED
    BY <1>1, <1>3, <1>5, <1>8, <2>2, <2>10, <2>11 DEF StringsHeld, a, b, ca, cb, data
<1>9. QED
  BY <1>1, <1>7, <1>8

(* Reading a text goes from one of its strings to the next ... *)
LEMMA TextGoesOn ==
    ASSUME Reading, NEW strings, NEW at \in Nat, NEW n, StringsHeld(strings, at, n), parsing = "text",
           text.end = at + n, AtString(strings, at), ReadString
    PROVE  /\ AtString(strings, at)' /\ text'.end = text.end
           /\ UNCHANGED <<packet, rtype, parsing, pos, todo, results>>
<1> DEFINE a == strings[1]
           b == strings[2]
<1>1. text \in [at : Nat, end : Nat, txt : Seq(Octet)] /\ text.at < text.end
  BY DEF Reading, ReadString
<1>2. Len(a) \in Nat /\ a \in Seq(Octet) /\ Kept(a) \in Seq(Octet)
  BY DEF StringsHeld, Kept
<1> HIDE DEF a, b
<1>3. CASE text.at = at /\ text.txt = <<>>
  <2>1. /\ Holds(packet, HEADER_LEN, text.at, CharString(a))
        /\ (text.at + 1) + Len(a) <= text.end
    <3>1. Holds(packet, HEADER_LEN, text.at, CharString(a))
      BY <1>3 DEF StringsHeld, a
    <3>2. CASE Len(strings) = 1
      <4>1. n = 1 + Len(a)
        BY <3>2 DEF StringsHeld, a
      <4>2. QED
        BY <1>2, <1>3, <3>1, <4>1
    <3>3. CASE Len(strings) = 2
      <4>1. n = 1 + Len(a) + 1 + Len(b) /\ Len(b) \in Nat
        BY <3>3 DEF StringsHeld, a, b
      <4>2. QED
        BY <1>2, <1>3, <3>1, <4>1
    <3>4. QED
      BY <3>2, <3>3 DEF StringsHeld
  <2>2. StringTaken(a)
    BY <1>2, <2>1, StringRead
  <2>3. <<>> \o Kept(a) = Kept(a)
    BY <1>2, ConcatEmptySeq
  <2>4. text'.at = (at + 1) + Len(a) /\ text'.txt = Kept(a)
    BY <1>3, <2>2, <2>3 DEF StringTaken
  <2>5. QED
    BY <2>2, <2>4 DEF StringTaken, AtString, a
<1>4. CASE text.at = at + 1 + Len(a) /\ text.txt = Kept(a)
  <2>1. Len(strings) = 2
    <3>1. CASE Len(strings) = 1
      <4>1. n = 1 + Len(a)
        BY <3>1 DEF StringsHeld, a
      <4>2. QED
        BY <1>1, <1>2, <1>4, <4>1
    <3>2. QED
      BY <3>1 DEF StringsHeld
  <2>2. /\ n = 1 + Len(a) + 1 + Len(b) /\ Len(b) \in Nat /\ b \in Seq(Octet)
        /\ Holds(packet, HEADER_LEN, (at + 1) + Len(a), CharString(b))
    BY <2>1 DEF StringsHeld, a, b
  <2>3. (text.at + 1) + Len(b) <= text.end
    BY <1>2, <1>4, <2>2
  <2>4. StringTaken(b)
    BY <1>4, <2>2, <2>3, StringRead
  <2>5. text'.at = at + 1 + Len(a) + 1 + Len(b) /\ text'.txt = Kept(a) \o Kept(b)
    BY <1>2, <1>4, <2>2, <2>4 DEF StringTaken
  <2>6. QED
    BY <2>1, <2>4, <2>5 DEF StringTaken, AtString, a, b
<1>5. CASE Len(strings) = 2 /\ text.at = at + 1 + Len(a) + 1 + Len(b)
  <2>1. n = 1 + Len(a) + 1 + Len(b) /\ Len(b) \in Nat
    BY <1>5 DEF StringsHeld, a, b
  <2>2. FALSE
    BY <1>1, <1>2, <1>5, <2>1
  <2>3. QED
    BY <2>2
<1>6. QED
  BY <1>3, <1>4, <1>5 DEF AtString, a, b

(* ... until the text is whole. *)
LEMMA TextIsWhole ==
    ASSUME Reading, NEW strings, NEW at \in Nat, NEW n, StringsHeld(strings, at, n), parsing = "text",
           text.end = at + n, AtString(strings, at), text.at >= text.end
    PROVE  text.txt = Whole(strings) /\ text.end = at + n
<1> DEFINE a == strings[1]
           b == strings[2]
<1>1. Len(a) \in Nat /\ Len(strings) \in {1, 2}
  BY DEF StringsHeld
<1> HIDE DEF a, b
<1>2. CASE Len(strings) = 1
  <2>1. n = 1 + Len(a)
    BY <1>2 DEF StringsHeld, a
  <2>2. text.at # at
    BY <1>1, <2>1
  <2>3. text.txt = Kept(a)
    BY <1>2, <2>2 DEF AtString, a
  <2>4. QED
    BY <1>2, <2>3 DEF Whole, a
<1>3. CASE Len(strings) = 2
  <2>1. n = 1 + Len(a) + 1 + Len(b) /\ Len(b) \in Nat
    BY <1>3 DEF StringsHeld, a, b
  <2>2. text.at # at /\ text.at # at + 1 + Len(a)
    BY <1>1, <2>1
  <2>3. text.txt = Kept(a) \o Kept(b)
    BY <1>3, <2>2 DEF AtString, a, b
  <2>4. QED
    BY <1>3, <2>3 DEF Whole, a, b
<1>4. QED
  BY <1>1, <1>2, <1>3

-----------------------------------------------------------------------------
(* Each step of the parser goes on with what the server said. *)

(* What was heard stays heard, ... *)
LEMMA HeardStays ==
    ASSUME NEW shape, NEW q, NEW saw, UNCHANGED <<packet, rtype>>
    PROVE  /\ DnsHeard(shape, q, saw) => DnsHeard(shape, q, saw)'
           /\ WasCut(shape, q, saw) => WasCut(shape, q, saw)'
<1>1. QED
  BY DEF DnsHeard, WasCut, Holds

(* ... and what was read of the answers stays read. *)
LEMMA AnswersStay ==
    ASSUME NEW shape, NEW q, NEW saw, UNCHANGED <<todo, results>>
    PROVE  /\ AnswersRead(shape, q, saw) => AnswersRead(shape, q, saw)'
           /\ NextAt(shape, q, saw)' = NextAt(shape, q, saw)
<1>1. QED
  BY DEF AnswersRead, NextAt, Turn

(* The question that a response echoes. *)
LEMMA QuestionHeld ==
    ASSUME NEW shape, NEW q, NEW saw, Answerable(shape, q, saw), DnsHeard(shape, q, saw)
    PROVE  /\ Holds(packet, HEADER_LEN, HEADER_LEN, EncodeName(q.labels))
           /\ Len(EncodeName(q.labels)) \in Nat /\ Len(DnsBody(shape, q, saw)) \in Nat
           /\ Len(Inquiry(q)) = Len(EncodeName(q.labels)) + 4
           /\ Len(EncodeName(q.labels)) + 4 <= Len(DnsBody(shape, q, saw))
<1> DEFINE name == EncodeName(q.labels)
           ask == Inquiry(q)
           body == DnsBody(shape, q, saw)
<1>1. Named(q.labels) /\ q.type \in Nat /\ q.class \in Nat
  BY DEF Answerable, A, Txt, Aaaa
<1>2. Len(name) \in Nat /\ Len(ask) = Len(name) + 4 /\ LiesAt(name, 0, ask)
  BY <1>1, InquiryLaid
<1>3. LiesAt(ask, 0, body) /\ Len(body) \in Nat
  BY BodyTyped
<1>4. Holds(packet, HEADER_LEN, HEADER_LEN, body) /\ HEADER_LEN \in Nat /\ HEADER_LEN + 0 = HEADER_LEN
  BY DEF DnsHeard, HEADER_LEN
<1> HIDE DEF name, ask, body
<1>5. LiesAt(name, 0 + 0, body)
  BY <1>2, <1>3, LiesWithin
<1>6. LiesAt(name, 0, body)
  BY <1>5
<1>7. Holds(packet, HEADER_LEN, HEADER_LEN + 0, name)
  BY <1>4, <1>6, HoldsWithin
<1>8. Holds(packet, HEADER_LEN, HEADER_LEN, name)
  BY <1>4, <1>7
<1>9. 0 + Len(ask) <= Len(body)
  BY <1>3 DEF LiesAt
<1>10. Len(name) + 4 <= Len(body)
  BY <1>2, <1>3, <1>9
<1>11. QED
  BY <1>2, <1>3, <1>8, <1>10 DEF name, ask, body

(* The first label begins its name. *)
LEMMA FirstLabel ==
    ASSUME NEW labels, Named(labels)
    PROVE  LabelAt(labels, 1) = 0 /\ 1 \in 1..Len(labels) + 1
<1>1. NameParts(labels) \in Seq(Seq(Int)) /\ Len(labels) \in Nat
  BY NameTyped
<1> DEFINE parts == NameParts(labels)
<1>2. LabelAt(labels, 1) = Len(JoinOf(parts)[1 - 1])
  BY DEF LabelAt
<1> HIDE DEF parts
<1>3. JoinOf(parts)[0] = <<>>
  BY <1>1, JoinedBy DEF parts
<1>4. Len(JoinOf(parts)[1 - 1]) = 0
  BY <1>3
<1>5. QED
  BY <1>1, <1>2, <1>4

(* The count of questions, ... *)
LEMMA NextQuestionRead ==
    ASSUME NEW shape, NEW q, NEW saw, Answerable(shape, q, saw), Reading,
           DnsReads(shape, q, saw), NextQuestion
    PROVE  DnsReads(shape, q, saw)'
<1>1. /\ parsing = "questions" /\ DnsHeard(shape, q, saw) /\ results = <<>>
      /\ UNCHANGED <<packet, rtype, pos, text, results>>
      /\ \/ todo = 1 /\ pos = HEADER_LEN
         \/ todo = 0 /\ pos = HEADER_LEN + Len(Inquiry(q))
  BY DEF DnsReads, NextQuestion
<1>2. DnsHeard(shape, q, saw)'
  BY <1>1, HeardStays
<1>3. Len(shape.records) \in Nat /\ packet.ancount = Len(shape.records)
  BY <1>1, RecordsOf DEF Answerable, DnsHeard
<1>4. CASE todo = 0
  <2>1. parsing' = "answers" /\ todo' = Len(shape.records)
    BY <1>1, <1>3, <1>4 DEF NextQuestion
  <2>2. JoinOf(SayParts(shape, q, saw))[0] = <<>>
    BY SaysAdded
  <2>3. todo' \in 0..Len(shape.records) /\ Len(shape.records) - todo' = 0
    BY <1>3, <2>1
  <2>4. AnswersRead(shape, q, saw)'
    BY <1>1, <2>2, <2>3 DEF AnswersRead
  <2>5. NextAt(shape, q, saw)' = RecordAt(shape, q, saw, 1)
    BY <2>3 DEF NextAt, Turn
  <2>6. RecordAt(shape, q, saw, 1) = HEADER_LEN + Len(Inquiry(q))
    BY RecordsEnd
  <2>7. pos' = NextAt(shape, q, saw)'
    BY <1>1, <1>4, <2>5, <2>6
  <2>8. QED
    BY <1>2, <2>1, <2>4, <2>7 DEF DnsReads
<1>5. CASE todo = 1
  <2>1. parsing' = "qname" /\ todo' = 1 /\ pos' = HEADER_LEN
    BY <1>1, <1>5 DEF NextQuestion
  <2>2. AtLabel(q.labels, HEADER_LEN)'
    <3>1. LabelAt(q.labels, 1) = 0 /\ 1 \in 1..Len(q.labels) + 1
      BY FirstLabel DEF Answerable
    <3>2. HEADER_LEN + 0 = HEADER_LEN
      BY DEF HEADER_LEN
    <3>3. QED
      BY <2>1, <3>1, <3>2 DEF AtLabel
  <2>3. QED
    BY <1>1, <1>2, <2>1, <2>2 DEF DnsReads
<1>6. QED
  BY <1>1, <1>4, <1>5

(* ... the name of the question, ... *)
LEMMA QuestionNameRead ==
    ASSUME NEW shape, NEW q, NEW saw, Answerable(shape, q, saw), Reading,
           DnsReads(shape, q, saw), QuestionName
    PROVE  DnsReads(shape, q, saw)'
<1> DEFINE l == Len(EncodeName(q.labels))
<1>1. /\ parsing = "qname" /\ DnsHeard(shape, q, saw) /\ results = <<>> /\ todo = 1
      /\ AtLabel(q.labels, HEADER_LEN) /\ SkipName("question")
  BY DEF DnsReads, QuestionName
<1>2. packet.size \in Nat
  BY DnsMsgFields DEF Reading
<1>3. /\ Holds(packet, HEADER_LEN, HEADER_LEN, EncodeName(q.labels)) /\ Named(q.labels)
      /\ HEADER_LEN \in Nat
  BY <1>1, QuestionHeld DEF Answerable, HEADER_LEN
<1>4. NameTurn(HEADER_LEN, l, "question", AtLabel(q.labels, HEADER_LEN)')
  BY <1>1, <1>2, <1>3, NameSkips
<1>5. UNCHANGED <<packet, rtype, todo, text, results>>
  BY <1>4 DEF NameTurn
<1>6. DnsHeard(shape, q, saw)'
  BY <1>1, <1>5, HeardStays
<1> HIDE DEF l
<1>7. CASE packet.size < HEADER_LEN + l /\ parsing' = "rejected"
  <2>1. WasCut(shape, q, saw)
    <3>1. l \in Nat /\ Len(DnsBody(shape, q, saw)) \in Nat /\ l + 4 <= Len(DnsBody(shape, q, saw))
      BY <1>1, QuestionHeld DEF l
    <3>2. QED
      BY <1>2, <1>7, <3>1 DEF WasCut, HEADER_LEN
  <2>2. WasCut(shape, q, saw)'
    BY <1>5, <2>1, HeardStays
  <2>3. QED
    BY <1>7, <2>2 DEF DnsReads
<1>8. CASE parsing' = "question" /\ pos' = HEADER_LEN + l
  BY <1>1, <1>5, <1>6, <1>8 DEF DnsReads, l
<1>9. CASE parsing' = parsing /\ AtLabel(q.labels, HEADER_LEN)'
  BY <1>1, <1>5, <1>6, <1>9 DEF DnsReads
<1>10. QED
  BY <1>4, <1>7, <1>8, <1>9 DEF NameTurn

(* ... its type and class, ... *)
LEMMA SkipQuestionRead ==
    ASSUME NEW shape, NEW q, NEW saw, Answerable(shape, q, saw), Reading,
           DnsReads(shape, q, saw), SkipQuestion
    PROVE  DnsReads(shape, q, saw)'
<1> DEFINE l == Len(EncodeName(q.labels))
<1>1. /\ parsing = "question" /\ DnsHeard(shape, q, saw) /\ results = <<>> /\ todo = 1
      /\ pos = HEADER_LEN + l
  BY DEF DnsReads, SkipQuestion
<1>2. packet.size \in Nat
  BY DnsMsgFields DEF Reading
<1>3. /\ l \in Nat /\ Len(DnsBody(shape, q, saw)) \in Nat /\ l + 4 <= Len(DnsBody(shape, q, saw))
      /\ Len(Inquiry(q)) = l + 4 /\ HEADER_LEN = 12
  BY <1>1, QuestionHeld DEF HEADER_LEN
<1> HIDE DEF l
<1>4. CASE pos + 4 > packet.size
  <2>1. parsing' = "rejected" /\ UNCHANGED <<packet, rtype>>
    BY <1>4 DEF SkipQuestion, ParserEnds
  <2>2. WasCut(shape, q, saw)
    BY <1>1, <1>2, <1>3, <1>4 DEF WasCut
  <2>3. WasCut(shape, q, saw)'
    BY <2>1, <2>2, HeardStays
  <2>4. QED
    BY <2>1, <2>3 DEF DnsReads
<1>5. CASE ~(pos + 4 > packet.size)
  <2>1. /\ parsing' = "questions" /\ pos' = pos + 4 /\ todo' = todo - 1
        /\ UNCHANGED <<packet, rtype, text, results>>
    BY <1>5 DEF SkipQuestion
  <2>2. DnsHeard(shape, q, saw)'
    BY <1>1, <2>1, HeardStays
  <2>3. todo' = 0 /\ pos' = HEADER_LEN + Len(Inquiry(q))
    BY <1>1, <1>3, <2>1
  <2>4. results' = <<>>
    BY <1>1, <2>1
  <2>5. QED
    BY <2>1, <2>2, <2>3, <2>4 DEF DnsReads
<1>6. QED
  BY <1>4, <1>5

(* ... the count of answers, ... *)
LEMMA NextAnswerRead ==
    ASSUME NEW shape, NEW q, NEW saw, Answerable(shape, q, saw), Reading,
           DnsReads(shape, q, saw), NextAnswer
    PROVE  DnsReads(shape, q, saw)'
<1>1. /\ parsing = "answers" /\ DnsHeard(shape, q, saw) /\ AnswersRead(shape, q, saw)
      /\ pos = NextAt(shape, q, saw) /\ UNCHANGED <<packet, rtype, pos, todo, text, results>>
  BY DEF DnsReads, NextAnswer, ParserEnds
<1>2. /\ DnsHeard(shape, q, saw)' /\ AnswersRead(shape, q, saw)'
      /\ NextAt(shape, q, saw)' = NextAt(shape, q, saw)
  BY <1>1, HeardStays, AnswersStay
<1>3. packet.size \in Nat
  BY DnsMsgFields DEF Reading
<1>4. CASE todo = 0
  <2>1. parsing' = "parsed" /\ todo' = 0
    BY <1>1, <1>4 DEF NextAnswer, ParserEnds
  <2>2. QED
    BY <1>2, <2>1 DEF DnsReads
<1>5. CASE todo # 0 /\ pos >= packet.size
  <2>1. parsing' = "parsed"
    BY <1>5 DEF NextAnswer, ParserEnds
  <2> DEFINE n == Turn(shape)
             d == Len(DnsRecord(shape.records[n], saw).data)
             l == Len(NameOf(shape, q))
             at == RecordAt(shape, q, saw, n)
             full == HEADER_LEN + Len(DnsBody(shape, q, saw))
  <2>2. n \in 1..Len(shape.records) /\ NextAt(shape, q, saw) = at
    BY <1>1, <1>5, TurnOf
  <2>3. RecordHeld(shape, q, saw, n)
    BY <1>1, <1>3, <2>2, RecordRead
  <2>4. at \in Nat /\ l \in Nat /\ d \in Nat /\ ((at + l) + 10) + d <= full
    BY <2>3 DEF RecordHeld
  <2>5. full \in Nat
    BY RecordsEnd DEF HEADER_LEN
  <2> HIDE DEF n, d, l, at, full
  <2>6. packet.size < full
    BY <1>1, <1>3, <1>5, <2>2, <2>4, <2>5
  <2>7. WasCut(shape, q, saw)'
    BY <1>1, <2>6, HeardStays DEF WasCut, full
  <2>8. QED
    BY <1>2, <2>1, <2>7 DEF DnsReads
<1>6. CASE todo # 0 /\ ~(pos >= packet.size)
  <2>1. parsing' = "rname"
    BY <1>6 DEF NextAnswer
  <2>2. AtName(shape, q, saw)'
    <3>1. CASE shape.pointer
      <4>1. pos' = NextAt(shape, q, saw)'
        BY <1>1, <1>2
      <4>2. QED
        BY <3>1, <4>1 DEF AtName
    <3>2. CASE ~shape.pointer
      <4> DEFINE at == NextAt(shape, q, saw)
      <4>3. LabelAt(q.labels, 1) = 0 /\ 1 \in 1..Len(q.labels) + 1
        BY FirstLabel DEF Answerable
      <4>4. at \in Nat
        <5>1. Turn(shape) \in 1..Len(shape.records) /\ at = RecordAt(shape, q, saw, Turn(shape))
          BY <1>1, <1>6, TurnOf
        <5>2. QED
          BY <5>1, RecordsLie DEF Placed
      <4> HIDE DEF at
      <4>5. at + 0 = at
        BY <4>4
      <4>6. pos' = at + LabelAt(q.labels, 1) /\ NextAt(shape, q, saw)' = at
        BY <1>1, <1>2, <4>3, <4>5 DEF at
      <4>7. \E j \in 1..Len(q.labels) + 1 : pos' = NextAt(shape, q, saw)' + LabelAt(q.labels, j)
        BY <4>3, <4>6
      <4>8. AtLabel(q.labels, NextAt(shape, q, saw))'
        BY <4>7 DEF AtLabel
      <4>9. QED
        BY <3>2, <4>8 DEF AtName
    <3>3. QED
      BY <3>1, <3>2
  <2>3. todo' # 0
    BY <1>1, <1>6
  <2>4. QED
    BY <1>2, <2>1, <2>2, <2>3 DEF DnsReads
<1>7. QED
  BY <1>4, <1>5, <1>6

(* ... the name of an answer, ... *)
LEMMA AnswerNameRead ==
    ASSUME NEW shape, NEW q, NEW saw, Answerable(shape, q, saw), Reading,
           DnsReads(shape, q, saw), AnswerName
    PROVE  DnsReads(shape, q, saw)'
<1> DEFINE at == NextAt(shape, q, saw)
           l == Len(NameOf(shape, q))
           full == HEADER_LEN + Len(DnsBody(shape, q, saw))
           within == ~shape.pointer /\ AtLabel(q.labels, at)'
<1>1. /\ parsing = "rname" /\ DnsHeard(shape, q, saw) /\ AnswersRead(shape, q, saw)
      /\ todo # 0 /\ AtName(shape, q, saw) /\ SkipName("answer")
  BY DEF DnsReads, AnswerName
<1>2. packet.size \in Nat
  BY DnsMsgFields DEF Reading
<1>3. Turn(shape) \in 1..Len(shape.records) /\ at = RecordAt(shape, q, saw, Turn(shape))
  BY <1>1, TurnOf
<1>4. RecordHeld(shape, q, saw, Turn(shape))
  BY <1>1, <1>2, <1>3, RecordRead
<1>5. at \in Nat /\ l \in Nat /\ Holds(packet, HEADER_LEN, at, NameOf(shape, q))
  BY <1>3, <1>4 DEF RecordHeld
<1>6. at + l < full /\ full \in Nat
  <2> DEFINE d == Len(DnsRecord(shape.records[Turn(shape)], saw).data)
  <2>1. d \in Nat /\ ((at + l) + 10) + d <= full
    BY <1>3, <1>4 DEF RecordHeld
  <2>2. full \in Nat
    BY RecordsEnd DEF HEADER_LEN
  <2> HIDE DEF d, at, l, full
  <2>3. QED
    BY <1>5, <2>1, <2>2
<1>7. NextAt(shape, q, saw)' = at /\ UNCHANGED <<packet, rtype, todo, text, results>>
  <2>1. UNCHANGED <<packet, rtype, todo, text, results>>
    BY <1>1 DEF SkipName
  <2>2. QED
    BY <2>1, AnswersStay
<1>8. DnsHeard(shape, q, saw)' /\ AnswersRead(shape, q, saw)' /\ todo' # 0
  BY <1>1, <1>7, HeardStays, AnswersStay
<1>9. \/ packet.size < at + l /\ parsing' = "rejected"
      \/ parsing' = "answer" /\ pos' = at + l
      \/ parsing' = "rname" /\ AtName(shape, q, saw)'
  <2>1. CASE shape.pointer
    <3>1. NameOf(shape, q) = <<192, 12>> /\ l = 2
      BY <2>1 DEF NameOf
    <3>2. pos = at
      BY <1>1, <2>1 DEF AtName
    <3> HIDE DEF at
    <3>3. NameTurn(at, 2, "answer", FALSE)
      BY <1>1, <1>2, <1>5, <3>1, <3>2, PointerSkipped
    <3>4. QED
      BY <3>1, <3>3 DEF NameTurn
  <2>2. CASE ~shape.pointer
    <3>1. NameOf(shape, q) = EncodeName(q.labels) /\ Named(q.labels)
      BY <2>2 DEF NameOf, Answerable
    <3>2. AtLabel(q.labels, at)
      BY <1>1, <2>2 DEF AtName
    <3> DEFINE start == RecordAt(shape, q, saw, Turn(shape))
    <3>3. PICK s \in Nat : s = at
      BY <1>5
    <3>4. Holds(packet, HEADER_LEN, s, EncodeName(q.labels)) /\ AtLabel(q.labels, s)
      <4>1. Holds(packet, HEADER_LEN, s, EncodeName(q.labels))
        BY <1>5, <3>1, <3>3
      <4>2. AtLabel(q.labels, s)
        BY <3>2, <3>3 DEF AtLabel
      <4>3. QED
        BY <4>1, <4>2
    <3>5. NameTurn(s, Len(EncodeName(q.labels)), "answer", AtLabel(q.labels, s)')
      BY <1>1, <1>2, <3>1, <3>4, NameSkips
    <3>6. AtLabel(q.labels, s)' => AtName(shape, q, saw)'
      BY <1>7, <2>2, <3>3 DEF AtName, AtLabel
    <3>7. l = Len(EncodeName(q.labels))
      BY <3>1
    <3> HIDE DEF l, at
    <3>8. QED
      BY <1>1, <3>3, <3>5, <3>6, <3>7 DEF NameTurn
  <2>3. QED
    BY <2>1, <2>2
<1>10. CASE packet.size < at + l /\ parsing' = "rejected"
  <2>1. packet.size < full
    BY <1>2, <1>5, <1>6, <1>10
  <2>2. WasCut(shape, q, saw)
    BY <2>1 DEF WasCut
  <2>3. WasCut(shape, q, saw)'
    BY <1>7, <2>2, HeardStays
  <2>4. QED
    BY <1>10, <2>3 DEF DnsReads
<1>11. CASE parsing' = "answer" /\ pos' = at + l
  BY <1>7, <1>8, <1>11 DEF DnsReads
<1>12. CASE parsing' = "rname" /\ AtName(shape, q, saw)'
  BY <1>8, <1>12 DEF DnsReads
<1>13. QED
  BY <1>9, <1>10, <1>11, <1>12

(* Only text records are of the type Txt. *)
LEMMA TextKind ==
    ASSUME NEW saw, Seen(saw), NEW kind \in RecordKinds, DnsRecord(kind, saw).type = Txt
    PROVE  kind \in TextKinds \cup {"empty"}
<1>1. A = 1 /\ Aaaa = 28 /\ Txt = 16
  BY DEF A, Aaaa, Txt
<1>2. kind # "address"
  <2>1. DnsRecord("address", saw).type = (IF saw.v6 THEN Aaaa ELSE A)
    BY AddressRecord
  <2>2. DnsRecord("address", saw).type # Txt
    BY <1>1, <2>1
  <2>3. QED
    BY <2>2
<1>3. kind # "short" /\ kind # "cname"
  BY <1>1 DEF DnsRecord
<1>4. QED
  BY <1>2, <1>3 DEF RecordKinds

(* A record that says nothing adds nothing. *)
LEMMA NothingSaid ==
    ASSUME NEW shape, NEW q, NEW saw, Answerable(shape, q, saw), AnswersRead(shape, q, saw)
    PROVE  results \in Seq(Said(saw)) /\ results \o <<>> = results
<1> DEFINE S == Said(saw)
           parts == SayParts(shape, q, saw)
<1>1. parts \in Seq(Seq(S)) /\ Len(parts) = Len(shape.records)
  BY SaysAdded
<1>2. Len(shape.records) \in Nat
  BY RecordsOf DEF Answerable
<1>3. todo \in 0..Len(shape.records) /\ results = JoinOf(parts)[Len(shape.records) - todo]
  BY DEF AnswersRead
<1> HIDE DEF S, parts
<1>4. Len(shape.records) - todo \in 0..Len(parts)
  BY <1>1, <1>2, <1>3
<1>5. JoinOf(parts) \in [0..Len(parts) -> Seq(S)]
  BY <1>1, JoinedBy
<1>6. results \in Seq(S)
  BY <1>3, <1>4, <1>5
<1>7. QED
  BY <1>6, ConcatEmptySeq DEF S

(* ... its ten octets and its address, if it has one, or where its text
   begins, ...                                                               *)
LEMMA ReadRecordRead ==
    ASSUME NEW shape, NEW q, NEW saw, Answerable(shape, q, saw), Reading,
           DnsReads(shape, q, saw), ReadRecord
    PROVE  DnsReads(shape, q, saw)'
<1>0. PICK n : n = Turn(shape)
  OBVIOUS
<1> DEFINE kind == shape.records[n]
           r == DnsRecord(kind, saw)
           at == RecordAt(shape, q, saw, n)
           l == Len(NameOf(shape, q))
           d == Len(r.data)
           full == HEADER_LEN + Len(DnsBody(shape, q, saw))
           data == pos + 10
           end == data + U16At(pos + 8)
<1>1. /\ parsing = "answer" /\ DnsHeard(shape, q, saw) /\ AnswersRead(shape, q, saw)
      /\ todo # 0 /\ pos = NextAt(shape, q, saw) + l /\ rtype = q.type
  BY DEF DnsReads, ReadRecord, DnsHeard
<1>2. packet.size \in Nat /\ packet \in DnsMsg
  BY DnsMsgFields DEF Reading
<1>3. n \in 1..Len(shape.records) /\ NextAt(shape, q, saw) = at
  BY <1>0, <1>1, TurnOf
<1>4. RecordHeld(shape, q, saw, n)
  BY <1>1, <1>2, <1>3, RecordRead
<1>5. pos = at + l
  BY <1>1, <1>3
<1>6. /\ at \in Nat /\ at >= HEADER_LEN /\ l \in Nat /\ d \in Nat
      /\ Holds(packet, HEADER_LEN, (at + l) + 10, r.data)
      /\ RecordAt(shape, q, saw, n + 1) = ((at + l) + 10) + d
      /\ ((at + l) + 10) + d <= full
      /\ (at + l) + 10 <= packet.size => U16At(at + l) = r.type /\ U16At((at + l) + 8) = d
  BY <1>4 DEF RecordHeld
<1>7. full \in Nat /\ HEADER_LEN = 12
  BY RecordsEnd DEF HEADER_LEN
<1>8. kind \in RecordKinds /\ Seen(saw) /\ q.type \in {A, Txt, Aaaa}
  BY <1>3, RecordsOf DEF Answerable
<1> HIDE DEF full, at, l, d, r
<1>9. ASSUME ParserEnds("parsed"), packet.size < full
      PROVE DnsReads(shape, q, saw)'
  <2>1. UNCHANGED <<packet, rtype, todo, results>> /\ parsing' = "parsed"
    BY <1>9 DEF ParserEnds
  <2>2. WasCut(shape, q, saw)
    BY <1>9 DEF WasCut, full
  <2>3. WasCut(shape, q, saw)' /\ DnsHeard(shape, q, saw)' /\ AnswersRead(shape, q, saw)'
    BY <1>1, <2>1, <2>2, HeardStays, AnswersStay
  <2>4. QED
    BY <2>1, <2>3 DEF DnsReads
<1>10. CASE pos + 10 > packet.size
  <2>1. ParserEnds("parsed")
    BY <1>10 DEF ReadRecord
  <2>2. packet.size < full
    BY <1>2, <1>5, <1>6, <1>7, <1>10
  <2>3. QED
    BY <1>9, <2>1, <2>2
<1>11. CASE ~(pos + 10 > packet.size)
  <2>1. data <= packet.size /\ data = (at + l) + 10 /\ pos + 8 = (at + l) + 8
    BY <1>2, <1>5, <1>6, <1>11
  <2>2. U16At(pos) = r.type /\ U16At(pos + 8) = d
    BY <1>5, <1>6, <2>1
  <2>3. end = data + d /\ data \in Nat /\ end \in Nat /\ end <= full
    <3>1. end = data + d
      BY <2>2
    <3>2. data = (at + l) + 10
      BY <2>1
    <3> HIDE DEF data, end
    <3>3. QED
      BY <1>6, <1>7, <3>1, <3>2
  <2> HIDE DEF data, end
  <2>4. CASE ~Within(end)
    <3>1. ParserEnds("parsed")
      BY <1>11, <2>4 DEF ReadRecord, data, end
    <3>2. packet.size < full
      BY <1>2, <1>7, <2>3, <2>4 DEF Within
    <3>3. QED
      BY <1>9, <3>1, <3>2
  <2>5. CASE Within(end) /\ r.type = rtype /\ rtype = Txt
    <3>1. /\ text' = [at |-> data, end |-> end, txt |-> <<>>] /\ parsing' = "text"
          /\ UNCHANGED <<packet, rtype, pos, todo, results>>
      BY <1>11, <2>2, <2>5 DEF ReadRecord, data, end
    <3>2. text'.at = data /\ text'.end = end /\ text'.txt = <<>>
      BY <3>1
    <3>3. DnsHeard(shape, q, saw)' /\ AnswersRead(shape, q, saw)' /\ NextAt(shape, q, saw)' = at
      BY <1>1, <1>3, <3>1, HeardStays, AnswersStay
    <3>4. Turn(shape)' = n
      BY <1>0, <3>1 DEF Turn
    <3>6. AtText(shape, q, saw)'
      <4>1. q.type = Txt /\ r.type = Txt
        BY <1>1, <2>5
      <4>2. text'.end = data + d
        BY <2>3, <3>2
      <4>3. data = (at + l) + 10
        BY <2>1
      <4>4. text'.at = (at + l) + 10 /\ text'.txt = <<>> /\ text'.end = ((at + l) + 10) + d
        BY <3>2, <4>2, <4>3
      <4> DEFINE strings == Strings(kind, Spell(saw))
      <4> HIDE DEF strings
      <4>5. AtString(strings, (at + l) + 10)'
        BY <4>4 DEF AtString
      <4>6. shape.records[Turn(shape)]' = kind
        BY <3>4
      <4>7. ((NextAt(shape, q, saw) + Len(NameOf(shape, q))) + 10)' = (at + l) + 10
        BY <3>3 DEF l
      <4>8. QED
        BY <4>1, <4>4, <4>5, <4>6, <4>7 DEF AtText, d, r, strings
    <3>7. todo' # 0
      BY <1>1, <3>1
    <3>8. QED
      BY <3>1, <3>3, <3>6, <3>7 DEF DnsReads
  <2>6. CASE Within(end) /\ ~(r.type = rtype /\ rtype = Txt)
    <3>1. /\ results' = IF r.type = rtype /\ end - data = (IF rtype = A THEN 4 ELSE 16)
                        THEN Append(results, AddressResult(data, end)) ELSE results
          /\ pos' = end /\ todo' = todo - 1 /\ parsing' = "answers"
          /\ UNCHANGED <<packet, rtype, text>>
      BY <1>11, <2>2, <2>6 DEF ReadRecord, data, end
    <3>2. results \in Seq(Said(saw)) /\ results \o <<>> = results
      BY <1>1, NothingSaid
    <3>3. end - data = d
      BY <1>6, <2>3
    <3>4. results' = results \o Says(shape, q, saw, n)
      <4>1. CASE r.type # rtype
        <5>1. Says(shape, q, saw, n) = <<>>
          BY <1>1, <4>1 DEF Says, r
        <5>2. results' = results
          BY <3>1, <4>1
        <5>3. QED
          BY <3>2, <5>1, <5>2
      <4>2. CASE r.type = rtype
        <5>1. Says(shape, q, saw, n) = r.says
          BY <1>1, <4>2 DEF Says, r
        <5>2. q.type \in {A, Aaaa} /\ rtype = q.type /\ r.type = q.type
          BY <1>1, <1>8, <2>6, <4>2
        <5>3. AddressSaid(kind, saw, q.type)
          BY <1>8, <5>2, AddressesSaid
        <5>4. CASE d = (IF q.type = A THEN 4 ELSE 16)
          <6>1. /\ r.data \in Seq(Octet)
                /\ r.says = <<[txt |-> <<>>, ip |-> Addr(q.type = Aaaa, r.data)]>>
            BY <5>2, <5>3, <5>4 DEF AddressSaid, d, r
          <6>2. Holds(packet, HEADER_LEN, data, r.data) /\ data >= HEADER_LEN
            BY <1>6, <1>7, <2>1
          <6>3. data + Len(r.data) <= packet.size
            BY <2>3, <2>6 DEF Within, d
          <6>4. Slice(data, data + Len(r.data)) = r.data
            BY <1>2, <2>3, <6>1, <6>2, <6>3, SliceHeld
          <6>5. Slice(data, end) = r.data
            BY <2>3, <6>4 DEF d
          <6> DEFINE x == [txt |-> <<>>, ip |-> Addr(q.type = Aaaa, r.data)]
          <6>6. AddressResult(data, end) = x
            BY <5>2, <6>5 DEF AddressResult
          <6>7. results' = Append(results, x)
            BY <3>1, <3>3, <4>2, <5>2, <5>4, <6>6
          <6>8. x \in Said(saw)
            <7>1. RecordTyped(kind, saw)
              BY <1>8, RecordsTyped
            <7>2. r.says \in Seq(Said(saw)) /\ r.says = <<x>>
              BY <6>1, <7>1 DEF RecordTyped, r
            <7> DEFINE S == Said(saw)
            <7> HIDE DEF x, S
            <7>3. <<x>> \in Seq(S)
              BY <7>2 DEF S
            <7>4. QED
              BY <7>3 DEF S
          <6> HIDE DEF x
          <6>9. Append(results, x) = results \o <<x>>
            BY <3>2, <6>8, AppendIsConcat
          <6>10. QED
            BY <5>1, <6>1, <6>7, <6>9 DEF x
        <5>5. CASE d # (IF q.type = A THEN 4 ELSE 16)
          <6>1. r.says = <<>>
            BY <5>2, <5>3, <5>5 DEF AddressSaid, d, r
          <6>2. results' = results
            BY <3>1, <3>3, <5>2, <5>5
          <6>3. QED
            BY <3>2, <5>1, <6>1, <6>2
        <5>6. QED
          BY <5>4, <5>5
      <4>3. QED
        BY <4>1, <4>2
    <3>5. pos' = RecordAt(shape, q, saw, n + 1)
      BY <1>6, <2>1, <2>3, <3>1
    <3>6. UNCHANGED <<packet, rtype>> /\ todo' = todo - 1 /\ parsing' = "answers"
      BY <3>1
    <3>7. QED
      BY <1>0, <1>1, <1>2, <3>4, <3>5, <3>6, TurnDone
  <2>7. QED
    BY <2>4, <2>5, <2>6
<1>12. QED
  BY <1>10, <1>11

(* What a text record has, and where. *)
TextHeld(shape, saw, q, n) ==
    LET kind == shape.records[n]
        r == DnsRecord(kind, saw)
        strings == Strings(kind, Spell(saw))
        data == (RecordAt(shape, q, saw, n) + Len(NameOf(shape, q))) + 10
    IN  /\ data \in Nat /\ r.says \in Seq(Said(saw))
        /\ InStrings(kind, saw, strings) /\ StringsHeld(strings, data, Len(r.data))
        /\ text.end = data + Len(r.data) /\ AtString(strings, data)
        /\ RecordAt(shape, q, saw, n + 1) = data + Len(r.data)
        /\ Says(shape, q, saw, n) = r.says

(* The record whose text is read is held as its strings. *)
LEMMA TextIsHeld ==
    ASSUME NEW shape, NEW q, NEW saw, Answerable(shape, q, saw), Reading,
           DnsReads(shape, q, saw), parsing = "text", NEW n, n = Turn(shape)
    PROVE  TextHeld(shape, saw, q, n)
<1> DEFINE kind == shape.records[n]
           r == DnsRecord(kind, saw)
           strings == Strings(kind, Spell(saw))
           data == (RecordAt(shape, q, saw, n) + Len(NameOf(shape, q))) + 10
<1>1. /\ DnsHeard(shape, q, saw) /\ AnswersRead(shape, q, saw) /\ todo # 0
      /\ AtText(shape, q, saw)
  BY DEF DnsReads
<1>2. packet.size \in Nat
  BY DnsMsgFields DEF Reading
<1>3. n \in 1..Len(shape.records) /\ NextAt(shape, q, saw) = RecordAt(shape, q, saw, n)
  BY <1>1, TurnOf
<1>4. RecordHeld(shape, q, saw, n)
  BY <1>1, <1>2, <1>3, RecordRead
<1>5. /\ q.type = Txt /\ r.type = Txt /\ text.end = data + Len(r.data)
      /\ AtString(strings, data)
  BY <1>1, <1>3 DEF AtText
<1>6. kind \in RecordKinds /\ Seen(saw)
  BY <1>3, RecordsOf DEF Answerable
<1>7. InStrings(kind, saw, strings)
  <2>1. kind \in TextKinds \cup {"empty"}
    BY <1>5, <1>6, TextKind
  <2>2. QED
    BY <1>6, <2>1, TextStrings
<1>8. /\ data \in Nat /\ Holds(packet, HEADER_LEN, data, r.data)
      /\ RecordAt(shape, q, saw, n + 1) = data + Len(r.data)
  BY <1>4 DEF RecordHeld
<1>9. r.says \in Seq(Said(saw))
  BY <1>6, RecordsTyped DEF RecordTyped
<1>10. Says(shape, q, saw, n) = r.says
  BY <1>5 DEF Says
<1>11. StringsHeld(strings, data, Len(r.data))
  <2> HIDE DEF kind, strings, data
  <2>1. QED
    BY <1>7, <1>8, StringsAreHeld
<1>12. QED
  BY <1>5, <1>7, <1>8, <1>9, <1>10, <1>11 DEF TextHeld

(* ... a string of the text, ... *)
LEMMA ReadStringRead ==
    ASSUME NEW shape, NEW q, NEW saw, Answerable(shape, q, saw), Reading,
           DnsReads(shape, q, saw), ReadString
    PROVE  DnsReads(shape, q, saw)'
<1>0. PICK n : n = Turn(shape)
  OBVIOUS
<1> DEFINE kind == shape.records[n]
           r == DnsRecord(kind, saw)
           strings == Strings(kind, Spell(saw))
           l == Len(NameOf(shape, q))
           data == (RecordAt(shape, q, saw, n) + l) + 10
<1>1. /\ parsing = "text" /\ DnsHeard(shape, q, saw) /\ AnswersRead(shape, q, saw) /\ todo # 0
      /\ AtText(shape, q, saw)
  BY DEF DnsReads, ReadString
<1>2. TextHeld(shape, saw, q, n)
  BY <1>0, <1>1, TextIsHeld
<1>3. /\ data \in Nat /\ StringsHeld(strings, data, Len(r.data))
      /\ text.end = data + Len(r.data) /\ AtString(strings, data)
  BY <1>2 DEF TextHeld
<1>4. q.type = Txt /\ r.type = Txt
  BY <1>0, <1>1 DEF AtText
<1>5. NextAt(shape, q, saw) = RecordAt(shape, q, saw, n)
  BY <1>0, <1>1, TurnOf
<1>6. /\ AtString(strings, data)' /\ text'.end = text.end
      /\ UNCHANGED <<packet, rtype, parsing, pos, todo, results>>
  <2> HIDE DEF strings, data, r
  <2>1. QED
    BY <1>1, <1>3, TextGoesOn
<1>7. /\ DnsHeard(shape, q, saw)' /\ AnswersRead(shape, q, saw)'
      /\ NextAt(shape, q, saw)' = RecordAt(shape, q, saw, n)
  BY <1>1, <1>5, <1>6, HeardStays, AnswersStay
<1>8. shape.records[Turn(shape)]' = kind
  BY <1>0, <1>6 DEF Turn
<1>9. ((NextAt(shape, q, saw) + Len(NameOf(shape, q))) + 10)' = data
  BY <1>7
<1> HIDE DEF strings, data, r, kind, l
<1>10. AtText(shape, q, saw)'
  BY <1>3, <1>4, <1>6, <1>8, <1>9 DEF AtText, r, strings
<1>11. QED
  BY <1>1, <1>6, <1>7, <1>10 DEF DnsReads

(* ... and the whole text. *)
LEMMA TextDoneRead ==
    ASSUME NEW shape, NEW q, NEW saw, Answerable(shape, q, saw), Reading,
           DnsReads(shape, q, saw), TextDone
    PROVE  DnsReads(shape, q, saw)'
<1>0. PICK n : n = Turn(shape)
  OBVIOUS
<1> DEFINE kind == shape.records[n]
           r == DnsRecord(kind, saw)
           strings == Strings(kind, Spell(saw))
           data == (RecordAt(shape, q, saw, n) + Len(NameOf(shape, q))) + 10
           S == Said(saw)
           whole == Whole(strings)
<1>1. /\ parsing = "text" /\ DnsHeard(shape, q, saw) /\ AnswersRead(shape, q, saw) /\ todo # 0
      /\ text.at >= text.end
      /\ results' = IF text.txt = <<>> THEN results ELSE Append(results, TextResult(text.txt))
      /\ pos' = text.end /\ todo' = todo - 1 /\ parsing' = "answers"
      /\ UNCHANGED <<packet, rtype, text>>
  BY DEF DnsReads, TextDone
<1>2. TextHeld(shape, saw, q, n)
  BY <1>0, <1>1, TextIsHeld
<1>3. /\ data \in Nat /\ StringsHeld(strings, data, Len(r.data))
      /\ text.end = data + Len(r.data) /\ AtString(strings, data)
      /\ RecordAt(shape, q, saw, n + 1) = data + Len(r.data)
      /\ Says(shape, q, saw, n) = r.says /\ r.says \in Seq(S)
  BY <1>2 DEF TextHeld
<1>4. r.says = IF whole = <<>> THEN <<>> ELSE <<TextResult(whole)>>
  BY <1>2 DEF TextHeld, InStrings
<1> HIDE DEF strings, data, r, S
<1>5. text.txt = whole
  BY <1>1, <1>3, TextIsWhole
<1>6. results \in Seq(S) /\ results \o <<>> = results
  BY <1>1, NothingSaid DEF S
<1>7. results' = results \o Says(shape, q, saw, n)
  <2> DEFINE x == TextResult(whole)
  <2>1. CASE whole = <<>>
    BY <1>1, <1>3, <1>4, <1>5, <1>6, <2>1
  <2>2. CASE whole # <<>>
    <3>1. r.says = <<x>> /\ results' = Append(results, x)
      BY <1>1, <1>4, <1>5, <2>2
    <3> HIDE DEF x
    <3>2. x \in S
      <4>1. <<x>> \in Seq(S)
        BY <1>3, <3>1
      <4>2. QED
        BY <4>1
    <3>3. Append(results, x) = results \o <<x>>
      BY <1>6, <3>2, AppendIsConcat
    <3>4. QED
      BY <1>3, <3>1, <3>3
  <2>3. QED
    BY <2>1, <2>2
<1>8. pos' = RecordAt(shape, q, saw, n + 1)
  BY <1>1, <1>3
<1>9. packet.size \in Nat
  BY DnsMsgFields DEF Reading
<1>10. QED
  BY <1>0, <1>1, <1>7, <1>8, <1>9, TurnDone

(* What the parser has read stays what the server sent. *)
LEMMA DnsReadsOn ==
    ASSUME NEW shape, NEW q, NEW saw, Answerable(shape, q, saw), Reading,
           DnsReads(shape, q, saw), DnsStep
    PROVE  DnsReads(shape, q, saw)'
<1>1. QED
  BY NextQuestionRead, QuestionNameRead, SkipQuestionRead, NextAnswerRead, AnswerNameRead,
     ReadRecordRead, ReadStringRead, TextDoneRead DEF DnsStep

-----------------------------------------------------------------------------
(* The address within a text. *)

(* An address's text, alone: it is its only part. *)
OnlyPart(t) ==
    /\ \A i \in 1..Len(t) : t[i] # Space /\ t[i] # Slash
    /\ t \in Seq(Octet) /\ Len(t) \in Nat /\ Len(t) >= 2 /\ t # <<>> /\ DOMAIN t = 1..Len(t)

(* The text of a legible address has no other part, and from_str reads it. *)
LEMMA SpeltPlain ==
    ASSUME NEW saw, Legible(saw)
    PROVE  OnlyPart(Spell(saw)) /\ FromStr(Spell(saw)) = saw
<1> DEFINE t == Spell(saw)
<1>1. /\ t \in Seq(Octet) /\ Len(t) >= 2 /\ ToSet(t) \cap {Space, Slash} = {} /\ FromStr(t) = saw
  BY DEF Legible
<1> HIDE DEF t
<1>2. Len(t) \in Nat /\ DOMAIN t = 1..Len(t)
  BY <1>1
<1>3. \A i \in 1..Len(t) : t[i] \in ToSet(t)
  BY <1>2 DEF ToSet
<1>4. \A i \in 1..Len(t) : t[i] # Space /\ t[i] # Slash
  BY <1>1, <1>3
<1>5. t # <<>>
  BY <1>1, <1>2
<1>6. QED
  BY <1>1, <1>2, <1>4, <1>5 DEF OnlyPart, t

(* What is found in a text is a part of it, read as an address. *)
ReadAs(t, from, to) == FromStr(BeforeSlash(SubSeq(t, from, to)))

(* Only parts are found, ... *)
LEMMA FoundIsPart ==
    ASSUME NEW x, x.txt # <<>>, NEW f \in Found(x)
    PROVE  \E from, to \in DOMAIN x.txt :
               IsPart(x.txt, from, to) /\ f.at = from /\ f.ip = ReadAs(x.txt, from, to)
<1> DEFINE t == x.txt
           D == DOMAIN t
<1>1. PICK s \in {u \in D \X D : IsPart(t, u[1], u[2])} :
          f = [at |-> s[1], ip |-> FromStr(BeforeSlash(SubSeq(t, s[1], s[2])))]
  BY DEF Found
<1>2. s[1] \in D /\ s[2] \in D /\ IsPart(t, s[1], s[2])
  BY <1>1
<1>3. f.at = s[1] /\ f.ip = ReadAs(t, s[1], s[2])
  BY <1>1 DEF ReadAs
<1>4. QED
  BY <1>2, <1>3

(* ... and all of them. *)
LEMMA PartIsFound ==
    ASSUME NEW x, x.txt # <<>>, NEW from \in DOMAIN x.txt, NEW to \in DOMAIN x.txt,
           IsPart(x.txt, from, to)
    PROVE  \E f \in Found(x) : f.ip = ReadAs(x.txt, from, to)
<1> DEFINE t == x.txt
           D == DOMAIN t
           Ip(u) == FromStr(BeforeSlash(SubSeq(t, u[1], u[2])))
           s == <<from, to>>
           P == {u \in D \X D : IsPart(t, u[1], u[2])}
<1>1. s \in D \X D /\ s[1] = from /\ s[2] = to
  OBVIOUS
<1>2. s \in P
  BY <1>1
<1>3. Found(x) = {[at |-> u[1], ip |-> Ip(u)] : u \in P}
  BY DEF Found
<1>4. Ip(s) = ReadAs(t, from, to)
  BY <1>1 DEF ReadAs
<1> HIDE DEF P, Ip, s
<1>5. [at |-> s[1], ip |-> Ip(s)] \in Found(x)
  BY <1>2, <1>3
<1>6. QED
  BY <1>4, <1>5

(* The only part of a plain text is all of it. *)
LEMMA WholePart ==
    ASSUME NEW t, OnlyPart(t)
    PROVE  /\ BeforeSlash(t) = t /\ SubSeq(t, 1, Len(t)) = t
           /\ IsPart(t, 1, Len(t)) /\ 1 \in 1..Len(t) /\ Len(t) \in 1..Len(t)
           /\ \A from, to \in 1..Len(t) : IsPart(t, from, to) => from = 1 /\ to = Len(t)
<1>1. /\ t \in Seq(Octet) /\ Len(t) \in Nat /\ Len(t) >= 2 /\ DOMAIN t = 1..Len(t)
      /\ \A i \in 1..Len(t) : t[i] # Space /\ t[i] # Slash
  BY DEF OnlyPart
<1>2. BeforeSlash(t) = t
  <2>1. {i \in DOMAIN t : t[i] = Slash} = {}
    BY <1>1
  <2>2. QED
    BY <2>1 DEF BeforeSlash
<1>3. SubSeq(t, 1, Len(t)) = t
  <2> DEFINE n == Len(t)
  <2>1. n \in Int /\ \A i \in 1..n : t[i] \in Octet
    BY <1>1
  <2>2. /\ SubSeq(t, 1, n) \in Seq(Octet) /\ Len(SubSeq(t, 1, n)) = (IF 1 <= n THEN n - 1 + 1 ELSE 0)
        /\ \A i \in 1..(n - 1 + 1) : SubSeq(t, 1, n)[i] = t[1 + i - 1]
    BY <2>1, SubSeqProperties
  <2> DEFINE sub == SubSeq(t, 1, n)
  <2>3. n - 1 + 1 = n /\ 1 <= n /\ n \in Nat
    BY <1>1
  <2>4. Len(sub) = n /\ sub \in Seq(Octet)
    BY <2>2, <2>3
  <2>5. ASSUME NEW p \in 1..Len(sub) PROVE sub[p] = t[p]
    <3>1. p \in 1..(n - 1 + 1) /\ 1 + p - 1 = p
      BY <2>3, <2>4
    <3>2. QED
      BY <2>2, <3>1
  <2> HIDE DEF sub
  <2>6. sub = t
    BY <1>1, <2>4, <2>5, SameSeq
  <2>7. QED
    BY <2>6 DEF sub
<1>4. 1 \in 1..Len(t) /\ Len(t) \in 1..Len(t) /\ IsPart(t, 1, Len(t))
  BY <1>1 DEF IsPart
<1>5. ASSUME NEW from \in 1..Len(t), NEW to \in 1..Len(t), IsPart(t, from, to)
      PROVE  from = 1 /\ to = Len(t)
  <2> DEFINE L == Len(t)
  <2>0. L \in Nat /\ from \in 1..L /\ to \in 1..L
    BY <1>1
  <2> HIDE DEF L
  <2>1. from # 1 => from - 1 \in 1..L
    BY <2>0
  <2>2. to # L => to + 1 \in 1..L
    BY <2>0
  <2>3. QED
    BY <1>1, <1>5, <2>1, <2>2 DEF IsPart, L
<1>6. QED
  BY <1>2, <1>3, <1>4, <1>5

(* In a text record of Google's that names a client subnet, the address is the
   second part, up to the slash.                                             *)
Subnetted(t, u) ==
    /\ u \in Seq(Octet) /\ Len(u) = Len(t) + 4 /\ u # <<>> /\ DOMAIN u = 1..Len(u)
    /\ u[1] = 101 /\ u[2] = Space /\ u[Len(t) + 3] = Slash /\ u[Len(t) + 4] = 50
    /\ \A i \in 1..Len(t) : u[i + 2] = t[i]

(* Subnet puts it that way. *)
LEMMA SubnetSpelt ==
    ASSUME NEW t, OnlyPart(t)
    PROVE  Subnetted(t, Subnet(t))
<1> DEFINE a == <<101, Space>>
           z == <<Slash, 50>>
           at == a \o t
           u == at \o z
           L == Len(t)
<1>1. t \in Seq(Octet) /\ L \in Nat /\ L >= 2
  BY DEF OnlyPart
<1>2. Space \in Octet /\ Slash \in Octet /\ 101 \in Octet /\ 50 \in Octet
  BY DEF Space, Slash, Octet
<1>3. a \in Seq(Octet) /\ Len(a) = 2 /\ a[1] = 101 /\ a[2] = Space
  BY <1>2
<1>4. z \in Seq(Octet) /\ Len(z) = 2 /\ z[1] = Slash /\ z[2] = 50
  BY <1>2
<1>5. Subnet(t) = u
  BY DEF Subnet
<1> HIDE DEF a, z, L
<1>6. Concatenated(a, t, at)
  <2>1. a \in Seq(Int) /\ t \in Seq(Int)
    BY <1>1, <1>3, NumbersOfOctets
  <2>2. QED
    BY <2>1, ConcatNumbers
<1>7. Concatenated(at, z, u)
  <2>1. at \in Seq(Int) /\ z \in Seq(Int)
    BY <1>4, <1>6, NumbersOfOctets DEF Concatenated
  <2> HIDE DEF at
  <2>2. QED
    BY <2>1, ConcatNumbers
<1>8. at \in Seq(Octet)
  BY <1>1, <1>3, ConcatProperties
<1> HIDE DEF at
<1>9. u \in Seq(Octet)
  BY <1>4, <1>8, ConcatProperties
<1> HIDE DEF u
<1>10. Len(at) = L + 2 /\ Len(u) = L + 4
  BY <1>1, <1>3, <1>4, <1>6, <1>7 DEF Concatenated, L
<1>11. ASSUME NEW i \in 1..(L + 2) PROVE u[i] = at[i]
  BY <1>7, <1>10, <1>11 DEF Concatenated
<1>12. u[1] = 101 /\ u[2] = Space
  <2>1. 1 \in 1..(L + 2) /\ 2 \in 1..(L + 2)
    BY <1>1
  <2>2. u[1] = at[1] /\ u[2] = at[2]
    BY <1>11, <2>1
  <2>3. at[1] = a[1] /\ at[2] = a[2]
    BY <1>3, <1>6 DEF Concatenated
  <2>4. QED
    BY <1>3, <2>2, <2>3
<1>13. u[L + 3] = Slash /\ u[L + 4] = 50
  <2>1. \A p \in 1..2 : u[(L + 2) + p] = z[p]
    BY <1>4, <1>7, <1>10 DEF Concatenated
  <2>2. (L + 2) + 1 = L + 3 /\ (L + 2) + 2 = L + 4 /\ 1 \in 1..2 /\ 2 \in 1..2
    BY <1>1
  <2>3. u[(L + 2) + 1] = z[1] /\ u[(L + 2) + 2] = z[2]
    BY <2>1, <2>2
  <2>4. QED
    BY <1>4, <2>2, <2>3
<1>14. ASSUME NEW i \in 1..L PROVE u[i + 2] = t[i]
  <2>1. i + 2 \in 1..(L + 2) /\ 2 + i = i + 2
    BY <1>1
  <2>2. u[i + 2] = at[i + 2]
    BY <1>11, <2>1
  <2>3. at[2 + i] = t[i]
    BY <1>3, <1>6 DEF Concatenated, L
  <2>4. QED
    BY <2>1, <2>2, <2>3
<1>15. u # <<>> /\ DOMAIN u = 1..Len(u)
  BY <1>1, <1>9, <1>10
<1>16. QED
  BY <1>5, <1>9, <1>10, <1>12, <1>13, <1>14, <1>15 DEF Subnetted, L

(* Such a text has two parts, ... *)
LEMMA SubnetParts ==
    ASSUME NEW t, OnlyPart(t), NEW u, Subnetted(t, u)
    PROVE  /\ IsPart(u, 3, Len(u)) /\ 3 \in 1..Len(u) /\ Len(u) \in 1..Len(u)
           /\ \A from, to \in 1..Len(u) : IsPart(u, from, to) =>
                 (from = 1 /\ to = 1) \/ (from = 3 /\ to = Len(u))
<1> DEFINE L == Len(t)
           N == Len(u)
<1>1. L \in Nat /\ L >= 2 /\ \A i \in 1..L : t[i] # Space
  BY DEF OnlyPart
<1>2. /\ N = L + 4 /\ u[1] = 101 /\ u[2] = Space /\ u[L + 3] = Slash /\ u[L + 4] = 50
      /\ \A i \in 1..L : u[i + 2] = t[i]
  BY DEF Subnetted
<1>3. Space = 32 /\ Slash = 47
  BY DEF Space, Slash
<1> HIDE DEF L, N
<1>4. ASSUME NEW i \in 1..N, i # 2 PROVE u[i] # Space
  <2>1. CASE i = 1
    BY <1>2, <1>3, <2>1
  <2>2. CASE i \in 3..(L + 2)
    <3>1. i - 2 \in 1..L /\ (i - 2) + 2 = i
      BY <1>1, <2>2
    <3>2. u[(i - 2) + 2] = t[i - 2] /\ t[i - 2] # Space
      BY <1>1, <1>2, <3>1
    <3>3. QED
      BY <3>1, <3>2
  <2>3. CASE i = L + 3 \/ i = L + 4
    BY <1>2, <1>3, <2>3
  <2>4. i = 1 \/ i \in 3..(L + 2) \/ i = L + 3 \/ i = L + 4
    BY <1>1, <1>2, <1>4
  <2>5. QED
    BY <2>1, <2>2, <2>3, <2>4
<1>5. 3 \in 1..N /\ N \in 1..N /\ IsPart(u, 3, N)
  <2>1. 3 \in 1..N /\ N \in 1..N /\ 3 <= N /\ 3 - 1 = 2
    BY <1>1, <1>2
  <2>2. ASSUME NEW i \in 3..N PROVE u[i] # Space
    <3>1. i \in 1..N /\ i # 2
      BY <1>1, <1>2
    <3>2. QED
      BY <1>4, <3>1
  <2>3. u[3 - 1] = Space
    BY <1>2, <2>1
  <2>4. QED
    BY <2>1, <2>2, <2>3 DEF IsPart, N
<1>6. ASSUME NEW from \in 1..N, NEW to \in 1..N, IsPart(u, from, to)
      PROVE  (from = 1 /\ to = 1) \/ (from = 3 /\ to = N)
  <2>1. /\ from <= to /\ (\A i \in from..to : u[i] # Space)
        /\ (from = 1 \/ u[from - 1] = Space) /\ (to = N \/ u[to + 1] = Space)
    BY <1>6 DEF IsPart, N
  <2>2. N \in Nat /\ from \in Nat /\ to \in Nat
    BY <1>1, <1>2
  <2>3. from = 1 \/ from = 3
    <3>1. CASE from # 1
      <4>1. from - 1 \in 1..N
        BY <2>2, <3>1
      <4>2. from - 1 = 2
        BY <1>4, <2>1, <3>1, <4>1
      <4>3. QED
        BY <2>2, <4>2
    <3>2. QED
      BY <3>1
  <2>4. to = 1 \/ to = N
    <3>1. CASE to # N
      <4>1. to + 1 \in 1..N
        BY <2>2, <3>1
      <4>2. to + 1 = 2
        BY <1>4, <2>1, <3>1, <4>1
      <4>3. QED
        BY <2>2, <4>2
    <3>2. QED
      BY <3>1
  <2>5. ~(from = 1 /\ to = N)
    <3> SUFFICES ASSUME from = 1, to = N PROVE FALSE
      OBVIOUS
    <3>1. 2 \in from..to
      BY <1>1, <1>2
    <3>2. QED
      BY <1>2, <2>1, <3>1
  <2>6. ~(from = 3 /\ to = 1)
    BY <2>1
  <2>7. QED
    BY <2>3, <2>4, <2>5, <2>6
<1>7. QED
  BY <1>5, <1>6 DEF N

(* ... of which from_str makes no address and that of the subnet. *)
LEMMA SubnetRead ==
    ASSUME NEW t, OnlyPart(t), NEW u, Subnetted(t, u)
    PROVE  ReadAs(u, 1, 1) = NoAddr /\ ReadAs(u, 3, Len(u)) = FromStr(t)
<1> DEFINE L == Len(t)
           N == Len(u)
<1>1. /\ L \in Nat /\ L >= 2 /\ t \in Seq(Octet) /\ \A i \in 1..L : t[i] # Slash
  BY DEF OnlyPart
<1>2. /\ u \in Seq(Octet) /\ N = L + 4 /\ u[1] = 101 /\ u[L + 3] = Slash /\ u[L + 4] = 50
      /\ \A i \in 1..L : u[i + 2] = t[i]
  BY DEF Subnetted
<1>3. Slash = 47
  BY DEF Slash
<1>4. \A i \in 1..N : u[i] \in Octet
  BY <1>2
<1> HIDE DEF L, N
<1>5. ReadAs(u, 1, 1) = NoAddr
  <2> DEFINE s == SubSeq(u, 1, 1)
  <2>1. \A i \in 1..1 : u[i] \in Octet
    <3>1. 1 \in 1..N
      BY <1>1, <1>2
    <3>2. QED
      BY <1>4, <3>1
  <2>2. s \in Seq(Octet) /\ Len(s) = (IF 1 <= 1 THEN 1 - 1 + 1 ELSE 0)
        /\ \A i \in 1..(1 - 1 + 1) : s[i] = u[1 + i - 1]
    BY <2>1, SubSeqProperties
  <2>3. Len(s) = 1 /\ s[1] = 101
    <3>1. 1 \in 1..(1 - 1 + 1) /\ 1 + 1 - 1 = 1 /\ 1 - 1 + 1 = 1 /\ 1 <= 1
      OBVIOUS
    <3>2. s[1] = u[1 + 1 - 1]
      BY <2>2, <3>1
    <3>3. QED
      BY <1>2, <2>2, <3>1, <3>2
  <2> HIDE DEF s
  <2>4. s = <<101>>
    BY <2>2, <2>3
  <2>5. {i \in DOMAIN s : s[i] = Slash} = {}
    BY <1>3, <2>4
  <2>6. BeforeSlash(s) = s
    BY <2>5 DEF BeforeSlash
  <2>7. FromStr(BeforeSlash(s)) = FromStr(<<101>>)
    BY <2>4, <2>6
  <2>8. QED
    BY <2>7, TextAssumption DEF ReadAs, s
<1>6. ReadAs(u, 3, N) = FromStr(t)
  <2> DEFINE p == SubSeq(u, 3, N)
  <2>1. N \in Nat /\ \A i \in 3..N : u[i] \in Octet
    <3>1. N \in Nat
      BY <1>1, <1>2
    <3>2. ASSUME NEW i \in 3..N PROVE i \in 1..N
      BY <3>1
    <3>3. QED
      BY <1>4, <3>1, <3>2
  <2>2. p \in Seq(Octet) /\ Len(p) = (IF 3 <= N THEN N - 3 + 1 ELSE 0)
        /\ \A i \in 1..(N - 3 + 1) : p[i] = u[3 + i - 1]
    BY <2>1, SubSeqProperties
  <2>3. N - 3 + 1 = L + 2 /\ 3 <= N
    BY <1>1, <1>2
  <2>4. Len(p) = L + 2 /\ p \in Seq(Octet)
    BY <2>2, <2>3
  <2>5. ASSUME NEW i \in 1..(L + 2) PROVE p[i] = u[i + 2]
    <3>1. 3 + i - 1 = i + 2 /\ i \in 1..(N - 3 + 1)
      BY <1>1, <2>3
    <3>2. QED
      BY <2>2, <3>1
  <2> HIDE DEF p
  <2>6. \A i \in 1..L : p[i] = t[i]
    <3>1. ASSUME NEW i \in 1..L PROVE p[i] = t[i]
      <4>1. i \in 1..(L + 2)
        BY <1>1
      <4>2. QED
        BY <1>2, <2>5, <4>1
    <3>2. QED
      BY <3>1
  <2>7. p[L + 1] = Slash /\ p[L + 2] = 50
    <3>1. /\ L + 1 \in 1..(L + 2) /\ L + 2 \in 1..(L + 2)
          /\ (L + 1) + 2 = L + 3 /\ (L + 2) + 2 = L + 4
      BY <1>1
    <3>2. p[L + 1] = u[(L + 1) + 2] /\ p[L + 2] = u[(L + 2) + 2]
      BY <2>5, <3>1
    <3>3. QED
      BY <1>2, <3>1, <3>2
  <2>8. DOMAIN p = 1..(L + 2)
    BY <2>4
  <2>9. {i \in DOMAIN p : p[i] = Slash} = {L + 1}
    <3>1. ASSUME NEW i \in 1..(L + 2), p[i] = Slash PROVE i = L + 1
      <4>1. i \in 1..L \/ i = L + 1 \/ i = L + 2
        BY <1>1
      <4>2. i \notin 1..L
        BY <1>1, <2>6, <3>1
      <4>3. i # L + 2
        BY <1>3, <2>7, <3>1
      <4>4. QED
        BY <4>1, <4>2, <4>3
    <3>2. L + 1 \in 1..(L + 2)
      BY <1>1
    <3>3. QED
      BY <2>7, <2>8, <3>1, <3>2
  <2>10. BeforeSlash(p) = SubSeq(p, 1, (L + 1) - 1)
    <3> DEFINE k == L + 1
               C == CHOOSE i \in {k} : \A j \in {k} : i <= j
    <3>1. k \in Nat
      BY <1>1
    <3> HIDE DEF k
    <3>2. C = k
      BY <3>1
    <3>3. BeforeSlash(p) = SubSeq(p, 1, C - 1)
      BY <2>9 DEF BeforeSlash, k
    <3> HIDE DEF C
    <3>4. QED
      BY <3>2, <3>3 DEF k
  <2>11. SubSeq(p, 1, L) = t
    <3> DEFINE s == SubSeq(p, 1, L)
    <3>1. L \in Int /\ \A i \in 1..L : p[i] \in Octet
      <4>1. \A i \in 1..(L + 2) : p[i] \in Octet
        BY <2>4
      <4>2. QED
        BY <1>1, <4>1
    <3>2. s \in Seq(Octet) /\ Len(s) = (IF 1 <= L THEN L - 1 + 1 ELSE 0)
          /\ \A i \in 1..(L - 1 + 1) : s[i] = p[1 + i - 1]
      BY <3>1, SubSeqProperties
    <3>3. L - 1 + 1 = L /\ 1 <= L
      BY <1>1
    <3>4. Len(s) = L
      BY <3>2, <3>3
    <3>5. ASSUME NEW i \in 1..Len(s) PROVE s[i] = t[i]
      <4>1. i \in 1..(L - 1 + 1) /\ 1 + i - 1 = i /\ i \in 1..L
        BY <1>1, <3>3, <3>4
      <4>2. QED
        BY <2>6, <3>2, <4>1
    <3> HIDE DEF s
    <3>6. Len(s) = Len(t) /\ s \in Seq(Octet)
      BY <3>2, <3>4 DEF L
    <3>7. s = t
      BY <1>1, <3>5, <3>6, SameSeq
    <3>8. QED
      BY <3>7 DEF s
  <2>12. (L + 1) - 1 = L
    BY <1>1
  <2>13. BeforeSlash(p) = t
    BY <2>10, <2>11, <2>12
  <2>14. QED
    BY <2>13 DEF ReadAs, p
<1>7. QED
  BY <1>5, <1>6 DEF N

(* Whatever a record says of the address seen, it is all that is found in it. *)
Finds(x, saw) ==
    /\ \A f \in Found(x) : f.at \in Nat /\ f.ip \in {saw, NoAddr}
    /\ \E f \in Found(x) : f.ip = saw

(* So it is with all that a server can say of it. *)
LEMMA SaidIsFound ==
    ASSUME NEW saw, Legible(saw), NEW x \in Said(saw)
    PROVE  Finds(x, saw)
<1> DEFINE t == Spell(saw)
           u == Subnet(t)
<1>1. OnlyPart(t) /\ FromStr(t) = saw
  BY SpeltPlain
<1>2. t # <<>> /\ DOMAIN t = 1..Len(t) /\ Len(t) \in Nat
  BY <1>1 DEF OnlyPart
<1>3. Subnetted(t, u)
  BY <1>1, SubnetSpelt
<1>4. u # <<>> /\ DOMAIN u = 1..Len(u) /\ Len(u) = Len(t) + 4
  BY <1>3 DEF Subnetted
<1> HIDE DEF t, u
<1>5. \/ x.txt = <<>> /\ x.ip = saw
      \/ x.txt = t
      \/ x.txt = u
  BY DEF Said, t, u
<1>6. CASE x.txt = <<>> /\ x.ip = saw
  <2>1. Found(x) = {[at |-> 1, ip |-> saw]}
    BY <1>6 DEF Found
  <2>2. QED
    BY <2>1 DEF Finds
<1>7. CASE x.txt = t
  <2>1. ReadAs(t, 1, Len(t)) = saw
    BY <1>1, WholePart DEF ReadAs
  <2>2. ASSUME NEW f \in Found(x) PROVE f.at \in Nat /\ f.ip = saw
    <3>1. PICK from, to \in DOMAIN t : IsPart(t, from, to) /\ f.at = from /\ f.ip = ReadAs(t, from, to)
      BY <1>2, <1>7, FoundIsPart
    <3>2. from \in 1..Len(t) /\ to \in 1..Len(t)
      BY <1>2
    <3>3. from = 1 /\ to = Len(t)
      BY <1>1, <3>1, <3>2, WholePart
    <3>4. QED
      BY <2>1, <3>1, <3>3
  <2>3. \E f \in Found(x) : f.ip = saw
    <3>1. 1 \in DOMAIN t /\ Len(t) \in DOMAIN t /\ IsPart(t, 1, Len(t))
      BY <1>1, <1>2, WholePart
    <3>2. QED
      BY <1>2, <1>7, <2>1, <3>1, PartIsFound
  <2>4. QED
    BY <2>2, <2>3 DEF Finds
<1>8. CASE x.txt = u
  <2>1. ReadAs(u, 1, 1) = NoAddr /\ ReadAs(u, 3, Len(u)) = saw
    BY <1>1, <1>3, SubnetRead
  <2>2. ASSUME NEW f \in Found(x) PROVE f.at \in Nat /\ f.ip \in {saw, NoAddr}
    <3>1. PICK from, to \in DOMAIN u : IsPart(u, from, to) /\ f.at = from /\ f.ip = ReadAs(u, from, to)
      BY <1>4, <1>8, FoundIsPart
    <3>2. from \in 1..Len(u) /\ to \in 1..Len(u)
      BY <1>4
    <3>3. (from = 1 /\ to = 1) \/ (from = 3 /\ to = Len(u))
      BY <1>1, <1>3, <3>1, <3>2, SubnetParts
    <3>4. QED
      BY <2>1, <3>1, <3>3
  <2>3. \E f \in Found(x) : f.ip = saw
    <3>1. 3 \in DOMAIN u /\ Len(u) \in DOMAIN u /\ IsPart(u, 3, Len(u))
      BY <1>1, <1>3, <1>4, SubnetParts
    <3>2. QED
      BY <1>4, <1>8, <2>1, <3>1, PartIsFound
  <2>4. QED
    BY <2>2, <2>3 DEF Finds
<1>9. QED
  BY <1>5, <1>6, <1>7, <1>8

-----------------------------------------------------------------------------
(* The address the provider takes from the records it has. *)

(* Of what was found there is a first. *)
LEMMA FirstFound ==
    ASSUME NEW T, T # {}, \A s \in T : s[1] \in Nat /\ s[2].at \in Nat
    PROVE  \E s \in T : \A t \in T : s[1] < t[1] \/ (s[1] = t[1] /\ s[2].at <= t[2].at)
<1> DEFINE N == {s[1] : s \in T}
<1>1. PICK n \in N : \A m \in N : n <= m
  <2>1. N \in SUBSET Nat /\ N # {}
    OBVIOUS
  <2> HIDE DEF N
  <2>2. QED
    BY <2>1, LeastNatural
<1>2. PICK r \in T : r[1] = n
  BY <1>1
<1> DEFINE P == {s[2].at : s \in {t \in T : t[1] = n}}
<1>3. PICK p \in P : \A m \in P : p <= m
  <2>1. P \in SUBSET Nat /\ P # {}
    BY <1>2
  <2> HIDE DEF P
  <2>2. QED
    BY <2>1, LeastNatural
<1>4. PICK s \in T : s[1] = n /\ s[2].at = p
  BY <1>3
<1>5. ASSUME NEW t \in T PROVE s[1] < t[1] \/ (s[1] = t[1] /\ s[2].at <= t[2].at)
  <2>1. n <= t[1] /\ n \in Nat /\ t[1] \in Nat
    BY <1>1
  <2>2. CASE t[1] = n
    <3>1. t[2].at \in P
      BY <2>2
    <3>2. QED
      BY <1>3, <1>4, <2>2, <3>1
  <2>3. CASE t[1] # n
    BY <1>4, <2>1, <2>3
  <2>4. QED
    BY <2>2, <2>3
<1>6. QED
  BY <1>5

(* extract_ip answers with the address seen if it is of the version wanted and
   any record says anything, and with none otherwise.                        *)
LEMMA AddressExtracted ==
    ASSUME NEW saw, Seen(saw), results \in Seq(Said(saw)), NEW version
    PROVE  ExtractIp(version) = IF results # <<>> /\ Accepts(version, saw) THEN saw ELSE NoAddr
<1> DEFINE D == DOMAIN results
           All == UNION {{n} \X Found(results[n]) : n \in D}
           serving == {s \in All : Accepts(version, s[2].ip)}
           Least(s) == \A t \in serving : s[1] < t[1] \/ (s[1] = t[1] /\ s[2].at <= t[2].at)
           first == CHOOSE s \in serving : Least(s)
<1>1. D = 1..Len(results) /\ Len(results) \in Nat /\ \A n \in D : results[n] \in Said(saw)
  <2> DEFINE S == Said(saw)
  <2> HIDE DEF S
  <2>1. results \in Seq(S)
    BY DEF S
  <2>2. D = 1..Len(results) /\ Len(results) \in Nat /\ \A n \in D : results[n] \in S
    BY <2>1
  <2>3. QED
    BY <2>2 DEF S
<1>2. ASSUME NEW n \in D PROVE Finds(results[n], saw)
  BY <1>1, SaidIsFound DEF Seen
<1>3. ExtractIp(version) = IF serving = {} THEN NoAddr ELSE first[2].ip
  BY DEF ExtractIp
<1>4. ASSUME NEW s \in All
      PROVE  s[1] \in D /\ s[2] \in Found(results[s[1]])
  <2>1. PICK n \in D : s \in {n} \X Found(results[n])
    OBVIOUS
  <2>2. s[1] = n /\ s[2] \in Found(results[n])
    BY <2>1
  <2>3. QED
    BY <2>2
<1>5. ASSUME NEW s \in All
      PROVE  s[1] \in Nat /\ s[2].at \in Nat /\ s[2].ip \in {saw, NoAddr}
  <2>1. s[1] \in D /\ s[2] \in Found(results[s[1]])
    BY <1>4
  <2>2. Finds(results[s[1]], saw)
    BY <1>2, <2>1
  <2>3. QED
    BY <1>1, <2>1, <2>2 DEF Finds
<1>6. ~Accepts(version, NoAddr)
  BY DEF Accepts
<1>7. ASSUME NEW n \in D PROVE \E s \in All : s[2].ip = saw
  <2>1. PICK f \in Found(results[n]) : f.ip = saw
    BY <1>2 DEF Finds
  <2>2. <<n, f>> \in All /\ <<n, f>>[2] = f
    BY <2>1
  <2> HIDE DEF All
  <2>3. QED
    BY <2>1, <2>2
<1> HIDE DEF All
<1>8. CASE results # <<>> /\ Accepts(version, saw)
  <2>1. 1 \in D
    BY <1>1, <1>8
  <2>2. PICK r \in All : r[2].ip = saw
    BY <1>7, <2>1
  <2>3. r \in serving
    BY <1>8, <2>2
  <2>4. \A s \in serving : s[1] \in Nat /\ s[2].at \in Nat /\ s[2].ip = saw
    BY <1>5, <1>6
  <2>5. \E s \in serving : Least(s)
    <3> HIDE DEF serving
    <3>1. QED
      BY <2>3, <2>4, FirstFound
  <2>6. first \in serving
    <3> HIDE DEF serving, Least
    <3>1. QED
      BY <2>5
  <2> HIDE DEF serving, first
  <2>7. first[2].ip = saw
    BY <2>4, <2>6
  <2>8. QED
    BY <1>3, <1>8, <2>3, <2>7
<1>9. CASE ~(results # <<>> /\ Accepts(version, saw))
  <2>1. serving = {}
    <3> SUFFICES ASSUME NEW s \in serving PROVE FALSE
      OBVIOUS
    <3>1. s \in All /\ Accepts(version, s[2].ip)
      OBVIOUS
    <3>2. s[2].ip \in {saw, NoAddr} /\ s[1] \in D
      BY <1>4, <1>5, <3>1
    <3>3. Accepts(version, saw)
      BY <1>6, <3>1, <3>2
    <3>4. results # <<>>
      BY <1>1, <3>2
    <3>5. QED
      BY <1>9, <3>3, <3>4
  <2> HIDE DEF serving, first
  <2>2. QED
    BY <1>3, <1>9, <2>1
<1>10. QED
  BY <1>8, <1>9

(* What a response says to a question is what its records say, in order. *)
LEMMA SaysAreParts ==
    ASSUME NEW shape, NEW q, NEW saw, Answerable(shape, q, saw)
    PROVE  /\ DnsSays(shape, q.type, saw) = JoinOf(SayParts(shape, q, saw))[Len(shape.records)]
           /\ DnsSays(shape, q.type, saw) = FlattenSeq(SayParts(shape, q, saw))
<1> DEFINE parts == SayParts(shape, q, saw)
           S == Said(saw)
<1>1. parts \in Seq(Seq(S)) /\ Len(parts) = Len(shape.records)
  BY SaysAdded
<1>2. DnsSays(shape, q.type, saw) = FlattenSeq(parts)
  BY DEF DnsSays, SayParts
<1> HIDE DEF parts, S
<1>3. FlattenSeq(parts) = JoinOf(parts)[Len(parts)]
  BY <1>1, Flattened
<1>4. QED
  BY <1>1, <1>2, <1>3 DEF parts

(* The records that parse_response has taken when it ends. *)
Taken(shape, q, saw) ==
    LET says == DnsSays(shape, q.type, saw)
    IN  /\ results \in Seq(Said(saw)) /\ rtype = q.type
        /\ Len(results) <= Len(says) /\ results = SubSeq(says, 1, Len(results))
        /\ ~WasCut(shape, q, saw) => results = says

(* What the parser has when it ends is the first of that, and all of it
   unless the response was cut.                                              *)
LEMMA RecordsTaken ==
    ASSUME NEW shape, NEW q, NEW saw, Answerable(shape, q, saw), DnsReads(shape, q, saw),
           parsing = "parsed"
    PROVE  Taken(shape, q, saw)
<1> DEFINE N == Len(shape.records)
           parts == SayParts(shape, q, saw)
           S == Said(saw)
           says == DnsSays(shape, q.type, saw)
           k == N - todo
<1>1. /\ rtype = q.type /\ AnswersRead(shape, q, saw)
      /\ todo # 0 => WasCut(shape, q, saw)
  BY DEF DnsReads, DnsHeard
<1>2. N \in Nat
  BY RecordsOf DEF Answerable
<1>3. todo \in 0..N /\ results = JoinOf(parts)[k]
  BY <1>1 DEF AnswersRead
<1>4. parts \in Seq(Seq(S)) /\ Len(parts) = N
  BY SaysAdded
<1>5. says = JoinOf(parts)[N]
  BY SaysAreParts
<1> HIDE DEF parts, S, N, says
<1>6. k \in 0..N /\ N \in k..N /\ (todo = 0 => k = N)
  BY <1>2, <1>3
<1> HIDE DEF k
<1>7. /\ JoinOf(parts)[k] \in Seq(S) /\ JoinOf(parts)[N] \in Seq(S)
      /\ Len(JoinOf(parts)[k]) <= Len(JoinOf(parts)[N])
      /\ \A p \in 1..Len(JoinOf(parts)[k]) : JoinOf(parts)[N][p] = JoinOf(parts)[k][p]
  <2>1. k \in 0..Len(parts) /\ N \in k..Len(parts)
    BY <1>4, <1>6
  <2>2. QED
    BY <1>4, <2>1, JoinedGrows
<1>8. /\ results \in Seq(S) /\ says \in Seq(S) /\ Len(results) <= Len(says)
      /\ \A p \in 1..Len(results) : says[p] = results[p]
  BY <1>3, <1>5, <1>7
<1>9. results = SubSeq(says, 1, Len(results))
  BY <1>8, BeginsWith
<1>10. ~WasCut(shape, q, saw) => results = says
  BY <1>1, <1>3, <1>5, <1>6
<1>11. QED
  BY <1>1, <1>8, <1>9, <1>10 DEF Taken, S, says

(* A complete response that holds an answer is parsed, and says something. *)
LEMMA GoodIsTaken ==
    ASSUME NEW shape, NEW q, NEW saw, Answerable(shape, q, saw), DnsReads(shape, q, saw),
           parsing \in {"parsed", "rejected"}, ~WasCut(shape, q, saw),
           NEW txt \in BOOLEAN, GoodDns(shape, txt),
           q.type = IF txt THEN Txt ELSE IF saw.v6 THEN Aaaa ELSE A
    PROVE  parsing = "parsed" /\ results # <<>>
<1> DEFINE N == Len(shape.records)
           parts == SayParts(shape, q, saw)
           S == Said(saw)
           says == DnsSays(shape, q.type, saw)
           kinds == IF txt THEN TextKinds ELSE {"address"}
<1>1. shape.rcode = 0 /\ ~shape.tc /\ ToSet(shape.records) \cap kinds # {}
  BY DEF GoodDns
<1>2. /\ N \in Nat /\ DOMAIN shape.records = 1..N
      /\ \A n \in 1..N : shape.records[n] \in RecordKinds
  BY RecordsOf DEF Answerable
<1>3. PICK n \in 1..N : shape.records[n] \in kinds
  BY <1>1, <1>2 DEF ToSet
<1>4. parsing = "parsed"
  BY <1>1, <1>2, <1>3 DEF DnsReads
<1>5. Seen(saw) /\ saw.v6 \in BOOLEAN
  BY DEF Answerable, Seen
<1> DEFINE r == DnsRecord(shape.records[n], saw)
<1>6. r.type = q.type /\ Len(r.says) = 1
  <2>1. CASE txt
    <3>1. RecordTyped(shape.records[n], saw) /\ shape.records[n] \in TextKinds
      BY <1>2, <1>3, <1>5, <2>1, RecordsTyped
    <3>2. r.type = Txt /\ \E x \in S : r.says = <<x>>
      BY <3>1 DEF RecordTyped
    <3>3. QED
      BY <2>1, <3>2
  <2>2. CASE ~txt
    <3>1. shape.records[n] = "address"
      BY <1>3, <2>2
    <3>2. DnsRecord("address", saw).type = (IF saw.v6 THEN Aaaa ELSE A)
      BY <1>5, AddressRecord
    <3>3. DnsRecord("address", saw).says = <<[txt |-> <<>>, ip |-> saw]>>
      BY <1>5, AddressRecord
    <3> HIDE DEF r
    <3>4. r = DnsRecord("address", saw)
      BY <3>1 DEF r
    <3>5. r.type = q.type
      BY <2>2, <3>2, <3>4
    <3>6. Len(r.says) = 1
      BY <3>3, <3>4
    <3>7. QED
      BY <3>5, <3>6
  <2>3. QED
    BY <2>1, <2>2
<1>7. Says(shape, q, saw, n) = r.says
  BY <1>6 DEF Says
<1>8. parts \in Seq(Seq(S)) /\ Len(parts) = N /\ parts[n] = Says(shape, q, saw, n)
  BY SaysAdded
<1>9. Taken(shape, q, saw)
  BY <1>4, RecordsTaken
<1>10. results = says
  BY <1>9 DEF Taken
<1>11. says = FlattenSeq(parts)
  BY SaysAreParts
<1> HIDE DEF parts, S, says, r, kinds
<1>12. LiesAt(parts[n], Len(JoinOf(parts)[n - 1]), FlattenSeq(parts))
  BY <1>8, PartWithin
<1>13. Len(says) >= 1
  <2> DEFINE at == Len(JoinOf(parts)[n - 1])
  <2>1. at \in Nat /\ Len(FlattenSeq(parts)) \in Nat /\ at + Len(parts[n]) <= Len(FlattenSeq(parts))
    BY <1>12 DEF LiesAt
  <2>2. Len(parts[n]) = 1
    BY <1>6, <1>7, <1>8
  <2> HIDE DEF at
  <2>3. QED
    BY <1>11, <2>1, <2>2
<1>14. QED
  BY <1>4, <1>10, <1>13
=============================================================================
