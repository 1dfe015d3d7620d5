------------------------------- MODULE DnsParse -------------------------------
(* The DNS wire format as src/dns uses it: build_query's question, and
   validate_response, parse_response and skip_name on a datagram, one step per
   label, record and string.  Positions are octets of the datagram, from 0.  *)
EXTENDS WireTypes

CONSTANTS
    IsUtf8(_),      \* is a sequence of octets valid UTF-8?
    FromStr(_)      \* IpAddr::from_str: the address a text spells, or NoAddr

VARIABLES
    packet,         \* the datagram: received octets, header fields, body
    rtype,          \* the record type that was asked for
    parsing,        \* "idle", where the parser stands, or how it ended
    pos,            \* its position
    todo,           \* questions or answers it still expects
    text,           \* the TXT record being read: position, end, text so far
    results         \* what the matching records hold

dnsVars == <<packet, rtype, parsing, pos, todo, text, results>>
-----------------------------------------------------------------------------
(* RecordType *)
A == 1
Txt == 16
Aaaa == 28

HEADER_LEN == 12

(* size counts the octets received, and the body is what follows the header; of
   fewer than 12 octets nothing is looked at.                                *)
DnsMsg ==
    {p \in [size : Nat, id : Nat, qr : BOOLEAN, tc : BOOLEAN, rcode : 0..15,
            qdcount : Nat, ancount : Nat, body : Seq(Octet)] :
        p.size >= HEADER_LEN => Len(p.body) = p.size - HEADER_LEN}

NoPacket == [size |-> 0, id |-> 0, qr |-> FALSE, tc |-> FALSE, rcode |-> 0,
             qdcount |-> 0, ancount |-> 0, body |-> <<>>]

NoText == [at |-> 0, end |-> 0, txt |-> <<>>]

OctetAt(i) == packet.body[i - HEADER_LEN + 1]
U16At(i) == 256 * OctetAt(i) + OctetAt(i + 1)
Slice(from, to) == SubSeq(packet.body, from - HEADER_LEN + 1, to - HEADER_LEN)

(* A slice index beyond the datagram would panic. *)
Within(end) == end <= packet.size

ParserEnds(how) == parsing' = how /\ UNCHANGED <<packet, rtype, pos, todo, text, results>>
-----------------------------------------------------------------------------
(* build_query: a domain is the sequence of its labels. *)
MAX_LABEL == 63
MAX_DOMAIN == 253

(* A label of a name, and a string of a text: its length, then its octets. *)
CharString(t) == <<Len(t)>> \o t

EncodeName(labels) == FlattenSeq([i \in DOMAIN labels |-> CharString(labels[i])]) \o <<0>>

QueryIsValid(labels) ==
    /\ labels # <<>> /\ \A i \in DOMAIN labels : Len(labels[i]) \in 1..MAX_LABEL
    /\ Len(EncodeName(labels)) <= MAX_DOMAIN

(* The question section of the query, of class IN or CH. *)
Question(labels, type, class) == EncodeName(labels) \o <<0, type, 0, class>>
-----------------------------------------------------------------------------
(* validate_response and the start of parse_response *)
ResponseIsValid(p, id) ==
    /\ p.size >= HEADER_LEN
    /\ p.id = id /\ p.qr /\ ~p.tc

ParseHeader(p, id, type) ==
    /\ packet' = p
    /\ rtype' = type
    /\ pos' = HEADER_LEN
    /\ todo' = p.qdcount
    /\ text' = NoText
    /\ results' = <<>>
    /\ parsing' = IF ResponseIsValid(p, id) /\ p.rcode = 0 /\ p.ancount > 0
                  THEN "questions" ELSE "rejected"

(* The header of both loops. *)
NextQuestion ==
    /\ parsing = "questions"
    /\ IF todo = 0 THEN parsing' = "answers" /\ todo' = packet.ancount
                   ELSE parsing' = "qname" /\ UNCHANGED todo
    /\ UNCHANGED <<packet, rtype, pos, text, results>>

NextAnswer ==
    /\ parsing = "answers"
    /\ IF todo = 0 \/ pos >= packet.size
         THEN ParserEnds("parsed")
         ELSE /\ parsing' = "rname"
              /\ UNCHANGED <<packet, rtype, pos, todo, text, results>>

(* Mutation: a compression pointer is one octet long. *)
SkipNameShortPointer(then) ==
    /\ IF pos >= packet.size THEN ParserEnds("rejected")
       ELSE LET len == OctetAt(pos)
            IN  IF len >= 192 THEN parsing' = then /\ pos' = pos + 1
                ELSE IF len = 0 THEN parsing' = then /\ pos' = pos + 1
                ELSE pos' = pos + 1 + len /\ UNCHANGED parsing
    /\ UNCHANGED <<packet, rtype, todo, text, results>>

(* One turn of skip_name's loop; a length of 192 and more is a pointer. *)
SkipName(then) ==
    /\ IF pos >= packet.size THEN ParserEnds("rejected")
       ELSE LET len == OctetAt(pos)
            IN  IF len >= 192 THEN parsing' = then /\ pos' = pos + 2
                ELSE IF len = 0 THEN parsing' = then /\ pos' = pos + 1
                ELSE pos' = pos + 1 + len /\ UNCHANGED parsing
    /\ UNCHANGED <<packet, rtype, todo, text, results>>

QuestionName == parsing = "qname" /\ SkipName("question")
AnswerName == parsing = "rname" /\ SkipName("answer")

SkipQuestion ==
    /\ parsing = "question"
    /\ IF pos + 4 > packet.size THEN ParserEnds("rejected")
       ELSE /\ pos' = pos + 4 /\ todo' = todo - 1 /\ parsing' = "questions"
            /\ UNCHANGED <<packet, rtype, text, results>>

(* What an address record says; its text is parsed again without loss. *)
AddressResult(from, to) == [txt |-> <<>>, ip |-> Addr(rtype = Aaaa, Slice(from, to))]
TextResult(txt) == [txt |-> txt, ip |-> NoAddr]

(* Mutation: the data of a record may exceed the datagram. *)
ReadRecordUnbounded ==
    /\ parsing = "answer"
    /\ IF pos + 10 > packet.size THEN ParserEnds("parsed")
       ELSE LET data == pos + 10
                end  == data + U16At(pos + 8)
            IN  IF U16At(pos) = rtype /\ rtype = Txt
                THEN /\ text' = [at |-> data, end |-> end, txt |-> <<>>]
                     /\ parsing' = "text"
                     /\ UNCHANGED <<packet, rtype, pos, todo, results>>
                ELSE ParserEnds("parsed")

(* The fixed part of a record, and the data of one that matches. *)
ReadRecord ==
    /\ parsing = "answer"
    /\ IF pos + 10 > packet.size THEN ParserEnds("parsed")
       ELSE LET data == pos + 10
                end  == data + U16At(pos + 8)
                matches == U16At(pos) = rtype
            IN  IF ~Within(end) THEN ParserEnds("parsed")
                ELSE IF matches /\ rtype = Txt
                THEN /\ text' = [at |-> data, end |-> end, txt |-> <<>>]
                     /\ parsing' = "text"
                     /\ UNCHANGED <<packet, rtype, pos, todo, results>>
                ELSE /\ results' = IF matches /\ end - data = (IF rtype = A THEN 4 ELSE 16)
                                   THEN Append(results, AddressResult(data, end)) ELSE results
                     /\ pos' = end /\ todo' = todo - 1 /\ parsing' = "answers"
                     /\ UNCHANGED <<packet, rtype, text>>

(* One character string of a TXT record; one that is no UTF-8 is left out, one
   that does not fit ends the record.                                        *)
ReadString ==
    /\ parsing = "text" /\ text.at < text.end
    /\ IF ~Within(text.at + 1) THEN ParserEnds("panicked")
       ELSE LET from == text.at + 1
                to   == from + OctetAt(text.at)
            IN  /\ text' = IF to > text.end THEN [text EXCEPT !.at = text.end]
                           ELSE [text EXCEPT !.at = to,
                                    !.txt = IF IsUtf8(Slice(from, to))
                                            THEN @ \o Slice(from, to) ELSE @]
                /\ UNCHANGED <<packet, rtype, parsing, pos, todo, results>>

TextDone ==
    /\ parsing = "text" /\ text.at >= text.end
    /\ results' = IF text.txt = <<>> THEN results ELSE Append(results, TextResult(text.txt))
    /\ pos' = text.end /\ todo' = todo - 1 /\ parsing' = "answers"
    /\ UNCHANGED <<packet, rtype, text>>

DnsStep ==
    \/ NextQuestion \/ QuestionName \/ SkipQuestion
    \/ NextAnswer \/ AnswerName \/ ReadRecord
    \/ ReadString \/ TextDone
-----------------------------------------------------------------------------
(* extract_ip: the parts of a text are what whitespace separates, and what
   follows a slash does not count.                                           *)
Space == 32
Slash == 47

IsPart(t, from, to) ==
    /\ from <= to
    /\ \A i \in from..to : t[i] # Space
    /\ from = 1 \/ t[from - 1] = Space
    /\ to = Len(t) \/ t[to + 1] = Space

BeforeSlash(part) ==
    LET slashes == {i \in DOMAIN part : part[i] = Slash}
    IN  IF slashes = {} THEN part
        ELSE SubSeq(part, 1, (CHOOSE i \in slashes : \A j \in slashes : i <= j) - 1)

(* The addresses in a result, each with its place; an address record holds one. *)
Found(result) ==
    LET t == result.txt
    IN  IF t = <<>> THEN {[at |-> 1, ip |-> result.ip]}
        ELSE {[at |-> s[1], ip |-> FromStr(BeforeSlash(SubSeq(t, s[1], s[2])))] :
                  s \in {u \in (DOMAIN t) \X (DOMAIN t) : IsPart(t, u[1], u[2])}}

(* The first address, by result and then by place, of the version wanted. *)
ExtractIp(version) ==
    LET serving == {s \in UNION {{n} \X Found(results[n]) : n \in DOMAIN results} :
                        Accepts(version, s[2].ip)}
        first == CHOOSE s \in serving : \A t \in serving :
                     s[1] < t[1] \/ (s[1] = t[1] /\ s[2].at <= t[2].at)
    IN  IF serving = {} THEN NoAddr ELSE first[2].ip
-----------------------------------------------------------------------------
(* Properties *)

(* The parser never reads beyond the octets it received: every index is behind
   a test of its own, although a pointer may leave pos beyond the end.       *)
DnsNeverPanics == parsing # "panicked"
=============================================================================
