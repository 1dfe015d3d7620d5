------------------------------ MODULE StunDecode ------------------------------
(* What StunProvider does with a datagram: StunMessage::decode, one step per
   attribute, and get_mapped_address.  Places are octets of the datagram,
   counted from 0; the body is what follows the header of twenty.            *)
EXTENDS WireTypes

CONSTANT XorOctet(_, _)     \* the exclusive or of two octets

ASSUME XorAssumption ==
    \A x, y \in Octet : XorOctet(x, y) \in Octet /\ XorOctet(XorOctet(x, y), y) = x

VARIABLES
    msg,            \* the datagram: received octets, header fields, body
    offset,         \* where decode stands
    attributes,     \* the attributes found: type, place and length of the value
    decoding        \* "idle", "attributes", or how decode ended

stunVars == <<msg, offset, attributes, decoding>>
-----------------------------------------------------------------------------
MAGIC_COOKIE == <<33, 18, 164, 66>>     \* 0x2112A442

(* StunMethod and AttributeType *)
Request == 1
Response == 257
ErrorResponse == 273
MappedAddress == 1
XorMappedAddress == 32

HEADER == 20

(* size counts the octets received, and the body is what follows the header: it
   may be shorter or longer than the length that the header declares.        *)
StunMsg ==
    {m \in [size : Nat, method : Nat, length : Nat, cookie : Seq(Octet),
            id : Seq(Octet), body : Seq(Octet)] :
        m.size >= HEADER => Len(m.body) = m.size - HEADER}

NoMsg == [size |-> 0, method |-> 0, length |-> 0, cookie |-> MAGIC_COOKIE,
          id |-> <<>>, body |-> <<>>]

End == HEADER + msg.length

(* A slice index beyond the datagram would panic. *)
InBounds(to) == to <= msg.size

OctetOf(at) == msg.body[at - HEADER + 1]
U16Of(at) == 256 * OctetOf(at) + OctetOf(at + 1)

(* Mutation: a length that is no multiple of four is accepted. *)
HeaderIsValidUnaligned ==
    /\ msg.size >= HEADER
    /\ msg.method \in {Request, Response, ErrorResponse}
    /\ msg.cookie = MAGIC_COOKIE
    /\ msg.size >= End

(* Mutation: the declared length is not compared with what was received. *)
HeaderIsValidUntested ==
    /\ msg.size >= HEADER
    /\ msg.method \in {Request, Response, ErrorResponse}
    /\ msg.cookie = MAGIC_COOKIE
    /\ msg.length % 4 = 0

HeaderIsValid ==
    /\ msg.size >= HEADER
    /\ msg.method \in {Request, Response, ErrorResponse}
    /\ msg.cookie = MAGIC_COOKIE
    /\ msg.length % 4 = 0
    /\ msg.size >= End

(* decode up to its loop *)
DecodeHeader(m) ==
    /\ msg' = m
    /\ offset' = HEADER
    /\ attributes' = <<>>
    /\ decoding' = IF HeaderIsValid' THEN "attributes" ELSE "rejected"

DecodeEnds(how) == decoding' = how /\ UNCHANGED <<msg, offset, attributes>>

(* Mutation: the padding of a value is forgotten. *)
NoPadding(len) == 0

Padding(len) == (4 - (len % 4)) % 4

(* One turn of the loop.  "misaligned" stands for the two errors about a
   truncated header and about the padding of an attribute.                   *)
DecodeAttribute ==
    /\ decoding = "attributes" /\ offset < End
    /\ IF offset + 4 > End THEN DecodeEnds("misaligned")
       ELSE IF ~InBounds(offset + 4) THEN DecodeEnds("panicked")
       ELSE LET len   == U16Of(offset + 2)
                value == offset + 4
                end   == value + len
                next  == end + Padding(len)
            IN  IF end > End THEN DecodeEnds("rejected")
                ELSE IF ~InBounds(end) THEN DecodeEnds("panicked")
                ELSE IF next > End THEN DecodeEnds("misaligned")
                ELSE /\ attributes' = Append(attributes,
                                        [type |-> U16Of(offset), at |-> value, len |-> len])
                     /\ offset' = next
                     /\ UNCHANGED <<msg, decoding>>

DecodeDone ==
    /\ decoding = "attributes" /\ offset >= End
    /\ DecodeEnds("decoded")

StunStep == DecodeAttribute \/ DecodeDone
-----------------------------------------------------------------------------
(* parse_mapped_address and, with the key, parse_xor_mapped_address: the second
   octet of the value is the family, the address begins at the fifth.        *)
ParseAddress(a, key) ==
    LET family == OctetOf(a.at + 1)
        Ip(v6, n) == Addr(v6, [i \in 1..n |-> XorOctet(OctetOf(a.at + 3 + i), key[i])])
    IN  IF a.len >= 8 /\ family = 1 THEN Ip(FALSE, 4)
        ELSE IF a.len >= 20 /\ family = 2 THEN Ip(TRUE, 16)
        ELSE NoAddr

XorKey == MAGIC_COOKIE \o msg.id
NoKey == [i \in 1..16 |-> 0]

(* The first attribute of a type decides, even if it cannot be parsed. *)
FirstOf(type) ==
    {i \in DOMAIN attributes : /\ attributes[i].type = type
                               /\ \A j \in 1..i-1 : attributes[j].type # type}

(* StunMessage::get_mapped_address *)
GetMappedAddress ==
    IF FirstOf(XorMappedAddress) # {}
      THEN ParseAddress(attributes[CHOOSE i \in FirstOf(XorMappedAddress) : TRUE], XorKey)
    ELSE IF FirstOf(MappedAddress) # {}
      THEN ParseAddress(attributes[CHOOSE i \in FirstOf(MappedAddress) : TRUE], NoKey)
    ELSE NoAddr
-----------------------------------------------------------------------------
(* Properties *)

(* decode never reads beyond the octets it received, whatever they are, and
   whatever lengths the header and the attributes declare.                   *)
StunNeverPanics == decoding # "panicked"

(* The errors "truncated attribute header" and "invalid attribute padding" of
   the loop are dead code: the loop stays aligned with the end of the message. *)
AlignmentErrorsAreDead == decoding # "misaligned"
=============================================================================
