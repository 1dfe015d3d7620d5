-------------------------------- MODULE Servers --------------------------------
(* The services that the built-in providers ask, as far as src/ relies on them:
   what they send back to a client whose address they see.  All external.  A
   shape says which of the many ways of saying it a server chooses.          *)
EXTENDS StunDecode, DnsParse

CONSTANT Spell(_)       \* the text of an address, which FromStr reads back

Zeros(n) == [i \in 1..n |-> 0]
-----------------------------------------------------------------------------
(* STUN: a message of some method, its attributes in order, and what its length
   field is off by.                                                          *)
Attribute(type, value) ==
    <<0, type, 0, Len(value)>> \o value \o Zeros((4 - (Len(value) % 4)) % 4)

(* The value of an address attribute under a key; familyOf is 1 or 2. *)
AddressValue(family, data, key) ==
    <<0, family, 0, 0>> \o [i \in DOMAIN data |-> XorOctet(data[i], key[i])]

Family(ip) == IF ip.v6 THEN 2 ELSE 1

(* "xor" and "mapped" carry the address, "mangled" is a MAPPED-ADDRESS that a
   middlebox rewrote, "unknown" an XOR-MAPPED-ADDRESS nobody can read,
   "software" five octets of text, "overlong" claims more than there is.     *)
StunAttribute(kind, id, saw) ==
    CASE kind = "xor" -> Attribute(XorMappedAddress,
                                   AddressValue(Family(saw), saw.data, MAGIC_COOKIE \o id))
      [] kind = "mapped" -> Attribute(MappedAddress, AddressValue(Family(saw), saw.data, NoKey))
      [] kind = "mangled" -> Attribute(MappedAddress, AddressValue(1, Zeros(4), NoKey))
      [] kind = "unknown" -> Attribute(XorMappedAddress, AddressValue(3, Zeros(4), NoKey))
      [] kind = "software" -> Attribute(34, Zeros(5))
      [] kind = "overlong" -> <<0, 34, 0, 255>>

AttributeKinds == {"xor", "mapped", "mangled", "unknown", "software", "overlong"}
StunShape == [method : Nat, attributes : Seq(AttributeKinds), off : Int]

(* Beside a MAPPED-ADDRESS that a middlebox may rewrite the server puts one that
   it cannot, and counts both in the length of the message.                   *)
SentBeside(shape) ==
    LET kinds == ToSet(shape.attributes)
    IN  "mangled" \in kinds =>
            shape.off >= 0 /\ kinds \cap {"xor", "unknown"} # {}

(* A response that lets a client know its address. *)
GoodStun(shape) ==
    LET kinds == ToSet(shape.attributes)
        telling == {i \in DOMAIN shape.attributes : shape.attributes[i] = "xor"}
    IN  /\ shape.method = Response /\ shape.off = 0 /\ "overlong" \notin kinds
        /\ \/ \E i \in telling : \A j \in 1..i-1 : shape.attributes[j] # "unknown"
           \/ "mapped" \in kinds /\ kinds \cap {"xor", "unknown", "mangled"} = {}

StunMessageOf(shape, id, saw) ==
    LET body == FlattenSeq([i \in DOMAIN shape.attributes |->
                               StunAttribute(shape.attributes[i], id, saw)])
    IN  [size |-> HEADER + Len(body), method |-> shape.method,
         length |-> Len(body) + shape.off, cookie |-> MAGIC_COOKIE, id |-> id, body |-> body]
-----------------------------------------------------------------------------
(* DNS: the question is echoed, the answers name it by a pointer or in full. *)
Record(name, type, data) ==
    name \o <<0, type, 0, 1, 0, 0, 0, 0, 0, Len(data)>> \o data

Binary == <<200, 200>>      \* a string that is no text
Subnet(t) == <<101, Space>> \o t \o <<Slash, 50>>

ASSUME TextAssumption == FromStr(<<101>>) = NoAddr /\ ~IsUtf8(Binary)

(* An address is written in a few characters, none of them a separator, and what
   is written reads back as the address.                                     *)
Legible(ip) ==
    LET t == Spell(ip)
    IN  /\ t \in Seq(Octet) /\ Len(t) >= 2 /\ ToSet(t) \cap {Space, Slash} = {}
        /\ FromStr(t) = ip
        /\ \A u \in {t, SubSeq(t, 1, 2), SubSeq(t, 3, Len(t)), Subnet(t)} : IsUtf8(u)

(* What a record of a kind says of the address seen: the type, the data and the
   result that a reader takes from it, if there is one.                      *)
DnsRecord(kind, saw) ==
    LET Said(type, data, txt) ==
            [type |-> type, data |-> data, says |-> <<[txt |-> txt, ip |-> NoAddr]>>]
        t == Spell(saw)
    IN  CASE kind = "address" ->
                 [type |-> IF saw.v6 THEN Aaaa ELSE A, data |-> saw.data,
                  says |-> <<[txt |-> <<>>, ip |-> saw]>>]
          [] kind = "short"  -> [type |-> A, data |-> Zeros(3), says |-> <<>>]
          [] kind = "cname"  -> [type |-> 5, data |-> <<192, 12>>, says |-> <<>>]
          [] kind = "text"   -> Said(Txt, CharString(t), t)
          [] kind = "split"  -> Said(Txt, CharString(SubSeq(t, 1, 2))
                                          \o CharString(SubSeq(t, 3, Len(t))), t)
          [] kind = "binary" -> Said(Txt, CharString(Binary) \o CharString(t), t)
          [] kind = "subnet" -> Said(Txt, CharString(Subnet(t)), Subnet(t))
          [] kind = "empty"  -> [type |-> Txt, data |-> CharString(<<>>), says |-> <<>>]

TextKinds == {"text", "split", "binary", "subnet"}
RecordKinds == {"address", "short", "cname", "empty"} \cup TextKinds
DnsShape == [records : Seq(RecordKinds), pointer : BOOLEAN, rcode : 0..15, tc : BOOLEAN]

(* A response that holds an answer to a question for text or for an address. *)
GoodDns(shape, txt) ==
    /\ shape.rcode = 0 /\ ~shape.tc
    /\ ToSet(shape.records) \cap (IF txt THEN TextKinds ELSE {"address"}) # {}

DnsMessageOf(shape, id, question, saw) ==
    LET name == IF shape.pointer THEN <<192, 12>>
                ELSE SubSeq(question, 1, Len(question) - 4)
        rr(kind) == Record(name, DnsRecord(kind, saw).type, DnsRecord(kind, saw).data)
        body == question \o FlattenSeq([i \in DOMAIN shape.records |-> rr(shape.records[i])])
    IN  [size |-> HEADER_LEN + Len(body), id |-> id, qr |-> TRUE, tc |-> shape.tc,
         rcode |-> shape.rcode, qdcount |-> 1, ancount |-> Len(shape.records), body |-> body]

(* What the records of the type that was asked for say, one result each. *)
DnsSays(shape, type, saw) ==
    FlattenSeq([i \in DOMAIN shape.records |->
                   LET r == DnsRecord(shape.records[i], saw)
                   IN  IF r.type = type THEN r.says ELSE <<>>])
-----------------------------------------------------------------------------
(* HTTP: a status and the lines of the body, each with what stands before its
   "=", if anything, and the address that the rest spells.                   *)
HttpShape == [success : BOOLEAN, lines : Seq([key : {"", "ip", "other"}, value : {"saw", "junk"}])]

GoodHttp(shape, trace) ==
    LET Says(line, key) == line = [key |-> key, value |-> "saw"]
    IN  /\ shape.success
        /\ IF trace THEN \E i \in DOMAIN shape.lines :
                             /\ Says(shape.lines[i], "ip")
                             /\ \A j \in 1..i-1 : shape.lines[j].key # "ip"
                    ELSE Len(shape.lines) = 1 /\ Says(shape.lines[1], "")

Good(provider, shape) ==
    CASE provider.kind = "stun" -> GoodStun(shape)
      [] provider.kind = "dns"  -> GoodDns(shape, provider.txt)
      [] provider.kind = "http" -> GoodHttp(shape, provider.trace)

LineAddress(line, saw) == IF line.value = "saw" THEN saw ELSE NoAddr
=============================================================================
