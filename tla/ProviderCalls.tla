----------------------------- MODULE ProviderCalls -----------------------------
(* Calls of the built-in providers, one after the other, over the network: the
   socket, the request, the one datagram that is received, and what the codecs
   make of it.  A UDP datagram may be lost, delayed beyond its call, repeated
   or reordered; ports are used again, and the host's public addresses change. *)
EXTENDS Servers

CONSTANTS
    Settings,       \* a sequence: the calls, servers and faults of a run, and how
                    \* many replies the servers send at most
    Ports,          \* the ephemeral ports the system hands out
    MaxInbox        \* datagrams a socket queues before it drops them

VARIABLES
    scenario,       \* which of the settings this is
    calls,          \* the calls made so far, the current one included
    phase,          \* where the current call stands
    peer,           \* does it ask over IPv6?
    port,           \* the port of its socket, 0 when it has none
    requests,       \* every request sent, of earlier calls too
    left,           \* the time left until a timeout
    inbox,          \* what its socket has queued
    sent,           \* every reply the servers sent
    got,            \* the reply it received, and whether it was cut
    route,          \* the host's public address of each family, if it has one
    outcome         \* what the call returned

callVars == <<scenario, calls, phase, peer, port, requests, left, inbox, sent, got, route,
              outcome>>
vars == <<callVars, stunVars, dnsVars>>
-----------------------------------------------------------------------------
(* The built-in providers.  A provider is its protocol and what its calls read:
   for DNS the record type, the class, the domain and whether it has an IPv6
   resolver; for HTTP whether the body is a Cloudflare trace.                *)
In == 1
Ch == 3

StunProvider == [kind |-> "stun", txt |-> FALSE, class |-> In, domain |-> <<>>,
                 v6 |-> TRUE, trace |-> FALSE]
DnsProvider(txt, class, domain, v6) ==
    [kind |-> "dns", txt |-> txt, class |-> class, domain |-> domain, v6 |-> v6,
     trace |-> FALSE]
HttpProvider(trace) ==
    [kind |-> "http", txt |-> FALSE, class |-> In, domain |-> <<>>, v6 |-> FALSE,
     trace |-> trace]

(* Which letters a label has does not matter. *)
Labels(lengths) == [i \in DOMAIN lengths |-> [j \in 1..lengths[i] |-> 120]]

GoogleDns == DnsProvider(TRUE, In, Labels(<<3, 6, 1, 6, 3>>), TRUE)
CloudflareDns == DnsProvider(TRUE, Ch, Labels(<<6, 10>>), TRUE)
OpenDns == DnsProvider(FALSE, In, Labels(<<4, 7, 3>>), FALSE)
CloudflareHttp == HttpProvider(TRUE)
Aws == HttpProvider(FALSE)

(* supports_version of these providers: the resolvers ask no other version. *)
Supports(p, version) == version = "V6" => p.v6

(* A call as a resolver makes it. *)
PlannedCall ==
    [provider : [kind : {"stun", "dns", "http"}, txt : BOOLEAN, class : Nat,
                 domain : Seq(Seq(Octet)), v6 : BOOLEAN, trace : BOOLEAN],
     version : {"V4", "V6", "Any"}, timeout : Nat, blocking : BOOLEAN]

ASSUME SettingsAssumption ==
    \A i \in DOMAIN Settings :
        /\ Settings[i].plan \in Seq(PlannedCall)
        /\ Settings[i].lookups \subseteq Seq(BOOLEAN)
        /\ \A n \in DOMAIN Settings[i].plan :
              Supports(Settings[i].plan[n].provider, Settings[i].plan[n].version)

Idle == [kind |-> "none", why |-> "", ip |-> NoAddr]
Ok(ip) == [kind |-> "ok", why |-> "", ip |-> ip]
Failed(why) == [kind |-> "failed", why |-> why, ip |-> NoAddr]

Nothing == [reply |-> 0, cut |-> FALSE]

setting == Settings[scenario]
call == calls[Len(calls)]
me == Len(requests)

(* The call waits for the operating system, the network or the library. *)
Waiting == phase \in {"lookup", "bind", "connect", "send", "recv", "fetch", "response"}

(* DnsProvider::select_record_type *)
RecordType ==
    IF call.provider.txt THEN Txt ELSE IF call.version = "V6" THEN Aaaa ELSE A

(* DnsProvider::select_resolver *)
SelectResolver == call.version = "V6" /\ call.provider.v6

(* Mutation: the first address of any family is taken. *)
SelectAddrAny(addrs) == IF addrs = <<>> THEN {} ELSE {addrs[1]}

(* StunProvider::select_addr, on the families of the addresses in their order. *)
SelectAddr(addrs) ==
    LET families == {addrs[i] : i \in DOMAIN addrs}
    IN  CASE call.version = "V6" -> families \cap {TRUE}
          [] call.version = "V4" -> families \cap {FALSE}
          [] OTHER -> IF FALSE \in families THEN {FALSE} ELSE families
-----------------------------------------------------------------------------
Unparsed == UNCHANGED <<stunVars, dnsVars>>

(* Mutation: a call that returns keeps its socket. *)
ReturnsWithSocket(result) ==
    /\ outcome' = result
    /\ phase' = "returned"
    /\ UNCHANGED <<port, inbox>>

(* The socket is closed when the function is left. *)
Returns(result) ==
    /\ outcome' = result
    /\ phase' = "returned"
    /\ port' = 0
    /\ inbox' = <<>>

Quiet == UNCHANGED <<scenario, requests, sent, route>>

(* get_ip up to its first operation on the network: a zero timeout (blocking),
   the query of a DNS provider, which an invalid domain or the lack of random
   numbers prevents, or no operation for STUN and HTTP.                      *)
Begin ==
    /\ phase \in {"idle", "returned"} /\ Len(calls) < Len(setting.plan)
    /\ calls' = Append(calls, setting.plan[Len(calls) + 1])
    /\ LET c == setting.plan[Len(calls) + 1]
           d == c.provider.kind = "dns"
       IN  /\ left' = c.timeout
           /\ IF c.blocking /\ c.timeout = 0 /\ c.provider.kind # "http"
                THEN Returns(Failed("timeout"))
              ELSE IF d /\ ~QueryIsValid(c.provider.domain) THEN Returns(Failed("domain"))
              ELSE /\ phase' = CASE d -> "bind"
                                 [] c.provider.kind = "stun" -> "lookup"
                                 [] OTHER -> "fetch"
                   /\ outcome' = Idle
                   /\ UNCHANGED <<port, inbox>>
    /\ got' = Nothing /\ peer' = FALSE
    /\ msg' = NoMsg /\ offset' = 0 /\ attributes' = <<>> /\ decoding' = "idle"
    /\ packet' = NoPacket /\ rtype' = A /\ parsing' = "idle" /\ pos' = 0 /\ todo' = 0
    /\ text' = NoText /\ results' = <<>>
    /\ Quiet

(* The operating system refuses something: random numbers, a name, a socket,
   sending; or an ICMP error ends the wait; or an HTTP connection fails.     *)
SystemFails ==
    /\ Waiting /\ setting.faults
    /\ Returns(Failed("system"))
    /\ UNCHANGED <<calls, peer, left, got>> /\ Quiet /\ Unparsed

(* to_socket_addrs, lookup_host: the system's resolver returns addresses, in
   its own time.                                                             *)
Lookup ==
    /\ phase = "lookup"
    /\ \E addrs \in setting.lookups :
         IF SelectAddr(addrs) = {}
           THEN Returns(Failed("address")) /\ UNCHANGED peer
           ELSE /\ peer' \in SelectAddr(addrs)
                /\ phase' = "bind" /\ UNCHANGED <<outcome, port, inbox>>
    /\ UNCHANGED <<calls, left, got>> /\ Quiet /\ Unparsed

Bind ==
    /\ phase = "bind"
    /\ port' \in Ports
    /\ peer' = IF call.provider.kind = "dns" THEN SelectResolver ELSE peer
    /\ phase' = "connect"
    /\ UNCHANGED <<calls, left, inbox, got, outcome>> /\ Quiet /\ Unparsed

(* connect looks for a route; there is none without an address of the family. *)
Connect ==
    /\ phase = "connect"
    /\ IF route[peer] = NoAddr
         THEN Returns(Failed("unreachable"))
         ELSE phase' = "send" /\ UNCHANGED <<outcome, port, inbox>>
    /\ UNCHANGED <<calls, peer, left, got>> /\ Quiet /\ Unparsed

(* A request's number stands for its random transaction ID: no two are equal. *)
Send ==
    /\ phase = "send"
    /\ requests' = Append(requests,
         [provider |-> call.provider, version |-> call.version, type |-> RecordType,
          port |-> port, peer |-> peer])
    /\ phase' = "recv"
    /\ left' = IF call.blocking THEN call.timeout ELSE left
    /\ UNCHANGED <<scenario, calls, peer, port, inbox, sent, got, route, outcome>>
    /\ Unparsed

(* recv into a buffer of 576 octets for STUN and 1232 for DNS: the rest of a
   longer datagram is lost.  A cut tells how many octets remain.             *)
Cut(m, header, n) ==
    IF n >= m.size THEN m
    ELSE [m EXCEPT !.size = n, !.body = SubSeq(@, 1, IF n > header THEN n - header ELSE 0)]

StunId(k) == [i \in 1..12 |-> k]

(* A datagram as the current call reads it; one of the other protocol is
   rejected by its header, like an empty one.                                *)
As(kind, d, empty) ==
    IF requests[d.request].provider.kind = kind THEN d.message ELSE empty

Recv ==
    /\ phase = "recv" /\ inbox # <<>>
    /\ LET stun == call.provider.kind = "stun"
           d == sent[Head(inbox)]
           m == IF stun THEN As("stun", d, NoMsg) ELSE As("dns", d, NoPacket)
       IN  \E n \in (setting.cuts \cap 0..m.size) \cup {m.size} :
             /\ got' = [reply |-> Head(inbox), cut |-> n < m.size]
             /\ IF stun
                  THEN DecodeHeader(Cut(m, HEADER, n)) /\ UNCHANGED dnsVars
                  ELSE /\ ParseHeader(Cut(m, HEADER_LEN, n), me, RecordType)
                       /\ UNCHANGED stunVars
    /\ inbox' = Tail(inbox)
    /\ phase' = "parse"
    /\ UNCHANGED <<calls, peer, port, left, outcome>> /\ Quiet

(* Mutation: the socket of a blocking call has no read timeout. *)
TimesOutOnlyAsync ==
    /\ Waiting /\ left = 0
    /\ ~call.blocking
    /\ Returns(Failed("timeout"))
    /\ UNCHANGED <<calls, peer, left, got>> /\ Quiet /\ Unparsed

(* The read timeout of the socket, or of the HTTP client, in a blocking call;
   in an asynchronous one tokio's timeout, which drops the provider's future
   wherever it waits.                                                        *)
TimesOut ==
    /\ Waiting /\ left = 0
    /\ call.blocking => phase \in {"fetch", "response"} \/ (phase = "recv" /\ inbox = <<>>)
    /\ Returns(Failed("timeout"))
    /\ UNCHANGED <<calls, peer, left, got>> /\ Quiet /\ Unparsed

Parse ==
    /\ phase = "parse"
    /\ IF call.provider.kind = "stun" THEN StunStep /\ UNCHANGED dnsVars
                                      ELSE DnsStep /\ UNCHANGED stunVars
    /\ UNCHANGED callVars

(* Mutation: the transaction ID of the response is not compared. *)
ProcessResponseUnmatched ==
    IF decoding # "decoded" THEN Failed(decoding)
    ELSE IF msg.method # Response THEN Failed("method")
    ELSE IF GetMappedAddress = NoAddr THEN Failed("nothing")
    ELSE Ok(GetMappedAddress)

(* StunProvider::process_response *)
ProcessResponse ==
    IF decoding # "decoded" THEN Failed(decoding)
    ELSE IF msg.id # StunId(me) THEN Failed("unmatched")
    ELSE IF msg.method # Response THEN Failed("method")
    ELSE IF GetMappedAddress = NoAddr THEN Failed("nothing")
    ELSE Ok(GetMappedAddress)

(* The end of a DNS query. *)
ExtractResult ==
    IF parsing # "parsed" THEN Failed(parsing)
    ELSE IF ExtractIp(call.version) = NoAddr THEN Failed("nothing")
    ELSE Ok(ExtractIp(call.version))

Conclude ==
    /\ phase = "parse"
    /\ IF call.provider.kind = "stun"
         THEN decoding # "attributes" /\ Returns(ProcessResponse)
         ELSE parsing \in {"parsed", "rejected", "panicked"} /\ Returns(ExtractResult)
    /\ UNCHANGED <<calls, peer, left, got>> /\ Quiet /\ Unparsed
-----------------------------------------------------------------------------
(* HttpProvider: one GET.  get_url falls back to the IPv4 URL, and the built-in
   providers have no other; 1.1.1.1 is asked over IPv4, a named host over any
   family that has a route, whatever the version.                            *)
Fetch ==
    /\ phase = "fetch"
    /\ peer' \in IF call.provider.trace THEN {FALSE} ELSE BOOLEAN
    /\ route[peer'] # NoAddr
    /\ requests' = Append(requests,
         [provider |-> call.provider, version |-> call.version, type |-> A,
          port |-> 0, peer |-> peer'])
    /\ phase' = "response"
    /\ UNCHANGED <<scenario, calls, port, left, inbox, sent, got, route, outcome>>
    /\ Unparsed

(* parse_plain_text *)
ParsePlainText(lines, saw) ==
    IF Len(lines) = 1 /\ lines[1].key = "" THEN LineAddress(lines[1], saw) ELSE NoAddr

(* parse_cloudflare_trace: the first line that begins with "ip=" decides. *)
ParseCloudflareTrace(lines, saw) ==
    LET ip == {i \in DOMAIN lines : lines[i].key = "ip"}
    IN  IF ip = {} THEN NoAddr
        ELSE LineAddress(lines[CHOOSE i \in ip : \A j \in ip : i <= j], saw)

HttpResult(d) ==
    LET ip == IF call.provider.trace THEN ParseCloudflareTrace(d.message, d.saw)
                                     ELSE ParsePlainText(d.message, d.saw)
    IN  IF ~d.shape.success THEN Failed("status")
        ELSE IF ip = NoAddr THEN Failed("nothing")
        ELSE IF ~Accepts(call.version, ip) THEN Failed("version")
        ELSE Ok(ip)

(* The response comes on the request's own connection. *)
FetchReturns ==
    /\ phase = "response"
    /\ \E i \in DOMAIN sent :
         /\ sent[i].request = me
         /\ got' = [reply |-> i, cut |-> FALSE]
         /\ Returns(HttpResult(sent[i]))
    /\ UNCHANGED <<calls, peer, left>> /\ Quiet /\ Unparsed

CallStep ==
    \/ Begin \/ SystemFails \/ TimesOut
    \/ Lookup \/ Bind \/ Connect \/ Send \/ Recv \/ Parse \/ Conclude
    \/ Fetch \/ FetchReturns
-----------------------------------------------------------------------------
(* The network and the servers.  A parser's buffer is its own: what happens
   while it runs can as well happen before or after.                         *)
Elsewhere ==
    UNCHANGED <<scenario, calls, phase, peer, port, requests, got, outcome, stunVars, dnsVars>>

(* What is assumed of the datagrams the servers send: they come in octets, the
   fields of a header are numbers of its width, size is the size, and an attribute
   that claims more than there is does so.                                   *)
PublicAddresses(s) == {r[v6] : r \in s.routes, v6 \in BOOLEAN} \ {NoAddr}

SendsOctets(s) ==
    \A saw \in PublicAddresses(s) :
        \A k, n \in DOMAIN s.plan :
            /\ \A shape \in s.shapes.stun :
                  LET m == StunMessageOf(shape, StunId(k), saw)
                  IN  /\ m \in StunMsg
                      /\ "overlong" \in ToSet(shape.attributes) => Len(m.body) < 255
            /\ s.plan[n].provider.kind = "dns" =>
                  \A shape \in s.shapes.dns, type \in {A, Txt, Aaaa} :
                      DnsMessageOf(shape, k, Question(s.plan[n].provider.domain, type,
                                                      s.plan[n].provider.class), saw) \in DnsMsg

ASSUME DatagramsAssumption == \A i \in DOMAIN Settings : SendsOctets(Settings[i])

(* What is assumed of their ways of saying it, and of the addresses they see. *)
ASSUME ServersAssumption ==
    \A i \in DOMAIN Settings :
        /\ Settings[i].shapes.stun \subseteq {shape \in StunShape : SentBeside(shape)}
        /\ Settings[i].shapes.dns \subseteq DnsShape
        /\ Settings[i].shapes.http \subseteq HttpShape
        /\ \A r \in Settings[i].routes, v6 \in BOOLEAN : r[v6] \in AddressesOf(v6) \cup {NoAddr}
        /\ \A ip \in PublicAddresses(Settings[i]) : Legible(ip)

QuestionOf(r) == Question(r.provider.domain, r.type, r.provider.class)

MessageOf(k, shape, saw) ==
    CASE requests[k].provider.kind = "stun" -> StunMessageOf(shape, StunId(k), saw)
      [] requests[k].provider.kind = "dns"  -> DnsMessageOf(shape, k, QuestionOf(requests[k]), saw)
      [] requests[k].provider.kind = "http" -> shape.lines

(* A server answers a request, at any time and perhaps again: what it saw is the
   public address of the moment.                                             *)
Reply(k) ==
    /\ phase # "parse" /\ Len(sent) < setting.replies
    /\ route[requests[k].peer] # NoAddr
    /\ \E shape \in setting.shapes[requests[k].provider.kind] :
         LET saw == route[requests[k].peer]
         IN  sent' = Append(sent, [request |-> k, shape |-> shape, saw |-> saw,
                                   message |-> MessageOf(k, shape, saw)])
    /\ UNCHANGED <<left, inbox, route>> /\ Elsewhere

(* The network hands a datagram to the socket on its port.  Until connect the
   socket takes it from anyone, then only from the server it is connected to;
   a full queue drops it.                                                    *)
Deliver(i) ==
    LET r == requests[sent[i].request]
    IN  /\ phase \in {"connect", "send", "recv"}
        /\ r.port = port /\ r.peer = peer
        /\ phase # "connect" => r.provider = call.provider
        /\ Len(inbox) < MaxInbox
        /\ inbox' = Append(inbox, i)
        /\ UNCHANGED <<left, sent, route>> /\ Elsewhere

(* The host moves to another network. *)
Move ==
    /\ phase # "parse"
    /\ route' \in setting.routes \ {route}
    /\ UNCHANGED <<left, inbox, sent>> /\ Elsewhere

(* Time counts against recv and the HTTP client in a blocking call, against all
   that a future waits for in an asynchronous one.                           *)
Tick ==
    /\ Waiting /\ left > 0
    /\ call.blocking => phase \in {"recv", "fetch", "response"}
    /\ left' = left - 1
    /\ UNCHANGED <<inbox, sent, route>> /\ Elsewhere

Network ==
    \/ \E k \in DOMAIN requests : Reply(k)
    \/ \E i \in DOMAIN sent : Deliver(i)
    \/ Move

Init ==
    /\ scenario \in DOMAIN Settings
    /\ route \in setting.routes
    /\ calls = <<>> /\ phase = "idle" /\ peer = FALSE /\ port = 0
    /\ requests = <<>> /\ left = 0 /\ inbox = <<>> /\ sent = <<>>
    /\ got = Nothing /\ outcome = Idle
    /\ msg = NoMsg /\ offset = 0 /\ attributes = <<>> /\ decoding = "idle"
    /\ packet = NoPacket /\ rtype = A /\ parsing = "idle" /\ pos = 0 /\ todo = 0
    /\ text = NoText /\ results = <<>>

Next == CallStep \/ Tick \/ Network

Spec == Init /\ [][Next]_vars

(* The thread or the task runs, and the clock; nothing is assumed of the name
   lookup, the servers and the network.                                      *)
FairSpec ==
    /\ Spec
    /\ WF_vars(Bind \/ Connect \/ Send \/ Recv \/ Parse \/ Conclude \/ TimesOut)
    /\ WF_vars(Tick)
-----------------------------------------------------------------------------
(* Properties *)

TypeOK ==
    /\ phase \in {"idle", "lookup", "bind", "connect", "send", "recv", "parse",
                  "fetch", "response", "returned"}
    /\ peer \in BOOLEAN /\ left \in Nat
    /\ port \in IF phase \in {"connect", "send", "recv", "parse"} THEN Ports ELSE {0}
    /\ \A i \in DOMAIN inbox : inbox[i] \in DOMAIN sent
    /\ \A i \in DOMAIN sent : sent[i].request \in DOMAIN requests
    /\ msg \in StunMsg /\ packet \in DnsMsg
    /\ outcome.kind \in {"none", "ok", "failed"}

Replied == phase = "returned" /\ got.reply # 0
Received == sent[got.reply]

(* A provider answers with an address only if a server saw the host at it when
   it replied to this very request: late replies to earlier calls that reach a
   reused port, repeated datagrams and replies cut by the buffer never yield
   another address, nor does a MAPPED-ADDRESS that a middlebox rewrote.      *)
AnswerIsWhatServerSaw ==
    outcome.kind = "ok" =>
        \E i \in DOMAIN sent : sent[i].request = me /\ sent[i].saw = outcome.ip

(* A complete reply to the request that is the first to be received, and that
   holds an address of the wanted version, is understood, however the server
   chose to say it: padding, unknown attributes and records, several strings,
   names in full or by pointer.                                              *)
GoodReplyIsUsed ==
    Replied /\ ~got.cut /\ Received.request = me /\ Good(call.provider, Received.shape)
        /\ Accepts(call.version, Received.saw)
      => outcome = Ok(Received.saw)

(* The records that parse_response takes from a reply are those the server put
   into it, in order; of a reply cut by the buffer the first ones, whole.    *)
CutsLoseOnlyTheTail ==
    Replied /\ parsing = "parsed" =>
        LET says == DnsSays(Received.shape, rtype, Received.saw)
        IN  /\ Len(results) <= Len(says)
            /\ results = SubSeq(says, 1, Len(results))
            /\ ~got.cut => results = says

(* A provider's answer is of the version asked for, although the STUN provider
   never looks: it asks over that family, and the server sees no other.      *)
VersionHonoured == outcome.kind = "ok" => Accepts(call.version, outcome.ip)

(* README.md: "prefer IPv4, fall back to IPv6".  A call for any version gives up
   for lack of a route only if the provider could not be asked over IPv6.    *)
AnyFallsBack ==
    outcome.why = "unreachable" /\ call.version = "Any" /\ call.provider.v6
      => route[TRUE] = NoAddr

(* Whatever the network does, a call that has its server's address ends; one
   that waits in the system's name lookup may not, unless it is asynchronous. *)
CallEnds ==
    phase \in {"bind", "connect", "send", "recv", "parse", "fetch", "response"}
      ~> phase = "returned"
=============================================================================
