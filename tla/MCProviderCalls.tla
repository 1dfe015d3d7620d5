---------------------------- MODULE MCProviderCalls ----------------------------
(* Calls, servers and faults under which the provider calls are model-checked. *)
EXTENDS ProviderCalls, Bitwise, FiniteSetsExt

MCXorOctet(x, y) == x ^^ y
MCIsUtf8(t) == \A i \in DOMAIN t : t[i] < 128

(* Texts: a sign for the family, then the octets, none of which is a space. *)
MCSpell(ip) == <<IF ip.v6 THEN 58 ELSE 46>> \o ip.data
MCFromStr(t) ==
    IF Len(t) = 5 /\ t[1] = 46 THEN Addr(FALSE, SubSeq(t, 2, 5))
    ELSE IF Len(t) = 17 /\ t[1] = 58 THEN Addr(TRUE, SubSeq(t, 2, 17))
    ELSE NoAddr

V4a == Addr(FALSE, <<9, 8, 7, 6>>)
V4b == Addr(FALSE, <<1, 2, 3, 4>>)
V6a == Addr(TRUE, [i \in 1..16 |-> i])

Route(v4, v6) == [f \in BOOLEAN |-> IF f THEN v6 ELSE v4]

Stun(kinds, off) == [method |-> Response, attributes |-> kinds, off |-> off]

StunShapes ==
    {Stun(s, 0) : s \in {<<"xor">>, <<"mapped">>, <<"software", "xor">>,
                         <<"mangled", "xor", "software">>, <<"xor", "unknown">>,
                         <<>>, <<"unknown", "mapped">>, <<"overlong", "xor">>}}
    \cup {Stun(<<"xor">>, n) : n \in {-12, -5, -4, 2, 3, 4}}
    \cup {Stun(<<"xor", "software">>, n) : n \in {-2, -1}}
    \cup {[Stun(<<"xor">>, 0) EXCEPT !.method = m] : m \in {Request, ErrorResponse, 2}}

Dns(records, pointer) ==
    [records |-> records, pointer |-> pointer, rcode |-> 0, tc |-> FALSE]

Bad(records) ==
    {Dns(records, TRUE), [Dns(records, TRUE) EXCEPT !.rcode = 3],
     [Dns(records, TRUE) EXCEPT !.tc = TRUE]}

TxtShapes ==
    {Dns(s, TRUE) : s \in {<<"text">>, <<"binary", "subnet">>, <<"empty", "cname", "split">>,
                           <<"address", "text", "text">>, <<"subnet", "text">>}}
    \cup {Dns(<<"text">>, FALSE)}
    \cup Bad(<<"address">>) \cup Bad(<<"empty">>) \cup Bad(<<>>)

AddressShapes ==
    {Dns(s, TRUE) : s \in {<<"address">>, <<"cname", "address">>,
                           <<"short", "address", "address">>}}
    \cup {Dns(<<"address">>, FALSE)}
    \cup Bad(<<"short">>) \cup Bad(<<"text">>)

Http(success, lines) == [success |-> success, lines |-> lines]
Line(key, value) == [key |-> key, value |-> value]

TraceShapes ==
    {Http(TRUE, <<Line("other", "junk"), Line("ip", "saw"), Line("ip", "junk")>>),
     Http(TRUE, <<Line("other", "junk")>>),
     Http(FALSE, <<Line("ip", "saw")>>)}

PlainShapes ==
    {Http(TRUE, <<Line("", "saw")>>), Http(TRUE, <<Line("", "junk")>>),
     Http(TRUE, <<Line("other", "saw"), Line("", "junk")>>),
     Http(FALSE, <<Line("", "saw")>>)}

Call(p, v, t, b) == [provider |-> p, version |-> v, timeout |-> t, blocking |-> b]

Shapes(stun, dns, http) == [stun |-> stun, dns |-> dns, http |-> http]

BothFamilies == {<<FALSE, TRUE>>, <<TRUE, FALSE>>}
Lookups == BothFamilies \cup {<<TRUE>>, <<FALSE>>}

(* One call in fair weather: every way to say it, cut at every octet. *)
Plain(p, v, shapes) ==
    [plan |-> <<Call(p, v, 1, TRUE)>>, shapes |-> shapes, cuts |-> 0..90, replies |-> 1,
     lookups |-> BothFamilies, routes |-> {Route(V4a, V6a)}, faults |-> FALSE]

Uncut(s) == [s EXCEPT !.cuts = {}]

(* The longest labels build_query lets through, and the shortest it does not. *)
Custom(lengths) == DnsProvider(TRUE, In, Labels(lengths), TRUE)
Domains == {<<63, 1>>, <<64>>, <<200>>, <<3, 0, 3>>, <<63, 63, 63, 59>>, <<63, 63, 63, 60>>}

PlainSettings ==
    {Plain(StunProvider, v, Shapes(StunShapes, {}, {})) : v \in {"V6", "Any"}}
    \cup {Plain(CloudflareDns, "V4", Shapes({}, TxtShapes, {}))}
    \cup {Uncut(Plain(GoogleDns, "V6", Shapes({}, TxtShapes, {})))}
    \cup {Plain(OpenDns, "Any", Shapes({}, AddressShapes, {}))}
    \cup {Plain(DnsProvider(FALSE, In, Labels(<<3>>), TRUE), "V6",
                Shapes({}, AddressShapes, {}))}
    \cup {Uncut(Plain(Custom(d), "V4", Shapes({}, {Dns(<<"text">>, TRUE)}, {}))) :
              d \in Domains}

(* Two calls in foul weather: timeouts, late, lost and repeated datagrams, a
   port used again, a host that moves.                                       *)
Foul(plan, shapes) ==
    [plan |-> plan, shapes |-> shapes, cuts |-> {}, replies |-> 2, lookups |-> Lookups,
     routes |-> {Route(V4a, V6a), Route(V4b, NoAddr)}, faults |-> TRUE]

FewShapes == Shapes({Stun(<<"xor">>, 0)}, {Dns(<<"text">>, TRUE)}, PlainShapes)

FoulSettings ==
    {Foul(<<Call(StunProvider, v, 1, b), Call(StunProvider, "V4", 1, TRUE)>>, FewShapes) :
         v \in {"V4", "Any"}, b \in BOOLEAN}
    \cup {Foul(<<Call(p, "V6", 1, b), Call(CloudflareDns, "V6", 1, TRUE)>>, FewShapes) :
              p \in {StunProvider, CloudflareDns}, b \in BOOLEAN}
    \cup {Foul(<<Call(Aws, v, 1, b)>>, FewShapes) : v \in {"V4", "Any"}, b \in BOOLEAN}
    \cup {Foul(<<Call(CloudflareHttp, v, 1, b)>>, Shapes({}, {}, TraceShapes)) :
              v \in {"V4", "Any"}, b \in BOOLEAN}
    \cup {Foul(<<Call(StunProvider, "Any", 0, TRUE)>>, FewShapes)}

InSomeOrder(S) == FoldSet(LAMBDA x, seq : Append(seq, x), <<>>, S)

AllSettings == InSomeOrder(PlainSettings \cup FoulSettings)

(* A host that has only an IPv6 address, and providers that can be asked there. *)
V6OnlySeq == InSomeOrder(
    {[Plain(p, "Any", FewShapes) EXCEPT !.plan = <<Call(p, "Any", 1, TRUE)>>,
                                        !.routes = {Route(NoAddr, V6a)}, !.cuts = {}] :
        p \in {StunProvider, CloudflareDns, GoogleDns}})

MCSettings == AllSettings
V6OnlySettings == V6OnlySeq
=============================================================================
