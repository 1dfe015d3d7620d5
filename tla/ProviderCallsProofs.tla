------------------------ MODULE ProviderCallsProofs -------------------------
(* Theorems about the calls of the built-in providers, for every set of settings
   and whatever the network does: any plan of calls, any datagrams of octets,
   cut anywhere, lost, late, repeated and reordered.                         *)
EXTENDS ProviderCalls, DnsProofs

(* The body of a datagram that was cut holds what the buffer had room for. *)
LEMMA BodyCut ==
    ASSUME NEW body \in Seq(Octet), NEW k \in 0..Len(body)
    PROVE  SubSeq(body, 1, k) \in Seq(Octet) /\ Len(SubSeq(body, 1, k)) = k
<1>1. Len(body) \in Nat /\ k \in Int /\ \A i \in 1..k : body[i] \in Octet
  BY LenProperties
<1>2. /\ SubSeq(body, 1, k) \in Seq(Octet)
      /\ Len(SubSeq(body, 1, k)) = IF 1 <= k THEN k - 1 + 1 ELSE 0
  BY <1>1, SubSeqProperties
<1>3. QED
  BY <1>1, <1>2

(* A message that was cut is one still, ... *)
LEMMA StunCut ==
    ASSUME NEW m \in StunMsg, NEW n \in 0..m.size
    PROVE  Cut(m, HEADER, n) \in StunMsg
<1>1. CASE n >= m.size
  BY <1>1 DEF Cut
<1>2. CASE n < m.size
  <2> DEFINE k == IF n > HEADER THEN n - HEADER ELSE 0
             b == SubSeq(m.body, 1, k)
  <2>0. /\ m.size \in Nat /\ m.body \in Seq(Octet)
        /\ m.size >= HEADER => Len(m.body) = m.size - HEADER
        /\ n \in Nat /\ HEADER = 20
    BY StunMsgFields DEF HEADER
  <2>1. b \in Seq(Octet) /\ (n >= HEADER => Len(b) = n - HEADER)
    <3>1. CASE n >= HEADER
      <4>1. Len(m.body) = m.size - HEADER /\ k = n - HEADER /\ k \in 0..Len(m.body)
        BY <1>2, <2>0, <3>1
      <4> HIDE DEF k
      <4>2. QED
        BY <2>0, <4>1, BodyCut
    <3>2. CASE n < HEADER
      <4>1. k = 0 /\ k \in 0..Len(m.body)
        BY <2>0, <3>2, LenProperties
      <4> HIDE DEF k
      <4>2. QED
        BY <2>0, <3>2, <4>1, BodyCut
    <3>3. QED
      BY <2>0, <3>1, <3>2
  <2>2. Cut(m, HEADER, n) = [m EXCEPT !.size = n, !.body = b]
    BY <1>2, <2>0 DEF Cut
  <2> HIDE DEF b
  <2>3. QED
    BY <2>0, <2>1, <2>2 DEF StunMsg
<1>3. QED
  BY <1>1, <1>2, StunMsgFields

(* ... and so is a response. *)
LEMMA DnsCut ==
    ASSUME NEW p \in DnsMsg, NEW n \in 0..p.size
    PROVE  Cut(p, HEADER_LEN, n) \in DnsMsg
<1>1. CASE n >= p.size
  BY <1>1 DEF Cut
<1>2. CASE n < p.size
  <2> DEFINE k == IF n > HEADER_LEN THEN n - HEADER_LEN ELSE 0
             b == SubSeq(p.body, 1, k)
  <2>0. /\ p.size \in Nat /\ p.body \in Seq(Octet)
        /\ p.size >= HEADER_LEN => Len(p.body) = p.size - HEADER_LEN
        /\ n \in Nat /\ HEADER_LEN = 12
    BY DnsMsgFields DEF HEADER_LEN
  <2>1. b \in Seq(Octet) /\ (n >= HEADER_LEN => Len(b) = n - HEADER_LEN)
    <3>1. CASE n >= HEADER_LEN
      <4>1. Len(p.body) = p.size - HEADER_LEN /\ k = n - HEADER_LEN /\ k \in 0..Len(p.body)
        BY <1>2, <2>0, <3>1
      <4> HIDE DEF k
      <4>2. QED
        BY <2>0, <4>1, BodyCut
    <3>2. CASE n < HEADER_LEN
      <4>1. k = 0 /\ k \in 0..Len(p.body)
        BY <2>0, <3>2, LenProperties
      <4> HIDE DEF k
      <4>2. QED
        BY <2>0, <3>2, <4>1, BodyCut
    <3>3. QED
      BY <2>0, <3>1, <3>2
  <2>2. Cut(p, HEADER_LEN, n) = [p EXCEPT !.size = n, !.body = b]
    BY <1>2, <2>0 DEF Cut
  <2> HIDE DEF b
  <2>3. QED
    BY <2>0, <2>1, <2>2 DEF DnsMsg
<1>3. QED
  BY <1>1, <1>2, DnsMsgFields

-----------------------------------------------------------------------------
(* The calls. *)

(* The calls made are the first of the plan, ... *)
Made ==
    /\ scenario \in DOMAIN Settings /\ route \in setting.routes
    /\ calls \in Seq(PlannedCall) /\ Len(calls) <= Len(setting.plan)
    /\ \A n \in DOMAIN calls : calls[n] = setting.plan[n]
    /\ phase # "idle" => calls # <<>>

(* ... each has sent one request at most, and none while it prepares to, ... *)
Asking == {"lookup", "bind", "connect", "send", "fetch"}
RequestType ==
    [provider : {setting.plan[n].provider : n \in DOMAIN setting.plan},
     version : {"V4", "V6", "Any"}, type : {A, Txt, Aaaa}, port : Ports \cup {0},
     peer : BOOLEAN]

Asked ==
    /\ requests \in Seq(RequestType)
    /\ Len(requests) <= Len(calls)
    /\ phase \in Asking => Len(requests) < Len(calls)

(* ... and what the servers sent, and the socket queued, answers a request in
   the protocol of its provider.                                             *)
Carried ==
    /\ sent \in Seq(ValuesOf(sent)) /\ inbox \in Seq(DOMAIN sent)
    /\ \A i \in DOMAIN sent :
          /\ sent[i].request \in DOMAIN requests
          /\ LET kind == requests[sent[i].request].provider.kind
             IN  /\ kind = "stun" => sent[i].message \in StunMsg
                 /\ kind = "dns" => sent[i].message \in DnsMsg

(* The invariant that keeps the types, and the codecs within their datagrams. *)
IInv == TypeOK /\ Made /\ Asked /\ Carried /\ Decoding /\ Reading
-----------------------------------------------------------------------------

(* The setting of a behaviour never changes. *)
LEMMA SettingConstant ==
    ASSUME [Next]_vars
    PROVE  scenario' = scenario /\ setting' = setting /\ RequestType' = RequestType
<1>1. scenario' = scenario
  BY DEF Next, CallStep, Network, Begin, SystemFails, TimesOut, Lookup, Bind, Connect, Send,
     Recv, Parse, Conclude, Fetch, FetchReturns, Reply, Deliver, Move, Tick, Quiet, Elsewhere,
     vars, callVars
<1>2. setting' = setting
  BY <1>1 DEF setting
<1>3. QED
  BY <1>1, <1>2 DEF RequestType

(* The plan and, of it, the current call. *)
LEMMA PlanTyped ==
    ASSUME Made
    PROVE  /\ setting.plan \in Seq(PlannedCall) /\ Len(setting.plan) \in Nat
           /\ DOMAIN setting.plan = 1..Len(setting.plan)
           /\ Len(calls) \in Nat /\ Len(calls) <= Len(setting.plan)
           /\ DOMAIN calls = 1..Len(calls)
           /\ \A n \in DOMAIN setting.plan : setting.plan[n] \in PlannedCall
<1>1. setting.plan \in Seq(PlannedCall)
  BY SettingsAssumption DEF Made, setting
<1>2. calls \in Seq(PlannedCall) /\ Len(calls) <= Len(setting.plan)
  BY DEF Made
<1>3. \A n \in DOMAIN setting.plan : setting.plan[n] \in PlannedCall
  BY <1>1, LenProperties, ElementOfSeq
<1>4. QED
  BY <1>1, <1>2, <1>3, LenProperties

(* The current call is one of the plan. *)
LEMMA CallTyped ==
    ASSUME Made, phase # "idle"
    PROVE  /\ call \in PlannedCall /\ Len(calls) \in DOMAIN setting.plan
           /\ call = setting.plan[Len(calls)]
<1>1. calls \in Seq(PlannedCall) /\ calls # <<>> /\ \A n \in DOMAIN calls : calls[n] = setting.plan[n]
  BY DEF Made
<1>2. Len(calls) \in DOMAIN calls /\ Len(calls) \in DOMAIN setting.plan
  BY <1>1, PlanTyped, EmptySeq
<1>3. QED
  BY <1>1, <1>2, PlanTyped DEF call

(* Every step that is not the first of a call leaves the calls as they are. *)
LEMMA MadeNext == IInv /\ [Next]_vars => Made'
<1> SUFFICES ASSUME IInv, [Next]_vars PROVE Made'
  OBVIOUS
<1>1. Made
  BY DEF IInv
<1>2. scenario' = scenario /\ setting' = setting
  BY SettingConstant
<1>3. route' \in setting.routes
  BY <1>1 DEF Made, Next, CallStep, Network, Begin, SystemFails, TimesOut, Lookup, Bind, Connect,
     Send, Recv, Parse, Conclude, Fetch, FetchReturns, Reply, Deliver, Move, Tick, Quiet,
     Elsewhere, vars, callVars
<1>4. CASE Begin
  <2> DEFINE c == setting.plan[Len(calls) + 1]
  <2>1. calls' = Append(calls, c) /\ Len(calls) < Len(setting.plan)
    BY <1>4 DEF Begin
  <2>2. Len(calls) + 1 \in DOMAIN setting.plan /\ c \in PlannedCall
    BY <1>1, <2>1, PlanTyped
  <2> HIDE DEF c
  <2>3. /\ calls' \in Seq(PlannedCall) /\ calls' # <<>> /\ Len(calls') = Len(calls) + 1
        /\ DOMAIN calls' = DOMAIN calls \cup {Len(calls) + 1}
        /\ \A n \in DOMAIN calls : calls'[n] = calls[n]
        /\ calls'[Len(calls) + 1] = c
    BY <1>1, <2>1, <2>2, Appended, AppendProperties DEF Made
  <2>4. Len(calls') <= Len(setting.plan)
    BY <1>1, <2>1, <2>3, PlanTyped
  <2>5. \A n \in DOMAIN calls' : calls'[n] = setting.plan[n]
    BY <1>1, <2>3 DEF Made, c
  <2>6. QED
    BY <1>1, <1>2, <1>3, <2>3, <2>4, <2>5 DEF Made
<1>5. CASE ~Begin
  <2>1. calls' = calls
    BY <1>5 DEF Next, CallStep, Network, SystemFails, TimesOut, Lookup, Bind, Connect,
       Send, Recv, Parse, Conclude, Fetch, FetchReturns, Reply, Deliver, Move, Tick, Quiet,
       Elsewhere, vars, callVars
  <2>2. phase' # "idle" => phase # "idle"
    BY <1>5 DEF Next, CallStep, Network, SystemFails, TimesOut, Waiting, Lookup, Bind, Connect,
       Send, Recv, Parse, Conclude, Fetch, FetchReturns, Reply, Deliver, Move, Tick, Quiet,
       Elsewhere, vars, callVars
  <2>3. QED
    BY <1>1, <1>2, <1>3, <2>1, <2>2 DEF Made
<1>6. QED
  BY <1>4, <1>5

(* A request of the current call. *)
LEMMA RequestTyped ==
    ASSUME Made, phase # "idle", NEW type \in {A, Txt, Aaaa}, NEW q \in Ports \cup {0},
           NEW v6 \in BOOLEAN
    PROVE  [provider |-> call.provider, version |-> call.version, type |-> type,
            port |-> q, peer |-> v6] \in RequestType
<1>1. call.provider \in {setting.plan[n].provider : n \in DOMAIN setting.plan}
  BY CallTyped
<1>2. call.version \in {"V4", "V6", "Any"}
  BY CallTyped DEF PlannedCall
<1>3. QED
  BY <1>1, <1>2 DEF RequestType

(* A call sends its request once: the step that sends it leaves Asking. *)
LEMMA AskedNext == IInv /\ [Next]_vars => Asked'
<1> SUFFICES ASSUME IInv, [Next]_vars PROVE Asked'
  OBVIOUS
<1>1. /\ Made /\ Asked /\ TypeOK /\ requests \in Seq(RequestType)
      /\ Len(requests) \in Nat /\ Len(requests) <= Len(calls)
      /\ Len(calls) \in Nat
  BY PlanTyped, LenProperties DEF IInv, Asked
<1>2. RequestType' = RequestType
  BY SettingConstant
<1>3. ASSUME NEW r \in RequestType, requests' = Append(requests, r), calls' = calls,
             phase \in Asking, phase' \notin Asking
      PROVE  Asked'
  <2>1. requests' \in Seq(RequestType) /\ Len(requests') = Len(requests) + 1
    BY <1>1, <1>3, AppendProperties
  <2>2. Len(requests) < Len(calls)
    BY <1>1, <1>3 DEF Asked
  <2>3. Len(requests') <= Len(calls')
    BY <1>1, <1>3, <2>1, <2>2
  <2>4. QED
    BY <1>2, <1>3, <2>1, <2>3 DEF Asked
<1>4. ASSUME requests' = requests, calls' = calls, phase' \in Asking => phase \in Asking
      PROVE  Asked'
  BY <1>1, <1>2, <1>4 DEF Asked
<1>5. CASE Begin
  <2> DEFINE c == setting.plan[Len(calls) + 1]
  <2>1. calls' = Append(calls, c) /\ Len(calls) < Len(setting.plan) /\ requests' = requests
    BY <1>5 DEF Begin, Quiet
  <2>2. c \in PlannedCall
    BY <1>1, <2>1, PlanTyped
  <2> HIDE DEF c
  <2>3. Len(calls') = Len(calls) + 1
    BY <1>1, <2>1, <2>2, AppendProperties DEF Made
  <2>4. Len(requests') < Len(calls') /\ Len(requests') <= Len(calls')
    BY <1>1, <2>1, <2>3
  <2>5. QED
    BY <1>1, <1>2, <2>1, <2>4 DEF Asked
<1>6. CASE Send
  <2>1. RecordType \in {A, Txt, Aaaa}
    BY DEF RecordType
  <2>2. phase = "send" /\ port \in Ports /\ peer \in BOOLEAN
    BY <1>1, <1>6 DEF Send, TypeOK
  <2> DEFINE r == [provider |-> call.provider, version |-> call.version, type |-> RecordType,
                   port |-> port, peer |-> peer]
  <2>3. r \in RequestType
    BY <1>1, <2>1, <2>2, RequestTyped
  <2>4. requests' = Append(requests, r) /\ calls' = calls /\ phase' = "recv"
    BY <1>6 DEF Send
  <2> HIDE DEF r
  <2>5. QED
    BY <1>3, <2>2, <2>3, <2>4 DEF Asking
<1>7. CASE Fetch
  <2>1. phase = "fetch" /\ peer' \in BOOLEAN
    BY <1>7 DEF Fetch
  <2> DEFINE r == [provider |-> call.provider, version |-> call.version, type |-> A,
                   port |-> 0, peer |-> peer']
  <2>2. r \in RequestType
    BY <1>1, <2>1, RequestTyped
  <2>3. requests' = Append(requests, r) /\ calls' = calls /\ phase' = "response"
    BY <1>7 DEF Fetch
  <2> HIDE DEF r
  <2>4. QED
    BY <1>3, <2>1, <2>2, <2>3 DEF Asking
<1>8. CASE ~Begin /\ ~Send /\ ~Fetch
  <2>1. requests' = requests /\ calls' = calls
    BY <1>8 DEF Next, CallStep, Network, SystemFails, TimesOut, Lookup, Bind, Connect,
       Recv, Parse, Conclude, FetchReturns, Reply, Deliver, Move, Tick, Quiet,
       Elsewhere, vars, callVars
  <2>2. phase' \in Asking => phase \in Asking
    BY <1>8 DEF Next, CallStep, Network, SystemFails, TimesOut, Lookup, Bind, Connect,
       Recv, Parse, Conclude, FetchReturns, Reply, Deliver, Move, Tick, Returns, Asking,
       Elsewhere, vars, callVars
  <2>3. QED
    BY <1>4, <2>1, <2>2
<1>9. QED
  BY <1>5, <1>6, <1>7, <1>8

(* No request is ever changed or forgotten. *)
LEMMA RequestsKept ==
    ASSUME IInv, [Next]_vars
    PROVE  \A k \in DOMAIN requests : k \in DOMAIN requests' /\ requests'[k] = requests[k]
<1>1. requests \in Seq(RequestType) /\ Made /\ Asked
  BY DEF IInv, Asked
<1>2. \/ requests' = requests
      \/ \E r : requests' = Append(requests, r)
  BY DEF Next, CallStep, Network, Begin, SystemFails, TimesOut, Lookup, Bind, Connect,
     Send, Recv, Parse, Conclude, Fetch, FetchReturns, Reply, Deliver, Move, Tick, Quiet,
     Elsewhere, vars, callVars
<1>3. ASSUME NEW r, requests' = Append(requests, r)
      PROVE  \A k \in DOMAIN requests : k \in DOMAIN requests' /\ requests'[k] = requests[k]
  <2> DEFINE S == RequestType \cup {r}
  <2>1. requests \in Seq(S) /\ r \in S
    BY <1>1, SeqMonotonic
  <2> HIDE DEF S
  <2>2. QED
    BY <1>3, <2>1, Appended
<1>4. QED
  BY <1>2, <1>3

(* A datagram that a server sends has the form that its protocol gives it. *)
LEMMA MessageTyped ==
    ASSUME Made, Asked, NEW k \in DOMAIN requests,
           NEW shape \in setting.shapes[requests[k].provider.kind],
           route[requests[k].peer] # NoAddr
    PROVE  LET message == MessageOf(k, shape, route[requests[k].peer])
               kind == requests[k].provider.kind
           IN  /\ kind = "stun" => message \in StunMsg
               /\ kind = "dns" => message \in DnsMsg
<1> DEFINE r == requests[k]
           saw == route[r.peer]
<1>1. r \in RequestType /\ k \in DOMAIN setting.plan
  <2>1. /\ requests \in Seq(RequestType) /\ Len(requests) <= Len(calls)
        /\ DOMAIN requests = 1..Len(requests) /\ Len(requests) \in Nat
        /\ k \in 1..Len(requests)
    BY LenProperties DEF Asked
  <2>2. k \in 1..Len(setting.plan)
    BY <2>1, PlanTyped
  <2>3. QED
    BY <2>1, <2>2, ElementOfSeq, PlanTyped
<1>2. r.peer \in BOOLEAN /\ r.type \in {A, Txt, Aaaa}
      /\ \E n \in DOMAIN setting.plan : r.provider = setting.plan[n].provider
  BY <1>1 DEF RequestType
<1>3. saw \in PublicAddresses(setting)
  BY <1>2 DEF Made, PublicAddresses
<1>4. PICK n \in DOMAIN setting.plan : r.provider = setting.plan[n].provider
  BY <1>2
<1>5. scenario \in DOMAIN Settings
  BY DEF Made
<1> HIDE DEF r, saw
<1>6. SendsOctets(setting)
  BY <1>5, DatagramsAssumption DEF setting
<1>7. \A w \in PublicAddresses(setting) : \A i, j \in DOMAIN setting.plan :
          /\ \A s \in setting.shapes.stun : StunMessageOf(s, StunId(i), w) \in StunMsg
          /\ setting.plan[j].provider.kind = "dns" =>
                \A s \in setting.shapes.dns, type \in {A, Txt, Aaaa} :
                    DnsMessageOf(s, i, Question(setting.plan[j].provider.domain, type,
                                                setting.plan[j].provider.class), w) \in DnsMsg
  BY <1>6 DEF SendsOctets
<1>8. ASSUME r.provider.kind = "stun", shape \in setting.shapes.stun
      PROVE  MessageOf(k, shape, saw) \in StunMsg
  <2>1. MessageOf(k, shape, saw) = StunMessageOf(shape, StunId(k), saw)
    BY <1>8 DEF MessageOf, r
  <2>2. QED
    BY <1>1, <1>3, <1>7, <1>8, <2>1
<1>9. ASSUME r.provider.kind = "dns", shape \in setting.shapes.dns
       PROVE  MessageOf(k, shape, saw) \in DnsMsg
  <2>1. MessageOf(k, shape, saw) =
            DnsMessageOf(shape, k, Question(r.provider.domain, r.type, r.provider.class), saw)
    BY <1>9 DEF MessageOf, QuestionOf, r
  <2>2. QED
    BY <1>1, <1>2, <1>3, <1>4, <1>7, <1>9, <2>1
<1>10. QED
  BY <1>8, <1>9 DEF r, saw

(* The network delivers what was sent, and servers answer what was asked. *)
LEMMA CarriedNext == IInv /\ [Next]_vars => Carried'
<1> SUFFICES ASSUME IInv, [Next]_vars PROVE Carried'
  OBVIOUS
<1>1. /\ Carried /\ Made /\ Asked
      /\ \A k \in DOMAIN requests : k \in DOMAIN requests' /\ requests'[k] = requests[k]
  BY RequestsKept DEF IInv
<1>2. ASSUME sent' = sent, inbox' \in Seq(DOMAIN sent)
      PROVE  Carried'
  BY <1>1, <1>2 DEF Carried, ValuesOf
<1>3. <<>> \in Seq(DOMAIN sent) /\ inbox \in Seq(DOMAIN sent)
  BY <1>1 DEF Carried
<1>4. ASSUME NEW k \in DOMAIN requests, Reply(k)
      PROVE  Carried'
  <2>1. route[requests[k].peer] # NoAddr /\ inbox' = inbox
    BY <1>4 DEF Reply
  <2>2. PICK shape \in setting.shapes[requests[k].provider.kind] :
            sent' = Append(sent, [request |-> k, shape |-> shape,
                                  saw |-> route[requests[k].peer],
                                  message |-> MessageOf(k, shape, route[requests[k].peer])])
    BY <1>4 DEF Reply
  <2> DEFINE kind == requests[k].provider.kind
             d == [request |-> k, shape |-> shape, saw |-> route[requests[k].peer],
                   message |-> MessageOf(k, shape, route[requests[k].peer])]
  <2>3. (kind = "stun" => d.message \in StunMsg) /\ (kind = "dns" => d.message \in DnsMsg)
    BY <1>1, <2>1, MessageTyped
  <2>4. d.request = k
    OBVIOUS
  <2> HIDE DEF d
  <2>5. /\ sent' \in Seq(ValuesOf(sent')) /\ DOMAIN sent' = DOMAIN sent \cup {Len(sent) + 1}
        /\ \A i \in DOMAIN sent : sent'[i] = sent[i]
        /\ sent'[Len(sent) + 1] = d
    BY <1>1, <2>2, AppendedValue DEF Carried, d
  <2>6. inbox' \in Seq(DOMAIN sent')
    BY <1>3, <2>1, <2>5, SeqMonotonic
  <2>7. ASSUME NEW i \in DOMAIN sent'
        PROVE  /\ sent'[i].request \in DOMAIN requests'
               /\ LET how == requests'[sent'[i].request].provider.kind
                  IN  /\ how = "stun" => sent'[i].message \in StunMsg
                      /\ how = "dns" => sent'[i].message \in DnsMsg
    <3>1. CASE i \in DOMAIN sent
      BY <1>1, <2>5, <3>1 DEF Carried
    <3>2. CASE i = Len(sent) + 1
      BY <1>1, <2>3, <2>4, <2>5, <3>2
    <3>3. QED
      BY <2>5, <3>1, <3>2
  <2>8. QED
    BY <2>5, <2>6, <2>7 DEF Carried, ValuesOf
<1>5. ASSUME NEW i \in DOMAIN sent, Deliver(i)
      PROVE  Carried'
  <2>1. sent' = sent /\ inbox' = Append(inbox, i)
    BY <1>5 DEF Deliver
  <2>2. QED
    BY <1>2, <1>3, <2>1, AppendProperties
<1>6. CASE Recv
  <2>1. sent' = sent /\ inbox # <<>> /\ inbox' = Tail(inbox)
    BY <1>6 DEF Recv, Quiet
  <2>2. QED
    BY <1>2, <1>3, <2>1, HeadTailProperties
<1>7. CASE ~(\E k \in DOMAIN requests : Reply(k)) /\ ~(\E i \in DOMAIN sent : Deliver(i)) /\ ~Recv
  <2>1. sent' = sent /\ (inbox' = inbox \/ inbox' = <<>>)
    BY <1>7 DEF Next, CallStep, Network, Begin, SystemFails, TimesOut, Lookup, Bind, Connect,
       Send, Parse, Conclude, Fetch, FetchReturns, Returns, Move, Tick, Quiet,
       Elsewhere, vars, callVars
  <2>2. QED
    BY <1>2, <1>3, <2>1
<1>8. QED
  BY <1>4, <1>5, <1>6, <1>7

(* The message of a reply that is in the inbox, as the current call reads it. *)
LEMMA ReceivedTyped ==
    ASSUME Carried, inbox # <<>>
    PROVE  /\ As("stun", sent[Head(inbox)], NoMsg) \in StunMsg
           /\ As("dns", sent[Head(inbox)], NoPacket) \in DnsMsg
<1>1. Head(inbox) \in DOMAIN sent
  BY HeadTailProperties DEF Carried
<1>2. QED
  BY <1>1, NoMsgTyped, NoPacketTyped DEF Carried, As

(* Both codecs start from what was received, or from nothing. *)
LEMMA CodecsNext == IInv /\ [Next]_vars => Decoding' /\ Reading'
<1> SUFFICES ASSUME IInv, [Next]_vars PROVE Decoding' /\ Reading'
  OBVIOUS
<1>1. Carried /\ Decoding /\ Reading
  BY DEF IInv
<1>2. UNCHANGED stunVars => Decoding'
  BY <1>1 DEF stunVars, Decoding, HeaderIsValid, End
<1>3. UNCHANGED dnsVars => Reading'
  BY <1>1 DEF dnsVars, Reading
<1>4. CASE Begin
  <2>1. msg' = NoMsg /\ decoding' = "idle" /\ packet' = NoPacket /\ parsing' = "idle"
    BY <1>4 DEF Begin
  <2>2. QED
    BY <2>1, NoMsgTyped, NoPacketTyped DEF Decoding, Reading
<1>5. CASE Recv
  <2> DEFINE d == sent[Head(inbox)]
             stun == call.provider.kind = "stun"
             m == IF stun THEN As("stun", d, NoMsg) ELSE As("dns", d, NoPacket)
  <2>1. inbox # <<>>
    BY <1>5 DEF Recv
  <2>2. (stun => m \in StunMsg) /\ (~stun => m \in DnsMsg)
    BY <1>1, <2>1, ReceivedTyped
  <2>3. PICK n \in (setting.cuts \cap 0..m.size) \cup {m.size} :
            IF stun THEN DecodeHeader(Cut(m, HEADER, n)) /\ UNCHANGED dnsVars
                    ELSE /\ ParseHeader(Cut(m, HEADER_LEN, n), me, RecordType)
                         /\ UNCHANGED stunVars
    BY <1>5 DEF Recv
  <2> HIDE DEF m, d
  <2>4. n \in 0..m.size
    <3>1. m.size \in Nat
      BY <2>2, StunMsgFields, DnsMsgFields
    <3>2. QED
      BY <3>1
  <2>5. CASE stun
    <3>1. Cut(m, HEADER, n) \in StunMsg
      BY <2>2, <2>4, <2>5, StunCut
    <3>2. QED
      BY <1>3, <2>3, <2>5, <3>1, DecodingBegins
  <2>6. CASE ~stun
    <3>1. Cut(m, HEADER_LEN, n) \in DnsMsg
      BY <2>2, <2>4, <2>6, DnsCut
    <3>2. QED
      BY <1>2, <2>3, <2>6, <3>1, ReadingBegins
  <2>7. QED
    BY <2>5, <2>6
<1>6. CASE Parse
  <2>1. (StunStep /\ UNCHANGED dnsVars) \/ (DnsStep /\ UNCHANGED stunVars)
    BY <1>6 DEF Parse
  <2>2. QED
    BY <1>1, <1>2, <1>3, <2>1, DecodingGoesOn, ReadingGoesOn
<1>7. CASE ~Begin /\ ~Recv /\ ~Parse
  <2>1. UNCHANGED stunVars /\ UNCHANGED dnsVars
    BY <1>7 DEF Next, CallStep, Network, SystemFails, TimesOut, Lookup, Bind, Connect,
       Send, Conclude, Fetch, FetchReturns, Reply, Deliver, Move, Tick, Unparsed,
       Elsewhere, vars
  <2>2. QED
    BY <1>2, <1>3, <2>1
<1>8. QED
  BY <1>4, <1>5, <1>6, <1>7

(* A call has a socket from bind until it returns. *)
Socketed == {"connect", "send", "recv", "parse"}

(* The phases of a call. *)
Phases == {"idle", "lookup", "bind", "connect", "send", "recv", "parse",
           "fetch", "response", "returned"}

(* No step leaves the types. *)
LEMMA TypeNext == IInv /\ [Next]_vars => TypeOK'
<1> SUFFICES ASSUME IInv, [Next]_vars PROVE TypeOK'
  OBVIOUS
<1>1. /\ Made /\ Made' /\ Asked /\ TypeOK /\ Carried' /\ Decoding' /\ Reading'
      /\ Socketed \subseteq Phases
  BY MadeNext, CarriedNext, CodecsNext DEF IInv, Socketed, Phases
<1>2. /\ msg' \in StunMsg /\ packet' \in DnsMsg
      /\ \A i \in DOMAIN sent' : sent'[i].request \in DOMAIN requests'
  BY <1>1 DEF Carried, Decoding, Reading
<1>3. \A i \in DOMAIN inbox' : inbox'[i] \in DOMAIN sent'
  <2>1. inbox' \in Seq(DOMAIN sent')
    BY <1>1 DEF Carried
  <2>2. QED
    BY <2>1, LenProperties, ElementOfSeq
<1>4. /\ phase \in Phases /\ peer \in BOOLEAN /\ left \in Nat
      /\ port \in IF phase \in Socketed THEN Ports ELSE {0}
      /\ outcome.kind \in {"none", "ok", "failed"}
  BY <1>1 DEF TypeOK, Phases, Socketed
<1>5. left' \in Nat
  <2>1. CASE Begin
    <3>1. /\ left' = setting.plan[Len(calls) + 1].timeout
          /\ Len(calls) + 1 \in DOMAIN setting.plan
      BY <1>1, <2>1, PlanTyped DEF Begin
    <3>2. setting.plan[Len(calls) + 1] \in PlannedCall
      BY <1>1, <3>1, PlanTyped
    <3>3. QED
      BY <3>1, <3>2 DEF PlannedCall
  <2>2. CASE Send
    <3>1. call \in PlannedCall
      BY <1>1, <2>2, CallTyped DEF Send
    <3>2. call.timeout \in Nat
      BY <3>1 DEF PlannedCall
    <3>3. QED
      BY <1>4, <2>2, <3>2 DEF Send
  <2>3. CASE Tick
    BY <1>4, <2>3 DEF Tick
  <2>4. CASE ~Begin /\ ~Send /\ ~Tick
    <3>1. left' = left
      BY <2>4 DEF Next, CallStep, Network, SystemFails, TimesOut, Lookup, Bind, Connect,
         Recv, Parse, Conclude, Fetch, FetchReturns, Reply, Deliver, Move, Quiet,
         vars, callVars
    <3>2. QED
      BY <1>4, <3>1
  <2>5. QED
    BY <2>1, <2>2, <2>3, <2>4
<1>6. peer' \in BOOLEAN
  <2>1. CASE Lookup
    <3>1. ASSUME NEW addrs \in setting.lookups, peer' \in SelectAddr(addrs) PROVE peer' \in BOOLEAN
      <4>1. addrs \in Seq(BOOLEAN)
        BY <1>1, SettingsAssumption DEF Made, setting
      <4>2. {addrs[i] : i \in DOMAIN addrs} \subseteq BOOLEAN
        BY <4>1, LenProperties, ElementOfSeq
      <4>3. QED
        BY <3>1, <4>2 DEF SelectAddr
    <3>2. QED
      BY <1>4, <2>1, <3>1 DEF Lookup
  <2>2. CASE Bind
    <3>1. call \in PlannedCall
      BY <1>1, <2>2, CallTyped DEF Bind
    <3>2. call.provider.v6 \in BOOLEAN
      BY <3>1 DEF PlannedCall
    <3>3. SelectResolver \in BOOLEAN
      BY <3>2 DEF SelectResolver
    <3>4. QED
      BY <1>4, <2>2, <3>3 DEF Bind
  <2>3. CASE Fetch
    BY <1>4, <2>3 DEF Fetch
  <2>4. CASE ~Lookup /\ ~Bind /\ ~Fetch
    <3>1. peer' = peer \/ peer' = FALSE
      BY <2>4 DEF Next, CallStep, Network, Begin, SystemFails, TimesOut, Connect, Send,
         Recv, Parse, Conclude, FetchReturns, Reply, Deliver, Move, Tick, Quiet, Elsewhere,
         vars, callVars
    <3>2. QED
      BY <1>4, <3>1
  <2>5. QED
    BY <2>1, <2>2, <2>3, <2>4
<1>7. outcome'.kind \in {"none", "ok", "failed"}
  <2>1. \A why : Failed(why).kind = "failed"
    BY DEF Failed
  <2>2. \A ip : Ok(ip).kind = "ok"
    BY DEF Ok
  <2>3. Idle.kind = "none"
    BY DEF Idle
  <2>4. /\ ProcessResponse.kind \in {"ok", "failed"} /\ ExtractResult.kind \in {"ok", "failed"}
        /\ \A d : HttpResult(d).kind \in {"ok", "failed"}
    <3>1. ProcessResponse.kind \in {"ok", "failed"}
      BY <2>1, <2>2, Zenon DEF ProcessResponse
    <3>2. ExtractResult.kind \in {"ok", "failed"}
      BY <2>1, <2>2, Zenon DEF ExtractResult
    <3>3. ASSUME NEW d PROVE HttpResult(d).kind \in {"ok", "failed"}
      BY <2>1, <2>2 DEF HttpResult
    <3>4. QED
      BY <3>1, <3>2, <3>3
  <2>5. CASE Conclude
    BY <2>4, <2>5 DEF Conclude, Returns
  <2>6. CASE FetchReturns
    BY <2>4, <2>6 DEF FetchReturns, Returns
  <2>7. CASE ~Conclude /\ ~FetchReturns
    <3>1. outcome' = outcome \/ outcome' = Idle \/ \E why : outcome' = Failed(why)
      BY <2>7 DEF Next, CallStep, Network, Begin, SystemFails, TimesOut, Lookup, Bind, Connect,
         Send, Recv, Parse, Fetch, Reply, Deliver, Move, Tick, Returns, Elsewhere,
         vars, callVars
    <3>2. QED
      BY <1>4, <2>1, <2>3, <3>1
  <2>8. QED
    BY <2>5, <2>6, <2>7
<1>8. phase' \in Phases /\ port' \in IF phase' \in Socketed THEN Ports ELSE {0}
  <2>1. ASSUME NEW result, Returns(result)
        PROVE  phase' \in Phases /\ port' \in IF phase' \in Socketed THEN Ports ELSE {0}
    BY <2>1 DEF Returns, Phases, Socketed
  <2>2. ASSUME phase' = phase, port' = port
        PROVE  phase' \in Phases /\ port' \in IF phase' \in Socketed THEN Ports ELSE {0}
    BY <1>4, <2>2
  <2>3. CASE Begin
    <3>1. \/ Returns(Failed("timeout")) \/ Returns(Failed("domain"))
          \/ phase' \in {"bind", "lookup", "fetch"} /\ port' = port
      BY <2>3 DEF Begin
    <3>2. phase \in {"idle", "returned"}
      BY <2>3 DEF Begin
    <3>3. QED
      BY <1>4, <2>1, <3>1, <3>2 DEF Phases, Socketed
  <2>4. CASE Lookup
    BY <1>4, <2>1, <2>4 DEF Lookup, Phases, Socketed
  <2>5. CASE Bind
    BY <2>5 DEF Bind, Phases, Socketed
  <2>6. CASE Connect
    BY <1>4, <2>1, <2>6 DEF Connect, Phases, Socketed
  <2>7. CASE Send \/ Recv
    BY <1>4, <2>7 DEF Send, Recv, Phases, Socketed
  <2>8. CASE Fetch
    BY <1>4, <2>8 DEF Fetch, Phases, Socketed
  <2>9. CASE SystemFails \/ TimesOut \/ Conclude \/ FetchReturns
    BY <2>1, <2>9 DEF SystemFails, TimesOut, Conclude, FetchReturns
  <2>10. CASE Parse \/ Tick \/ Network \/ UNCHANGED vars
    BY <2>2, <2>10 DEF Parse, Tick, Network, Reply, Deliver, Move, Elsewhere, vars, callVars
  <2>11. QED
    BY <2>3, <2>4, <2>5, <2>6, <2>7, <2>8, <2>9, <2>10 DEF Next, CallStep
<1>9. QED
  BY <1>2, <1>3, <1>5, <1>6, <1>7, <1>8 DEF TypeOK, Phases, Socketed
-----------------------------------------------------------------------------

(* The invariant holds at first, ... *)
LEMMA IInvInit == Init => IInv
<1> SUFFICES ASSUME Init PROVE IInv
  OBVIOUS
<1>1. /\ scenario \in DOMAIN Settings /\ setting.plan \in Seq(PlannedCall)
      /\ Len(setting.plan) \in Nat
  BY SettingsAssumption, LenProperties DEF Init, setting
<1>2. TypeOK
  <2>1. phase = "idle" /\ peer = FALSE /\ left = 0 /\ port = 0 /\ outcome.kind = "none"
    BY DEF Init, Idle
  <2>2. DOMAIN inbox = {} /\ DOMAIN sent = {}
    BY DEF Init
  <2>3. msg \in StunMsg /\ packet \in DnsMsg
    BY NoMsgTyped, NoPacketTyped DEF Init
  <2>4. QED
    BY <2>1, <2>2, <2>3 DEF TypeOK
<1>3. Made
  BY <1>1 DEF Init, Made
<1>4. Asked
  BY DEF Init, Asked, Asking
<1>5. Carried
  BY DEF Init, Carried
<1>6. Decoding /\ Reading
  BY NoMsgTyped, NoPacketTyped DEF Init, Decoding, Reading
<1>7. QED
  BY <1>2, <1>3, <1>4, <1>5, <1>6 DEF IInv

(* ... every step keeps it, ... *)
LEMMA IInvNext == IInv /\ [Next]_vars => IInv'
BY TypeNext, MadeNext, AskedNext, CarriedNext, CodecsNext DEF IInv

(* ... and so it always holds. *)
LEMMA Invariant == Spec => []IInv
BY IInvInit, IInvNext, PTL DEF Spec
-----------------------------------------------------------------------------
(* The calls' state has its types: a socket is open from bind until the call
   returns and never afterwards, so that a call finds none of an earlier one. *)
THEOREM CallTypes == Spec => []TypeOK
<1>1. IInv => TypeOK
  BY DEF IInv
<1>2. QED
  BY <1>1, Invariant, PTL

(* StunMessage::decode stays within the octets it received, wherever the buffer
   cuts what was sent; that it is octets is all that the proof knows of it.  *)
THEOREM StunStaysInBounds == Spec => []StunNeverPanics
<1>1. IInv => StunNeverPanics
  BY DEF IInv, Decoding, StunNeverPanics
<1>2. QED
  BY <1>1, Invariant, PTL

(* The loop of StunMessage::decode keeps its place aligned: neither the error
   for a truncated attribute header nor that for missing padding can occur.  *)
THEOREM AlignmentIsKept == Spec => []AlignmentErrorsAreDead
<1>1. IInv => AlignmentErrorsAreDead
  BY DEF IInv, Decoding, AlignmentErrorsAreDead
<1>2. QED
  BY <1>1, Invariant, PTL

(* parse_response and skip_name stay within the octets they received, although a
   compression pointer may leave the position beyond the end.                *)
THEOREM DnsStaysInBounds == Spec => []DnsNeverPanics
<1>1. IInv => DnsNeverPanics
  BY DEF IInv, Reading, DnsNeverPanics
<1>2. QED
  BY <1>1, Invariant, PTL
-----------------------------------------------------------------------------
(* Which reply an answer is taken from.  A datagram carries the ID of the request
   it replies to, also when the buffer cuts it; ...                          *)
IdOf(k, kind) == IF kind = "stun" THEN StunId(k) ELSE k

Identified ==
    \A i \in DOMAIN sent :
        LET k == sent[i].request
            kind == requests[k].provider.kind
        IN  kind \in {"stun", "dns"} => sent[i].message.id = IdOf(k, kind)

(* ... what passed the header's test has it, and the parsers keep it.         *)
Matched ==
    /\ phase = "parse" =>
          /\ got.reply \in DOMAIN sent
          /\ call.provider.kind = "stun" /\ decoding # "rejected"
                => msg.id = StunId(sent[got.reply].request)
          /\ call.provider.kind # "stun" /\ parsing # "rejected"
                => sent[got.reply].request = me
    /\ outcome.kind = "ok" =>
          phase = "returned" /\ got.reply \in DOMAIN sent /\ sent[got.reply].request = me

(* No two requests have the same transaction ID. *)
LEMMA StunIdsDiffer ==
    ASSUME NEW j, NEW k, StunId(j) = StunId(k)
    PROVE  j = k
<1>1. StunId(j)[1] = j /\ StunId(k)[1] = k
  BY DEF StunId
<1>2. QED
  BY <1>1

(* A cut leaves the ID, ... *)
LEMMA CutKeepsId ==
    ASSUME NEW m, NEW header, NEW n,
           m \in StunMsg \/ m \in DnsMsg
    PROVE  Cut(m, header, n).id = m.id
<1>1. CASE m \in StunMsg
  BY <1>1 DEF Cut, StunMsg
<1>2. CASE m \in DnsMsg
  BY <1>2 DEF Cut, DnsMsg
<1>3. QED
  BY <1>1, <1>2

(* ... which is that of the request, in every message a server makes. *)
LEMMA MessageIdentified ==
    ASSUME NEW k, NEW shape, NEW saw, NEW kind, kind = requests[k].provider.kind,
           kind \in {"stun", "dns"}
    PROVE  MessageOf(k, shape, saw).id = IdOf(k, kind)
<1>1. CASE kind = "stun"
  BY <1>1 DEF MessageOf, StunMessageOf, IdOf
<1>2. CASE kind = "dns"
  BY <1>2 DEF MessageOf, DnsMessageOf, IdOf
<1>3. QED
  BY <1>1, <1>2

(* No step changes the ID of a datagram. *)
LEMMA IdentifiedNext == IInv /\ Identified /\ [Next]_vars => Identified'
<1> SUFFICES ASSUME IInv, Identified, [Next]_vars PROVE Identified'
  OBVIOUS
<1>1. /\ Carried
      /\ \A k \in DOMAIN requests : k \in DOMAIN requests' /\ requests'[k] = requests[k]
  BY RequestsKept DEF IInv
<1>2. CASE sent' = sent
  BY <1>1, <1>2 DEF Identified, Carried
<1>3. ASSUME NEW k \in DOMAIN requests, Reply(k)
      PROVE  Identified'
  <2> DEFINE Datagram(shape) ==
                 [request |-> k, shape |-> shape, saw |-> route[requests[k].peer],
                  message |-> MessageOf(k, shape, route[requests[k].peer])]
  <2>1. PICK shape : sent' = Append(sent, Datagram(shape))
    BY <1>3 DEF Reply
  <2> DEFINE d == Datagram(shape)
             kind == requests[k].provider.kind
  <2>2. d.request = k /\ (kind \in {"stun", "dns"} => d.message.id = IdOf(k, kind))
    BY MessageIdentified
  <2> HIDE DEF Datagram, d
  <2>3. /\ DOMAIN sent' = DOMAIN sent \cup {Len(sent) + 1}
        /\ \A i \in DOMAIN sent : sent'[i] = sent[i]
        /\ sent'[Len(sent) + 1] = d
    BY <1>1, <2>1, AppendedValue DEF Carried, d
  <2>4. ASSUME NEW i \in DOMAIN sent'
        PROVE  LET j == sent'[i].request
                   how == requests'[j].provider.kind
               IN  how \in {"stun", "dns"} => sent'[i].message.id = IdOf(j, how)
    <3>1. CASE i \in DOMAIN sent
      BY <1>1, <2>3, <3>1 DEF Identified, Carried
    <3>2. CASE i = Len(sent) + 1
      BY <1>1, <2>2, <2>3, <3>2
    <3>3. QED
      BY <2>3, <3>1, <3>2
  <2>5. QED
    BY <2>4 DEF Identified
<1>4. CASE ~(\E k \in DOMAIN requests : Reply(k))
  <2>1. sent' = sent
    BY <1>4 DEF Next, CallStep, Network, Begin, SystemFails, TimesOut, Lookup, Bind, Connect,
       Send, Recv, Parse, Conclude, Fetch, FetchReturns, Deliver, Move, Tick, Quiet,
       Elsewhere, vars, callVars
  <2>2. QED
    BY <1>2, <2>1
<1>5. QED
  BY <1>3, <1>4

(* The parsers read what was received, and do not change it. *)
LEMMA ParsersKeep ==
    /\ StunStep => msg' = msg /\ decoding # "rejected"
    /\ DnsStep => parsing # "rejected"
<1>1. StunStep => msg' = msg /\ decoding # "rejected"
  BY DEF StunStep, DecodeAttribute, DecodeDone, DecodeEnds
<1>2. DnsStep => parsing # "rejected"
  BY DEF DnsStep, NextQuestion, QuestionName, SkipQuestion, NextAnswer, AnswerName, ReadRecord,
     ReadString, TextDone
<1>3. QED
  BY <1>1, <1>2

(* What recv hands to a parser is a reply of its protocol with that ID, unless the
   parser's header test rejects it.                                          *)
LEMMA MatchedByRecv ==
    ASSUME IInv, Identified, Matched, Recv
    PROVE  Matched'
<1> DEFINE i == Head(inbox)
           d == sent[i]
           kind == requests[d.request].provider.kind
           stun == call.provider.kind = "stun"
           m == IF stun THEN As("stun", d, NoMsg) ELSE As("dns", d, NoPacket)
<1>1. /\ Carried /\ inbox # <<>> /\ phase = "recv" /\ outcome' = outcome /\ phase' = "parse"
      /\ UNCHANGED <<calls, requests, sent>> /\ got'.reply = i /\ outcome.kind # "ok"
  BY DEF IInv, Matched, Recv, Quiet
<1>2. i \in DOMAIN sent
  BY <1>1, HeadTailProperties DEF Carried
<1>3. As("stun", d, NoMsg) \in StunMsg /\ As("dns", d, NoPacket) \in DnsMsg
  BY <1>1, ReceivedTyped
<1>4. PICK n \in (setting.cuts \cap 0..m.size) \cup {m.size} :
          IF stun THEN DecodeHeader(Cut(m, HEADER, n)) /\ UNCHANGED dnsVars
                  ELSE /\ ParseHeader(Cut(m, HEADER_LEN, n), me, RecordType)
                       /\ UNCHANGED stunVars
  BY DEF Recv
<1>5. n \in 0..m.size
  <2>1. m.size \in Nat
    BY <1>3, StunMsgFields, DnsMsgFields
  <2> HIDE DEF m
  <2>2. QED
    BY <2>1
<1>6. me' = me /\ call' = call
  BY <1>1 DEF me, call
<1>7. /\ kind = "stun" => d.message.id = StunId(d.request)
      /\ kind = "dns" => d.message.id = d.request
  BY <1>2 DEF Identified, IdOf
<1>8. CASE stun
  <2>1. /\ msg' = Cut(m, HEADER, n)
        /\ decoding' # "rejected" => msg'.size >= HEADER
    BY <1>4, <1>8 DEF DecodeHeader, HeaderIsValid
  <2>2. kind # "stun" => m = NoMsg
    BY <1>8 DEF As
  <2>3. kind # "stun" => msg'.size = 0
    <3>1. ASSUME m = NoMsg PROVE Cut(m, HEADER, n).size = 0
      <4>1. m.size = 0
        BY <3>1 DEF NoMsg
      <4> HIDE DEF m
      <4>2. n >= m.size
        BY <1>5, <4>1
      <4>3. QED
        BY <4>1, <4>2 DEF Cut
    <3>2. QED
      BY <2>1, <2>2, <3>1
  <2>4. kind = "stun" => msg'.id = StunId(d.request)
    <3>1. kind = "stun" => m = d.message
      BY <1>8 DEF As
    <3>2. m \in StunMsg
      BY <1>3, <1>8
    <3>3. Cut(m, HEADER, n).id = m.id
      BY <3>2, CutKeepsId
    <3>4. QED
      BY <1>7, <2>1, <3>1, <3>3
  <2>5. decoding' # "rejected" => msg'.id = StunId(d.request)
    BY <2>1, <2>3, <2>4 DEF HEADER
  <2> HIDE DEF m
  <2>6. QED
    BY <1>1, <1>2, <1>6, <1>8, <2>5 DEF Matched
<1>9. CASE ~stun
  <2> DEFINE p == Cut(m, HEADER_LEN, n)
  <2>1. parsing' # "rejected" => p.size >= HEADER_LEN /\ p.id = me
    BY <1>4, <1>9 DEF ParseHeader, ResponseIsValid
  <2>2. kind # "dns" => m = NoPacket
    BY <1>9 DEF As
  <2>3. kind # "dns" => p.size = 0
    <3>1. ASSUME m = NoPacket PROVE p.size = 0
      <4>1. m.size = 0
        BY <3>1 DEF NoPacket
      <4> HIDE DEF m
      <4>2. n >= m.size
        BY <1>5, <4>1
      <4>3. QED
        BY <4>1, <4>2 DEF Cut
    <3>2. QED
      BY <2>2, <3>1
  <2>4. kind = "dns" => p.id = d.request
    <3>1. kind = "dns" => m = d.message
      BY <1>9 DEF As
    <3>2. m \in DnsMsg
      BY <1>3, <1>9
    <3>3. p.id = m.id
      BY <3>2, CutKeepsId
    <3>4. QED
      BY <1>7, <3>1, <3>3
  <2> HIDE DEF p
  <2>5. parsing' # "rejected" => d.request = me
    BY <2>1, <2>3, <2>4 DEF HEADER_LEN
  <2> HIDE DEF m
  <2>6. QED
    BY <1>1, <1>2, <1>6, <1>9, <2>5 DEF Matched
<1>10. QED
  BY <1>8, <1>9

(* Only recv takes a reply, and only its parser makes an answer of it. *)
LEMMA MatchedNext == IInv /\ Identified /\ Matched /\ [Next]_vars => Matched'
<1> SUFFICES ASSUME IInv, Identified, Matched, [Next]_vars PROVE Matched'
  OBVIOUS
<1>1. /\ Carried /\ Made
      /\ \A k \in DOMAIN requests : k \in DOMAIN requests' /\ requests'[k] = requests[k]
  BY RequestsKept DEF IInv
<1>2. ASSUME phase' # "parse", outcome'.kind # "ok" PROVE Matched'
  BY <1>2 DEF Matched
<1>3. Idle.kind # "ok" /\ \A why : Failed(why).kind # "ok"
  BY DEF Idle, Failed
<1>4. CASE Begin
  <2>1. outcome' = Idle \/ outcome' = Failed("timeout") \/ outcome' = Failed("domain")
    BY <1>4 DEF Begin, Returns
  <2>2. phase' # "parse"
    BY <1>4 DEF Begin, Returns
  <2>3. QED
    BY <1>2, <1>3, <2>1, <2>2
<1>5. CASE SystemFails \/ TimesOut
  BY <1>2, <1>3, <1>5 DEF SystemFails, TimesOut, Returns
<1>6. CASE Lookup
  <2>1. outcome' = outcome \/ outcome' = Failed("address")
    BY <1>6 DEF Lookup, Returns
  <2>2. phase = "lookup" /\ phase' # "parse"
    BY <1>6 DEF Lookup, Returns
  <2>3. QED
    BY <1>2, <1>3, <2>1, <2>2 DEF Matched
<1>7. CASE Connect
  <2>1. outcome' = outcome \/ outcome' = Failed("unreachable")
    BY <1>7 DEF Connect, Returns
  <2>2. phase = "connect" /\ phase' # "parse"
    BY <1>7 DEF Connect, Returns
  <2>3. QED
    BY <1>2, <1>3, <2>1, <2>2 DEF Matched
<1>8. CASE Bind \/ Send \/ Fetch
  <2>1. phase \in {"bind", "send", "fetch"} /\ phase' # "parse" /\ outcome' = outcome
    BY <1>8 DEF Bind, Send, Fetch, Quiet
  <2>2. QED
    BY <1>2, <2>1 DEF Matched
<1>9. CASE Recv
  BY <1>9, MatchedByRecv
<1>10. CASE Parse
  <2>1. phase = "parse" /\ UNCHANGED callVars
    BY <1>10 DEF Parse
  <2>2. UNCHANGED <<calls, phase, requests, sent, got, outcome>> /\ call' = call /\ me' = me
    BY <2>1 DEF callVars, call, me
  <2>3. CASE call.provider.kind = "stun"
    <3>1. msg' = msg /\ decoding # "rejected"
      BY <1>10, <2>3, ParsersKeep DEF Parse
    <3>2. QED
      BY <2>1, <2>2, <2>3, <3>1 DEF Matched
  <2>4. CASE call.provider.kind # "stun"
    <3>1. parsing # "rejected"
      BY <1>10, <2>4, ParsersKeep DEF Parse
    <3>2. QED
      BY <2>1, <2>2, <2>4, <3>1 DEF Matched
  <2>5. QED
    BY <2>3, <2>4
<1>11. CASE Conclude
  <2>1. /\ phase = "parse" /\ phase' = "returned" /\ UNCHANGED <<calls, requests, sent, got>>
        /\ me' = me /\ got.reply \in DOMAIN sent
    BY <1>11 DEF Conclude, Returns, Quiet, me, Matched
  <2>2. outcome'.kind = "ok" => sent[got.reply].request = me
    <3>1. CASE call.provider.kind = "stun"
      <4>1. outcome' = ProcessResponse
        BY <1>11, <3>1 DEF Conclude, Returns
      <4>2. ProcessResponse.kind = "ok" => decoding = "decoded" /\ msg.id = StunId(me)
        BY <1>3, Zenon DEF ProcessResponse
      <4>3. decoding = "decoded" => msg.id = StunId(sent[got.reply].request)
        BY <2>1, <3>1 DEF Matched
      <4>4. QED
        BY <4>1, <4>2, <4>3, StunIdsDiffer
    <3>2. CASE call.provider.kind # "stun"
      <4>1. outcome' = ExtractResult
        BY <1>11, <3>2 DEF Conclude, Returns
      <4>2. ExtractResult.kind = "ok" => parsing = "parsed"
        BY <1>3, Zenon DEF ExtractResult
      <4>3. parsing = "parsed" => sent[got.reply].request = me
        BY <2>1, <3>2 DEF Matched
      <4>4. QED
        BY <4>1, <4>2, <4>3
    <3>3. QED
      BY <3>1, <3>2
  <2>3. QED
    BY <2>1, <2>2 DEF Matched
<1>12. CASE FetchReturns
  <2>1. PICK i \in DOMAIN sent : sent[i].request = me /\ got' = [reply |-> i, cut |-> FALSE]
    BY <1>12 DEF FetchReturns
  <2>2. got'.reply = i
    BY <2>1
  <2>3. phase' = "returned" /\ sent' = sent /\ me' = me
    BY <1>12 DEF FetchReturns, Returns, Quiet, me
  <2>4. QED
    BY <2>1, <2>2, <2>3 DEF Matched
<1>13. ASSUME NEW k \in DOMAIN requests, Reply(k)
       PROVE  Matched'
  <2>1. /\ phase # "parse" /\ UNCHANGED <<calls, phase, requests, got, outcome>> /\ me' = me
        /\ \E d : sent' = Append(sent, d)
    BY <1>13 DEF Reply, Elsewhere, me
  <2>2. \A i \in DOMAIN sent : i \in DOMAIN sent' /\ sent'[i] = sent[i]
    BY <1>1, <2>1, AppendedValue DEF Carried
  <2>3. QED
    BY <2>1, <2>2 DEF Matched
<1>14. CASE Tick \/ Move \/ (\E i \in DOMAIN sent : Deliver(i)) \/ UNCHANGED vars
  <2>1. /\ UNCHANGED <<calls, phase, requests, sent, got, outcome, msg, decoding, parsing>>
        /\ me' = me /\ call' = call
    BY <1>14 DEF Tick, Move, Deliver, Elsewhere, vars, callVars, stunVars, dnsVars, me, call
  <2>2. QED
    BY <2>1 DEF Matched
<1>15. QED
  BY <1>4, <1>5, <1>6, <1>7, <1>8, <1>9, <1>10, <1>11, <1>12, <1>13, <1>14
     DEF Next, CallStep, Network

-----------------------------------------------------------------------------
(* The codecs begin with what the server sent, cut where it was cut. *)

(* What recv leaves of a message, ... *)
LEMMA StunCutFields ==
    ASSUME NEW m \in StunMsg, NEW n \in 0..m.size, NEW p, p = Cut(m, HEADER, n)
    PROVE  /\ p.size = n /\ p.method = m.method /\ p.length = m.length
           /\ p.cookie = m.cookie /\ p.id = m.id
           /\ p.body = m.body \/ p.body = SubSeq(m.body, 1, IF n > HEADER THEN n - HEADER ELSE 0)
<1>1. m.size \in Nat
  BY StunMsgFields
<1>2. CASE n >= m.size
  BY <1>1, <1>2 DEF Cut
<1>3. CASE ~(n >= m.size)
  <2> DEFINE b == SubSeq(m.body, 1, IF n > HEADER THEN n - HEADER ELSE 0)
  <2>1. p = [m EXCEPT !.size = n, !.body = b]
    BY <1>3 DEF Cut
  <2> HIDE DEF b
  <2>2. p.size = n /\ p.method = m.method /\ p.length = m.length
        /\ p.cookie = m.cookie /\ p.id = m.id /\ p.body = b
    BY <2>1 DEF StunMsg
  <2>3. QED
    BY <2>2 DEF b
<1>4. QED
  BY <1>2, <1>3

(* ... and of a response. *)
LEMMA DnsCutFields ==
    ASSUME NEW m \in DnsMsg, NEW n \in 0..m.size, NEW p, p = Cut(m, HEADER_LEN, n)
    PROVE  /\ p.size = n /\ p.id = m.id /\ p.qr = m.qr /\ p.tc = m.tc /\ p.rcode = m.rcode
           /\ p.qdcount = m.qdcount /\ p.ancount = m.ancount
           /\ \/ p.body = m.body
              \/ p.body = SubSeq(m.body, 1, IF n > HEADER_LEN THEN n - HEADER_LEN ELSE 0)
<1>1. m.size \in Nat
  BY DnsMsgFields
<1>2. CASE n >= m.size
  BY <1>1, <1>2 DEF Cut
<1>3. CASE ~(n >= m.size)
  <2> DEFINE b == SubSeq(m.body, 1, IF n > HEADER_LEN THEN n - HEADER_LEN ELSE 0)
  <2>1. p = [m EXCEPT !.size = n, !.body = b]
    BY <1>3 DEF Cut
  <2> HIDE DEF b
  <2>2. /\ p.size = n /\ p.id = m.id /\ p.qr = m.qr /\ p.tc = m.tc /\ p.rcode = m.rcode
        /\ p.qdcount = m.qdcount /\ p.ancount = m.ancount /\ p.body = b
    BY <2>1 DEF DnsMsg
  <2>3. QED
    BY <2>2 DEF b
<1>4. QED
  BY <1>2, <1>3

(* decode begins with the first attribute of what the server sent. *)
LEMMA StunReadsBegin ==
    ASSUME NEW shape, NEW id, NEW saw, Sayable(shape, id, saw), NEW m \in StunMsg,
           m = StunMessageOf(shape, id, saw), NEW n \in 0..m.size,
           DecodeHeader(Cut(m, HEADER, n))
    PROVE  /\ StunReads(shape, id, saw)' /\ msg'.size = n
           /\ m.size = HEADER + Len(StunBody(shape, id, saw))
<1> DEFINE body == StunBody(shape, id, saw)
<1>1. /\ m.size = HEADER + Len(body) /\ m.method = shape.method
      /\ m.length = Len(body) + shape.off /\ m.cookie = MAGIC_COOKIE /\ m.id = id
      /\ m.body = body
  BY DEF StunMessageOf, StunBody, AttrParts
<1>2. PICK p : p = Cut(m, HEADER, n)
  OBVIOUS
<1>3. msg' = p /\ offset' = HEADER /\ attributes' = <<>>
      /\ decoding' = IF HeaderIsValid' THEN "attributes" ELSE "rejected"
  BY <1>2 DEF DecodeHeader
<1>4. /\ p.size = n /\ p.method = m.method /\ p.length = m.length
      /\ p.cookie = m.cookie /\ p.id = m.id
      /\ p.body = m.body \/ p.body = SubSeq(m.body, 1, IF n > HEADER THEN n - HEADER ELSE 0)
  BY <1>2, StunCutFields
<1>5. m.size \in Nat /\ body \in Seq(Octet) /\ HEADER = 20 /\ Len(body) \in Nat /\ shape.off \in Int
  <2>1. m.size \in Nat /\ m.body \in Seq(Octet)
    BY StunMsgFields
  <2>2. shape.off \in Int
    BY ShapeTyped DEF Sayable
  <2>3. Len(body) \in Nat
    BY PartsTyped
  <2>4. QED
    BY <1>1, <2>1, <2>2, <2>3 DEF HEADER
<1> HIDE DEF body
<1>6. n \in Nat /\ n <= HEADER + Len(body) /\ HEADER \in Nat
  BY <1>1, <1>5
<1>7. Holds(p, HEADER, HEADER, body)
  <2>1. p.body = body \/ p.body = SubSeq(body, 1, IF n > HEADER THEN n - HEADER ELSE 0)
    BY <1>1, <1>4
  <2> DEFINE kept == p.body
  <2> HIDE DEF kept
  <2>2. p.body = kept /\ (kept = body \/ kept = SubSeq(body, 1, IF n > HEADER THEN n - HEADER ELSE 0))
    BY <2>1 DEF kept
  <2>3. QED
    BY <1>4, <1>5, <1>6, <2>2, CutHolds
<1>8. StunHeard(shape, id, saw)'
  <2>1. Holds(msg', HEADER, HEADER, body)
    BY <1>3, <1>7
  <2>2. QED
    BY <1>1, <1>3, <1>4, <1>6, <2>1 DEF StunHeard, body, Holds
<1>9. CASE HeaderIsValid'
  <2>1. decoding' = "attributes"
    BY <1>3, <1>9
  <2>2. Len(shape.attributes) \in Nat /\ <<>> \in Seq([type : Nat, at : Nat, len : Nat]) /\ Len(<<>>) = 0
    BY ShapeTyped DEF Sayable
  <2>3. AllListed(shape, id, saw)'
    BY <1>3, <1>8, <1>9, <2>2 DEF AllListed
  <2>4. AttrAt(shape, id, saw, 1) = 0
    <3>1. AttrParts(shape, id, saw) \in Seq(Seq(Int))
      BY PartsTyped
    <3> DEFINE parts == AttrParts(shape, id, saw)
    <3>2. AttrAt(shape, id, saw, 1) = Len(JoinOf(parts)[1 - 1])
      BY DEF AttrAt
    <3> HIDE DEF parts
    <3>3. JoinOf(parts)[0] = <<>>
      BY <3>1, JoinedBy DEF parts
    <3>4. QED
      BY <3>2, <3>3
  <2>5. (offset = HEADER + AttrAt(shape, id, saw, Len(attributes) + 1))'
    <3>1. Len(attributes') + 1 = 1
      BY <1>3
    <3>2. QED
      BY <1>3, <1>6, <2>4, <3>1
  <2>6. QED
    BY <1>1, <1>3, <1>4, <2>1, <2>3, <2>5 DEF StunReads, body
<1>10. CASE ~HeaderIsValid'
  <2>1. decoding' = "rejected"
    BY <1>3, <1>10
  <2>2. ASSUME n = HEADER + Len(body) PROVE ~GoodStun(shape)
    <3> SUFFICES ASSUME GoodStun(shape) PROVE FALSE
      OBVIOUS
    <3>1. shape.method = Response /\ shape.off = 0 /\ "overlong" \notin ToSet(shape.attributes)
      BY DEF GoodStun
    <3>2. Len(body) % 4 = 0
      BY <3>1, BodyAligned DEF body
    <3>3. m.length = Len(body)
      BY <1>1, <1>5, <3>1
    <3>4. /\ p.size >= HEADER /\ p.method = Response /\ p.cookie = MAGIC_COOKIE
          /\ p.length % 4 = 0 /\ p.size >= HEADER + p.length
      BY <1>1, <1>4, <1>5, <2>2, <3>1, <3>2, <3>3
    <3>5. HeaderIsValid'
      BY <1>3, <3>4 DEF HeaderIsValid, End
    <3>6. QED
      BY <1>10, <3>5
  <2>3. msg'.size = n
    BY <1>3, <1>4
  <2>4. QED
    BY <1>1, <2>1, <2>2, <2>3 DEF StunReads, body
<1>11. QED
  BY <1>9, <1>10

(* A server that answers echoes the name that it was asked for. *)
LEMMA QuestionEchoed ==
    ASSUME NEW q, Named(q.labels), q.type \in Nat, q.class \in Nat
    PROVE  SubSeq(Inquiry(q), 1, Len(Inquiry(q)) - 4) = EncodeName(q.labels)
<1> DEFINE name == EncodeName(q.labels)
           ask == Inquiry(q)
           k == Len(ask) - 4
<1>1. /\ ask \in Seq(Int) /\ Len(ask) \in Nat /\ Len(name) \in Nat
      /\ Len(ask) = Len(name) + 4 /\ LiesAt(name, 0, ask)
  BY InquiryLaid
<1>2. name \in Seq(Int)
  BY NameTyped
<1> HIDE DEF name, ask
<1>3. k \in 0..Len(ask) /\ k = Len(name)
  BY <1>1
<1> HIDE DEF k
<1>4. /\ SubSeq(ask, 1, k) \in Seq(Int) /\ Len(SubSeq(ask, 1, k)) = k
      /\ \A i \in 1..k : SubSeq(ask, 1, k)[i] = ask[i]
  <2>1. \A i \in 1..k : ask[i] \in Int
    BY <1>1, <1>3
  <2>2. k \in Int
    BY <1>1, <1>3
  <2>3. /\ SubSeq(ask, 1, k) \in Seq(Int)
        /\ Len(SubSeq(ask, 1, k)) = IF 1 <= k THEN k - 1 + 1 ELSE 0
        /\ \A i \in 1..(k - 1 + 1) : SubSeq(ask, 1, k)[i] = ask[1 + i - 1]
    BY <2>1, <2>2, SubSeqProperties
  <2>4. k \in Nat /\ k - 1 + 1 = k
    BY <1>1, <1>3
  <2>5. ASSUME NEW i \in 1..k PROVE SubSeq(ask, 1, k)[i] = ask[i]
    <3>1. 1 + i - 1 = i
      BY <2>4
    <3>2. QED
      BY <2>3, <2>4, <3>1
  <2>6. QED
    BY <2>3, <2>4, <2>5
<1>5. \A p \in 1..k : SubSeq(ask, 1, k)[p] = name[p]
  <2>1. \A p \in 1..Len(name) : ask[0 + p] = name[p]
    BY <1>1 DEF LiesAt
  <2>2. ASSUME NEW p \in 1..k PROVE SubSeq(ask, 1, k)[p] = name[p]
    <3>1. 0 + p = p
      BY <1>1, <1>3
    <3>2. QED
      BY <1>3, <1>4, <2>1, <3>1
  <2>3. QED
    BY <2>2
<1> DEFINE sub == SubSeq(ask, 1, k)
<1>6. sub \in Seq(Int) /\ Len(sub) = k /\ \A p \in 1..k : sub[p] = name[p]
  BY <1>4, <1>5
<1> HIDE DEF sub
<1>7. sub = name
  BY <1>2, <1>3, <1>6, SameSeq
<1>8. QED
  BY <1>7 DEF sub, name, ask, k

(* The response that a server makes. *)
DnsMade(m, shape, id, q, saw) ==
    /\ m.size = HEADER_LEN + Len(DnsBody(shape, q, saw)) /\ m.body = DnsBody(shape, q, saw)
    /\ m.id = id /\ m.qr = TRUE /\ m.tc = shape.tc /\ m.rcode = shape.rcode
    /\ m.qdcount = 1 /\ m.ancount = Len(shape.records)

(* DnsMessageOf makes it of the question that the request holds. *)
LEMMA DnsMessageMade ==
    ASSUME NEW shape, NEW id, NEW q, NEW saw, Answerable(shape, q, saw), NEW m,
           m = DnsMessageOf(shape, id, Inquiry(q), saw)
    PROVE  DnsMade(m, shape, id, q, saw)
<1>1. Named(q.labels) /\ q.type \in Nat /\ q.class \in Nat
  BY DEF Answerable, A, Txt, Aaaa
<1> DEFINE ask == Inquiry(q)
           name == IF shape.pointer THEN <<192, 12>> ELSE SubSeq(ask, 1, Len(ask) - 4)
           rr(kind) == Record(name, DnsRecord(kind, saw).type, DnsRecord(kind, saw).data)
           body == ask \o FlattenSeq([i \in DOMAIN shape.records |-> rr(shape.records[i])])
<1>2. name = NameOf(shape, q)
  BY <1>1, QuestionEchoed DEF NameOf
<1>3. m = [size |-> HEADER_LEN + Len(body), id |-> id, qr |-> TRUE, tc |-> shape.tc,
           rcode |-> shape.rcode, qdcount |-> 1, ancount |-> Len(shape.records), body |-> body]
  BY DEF DnsMessageOf
<1> HIDE DEF name
<1>4. [i \in DOMAIN shape.records |-> rr(shape.records[i])] = RecordParts(shape, q, saw)
  BY <1>2 DEF RecordParts
<1>5. body = DnsBody(shape, q, saw)
  BY <1>4 DEF DnsBody
<1> HIDE DEF body
<1>6. QED
  BY <1>3, <1>5 DEF DnsMade

(* parse_response begins with the question of what the server sent. *)
LEMMA DnsReadsBegin ==
    ASSUME NEW shape, NEW id, NEW q, NEW saw, Answerable(shape, q, saw), NEW m \in DnsMsg,
           m = DnsMessageOf(shape, id, Inquiry(q), saw), NEW n \in 0..m.size,
           ParseHeader(Cut(m, HEADER_LEN, n), id, q.type)
    PROVE  /\ DnsReads(shape, q, saw)' /\ packet'.size = n
           /\ m.size = HEADER_LEN + Len(DnsBody(shape, q, saw))
<1> DEFINE body == DnsBody(shape, q, saw)
<1>1. /\ m.size = HEADER_LEN + Len(body) /\ m.body = body /\ m.id = id /\ m.qr = TRUE
      /\ m.tc = shape.tc /\ m.rcode = shape.rcode
      /\ m.qdcount = 1 /\ m.ancount = Len(shape.records)
  <2>1. DnsMade(m, shape, id, q, saw)
    BY DnsMessageMade
  <2>2. QED
    BY <2>1 DEF DnsMade
<1>2. PICK p : p = Cut(m, HEADER_LEN, n)
  OBVIOUS
<1>3. /\ packet' = p /\ rtype' = q.type /\ pos' = HEADER_LEN /\ todo' = p.qdcount
      /\ results' = <<>>
      /\ parsing' = IF ResponseIsValid(p, id) /\ p.rcode = 0 /\ p.ancount > 0
                    THEN "questions" ELSE "rejected"
  BY <1>2 DEF ParseHeader
<1>4. /\ p.size = n /\ p.id = m.id /\ p.qr = m.qr /\ p.tc = m.tc /\ p.rcode = m.rcode
      /\ p.qdcount = m.qdcount /\ p.ancount = m.ancount
      /\ \/ p.body = m.body
         \/ p.body = SubSeq(m.body, 1, IF n > HEADER_LEN THEN n - HEADER_LEN ELSE 0)
  BY <1>2, DnsCutFields
<1>5. m.size \in Nat /\ body \in Seq(Octet) /\ HEADER_LEN = 12 /\ Len(body) \in Nat
  <2>1. m.size \in Nat /\ m.body \in Seq(Octet)
    BY DnsMsgFields
  <2>2. Len(body) \in Nat
    BY BodyTyped
  <2>3. QED
    BY <1>1, <2>1, <2>2 DEF HEADER_LEN
<1> HIDE DEF body
<1>6. n \in Nat /\ n <= HEADER_LEN + Len(body) /\ HEADER_LEN \in Nat
  BY <1>1, <1>5
<1>7. Holds(p, HEADER_LEN, HEADER_LEN, body)
  <2> DEFINE kept == p.body
  <2> HIDE DEF kept
  <2>1. /\ p.body = kept
        /\ \/ kept = body
           \/ kept = SubSeq(body, 1, IF n > HEADER_LEN THEN n - HEADER_LEN ELSE 0)
    BY <1>1, <1>4 DEF kept
  <2>2. QED
    BY <1>4, <1>5, <1>6, <2>1, CutHolds
<1>8. DnsHeard(shape, q, saw)'
  <2>1. Holds(packet', HEADER_LEN, HEADER_LEN, body)
    BY <1>3, <1>7
  <2>2. QED
    BY <1>1, <1>3, <1>4, <1>6, <2>1 DEF DnsHeard, body, Holds
<1>9. CASE parsing' = "questions"
  BY <1>1, <1>3, <1>4, <1>8, <1>9 DEF DnsReads, body
<1>10. CASE parsing' = "rejected"
  <2>1. ~ResponseIsValid(p, id) \/ p.rcode # 0 \/ ~(p.ancount > 0)
    BY <1>3, <1>10
  <2>2. CASE n < HEADER_LEN
    <3>1. n < HEADER_LEN + Len(body)
      BY <1>5, <1>6, <2>2
    <3>2. packet'.size = n
      BY <1>3, <1>4
    <3>3. WasCut(shape, q, saw)'
      BY <3>1, <3>2 DEF WasCut, body
    <3>4. QED
      BY <1>1, <1>10, <3>2, <3>3 DEF DnsReads, body
  <2>3. CASE n >= HEADER_LEN
    <3>1. shape.tc \/ shape.rcode # 0 \/ ~(Len(shape.records) > 0)
      BY <1>1, <1>4, <2>1, <2>3 DEF ResponseIsValid
    <3>2. Len(shape.records) \in Nat
      BY RecordsOf DEF Answerable
    <3>3. shape.tc \/ shape.rcode # 0 \/ Len(shape.records) = 0
      BY <3>1, <3>2
    <3>4. packet'.size = n
      BY <1>3, <1>4
    <3>5. QED
      BY <1>1, <1>10, <3>3, <3>4 DEF DnsReads, body
  <2>4. QED
    BY <1>5, <1>6, <2>2, <2>3
<1>11. QED
  BY <1>3, <1>9, <1>10

-----------------------------------------------------------------------------
(* What a call has asked for, and what was said to it. *)

(* Every reply says what one of the server's shapes says of the address that the
   server saw, which is of the family it was asked over; ...                 *)
ToldBy(d) ==
    LET r == requests[d.request]
    IN  /\ d.shape \in setting.shapes[r.provider.kind]
        /\ d.saw \in PublicAddresses(setting) /\ d.saw.v6 = r.peer
        /\ d.message = MessageOf(d.request, d.shape, d.saw)

Told == \A i \in DOMAIN sent : ToldBy(sent[i])

(* ... the request that the current call waits for is its own, ... *)
Asks ==
    phase \in {"recv", "parse", "response"} =>
        /\ me \in DOMAIN requests /\ requests[me].provider = call.provider
        /\ requests[me].peer = peer
        /\ call.provider.kind # "http" => requests[me].type = RecordType

(* ... and sent over the family that the version wants. *)
WithSocket == phase \in {"bind", "connect", "send", "recv", "parse"}

Ways ==
    LET kind == call.provider.kind
    IN  /\ WithSocket => kind # "http"
        /\ phase = "lookup" => kind = "stun"
        /\ phase \in {"fetch", "response"} => kind = "http"
        /\ WithSocket /\ kind = "stun" => /\ call.version = "V6" => peer = TRUE
                                          /\ call.version = "V4" => peer = FALSE
        /\ WithSocket /\ kind = "dns" => QueryIsValid(call.provider.domain)
        /\ WithSocket /\ kind = "dns" /\ phase # "bind" => peer = SelectResolver

(* A reply is received while its call waits for it, and only a DNS call parses. *)
Gotten ==
    /\ got.reply # 0 => phase \in {"parse", "returned"} /\ got.reply \in DOMAIN sent
    /\ phase = "parse" => got.reply \in DOMAIN sent
    /\ parsing # "idle" => phase \in {"parse", "returned"} /\ call.provider.kind = "dns"

(* The four together. *)
Calling == Told /\ Asks /\ Ways /\ Gotten

(* What a server says is what its shapes let it say, and stays what it said. *)
LEMMA ToldNext == IInv /\ Told /\ [Next]_vars => Told'
<1> SUFFICES ASSUME IInv, Told, [Next]_vars PROVE Told'
  OBVIOUS
<1>1. /\ Carried /\ Made /\ Asked /\ setting' = setting
      /\ \A k \in DOMAIN requests : k \in DOMAIN requests' /\ requests'[k] = requests[k]
  BY RequestsKept, SettingConstant DEF IInv
<1>2. ASSUME NEW d, d.request \in DOMAIN requests, ToldBy(d)
      PROVE  ToldBy(d)'
  <2>1. MessageOf(d.request, d.shape, d.saw)' = MessageOf(d.request, d.shape, d.saw)
    BY <1>1, <1>2 DEF MessageOf, QuestionOf
  <2>2. PublicAddresses(setting)' = PublicAddresses(setting)
    BY <1>1 DEF PublicAddresses
  <2>3. QED
    BY <1>1, <1>2, <2>1, <2>2 DEF ToldBy
<1>3. CASE sent' = sent
  <2>1. ASSUME NEW i \in DOMAIN sent' PROVE ToldBy(sent[i])'
    <3>1. PICK d : d = sent[i]
      OBVIOUS
    <3>2. d.request \in DOMAIN requests /\ ToldBy(d)
      BY <1>1, <1>3, <2>1, <3>1 DEF Told, Carried
    <3>3. ToldBy(d)' /\ sent'[i] = d
      BY <1>2, <1>3, <3>1, <3>2
    <3>4. QED
      BY <3>3 DEF ToldBy
  <2>2. QED
    BY <2>1 DEF Told, ToldBy
<1>4. ASSUME NEW k \in DOMAIN requests, Reply(k)
      PROVE  Told'
  <2>1. PICK saw : saw = route[requests[k].peer] /\ saw # NoAddr
    BY <1>4 DEF Reply
  <2>2. PICK shape \in setting.shapes[requests[k].provider.kind] :
            sent' = Append(sent, [request |-> k, shape |-> shape, saw |-> saw,
                                  message |-> MessageOf(k, shape, saw)])
    BY <1>4, <2>1 DEF Reply
  <2>3. requests[k] \in RequestType
    BY <1>1, LenProperties, ElementOfSeq DEF Asked
  <2>4. requests[k].peer \in BOOLEAN
    BY <2>3 DEF RequestType
  <2>5. saw \in PublicAddresses(setting)
    BY <1>1, <2>1, <2>4 DEF Made, PublicAddresses
  <2>6. saw.v6 = requests[k].peer
    <3>1. saw \in AddressesOf(requests[k].peer) \cup {NoAddr}
      BY <1>1, <2>1, <2>4, ServersAssumption DEF Made, setting
    <3>2. QED
      BY <2>1, <3>1 DEF AddressesOf
  <2> DEFINE d == [request |-> k, shape |-> shape, saw |-> saw,
                   message |-> MessageOf(k, shape, saw)]
  <2>7. d.request = k /\ d.shape = shape /\ d.saw = saw /\ d.message = MessageOf(k, shape, saw)
    OBVIOUS
  <2>8. d.request \in DOMAIN requests /\ ToldBy(d)
    <3> HIDE DEF d
    <3>1. QED
      BY <2>5, <2>6, <2>7 DEF ToldBy
  <2>9. PICK e : e = d
    OBVIOUS
  <2> HIDE DEF d
  <2>10. ToldBy(e)'
    BY <1>2, <2>8, <2>9
  <2>11. /\ DOMAIN sent' = DOMAIN sent \cup {Len(sent) + 1}
         /\ \A i \in DOMAIN sent : sent'[i] = sent[i]
         /\ sent'[Len(sent) + 1] = e
    BY <1>1, <2>2, <2>9, AppendedValue DEF Carried, d
  <2>12. ASSUME NEW i \in DOMAIN sent' PROVE ToldBy(sent[i])'
    <3>1. CASE i \in DOMAIN sent
      <4>1. PICK f : f = sent[i]
        OBVIOUS
      <4>2. f.request \in DOMAIN requests /\ ToldBy(f)
        BY <1>1, <3>1, <4>1 DEF Told, Carried
      <4>3. ToldBy(f)' /\ sent'[i] = f
        BY <1>2, <2>11, <3>1, <4>1, <4>2
      <4>4. QED
        BY <4>3 DEF ToldBy
    <3>2. CASE i = Len(sent) + 1
      BY <2>10, <2>11, <3>2 DEF ToldBy
    <3>3. QED
      BY <2>11, <3>1, <3>2
  <2>13. QED
    BY <2>12 DEF Told, ToldBy
<1>5. CASE ~(\E k \in DOMAIN requests : Reply(k))
  <2>1. sent' = sent
    BY <1>5 DEF Next, CallStep, Network, Begin, SystemFails, TimesOut, Lookup, Bind, Connect,
       Send, Recv, Parse, Conclude, Fetch, FetchReturns, Deliver, Move, Tick, Quiet,
       Elsewhere, vars, callVars
  <2>2. QED
    BY <1>3, <2>1
<1>6. QED
  BY <1>4, <1>5

(* A call that goes on is the same call. *)
LEMMA AsksNext == IInv /\ Asks /\ Ways /\ [Next]_vars => Asks'
<1> SUFFICES ASSUME IInv, Asks, Ways, [Next]_vars PROVE Asks'
  OBVIOUS
<1>1. Made /\ Asked /\ TypeOK
  BY DEF IInv
<1>2. ASSUME NEW r \in RequestType, requests' = Append(requests, r), calls' = calls,
             r.provider = call.provider, r.peer = peer',
             call.provider.kind # "http" => r.type = RecordType
      PROVE  Asks'
  <2>1. /\ DOMAIN requests' = DOMAIN requests \cup {Len(requests) + 1}
        /\ requests'[Len(requests) + 1] = r /\ Len(requests') = Len(requests) + 1
    BY <1>1, <1>2, Appended, AppendProperties DEF Asked
  <2>2. me' = Len(requests) + 1 /\ call' = call
    BY <1>2, <2>1 DEF me, call
  <2>3. RecordType' = RecordType
    BY <2>2 DEF RecordType
  <2>4. QED
    BY <1>2, <2>1, <2>2, <2>3 DEF Asks
<1>3. ASSUME phase' \in {"recv", "parse", "response"} =>
                 phase \in {"recv", "parse", "response"} /\ UNCHANGED <<calls, requests, peer>>
      PROVE  Asks'
  <2>1. ASSUME calls' = calls, requests' = requests
        PROVE  me' = me /\ call' = call /\ RecordType' = RecordType
    BY <2>1 DEF me, call, RecordType
  <2>2. QED
    BY <1>3, <2>1 DEF Asks
<1>4. CASE Send
  <2>1. RecordType \in {A, Txt, Aaaa}
    BY DEF RecordType
  <2>2. phase = "send" /\ port \in Ports /\ peer \in BOOLEAN
    BY <1>1, <1>4 DEF Send, TypeOK
  <2> DEFINE r == [provider |-> call.provider, version |-> call.version, type |-> RecordType,
                   port |-> port, peer |-> peer]
  <2>3. r \in RequestType
    BY <1>1, <2>1, <2>2, RequestTyped
  <2>4. requests' = Append(requests, r) /\ calls' = calls /\ peer' = peer
    BY <1>4 DEF Send
  <2>5. r.provider = call.provider /\ r.peer = peer /\ r.type = RecordType
    OBVIOUS
  <2> HIDE DEF r
  <2>6. QED
    BY <1>2, <2>3, <2>4, <2>5
<1>5. CASE Fetch
  <2>1. phase = "fetch" /\ peer' \in BOOLEAN
    BY <1>5 DEF Fetch
  <2> DEFINE r == [provider |-> call.provider, version |-> call.version, type |-> A,
                   port |-> 0, peer |-> peer']
  <2>2. r \in RequestType
    BY <1>1, <2>1, RequestTyped
  <2>3. requests' = Append(requests, r) /\ calls' = calls /\ call.provider.kind = "http"
    BY <1>5, <2>1 DEF Fetch, Ways
  <2>4. r.provider = call.provider /\ r.peer = peer'
    OBVIOUS
  <2> HIDE DEF r
  <2>5. QED
    BY <1>2, <2>2, <2>3, <2>4
<1>6. CASE ~Send /\ ~Fetch
  <2>1. phase' \in {"recv", "parse", "response"} =>
                 phase \in {"recv", "parse", "response"} /\ UNCHANGED <<calls, requests, peer>>
    BY <1>6 DEF Next, CallStep, Network, Begin, SystemFails, TimesOut, Lookup, Bind, Connect,
       Recv, Parse, Conclude, FetchReturns, Reply, Deliver, Move, Tick, Returns, Quiet,
       Elsewhere, vars, callVars
  <2>2. QED
    BY <1>3, <2>1
<1>7. QED
  BY <1>4, <1>5, <1>6

(* select_addr finds an address of the version, if one is wanted. *)
LEMMA FamilySelected ==
    ASSUME NEW addrs \in Seq(BOOLEAN), NEW v6 \in SelectAddr(addrs)
    PROVE  (call.version = "V6" => v6 = TRUE) /\ (call.version = "V4" => v6 = FALSE)
BY DEF SelectAddr

(* A call keeps to its protocol, and to the family that its version selects. *)
LEMMA WaysNext == IInv /\ Ways /\ [Next]_vars => Ways'
<1> SUFFICES ASSUME IInv, Ways, [Next]_vars PROVE Ways'
  OBVIOUS
<1>1. Made /\ Asked /\ TypeOK
  BY DEF IInv
<1>2. ASSUME phase' \in {"idle", "returned"} PROVE Ways'
  BY <1>2 DEF Ways, WithSocket
<1>3. ASSUME calls' = calls, peer' = peer, phase' = phase \/ (WithSocket /\ WithSocket'
                                                             /\ phase # "bind")
      PROVE  Ways'
  <2>1. call' = call /\ SelectResolver' = SelectResolver
    BY <1>3 DEF call, SelectResolver
  <2>2. CASE phase' = phase
    BY <1>3, <2>1, <2>2 DEF Ways, WithSocket
  <2>3. CASE WithSocket /\ WithSocket' /\ phase # "bind"
    BY <1>3, <2>1, <2>3 DEF Ways, WithSocket
  <2>4. QED
    BY <1>3, <2>2, <2>3
<1>4. CASE Begin
  <2> DEFINE c == setting.plan[Len(calls) + 1]
  <2>1. calls' = Append(calls, c) /\ Len(calls) < Len(setting.plan)
    BY <1>4 DEF Begin
  <2>2. c \in PlannedCall /\ calls \in Seq(PlannedCall)
    BY <1>1, <2>1, PlanTyped DEF Made
  <2>3. \/ phase' = "returned"
        \/ /\ c.provider.kind = "dns" => QueryIsValid(c.provider.domain)
           /\ phase' = CASE c.provider.kind = "dns" -> "bind"
                         [] c.provider.kind = "stun" -> "lookup"
                         [] OTHER -> "fetch"
    BY <1>4 DEF Begin, Returns
  <2>4. c.provider.kind \in {"stun", "dns", "http"}
    BY <2>2 DEF PlannedCall
  <2> HIDE DEF c
  <2>5. call' = c
    <3>1. calls'[Len(calls) + 1] = c /\ Len(calls') = Len(calls) + 1
      BY <2>1, <2>2, Appended, AppendProperties
    <3>2. QED
      BY <3>1 DEF call
  <2>6. CASE phase' # "returned"
    <3>1. CASE c.provider.kind = "dns"
      BY <2>3, <2>5, <2>6, <3>1 DEF Ways, WithSocket
    <3>2. CASE c.provider.kind = "stun"
      BY <2>3, <2>5, <2>6, <3>2 DEF Ways, WithSocket
    <3>3. CASE c.provider.kind = "http"
      BY <2>3, <2>5, <2>6, <3>3 DEF Ways, WithSocket
    <3>4. QED
      BY <2>4, <3>1, <3>2, <3>3
  <2>7. QED
    BY <1>2, <2>6
<1>5. CASE SystemFails \/ TimesOut \/ Conclude \/ FetchReturns
  BY <1>2, <1>5 DEF SystemFails, TimesOut, Conclude, FetchReturns, Returns
<1>6. CASE Lookup
  <2>1. PICK addrs \in setting.lookups :
            \/ phase' = "returned"
            \/ peer' \in SelectAddr(addrs) /\ phase' = "bind"
    BY <1>6 DEF Lookup, Returns
  <2>2. addrs \in Seq(BOOLEAN)
    BY <1>1, SettingsAssumption DEF Made, setting
  <2>3. call' = call /\ phase = "lookup"
    BY <1>6 DEF Lookup, call
  <2>4. call.provider.kind = "stun"
    BY <2>3 DEF Ways
  <2>5. CASE phase' = "bind"
    <3>1. peer' \in SelectAddr(addrs)
      BY <2>1, <2>5
    <3>2. (call.version = "V6" => peer' = TRUE) /\ (call.version = "V4" => peer' = FALSE)
      BY <2>2, <3>1, FamilySelected
    <3>3. QED
      BY <2>3, <2>4, <2>5, <3>2 DEF Ways, WithSocket
  <2>6. QED
    BY <1>2, <2>1, <2>5
<1>7. CASE Bind
  <2>1. /\ phase = "bind" /\ phase' = "connect" /\ call' = call
        /\ peer' = IF call.provider.kind = "dns" THEN SelectResolver ELSE peer
    BY <1>7 DEF Bind, call
  <2>2. SelectResolver' = SelectResolver
    BY <2>1 DEF SelectResolver
  <2>3. QED
    BY <2>1, <2>2 DEF Ways, WithSocket
<1>8. CASE Connect
  <2>1. CASE phase' = "returned"
    BY <1>2, <2>1
  <2>2. CASE phase' # "returned"
    BY <1>3, <1>8, <2>2 DEF Connect, Returns, WithSocket
  <2>3. QED
    BY <2>1, <2>2
<1>9. CASE Send \/ Recv
  BY <1>3, <1>9 DEF Send, Recv, WithSocket
<1>10. CASE Fetch
  <2>1. phase = "fetch" /\ phase' = "response" /\ call' = call
    BY <1>10 DEF Fetch, call
  <2>2. QED
    BY <2>1 DEF Ways, WithSocket
<1>11. CASE Parse \/ Tick \/ Network \/ UNCHANGED vars
  BY <1>3, <1>11 DEF Parse, Tick, Network, Reply, Deliver, Move, Elsewhere, vars, callVars
<1>12. QED
  BY <1>4, <1>5, <1>6, <1>7, <1>8, <1>9, <1>10, <1>11 DEF Next, CallStep

(* A reply is got where a call waits, and given up where the next one begins. *)
LEMMA GottenNext == IInv /\ Ways /\ Gotten /\ [Next]_vars => Gotten'
<1> SUFFICES ASSUME IInv, Ways, Gotten, [Next]_vars PROVE Gotten'
  OBVIOUS
<1>1. /\ Made /\ Carried /\ Made' /\ Carried'
      /\ \A i \in DOMAIN sent : i \in DOMAIN sent'
  <2>1. sent' = sent \/ \E d : sent' = Append(sent, d)
    BY DEF Next, CallStep, Network, Begin, SystemFails, TimesOut, Lookup, Bind, Connect,
       Send, Recv, Parse, Conclude, Fetch, FetchReturns, Reply, Deliver, Move, Tick, Quiet,
       Elsewhere, vars, callVars
  <2>2. Carried /\ Made /\ Made' /\ Carried'
    BY MadeNext, CarriedNext DEF IInv
  <2>3. \A i \in DOMAIN sent : i \in DOMAIN sent'
    BY <2>1, <2>2, AppendedValue DEF Carried
  <2>4. QED
    BY <2>2, <2>3
<1>2. ASSUME got' = got, calls' = calls, UNCHANGED dnsVars,
             phase' = phase \/ (phase' # "parse" /\ (phase' = "returned" \/ phase \notin {"parse", "returned"}))
      PROVE  Gotten'
  <2>1. call' = call /\ parsing' = parsing
    BY <1>2 DEF call, dnsVars
  <2>2. QED
    BY <1>1, <1>2, <2>1 DEF Gotten
<1>3. CASE Begin
  <2>1. got'.reply = 0 /\ parsing' = "idle" /\ phase' # "parse"
    BY <1>3 DEF Begin, Nothing, Returns
  <2>2. QED
    BY <2>1 DEF Gotten
<1>4. CASE Recv
  <2>1. /\ inbox # <<>> /\ got'.reply = Head(inbox) /\ sent' = sent /\ phase' = "parse"
        /\ phase = "recv" /\ calls' = calls
    BY <1>4 DEF Recv, Quiet
  <2>2. Head(inbox) \in DOMAIN sent
    BY <1>1, <2>1, HeadTailProperties DEF Carried
  <2>3. call' = call
    BY <2>1 DEF call
  <2>4. call \in PlannedCall
    BY <1>1, <2>1, CallTyped
  <2>5. call.provider.kind \in {"stun", "dns"}
    BY <2>1, <2>4 DEF Ways, WithSocket, PlannedCall
  <2>6. call.provider.kind = "stun" => parsing' = parsing
    BY <1>4 DEF Recv, dnsVars
  <2>7. parsing = "idle"
    BY <2>1 DEF Gotten
  <2>8. QED
    BY <2>1, <2>2, <2>3, <2>5, <2>6, <2>7 DEF Gotten
<1>5. CASE Parse
  <2>1. phase = "parse" /\ UNCHANGED callVars
    BY <1>5 DEF Parse
  <2>2. UNCHANGED <<calls, phase, sent, got>> /\ call' = call
    BY <2>1 DEF callVars, call
  <2>3. CASE call.provider.kind = "stun"
    <3>1. parsing' = parsing
      BY <1>5, <2>3 DEF Parse, dnsVars
    <3>2. QED
      BY <2>2, <3>1 DEF Gotten
  <2>4. CASE call.provider.kind # "stun"
    <3>1. call.provider.kind = "dns"
      <4>1. call \in PlannedCall
        BY <1>1, <2>1, CallTyped
      <4>2. QED
        BY <2>1, <2>4, <4>1 DEF Ways, WithSocket, PlannedCall
    <3>2. QED
      BY <2>1, <2>2, <3>1 DEF Gotten
  <2>5. QED
    BY <2>3, <2>4
<1>6. CASE FetchReturns
  <2>1. PICK i \in DOMAIN sent : got' = [reply |-> i, cut |-> FALSE]
    BY <1>6 DEF FetchReturns
  <2>2. got'.reply = i
    BY <2>1
  <2>3. phase' = "returned" /\ sent' = sent /\ phase = "response" /\ parsing' = parsing
    BY <1>6 DEF FetchReturns, Returns, Quiet, Unparsed, dnsVars
  <2>4. QED
    BY <2>1, <2>2, <2>3 DEF Gotten
<1>7. CASE ~Begin /\ ~Recv /\ ~Parse /\ ~FetchReturns
  <2>1. /\ got' = got /\ calls' = calls /\ UNCHANGED dnsVars
        /\ \/ phase' = phase
           \/ phase' # "parse" /\ (phase' = "returned" \/ phase \notin {"parse", "returned"})
    BY <1>7 DEF Next, CallStep, Network, SystemFails, TimesOut, Lookup, Bind, Connect,
       Send, Conclude, Fetch, Reply, Deliver, Move, Tick, Returns, Quiet, Unparsed,
       Elsewhere, vars, callVars
  <2>2. QED
    BY <1>2, <2>1
<1>8. QED
  BY <1>3, <1>4, <1>5, <1>6, <1>7

(* Together they are kept. *)
LEMMA CallingNext == IInv /\ Calling /\ [Next]_vars => Calling'
BY ToldNext, AsksNext, WaysNext, GottenNext DEF Calling

-----------------------------------------------------------------------------
(* What the codecs have of what was said. *)

(* The question of a request. *)
AskedFor(r) == [labels |-> r.provider.domain, type |-> r.type, class |-> r.provider.class]

(* What the codec of the current call has made of the reply d that it received. *)
StunTakes(d) ==
    LET kind == requests[d.request].provider.kind
        id   == StunId(d.request)
    IN  /\ decoding # "idle"
        /\ kind = "stun" =>
              /\ StunReads(d.shape, id, d.saw)
              /\ ~got.cut => msg.size = HEADER + Len(StunBody(d.shape, id, d.saw))
        /\ kind # "stun" => decoding = "rejected"

DnsTakes(d) ==
    LET own == requests[d.request].provider.kind = "dns" /\ d.request = me
        q   == AskedFor(requests[d.request])
    IN  /\ parsing # "idle"
        /\ own => /\ DnsReads(d.shape, q, d.saw)
                  /\ ~got.cut => packet.size = HEADER_LEN + Len(DnsBody(d.shape, q, d.saw))
        /\ ~own => parsing = "rejected"

Understood ==
    phase = "parse" =>
        \A d : d = sent[got.reply] =>
            /\ call.provider.kind = "stun" => StunTakes(d)
            /\ call.provider.kind # "stun" => DnsTakes(d)

(* A host's public address is one that a server can tell. *)
LEMMA PublicSeen ==
    ASSUME Made, NEW saw \in PublicAddresses(setting)
    PROVE  Seen(saw) /\ saw # NoAddr
<1>1. PICK r \in setting.routes, v6 \in BOOLEAN : saw = r[v6] /\ saw # NoAddr
  BY DEF PublicAddresses
<1>2. scenario \in DOMAIN Settings
  BY DEF Made
<1>3. saw \in AddressesOf(v6) /\ Legible(saw)
  BY <1>1, <1>2, ServersAssumption DEF setting
<1>4. saw.v6 = v6
  BY <1>3 DEF AddressesOf
<1>5. QED
  BY <1>1, <1>3, <1>4 DEF Seen

(* A request, by its number. *)
LEMMA RequestKnown ==
    ASSUME Made, Asked, NEW k \in DOMAIN requests
    PROVE  /\ requests[k] \in RequestType /\ k \in DOMAIN setting.plan
           /\ requests[k].provider \in {setting.plan[n].provider : n \in DOMAIN setting.plan}
           /\ requests[k].provider.kind \in {"stun", "dns", "http"}
           /\ requests[k].provider.domain \in Seq(Seq(Octet))
           /\ requests[k].provider.class \in Nat
           /\ requests[k].type \in {A, Txt, Aaaa}
<1>1. /\ requests \in Seq(RequestType) /\ Len(requests) <= Len(calls)
      /\ DOMAIN requests = 1..Len(requests) /\ Len(requests) \in Nat
      /\ k \in 1..Len(requests)
  BY LenProperties DEF Asked
<1>2. requests[k] \in RequestType
  BY <1>1, ElementOfSeq
<1>3. k \in 1..Len(setting.plan)
  BY <1>1, PlanTyped
<1>4. k \in DOMAIN setting.plan
  BY <1>3, PlanTyped
<1>5. /\ requests[k].provider \in {setting.plan[n].provider : n \in DOMAIN setting.plan}
      /\ requests[k].type \in {A, Txt, Aaaa}
  BY <1>2 DEF RequestType
<1>6. PICK n \in DOMAIN setting.plan : requests[k].provider = setting.plan[n].provider
  BY <1>5
<1>7. setting.plan[n] \in PlannedCall
  BY PlanTyped
<1>8. QED
  BY <1>2, <1>4, <1>5, <1>6, <1>7 DEF PlannedCall

(* What a STUN server said, ... *)
LEMMA StunSent ==
    ASSUME IInv, Told, NEW i \in DOMAIN sent, NEW d, d = sent[i],
           requests[d.request].provider.kind = "stun"
    PROVE  /\ Sayable(d.shape, StunId(d.request), d.saw) /\ SentBeside(d.shape)
           /\ d.message \in StunMsg
           /\ d.message = StunMessageOf(d.shape, StunId(d.request), d.saw)
<1> DEFINE k == d.request
           m == StunMessageOf(d.shape, StunId(k), d.saw)
<1>1. Made /\ Asked /\ Carried
  BY DEF IInv
<1>2. k \in DOMAIN requests /\ ToldBy(d)
  BY <1>1 DEF Told, Carried
<1>3. k \in DOMAIN setting.plan
  BY <1>1, <1>2, RequestKnown
<1>4. /\ d.shape \in setting.shapes.stun /\ d.saw \in PublicAddresses(setting)
      /\ d.message = m
  BY <1>2 DEF ToldBy, MessageOf
<1>5. Seen(d.saw)
  BY <1>1, <1>4, PublicSeen
<1>6. scenario \in DOMAIN Settings
  BY <1>1 DEF Made
<1>7. d.shape \in StunShape /\ SentBeside(d.shape)
  BY <1>4, <1>6, ServersAssumption DEF setting
<1>8. /\ m \in StunMsg
      /\ "overlong" \in ToSet(d.shape.attributes) => Len(m.body) < 255
  <2>1. SendsOctets(setting)
    BY <1>6, DatagramsAssumption DEF setting
  <2> DEFINE saw == d.saw
             shape == d.shape
  <2>2. \A w \in PublicAddresses(setting) : \A j \in DOMAIN setting.plan :
          \A s \in setting.shapes.stun :
             /\ StunMessageOf(s, StunId(j), w) \in StunMsg
             /\ "overlong" \in ToSet(s.attributes) =>
                  Len(StunMessageOf(s, StunId(j), w).body) < 255
    BY <2>1, <1>3 DEF SendsOctets
  <2>3. saw \in PublicAddresses(setting) /\ shape \in setting.shapes.stun
        /\ m = StunMessageOf(shape, StunId(k), saw)
    BY <1>4
  <2>4. shape.attributes = d.shape.attributes
    OBVIOUS
  <2> HIDE DEF saw, shape, k, m
  <2>5. QED
    BY <1>3, <2>2, <2>3, <2>4
<1>9. m.body = StunBody(d.shape, StunId(k), d.saw) /\ m.id = StunId(k)
  BY DEF StunMessageOf, StunBody, AttrParts
<1>10. StunId(k) \in [1..12 -> Octet]
  <2>1. StunId(k) \in Seq(Octet)
    BY <1>8, <1>9, StunMsgFields
  <2>2. 1 \in DOMAIN StunId(k) /\ StunId(k)[1] = k
    BY DEF StunId
  <2>3. k \in Octet
    BY <2>1, <2>2, LenProperties, ElementOfSeq
  <2>4. QED
    BY <2>3 DEF StunId
<1>11. "overlong" \in ToSet(d.shape.attributes) => Len(StunBody(d.shape, StunId(k), d.saw)) < 255
  <2> HIDE DEF m
  <2>1. QED
    BY <1>8, <1>9
<1>12. Sayable(d.shape, StunId(k), d.saw)
  BY <1>5, <1>7, <1>10, <1>11 DEF Sayable, Seen
<1>13. d.message \in StunMsg /\ d.message = m
  <2> HIDE DEF m
  <2>1. QED
    BY <1>4, <1>8
<1>14. QED
  BY <1>7, <1>12, <1>13

(* ... and what a DNS server said. *)
LEMMA DnsSent ==
    ASSUME IInv, Told, NEW i \in DOMAIN sent, NEW d, d = sent[i], NEW r,
           r = requests[d.request], r.provider.kind = "dns", QueryIsValid(r.provider.domain)
    PROVE  /\ Answerable(d.shape, AskedFor(r), d.saw) /\ d.message \in DnsMsg
           /\ d.message = DnsMessageOf(d.shape, d.request, Inquiry(AskedFor(r)), d.saw)
<1> DEFINE k == d.request
           q == AskedFor(r)
<1>1. Made /\ Asked /\ Carried
  BY DEF IInv
<1>2. k \in DOMAIN requests /\ ToldBy(d) /\ d.message \in DnsMsg
  BY <1>1 DEF Told, Carried
<1>3. /\ r.provider.domain \in Seq(Seq(Octet)) /\ r.provider.class \in Nat
      /\ r.type \in {A, Txt, Aaaa}
  BY <1>1, <1>2, RequestKnown
<1>4. q.labels = r.provider.domain /\ q.type = r.type /\ q.class = r.provider.class
  BY DEF AskedFor
<1>5. /\ d.shape \in setting.shapes.dns /\ d.saw \in PublicAddresses(setting)
      /\ d.message = DnsMessageOf(d.shape, k, QuestionOf(r), d.saw)
  BY <1>2 DEF ToldBy, MessageOf
<1>6. QuestionOf(r) = Inquiry(q)
  BY <1>4 DEF QuestionOf, Inquiry
<1>7. Seen(d.saw)
  BY <1>1, <1>5, PublicSeen
<1>8. scenario \in DOMAIN Settings
  BY <1>1 DEF Made
<1>9. d.shape \in DnsShape
  BY <1>5, <1>8, ServersAssumption DEF setting
<1> HIDE DEF q
<1>10. Answerable(d.shape, q, d.saw)
  BY <1>3, <1>4, <1>7, <1>9 DEF Answerable, Named
<1>11. QED
  BY <1>2, <1>5, <1>6, <1>10 DEF q

(* A datagram of the other protocol has no header. *)
LEMMA EmptyRejected ==
    /\ \A n \in Nat : DecodeHeader(Cut(NoMsg, HEADER, n)) => decoding' = "rejected"
    /\ \A n \in Nat : \A id, type :
          ParseHeader(Cut(NoPacket, HEADER_LEN, n), id, type) => parsing' = "rejected"
<1>1. ASSUME NEW n \in Nat, DecodeHeader(Cut(NoMsg, HEADER, n)) PROVE decoding' = "rejected"
  <2>1. Cut(NoMsg, HEADER, n) = NoMsg
    BY DEF Cut, NoMsg
  <2>2. msg' = NoMsg /\ decoding' = IF HeaderIsValid' THEN "attributes" ELSE "rejected"
    BY <1>1, <2>1 DEF DecodeHeader
  <2>3. msg'.size = 0
    BY <2>2 DEF NoMsg
  <2>4. ~HeaderIsValid'
    BY <2>3 DEF HeaderIsValid, HEADER
  <2>5. QED
    BY <2>2, <2>4
<1>2. ASSUME NEW n \in Nat, NEW id, NEW type,
             ParseHeader(Cut(NoPacket, HEADER_LEN, n), id, type)
      PROVE  parsing' = "rejected"
  <2>1. Cut(NoPacket, HEADER_LEN, n) = NoPacket
    BY DEF Cut, NoPacket
  <2>2. NoPacket.size = 0
    BY DEF NoPacket
  <2>3. ~ResponseIsValid(NoPacket, id)
    BY <2>2 DEF ResponseIsValid, HEADER_LEN
  <2>4. QED
    BY <1>2, <2>1, <2>3 DEF ParseHeader
<1>3. QED
  BY <1>1, <1>2

(* A response to another request is rejected by its ID. *)
LEMMA OtherIdRejected ==
    ASSUME NEW m \in DnsMsg, NEW n, NEW id, NEW type, m.id # id,
           ParseHeader(Cut(m, HEADER_LEN, n), id, type)
    PROVE  parsing' = "rejected"
<1>1. Cut(m, HEADER_LEN, n).id = m.id
  BY CutKeepsId
<1>2. ~ResponseIsValid(Cut(m, HEADER_LEN, n), id)
  BY <1>1 DEF ResponseIsValid
<1>3. QED
  BY <1>2 DEF ParseHeader

(* The codecs begin with what the server said. *)
LEMMA UnderstoodByRecv ==
    ASSUME IInv, Identified, Calling, Recv
    PROVE  Understood'
<1>1. /\ Made /\ Asked /\ Carried /\ inbox # <<>> /\ phase = "recv" /\ phase' = "parse"
      /\ UNCHANGED <<calls, requests, sent>> /\ Told /\ Asks /\ Ways
  BY DEF IInv, Calling, Recv, Quiet
<1>2. PICK i : i = Head(inbox)
  OBVIOUS
<1>3. i \in DOMAIN sent
  BY <1>1, <1>2, HeadTailProperties DEF Carried
<1>4. PICK d : d = sent[i]
  OBVIOUS
<1>5. PICK k : k = d.request
  OBVIOUS
<1>6. PICK r : r = requests[k]
  OBVIOUS
<1>7. /\ k \in DOMAIN requests /\ r.provider.kind \in {"stun", "dns", "http"}
      /\ r.provider.kind = "dns" => d.message \in DnsMsg /\ d.message.id = k
  <2>1. k \in DOMAIN requests /\ (r.provider.kind = "dns" => d.message \in DnsMsg)
    BY <1>1, <1>3, <1>4, <1>5, <1>6 DEF Carried
  <2>2. r.provider.kind = "dns" => d.message.id = k
    BY <1>3, <1>4, <1>5, <1>6 DEF Identified, IdOf
  <2>3. r.provider.kind \in {"stun", "dns", "http"}
    BY <1>1, <1>6, <2>1, RequestKnown
  <2>4. QED
    BY <2>1, <2>2, <2>3
<1>8. call' = call /\ me' = me /\ call \in PlannedCall
  BY <1>1, CallTyped DEF call, me
<1>9. As("stun", d, NoMsg) = IF r.provider.kind = "stun" THEN d.message ELSE NoMsg
  BY <1>5, <1>6 DEF As
<1>10. As("dns", d, NoPacket) = IF r.provider.kind = "dns" THEN d.message ELSE NoPacket
  BY <1>5, <1>6 DEF As
<1>11. As("stun", d, NoMsg) \in StunMsg /\ As("dns", d, NoPacket) \in DnsMsg
  BY <1>1, <1>2, <1>4, ReceivedTyped
<1>12. /\ requests'[k] = r /\ sent'[got'.reply] = d
  BY <1>1, <1>2, <1>4, <1>6 DEF Recv
<1>13. ASSUME call.provider.kind = "stun"
       PROVE  StunTakes(d)'
  <2>1. PICK m : m = As("stun", d, NoMsg)
    OBVIOUS
  <2>2. PICK n \in (setting.cuts \cap 0..m.size) \cup {m.size} :
            got' = [reply |-> i, cut |-> n < m.size] /\ DecodeHeader(Cut(m, HEADER, n))
    BY <1>2, <1>4, <1>13, <2>1 DEF Recv
  <2>3. m.size \in Nat /\ n \in 0..m.size /\ n \in Nat
    <3>1. m.size \in Nat
      BY <1>11, <2>1, StunMsgFields
    <3>2. QED
      BY <3>1
  <2>4. decoding' # "idle"
    BY <2>2 DEF DecodeHeader
  <2>5. CASE r.provider.kind = "stun"
    <3>1. PICK shape, id, saw : shape = d.shape /\ id = StunId(k) /\ saw = d.saw
      OBVIOUS
    <3>2. Sayable(shape, id, saw) /\ m \in StunMsg /\ m = StunMessageOf(shape, id, saw)
      BY <1>1, <1>3, <1>4, <1>5, <1>6, <1>9, <2>1, <2>5, <3>1, StunSent
    <3>3. /\ StunReads(shape, id, saw)' /\ msg'.size = n
          /\ m.size = HEADER + Len(StunBody(shape, id, saw))
      BY <2>2, <2>3, <3>2, StunReadsBegin
    <3>4. ~got'.cut => n = m.size
      <4>1. got'.cut = (n < m.size)
        BY <2>2
      <4>2. n < m.size => got'.cut
        BY <4>1, Zenon
      <4>3. n < m.size \/ n = m.size
        BY <2>3
      <4>4. QED
        BY <4>2, <4>3, Zenon
    <3>5. ~got'.cut => msg'.size = HEADER + Len(StunBody(shape, id, saw))
      BY <3>3, <3>4
    <3>6. requests'[d.request].provider.kind = "stun"
      BY <1>5, <1>12, <2>5
    <3>7. StunReads(d.shape, StunId(d.request), d.saw)'
      BY <1>5, <3>1, <3>3 DEF StunReads, AllListed, StunHeard, Listed
    <3>8. QED
      BY <1>5, <2>4, <3>1, <3>5, <3>6, <3>7 DEF StunTakes
  <2>6. CASE r.provider.kind # "stun"
    <3>1. m = NoMsg
      BY <1>9, <2>1, <2>6
    <3>2. decoding' = "rejected"
      BY <2>2, <2>3, <3>1, EmptyRejected
    <3>3. requests'[d.request].provider.kind # "stun"
      BY <1>5, <1>12, <2>6
    <3>4. QED
      BY <3>2, <3>3 DEF StunTakes
  <2>7. QED
    BY <2>5, <2>6
<1>14. ASSUME call.provider.kind # "stun"
       PROVE  DnsTakes(d)'
  <2>1. PICK m : m = As("dns", d, NoPacket)
    OBVIOUS
  <2>2. PICK n \in (setting.cuts \cap 0..m.size) \cup {m.size} :
            /\ got' = [reply |-> i, cut |-> n < m.size]
            /\ ParseHeader(Cut(m, HEADER_LEN, n), me, RecordType)
    BY <1>2, <1>4, <1>14, <2>1 DEF Recv
  <2>3. m.size \in Nat /\ n \in 0..m.size /\ n \in Nat
    <3>1. m.size \in Nat
      BY <1>11, <2>1, DnsMsgFields
    <3>2. QED
      BY <3>1
  <2>4. parsing' # "idle"
    BY <2>2 DEF ParseHeader
  <2>5. CASE r.provider.kind = "dns" /\ k = me
    <3>1. call.provider.kind = "dns" /\ QueryIsValid(call.provider.domain)
      BY <1>1, <1>8, <1>14 DEF Ways, WithSocket, PlannedCall
    <3>2. r.provider = call.provider /\ r.type = RecordType
      BY <1>1, <1>6, <2>5, <3>1 DEF Asks
    <3>3. PICK shape, q, saw : shape = d.shape /\ q = AskedFor(r) /\ saw = d.saw
      OBVIOUS
    <3>4. Answerable(shape, q, saw) /\ m \in DnsMsg /\ m = DnsMessageOf(shape, me, Inquiry(q), saw)
      BY <1>1, <1>3, <1>4, <1>5, <1>6, <1>10, <2>1, <2>5, <3>1, <3>2, <3>3, DnsSent
    <3>5. q.type = RecordType
      BY <3>2, <3>3 DEF AskedFor
    <3>6. /\ DnsReads(shape, q, saw)' /\ packet'.size = n
          /\ m.size = HEADER_LEN + Len(DnsBody(shape, q, saw))
      BY <2>2, <2>3, <3>4, <3>5, DnsReadsBegin
    <3>7. ~got'.cut => n = m.size
      <4>1. got'.cut = (n < m.size)
        BY <2>2
      <4>2. n < m.size => got'.cut
        BY <4>1, Zenon
      <4>3. n < m.size \/ n = m.size
        BY <2>3
      <4>4. QED
        BY <4>2, <4>3, Zenon
    <3>8. ~got'.cut => packet'.size = HEADER_LEN + Len(DnsBody(shape, q, saw))
      BY <3>6, <3>7
    <3>9. requests'[d.request] = r /\ r.provider.kind = "dns" /\ d.request = me'
      BY <1>5, <1>8, <1>12, <2>5
    <3>10. QED
      BY <2>4, <3>3, <3>6, <3>8, <3>9 DEF DnsTakes
  <2>6. CASE ~(r.provider.kind = "dns" /\ k = me)
    <3>1. parsing' = "rejected"
      <4>1. CASE r.provider.kind # "dns"
        <5>1. m = NoPacket
          BY <1>10, <2>1, <4>1
        <5>2. QED
          BY <2>2, <2>3, <5>1, EmptyRejected
      <4>2. CASE r.provider.kind = "dns"
        <5>1. m \in DnsMsg /\ m.id # me
          BY <1>7, <1>10, <2>1, <2>6, <4>2
        <5>2. QED
          BY <2>2, <5>1, OtherIdRejected
      <4>3. QED
        BY <4>1, <4>2
    <3>2. ~(requests'[d.request].provider.kind = "dns" /\ d.request = me')
      BY <1>5, <1>8, <1>12, <2>6
    <3>3. QED
      BY <3>1, <3>2 DEF DnsTakes
  <2>7. QED
    BY <2>5, <2>6
<1>15. QED
  BY <1>8, <1>12, <1>13, <1>14 DEF Understood, StunTakes, DnsTakes

(* The parsers do not change what they read. *)
LEMMA PacketStays == DnsStep => packet' = packet
BY DEF DnsStep, NextQuestion, QuestionName, SkipQuestion, NextAnswer, AnswerName, SkipName,
   ReadRecord, ReadString, TextDone, ParserEnds

(* ... nor do they start again. *)
LEMMA ParsingGoesOn == DnsStep => parsing' # "idle"
BY DEF DnsStep, NextQuestion, QuestionName, SkipQuestion, NextAnswer, AnswerName, SkipName,
   ReadRecord, ReadString, TextDone, ParserEnds

(* The steps of the codecs go on with what the server said. *)
LEMMA UnderstoodByParse ==
    ASSUME IInv, Calling, Understood, Parse
    PROVE  Understood'
<1>1. /\ phase = "parse" /\ UNCHANGED callVars /\ Told /\ Asks /\ Ways /\ Gotten /\ Made
      /\ Carried /\ Decoding /\ Reading
  BY DEF IInv, Calling, Parse
<1>2. /\ UNCHANGED <<calls, phase, requests, sent, got>> /\ call' = call /\ me' = me
  BY <1>1 DEF callVars, call, me
<1>3. PICK d : d = sent[got.reply]
  OBVIOUS
<1>4. /\ got.reply \in DOMAIN sent /\ sent'[got'.reply] = d
      /\ d.request \in DOMAIN requests
      /\ call.provider.kind = "stun" => StunTakes(d)
      /\ call.provider.kind # "stun" => DnsTakes(d)
  BY <1>1, <1>2, <1>3 DEF Gotten, Understood, Carried
<1>5. ASSUME call.provider.kind = "stun" PROVE StunTakes(d)'
  <2>1. StunStep /\ msg' = msg /\ decoding # "rejected"
    BY <1>5, ParsersKeep DEF Parse
  <2>2. PICK shape, id, saw : shape = d.shape /\ id = StunId(d.request) /\ saw = d.saw
    OBVIOUS
  <2>3. /\ requests[d.request].provider.kind = "stun" /\ StunReads(shape, id, saw)
        /\ ~got.cut => msg.size = HEADER + Len(StunBody(shape, id, saw))
    BY <1>4, <1>5, <2>1, <2>2 DEF StunTakes
  <2>4. Sayable(shape, id, saw)
    BY <1>1, <1>3, <1>4, <2>2, <2>3, StunSent
  <2>5. StunReads(shape, id, saw)'
    BY <1>1, <2>1, <2>3, <2>4, StunReadsOn
  <2>6. decoding' # "idle"
    BY <2>1 DEF StunStep, DecodeAttribute, DecodeDone, DecodeEnds
  <2>7. requests'[d.request].provider.kind = "stun"
        /\ (~got'.cut => msg'.size = HEADER + Len(StunBody(shape, id, saw)))
    BY <1>2, <2>1, <2>3
  <2>8. QED
    BY <2>2, <2>5, <2>6, <2>7 DEF StunTakes
<1>6. ASSUME call.provider.kind # "stun" PROVE DnsTakes(d)'
  <2>1. DnsStep /\ packet' = packet /\ parsing # "rejected" /\ parsing' # "idle"
    BY <1>6, ParsersKeep, PacketStays, ParsingGoesOn DEF Parse
  <2>2. PICK r : r = requests[d.request]
    OBVIOUS
  <2>3. PICK shape, q, saw : shape = d.shape /\ q = AskedFor(r) /\ saw = d.saw
    OBVIOUS
  <2>4. /\ r.provider.kind = "dns" /\ d.request = me
        /\ DnsReads(shape, q, saw)
        /\ ~got.cut => packet.size = HEADER_LEN + Len(DnsBody(shape, q, saw))
    BY <1>4, <1>6, <2>1, <2>2, <2>3 DEF DnsTakes
  <2>5. QueryIsValid(r.provider.domain)
    <3>1. r.provider = call.provider
      BY <1>1, <2>2, <2>4 DEF Asks
    <3>2. QED
      BY <1>1, <2>4, <3>1 DEF Ways, WithSocket
  <2>6. Answerable(shape, q, saw)
    BY <1>1, <1>3, <1>4, <2>2, <2>3, <2>4, <2>5, DnsSent
  <2>7. DnsReads(shape, q, saw)'
    BY <1>1, <2>1, <2>4, <2>6, DnsReadsOn
  <2>8. /\ requests'[d.request] = r /\ d.request = me'
        /\ ~got'.cut => packet'.size = HEADER_LEN + Len(DnsBody(shape, q, saw))
    BY <1>2, <2>1, <2>2, <2>4
  <2>9. QED
    BY <2>1, <2>3, <2>4, <2>7, <2>8 DEF DnsTakes
<1>7. QED
  BY <1>2, <1>4, <1>5, <1>6 DEF Understood, StunTakes, DnsTakes

(* Nothing happens to a reply while it is parsed but the parser's own steps. *)
LEMMA UnderstoodNext ==
    IInv /\ Identified /\ Calling /\ Understood /\ [Next]_vars => Understood'
<1> SUFFICES ASSUME IInv, Identified, Calling, Understood, [Next]_vars PROVE Understood'
  OBVIOUS
<1>1. CASE Recv
  BY <1>1, UnderstoodByRecv
<1>2. CASE Parse
  BY <1>2, UnderstoodByParse
<1>3. CASE phase' # "parse"
  BY <1>3 DEF Understood
<1>4. CASE ~Recv /\ ~Parse /\ phase' = "parse"
  <2>1. UNCHANGED <<phase, calls, requests, sent, got, stunVars, dnsVars>>
    BY <1>4 DEF Next, CallStep, Network, Begin, SystemFails, TimesOut, Lookup, Bind, Connect,
       Send, Conclude, Fetch, FetchReturns, Reply, Deliver, Move, Tick, Returns, Elsewhere,
       vars, callVars
  <2>2. call' = call /\ me' = me
    BY <2>1 DEF call, me
  <2>3. ASSUME NEW d PROVE StunTakes(d)' = StunTakes(d) /\ DnsTakes(d)' = DnsTakes(d)
    BY <2>1, <2>2 DEF StunTakes, DnsTakes, stunVars, dnsVars, StunReads, AllListed, StunHeard,
       Listed, HeaderIsValid, End, Holds, DnsReads, DnsHeard, WasCut, AnswersRead, NextAt, Turn,
       AtName, AtLabel, AtText, AtString
  <2>4. ASSUME NEW d, phase = "parse", d = sent[got.reply]
        PROVE  /\ call'.provider.kind = "stun" => StunTakes(d)'
               /\ call'.provider.kind # "stun" => DnsTakes(d)'
    BY <2>2, <2>3, <2>4 DEF Understood
  <2>5. ASSUME NEW d, d = sent'[got'.reply]
        PROVE  /\ call'.provider.kind = "stun" => StunTakes(d)'
               /\ call'.provider.kind # "stun" => DnsTakes(d)'
    BY <1>4, <2>1, <2>4, <2>5
  <2>6. QED
    BY <2>5 DEF Understood, StunTakes, DnsTakes
<1>5. QED
  BY <1>1, <1>2, <1>3, <1>4

-----------------------------------------------------------------------------
(* What a call answers with. *)

(* What is known of the reply d that a call has read when it returns. *)
OwnReply(d) ==
    /\ d.request = me /\ me \in DOMAIN requests
    /\ requests[me].provider = call.provider
    /\ requests[me].peer = peer /\ peer \in BOOLEAN
    /\ d.saw \in PublicAddresses(setting) /\ d.saw.v6 = peer /\ d.saw # NoAddr

(* The reply to the own request is one. *)
LEMMA ReplyOwned ==
    ASSUME IInv, Calling, phase \in {"parse", "response"}, NEW i \in DOMAIN sent, NEW d,
           d = sent[i], d.request = me
    PROVE  OwnReply(d) /\ Seen(d.saw)
<1>1. /\ me \in DOMAIN requests /\ requests[me].provider = call.provider
      /\ requests[me].peer = peer /\ Made /\ peer \in BOOLEAN
  BY DEF Calling, Asks, IInv, TypeOK
<1>2. ToldBy(d)
  BY DEF Calling, Told
<1>3. d.saw \in PublicAddresses(setting) /\ d.saw.v6 = peer
  BY <1>1, <1>2 DEF ToldBy
<1>4. Seen(d.saw) /\ d.saw # NoAddr
  BY <1>1, <1>3, PublicSeen
<1>5. QED
  BY <1>1, <1>3, <1>4 DEF OwnReply

(* The family of an address that a STUN server saw is that of the version. *)
LEMMA StunVersion ==
    ASSUME IInv, Calling, phase = "parse", call.provider.kind = "stun", NEW d, OwnReply(d)
    PROVE  Accepts(call.version, d.saw)
<1>1. call \in PlannedCall
  BY CallTyped DEF IInv
<1>2. call.version \in {"V4", "V6", "Any"}
  BY <1>1 DEF PlannedCall
<1>3. (call.version = "V6" => peer = TRUE) /\ (call.version = "V4" => peer = FALSE)
  BY DEF Calling, Ways, WithSocket
<1>4. d.saw.v6 = peer /\ d.saw # NoAddr
  BY DEF OwnReply
<1>5. CASE call.version = "V6"
  BY <1>3, <1>4, <1>5 DEF Accepts
<1>6. CASE call.version = "V4"
  BY <1>3, <1>4, <1>6 DEF Accepts
<1>7. CASE call.version = "Any"
  BY <1>4, <1>7 DEF Accepts
<1>8. QED
  BY <1>2, <1>5, <1>6, <1>7

(* What a call makes of the reply d that it read: when it answers, it answers with
   the address that the server saw, and it answers if the reply is a good one.   *)
AnswersWith(result, d, cut) ==
    /\ result.kind = "ok" =>
          /\ d.request = me /\ result = Ok(d.saw) /\ Accepts(call.version, d.saw)
    /\ ~cut /\ d.request = me /\ Good(call.provider, d.shape) /\ Accepts(call.version, d.saw)
          => result = Ok(d.saw)

(* process_response answers that way, ... *)
LEMMA StunAnswers ==
    ASSUME IInv, Matched, Calling, Understood, phase = "parse", decoding # "attributes",
           call.provider.kind = "stun", NEW d, d = sent[got.reply]
    PROVE  AnswersWith(ProcessResponse, d, got.cut)
<1>1. got.reply \in DOMAIN sent /\ StunTakes(d) /\ Told /\ Decoding /\ Carried
  BY DEF Calling, Gotten, Understood, IInv
<1>2. decoding \in {"rejected", "decoded"} /\ msg \in StunMsg
  BY <1>1 DEF Decoding, StunTakes
<1>3. Failed(decoding).kind # "ok" /\ \A why : Failed(why).kind # "ok"
  BY DEF Failed
<1>4. PICK shape, id, saw : shape = d.shape /\ id = StunId(d.request) /\ saw = d.saw
  OBVIOUS
<1>5. d.request = me => OwnReply(d)
  BY <1>1, ReplyOwned
<1>6. ASSUME requests[d.request].provider.kind = "stun", decoding = "decoded"
      PROVE  /\ GetMappedAddress \in {saw, NoAddr}
             /\ GoodStun(shape) => GetMappedAddress = saw
             /\ msg.method = shape.method
  <2>1. Sayable(shape, id, saw) /\ SentBeside(shape)
    BY <1>1, <1>4, <1>6, StunSent
  <2>2. StunReads(shape, id, saw)
    BY <1>1, <1>4, <1>6 DEF StunTakes
  <2>3. StunHeard(shape, id, saw)
    BY <1>6, <2>2 DEF StunReads, AllListed
  <2>4. /\ GetMappedAddress \in {saw, NoAddr}
        /\ GoodStun(shape) => GetMappedAddress = saw
    BY <1>2, <1>6, <2>1, <2>2, MappedAddressFound
  <2>5. QED
    BY <2>3, <2>4 DEF StunHeard
<1>7. ASSUME ProcessResponse.kind = "ok"
      PROVE  d.request = me /\ ProcessResponse = Ok(d.saw) /\ Accepts(call.version, d.saw)
  <2>1. /\ decoding = "decoded" /\ msg.id = StunId(me) /\ GetMappedAddress # NoAddr
        /\ ProcessResponse = Ok(GetMappedAddress)
    BY <1>3, <1>7, Zenon DEF ProcessResponse
  <2>2. d.request = me
    BY <2>1, StunIdsDiffer DEF Matched
  <2>3. requests[d.request].provider.kind = "stun"
    BY <1>1, <2>1 DEF StunTakes
  <2>4. GetMappedAddress = saw
    BY <1>6, <2>1, <2>3
  <2>5. QED
    BY <1>4, <1>5, <2>1, <2>2, <2>4, StunVersion
<1>8. ASSUME ~got.cut, d.request = me, Good(call.provider, shape)
      PROVE  ProcessResponse = Ok(d.saw)
  <2>1. GoodStun(shape) /\ OwnReply(d)
    BY <1>5, <1>8 DEF Good
  <2>2. requests[d.request].provider.kind = "stun"
    BY <1>8, <2>1 DEF OwnReply
  <2>3. StunReads(shape, id, saw) /\ msg.size = HEADER + Len(StunBody(shape, id, saw))
    BY <1>1, <1>4, <1>8, <2>2 DEF StunTakes
  <2>4. decoding = "decoded"
    BY <1>2, <2>1, <2>3 DEF StunReads
  <2>5. GetMappedAddress = saw /\ msg.method = Response
    BY <1>6, <2>1, <2>2, <2>4 DEF GoodStun
  <2>6. msg.id = StunId(me)
    BY <1>8, <2>4 DEF Matched
  <2>7. saw # NoAddr
    BY <1>4, <2>1 DEF OwnReply
  <2>8. QED
    BY <1>4, <2>4, <2>5, <2>6, <2>7 DEF ProcessResponse
<1>9. QED
  BY <1>4, <1>7, <1>8 DEF AnswersWith

(* What the parser has taken from the reply d of a DNS server. *)
TookFrom(d, type, taken, cut) ==
    LET says == DnsSays(d.shape, type, d.saw)
    IN  /\ Len(taken) <= Len(says) /\ taken = SubSeq(says, 1, Len(taken))
        /\ ~cut => taken = says

(* The reply to the own question is parsed as one, as far as it goes. *)
LEMMA DnsTook ==
    ASSUME IInv, Matched, Calling, Understood, phase = "parse", call.provider.kind = "dns",
           NEW d, d = sent[got.reply], d.request = me
    PROVE  /\ OwnReply(d) /\ Seen(d.saw)
           /\ \E q : /\ q = AskedFor(requests[me]) /\ q.type = RecordType
                     /\ Answerable(d.shape, q, d.saw) /\ DnsReads(d.shape, q, d.saw)
                     /\ ~got.cut => ~WasCut(d.shape, q, d.saw)
                     /\ d.saw.v6 = (call.version = "V6")
<1>1. got.reply \in DOMAIN sent /\ DnsTakes(d) /\ Told /\ Made /\ Asks /\ Ways
  BY DEF Calling, Gotten, Understood, IInv
<1>2. OwnReply(d) /\ Seen(d.saw)
  BY <1>1, ReplyOwned
<1>3. PICK r : r = requests[me]
  OBVIOUS
<1>4. r.provider = call.provider /\ r.type = RecordType /\ r.peer = peer
  BY <1>1, <1>3 DEF Asks
<1>5. QueryIsValid(r.provider.domain) /\ peer = SelectResolver
  BY <1>1, <1>4 DEF Ways, WithSocket
<1>6. PICK shape, q, saw : shape = d.shape /\ q = AskedFor(r) /\ saw = d.saw
  OBVIOUS
<1>7. Answerable(shape, q, saw)
  BY <1>1, <1>3, <1>4, <1>5, <1>6, DnsSent
<1>8. /\ DnsReads(shape, q, saw)
      /\ ~got.cut => packet.size = HEADER_LEN + Len(DnsBody(shape, q, saw))
  BY <1>1, <1>3, <1>4, <1>6 DEF DnsTakes
<1>9. ~got.cut => ~WasCut(shape, q, saw)
  <2>1. Len(DnsBody(shape, q, saw)) \in Nat
    BY <1>7, BodyTyped
  <2>2. QED
    BY <1>8, <2>1 DEF WasCut, HEADER_LEN
<1>10. q.type = RecordType
  BY <1>4, <1>6 DEF AskedFor
<1>11. d.saw.v6 = (call.version = "V6")
  <2>1. /\ call \in PlannedCall /\ Len(calls) \in DOMAIN setting.plan
        /\ call = setting.plan[Len(calls)] /\ scenario \in DOMAIN Settings
    BY <1>1, CallTyped DEF Made
  <2>2. Supports(call.provider, call.version)
    BY <2>1, SettingsAssumption DEF setting
  <2>3. call.version = "V6" => call.provider.v6
    BY <2>2 DEF Supports
  <2>4. d.saw.v6 = peer /\ call.provider.v6 \in BOOLEAN
    BY <1>2, <2>1 DEF OwnReply, PlannedCall
  <2>5. QED
    BY <1>5, <2>3, <2>4 DEF SelectResolver
<1>12. QED
  BY <1>2, <1>3, <1>6, <1>7, <1>8, <1>9, <1>10, <1>11

(* ... and so does the resolver, from the records it has taken, ... *)
LEMMA DnsAnswers ==
    ASSUME IInv, Matched, Calling, Understood, phase = "parse",
           parsing \in {"parsed", "rejected", "panicked"},
           call.provider.kind = "dns", NEW d, d = sent[got.reply]
    PROVE  /\ AnswersWith(ExtractResult, d, got.cut)
           /\ parsing = "parsed" => TookFrom(d, rtype, results, got.cut)
<1>1. got.reply \in DOMAIN sent /\ parsing \in {"parsed", "rejected"} /\ call \in PlannedCall
  BY CallTyped DEF Calling, Gotten, IInv, Reading
<1>2. \A why : Failed(why).kind # "ok"
  BY DEF Failed
<1>3. parsing = "parsed" => d.request = me
  BY DEF Matched
<1>4. PICK shape, saw : shape = d.shape /\ saw = d.saw
  OBVIOUS
<1>5. ASSUME d.request = me
      PROVE  \E q : /\ q.type = RecordType
                    /\ Answerable(shape, q, saw) /\ DnsReads(shape, q, saw)
                    /\ ~got.cut => ~WasCut(shape, q, saw)
                    /\ saw.v6 = (call.version = "V6")
                    /\ OwnReply(d) /\ Seen(saw)
  BY <1>4, <1>5, DnsTook
<1>6. ASSUME parsing = "parsed"
      PROVE  /\ TookFrom(d, rtype, results, got.cut)
             /\ ExtractIp(call.version) =
                    IF results # <<>> /\ Accepts(call.version, saw) THEN saw ELSE NoAddr
             /\ saw # NoAddr
  <2>1. PICK q : /\ q.type = RecordType
                 /\ Answerable(shape, q, saw) /\ DnsReads(shape, q, saw)
                 /\ ~got.cut => ~WasCut(shape, q, saw)
                 /\ OwnReply(d) /\ Seen(saw)
    BY <1>3, <1>5, <1>6
  <2>2. Taken(shape, q, saw)
    BY <1>6, <2>1, RecordsTaken
  <2>3. TookFrom(d, rtype, results, got.cut)
    BY <1>4, <2>1, <2>2 DEF Taken, TookFrom
  <2>4. results \in Seq(Said(saw))
    BY <2>2 DEF Taken
  <2>5. PICK version : version = call.version
    OBVIOUS
  <2>6. ExtractIp(version) = IF results # <<>> /\ Accepts(version, saw) THEN saw ELSE NoAddr
    BY <2>1, <2>4, AddressExtracted
  <2>7. QED
    BY <1>4, <2>1, <2>3, <2>5, <2>6 DEF OwnReply
<1>7. ASSUME ExtractResult.kind = "ok"
      PROVE  d.request = me /\ ExtractResult = Ok(d.saw) /\ Accepts(call.version, d.saw)
  <2>1. /\ parsing = "parsed" /\ ExtractIp(call.version) # NoAddr
        /\ ExtractResult = Ok(ExtractIp(call.version))
    BY <1>2, <1>7, Zenon DEF ExtractResult
  <2>2. QED
    BY <1>3, <1>4, <1>6, <2>1
<1>8. ASSUME ~got.cut, d.request = me, Good(call.provider, d.shape), Accepts(call.version, d.saw)
      PROVE  ExtractResult = Ok(d.saw)
  <2>1. PICK q : /\ q.type = RecordType
                 /\ Answerable(shape, q, saw) /\ DnsReads(shape, q, saw)
                 /\ ~WasCut(shape, q, saw)
                 /\ saw.v6 = (call.version = "V6")
                 /\ OwnReply(d) /\ Seen(saw)
    BY <1>5, <1>8
  <2>2. PICK txt : txt = call.provider.txt
    OBVIOUS
  <2>3. txt \in BOOLEAN /\ GoodDns(shape, txt)
    BY <1>1, <1>4, <1>8, <2>2 DEF Good, PlannedCall
  <2>4. q.type = IF txt THEN Txt ELSE IF saw.v6 THEN Aaaa ELSE A
    BY <2>1, <2>2 DEF RecordType
  <2>5. parsing = "parsed" /\ results # <<>>
    BY <1>1, <2>1, <2>3, <2>4, GoodIsTaken
  <2>6. ExtractIp(call.version) = saw /\ saw # NoAddr
    BY <1>4, <1>6, <1>8, <2>5
  <2>7. QED
    BY <1>4, <2>5, <2>6 DEF ExtractResult
<1>9. QED
  BY <1>6, <1>7, <1>8 DEF AnswersWith

(* A line that has the address is read as it, and no other line as an
   address.                                                                  *)
LEMMA LinesRead ==
    ASSUME NEW lines, NEW n \in Nat, DOMAIN lines = 1..n, NEW saw
    PROVE  /\ ParsePlainText(lines, saw) \in {saw, NoAddr}
           /\ ParseCloudflareTrace(lines, saw) \in {saw, NoAddr}
           /\ \A i \in 1..n :
                 /\ lines[i].key = "ip" /\ lines[i].value = "saw"
                 /\ \A j \in 1..i-1 : lines[j].key # "ip"
                 => ParseCloudflareTrace(lines, saw) = saw
<1> DEFINE ip == {i \in DOMAIN lines : lines[i].key = "ip"}
           first == CHOOSE i \in ip : \A j \in ip : i <= j
<1>1. \A line : LineAddress(line, saw) \in {saw, NoAddr}
  BY DEF LineAddress
<1>2. ParsePlainText(lines, saw) \in {saw, NoAddr}
  BY <1>1 DEF ParsePlainText
<1>3. ParseCloudflareTrace(lines, saw) = IF ip = {} THEN NoAddr ELSE LineAddress(lines[first], saw)
  BY DEF ParseCloudflareTrace
<1>4. ASSUME NEW i \in 1..n, lines[i].key = "ip", lines[i].value = "saw",
             \A j \in 1..i-1 : lines[j].key # "ip"
      PROVE  ParseCloudflareTrace(lines, saw) = saw
  <2>1. i \in ip /\ ip \subseteq 1..n
    BY <1>4
  <2>2. ASSUME NEW j \in ip PROVE i <= j
    <3>1. j \in 1..n /\ lines[j].key = "ip"
      OBVIOUS
    <3>2. j \notin 1..i-1
      BY <1>4, <3>1
    <3>3. QED
      BY <3>1, <3>2
  <2>3. ASSUME NEW f \in ip, \A j \in ip : f <= j PROVE f = i
    <3>1. f <= i /\ i <= f /\ f \in 1..n
      BY <2>1, <2>2, <2>3
    <3>2. QED
      BY <3>1
  <2>4. first = i
    <3> HIDE DEF ip
    <3>1. \E f \in ip : \A j \in ip : f <= j
      BY <2>1, <2>2
    <3>2. first \in ip /\ \A j \in ip : first <= j
      BY <3>1
    <3> HIDE DEF first
    <3>3. QED
      BY <2>3, <3>2
  <2> HIDE DEF first, ip
  <2>5. LineAddress(lines[i], saw) = saw
    BY <1>4 DEF LineAddress
  <2>6. QED
    BY <1>3, <2>1, <2>4, <2>5
<1>5. ParseCloudflareTrace(lines, saw) \in {saw, NoAddr}
  <2> HIDE DEF first, ip
  <2>1. QED
    BY <1>1, <1>3
<1>6. QED
  BY <1>2, <1>4, <1>5

(* ... and the HTTP provider, from the body. *)
LEMMA HttpAnswers ==
    ASSUME IInv, Calling, phase = "response", NEW i \in DOMAIN sent, NEW d,
           d = sent[i], d.request = me
    PROVE  AnswersWith(HttpResult(d), d, FALSE)
<1>1. OwnReply(d) /\ ToldBy(d) /\ Made /\ call.provider.kind = "http"
  BY ReplyOwned DEF Calling, Told, Ways, IInv
<1>2. requests[d.request].provider.kind = "http" /\ d.saw # NoAddr
  BY <1>1 DEF OwnReply
<1>3. d.shape \in setting.shapes.http /\ d.message = d.shape.lines
  BY <1>1, <1>2 DEF ToldBy, MessageOf
<1>4. d.shape \in HttpShape
  BY <1>1, <1>3, ServersAssumption DEF Made, setting
<1>5. PICK lines, saw : lines = d.shape.lines /\ saw = d.saw
  OBVIOUS
<1>6. PICK n \in Nat : DOMAIN lines = 1..n /\ n = Len(lines)
  BY <1>4, <1>5, LenProperties DEF HttpShape
<1>7. /\ ParsePlainText(lines, saw) \in {saw, NoAddr}
      /\ ParseCloudflareTrace(lines, saw) \in {saw, NoAddr}
      /\ \A k \in 1..n :
            /\ lines[k].key = "ip" /\ lines[k].value = "saw"
            /\ \A j \in 1..k-1 : lines[j].key # "ip"
            => ParseCloudflareTrace(lines, saw) = saw
  BY <1>6, LinesRead
<1> DEFINE ip == IF call.provider.trace THEN ParseCloudflareTrace(lines, saw)
                                        ELSE ParsePlainText(lines, saw)
<1>8. ip \in {saw, NoAddr}
  BY <1>7
<1>9. HttpResult(d) = IF ~d.shape.success THEN Failed("status")
                      ELSE IF ip = NoAddr THEN Failed("nothing")
                      ELSE IF ~Accepts(call.version, ip) THEN Failed("version")
                      ELSE Ok(ip)
  BY <1>3, <1>5 DEF HttpResult
<1>10. Good(call.provider, d.shape) => d.shape.success /\ ip = saw
  <2> SUFFICES ASSUME Good(call.provider, d.shape) PROVE d.shape.success /\ ip = saw
    OBVIOUS
  <2>1. GoodHttp(d.shape, call.provider.trace)
    BY <1>1 DEF Good
  <2>2. CASE call.provider.trace
    <3>1. PICK k \in DOMAIN lines : /\ lines[k] = [key |-> "ip", value |-> "saw"]
                                    /\ \A j \in 1..k-1 : lines[j].key # "ip"
      BY <1>5, <2>1, <2>2 DEF GoodHttp
    <3>2. lines[k].key = "ip" /\ lines[k].value = "saw"
      BY <3>1
    <3>3. QED
      BY <1>6, <1>7, <2>1, <2>2, <3>1, <3>2 DEF GoodHttp
  <2>3. CASE ~call.provider.trace
    <3>1. Len(lines) = 1 /\ lines[1] = [key |-> "", value |-> "saw"]
      BY <1>5, <2>1, <2>3 DEF GoodHttp
    <3>2. PICK line : line = lines[1]
      OBVIOUS
    <3>3. line = [key |-> "", value |-> "saw"]
      BY <3>1, <3>2
    <3>4. line.key = "" /\ line.value = "saw"
      BY <3>3
    <3>5. ParsePlainText(lines, saw) = saw
      BY <3>1, <3>2, <3>4 DEF ParsePlainText, LineAddress
    <3>6. QED
      BY <2>1, <2>3, <3>5 DEF GoodHttp
  <2>4. QED
    BY <2>2, <2>3
<1> HIDE DEF ip
<1>11. \A why : Failed(why).kind # "ok"
  BY DEF Failed
<1>12. HttpResult(d).kind = "ok" => HttpResult(d) = Ok(saw) /\ Accepts(call.version, saw)
  BY <1>8, <1>9, <1>11
<1>13. Good(call.provider, d.shape) /\ Accepts(call.version, saw) => HttpResult(d) = Ok(saw)
  BY <1>2, <1>5, <1>9, <1>10
<1>14. QED
  BY <1>5, <1>12, <1>13 DEF AnswersWith

-----------------------------------------------------------------------------
(* Every step keeps the answers right. *)

(* What is to be proved of every call that has returned. *)
Answers == AnswerIsWhatServerSaw /\ GoodReplyIsUsed /\ CutsLoseOnlyTheTail /\ VersionHonoured

(* A call that returned with the reply d. *)
LEMMA AnsweredWith ==
    ASSUME NEW i \in DOMAIN sent, NEW d, d = sent[i],
           UNCHANGED <<calls, requests, sent>>, got'.reply = i,
           AnswersWith(outcome', d, got'.cut),
           parsing' = "parsed" => TookFrom(d, rtype', results', got'.cut)
    PROVE  Answers'
<1>1. me' = me /\ call' = call /\ i \in DOMAIN sent' /\ sent'[i] = d
  BY DEF me, call
<1>2. Received' = d
  BY <1>1 DEF Received
<1>3. \A ip : Ok(ip).ip = ip
  BY DEF Ok
<1>4. AnswerIsWhatServerSaw'
  BY <1>1, <1>3 DEF AnswersWith, AnswerIsWhatServerSaw
<1>5. VersionHonoured'
  BY <1>1, <1>3 DEF AnswersWith, VersionHonoured
<1>6. GoodReplyIsUsed'
  BY <1>1, <1>2 DEF AnswersWith, GoodReplyIsUsed
<1>7. CutsLoseOnlyTheTail'
  BY <1>2 DEF TookFrom, CutsLoseOnlyTheTail
<1>8. QED
  BY <1>4, <1>5, <1>6, <1>7 DEF Answers

(* A call that has not returned, or not with a reply. *)
LEMMA AnsweredNothing ==
    ASSUME outcome'.kind # "ok", ~(phase' = "returned" /\ got'.reply # 0)
    PROVE  Answers'
BY DEF Answers, AnswerIsWhatServerSaw, GoodReplyIsUsed, CutsLoseOnlyTheTail, VersionHonoured,
   Replied

(* What a call returned stays true of it, whatever else is sent. *)
LEMMA AnsweredStays ==
    ASSUME Answers, Carried, Gotten,
           UNCHANGED <<calls, phase, requests, got, outcome, dnsVars>>,
           sent' = sent \/ \E d : sent' = Append(sent, d)
    PROVE  Answers'
<1>1. \A i \in DOMAIN sent : i \in DOMAIN sent' /\ sent'[i] = sent[i]
  <2>1. ASSUME NEW d, sent' = Append(sent, d)
        PROVE  \A i \in DOMAIN sent : i \in DOMAIN sent' /\ sent'[i] = sent[i]
    BY <2>1, AppendedValue DEF Carried
  <2>2. QED
    BY <2>1
<1>2. me' = me /\ call' = call /\ parsing' = parsing /\ rtype' = rtype /\ results' = results
  BY DEF me, call, dnsVars
<1>3. Replied' = Replied /\ (Replied => Received' = Received)
  BY <1>1 DEF Replied, Received, Gotten
<1>4. AnswerIsWhatServerSaw'
  BY <1>1, <1>2 DEF Answers, AnswerIsWhatServerSaw
<1>5. VersionHonoured'
  BY <1>2 DEF Answers, VersionHonoured
<1>6. GoodReplyIsUsed'
  BY <1>2, <1>3 DEF Answers, GoodReplyIsUsed
<1>7. CutsLoseOnlyTheTail'
  BY <1>2, <1>3 DEF Answers, CutsLoseOnlyTheTail
<1>8. QED
  BY <1>4, <1>5, <1>6, <1>7 DEF Answers

(* A call that concludes what it parsed answers right, ... *)
LEMMA AnswersByConclude ==
    ASSUME IInv, Matched, Calling, Understood, Conclude
    PROVE  Answers'
<1>1. /\ phase = "parse" /\ UNCHANGED <<calls, requests, sent, got, dnsVars>> /\ Gotten /\ Ways
  BY DEF Conclude, Quiet, Unparsed, Calling
<1>2. PICK i \in DOMAIN sent : i = got.reply
  BY <1>1 DEF Gotten
<1>3. PICK d : d = sent[i]
  OBVIOUS
<1>4. parsing' = parsing /\ rtype' = rtype /\ results' = results
  BY <1>1 DEF dnsVars
<1>5. CASE call.provider.kind = "stun"
  <2>1. outcome' = ProcessResponse /\ decoding # "attributes"
    BY <1>5 DEF Conclude, Returns
  <2>2. AnswersWith(ProcessResponse, d, got.cut)
    BY <1>1, <1>2, <1>3, <1>5, <2>1, StunAnswers
  <2>3. parsing # "parsed"
    BY <1>1, <1>5 DEF Gotten
  <2>4. QED
    BY <1>1, <1>2, <1>3, <1>4, <2>1, <2>2, <2>3, AnsweredWith
<1>6. CASE call.provider.kind # "stun"
  <2>1. outcome' = ExtractResult /\ parsing \in {"parsed", "rejected", "panicked"}
    BY <1>6 DEF Conclude, Returns
  <2>2. call.provider.kind = "dns"
    BY <1>1, <2>1 DEF Gotten
  <2>3. /\ AnswersWith(ExtractResult, d, got.cut)
        /\ parsing = "parsed" => TookFrom(d, rtype, results, got.cut)
    BY <1>1, <1>2, <1>3, <2>1, <2>2, DnsAnswers
  <2>4. QED
    BY <1>1, <1>2, <1>3, <1>4, <2>1, <2>3, AnsweredWith
<1>7. QED
  BY <1>5, <1>6

(* ... and so does one that fetched; ... *)
LEMMA AnswersByFetch ==
    ASSUME IInv, Calling, FetchReturns
    PROVE  Answers'
<1>1. PICK i \in DOMAIN sent : /\ sent[i].request = me
                              /\ got' = [reply |-> i, cut |-> FALSE]
                              /\ outcome' = HttpResult(sent[i])
  BY DEF FetchReturns, Returns
<1>2. phase = "response" /\ UNCHANGED <<calls, requests, sent, dnsVars>> /\ Gotten
  BY DEF FetchReturns, Quiet, Unparsed, Calling
<1>3. PICK d : d = sent[i]
  OBVIOUS
<1>4. AnswersWith(HttpResult(d), d, FALSE)
  BY <1>1, <1>2, <1>3, HttpAnswers
<1>5. got'.reply = i /\ got'.cut = FALSE
  BY <1>1
<1>6. parsing' # "parsed"
  BY <1>2 DEF Gotten, dnsVars
<1>7. QED
  BY <1>1, <1>2, <1>3, <1>4, <1>5, <1>6, AnsweredWith

(* ... no other step returns an answer. *)
LEMMA AnswersNext ==
    IInv /\ Matched /\ Calling /\ Understood /\ Answers /\ [Next]_vars => Answers'
<1> SUFFICES ASSUME IInv, Matched, Calling, Understood, Answers, [Next]_vars PROVE Answers'
  OBVIOUS
<1>1. Carried /\ Gotten /\ Idle.kind # "ok" /\ \A why : Failed(why).kind # "ok"
  BY DEF IInv, Calling, Idle, Failed
<1>2. ASSUME phase \notin {"parse", "returned"}, got' = got, outcome'.kind # "ok"
      PROVE  Answers'
  BY <1>1, <1>2, AnsweredNothing DEF Gotten
<1>3. CASE Begin
  <2>1. outcome'.kind # "ok"
    BY <1>1, <1>3 DEF Begin, Returns
  <2>2. got'.reply = 0
    BY <1>3 DEF Begin, Nothing
  <2>3. QED
    BY <2>1, <2>2, AnsweredNothing
<1>4. CASE SystemFails \/ TimesOut
  BY <1>1, <1>2, <1>4 DEF SystemFails, TimesOut, Waiting, Returns
<1>5. CASE Lookup \/ Bind \/ Connect \/ Send
  <2>1. phase \in {"lookup", "bind", "connect", "send"} /\ got' = got
        /\ (outcome' = outcome \/ \E why : outcome' = Failed(why))
    BY <1>5 DEF Lookup, Bind, Connect, Send, Returns
  <2>2. outcome.kind # "ok"
    BY <2>1 DEF Matched
  <2>3. QED
    BY <1>1, <1>2, <2>1, <2>2
<1>6. CASE Recv \/ Parse \/ Fetch
  <2>1. phase \in {"recv", "parse", "fetch"} /\ outcome' = outcome /\ phase' # "returned"
    BY <1>6 DEF Recv, Parse, Fetch, callVars
  <2>2. outcome.kind # "ok"
    BY <2>1 DEF Matched
  <2>3. QED
    BY <2>1, <2>2, AnsweredNothing
<1>7. CASE Conclude
  BY <1>7, AnswersByConclude
<1>8. CASE FetchReturns
  BY <1>8, AnswersByFetch
<1>9. CASE Tick \/ Network \/ UNCHANGED vars
  <2>1. /\ UNCHANGED <<calls, phase, requests, got, outcome, dnsVars>>
        /\ sent' = sent \/ \E d : sent' = Append(sent, d)
    BY <1>9 DEF Tick, Network, Reply, Deliver, Move, Elsewhere, vars, callVars
  <2>2. QED
    BY <1>1, <2>1, AnsweredStays
<1>10. QED
  BY <1>3, <1>4, <1>5, <1>6, <1>7, <1>8, <1>9 DEF Next, CallStep

(* The invariant: what was asked and told, what the codecs have of it, and
   that the answers are right.                                               *)
AnswerInv == IInv /\ Identified /\ Matched /\ Calling /\ Understood /\ Answers

(* It holds at first, when nothing was asked, ... *)
LEMMA AnswerInvInit == Init => AnswerInv
<1> SUFFICES ASSUME Init PROVE AnswerInv
  OBVIOUS
<1>1. /\ phase = "idle" /\ DOMAIN sent = {} /\ outcome.kind # "ok" /\ got.reply = 0
      /\ parsing = "idle"
  <2>1. Idle.kind = "none"
    BY DEF Idle
  <2>2. Nothing.reply = 0
    BY DEF Nothing
  <2>3. QED
    BY <2>1, <2>2 DEF Init
<1>2. Identified /\ Matched
  BY <1>1 DEF Identified, Matched
<1>3. Calling /\ Understood
  BY <1>1 DEF Calling, Told, Asks, Ways, WithSocket, Gotten, Understood
<1>4. Answers
  BY <1>1 DEF Answers, AnswerIsWhatServerSaw, GoodReplyIsUsed, CutsLoseOnlyTheTail,
     VersionHonoured, Replied
<1>5. QED
  BY <1>2, <1>3, <1>4, IInvInit DEF AnswerInv

(* ... and always. *)
LEMMA AnswerInvHolds == Spec => []AnswerInv
<1>1. AnswerInv /\ [Next]_vars => AnswerInv'
  BY IInvNext, IdentifiedNext, MatchedNext, CallingNext, UnderstoodNext, AnswersNext DEF AnswerInv
<1>2. QED
  BY <1>1, AnswerInvInit, PTL DEF Spec

(* While a call parses, its codec has just what the server said, as far as it
   arrived: decode the first attributes of the message and parse_response the
   first records of the response, each with its own octets; and it rejects no
   whole message that a client of the protocol should read.                  *)
THEOREM CodecsReadWhatWasSaid == Spec => []Understood
<1>1. AnswerInv => Understood
  BY DEF AnswerInv
<1>2. QED
  BY <1>1, AnswerInvHolds, PTL

(* An answer is the address that the server saw in the very request of the
   call: whatever is cut, lost, late, repeated, or meant for an earlier call,
   neither codec makes another address of it, nor one of the octets between. *)
THEOREM AnswersAreSeen == Spec => []AnswerIsWhatServerSaw
<1>1. AnswerInv => AnswerIsWhatServerSaw
  BY DEF AnswerInv, Answers
<1>2. QED
  BY <1>1, AnswerInvHolds, PTL

(* A complete reply from which a client of the protocol learns the address is
   answered with that address, not with an error: decode lists all of its
   attributes, parse_response takes all of its records.                      *)
THEOREM GoodRepliesAreUsed == Spec => []GoodReplyIsUsed
<1>1. AnswerInv => GoodReplyIsUsed
  BY DEF AnswerInv, Answers
<1>2. QED
  BY <1>1, AnswerInvHolds, PTL

(* Of a response that the buffer cut, parse_response has the first records,
   each whole or not at all; of one that it did not cut, all of them.        *)
THEOREM OnlyTheTailIsLost == Spec => []CutsLoseOnlyTheTail
<1>1. AnswerInv => CutsLoseOnlyTheTail
  BY DEF AnswerInv, Answers
<1>2. QED
  BY <1>1, AnswerInvHolds, PTL

(* A call that was asked for an address of one family never answers with one
   of the other, also where the server said one.                             *)
THEOREM VersionsAreHonoured == Spec => []VersionHonoured
<1>1. AnswerInv => VersionHonoured
  BY DEF AnswerInv, Answers
<1>2. QED
  BY <1>1, AnswerInvHolds, PTL
=============================================================================
