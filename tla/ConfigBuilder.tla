----------------------------- MODULE ConfigBuilder -----------------------------
(* From a user's wishes to the two Configs: a chain of ConfigBuilder calls and
   build, made by a program that uses the library, by the ipd command line or
   by the Node bindings.                                                     *)
EXTENDS IpTypes, FiniteSets

CONSTANTS
    Features,       \* the protocols the library was compiled with
    BuilderCalls,   \* the calls a program may make
    CliArgs,        \* the command lines ipd may be started with
    NodeOptions,    \* the options a Node program may pass
    MaxCalls        \* a bound of the model: calls in a program's chain

VARIABLES
    front,      \* who makes the calls
    script,     \* CLI and Node: the calls still to come
    calls,      \* history: the calls made, oldest first
    builder,    \* the ConfigBuilder
    built       \* what build returned: the lists of providers of both kinds

vars == <<front, script, calls, builder, built>>
-----------------------------------------------------------------------------
(* BuiltinProvider::ALL *)
ALL == <<"CloudflareStun", "CloudflareDns", "GoogleStun", "GoogleStun1",
         "GoogleStun2", "GoogleDns", "OpenDns", "CloudflareHttp", "Aws">>

Builtins == {ALL[i] : i \in DOMAIN ALL}

ProtocolOf(p) ==
    CASE p \in {"GoogleStun", "GoogleStun1", "GoogleStun2", "CloudflareStun"} -> "Stun"
      [] p \in {"GoogleDns", "CloudflareDns", "OpenDns"} -> "Dns"
      [] p \in {"CloudflareHttp", "Aws"} -> "Http"

(* to_boxed and to_boxed_blocking: OpenDNS has no IPv6 resolver, the HTTP
   providers no IPv6 URL, and a DisabledProvider keeps the traits' defaults. *)
Boxed(p) ==
    [name |-> p, v4 |-> TRUE,
     v6 |-> /\ ProtocolOf(p) \in Features
            /\ p \notin {"OpenDns", "CloudflareHttp", "Aws"}]

NoFilter == [kind |-> "none", protocols |-> {}, selected |-> <<>>]
Protocols(ps) == [kind |-> "protocols", protocols |-> ps, selected |-> <<>>]
Select(sel) == [kind |-> "select", protocols |-> {}, selected |-> sel]

(* ConfigBuilder::new; the timeout counts seconds *)
New == [filter |-> NoFilter, custom |-> <<>>, customBlocking |-> <<>>,
        timeout |-> 10, version |-> "Any", strategy |-> "First", min_agree |-> 2]

AtLeastTwo(n) == IF n < 2 THEN 2 ELSE n

(* Mutations: strategy() does not clamp; protocols() keeps a selection that was
   made before.                                                              *)
MadeUnclamped(b, c) ==
    CASE c.op = "protocols"    -> [b EXCEPT !.filter = Protocols(c.arg)]
      [] c.op = "providers"    -> [b EXCEPT !.filter = Select(c.arg)]
      [] c.op = "add"          -> [b EXCEPT !.custom = Append(@, c.arg)]
      [] c.op = "add_blocking" -> [b EXCEPT !.customBlocking = Append(@, c.arg)]
      [] c.op = "timeout"      -> [b EXCEPT !.timeout = c.arg]
      [] c.op = "version"      -> [b EXCEPT !.version = c.arg]
      [] c.op = "strategy"     -> [b EXCEPT !.strategy = c.arg.name, !.min_agree = c.arg.min_agree]

MadeKeepingSelection(b, c) ==
    IF c.op = "protocols" /\ b.filter.kind = "select" THEN b
    ELSE IF c.op = "protocols" THEN [b EXCEPT !.filter = Protocols(c.arg)]
    ELSE MadeUnclamped(b, c)

(* What one call makes of the builder.  Each filter replaces the one before. *)
Made(b, c) ==
    CASE c.op = "protocols"    -> [b EXCEPT !.filter = Protocols(c.arg)]
      [] c.op = "providers"    -> [b EXCEPT !.filter = Select(c.arg)]
      [] c.op = "add"          -> [b EXCEPT !.custom = Append(@, c.arg)]
      [] c.op = "add_blocking" -> [b EXCEPT !.customBlocking = Append(@, c.arg)]
      [] c.op = "timeout"      -> [b EXCEPT !.timeout = c.arg]
      [] c.op = "version"      -> [b EXCEPT !.version = c.arg]
      [] c.op = "strategy"     -> [b EXCEPT !.strategy = c.arg.name,
                                            !.min_agree = AtLeastTwo(c.arg.min_agree)]

HasCustom(b) == b.custom # <<>> \/ b.customBlocking # <<>>

(* Iterator::filter and collect: the elements of a sequence at the places of S,
   in their order.                                                           *)
Rank(S, i) == Cardinality({j \in S : j <= i})
Nth(S, n) == CHOOSE i \in S : Rank(S, i) = n
Picked(seq, S) == [n \in 1..Cardinality(S) |-> seq[Nth(S, n)]]

(* The built-in part of a list: by filter, or all if nothing is asked for. *)
BuiltinPart(filter, hasCustom) ==
    LET names == CASE filter.kind = "protocols" ->
                        Picked(ALL, {i \in DOMAIN ALL : ProtocolOf(ALL[i]) \in filter.protocols})
                   [] filter.kind = "select" -> filter.selected
                   [] filter.kind = "none" -> IF hasCustom THEN <<>> ELSE ALL
    IN  [i \in DOMAIN names |-> Boxed(names[i])]

(* Mutation: has_custom_providers is asked again for the asynchronous list,
   when append has already emptied the vector of blocking ones.              *)
BuiltAsksTwice(b) ==
    [ready    |-> TRUE,
     blocking |-> BuiltinPart(b.filter, HasCustom(b)) \o b.customBlocking,
     async    |-> BuiltinPart(b.filter, HasCustom([b EXCEPT !.customBlocking = <<>>])) \o b.custom]

(* ConfigBuilder::build *)
Built(b) ==
    [ready    |-> TRUE,
     blocking |-> BuiltinPart(b.filter, HasCustom(b)) \o b.customBlocking,
     async    |-> BuiltinPart(b.filter, HasCustom(b)) \o b.custom]
-----------------------------------------------------------------------------
Called(op, arg) == [op |-> op, arg |-> arg]

(* An Option is a sequence of one element or none. *)
Opt(op, o) == [i \in DOMAIN o |-> Called(op, o[i])]

(* ipd's main: a flag that is not given leaves its list empty. *)
CliCalls(args) ==
    <<Called("version", args.version), Called("strategy", args.strategy),
      Called("timeout", args.timeout)>>
    \o (IF args.protocol = {} THEN <<>> ELSE <<Called("protocols", args.protocol)>>)
    \o (IF args.provider = <<>> THEN <<>> ELSE <<Called("providers", args.provider)>>)

(* The bindings' get_ip: a list that is given counts, be it empty. *)
NodeCalls(options) ==
    Opt("timeout", options.timeout) \o Opt("version", options.version)
    \o Opt("strategy", options.strategy) \o Opt("protocols", options.protocols)
    \o Opt("providers", options.providers)

(* What the types of the builder's methods, of ipd's arguments and of the
   bindings' options let through.                                            *)
AllProtocols == {"Dns", "Http", "Stun"}
StrategyArgs == [name : Strategies, min_agree : Nat]

Operations ==
    {"protocols", "providers", "add", "add_blocking", "timeout", "version", "strategy"}

WellTyped(c) ==
    /\ c.op \in Operations
    /\ c = Called(c.op, c.arg)
    /\ c.op = "protocols" => c.arg \in SUBSET AllProtocols
    /\ c.op = "providers" => c.arg \in Seq(Builtins)
    /\ c.op \in {"add", "add_blocking"} => c.arg \in Provider
    /\ c.op = "timeout" => c.arg \in Nat
    /\ c.op = "version" => c.arg \in Versions
    /\ c.op = "strategy" => c.arg \in StrategyArgs

(* A name is a string.  TLC evaluates it: the provers have no rule that says so
   of a string literal.                                                      *)
ASSUME NamesAssumption == Builtins \subseteq STRING

ASSUME CallsAssumption ==
    /\ \A c \in BuilderCalls : WellTyped(c)
    /\ CliArgs \subseteq [version : Versions, strategy : StrategyArgs, timeout : Nat,
                          protocol : SUBSET AllProtocols, provider : Seq(Builtins)]
    /\ NodeOptions \subseteq [timeout : Seq(Nat), version : Seq(Versions),
                              strategy : Seq(StrategyArgs), protocols : Seq(SUBSET AllProtocols),
                              providers : Seq(Seq(Builtins))]

NotBuilt == [ready |-> FALSE, blocking |-> <<>>, async |-> <<>>]

MakeCall(c) ==
    /\ builder' = Made(builder, c)
    /\ calls' = Append(calls, c)

(* A program chains the calls it likes. *)
ProgramCalls(c) ==
    /\ front = "program" /\ ~built.ready /\ Len(calls) < MaxCalls
    /\ MakeCall(c)
    /\ UNCHANGED <<front, script, built>>

FrontEndCalls ==
    /\ script # <<>>
    /\ MakeCall(Head(script))
    /\ script' = Tail(script)
    /\ UNCHANGED <<front, built>>

Build ==
    /\ script = <<>> /\ ~built.ready
    /\ built' = Built(builder)
    /\ UNCHANGED <<front, script, calls, builder>>

Init ==
    /\ \/ front = "program" /\ script = <<>>
       \/ front = "ipd" /\ \E args \in CliArgs : script = CliCalls(args)
       \/ front = "node" /\ \E options \in NodeOptions : script = NodeCalls(options)
    /\ calls = <<>>
    /\ builder = New
    /\ built = NotBuilt

Next == (\E c \in BuilderCalls : ProgramCalls(c)) \/ FrontEndCalls \/ Build

Spec == Init /\ [][Next]_vars
-----------------------------------------------------------------------------
(* Properties *)

ConfigOf(providers) ==
    [providers |-> providers, version |-> builder.version, strategy |-> builder.strategy,
     min_agree |-> builder.min_agree, timeout |-> builder.timeout]

(* Whatever the chain, both lists make a Config as the resolvers assume it: so
   their assumption on Configs, min_agree of at least two included, is what
   the builder establishes.                                                  *)
ResolversGetConfigs ==
    ConfigOf(built.blocking) \in Config /\ ConfigOf(built.async) \in Config

CallsOf(op) == Picked(calls, {i \in DOMAIN calls : calls[i].op = op})
FilterCalls == Picked(calls, {i \in DOMAIN calls : calls[i].op \in {"protocols", "providers"}})
Args(cs) == [i \in DOMAIN cs |-> cs[i].arg]

(* The built-in part of a list is its first elements, the custom providers of
   its kind follow in the order they were added: "Custom providers are added
   alongside any filter-selected providers".  The blocking and the
   asynchronous list have the same built-in part.                            *)
ListsAreParallel ==
    built.ready =>
        LET async == Args(CallsOf("add"))
            blocking == Args(CallsOf("add_blocking"))
        IN  \E n \in 0..Len(built.blocking) :
                /\ built.blocking = SubSeq(built.blocking, 1, n) \o blocking
                /\ built.async = SubSeq(built.blocking, 1, n) \o async

(* Which built-in providers are used is decided by the last filter, in the
   caller's order or else in that of ALL, whatever came before it.           *)
LastFilterDecides ==
    built.ready /\ FilterCalls # <<>> =>
        LET filter == FilterCalls[Len(FilterCalls)]
            rest == Len(built.blocking) - Len(CallsOf("add_blocking"))
            names == [i \in 1..rest |-> built.blocking[i].name]
        IN  IF filter.op = "providers"
            THEN names = filter.arg
            ELSE /\ {names[i] : i \in 1..rest} = {p \in Builtins : ProtocolOf(p) \in filter.arg}
                 /\ \A i, j \in 1..rest : i < j =>
                        \E k, l \in DOMAIN ALL : k < l /\ ALL[k] = names[i] /\ ALL[l] = names[j]

(* ipd asks only providers of the protocols it is told to use: README.md,
   "Use only DNS and STUN protocols".                                        *)
CliUsesOnlyItsProtocols ==
    front = "ipd" /\ built.ready =>
        \A i \in DOMAIN CallsOf("protocols") : \A j \in DOMAIN built.blocking :
            ProtocolOf(built.blocking[j].name) \in CallsOf("protocols")[i].arg
=============================================================================
