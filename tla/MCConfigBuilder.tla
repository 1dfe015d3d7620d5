--------------------------- MODULE MCConfigBuilder ---------------------------
(* The calls, command lines and options with which the builder is checked. *)
EXTENDS ConfigBuilder

MCFeatures == {"Dns", "Stun"}

Custom(name) == [name |-> name, v4 |-> TRUE, v6 |-> FALSE]
Strategy(name, n) == [name |-> name, min_agree |-> n]

ProtocolSets == {{}, {"Dns"}, {"Dns", "Http"}}
Selections == {<<>>, <<"GoogleStun", "GoogleStun">>, <<"Aws", "OpenDns">>}
Strategies3 == {Strategy("Race", 2), Strategy("Consensus", 0), Strategy("Consensus", 3)}

Of(op, args) == {Called(op, x) : x \in args}

MCCalls ==
    Of("protocols", ProtocolSets) \cup Of("providers", Selections)
    \cup Of("add", {Custom("x")}) \cup Of("add_blocking", {Custom("x"), Custom("y")})
    \cup Of("timeout", {0}) \cup Of("version", {"V6"}) \cup Of("strategy", Strategies3)

(* ipd and the bindings always ask for a consensus of two. *)
FrontStrategies == {Strategy("First", 2), Strategy("Race", 2), Strategy("Consensus", 2)}

MCCliArgs == [version : Versions, strategy : FrontStrategies, timeout : {0, 10},
              protocol : ProtocolSets, provider : Selections]

Option(S) == {<<>>} \cup {<<x>> : x \in S}

MCNodeOptions == [timeout : Option({0}), version : Option({"V4"}),
                  strategy : Option(FrontStrategies), protocols : Option(ProtocolSets),
                  providers : Option(Selections)]
=============================================================================
