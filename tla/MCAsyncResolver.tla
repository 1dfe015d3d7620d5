--------------------------- MODULE MCAsyncResolver ---------------------------
(* Configurations under which the asynchronous resolver is model-checked. *)
EXTENDS AsyncResolver

CONSTANTS a, b, c   \* two IPv4 addresses and an IPv6 address

MCIP4 == {a, b}
MCIP6 == {c}

P(name, v4, v6) == [name |-> name, v4 |-> v4, v6 |-> v6]

Two == <<P("p", TRUE, FALSE), P("q", TRUE, TRUE)>>
Five == [i \in 1..5 |-> P("p", TRUE, FALSE)]
Three == Two \o <<P("r", TRUE, TRUE)>>

Call(providers, version, strategy, agree, timeout) ==
    [providers |-> providers, version |-> version, strategy |-> strategy,
     min_agree |-> agree, timeout |-> timeout]

CallConfigs ==
    {Call(Two, v, "First", 2, t) : v \in Versions, t \in 0..2}
    \cup {Call(Three, "V6", "First", 2, 1), Call(<<>>, "Any", "First", 2, 1)}
    \cup {Call(Two, "Any", "Race", 2, t) : t \in {0, 2}}
    \cup {Call(Three, "V4", "Race", 2, 1)}
    \cup {Call(Two, "Any", "Consensus", 2, t) : t \in {0, 2}}
    \cup {Call(Three, "V4", "Consensus", 2, 1)}

(* The tally of five answers or fewer.  The run starts where a consensus call
   stands when join_all_vec has returned, after any replies.                 *)
TallyConfigs == {Call(Five, "V4", "Consensus", n, 1) : n \in 2..3}

TallyInit ==
    /\ config \in Configs
    /\ reply \in [Slots -> MCIP4 \cup {"failed"}]
    /\ age \in [Slots -> 0..MaxAge]
    /\ left = [s \in Slots |-> 1]
    /\ futures = [s \in Slots |-> s] /\ at = 1
    /\ completed = Slots /\ done = Len(futures)
    /\ pc = "gather" /\ outcome = NotReturned
    /\ todo = {} /\ errors = <<>> /\ votes = <<>>
    /\ unseen = {} /\ best = NoAnswer

TallySpec == TallyInit /\ [][Next]_vars
=============================================================================
