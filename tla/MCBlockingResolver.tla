-------------------------- MODULE MCBlockingResolver --------------------------
(* Configurations under which the blocking resolver is model-checked. *)
EXTENDS BlockingResolver, SequencesExt

CONSTANTS a, b, c   \* two IPv4 addresses and an IPv6 address

MCIP4 == {a, b}
MCIP6 == {c}

P(name, v4, v6) == [name |-> name, v4 |-> v4, v6 |-> v6]

Two == <<P("p", TRUE, FALSE), P("q", TRUE, TRUE)>>
Three == Two \o <<P("r", TRUE, TRUE)>>
Five == [i \in 1..5 |-> P("p", TRUE, FALSE)]

Call(providers, version, strategy, agree, timeout) ==
    [providers |-> providers, version |-> version, strategy |-> strategy,
     min_agree |-> agree, timeout |-> timeout]

CallConfigs ==
    {Call(Two, v, "First", 2, t) : v \in Versions, t \in 0..2}
    \cup {Call(Three, "V6", "First", 2, 1), Call(<<>>, "Any", "First", 2, 1)}
    \cup {Call(Two, "V4", "Race", 2, t) : t \in 0..2}
    \cup {Call(Two, "V4", "Consensus", 2, t) : t \in 0..2}

(* A race whose timeout the clock cannot add; a race; one provider twice. *)
HugeTimeoutConfigs == {Call(Two, "V4", "Race", 2, 3)}
RaceConfigs == {Call(Two, "V4", "Race", 2, 2)}
DuplicateConfigs == {Call(<<Two[1], Two[1]>>, "V4", "Consensus", 2, 2)}

(* The tally of five votes or fewer.  The run starts where a consensus call
   stands when all its workers have reported, after any reports: the slots
   are interchangeable, so the votes may stand in slot order.                *)
TallyConfigs == {Call(Five, "V4", "Consensus", n, 1) : n \in 2..3}

TallyInit ==
    /\ config \in Configs
    /\ result \in [Slots -> MCIP4 \cup {"failed"}]
    /\ age \in [Slots -> 0..MaxAge]
    /\ worker = [s \in Slots |-> "gone"]
    /\ votes = SelectSeq([s \in Slots |-> s], LAMBDA s : result[s] \in MCIP4)
    /\ LET bad == SetToSortSeq({s \in Slots : result[s] = "failed"}, <)
       IN  errors = [i \in DOMAIN bad |-> Failure(bad[i], "failed")]
    /\ pc = "check" /\ outcome = NotReturned
    /\ todo = {} /\ pending = {} /\ chan = <<>>
    /\ unseen = {} /\ best = NoAnswer
    /\ left = 1 /\ waited = 0

TallySpec == TallyInit /\ [][Next]_vars
=============================================================================
