------------------------------ MODULE Resolution ------------------------------
(* What a call of resolve promises, for either resolver: neither threads nor
   futures, channels or clocks.  Each matching provider is settled at most
   once, by an error or by a valid answer; the strategy decides when the call
   may return, and what.                                                     *)
EXTENDS IpTypes, FiniteSets, FiniteSetsExt

CONSTANTS Configs       \* the configurations a call may run under

VARIABLES
    config,     \* the configuration of this call
    failed,     \* the slots settled by an error
    answers,    \* the slots settled by a valid answer, each with its address
    outcome     \* what the call returned

vars == <<config, failed, answers, outcome>>

Answered == DOMAIN answers
Open == MatchingSlots(config) \ (failed \cup Answered)

(* resolve_first settles its providers in config order, the others in any. *)
Due(s) ==
    /\ outcome = NotReturned
    /\ s \in Open
    /\ config.strategy = "First" => \A t \in Open : s <= t

Fail(s) ==
    /\ Due(s)
    /\ failed' = failed \cup {s}
    /\ UNCHANGED <<config, answers, outcome>>

(* A valid answer ends the call, unless the call looks for consensus. *)
Answer(s, ip) ==
    /\ Due(s)
    /\ VersionMatches(config.version, ip)
    /\ answers' = [t \in Answered \cup {s} |-> IF t = s THEN ip ELSE answers[t]]
    /\ outcome' = IF config.strategy = "Consensus" THEN NotReturned ELSE Success(s)
    /\ UNCHANGED <<config, failed>>

Votes(ip) == {s \in Answered : answers[s] = ip}
Agreement(ip) == Cardinality(Votes(ip))

(* The call fails only when every matching provider is settled, and a
   consensus call with the size of the largest agreement.                    *)
Refuse ==
    /\ outcome = NotReturned /\ Open = {}
    /\ outcome' =
         CASE MatchingSlots(config) = {} -> NoProvidersForVersion
           [] MatchingSlots(config) # {} /\ config.strategy # "Consensus" -> AllProvidersFailed
           [] OTHER -> ConsensusNotReached(Max({0} \cup {Agreement(ip) : ip \in Addresses}))
    /\ \A ip \in Addresses : Agreement(ip) < config.min_agree
    /\ UNCHANGED <<config, failed, answers>>

(* A consensus call succeeds with a provider of a largest agreement. *)
Agree(s) ==
    /\ outcome = NotReturned /\ Open = {}
    /\ config.strategy = "Consensus"
    /\ s \in Answered
    /\ Agreement(answers[s]) >= config.min_agree
    /\ \A ip \in Addresses : Agreement(ip) <= Agreement(answers[s])
    /\ outcome' = Success(s)
    /\ UNCHANGED <<config, failed, answers>>

Init ==
    /\ config \in Configs
    /\ failed = {} /\ answers = <<>>
    /\ outcome = NotReturned

Next ==
    \/ \E s \in Open : Fail(s) \/ \E ip \in Addresses : Answer(s, ip)
    \/ Refuse
    \/ \E s \in Answered : Agree(s)

Spec == Init /\ [][Next]_vars
=============================================================================
