------------------------------- MODULE IpTypes -------------------------------
(* The values the resolvers talk about: IP addresses of the two families, the
   version a caller asks for, and what a provider says of itself.            *)
EXTENDS Sequences, Integers

CONSTANTS
    IP4,    \* the IPv4 addresses a provider may answer with
    IP6     \* the IPv6 addresses a provider may answer with

Addresses == IP4 \cup IP6

Versions == {"V4", "V6", "Any"}

(* IpVersion::matches: does an address answer a request for this version? *)
VersionMatches(version, ip) ==
    CASE version = "V4"  -> ip \in IP4
      [] version = "V6"  -> ip \in IP6
      [] version = "Any" -> TRUE

(* What the resolver reads of a provider before it calls it. *)
Provider == [name : STRING, v4 : BOOLEAN, v6 : BOOLEAN]

(* BlockingProvider::supports_version and Provider::supports_version. *)
SupportsVersion(p, version) ==
    CASE version = "V4"  -> p.v4
      [] version = "V6"  -> p.v6
      [] version = "Any" -> p.v4 \/ p.v6

Strategies == {"First", "Race", "Consensus"}

(* A Config as ConfigBuilder::build returns it: min_agree is clamped to at
   least two there, timeout counts ticks of the model's clock.              *)
Config == [providers : Seq(Provider),
           version   : Versions,
           strategy  : Strategies,
           min_agree : Nat \ {0, 1},
           timeout   : Nat]

(* What a provider call can leave behind when it yields no address: an error
   of its own, or a panic.                                                   *)
Failures == {"failed", "panicked"}

NoAnswer == "none"

(* Resolver::matching_providers: the slots, the indices in the provider list,
   of the providers that a call uses.                                        *)
MatchingSlots(cfg) ==
    {s \in DOMAIN cfg.providers : SupportsVersion(cfg.providers[s], cfg.version)}

(* What resolve returns: nothing yet, the answer of a slot, or an Error. *)
NotReturned == [kind |-> "none", slot |-> 0, got |-> 0]
Success(s) == [kind |-> "ok", slot |-> s, got |-> 0]
NoProvidersForVersion == [kind |-> "NoProvidersForVersion", slot |-> 0, got |-> 0]
AllProvidersFailed == [kind |-> "AllProvidersFailed", slot |-> 0, got |-> 0]
ConsensusNotReached(n) == [kind |-> "ConsensusNotReached", slot |-> 0, got |-> n]

OutcomeKinds == {"none", "ok", "NoProvidersForVersion", "AllProvidersFailed",
                 "ConsensusNotReached"}

(* One entry of the error list: which provider, and what became of it. *)
Failure(s, why) == [slot |-> s, reason |-> why]

(* The two families are disjoint, and no address is mistaken for a failure. *)
ASSUME AddressAssumption ==
    /\ IP4 \cap IP6 = {}
    /\ Addresses \cap (Failures \cup {NoAnswer}) = {}
=============================================================================
