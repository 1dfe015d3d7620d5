----------------------------- MODULE AsyncResolver -----------------------------
(* One call of resolver::Resolver::resolve: a single task that polls the
   providers' futures, each wrapped in a tokio timeout, while the providers and
   the clock go on between two polls.  resolve_first awaits one future after
   the other, resolve_race polls through select_first, resolve_consensus
   through join_all_vec.                                                     *)
EXTENDS IpTypes, FiniteSets, FiniteSetsExt

CONSTANTS
    Configs,        \* the configurations a call may run under
    MaxAge          \* a bound of the model: latencies are told apart up to it

ASSUME ConfigsAssumption == \A c \in Configs : c \in Config
ASSUME MaxAgeAssumption == MaxAge \in Nat

VARIABLES
    config,     \* the configuration of this call
    pc,         \* where the task stands
    todo,       \* matching slots whose future is not made yet
    futures,    \* the vector of futures being awaited, by slot
    at,         \* the index the task has reached in it
    completed,  \* the slots whose future has returned Ready
    done,       \* join_all_vec: its count of the results it holds
    reply,      \* per slot: what the provider's own future resolves to
    left,       \* per slot: ticks until its timeout fires
    age,        \* per slot: time from start until its future was found ready
    errors,     \* the errors collected so far
    votes,      \* consensus: slots of the valid answers, in provider order
    unseen,     \* consensus: addresses the tally has not looked at yet
    best,       \* consensus: the address that leads the tally
    outcome     \* what the call returned

callVars == <<config, todo, errors, votes, outcome>>
pollVars == <<futures, at, completed, done>>
tallyVars == <<unseen, best>>
worldVars == <<reply, left, age>>
vars == <<pc, callVars, pollVars, tallyVars, worldVars>>
-----------------------------------------------------------------------------
Slots == DOMAIN config.providers
Matching == MatchingSlots(config)

PCs == {"start", "make", "poll", "asleep", "gather", "tally", "done"}

(* tokio's timer starts when the wrapped future is polled for the first time. *)
Unpolled == -1

(* The task unwinds and no Result is returned. *)
Panicked(s) == [kind |-> "panicked", slot |-> s, got |-> 0]

Return(o) == pc' = "done" /\ outcome' = o

Awaited == {futures[i] : i \in DOMAIN futures} \ completed

(* Resolver::resolve *)
Resolve ==
    /\ pc = "start"
    /\ IF Matching = {}
         THEN Return(NoProvidersForVersion) /\ UNCHANGED todo
         ELSE pc' = "make" /\ todo' = Matching /\ UNCHANGED outcome
    /\ UNCHANGED <<config, errors, votes, pollVars, tallyVars, worldVars>>

(* make_provider_future for the next provider in config order.  resolve_first
   awaits it alone and at once, the others collect it into the vector.       *)
MakeFuture(s) ==
    /\ pc = "make" /\ s \in todo /\ \A t \in todo : s <= t
    /\ todo' = todo \ {s}
    /\ IF config.strategy = "First"
         THEN futures' = <<s>> /\ at' = 1 /\ pc' = "poll"
         ELSE futures' = Append(futures, s) /\ UNCHANGED <<at, pc>>
    /\ UNCHANGED <<config, errors, votes, outcome, completed, done, tallyVars, worldVars>>

(* Provider::get_ip panics before it returns a future. *)
MakePanics(s) ==
    /\ pc = "make" /\ s \in todo /\ \A t \in todo : s <= t
    /\ config.timeout > 0
    /\ Return(Panicked(s))
    /\ UNCHANGED <<config, todo, errors, votes, pollVars, tallyVars, worldVars>>

(* resolve_first has gone through every provider. *)
FirstExhausted ==
    /\ pc = "make" /\ todo = {} /\ config.strategy = "First"
    /\ Return(AllProvidersFailed)
    /\ UNCHANGED <<config, todo, errors, votes, pollVars, tallyVars, worldVars>>

(* The vector is whole: select_first or join_all_vec polls it. *)
Await ==
    /\ pc = "make" /\ todo = {} /\ config.strategy # "First"
    /\ pc' = "poll" /\ at' = 1
    /\ UNCHANGED <<callVars, futures, completed, done, tallyVars, worldVars>>

(* What a poll of a provider's future finds.  A zero timeout fails at once and
   never calls the provider; otherwise the provider's future is polled before
   the timer is looked at.                                                   *)
Ready(s) == config.timeout = 0 \/ reply[s] # NoAnswer \/ left[s] = 0

(* Mutation: the timer is looked at before the provider's future. *)
ValidUnlessLate(s) ==
    /\ reply[s] \in Addresses /\ VersionMatches(config.version, reply[s])
    /\ ~(pc = "poll" /\ left[s] = 0)

(* What the match on the timeout's result makes of a reply. *)
Valid(s) == reply[s] \in Addresses /\ VersionMatches(config.version, reply[s])

(* Mutation: an address of the wrong family is reported as if it were an error. *)
ComplaintUnchecked(s) == IF reply[s] = NoAnswer THEN "timeout" ELSE reply[s]

(* The error kept of a future that is ready and holds no valid answer. *)
Complaint(s) ==
    CASE reply[s] = NoAnswer -> "timeout"
      [] reply[s] = "failed" -> "failed"
      [] OTHER -> "unexpected IP version"

(* The task calls poll on the future at index at. *)
Polling(s) == pc = "poll" /\ at \in DOMAIN futures /\ s = futures[at]

(* join_all_vec passes over a future whose result it holds. *)
SkipCompleted(s) ==
    /\ Polling(s) /\ s \in completed
    /\ at' = at + 1
    /\ UNCHANGED <<pc, callVars, futures, completed, done, tallyVars, worldVars>>

(* Mutations: the scan ends with the first future that is not ready; the
   timer is never started.                                                   *)
PollPendingEndsScan(s) ==
    /\ Polling(s) /\ s \notin completed /\ ~Ready(s)
    /\ left' = IF left[s] = Unpolled THEN [left EXCEPT ![s] = config.timeout] ELSE left
    /\ at' = Len(futures) + 1
    /\ UNCHANGED <<pc, callVars, futures, completed, done, reply, age, tallyVars>>

PollPendingUntimed(s) ==
    /\ Polling(s) /\ s \notin completed /\ ~Ready(s)
    /\ at' = at + 1
    /\ UNCHANGED <<pc, callVars, futures, completed, done, tallyVars, worldVars>>

(* The provider is not ready and its timer has not fired. *)
PollPending(s) ==
    /\ Polling(s) /\ s \notin completed /\ ~Ready(s)
    /\ left' = IF left[s] = Unpolled THEN [left EXCEPT ![s] = config.timeout] ELSE left
    /\ at' = at + 1
    /\ UNCHANGED <<pc, callVars, futures, completed, done, reply, age, tallyVars>>

(* First and Race: a valid answer ends the call and drops the other futures. *)
PollAnswer(s) ==
    /\ Polling(s) /\ s \notin completed /\ Valid(s)
    /\ config.strategy # "Consensus"
    /\ completed' = completed \cup {s}
    /\ Return(Success(s))
    /\ UNCHANGED <<config, todo, errors, votes, futures, at, done, tallyVars, worldVars>>

(* Mutation: truncate where swap_remove is meant. *)
SwapRemoveTruncates(seq, i) == SubSeq(seq, 1, i - 1)

(* Vec::swap_remove: the last element takes the place of the one removed. *)
SwapRemove(seq, i) ==
    [j \in 1..(Len(seq) - 1) |-> IF j = i THEN seq[Len(seq)] ELSE seq[j]]

(* First and Race: an error is kept.  resolve_race calls select_first again on
   what is left, which polls from the start of the vector.                   *)
PollError(s) ==
    /\ Polling(s) /\ s \notin completed
    /\ Ready(s) /\ ~Valid(s) /\ reply[s] # "panicked"
    /\ config.strategy # "Consensus"
    /\ completed' = completed \cup {s}
    /\ errors' = Append(errors, Failure(s, Complaint(s)))
    /\ futures' = SwapRemove(futures, at) /\ at' = 1
    /\ pc' = IF config.strategy = "First" THEN "make" ELSE "poll"
    /\ UNCHANGED <<config, todo, votes, outcome, done, tallyVars, worldVars>>

(* Mutation: the is_some() guard is forgotten. *)
PollJoinAgain(s) ==
    /\ Polling(s)
    /\ Ready(s) /\ reply[s] # "panicked"
    /\ config.strategy = "Consensus"
    /\ completed' = completed \cup {s} /\ done' = done + 1
    /\ at' = at + 1
    /\ UNCHANGED <<pc, callVars, futures, tallyVars, worldVars>>

(* Consensus: the result goes into its slot and the scan goes on. *)
PollJoin(s) ==
    /\ Polling(s) /\ s \notin completed
    /\ Ready(s) /\ reply[s] # "panicked"
    /\ config.strategy = "Consensus"
    /\ completed' = completed \cup {s} /\ done' = done + 1
    /\ at' = at + 1
    /\ UNCHANGED <<pc, callVars, futures, tallyVars, worldVars>>

(* Nothing catches a provider's panic: it unwinds through poll. *)
PollPanics(s) ==
    /\ Polling(s) /\ s \notin completed /\ reply[s] = "panicked"
    /\ Return(Panicked(s))
    /\ UNCHANGED <<config, todo, errors, votes, pollVars, tallyVars, worldVars>>

(* The scan is over and has found nothing to return: Poll::Pending. *)
Sleep ==
    /\ pc = "poll" /\ at > Len(futures) /\ futures # <<>>
    /\ config.strategy = "Consensus" => done # Len(futures)
    /\ pc' = "asleep"
    /\ UNCHANGED <<callVars, pollVars, tallyVars, worldVars>>

(* Only a future that has been polled has left a waker with its provider and
   with the timer; either of them wakes the task, which polls from the start. *)
Wake ==
    /\ pc = "asleep"
    /\ \E s \in Awaited : left[s] # Unpolled /\ Ready(s)
    /\ pc' = "poll" /\ at' = 1
    /\ UNCHANGED <<callVars, futures, completed, done, tallyVars, worldVars>>

RaceLost ==
    /\ pc = "poll" /\ futures = <<>> /\ config.strategy = "Race"
    /\ Return(AllProvidersFailed)
    /\ UNCHANGED <<config, todo, errors, votes, pollVars, tallyVars, worldVars>>

(* done == total: the results are gone through in the futures' order. *)
Joined ==
    /\ pc = "poll" /\ at > Len(futures) /\ done = Len(futures)
    /\ config.strategy = "Consensus"
    /\ pc' = "gather" /\ at' = 1
    /\ UNCHANGED <<callVars, futures, completed, done, tallyVars, worldVars>>

Gather(s) ==
    /\ pc = "gather" /\ at \in DOMAIN futures /\ s = futures[at]
    /\ at' = at + 1
    /\ IF Valid(s)
         THEN votes' = Append(votes, s) /\ UNCHANGED errors
         ELSE errors' = Append(errors, Failure(s, Complaint(s))) /\ UNCHANGED votes
    /\ UNCHANGED <<config, pc, todo, outcome, futures, completed, done, tallyVars, worldVars>>

(* ip_results: the valid answers, grouped by address. *)
Group(ip) == {i \in DOMAIN votes : reply[votes[i]] = ip}
Voted == {reply[votes[i]] : i \in DOMAIN votes}
Size(ip) == Cardinality(Group(ip))

(* Every result has been gone through: the loop over ip_results begins. *)
Gathered ==
    /\ pc = "gather" /\ at > Len(futures)
    /\ pc' = "tally" /\ unseen' = Voted
    /\ UNCHANGED <<callVars, pollVars, best, worldVars>>

(* Mutations: a later group replaces the leader whatever their sizes; one vote
   more than min_agree is asked for.                                         *)
CountGroupLastLeads(ip) ==
    /\ pc = "tally" /\ ip \in unseen
    /\ unseen' = unseen \ {ip}
    /\ best' = IF Size(ip) >= config.min_agree THEN ip ELSE best
    /\ UNCHANGED <<pc, callVars, pollVars, worldVars>>

CountGroupOffByOne(ip) ==
    /\ pc = "tally" /\ ip \in unseen
    /\ unseen' = unseen \ {ip}
    /\ best' = IF /\ Size(ip) > config.min_agree
                  /\ best = NoAnswer \/ Size(ip) > Size(best)
                 THEN ip ELSE best
    /\ UNCHANGED <<pc, callVars, pollVars, worldVars>>

(* One turn of the loop over ip_results, in the map's arbitrary order: the
   first group with min_agree votes leads until a larger one is met.         *)
CountGroup(ip) ==
    /\ pc = "tally" /\ ip \in unseen
    /\ unseen' = unseen \ {ip}
    /\ best' = IF /\ Size(ip) >= config.min_agree
                  /\ best = NoAnswer \/ Size(ip) > Size(best)
                 THEN ip ELSE best
    /\ UNCHANGED <<pc, callVars, pollVars, worldVars>>

(* min_by_key returns the first of the answers with the least latency. *)
Fastest(i, group) ==
    \A j \in group : \/ age[votes[i]] < age[votes[j]]
                     \/ age[votes[i]] = age[votes[j]] /\ i <= j

Elect(s) ==
    /\ pc = "tally" /\ unseen = {} /\ best # NoAnswer
    /\ \E i \in Group(best) : Fastest(i, Group(best)) /\ s = votes[i]
    /\ Return(Success(s))
    /\ UNCHANGED <<config, todo, errors, votes, pollVars, tallyVars, worldVars>>

NoQuorum ==
    /\ pc = "tally" /\ unseen = {} /\ best = NoAnswer
    /\ Return(ConsensusNotReached(Max({0} \cup {Size(ip) : ip \in Voted})))
    /\ UNCHANGED <<config, todo, errors, votes, pollVars, tallyVars, worldVars>>
-----------------------------------------------------------------------------
(* The provider's future resolves, or panics, at any time it likes: it may have
   worked since it was made, or only since its first poll.                   *)
Reply(s, r) ==
    /\ pc # "done" /\ s \in Awaited
    /\ config.timeout > 0 /\ reply[s] = NoAnswer
    /\ reply' = [reply EXCEPT ![s] = r]
    /\ UNCHANGED <<pc, callVars, pollVars, left, age, tallyVars>>

(* The provider's future makes some progress and wakes the task for nothing. *)
Rouse(s) ==
    /\ pc = "asleep" /\ s \in Awaited
    /\ left[s] # Unpolled /\ ~Ready(s)
    /\ pc' = "poll" /\ at' = 1
    /\ UNCHANGED <<callVars, futures, completed, done, tallyVars, worldVars>>

(* Time passes; the runtime may let any amount of it pass between two polls. *)
Tick ==
    /\ pc # "done"
    /\ age' = [s \in Slots |-> IF s \in Awaited /\ age[s] < MaxAge THEN age[s] + 1 ELSE age[s]]
    /\ left' = [s \in Slots |-> IF s \in Awaited /\ left[s] > 0 THEN left[s] - 1 ELSE left[s]]
    /\ <<age, left>>' # <<age, left>>
    /\ UNCHANGED <<pc, callVars, pollVars, reply, tallyVars>>
-----------------------------------------------------------------------------
Init ==
    /\ config \in Configs
    /\ pc = "start" /\ outcome = NotReturned
    /\ todo = {} /\ futures = <<>> /\ at = 1
    /\ completed = {} /\ done = 0
    /\ reply = [s \in Slots |-> NoAnswer]
    /\ left = [s \in Slots |-> Unpolled]
    /\ age = [s \in Slots |-> 0]
    /\ errors = <<>> /\ votes = <<>>
    /\ unseen = {} /\ best = NoAnswer

TaskStep ==
    \/ Resolve
    \/ \E s \in todo : MakeFuture(s) \/ MakePanics(s)
    \/ FirstExhausted
    \/ Await
    \/ \E s \in Slots : \/ SkipCompleted(s) \/ PollPending(s) \/ PollAnswer(s)
                        \/ PollError(s) \/ PollJoin(s) \/ PollPanics(s)
    \/ Sleep
    \/ Wake
    \/ RaceLost
    \/ Joined
    \/ \E s \in Slots : Gather(s)
    \/ Gathered
    \/ \E ip \in unseen : CountGroup(ip)
    \/ \E s \in Slots : Elect(s)
    \/ NoQuorum

ProviderStep ==
    \E s \in Slots : Rouse(s) \/ \E r \in Addresses \cup Failures : Reply(s, r)

Next == TaskStep \/ ProviderStep \/ Tick

Spec == Init /\ [][Next]_vars

(* The runtime polls the task when it was woken, and its timers run.  Nothing
   is asked of the providers.                                                *)
FairSpec == Spec /\ WF_vars(TaskStep) /\ WF_vars(Tick)
-----------------------------------------------------------------------------
(* Properties *)

Reasons == {"timeout", "failed", "unexpected IP version"}

Outcomes ==
    [kind : OutcomeKinds \cup {"panicked"}, slot : {0} \cup Slots, got : Nat]

(* Every variable keeps its type. *)
TypeOK ==
    /\ config \in Configs
    /\ pc \in PCs
    /\ todo \subseteq Slots /\ completed \subseteq Slots
    /\ futures \in Seq(Slots) /\ votes \in Seq(Slots)
    /\ at \in Nat \ {0} /\ done \in Nat
    /\ reply \in [Slots -> Addresses \cup Failures \cup {NoAnswer}]
    /\ left \in [Slots -> Nat \cup {Unpolled}]
    /\ age \in [Slots -> 0..MaxAge]
    /\ errors \in Seq([slot : Slots, reason : Reasons])
    /\ outcome \in Outcomes
    /\ unseen \subseteq Addresses /\ best \in Addresses \cup {NoAnswer}

ErrorSlots == {errors[i].slot : i \in DOMAIN errors}
VoteSlots == {votes[i] : i \in DOMAIN votes}
Failed == outcome.kind \in {"AllProvidersFailed", "ConsensusNotReached"}

(* A call that fails accounts for each matching provider exactly once, however
   often swap_remove has moved its future in the vector.                     *)
EveryProviderAccounted ==
    Failed => /\ ErrorSlots \cup VoteSlots = Matching
              /\ Len(errors) + Len(votes) = Cardinality(Matching)

(* A call never fails over a valid answer that its provider gave before the
   call had settled it, be it as late as its timeout: the future is polled
   before the timer, and what was ready in the same poll is not thrown away. *)
NoAnswerDropped ==
    Failed => {s \in Matching : Valid(s)} = VoteSlots

(* join_all_vec returns when each future has one result: "done is never
   double-counted", and no slot is empty when the results are unwrapped.     *)
JoinIsComplete ==
    config.strategy = "Consensus" =>
        /\ done = Cardinality(completed)
        /\ pc \in {"gather", "tally"} => completed = Matching

(* The task never sleeps on a future it has not polled since it was made: each
   has its timer running and a waker to call, so no wake-up can be missed and
   the providers of a race or a consensus do run side by side.               *)
SleepersAreArmed ==
    pc = "asleep" => /\ Awaited # {}
                     /\ \A s \in Awaited : left[s] # Unpolled
                     /\ config.strategy # "First" => Awaited = Matching \ completed

(* A consensus answer comes from a fastest member of a largest group of at
   least min_agree valid answers, and only when every provider is settled.   *)
ConsensusIsSound ==
    config.strategy = "Consensus" /\ outcome.kind = "ok" =>
        LET Agreeing(ip) == {s \in Matching : Valid(s) /\ reply[s] = ip}
            group == Agreeing(reply[outcome.slot])
        IN  /\ outcome.slot \in group
            /\ Cardinality(group) >= config.min_agree
            /\ \A ip \in Addresses : Cardinality(Agreeing(ip)) <= Cardinality(group)
            /\ \A s \in group : age[outcome.slot] <= age[s]

(* The call returns, or unwinds, although any number of providers never
   answer.                                                                   *)
Terminates == <>(pc = "done")

(* The call keeps the promise that both resolvers make.  A call that unwinds
   with a provider's panic has returned nothing.                             *)
Settled == VoteSlots \cup
    IF config.strategy # "Consensus" /\ outcome.kind = "ok" THEN {outcome.slot} ELSE {}

Contract == INSTANCE Resolution
                WITH failed <- ErrorSlots,
                     answers <- [s \in Settled |-> reply[s]],
                     outcome <- IF outcome.kind = "panicked" THEN NotReturned ELSE outcome

ImplementsContract == Contract!Spec
=============================================================================
