--------------------------- MODULE BlockingResolver ---------------------------
(* One call of blocking::Resolver::resolve: the caller's thread, the worker
   threads it starts (one per provider), the mpsc channel between them and the
   deadline of the caller's wait.  A provider is named by its slot, its index
   in config.blocking_providers; its worker's message is the slot alone, for
   the answer and the latency the message carries no longer change once the
   worker has them.                                                          *)
EXTENDS IpTypes, FiniteSets, FiniteSetsExt

CONSTANTS
    Configs,        \* the configurations a call may run under
    MaxInstant,     \* the longest timeout that Instant::checked_add can add
    MaxAge          \* a bound of the model: latencies are told apart up to it

ASSUME ConfigsAssumption == \A c \in Configs : c \in Config
ASSUME MaxInstantAssumption == MaxInstant \in Nat
ASSUME MaxAgeAssumption == MaxAge \in Nat

VARIABLES
    config,     \* the configuration of this call
    pc,         \* where the caller's thread stands
    todo,       \* matching slots that the provider loop has not reached yet
    worker,     \* per slot: the state of its worker thread
    result,     \* per slot: what its get_ip left, once it returned
    age,        \* per slot: time since the worker's start.elapsed() base
    chan,       \* slots of the messages sent and not yet received
    pending,    \* slots whose message the caller still waits for
    errors,     \* the errors collected so far
    votes,      \* consensus: slots of the valid answers, in arrival order
    unseen,     \* consensus: addresses the tally has not looked at yet
    best,       \* consensus: the address that leads the tally
    outcome,    \* what the call returned
    left,       \* time until the wait gives up (Forever: it never does)
    waited      \* history: time since the wait began, up to config.timeout

callVars == <<config, todo, pending, errors, votes, outcome>>
workerVars == <<worker, result, age>>
tallyVars == <<unseen, best>>
clockVars == <<left, waited>>
vars == <<pc, chan, callVars, workerVars, tallyVars, clockVars>>
-----------------------------------------------------------------------------
Forever == -1

Slots == DOMAIN config.providers

(* Resolver::matching_providers *)
Matching == MatchingSlots(config)

PCs == {"start", "spawn", "check", "recv", "drain", "tally", "done"}

WorkerStates == {"idle", "spawned", "running", "finished", "gone"}

Reasons == {"timeout", "spawn failed", "failed", "panicked",
            "unexpected IP version", "disconnected"}

Return(o) == pc' = "done" /\ outcome' = o

(* validate_ip on what the worker of slot s reported *)
Valid(s) == result[s] \in Addresses /\ VersionMatches(config.version, result[s])

(* Mutation: an address of the wrong family is reported as if it were an error. *)
ComplaintUnchecked(s) == result[s]

(* The error the caller keeps of a message that is no valid answer. *)
Complaint(s) ==
    IF result[s] \in Addresses THEN "unexpected IP version" ELSE result[s]

(* The provider loop goes through the matching providers in config order. *)
IsNext(s) == s \in todo /\ \A t \in todo : s <= t

(* Resolver::resolve, with the tests that resolve_race and resolve_consensus
   make before they start a thread: under a zero timeout both report every
   provider as timed out.                                                    *)
Resolve ==
    /\ pc = "start"
    /\ IF Matching = {}
         THEN Return(NoProvidersForVersion) /\ UNCHANGED <<todo, pending>>
         ELSE /\ IF config.strategy # "First" /\ config.timeout = 0
                   THEN pc' = "drain" /\ pending' = Matching /\ UNCHANGED todo
                   ELSE pc' = "spawn" /\ todo' = Matching /\ UNCHANGED pending
              /\ UNCHANGED outcome
    /\ UNCHANGED <<config, errors, votes, chan, workerVars, tallyVars, clockVars>>

(* First strategy: a provider is given no time at all. *)
SkipForZeroTimeout(s) ==
    /\ pc = "spawn" /\ IsNext(s)
    /\ config.strategy = "First" /\ config.timeout = 0
    /\ todo' = todo \ {s}
    /\ errors' = Append(errors, Failure(s, "timeout"))
    /\ UNCHANGED <<config, pc, pending, votes, outcome, chan, workerVars, tallyVars, clockVars>>

(* How long a wait may last.  recv_timeout falls back on recv when the timeout
   cannot be added to the present; a shared deadline that cannot be computed
   leaves no time at all.                                                    *)
FirstPatience == IF config.timeout > MaxInstant THEN Forever ELSE config.timeout
SharedPatience == IF config.timeout > MaxInstant THEN 0 ELSE config.timeout

(* spawn_provider_worker succeeds.  resolve_first opens a channel for this
   provider alone and waits on it at once; the other strategies go on to the
   next provider.                                                            *)
Spawn(s) ==
    /\ pc = "spawn" /\ IsNext(s) /\ config.timeout > 0
    /\ todo' = todo \ {s}
    /\ worker' = [worker EXCEPT ![s] = "spawned"]
    /\ pending' = pending \cup {s}
    /\ IF config.strategy = "First"
         THEN pc' = "recv" /\ left' = FirstPatience /\ waited' = 0 /\ chan' = <<>>
         ELSE UNCHANGED <<pc, chan, clockVars>>
    /\ UNCHANGED <<config, errors, votes, outcome, result, age, tallyVars>>

(* Mutation: pending.remove is forgotten. *)
SpawnFailsButPending(s) ==
    /\ pc = "spawn" /\ IsNext(s) /\ config.timeout > 0
    /\ todo' = todo \ {s}
    /\ errors' = Append(errors, Failure(s, "spawn failed"))
    /\ pending' = IF config.strategy = "First" THEN pending ELSE pending \cup {s}
    /\ UNCHANGED <<config, pc, votes, outcome, chan, workerVars, tallyVars, clockVars>>

(* The operating system refuses the thread: only the error remains. *)
SpawnFails(s) ==
    /\ pc = "spawn" /\ IsNext(s) /\ config.timeout > 0
    /\ todo' = todo \ {s}
    /\ errors' = Append(errors, Failure(s, "spawn failed"))
    /\ UNCHANGED <<config, pc, pending, votes, outcome, chan, workerVars, tallyVars, clockVars>>

(* resolve_first has gone through every provider. *)
FirstExhausted ==
    /\ pc = "spawn" /\ todo = {} /\ config.strategy = "First"
    /\ Return(AllProvidersFailed)
    /\ UNCHANGED <<config, todo, pending, errors, votes, chan, workerVars, tallyVars, clockVars>>

(* resolve_race and resolve_consensus start their clock after the last spawn. *)
Arm ==
    /\ pc = "spawn" /\ todo = {} /\ config.strategy # "First"
    /\ pc' = "check" /\ left' = SharedPatience /\ waited' = 0
    /\ UNCHANGED <<chan, callVars, workerVars, tallyVars>>

(* The head of the receive loop: the clock is read before the channel is. *)
Check ==
    /\ pc = "check"
    /\ pc' = IF pending = {} \/ left = 0 THEN "drain" ELSE "recv"
    /\ UNCHANGED <<chan, callVars, workerVars, tallyVars, clockVars>>

(* Mutation: the first address received wins, without validate_ip. *)
ReceiveAnswerUnchecked(s) ==
    /\ pc = "recv" /\ chan # <<>> /\ s = Head(chan)
    /\ result[s] \in Addresses /\ config.strategy # "Consensus"
    /\ chan' = Tail(chan)
    /\ pending' = pending \ {s}
    /\ Return(Success(s))
    /\ UNCHANGED <<config, todo, errors, votes, workerVars, tallyVars, clockVars>>

(* recv_timeout hands over the oldest message.  A valid answer ends a First or
   Race call; it is a vote in a Consensus call.                              *)
ReceiveAnswer(s) ==
    /\ pc = "recv" /\ chan # <<>> /\ s = Head(chan)
    /\ Valid(s) /\ config.strategy # "Consensus"
    /\ chan' = Tail(chan)
    /\ pending' = pending \ {s}
    /\ Return(Success(s))
    /\ UNCHANGED <<config, todo, errors, votes, workerVars, tallyVars, clockVars>>

ReceiveVote(s) ==
    /\ pc = "recv" /\ chan # <<>> /\ s = Head(chan)
    /\ Valid(s) /\ config.strategy = "Consensus"
    /\ chan' = Tail(chan)
    /\ pending' = pending \ {s}
    /\ votes' = Append(votes, s)
    /\ pc' = "check"
    /\ UNCHANGED <<config, todo, errors, outcome, workerVars, tallyVars, clockVars>>

(* Mutation: every message handled starts the deadline anew. *)
ReceiveErrorRearms(s) ==
    /\ pc = "recv" /\ chan # <<>> /\ s = Head(chan)
    /\ ~Valid(s)
    /\ chan' = Tail(chan)
    /\ pending' = pending \ {s}
    /\ errors' = Append(errors, Failure(s, Complaint(s)))
    /\ pc' = IF config.strategy = "First" THEN "spawn" ELSE "check"
    /\ left' = config.timeout
    /\ UNCHANGED <<config, todo, votes, outcome, workerVars, tallyVars, waited>>

ReceiveError(s) ==
    /\ pc = "recv" /\ chan # <<>> /\ s = Head(chan)
    /\ ~Valid(s)
    /\ chan' = Tail(chan)
    /\ pending' = pending \ {s}
    /\ errors' = Append(errors, Failure(s, Complaint(s)))
    /\ pc' = IF config.strategy = "First" THEN "spawn" ELSE "check"
    /\ UNCHANGED <<config, todo, votes, outcome, workerVars, tallyVars, clockVars>>

(* Every sender is gone and nothing is queued. *)
Disconnected ==
    /\ chan = <<>>
    /\ \A s \in pending : worker[s] \notin {"spawned", "running", "finished"}

(* Mutation: recv instead of recv_timeout. *)
GiveUpOnlyIfDisconnected ==
    /\ pc = "recv" /\ Disconnected
    /\ pc' = "drain"
    /\ UNCHANGED <<chan, callVars, workerVars, tallyVars, clockVars>>

(* recv_timeout returns an error.  A message that arrives while it does so is
   lost with the channel.  resolve_first blames the provider it waited for,
   the others leave their loop.                                              *)
GiveUp ==
    /\ pc = "recv" /\ (left # 0 => Disconnected)
    /\ IF config.strategy = "First"
         THEN /\ \E s \in pending : errors' = Append(errors,
                    Failure(s, IF left = 0 THEN "timeout" ELSE "disconnected"))
              /\ pc' = "spawn" /\ pending' = {} /\ chan' = <<>>
         ELSE pc' = "drain" /\ UNCHANGED <<errors, pending, chan>>
    /\ UNCHANGED <<config, todo, votes, outcome, workerVars, tallyVars, clockVars>>

(* errors.extend(pending.into_values()...): the map's order is arbitrary.  The
   vector built for a zero timeout is in provider order.                     *)
Drain(s) ==
    /\ pc = "drain" /\ s \in pending
    /\ config.timeout = 0 => \A t \in pending : s <= t
    /\ pending' = pending \ {s}
    /\ errors' = Append(errors, Failure(s, "timeout"))
    /\ UNCHANGED <<config, pc, todo, votes, outcome, chan, workerVars, tallyVars, clockVars>>

RaceLost ==
    /\ pc = "drain" /\ pending = {} /\ config.strategy = "Race"
    /\ Return(AllProvidersFailed)
    /\ UNCHANGED <<config, todo, pending, errors, votes, chan, workerVars, tallyVars, clockVars>>

(* ip_results: the answers received, grouped by address. *)
Group(ip) == {i \in DOMAIN votes : result[votes[i]] = ip}
Voted == {result[votes[i]] : i \in DOMAIN votes}

StartTally ==
    /\ pc = "drain" /\ pending = {} /\ config.strategy = "Consensus"
    /\ pc' = "tally" /\ unseen' = Voted
    /\ UNCHANGED <<best, chan, callVars, workerVars, clockVars>>

(* Mutations: the last group of min_agree votes leads, whatever its size; a
   group must have more than min_agree votes to lead.                        *)
CountGroupLastLeads(ip) ==
    /\ pc = "tally" /\ ip \in unseen
    /\ unseen' = unseen \ {ip}
    /\ best' = IF Cardinality(Group(ip)) >= config.min_agree THEN ip ELSE best
    /\ UNCHANGED <<pc, chan, callVars, workerVars, clockVars>>

CountGroupOffByOne(ip) ==
    /\ pc = "tally" /\ ip \in unseen
    /\ unseen' = unseen \ {ip}
    /\ best' = IF /\ Cardinality(Group(ip)) > config.min_agree
                  /\ best = NoAnswer \/ Cardinality(Group(ip)) > Cardinality(Group(best))
                 THEN ip ELSE best
    /\ UNCHANGED <<pc, chan, callVars, workerVars, clockVars>>

(* One turn of the loop over ip_results, in the map's arbitrary order. *)
CountGroup(ip) ==
    /\ pc = "tally" /\ ip \in unseen
    /\ unseen' = unseen \ {ip}
    /\ best' = IF /\ Cardinality(Group(ip)) >= config.min_agree
                  /\ best = NoAnswer \/ Cardinality(Group(ip)) > Cardinality(Group(best))
                 THEN ip ELSE best
    /\ UNCHANGED <<pc, chan, callVars, workerVars, clockVars>>

(* min_by_key returns the first of the answers with the least latency. *)
Fastest(i, group) ==
    /\ i \in group
    /\ \A j \in group : \/ age[votes[i]] < age[votes[j]]
                        \/ age[votes[i]] = age[votes[j]] /\ i <= j

Elect(s) ==
    /\ pc = "tally" /\ unseen = {} /\ best # NoAnswer
    /\ \E i \in Group(best) : Fastest(i, Group(best)) /\ s = votes[i]
    /\ Return(Success(s))
    /\ UNCHANGED <<config, todo, pending, errors, votes, chan, workerVars, tallyVars, clockVars>>

MaxAgreement == Max({0} \cup {Cardinality(Group(ip)) : ip \in Voted})

NoQuorum ==
    /\ pc = "tally" /\ unseen = {} /\ best = NoAnswer
    /\ Return(ConsensusNotReached(MaxAgreement))
    /\ UNCHANGED <<config, todo, pending, errors, votes, chan, workerVars, tallyVars, clockVars>>
-----------------------------------------------------------------------------
(* The worker threads. *)

(* The thread runs: start = Instant::now() and the call of get_ip. *)
Begin(s) ==
    /\ worker[s] = "spawned"
    /\ worker' = [worker EXCEPT ![s] = "running"]
    /\ UNCHANGED <<pc, chan, callVars, result, age, tallyVars, clockVars>>

(* get_ip returns, at any time the provider likes, with an address of either
   family or an error; start.elapsed() stops the latency.                    *)
Finish(s, r) ==
    /\ worker[s] = "running"
    /\ worker' = [worker EXCEPT ![s] = "finished"]
    /\ result' = [result EXCEPT ![s] = r]
    /\ UNCHANGED <<pc, chan, callVars, age, tallyVars, clockVars>>

(* Mutation: without catch_unwind the thread ends and sends nothing. *)
PanicUncaught(s) ==
    /\ worker[s] = "running"
    /\ worker' = [worker EXCEPT ![s] = "gone"]
    /\ UNCHANGED <<pc, chan, callVars, result, age, tallyVars, clockVars>>

(* get_ip panics; catch_unwind turns the panic into an error. *)
Panic(s) ==
    /\ worker[s] = "running"
    /\ worker' = [worker EXCEPT ![s] = "finished"]
    /\ result' = [result EXCEPT ![s] = "panicked"]
    /\ UNCHANGED <<pc, chan, callVars, age, tallyVars, clockVars>>

(* Mutation: resolve_first opens one channel for all its providers. *)
ListeningOnOneChannel(s) == pc # "done"

(* Is the receiver of this worker's channel still there?  The channel of a
   First provider goes away with its turn, that of the other strategies when
   the call returns.                                                         *)
Listening(s) == s \in pending /\ pc # "done"

(* tx.send: a message without a receiver is dropped in silence. *)
Send(s) ==
    /\ worker[s] = "finished"
    /\ worker' = [worker EXCEPT ![s] = "gone"]
    /\ chan' = IF Listening(s) THEN Append(chan, s) ELSE chan
    /\ UNCHANGED <<pc, callVars, result, age, tallyVars, clockVars>>
-----------------------------------------------------------------------------
(* Time passes for the workers that run and for the caller's wait; the thread
   scheduler may let any amount of it pass before a thread's next step.      *)
Armed == pc \in {"check", "recv"}

Older(s) == IF worker[s] = "running" /\ age[s] < MaxAge THEN age[s] + 1 ELSE age[s]

Tick ==
    /\ pc # "done"
    /\ age' = [s \in Slots |-> Older(s)]
    /\ left' = IF Armed /\ left > 0 THEN left - 1 ELSE left
    /\ waited' = IF Armed /\ waited < config.timeout THEN waited + 1 ELSE waited
    /\ <<age, left, waited>>' # <<age, left, waited>>
    /\ UNCHANGED <<pc, chan, callVars, worker, result, tallyVars>>
-----------------------------------------------------------------------------
Init ==
    /\ config \in Configs
    /\ pc = "start" /\ outcome = NotReturned
    /\ todo = {} /\ pending = {} /\ chan = <<>>
    /\ worker = [s \in Slots |-> "idle"]
    /\ result = [s \in Slots |-> NoAnswer]
    /\ age = [s \in Slots |-> 0]
    /\ errors = <<>> /\ votes = <<>>
    /\ unseen = {} /\ best = NoAnswer
    /\ left = 0 /\ waited = 0

CallerStep ==
    \/ Resolve
    \/ \E s \in todo : SkipForZeroTimeout(s) \/ Spawn(s) \/ SpawnFails(s)
    \/ FirstExhausted
    \/ Arm
    \/ Check
    \/ \E s \in Slots : ReceiveAnswer(s) \/ ReceiveVote(s) \/ ReceiveError(s)
    \/ GiveUp
    \/ \E s \in pending : Drain(s)
    \/ RaceLost
    \/ StartTally
    \/ \E ip \in unseen : CountGroup(ip)
    \/ \E s \in Slots : Elect(s)
    \/ NoQuorum

WorkerStep(s) ==
    \/ Begin(s)
    \/ \E r \in Addresses \cup {"failed"} : Finish(s, r)
    \/ Panic(s)
    \/ Send(s)

Next == CallerStep \/ Tick \/ \E s \in Slots : WorkerStep(s)

Spec == Init /\ [][Next]_vars

(* The caller's thread is scheduled and the clock runs.  Nothing is asked of
   the workers: a provider may hang for ever.                                *)
FairSpec == Spec /\ WF_vars(CallerStep) /\ WF_vars(Tick)
-----------------------------------------------------------------------------
(* Properties *)

ErrorType == [slot : Slots, reason : Reasons]

Outcomes ==
    [kind : OutcomeKinds, slot : {0} \cup Slots, got : Nat]

(* Every variable keeps its type. *)
TypeOK ==
    /\ config \in Configs
    /\ pc \in PCs
    /\ todo \subseteq Slots /\ pending \subseteq Slots
    /\ worker \in [Slots -> WorkerStates]
    /\ result \in [Slots -> Addresses \cup Failures \cup {NoAnswer}]
    /\ age \in [Slots -> 0..MaxAge]
    /\ chan \in Seq(Slots) /\ votes \in Seq(Slots)
    /\ errors \in Seq(ErrorType)
    /\ unseen \subseteq Addresses /\ best \in Addresses \cup {NoAnswer}
    /\ outcome \in Outcomes
    /\ left \in Nat \cup {Forever} /\ waited \in 0..config.timeout

ErrorSlots == {errors[i].slot : i \in DOMAIN errors}
VoteSlots == {votes[i] : i \in DOMAIN votes}

(* A call that fails accounts for each matching provider exactly once: by one
   error, or in a consensus call by its vote.  Neither a refused thread, nor a
   late message, nor the timeouts added for the rest may count a provider
   twice or lose it.                                                         *)
EveryProviderAccounted ==
    outcome.kind \in {"AllProvidersFailed", "ConsensusNotReached"} =>
        /\ ErrorSlots \cup VoteSlots = Matching
        /\ Len(errors) + Len(votes) = Cardinality(Matching)

(* The First strategy answers from the first provider in config order whose
   turn ended well: each one before it is reported, in order, and none after
   it was contacted.  A late answer of an earlier provider changes nothing.  *)
FirstKeepsOrder ==
    config.strategy = "First" /\ outcome.kind = "ok" =>
        /\ Valid(outcome.slot)
        /\ ErrorSlots = {s \in Matching : s < outcome.slot}
        /\ \A i, j \in DOMAIN errors : i < j => errors[i].slot < errors[j].slot
        /\ \A s \in Slots : s > outcome.slot => worker[s] = "idle"

(* A race is won by a matching provider whose own answer is valid, and only
   while no earlier message held a valid answer.                             *)
RaceWinnerIsValid ==
    config.strategy = "Race" /\ outcome.kind = "ok" =>
        /\ outcome.slot \in Matching \ ErrorSlots
        /\ Valid(outcome.slot)
        /\ \A s \in ErrorSlots : worker[s] = "gone" => ~Valid(s)

(* A consensus answer has at least min_agree valid votes, no address has more,
   and the provider named is a fastest one of those that gave it.            *)
ConsensusIsSound ==
    config.strategy = "Consensus" /\ outcome.kind = "ok" =>
        LET group == {s \in VoteSlots : result[s] = result[outcome.slot]}
        IN  /\ Valid(outcome.slot) /\ outcome.slot \in group
            /\ Cardinality(group) >= config.min_agree
            /\ \A ip \in Voted :
                  Cardinality({s \in VoteSlots : result[s] = ip}) <= Cardinality(group)
            /\ \A s \in group : age[outcome.slot] <= age[s]

(* ConsensusNotReached is returned only if no address had min_agree votes, and
   its "got" is the size of the largest group of votes.                      *)
ConsensusRefusalIsHonest ==
    outcome.kind = "ConsensusNotReached" =>
        /\ outcome.got < config.min_agree
        /\ \A ip \in Addresses :
              Cardinality({s \in VoteSlots : result[s] = ip}) <= outcome.got
        /\ outcome.got > 0 => \E ip \in Voted :
              Cardinality({s \in VoteSlots : result[s] = ip}) = outcome.got

(* The caller never waits on nobody: each provider it still expects has a
   worker that will send, or its message is queued.  So the Disconnected arms
   of the receive loops are never taken, whatever the providers do.          *)
PendingHasWorker ==
    pc \in {"check", "recv"} =>
        \A s \in pending : \/ worker[s] \in {"spawned", "running", "finished"}
                           \/ \E i \in DOMAIN chan : chan[i] = s

(* "timeout" is reported of a provider only once the configured time has
   passed since the caller began to wait.                                    *)
TimeoutMeansDeadlinePassed ==
    [][ \A i \in DOMAIN errors' \ DOMAIN errors :
            errors'[i].reason = "timeout" => waited >= config.timeout ]_vars

(* Race and consensus calls have one deadline for all providers: no message
   that is handled makes the caller wait again once the time is up.          *)
OneDeadlineForAll ==
    [][ pc = "check" /\ pc' = "recv" => waited < config.timeout ]_vars

(* The call returns although any number of providers hang for ever. *)
Terminates == <>(pc = "done")

(* A queued valid answer that arrived before the deadline makes the race
   succeed: blocking/mod.rs says of AllProvidersFailed that "every provider
   either failed or timed out", and this one did neither.                    *)
InTimeAnswerWins ==
    \A s \in 1..2 :
        (/\ config.strategy = "Race" /\ Armed /\ waited < config.timeout
         /\ \E i \in DOMAIN chan : chan[i] = s /\ Valid(s))
        ~> outcome.kind = "ok"

(* Consensus means that min_agree different providers gave the address:
   config.rs, "Minimum number of providers that must return the same IP".    *)
DistinctProvidersAgree ==
    config.strategy = "Consensus" /\ outcome.kind = "ok" =>
        Cardinality({config.providers[s].name :
            s \in {t \in VoteSlots : result[t] = result[outcome.slot]}}) >= config.min_agree

(* The call keeps the promise that both resolvers make, whatever its threads
   and its clock do: every step settles a provider as the contract allows,
   returns what the contract allows, or is invisible to it.                  *)
Settled == VoteSlots \cup
    IF config.strategy # "Consensus" /\ outcome.kind = "ok" THEN {outcome.slot} ELSE {}

Contract == INSTANCE Resolution
                WITH failed <- ErrorSlots, answers <- [s \in Settled |-> result[s]]

ImplementsContract == Contract!Spec
=============================================================================
