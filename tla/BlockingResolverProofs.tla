----------------------- MODULE BlockingResolverProofs -----------------------
(* Theorems about the blocking resolver, for every set of configurations: any
   number of providers, any timeouts and any addresses.                      *)
EXTENDS BlockingResolver, CollectionLemmas

(* What the type invariant says of the configuration. *)
LEMMA ConfigType ==
    ASSUME TypeOK
    PROVE  /\ config \in Config
           /\ config.timeout \in Nat /\ config.min_agree \in Nat \ {0, 1}
           /\ Slots = 1..Len(config.providers) /\ Len(config.providers) \in Nat
           /\ Slots \subseteq Nat \ {0}
           /\ Matching \subseteq Slots
<1>1. config \in Config
  BY ConfigsAssumption DEF TypeOK
<1>2. config.timeout \in Nat /\ config.min_agree \in Nat \ {0, 1}
      /\ config.providers \in Seq(Provider)
  BY <1>1 DEF Config
<1>3. QED
  BY <1>1, <1>2, LenProperties DEF Slots, Matching, MatchingSlots

(* A group of votes is no larger than the number of votes. *)
LEMMA GroupSize ==
    ASSUME TypeOK, NEW ip
    PROVE  /\ IsFiniteSet(Group(ip)) /\ Cardinality(Group(ip)) \in 0..Len(votes)
           /\ Len(votes) \in Nat
<1>1. Len(votes) \in Nat /\ DOMAIN votes = 1..Len(votes)
  BY LenProperties DEF TypeOK
<1>2. IsFiniteSet(DOMAIN votes) /\ Cardinality(DOMAIN votes) = Len(votes)
  <2>1. IsFiniteSet(1..Len(votes))
        /\ Cardinality(1..Len(votes)) = IF 1 > Len(votes) THEN 0 ELSE Len(votes) - 1 + 1
    BY <1>1, FS_Interval
  <2>2. QED
    BY <2>1, <1>1
<1>3. Group(ip) \in SUBSET DOMAIN votes
  BY DEF Group
<1>4. IsFiniteSet(Group(ip)) /\ Cardinality(Group(ip)) <= Len(votes)
  BY <1>2, <1>3, FS_Subset
<1>5. QED
  BY <1>1, <1>4, FS_CardinalityType

(* The largest agreement is the size of some group of votes, or zero, and no
   group is larger.                                                          *)
LEMMA MaxAgreementType ==
    ASSUME TypeOK
    PROVE  /\ MaxAgreement \in Nat
           /\ MaxAgreement = 0 \/ \E ip \in Voted : MaxAgreement = Cardinality(Group(ip))
           /\ \A ip \in Voted : Cardinality(Group(ip)) <= MaxAgreement
<1> DEFINE sizes == {0} \cup {Cardinality(Group(ip)) : ip \in Voted}
<1>1. sizes \in SUBSET (0..Len(votes)) /\ sizes # {} /\ Len(votes) \in Nat
  <2>1. Len(votes) \in Nat
    BY LenProperties DEF TypeOK
  <2>2. \A ip \in Voted : Cardinality(Group(ip)) \in 0..Len(votes)
    BY GroupSize
  <2>3. 0 \in 0..Len(votes)
    BY <2>1
  <2>4. QED
    BY <2>1, <2>2, <2>3
<1>2. Max(sizes) \in sizes /\ \A x \in sizes : x <= Max(sizes)
  <2> HIDE DEF sizes
  <2>1. QED
    BY <1>1, MaxOfBounded
<1>3. MaxAgreement = Max(sizes)
  BY DEF MaxAgreement
<1>4. \A x \in sizes : x = 0 \/ \E ip \in Voted : x = Cardinality(Group(ip))
  OBVIOUS
<1>5. \A ip \in Voted : Cardinality(Group(ip)) \in sizes
  OBVIOUS
<1> HIDE DEF sizes
<1>6. Max(sizes) \in Nat
  <2>1. \A n \in Nat : \A x \in 0..n : x \in Nat
    OBVIOUS
  <2>2. QED
    BY <1>1, <1>2, <2>1, Zenon
<1>7. \A ip \in Voted : Cardinality(Group(ip)) <= Max(sizes)
  BY <1>2, <1>5
<1>8. Max(sizes) = 0 \/ \E ip \in Voted : Max(sizes) = Cardinality(Group(ip))
  BY <1>2, <1>4
<1>9. QED
  BY <1>3, <1>6, <1>7, <1>8
-----------------------------------------------------------------------------
(* A worker that has answered keeps its answer; only such workers are queued
   or have voted, and a vote is valid; a provider that the loop has not reached
   has no thread.  TypeOK is not inductive without this: the reason recorded
   of a message, and the addresses tallied, are results that workers left.   *)
Messages ==
    /\ \A s \in Slots : worker[s] \in {"finished", "gone"} => result[s] # NoAnswer
    /\ \A i \in DOMAIN chan : worker[chan[i]] = "gone"
    /\ \A i \in DOMAIN votes : worker[votes[i]] = "gone" /\ Valid(votes[i])
    /\ \A s \in todo : worker[s] = "idle"
    /\ pc = "start" => \A s \in Slots : worker[s] = "idle"

LEMMA TypeInit == Init => TypeOK /\ Messages
<1> SUFFICES ASSUME Init PROVE TypeOK /\ Messages
  OBVIOUS
<1>1. config \in Config
  BY ConfigsAssumption DEF Init
<1>2. config.timeout \in Nat
  BY <1>1 DEF Config
<1>3. TypeOK
  BY <1>2, MaxAgeAssumption
     DEF Init, TypeOK, PCs, WorkerStates, Outcomes, OutcomeKinds, NotReturned, Forever
<1>4. QED
  BY <1>3 DEF Init, Messages

(* The configuration is never changed, and so neither is what depends on it. *)
LEMMA ConfigConstant ==
    ASSUME [Next]_vars
    PROVE  /\ config' = config /\ Slots' = Slots /\ Matching' = Matching
           /\ ErrorType' = ErrorType /\ Outcomes' = Outcomes
<1>1. config' = config
  BY DEF Next, CallerStep, WorkerStep, vars, callVars, workerVars, tallyVars, clockVars,
     Resolve, SkipForZeroTimeout, Spawn, SpawnFails, FirstExhausted, Arm, Check,
     ReceiveAnswer, ReceiveVote, ReceiveError, GiveUp, Drain, RaceLost, StartTally,
     CountGroup, Elect, NoQuorum, Begin, Finish, Panic, Send, Tick
<1>2. Slots' = Slots
  BY <1>1 DEF Slots
<1>3. QED
  BY <1>1, <1>2 DEF Matching, ErrorType, Outcomes

(* The entries that errors may grow by, and the values a call may return. *)
LEMMA ErrorTyped ==
    ASSUME NEW s \in Slots, NEW why \in Reasons
    PROVE  Failure(s, why) \in ErrorType
BY DEF Failure, ErrorType

LEMMA OutcomeTyped ==
    /\ NoProvidersForVersion \in Outcomes /\ AllProvidersFailed \in Outcomes
    /\ \A s \in Slots : Success(s) \in Outcomes
    /\ \A n \in Nat : ConsensusNotReached(n) \in Outcomes
BY DEF Outcomes, OutcomeKinds, NoProvidersForVersion, AllProvidersFailed, Success,
       ConsensusNotReached

LEMMA TypeNext == TypeOK /\ Messages /\ [Next]_vars => TypeOK'
<1> SUFFICES ASSUME TypeOK, Messages, [Next]_vars PROVE TypeOK'
  OBVIOUS
<1>0. /\ config.timeout \in Nat /\ Slots \subseteq Nat
      /\ Matching \subseteq Slots /\ MaxAge \in Nat
  BY ConfigType, MaxAgeAssumption
<1>b. config' = config /\ Slots' = Slots /\ ErrorType' = ErrorType /\ Outcomes' = Outcomes
  BY ConfigConstant
<1> USE <1>b DEF TypeOK, Return, callVars, workerVars, tallyVars, clockVars
<1>1. ASSUME Resolve PROVE TypeOK'
  BY <1>0, <1>1, OutcomeTyped DEF Resolve, PCs
<1>2. ASSUME NEW s \in todo, SkipForZeroTimeout(s) PROVE TypeOK'
  <2>1. Failure(s, "timeout") \in ErrorType
    BY ErrorTyped DEF Reasons
  <2>2. errors' \in Seq(ErrorType)
    BY <1>2, <2>1, AppendProperties DEF SkipForZeroTimeout
  <2>3. QED
    BY <1>2, <2>2 DEF SkipForZeroTimeout
<1>3. ASSUME NEW s \in todo, Spawn(s) PROVE TypeOK'
  <2>1. /\ worker' \in [Slots -> WorkerStates]
        /\ todo' \subseteq Slots /\ pending' \subseteq Slots
    BY <1>3 DEF Spawn, WorkerStates
  <2>2. CASE config.strategy = "First"
    BY <1>0, <1>3, <2>1, <2>2 DEF Spawn, PCs, FirstPatience, Forever
  <2>3. CASE config.strategy # "First"
    BY <1>3, <2>1, <2>3 DEF Spawn
  <2>4. QED
    BY <2>2, <2>3
<1>4. ASSUME NEW s \in todo, SpawnFails(s) PROVE TypeOK'
  <2>1. Failure(s, "spawn failed") \in ErrorType
    BY ErrorTyped DEF Reasons
  <2>2. errors' \in Seq(ErrorType)
    BY <1>4, <2>1, AppendProperties DEF SpawnFails
  <2>3. QED
    BY <1>4, <2>2 DEF SpawnFails
<1>5. ASSUME FirstExhausted PROVE TypeOK'
  BY <1>5, OutcomeTyped DEF FirstExhausted, PCs
<1>6. ASSUME Arm PROVE TypeOK'
  BY <1>0, <1>6 DEF Arm, PCs, SharedPatience
<1>7. ASSUME Check PROVE TypeOK'
  BY <1>7 DEF Check, PCs
<1>8. ASSUME NEW s \in Slots, ReceiveAnswer(s) PROVE TypeOK'
  BY <1>8, OutcomeTyped, HeadTailProperties DEF ReceiveAnswer, PCs
<1>9. ASSUME NEW s \in Slots, ReceiveVote(s) PROVE TypeOK'
  BY <1>9, HeadTailProperties DEF ReceiveVote, PCs
<1>10. ASSUME NEW s \in Slots, ReceiveError(s) PROVE TypeOK'
  <2>1. result[s] \in Addresses \cup Failures
    BY <1>10 DEF ReceiveError, Messages
  <2>2. Failure(s, Complaint(s)) \in ErrorType
    BY ErrorTyped, <2>1 DEF Complaint, Reasons, Failures, NoAnswer
  <2>3. QED
    BY <1>10, <2>2, HeadTailProperties DEF ReceiveError, PCs
<1>11. ASSUME GiveUp PROVE TypeOK'
  <2>1. \A s \in Slots : /\ Failure(s, "timeout") \in ErrorType
                         /\ Failure(s, "disconnected") \in ErrorType
    BY ErrorTyped DEF Reasons
  <2>2. CASE config.strategy = "First"
    <3>1. PICK s \in pending : errors' = Append(errors,
                Failure(s, IF left = 0 THEN "timeout" ELSE "disconnected"))
      BY <1>11, <2>2 DEF GiveUp
    <3>2. errors' \in Seq(ErrorType)
      <4>1. Failure(s, IF left = 0 THEN "timeout" ELSE "disconnected") \in ErrorType
        BY <2>1
      <4>2. QED
        BY <3>1, <4>1, AppendProperties
    <3>3. pc' = "spawn" /\ pending' = {} /\ chan' = <<>>
      BY <1>11, <2>2 DEF GiveUp
    <3>4. QED
      BY <1>11, <3>2, <3>3 DEF GiveUp, PCs
  <2>3. CASE config.strategy # "First"
    BY <1>11, <2>3 DEF GiveUp, PCs
  <2>4. QED
    BY <2>2, <2>3
<1>12. ASSUME NEW s \in pending, Drain(s) PROVE TypeOK'
  <2>1. Failure(s, "timeout") \in ErrorType
    BY ErrorTyped DEF Reasons
  <2>2. errors' \in Seq(ErrorType)
    BY <1>12, <2>1, AppendProperties DEF Drain
  <2>3. QED
    BY <1>12, <2>2 DEF Drain
<1>13. ASSUME RaceLost PROVE TypeOK'
  BY <1>13, OutcomeTyped DEF RaceLost, PCs
<1>14. ASSUME StartTally PROVE TypeOK'
  <2>1. Voted \subseteq Addresses
    BY DEF Voted, Messages, Valid
  <2>2. QED
    BY <1>14, <2>1 DEF StartTally, PCs
<1>15. ASSUME NEW ip \in unseen, CountGroup(ip) PROVE TypeOK'
  BY <1>15 DEF CountGroup
<1>16. ASSUME NEW s \in Slots, Elect(s) PROVE TypeOK'
  BY <1>16, OutcomeTyped DEF Elect, PCs
<1>17. ASSUME NoQuorum PROVE TypeOK'
  BY <1>17, MaxAgreementType, OutcomeTyped DEF NoQuorum, PCs
<1>18. ASSUME Tick PROVE TypeOK'
  <2>1. \A s \in Slots : Older(s) \in 0..MaxAge
    BY <1>0 DEF Older
  <2>2. age' \in [Slots -> 0..MaxAge]
    BY <1>18, <2>1 DEF Tick
  <2>3. left' \in Nat \cup {Forever} /\ waited' \in 0..config.timeout
    BY <1>0, <1>18 DEF Tick, Forever
  <2>4. QED
    BY <1>18, <2>2, <2>3 DEF Tick
<1>19. ASSUME NEW s \in Slots, WorkerStep(s) PROVE TypeOK'
  <2>1. CASE Begin(s)
    BY <2>1 DEF Begin, WorkerStates
  <2>2. ASSUME NEW r \in Addresses \cup {"failed"}, Finish(s, r) PROVE TypeOK'
    BY <2>2 DEF Finish, WorkerStates, Failures
  <2>3. CASE Panic(s)
    BY <2>3 DEF Panic, WorkerStates, Failures
  <2>4. CASE Send(s)
    BY <2>4, AppendProperties DEF Send, WorkerStates
  <2>5. QED
    BY <1>19, <2>1, <2>2, <2>3, <2>4 DEF WorkerStep
<1>20. ASSUME UNCHANGED vars PROVE TypeOK'
  BY <1>20 DEF vars
<1>21. QED
  BY <1>1, <1>2, <1>3, <1>4, <1>5, <1>6, <1>7, <1>8, <1>9, <1>10, <1>11, <1>12,
     <1>13, <1>14, <1>15, <1>16, <1>17, <1>18, <1>19, <1>20 DEF Next, CallerStep

LEMMA MessagesNext == TypeOK /\ Messages /\ [Next]_vars => Messages'
<1> SUFFICES ASSUME TypeOK, Messages, [Next]_vars PROVE Messages'
  OBVIOUS
<1>0. config' = config /\ Slots' = Slots
  BY ConfigConstant
<1> USE <1>0 DEF TypeOK, Messages, Return, callVars, workerVars, tallyVars, clockVars
<1>1. ASSUME Resolve PROVE Messages'
  BY <1>1, ConfigType DEF Resolve, Valid
<1>2. ASSUME NEW s \in todo, SkipForZeroTimeout(s) \/ SpawnFails(s) PROVE Messages'
  BY <1>2 DEF SkipForZeroTimeout, SpawnFails, Valid
<1>3. ASSUME NEW s \in todo, Spawn(s) PROVE Messages'
  BY <1>3 DEF Spawn, Valid
<1>4. ASSUME FirstExhausted \/ Arm \/ Check \/ RaceLost \/ StartTally \/ NoQuorum
      PROVE Messages'
  BY <1>4 DEF FirstExhausted, Arm, Check, RaceLost, StartTally, NoQuorum, Valid
<1>5. ASSUME NEW s \in Slots, ReceiveAnswer(s) \/ ReceiveError(s) \/ ReceiveVote(s)
      PROVE Messages'
  <2>1. chan # <<>> /\ chan' = Tail(chan) /\ s = Head(chan) /\ pc' # "start"
        /\ worker' = worker /\ result' = result /\ todo' = todo
    BY <1>5 DEF ReceiveAnswer, ReceiveError, ReceiveVote
  <2>2. worker[s] = "gone" /\ \A i \in DOMAIN chan' : worker[chan'[i]] = "gone"
    BY <2>1, HeadTailProperties
  <2>3. \A i \in DOMAIN votes' : worker[votes'[i]] = "gone" /\ Valid(votes'[i])
    <3>1. CASE votes' = votes
      BY <3>1
    <3>2. CASE ReceiveVote(s)
      <4>1. votes' = Append(votes, s) /\ Valid(s)
        BY <3>2 DEF ReceiveVote
      <4>2. QED
        BY <4>1, <2>2, AppendProperties
    <3>3. QED
      BY <1>5, <3>1, <3>2 DEF ReceiveAnswer, ReceiveError
  <2>4. QED
    BY <2>1, <2>2, <2>3 DEF Valid
<1>7. ASSUME GiveUp PROVE Messages'
  BY <1>7 DEF GiveUp, Valid
<1>8. ASSUME NEW s \in pending, Drain(s) PROVE Messages'
  BY <1>8 DEF Drain, Valid
<1>9. ASSUME NEW ip \in unseen, CountGroup(ip) PROVE Messages'
  BY <1>9 DEF CountGroup, Valid
<1>10. ASSUME NEW s \in Slots, Elect(s) PROVE Messages'
  BY <1>10 DEF Elect, Valid
<1>11. ASSUME Tick PROVE Messages'
  BY <1>11 DEF Tick, Valid
<1>12. ASSUME NEW s \in Slots, Begin(s) PROVE Messages'
  BY <1>12 DEF Begin, Valid
<1>13. ASSUME NEW s \in Slots, NEW r \in Addresses \cup {"failed"}, Finish(s, r)
       PROVE Messages'
  BY <1>13, AddressAssumption DEF Finish, Valid, Failures, NoAnswer
<1>14. ASSUME NEW s \in Slots, Panic(s) PROVE Messages'
  BY <1>14 DEF Panic, Valid, NoAnswer
<1>15. ASSUME NEW s \in Slots, Send(s) PROVE Messages'
  BY <1>15 DEF Send, Valid
<1>16. ASSUME UNCHANGED vars PROVE Messages'
  BY <1>16 DEF vars, Valid
<1>17. QED
  BY <1>1, <1>2, <1>3, <1>4, <1>5, <1>7, <1>8, <1>9, <1>10, <1>11, <1>12,
     <1>13, <1>14, <1>15, <1>16 DEF Next, CallerStep, WorkerStep

LEMMA TypeInvariant == Spec => [](TypeOK /\ Messages)
<1>1. QED
  BY TypeInit, TypeNext, MessagesNext, PTL DEF Spec

(* Every variable keeps its type, for any configurations. *)
THEOREM TypeCorrect == Spec => []TypeOK
<1>1. QED
  BY TypeInvariant, PTL
-----------------------------------------------------------------------------
(* Every matching provider is in exactly one place: still to be started,
   awaited, reported by one error, counted as one vote, or the winner.       *)
Won == IF config.strategy # "Consensus" /\ outcome.kind = "ok" THEN {outcome.slot} ELSE {}

ErrorsOnce == \A i, j \in DOMAIN errors : errors[i].slot = errors[j].slot => i = j
VotesOnce == \A i, j \in DOMAIN votes : votes[i] = votes[j] => i = j
QueueOnce ==
    /\ \A i, j \in DOMAIN chan : chan[i] = chan[j] => i = j
    /\ pc \in {"start", "spawn", "check", "recv"} =>
            \A i \in DOMAIN chan : chan[i] \in pending

Disjoint ==
    /\ todo \cap pending = {}
    /\ ErrorSlots \cap (todo \cup pending \cup VoteSlots) = {}
    /\ VoteSlots \cap (todo \cup pending) = {}

Covered ==
    IF pc = "start"
      THEN todo = {} /\ pending = {} /\ ErrorSlots = {} /\ VoteSlots = {}
      ELSE Matching = todo \cup pending \cup ErrorSlots \cup VoteSlots \cup Won

(* What the caller's position says of the providers not settled yet. *)
Phases ==
    /\ pc \in {"check", "drain", "tally"} => todo = {} /\ config.strategy # "First"
    /\ pc = "recv" /\ config.strategy # "First" => todo = {}
    /\ pc = "tally" => pending = {} /\ config.strategy = "Consensus"
    /\ pc = "spawn" /\ config.strategy = "First" => pending = {}
    /\ pc = "recv" /\ config.strategy = "First" => \E s \in Slots : pending = {s}
    /\ pc # "done" => outcome.kind = "none"
    /\ outcome.kind \in {"AllProvidersFailed", "ConsensusNotReached"} =>
            todo = {} /\ pending = {} /\ pc = "done"

Placement == ErrorsOnce /\ VotesOnce /\ QueueOnce /\ Disjoint /\ Covered /\ Phases

(* A new error names a provider that had none. *)
LEMMA ErrorAdded ==
    ASSUME TypeOK, ErrorsOnce, NEW s \in Slots \ ErrorSlots, NEW why \in Reasons,
           errors' = Append(errors, Failure(s, why))
    PROVE  ErrorSlots' = ErrorSlots \cup {s} /\ ErrorsOnce'
<1>1. errors \in Seq(ErrorType) /\ Failure(s, why) \in ErrorType
  BY ErrorTyped DEF TypeOK
<1>2. /\ DOMAIN errors = 1..Len(errors) /\ Len(errors) \in Nat
      /\ DOMAIN errors' = 1..(Len(errors) + 1)
      /\ \A i \in 1..Len(errors) : errors'[i] = errors[i]
      /\ errors'[Len(errors) + 1].slot = s
  BY <1>1, LenProperties, AppendProperties DEF Failure
<1>3. DOMAIN errors' = DOMAIN errors \cup {Len(errors) + 1}
  BY <1>2
<1>4. \A i \in DOMAIN errors : errors'[i].slot = errors[i].slot /\ errors[i].slot # s
  BY <1>2 DEF ErrorSlots
<1>5. ErrorSlots' = ErrorSlots \cup {s}
  BY <1>2, <1>3, <1>4 DEF ErrorSlots
<1>6. ErrorsOnce'
  BY <1>2, <1>3, <1>4 DEF ErrorsOnce
<1>7. QED
  BY <1>5, <1>6

(* A new vote comes from a provider that had none. *)
LEMMA VoteAdded ==
    ASSUME TypeOK, VotesOnce, NEW s \in Slots \ VoteSlots, votes' = Append(votes, s)
    PROVE  VoteSlots' = VoteSlots \cup {s} /\ VotesOnce'
<1>1. votes \in Seq(Slots)
  BY DEF TypeOK
<1>2. /\ DOMAIN votes = 1..Len(votes) /\ Len(votes) \in Nat
      /\ DOMAIN votes' = 1..(Len(votes) + 1)
      /\ \A i \in 1..Len(votes) : votes'[i] = votes[i]
      /\ votes'[Len(votes) + 1] = s
  BY <1>1, LenProperties, AppendProperties
<1>3. DOMAIN votes' = DOMAIN votes \cup {Len(votes) + 1}
  BY <1>2
<1>4. \A i \in DOMAIN votes : votes'[i] = votes[i] /\ votes[i] # s
  BY <1>2 DEF VoteSlots
<1>5. VoteSlots' = VoteSlots \cup {s}
  BY <1>2, <1>3, <1>4 DEF VoteSlots
<1>6. VotesOnce'
  BY <1>2, <1>3, <1>4 DEF VotesOnce
<1>7. QED
  BY <1>5, <1>6

(* The message received is the only one of its provider. *)
LEMMA MessageTaken ==
    ASSUME TypeOK, QueueOnce, pc = "recv", chan # <<>>, NEW s, s = Head(chan),
           chan' = Tail(chan), pending' = pending \ {s}
    PROVE  s \in pending /\ QueueOnce'
<1>1. chan \in Seq(Slots)
  BY DEF TypeOK
<1>2. /\ DOMAIN chan = 1..Len(chan) /\ Len(chan) \in Nat \ {0} /\ s = chan[1]
      /\ Len(Tail(chan)) = Len(chan) - 1 /\ Tail(chan) \in Seq(Slots)
      /\ \A i \in 1..Len(Tail(chan)) : Tail(chan)[i] = chan[i+1]
  BY <1>1, LenProperties, HeadTailProperties, EmptySeq
<1>3. DOMAIN chan' = 1..(Len(chan) - 1)
  BY <1>2, LenProperties
<1>4. \A i \in DOMAIN chan' : chan'[i] = chan[i+1] /\ i + 1 \in DOMAIN chan /\ 1 \in DOMAIN chan
  BY <1>2, <1>3
<1>5. \A i \in DOMAIN chan' : chan'[i] \in pending /\ chan'[i] # s
  <2>1. \A i \in DOMAIN chan' : i + 1 # 1
    BY <1>3
  <2>2. QED
    BY <1>2, <1>4, <2>1 DEF QueueOnce
<1>6. \A i, j \in DOMAIN chan' : chan'[i] = chan'[j] => i = j
  <2>1. \A i, j \in DOMAIN chan' : i + 1 = j + 1 => i = j
    BY <1>2, <1>3
  <2>2. QED
    BY <1>4, <2>1 DEF QueueOnce
<1>7. QED
  BY <1>2, <1>5, <1>6 DEF QueueOnce

LEMMA PlacementInit == Init => Placement
BY DEF Init, Placement, ErrorsOnce, VotesOnce, QueueOnce, Disjoint, Covered, Phases,
       ErrorSlots, VoteSlots, NotReturned

LEMMA PlacementNext == TypeOK /\ Messages /\ Placement /\ [Next]_vars => Placement'
<1> SUFFICES ASSUME TypeOK, Messages, Placement, [Next]_vars PROVE Placement'
  OBVIOUS
<1>0. config' = config /\ Slots' = Slots /\ Matching' = Matching
  BY ConfigConstant
<1>a. todo \subseteq Slots /\ pending \subseteq Slots
  BY DEF TypeOK
<1>b. (errors' = errors => ErrorSlots' = ErrorSlots /\ ErrorsOnce')
      /\ (votes' = votes => VoteSlots' = VoteSlots /\ VotesOnce')
      /\ (outcome' = outcome => Won' = Won)
  BY <1>0 DEF ErrorSlots, VoteSlots, Won, Placement, ErrorsOnce, VotesOnce
<1>c. /\ chan' = chan /\ pending \subseteq pending'
      /\ pc' \in {"start", "spawn", "check", "recv"} => pc \in {"start", "spawn", "check", "recv"}
      => QueueOnce'
  BY DEF Placement, QueueOnce
<1> USE <1>0, <1>a DEF Placement, Return, callVars, workerVars, tallyVars, clockVars
<1>1. ASSUME Resolve PROVE Placement'
  <2>1. errors' = errors /\ votes' = votes /\ chan' = chan
    BY <1>1 DEF Resolve
  <2>2. pc = "start" /\ todo = {} /\ pending = {} /\ outcome.kind = "none"
        /\ ErrorSlots = {} /\ VoteSlots = {}
    BY <1>1 DEF Resolve, Covered, Phases
  <2>3. CASE Matching = {}
    <3>1. pc' = "done" /\ outcome' = NoProvidersForVersion /\ todo' = {} /\ pending' = {}
      BY <1>1, <2>2, <2>3 DEF Resolve
    <3>2. Won' = {}
      BY <3>1 DEF Won, NoProvidersForVersion
    <3>3. QED
      BY <1>b, <1>c, <2>1, <2>2, <2>3, <3>1, <3>2
         DEF Disjoint, Covered, Phases, NoProvidersForVersion
  <2>4. CASE Matching # {} /\ config.strategy # "First" /\ config.timeout = 0
    <3>1. pc' = "drain" /\ pending' = Matching /\ todo' = {} /\ outcome' = outcome
      BY <1>1, <2>2, <2>4 DEF Resolve
    <3>2. Won' = {}
      BY <2>2, <3>1 DEF Won
    <3>3. QED
      BY <1>b, <1>c, <2>1, <2>2, <2>4, <3>1, <3>2 DEF Disjoint, Covered, Phases
  <2>5. CASE Matching # {} /\ ~(config.strategy # "First" /\ config.timeout = 0)
    <3>1. pc' = "spawn" /\ todo' = Matching /\ pending' = {} /\ outcome' = outcome
      BY <1>1, <2>2, <2>5 DEF Resolve
    <3>2. Won' = {}
      BY <2>2, <3>1 DEF Won
    <3>3. QED
      BY <1>b, <1>c, <2>1, <2>2, <3>1, <3>2 DEF Disjoint, Covered, Phases
  <2>6. QED
    BY <2>3, <2>4, <2>5
<1>2. ASSUME NEW s \in todo, SkipForZeroTimeout(s) \/ SpawnFails(s) PROVE Placement'
  <2>1. PICK why \in {"timeout", "spawn failed"} : errors' = Append(errors, Failure(s, why))
    BY <1>2 DEF SkipForZeroTimeout, SpawnFails
  <2>2. /\ pc = "spawn" /\ pc' = pc /\ todo' = todo \ {s} /\ pending' = pending
        /\ votes' = votes /\ outcome' = outcome /\ chan' = chan
    BY <1>2 DEF SkipForZeroTimeout, SpawnFails
  <2>3. ErrorSlots' = ErrorSlots \cup {s} /\ ErrorsOnce'
    BY <1>2, <2>1, ErrorAdded DEF Disjoint, Reasons
  <2>4. QED
    BY <1>2, <1>b, <1>c, <2>2, <2>3 DEF Disjoint, Covered, Phases
<1>3. ASSUME NEW s \in todo, Spawn(s) PROVE Placement'
  <2>1. /\ pc = "spawn" /\ todo' = todo \ {s} /\ pending' = pending \cup {s}
        /\ votes' = votes /\ outcome' = outcome /\ errors' = errors
    BY <1>3 DEF Spawn
  <2>2. Disjoint' /\ (pc' # "start" => Covered')
    BY <1>3, <1>b, <2>1 DEF Disjoint, Covered
  <2>3. CASE config.strategy = "First"
    <3>1. pc' = "recv" /\ chan' = <<>> /\ pending' = {s}
      BY <1>3, <2>1, <2>3 DEF Spawn, Phases
    <3>2. QueueOnce'
      BY <3>1 DEF QueueOnce
    <3>3. QED
      BY <1>b, <2>1, <2>2, <2>3, <3>1, <3>2 DEF Phases
  <2>4. CASE config.strategy # "First"
    <3>1. pc' = "spawn" /\ chan' = chan
      BY <1>3, <2>1, <2>4 DEF Spawn
    <3>2. QED
      BY <1>b, <1>c, <2>1, <2>2, <2>4, <3>1 DEF Phases
  <2>5. QED
    BY <2>3, <2>4
<1>4. ASSUME FirstExhausted \/ RaceLost \/ NoQuorum PROVE Placement'
  <2>1. /\ errors' = errors /\ votes' = votes /\ chan' = chan
        /\ todo' = todo /\ pending' = pending /\ pc' = "done" /\ pc # "start"
    BY <1>4 DEF FirstExhausted, RaceLost, NoQuorum
  <2>2. todo = {} /\ pending = {}
    BY <1>4 DEF FirstExhausted, RaceLost, NoQuorum, Phases
  <2>3. outcome.kind = "none" /\ outcome'.kind \in {"AllProvidersFailed", "ConsensusNotReached"}
    BY <1>4 DEF FirstExhausted, RaceLost, NoQuorum, Phases, AllProvidersFailed,
                ConsensusNotReached
  <2>4. Won' = {} /\ Won = {}
    BY <2>3 DEF Won
  <2>5. QED
    BY <1>b, <1>c, <2>1, <2>2, <2>3, <2>4 DEF Disjoint, Covered, Phases
<1>5. ASSUME Arm \/ Check \/ StartTally PROVE Placement'
  <2>1. /\ errors' = errors /\ votes' = votes /\ chan' = chan /\ outcome' = outcome
        /\ todo' = todo /\ pending' = pending /\ todo = {} /\ config.strategy # "First"
        /\ pc \notin {"start", "done"} /\ pc' \in {"check", "recv", "drain", "tally"}
        /\ (pc' \in {"check", "recv"} => pc \in {"spawn", "check"})
        /\ (pc' = "tally" => pending = {} /\ config.strategy = "Consensus")
    BY <1>5 DEF Arm, Check, StartTally, Phases
  <2>2. QED
    BY <1>b, <1>c, <2>1 DEF Disjoint, Covered, Phases
<1>6. ASSUME NEW s \in Slots, ReceiveAnswer(s) \/ ReceiveVote(s) \/ ReceiveError(s)
      PROVE Placement'
  <2>1. /\ pc = "recv" /\ chan # <<>> /\ s = Head(chan) /\ chan' = Tail(chan)
        /\ pending' = pending \ {s} /\ todo' = todo
    BY <1>6 DEF ReceiveAnswer, ReceiveVote, ReceiveError
  <2>2. s \in pending /\ QueueOnce'
    BY <2>1, MessageTaken
  <2>3. outcome.kind = "none" /\ Won = {}
    BY <2>1 DEF Phases, Won
  <2>4. config.strategy = "First" => pending' = {}
    BY <2>1, <2>2 DEF Phases
  <2>5. config.strategy # "First" => todo = {}
    BY <2>1 DEF Phases
  <2>6. CASE ReceiveAnswer(s)
    <3>1. /\ errors' = errors /\ votes' = votes /\ pc' = "done" /\ outcome' = Success(s)
          /\ config.strategy # "Consensus"
      BY <2>6 DEF ReceiveAnswer
    <3>2. Won' = {s}
      BY <3>1 DEF Won, Success
    <3>3. QED
      BY <1>b, <2>1, <2>2, <2>3, <3>1, <3>2 DEF Disjoint, Covered, Phases, Success
  <2>7. CASE ReceiveVote(s)
    <3>1. /\ errors' = errors /\ votes' = Append(votes, s) /\ outcome' = outcome
          /\ pc' = "check" /\ config.strategy = "Consensus"
      BY <2>7 DEF ReceiveVote
    <3>2. VoteSlots' = VoteSlots \cup {s} /\ VotesOnce'
      BY <2>2, <3>1, VoteAdded DEF Disjoint
    <3>3. QED
      BY <1>b, <2>1, <2>2, <2>3, <2>5, <3>1, <3>2 DEF Disjoint, Covered, Phases
  <2>8. CASE ReceiveError(s)
    <3>1. /\ errors' = Append(errors, Failure(s, Complaint(s))) /\ votes' = votes
          /\ outcome' = outcome
          /\ pc' = IF config.strategy = "First" THEN "spawn" ELSE "check"
      BY <2>8 DEF ReceiveError
    <3>2. Complaint(s) \in Reasons
      <4>1. result[s] \in Addresses \cup Failures
        BY <2>1 DEF Messages, TypeOK
      <4>2. QED
        BY <4>1 DEF Complaint, Reasons, Failures
    <3>3. ErrorSlots' = ErrorSlots \cup {s} /\ ErrorsOnce'
      BY <2>2, <3>1, <3>2, ErrorAdded DEF Disjoint
    <3>4. QED
      BY <1>b, <2>1, <2>2, <2>3, <2>4, <2>5, <3>1, <3>3 DEF Disjoint, Covered, Phases
  <2>9. QED
    BY <1>6, <2>6, <2>7, <2>8
<1>7. ASSUME GiveUp PROVE Placement'
  <2>1. pc = "recv" /\ todo' = todo /\ votes' = votes /\ outcome' = outcome
    BY <1>7 DEF GiveUp
  <2>2. CASE config.strategy = "First"
    <3>1. PICK s \in Slots : pending = {s}
      BY <2>1, <2>2 DEF Phases
    <3>2. PICK why \in {"timeout", "disconnected"} : errors' = Append(errors, Failure(s, why))
      BY <1>7, <2>2, <3>1 DEF GiveUp
    <3>3. pc' = "spawn" /\ pending' = {} /\ chan' = <<>>
      BY <1>7, <2>2 DEF GiveUp
    <3>4. ErrorSlots' = ErrorSlots \cup {s} /\ ErrorsOnce'
      BY <3>1, <3>2, ErrorAdded DEF Disjoint, Reasons
    <3>5. QueueOnce'
      BY <3>3 DEF QueueOnce
    <3>6. QED
      BY <1>b, <2>1, <2>2, <3>1, <3>3, <3>4, <3>5 DEF Disjoint, Covered, Phases
  <2>3. CASE config.strategy # "First"
    <3>1. pc' = "drain" /\ errors' = errors /\ pending' = pending /\ chan' = chan
      BY <1>7, <2>3 DEF GiveUp
    <3>2. QED
      BY <1>b, <1>c, <2>1, <2>3, <3>1 DEF Disjoint, Covered, Phases
  <2>4. QED
    BY <2>2, <2>3
<1>8. ASSUME NEW s \in pending, Drain(s) PROVE Placement'
  <2>1. /\ pc = "drain" /\ pc' = pc /\ todo' = todo /\ pending' = pending \ {s}
        /\ errors' = Append(errors, Failure(s, "timeout"))
        /\ votes' = votes /\ outcome' = outcome /\ chan' = chan
    BY <1>8 DEF Drain
  <2>2. ErrorSlots' = ErrorSlots \cup {s} /\ ErrorsOnce'
    BY <2>1, ErrorAdded DEF Disjoint, Reasons
  <2>3. QueueOnce'
    BY <2>1 DEF QueueOnce
  <2>4. QED
    BY <1>8, <1>b, <2>1, <2>2, <2>3 DEF Disjoint, Covered, Phases
<1>9. ASSUME NEW ip \in unseen, CountGroup(ip) PROVE Placement'
  BY <1>9, <1>b, <1>c DEF CountGroup, Disjoint, Covered, Phases
<1>10. ASSUME NEW s \in Slots, Elect(s) PROVE Placement'
  <2>1. /\ pc = "tally" /\ pc' = "done" /\ outcome' = Success(s) /\ config.strategy = "Consensus"
    BY <1>10 DEF Elect, Phases
  <2>2. QED
    BY <1>10, <1>b, <1>c, <2>1 DEF Elect, Disjoint, Covered, Phases, Won, Success
<1>11. ASSUME Tick \/ UNCHANGED vars PROVE Placement'
  BY <1>11, <1>b, <1>c DEF Tick, vars, Disjoint, Covered, Phases
<1>12. ASSUME NEW s \in Slots, Begin(s) \/ Panic(s) \/ \E r \in Addresses \cup {"failed"} : Finish(s, r)
       PROVE Placement'
  BY <1>12, <1>b, <1>c DEF Begin, Panic, Finish, Disjoint, Covered, Phases
<1>13. ASSUME NEW s \in Slots, Send(s) PROVE Placement'
  <2>1. /\ pc' = pc /\ todo' = todo /\ pending' = pending /\ errors' = errors
        /\ votes' = votes /\ outcome' = outcome
    BY <1>13 DEF Send
  <2>2. QueueOnce'
    <3>1. CASE chan' = chan
      BY <1>c, <2>1, <3>1
    <3>2. CASE chan' = Append(chan, s) /\ s \in pending
      <4>1. /\ DOMAIN chan = 1..Len(chan) /\ Len(chan) \in Nat
            /\ DOMAIN chan' = 1..(Len(chan) + 1)
            /\ \A i \in 1..Len(chan) : chan'[i] = chan[i]
            /\ chan'[Len(chan) + 1] = s
        BY <3>2, LenProperties, AppendProperties DEF TypeOK
      <4>2. \A i \in DOMAIN chan : chan[i] # s
        BY <1>13 DEF Send, Messages
      <4>3. DOMAIN chan' = DOMAIN chan \cup {Len(chan) + 1}
        BY <4>1
      <4>4. QED
        BY <2>1, <3>2, <4>1, <4>2, <4>3 DEF QueueOnce
    <3>3. QED
      BY <1>13, <3>1, <3>2 DEF Send, Listening
  <2>3. QED
    BY <1>b, <2>1, <2>2 DEF Disjoint, Covered, Phases
<1>14. QED
  BY <1>1, <1>2, <1>3, <1>4, <1>5, <1>6, <1>7, <1>8, <1>9, <1>10, <1>11, <1>12, <1>13
     DEF Next, CallerStep, WorkerStep

LEMMA Invariant == Spec => [](TypeOK /\ Messages /\ Placement)
<1>1. QED
  BY TypeInit, TypeNext, MessagesNext, PlacementInit, PlacementNext, PTL DEF Spec

LEMMA PlacementAccounts ==
    TypeOK /\ Placement => EveryProviderAccounted
<1> SUFFICES ASSUME TypeOK, Placement,
                    outcome.kind \in {"AllProvidersFailed", "ConsensusNotReached"}
             PROVE  /\ ErrorSlots \cup VoteSlots = Matching
                    /\ Len(errors) + Len(votes) = Cardinality(Matching)
  BY DEF EveryProviderAccounted
<1>1. ErrorSlots \cup VoteSlots = Matching /\ ErrorSlots \cap VoteSlots = {}
  BY DEF Placement, Covered, Disjoint, Phases, Won
<1>2. /\ DOMAIN errors = 1..Len(errors) /\ Len(errors) \in Nat
      /\ DOMAIN votes = 1..Len(votes) /\ Len(votes) \in Nat
  BY LenProperties DEF TypeOK
<1>3. IsFiniteSet(ErrorSlots) /\ Cardinality(ErrorSlots) = Len(errors)
  <2> DEFINE f == [i \in 1..Len(errors) |-> errors[i].slot]
  <2>1. \A i, j \in 1..Len(errors) : f[i] = f[j] => i = j
    BY <1>2 DEF Placement, ErrorsOnce
  <2>2. ErrorSlots = {f[i] : i \in 1..Len(errors)}
    BY <1>2 DEF ErrorSlots
  <2> HIDE DEF f
  <2>3. QED
    BY <1>2, <2>1, <2>2, OnceCounted
<1>4. IsFiniteSet(VoteSlots) /\ Cardinality(VoteSlots) = Len(votes)
  <2>1. \A i, j \in 1..Len(votes) : votes[i] = votes[j] => i = j
    BY <1>2 DEF Placement, VotesOnce
  <2>2. VoteSlots = {votes[i] : i \in 1..Len(votes)}
    BY <1>2 DEF VoteSlots
  <2>3. QED
    BY <1>2, <2>1, <2>2, OnceCounted
<1>5. Cardinality(Matching) = Len(errors) + Len(votes)
  <2>1. Cardinality(ErrorSlots \cup VoteSlots) =
          Cardinality(ErrorSlots) + Cardinality(VoteSlots) - Cardinality(ErrorSlots \cap VoteSlots)
    BY <1>3, <1>4, FS_Union
  <2>2. Cardinality(ErrorSlots \cap VoteSlots) = 0
    BY <1>1, FS_EmptySet
  <2>3. Cardinality(Matching) = Cardinality(ErrorSlots \cup VoteSlots)
    BY <1>1
  <2>4. Cardinality(Matching) = Len(errors) + Len(votes) - 0
    BY <1>3, <1>4, <2>1, <2>2, <2>3
  <2>5. QED
    BY <1>2, <2>4
<1>6. QED
  BY <1>1, <1>2, <1>5

(* A failing call accounts for each matching provider exactly once, whatever
   the providers, the threads and the clock do.                              *)
THEOREM EveryProviderIsAccounted == Spec => []EveryProviderAccounted
<1>1. QED
  BY Invariant, PlacementAccounts, PTL
-----------------------------------------------------------------------------
(* Nobody is awaited in vain. *)
Live(s) == worker[s] \in {"spawned", "running", "finished"}
Queued == {chan[i] : i \in DOMAIN chan}

Awaited == pc \in {"spawn", "check", "recv"} => \A s \in pending : Live(s) \/ s \in Queued

LEMMA AwaitedNext == TypeOK /\ Messages /\ Placement /\ Awaited /\ [Next]_vars => Awaited'
<1> SUFFICES ASSUME TypeOK, Messages, Placement, Awaited, [Next]_vars,
                    pc' \in {"spawn", "check", "recv"}, NEW t \in pending'
             PROVE  (Live(t) \/ t \in Queued)'
  BY DEF Awaited
<1>0. config' = config /\ Slots' = Slots /\ pending \subseteq Slots
  BY ConfigConstant DEF TypeOK
<1>a. pending' = pending /\ chan' = chan /\ worker' = worker /\ pc \in {"spawn", "check", "recv"}
      => (Live(t) \/ t \in Queued)'
  BY DEF Awaited, Live, Queued
<1> USE DEF Return, callVars, workerVars, tallyVars, clockVars
<1>1. ASSUME Resolve PROVE (Live(t) \/ t \in Queued)'
  BY <1>1 DEF Resolve, Placement, Covered
<1>2. ASSUME NEW s \in todo, SkipForZeroTimeout(s) \/ SpawnFails(s)
      PROVE  (Live(t) \/ t \in Queued)'
  BY <1>2, <1>a DEF SkipForZeroTimeout, SpawnFails
<1>3. ASSUME NEW s \in todo, Spawn(s) PROVE (Live(t) \/ t \in Queued)'
  <2>1. /\ pc = "spawn" /\ pending' = pending \cup {s} /\ s \in Slots
        /\ worker' = [worker EXCEPT ![s] = "spawned"]
    BY <1>3 DEF Spawn, TypeOK
  <2>2. CASE t = s
    BY <2>1, <2>2 DEF Live, TypeOK
  <2>3. CASE t # s
    <3>1. t \in pending /\ config.strategy # "First"
      BY <2>1, <2>3 DEF Placement, Phases
    <3>2. chan' = chan /\ worker'[t] = worker[t]
      BY <1>3, <1>0, <2>1, <2>3, <3>1 DEF Spawn, TypeOK
    <3>3. QED
      BY <2>1, <3>1, <3>2 DEF Awaited, Live, Queued
  <2>4. QED
    BY <2>2, <2>3
<1>4. ASSUME FirstExhausted \/ RaceLost \/ NoQuorum \/ StartTally
      PROVE  (Live(t) \/ t \in Queued)'
  BY <1>4 DEF FirstExhausted, RaceLost, NoQuorum, StartTally
<1>5. ASSUME Arm \/ Check PROVE (Live(t) \/ t \in Queued)'
  BY <1>5, <1>a DEF Arm, Check
<1>6. ASSUME NEW s \in Slots, ReceiveAnswer(s) \/ ReceiveVote(s) \/ ReceiveError(s)
      PROVE  (Live(t) \/ t \in Queued)'
  <2>1. /\ pc = "recv" /\ chan # <<>> /\ s = Head(chan) /\ chan' = Tail(chan)
        /\ pending' = pending \ {s} /\ worker' = worker
    BY <1>6 DEF ReceiveAnswer, ReceiveVote, ReceiveError
  <2>2. CASE Live(t)
    BY <2>1, <2>2 DEF Live
  <2>3. CASE ~Live(t)
    <3>1. PICK i \in DOMAIN chan : chan[i] = t
      BY <2>1, <2>3 DEF Awaited, Queued
    <3>2. /\ DOMAIN chan = 1..Len(chan) /\ Len(chan) \in Nat \ {0} /\ s = chan[1]
          /\ Len(Tail(chan)) = Len(chan) - 1 /\ Tail(chan) \in Seq(Slots)
          /\ \A k \in 1..Len(Tail(chan)) : Tail(chan)[k] = chan[k+1]
      BY <2>1, LenProperties, HeadTailProperties, EmptySeq DEF TypeOK
    <3>3. DOMAIN chan' = 1..(Len(chan) - 1) /\ i # 1
      BY <2>1, <3>1, <3>2, LenProperties
    <3>4. i - 1 \in DOMAIN chan' /\ chan'[i - 1] = t
      BY <2>1, <3>1, <3>2, <3>3
    <3>5. QED
      BY <3>4 DEF Queued
  <2>4. QED
    BY <2>2, <2>3
<1>7. ASSUME GiveUp PROVE (Live(t) \/ t \in Queued)'
  BY <1>7 DEF GiveUp
<1>8. ASSUME NEW s \in pending, Drain(s) PROVE (Live(t) \/ t \in Queued)'
  BY <1>8 DEF Drain
<1>9. ASSUME NEW ip \in unseen, CountGroup(ip) PROVE (Live(t) \/ t \in Queued)'
  BY <1>9 DEF CountGroup
<1>10. ASSUME NEW s \in Slots, Elect(s) PROVE (Live(t) \/ t \in Queued)'
  BY <1>10 DEF Elect
<1>11. ASSUME Tick \/ UNCHANGED vars PROVE (Live(t) \/ t \in Queued)'
  BY <1>11, <1>a DEF Tick, vars
<1>12. ASSUME NEW s \in Slots, Begin(s) \/ Panic(s) \/ \E r \in Addresses \cup {"failed"} : Finish(s, r)
       PROVE  (Live(t) \/ t \in Queued)'
  <2>1. /\ pc' = pc /\ pending' = pending /\ chan' = chan
        /\ worker'[s] \in {"running", "finished"}
        /\ \A u \in Slots \ {s} : worker'[u] = worker[u]
    BY <1>12 DEF Begin, Panic, Finish, TypeOK
  <2>2. QED
    BY <1>0, <2>1 DEF Awaited, Live, Queued
<1>13. ASSUME NEW s \in Slots, Send(s) PROVE (Live(t) \/ t \in Queued)'
  <2>1. /\ pc' = pc /\ pending' = pending
        /\ \A u \in Slots \ {s} : worker'[u] = worker[u]
        /\ chan' = IF Listening(s) THEN Append(chan, s) ELSE chan
    BY <1>13 DEF Send, TypeOK
  <2>2. CASE Listening(s)
    <3>1. /\ DOMAIN chan = 1..Len(chan) /\ Len(chan) \in Nat
          /\ DOMAIN chan' = 1..(Len(chan) + 1)
          /\ \A i \in 1..Len(chan) : chan'[i] = chan[i]
          /\ chan'[Len(chan) + 1] = s
      BY <2>1, <2>2, LenProperties, AppendProperties DEF TypeOK
    <3>2. Queued' = Queued \cup {s}
      BY <3>1 DEF Queued
    <3>3. QED
      BY <1>0, <2>1, <3>2 DEF Awaited, Live
  <2>3. CASE ~Listening(s)
    <3>1. t # s /\ chan' = chan
      BY <2>1, <2>3 DEF Listening
    <3>2. QED
      BY <1>0, <2>1, <3>1 DEF Awaited, Live, Queued
  <2>4. QED
    BY <2>2, <2>3
<1>14. QED
  BY <1>1, <1>2, <1>3, <1>4, <1>5, <1>6, <1>7, <1>8, <1>9, <1>10, <1>11, <1>12, <1>13
     DEF Next, CallerStep, WorkerStep

LEMMA AwaitedInvariant == Spec => [](TypeOK /\ Messages /\ Placement /\ Awaited)
<1>1. Init => Awaited
  BY DEF Init, Awaited
<1>2. QED
  BY <1>1, TypeInit, TypeNext, MessagesNext, PlacementInit, PlacementNext, AwaitedNext,
     PTL DEF Spec

(* The Disconnected arms of the receive loops are dead code: whoever is awaited
   has a worker that will send, or a message in the queue.                   *)
THEOREM NobodyAwaitedInVain == Spec => []PendingHasWorker
<1>1. Awaited => PendingHasWorker
  BY DEF Awaited, PendingHasWorker, Live, Queued
<1>2. QED
  BY <1>1, AwaitedInvariant, PTL
-----------------------------------------------------------------------------
(* The deadline, for timeouts that the clock can add.  While the caller waits,
   the time left and the time waited make up the timeout; it leaves its loop
   with providers unreported only when the time is up.                       *)
Representable == \A c \in Configs : c.timeout <= MaxInstant

Clock ==
    /\ pc \in {"check", "recv"} => left \in Nat /\ left + waited = config.timeout
    /\ pc = "recv" => pending # {}
    /\ pc = "drain" /\ pending # {} => waited = config.timeout

LEMMA ClockNext ==
    ASSUME Representable
    PROVE  TypeOK /\ Placement /\ Awaited /\ Clock /\ [Next]_vars => Clock'
<1> SUFFICES ASSUME TypeOK, Placement, Awaited, Clock, [Next]_vars PROVE Clock'
  OBVIOUS
<1>0. /\ config' = config /\ config.timeout \in Nat /\ config.timeout <= MaxInstant
      /\ MaxInstant \in Nat /\ waited \in 0..config.timeout
  BY ConfigConstant, ConfigType, MaxInstantAssumption DEF TypeOK, Representable
<1>a. UNCHANGED <<pc, pending, left, waited>> => Clock'
  BY <1>0 DEF Clock
<1> USE <1>0 DEF Return, callVars, workerVars, tallyVars, clockVars
<1>1. ASSUME Resolve PROVE Clock'
  BY <1>1 DEF Resolve, Clock
<1>2. ASSUME NEW s \in todo, SkipForZeroTimeout(s) \/ SpawnFails(s) PROVE Clock'
  BY <1>2, <1>a DEF SkipForZeroTimeout, SpawnFails
<1>3. ASSUME NEW s \in todo, Spawn(s) PROVE Clock'
  <2>1. CASE config.strategy = "First"
    <3>1. /\ pc' = "recv" /\ left' = config.timeout /\ waited' = 0
          /\ pending' = pending \cup {s}
      BY <1>3, <2>1 DEF Spawn, FirstPatience
    <3>2. QED
      BY <3>1 DEF Clock
  <2>2. CASE config.strategy # "First"
    <3>1. pc' = "spawn"
      BY <1>3, <2>2 DEF Spawn
    <3>2. QED
      BY <3>1 DEF Clock
  <2>3. QED
    BY <2>1, <2>2
<1>4. ASSUME FirstExhausted \/ RaceLost \/ NoQuorum \/ StartTally PROVE Clock'
  BY <1>4 DEF FirstExhausted, RaceLost, NoQuorum, StartTally, Clock
<1>5. ASSUME Arm PROVE Clock'
  BY <1>5 DEF Arm, SharedPatience, Clock
<1>6. ASSUME Check PROVE Clock'
  BY <1>6 DEF Check, Clock
<1>7. ASSUME NEW s \in Slots, ReceiveAnswer(s) \/ ReceiveVote(s) \/ ReceiveError(s)
      PROVE  Clock'
  <2>1. /\ pc = "recv" /\ pc' \in {"done", "check", "spawn"}
        /\ left' = left /\ waited' = waited
    BY <1>7 DEF ReceiveAnswer, ReceiveVote, ReceiveError
  <2>2. QED
    BY <2>1 DEF Clock
<1>8. ASSUME GiveUp PROVE Clock'
  <2>1. CASE config.strategy = "First"
    BY <1>8, <2>1 DEF GiveUp, Clock
  <2>2. CASE config.strategy # "First"
    <3>1. /\ pc = "recv" /\ pc' = "drain" /\ pending' = pending /\ waited' = waited
          /\ (left # 0 => Disconnected)
      BY <1>8, <2>2 DEF GiveUp
    <3>2. ~Disconnected
      BY <3>1 DEF Disconnected, Awaited, Clock, Live, Queued
    <3>3. QED
      BY <3>1, <3>2 DEF Clock
  <2>3. QED
    BY <2>1, <2>2
<1>9. ASSUME NEW s \in pending, Drain(s) PROVE Clock'
  BY <1>9 DEF Drain, Clock
<1>10. ASSUME NEW ip \in unseen, CountGroup(ip) PROVE Clock'
  BY <1>10, <1>a DEF CountGroup
<1>11. ASSUME NEW s \in Slots, Elect(s) PROVE Clock'
  BY <1>11 DEF Elect, Clock
<1>12. ASSUME Tick PROVE Clock'
  <2>1. pc' = pc /\ pending' = pending
    BY <1>12 DEF Tick
  <2>2. CASE pc \in {"check", "recv"}
    <3>1. /\ left' = IF left > 0 THEN left - 1 ELSE left
          /\ waited' = IF waited < config.timeout THEN waited + 1 ELSE waited
      BY <1>12, <2>2 DEF Tick, Armed
    <3>2. QED
      BY <2>1, <2>2, <3>1 DEF Clock
  <2>3. CASE pc \notin {"check", "recv"}
    <3>1. left' = left /\ waited' = waited
      BY <1>12, <2>3 DEF Tick, Armed
    <3>2. QED
      BY <1>a, <2>1, <3>1
  <2>4. QED
    BY <2>2, <2>3
<1>13. ASSUME NEW s \in Slots, WorkerStep(s) PROVE Clock'
  BY <1>13, <1>a DEF WorkerStep, Begin, Finish, Panic, Send
<1>14. ASSUME UNCHANGED vars PROVE Clock'
  BY <1>14, <1>a DEF vars
<1>15. QED
  BY <1>1, <1>2, <1>3, <1>4, <1>5, <1>6, <1>7, <1>8, <1>9, <1>10, <1>11, <1>12, <1>13, <1>14
     DEF Next, CallerStep

(* Only a step that finds the time used up adds a "timeout". *)
LEMMA TimeoutStep ==
    ASSUME TypeOK, Messages, Placement, Awaited, Clock, [Next]_vars,
           NEW i \in DOMAIN errors' \ DOMAIN errors, errors'[i].reason = "timeout"
    PROVE  waited >= config.timeout
<1>0. config.timeout \in Nat /\ waited \in 0..config.timeout /\ pending \subseteq Slots
  BY ConfigType DEF TypeOK
<1>1. errors' # errors
  OBVIOUS
<1>2. ASSUME NEW s \in Slots, NEW why \in Reasons, errors' = Append(errors, Failure(s, why))
      PROVE  why = "timeout"
  <2>1. Failure(s, why) \in ErrorType /\ errors \in Seq(ErrorType)
    BY ErrorTyped DEF TypeOK
  <2>2. /\ DOMAIN errors = 1..Len(errors) /\ Len(errors) \in Nat
        /\ DOMAIN errors' = 1..(Len(errors) + 1)
        /\ errors'[Len(errors) + 1].reason = why
    BY <1>2, <2>1, LenProperties, AppendProperties DEF Failure
  <2>3. i = Len(errors) + 1
    BY <2>2
  <2>4. QED
    BY <2>2, <2>3
<1> USE DEF Return, callVars, workerVars, tallyVars, clockVars
<1>3. ASSUME NEW s \in todo, SkipForZeroTimeout(s) PROVE waited >= config.timeout
  BY <1>0, <1>3 DEF SkipForZeroTimeout
<1>4. ASSUME NEW s \in todo, SpawnFails(s) PROVE FALSE
  <2>1. s \in Slots /\ errors' = Append(errors, Failure(s, "spawn failed"))
    BY <1>4 DEF SpawnFails, TypeOK
  <2>2. QED
    BY <1>2, <2>1 DEF Reasons
<1>5. ASSUME NEW s \in Slots, ReceiveError(s) PROVE FALSE
  <2>1. errors' = Append(errors, Failure(s, Complaint(s))) /\ s \in Queued
        /\ result[s] \in Addresses \cup Failures
    <3>1. chan # <<>> /\ s = Head(chan) /\ errors' = Append(errors, Failure(s, Complaint(s)))
      BY <1>5 DEF ReceiveError
    <3>2. 1 \in DOMAIN chan /\ s = chan[1]
      BY <3>1, LenProperties, HeadTailProperties, EmptySeq DEF TypeOK
    <3>3. QED
      BY <3>1, <3>2 DEF Messages, TypeOK, Queued
  <2>2. Complaint(s) \in Reasons /\ Complaint(s) # "timeout"
    BY <2>1 DEF Complaint, Reasons, Failures
  <2>3. QED
    BY <1>2, <2>1, <2>2
<1>6. ASSUME GiveUp PROVE waited >= config.timeout
  <2>1. PICK s \in pending : errors' = Append(errors,
              Failure(s, IF left = 0 THEN "timeout" ELSE "disconnected"))
    BY <1>1, <1>6 DEF GiveUp
  <2>2. left = 0
    BY <1>0, <1>2, <2>1 DEF Reasons
  <2>3. QED
    BY <1>0, <1>6, <2>2 DEF GiveUp, Clock
<1>7. ASSUME NEW s \in pending, Drain(s) PROVE waited >= config.timeout
  BY <1>0, <1>7 DEF Drain, Clock
<1>8. QED
  BY <1>1, <1>3, <1>4, <1>5, <1>6, <1>7
     DEF Next, CallerStep, WorkerStep, vars, Resolve, Spawn, FirstExhausted, Arm, Check,
         ReceiveAnswer, ReceiveVote, RaceLost, StartTally, CountGroup, Elect, NoQuorum,
         Begin, Finish, Panic, Send, Tick

(* A provider is reported as timed out only after the configured time, under
   every strategy, provided that the clock can add the timeout.              *)
THEOREM NoEarlyTimeout ==
    ASSUME Representable
    PROVE  Spec => TimeoutMeansDeadlinePassed
<1>1. Init => Awaited /\ Clock
  BY DEF Init, Awaited, Clock
<1>2. TypeOK /\ Placement /\ Awaited /\ Clock /\ [Next]_vars => Clock'
  BY ClockNext
<1>3. TypeOK /\ Messages /\ Placement /\ Awaited /\ Clock /\ [Next]_vars
      => [ \A i \in DOMAIN errors' \ DOMAIN errors :
             errors'[i].reason = "timeout" => waited >= config.timeout ]_vars
  BY TimeoutStep
<1>4. QED
  BY <1>1, <1>2, <1>3, TypeInit, TypeNext, MessagesNext, PlacementInit, PlacementNext,
     AwaitedNext, PTL DEF Spec, TimeoutMeansDeadlinePassed

(* One deadline for all: no message makes a race or consensus call wait again
   once the configured time is up.                                           *)
THEOREM OneDeadline ==
    ASSUME Representable
    PROVE  Spec => OneDeadlineForAll
<1>1. Init => Awaited /\ Clock
  BY DEF Init, Awaited, Clock
<1>2. TypeOK /\ Placement /\ Awaited /\ Clock /\ [Next]_vars => Clock'
  BY ClockNext
<1>3. TypeOK /\ Clock /\ [Next]_vars
      => [ pc = "check" /\ pc' = "recv" => waited < config.timeout ]_vars
  <2> SUFFICES ASSUME TypeOK, Clock, [Next]_vars, pc = "check", pc' = "recv"
               PROVE  waited < config.timeout
    OBVIOUS
  <2>1. Check
    BY DEF Next, CallerStep, WorkerStep, vars, Return, callVars, workerVars, tallyVars,
       clockVars, Resolve, SkipForZeroTimeout, Spawn, SpawnFails, FirstExhausted, Arm,
       ReceiveAnswer, ReceiveVote, ReceiveError, GiveUp, Drain, RaceLost, StartTally,
       CountGroup, Elect, NoQuorum, Begin, Finish, Panic, Send, Tick
  <2>2. left # 0
    BY <2>1 DEF Check
  <2>3. QED
    BY <2>2, ConfigType DEF Clock, TypeOK
<1>4. QED
  BY <1>1, <1>2, <1>3, TypeInit, TypeNext, MessagesNext, PlacementInit, PlacementNext,
     AwaitedNext, PTL DEF Spec, OneDeadlineForAll

-----------------------------------------------------------------------------
(* What a call returns: the order of the First strategy, the winner of a race,
   the tally of a consensus, and the contract that the resolver implements.  *)
(* What no step takes back. *)

(* A worker that has sent its message keeps its answer and its latency. *)
LEMMA GoneKeeps ==
    ASSUME TypeOK, Messages, [Next]_vars, NEW s \in Slots, worker[s] = "gone"
    PROVE  worker'[s] = "gone" /\ result'[s] = result[s] /\ age'[s] = age[s]
<1> USE DEF callVars, workerVars, tallyVars, clockVars
<1>1. ASSUME NEW t \in Slots, WorkerStep(t)
      PROVE  worker'[s] = "gone" /\ result'[s] = result[s] /\ age'[s] = age[s]
  <2>1. t # s
    BY <1>1 DEF WorkerStep, Begin, Finish, Panic, Send
  <2>2. QED
    BY <1>1, <2>1 DEF TypeOK, WorkerStep, Begin, Finish, Panic, Send
<1>2. ASSUME NEW t \in todo, Spawn(t)
      PROVE  worker'[s] = "gone" /\ result'[s] = result[s] /\ age'[s] = age[s]
  <2>1. worker' = [worker EXCEPT ![t] = "spawned"] /\ result' = result /\ age' = age
    BY <1>2 DEF Spawn
  <2>2. worker[t] = "idle"
    BY <1>2 DEF Messages
  <2>3. QED
    BY <2>1, <2>2 DEF TypeOK
<1>3. ASSUME Tick
      PROVE  worker'[s] = "gone" /\ result'[s] = result[s] /\ age'[s] = age[s]
  BY <1>3 DEF Tick, Older
<1>4. QED
  BY <1>1, <1>2, <1>3
     DEF Next, CallerStep, vars, Resolve, SkipForZeroTimeout, SpawnFails, FirstExhausted,
         Arm, Check, ReceiveAnswer, ReceiveVote, ReceiveError, GiveUp, Drain, RaceLost,
         StartTally, CountGroup, Elect, NoQuorum

(* Once the call has returned the caller's thread touches nothing. *)
LEMMA DoneStays ==
    ASSUME pc = "done", [Next]_vars
    PROVE  pc' = "done" /\ UNCHANGED <<callVars, tallyVars>>
BY DEF Next, CallerStep, WorkerStep, vars, callVars, workerVars, tallyVars, clockVars,
       Resolve, SkipForZeroTimeout, Spawn, SpawnFails, FirstExhausted, Arm, Check,
       ReceiveAnswer, ReceiveVote, ReceiveError, GiveUp, Drain, RaceLost, StartTally,
       CountGroup, Elect, NoQuorum, Begin, Finish, Panic, Send, Tick
-----------------------------------------------------------------------------
(* The First strategy goes through the providers in config order: whoever is
   reported comes before whoever is awaited or has won, and they before all
   that the loop has not reached; only providers that were reached have a
   thread.                                                                   *)
Ascending == \A i, j \in DOMAIN errors : i < j => errors[i].slot < errors[j].slot

InOrder ==
    /\ Ascending
    /\ \A s \in ErrorSlots, t \in todo \cup pending \cup Won : s < t
    /\ \A s \in pending \cup Won, t \in todo : s < t
    /\ \A s \in Slots : worker[s] # "idle" => s \in ErrorSlots \cup pending \cup Won

Order == config.strategy = "First" => InOrder

(* An error of a provider after all those reported keeps the list in order. *)
LEMMA ReportedNext ==
    ASSUME TypeOK, ErrorsOnce, Ascending, NEW s \in Slots \ ErrorSlots, NEW why \in Reasons,
           \A e \in ErrorSlots : e < s, errors' = Append(errors, Failure(s, why))
    PROVE  Ascending' /\ ErrorSlots' = ErrorSlots \cup {s}
<1>1. errors \in Seq(ErrorType) /\ Failure(s, why) \in ErrorType
  BY ErrorTyped DEF TypeOK
<1>2. /\ DOMAIN errors = 1..Len(errors) /\ Len(errors) \in Nat
      /\ DOMAIN errors' = 1..(Len(errors) + 1)
      /\ \A i \in 1..Len(errors) : errors'[i] = errors[i] /\ errors[i].slot < s
      /\ errors'[Len(errors) + 1].slot = s
  BY <1>1, LenProperties, AppendProperties DEF Failure, ErrorSlots
<1>3. ASSUME NEW i \in DOMAIN errors', NEW j \in DOMAIN errors', i < j
      PROVE  errors'[i].slot < errors'[j].slot
  <2>1. i \in 1..Len(errors)
    BY <1>2, <1>3
  <2>2. CASE j \in 1..Len(errors)
    BY <1>2, <1>3, <2>1, <2>2 DEF Ascending
  <2>3. CASE j = Len(errors) + 1
    BY <1>2, <2>1, <2>3
  <2>4. QED
    BY <1>2, <2>2, <2>3
<1>4. QED
  BY <1>3, ErrorAdded DEF Ascending

LEMMA OrderInit == Init => Order
BY DEF Init, Order, InOrder, Ascending, ErrorSlots, Won, NotReturned

LEMMA OrderNext == TypeOK /\ Messages /\ Placement /\ Order /\ [Next]_vars => Order'
<1> SUFFICES ASSUME TypeOK, Messages, Placement, InOrder, [Next]_vars,
                    config.strategy = "First"
             PROVE  InOrder'
  BY ConfigConstant DEF Order
<1>0. /\ config' = config /\ Slots' = Slots /\ Slots \subseteq Nat
      /\ todo \subseteq Slots /\ pending \subseteq Slots /\ Matching \subseteq Slots
  BY ConfigConstant, ConfigType DEF TypeOK
<1>a. UNCHANGED <<errors, todo, pending, outcome, worker>> => InOrder'
  BY <1>0 DEF InOrder, Ascending, ErrorSlots, Won
<1>b. /\ pc \notin {"check", "drain", "tally"}
      /\ pc # "done" => Won = {}
      /\ pc = "spawn" => pending = {}
  BY DEF Placement, Phases, Won
<1>c. errors' = errors => Ascending' /\ ErrorSlots' = ErrorSlots
  BY DEF InOrder, Ascending, ErrorSlots
<1> USE DEF Return, callVars, workerVars, tallyVars, clockVars
<1>1. ASSUME Resolve PROVE InOrder'
  <2>1. /\ pc = "start" /\ pending' = {} /\ errors' = errors /\ worker' = worker
        /\ pending = {} /\ ErrorSlots = {}
        /\ outcome' = outcome \/ outcome' = NoProvidersForVersion
    BY <1>1 DEF Resolve, Placement, Covered
  <2>2. Won' = {} /\ Won = {}
    BY <1>0, <1>b, <2>1 DEF Won, NoProvidersForVersion
  <2>3. QED
    BY <1>0, <1>c, <2>1, <2>2 DEF InOrder
<1>2. ASSUME NEW s \in todo, SkipForZeroTimeout(s) \/ SpawnFails(s) PROVE InOrder'
  <2>1. /\ pc = "spawn" /\ todo' = todo \ {s} /\ pending' = {} /\ pending = {}
        /\ worker' = worker /\ outcome' = outcome /\ \A t \in todo : s <= t
    BY <1>2, <1>b DEF SkipForZeroTimeout, SpawnFails, IsNext
  <2>2. \A t \in todo' : s < t
    BY <1>0, <2>1
  <2>3. Won' = {} /\ Won = {}
    BY <1>0, <1>b, <2>1 DEF Won
  <2>4. PICK why \in {"timeout", "spawn failed"} : errors' = Append(errors, Failure(s, why))
    BY <1>2 DEF SkipForZeroTimeout, SpawnFails
  <2>5. Ascending' /\ ErrorSlots' = ErrorSlots \cup {s}
    BY <1>0, <2>4, ReportedNext DEF InOrder, Placement, Disjoint, Reasons
  <2>6. QED
    BY <1>0, <2>1, <2>2, <2>3, <2>5 DEF InOrder
<1>3. ASSUME NEW s \in todo, Spawn(s) PROVE InOrder'
  <2>1. /\ pc = "spawn" /\ todo' = todo \ {s} /\ pending' = {s} /\ pending = {}
        /\ worker' = [worker EXCEPT ![s] = "spawned"] /\ outcome' = outcome
        /\ errors' = errors /\ \A t \in todo : s <= t
    BY <1>3, <1>b DEF Spawn, IsNext
  <2>2. Won' = {} /\ Won = {}
    BY <1>0, <1>b, <2>1 DEF Won
  <2>3. \A t \in todo' : s < t
    BY <1>0, <2>1
  <2>4. \A u \in Slots \ {s} : worker'[u] = worker[u]
    BY <2>1 DEF TypeOK
  <2>5. QED
    BY <1>0, <1>c, <2>1, <2>2, <2>3, <2>4 DEF InOrder
<1>4. ASSUME FirstExhausted PROVE InOrder'
  <2>1. /\ pc = "spawn" /\ UNCHANGED <<todo, pending, errors, worker>>
        /\ outcome' = AllProvidersFailed
    BY <1>4 DEF FirstExhausted
  <2>2. Won' = {} /\ Won = {}
    BY <1>0, <1>b, <2>1 DEF Won, AllProvidersFailed
  <2>3. QED
    BY <1>0, <1>c, <2>1, <2>2 DEF InOrder
<1>5. ASSUME NEW s \in Slots, ReceiveAnswer(s) \/ ReceiveVote(s) \/ ReceiveError(s)
      PROVE  InOrder'
  <2>1. /\ pc = "recv" /\ chan # <<>> /\ s = Head(chan) /\ chan' = Tail(chan)
        /\ pending' = pending \ {s} /\ todo' = todo /\ worker' = worker
    BY <1>5 DEF ReceiveAnswer, ReceiveVote, ReceiveError
  <2>2. pending = {s} /\ pending' = {} /\ Won = {}
    <3>1. s \in pending
      BY <2>1, MessageTaken DEF Placement
    <3>2. QED
      BY <1>b, <2>1, <3>1 DEF Placement, Phases
  <2>3. CASE ReceiveAnswer(s)
    <3>1. errors' = errors /\ outcome' = Success(s)
      BY <2>3 DEF ReceiveAnswer
    <3>2. Won' = {s}
      BY <1>0, <3>1 DEF Won, Success
    <3>3. QED
      BY <1>0, <1>c, <2>1, <2>2, <3>1, <3>2 DEF InOrder
  <2>4. CASE ReceiveError(s)
    <3>1. errors' = Append(errors, Failure(s, Complaint(s))) /\ outcome' = outcome
      BY <2>4 DEF ReceiveError
    <3>2. Complaint(s) \in Reasons
      <4>1. s \in ValuesOf(chan)
        BY <2>1, EmptySeq, LenProperties, HeadTailProperties DEF TypeOK, ValuesOf
      <4>2. result[s] \in Addresses \cup Failures
        BY <4>1 DEF Messages, TypeOK, ValuesOf
      <4>3. QED
        BY <4>2 DEF Complaint, Reasons, Failures
    <3>3. Ascending' /\ ErrorSlots' = ErrorSlots \cup {s}
      BY <2>2, <3>1, <3>2, ReportedNext DEF InOrder, Placement, Disjoint
    <3>4. Won' = {}
      BY <1>0, <2>2, <3>1 DEF Won
    <3>5. QED
      BY <1>0, <2>1, <2>2, <3>3, <3>4 DEF InOrder
  <2>5. QED
    BY <1>5, <2>3, <2>4 DEF ReceiveVote
<1>6. ASSUME GiveUp PROVE InOrder'
  <2>1. /\ pc = "recv" /\ todo' = todo /\ pending' = {} /\ worker' = worker
        /\ outcome' = outcome
    BY <1>6 DEF GiveUp
  <2>2. PICK s \in Slots : pending = {s}
    BY <2>1 DEF Placement, Phases
  <2>3. PICK why \in {"timeout", "disconnected"} : errors' = Append(errors, Failure(s, why))
    BY <1>6, <2>2 DEF GiveUp
  <2>4. Ascending' /\ ErrorSlots' = ErrorSlots \cup {s}
    BY <2>2, <2>3, ReportedNext DEF InOrder, Placement, Disjoint, Reasons
  <2>5. Won' = {} /\ Won = {}
    BY <1>0, <1>b, <2>1 DEF Won
  <2>6. QED
    BY <1>0, <2>1, <2>2, <2>4, <2>5 DEF InOrder
<1>7. ASSUME NEW s \in Slots, WorkerStep(s) PROVE InOrder'
  <2>1. /\ UNCHANGED <<errors, todo, pending, outcome>>
        /\ worker[s] # "idle" /\ \A t \in Slots \ {s} : worker'[t] = worker[t]
    BY <1>7 DEF WorkerStep, Begin, Finish, Panic, Send, TypeOK
  <2>2. Won' = Won
    BY <1>0, <2>1 DEF Won
  <2>3. QED
    BY <1>0, <1>c, <2>1, <2>2 DEF InOrder
<1>8. ASSUME Tick \/ UNCHANGED vars PROVE InOrder'
  BY <1>8, <1>a DEF Tick, vars
<1>9. ASSUME NEW s \in pending, Drain(s) PROVE FALSE
  BY <1>9, <1>b DEF Drain
<1>10. QED
  BY <1>1, <1>2, <1>3, <1>4, <1>5, <1>6, <1>7, <1>8, <1>9, <1>b
     DEF Next, CallerStep, Arm, Check, RaceLost, StartTally, CountGroup, Elect, NoQuorum
-----------------------------------------------------------------------------
(* Who has won, and why the others did not: a winner's worker has sent a valid
   answer, and an error of a race is one of a thread that never was or of a
   message that held no valid answer.                                        *)
Explained(s) == worker[s] = "idle" \/ (worker[s] = "gone" /\ ~Valid(s))

Winner ==
    /\ config.strategy # "Consensus" => VoteSlots = {}
    /\ outcome.kind = "ok" => /\ outcome.slot \in Matching \ ErrorSlots
                              /\ worker[outcome.slot] = "gone" /\ Valid(outcome.slot)
                              /\ config.strategy = "First" => pending = {}
    /\ config.strategy = "Race" /\ (pc \in {"spawn", "check", "recv"} \/ outcome.kind = "ok")
       => \A s \in ErrorSlots : Explained(s)

LEMMA SlotsTyped ==
    ASSUME TypeOK
    PROVE  ErrorSlots \subseteq Slots /\ VoteSlots \subseteq Slots
<1>1. /\ DOMAIN errors = 1..Len(errors) /\ DOMAIN votes = 1..Len(votes)
      /\ \A i \in 1..Len(errors) : errors[i] \in ErrorType
      /\ \A i \in 1..Len(votes) : votes[i] \in Slots
  BY LenProperties, ElementOfSeq DEF TypeOK
<1>2. QED
  BY <1>1 DEF ErrorSlots, VoteSlots, ErrorType

(* Neither a refused thread nor a message handled is ever taken back. *)
LEMMA ExplainedKeeps ==
    ASSUME TypeOK, Messages, [Next]_vars, NEW s \in Slots \ todo, Explained(s)
    PROVE  Explained(s)'
<1>1. CASE worker[s] = "gone" /\ ~Valid(s)
  BY <1>1, GoneKeeps, ConfigConstant DEF Explained, Valid
<1>2. CASE worker[s] = "idle"
  <2>1. worker'[s] = "idle"
    BY <1>2 DEF TypeOK, Next, CallerStep, WorkerStep, vars, workerVars, Resolve,
       SkipForZeroTimeout, Spawn, SpawnFails, FirstExhausted, Arm, Check, ReceiveAnswer,
       ReceiveVote, ReceiveError, GiveUp, Drain, RaceLost, StartTally, CountGroup, Elect,
       NoQuorum, Begin, Finish, Panic, Send, Tick
  <2>2. QED
    BY <2>1 DEF Explained
<1>3. QED
  BY <1>1, <1>2 DEF Explained

LEMMA WinnerInit == Init => Winner
BY DEF Init, Winner, ErrorSlots, VoteSlots, NotReturned

LEMMA WinnerNext == TypeOK /\ Messages /\ Placement /\ Winner /\ [Next]_vars => Winner'
<1> SUFFICES ASSUME TypeOK, Messages, Placement, Winner, [Next]_vars PROVE Winner'
  OBVIOUS
<1>0. config' = config /\ Slots' = Slots /\ Matching' = Matching
  BY ConfigConstant
<1>a. /\ Matching \subseteq Slots /\ ErrorSlots \subseteq Slots /\ VoteSlots \subseteq Slots
      /\ todo \subseteq Slots /\ pending \subseteq Slots
      /\ ErrorSlots \cap (todo \cup pending \cup VoteSlots) = {}
  BY ConfigType, SlotsTyped DEF TypeOK, Placement, Disjoint
<1>b. /\ errors' = errors => ErrorSlots' = ErrorSlots
      /\ votes' = votes => VoteSlots' = VoteSlots
  BY DEF ErrorSlots, VoteSlots
<1>c. \A s \in ErrorSlots : Explained(s) => Explained(s)'
  BY <1>a, ExplainedKeeps
<1>d. pc # "start" => Matching = todo \cup pending \cup ErrorSlots \cup VoteSlots \cup Won
  BY DEF Placement, Covered
<1> USE DEF Return, callVars, workerVars, tallyVars, clockVars
<1>1. CASE pc = "done"
  <2>1. pc' = "done" /\ UNCHANGED callVars
    BY <1>1, DoneStays
  <2>2. outcome.kind = "ok" => worker'[outcome.slot] = "gone" /\ Valid(outcome.slot)'
    <3>1. outcome.kind = "ok" => /\ worker'[outcome.slot] = "gone"
                                /\ result'[outcome.slot] = result[outcome.slot]
      BY <1>a, GoneKeeps DEF Winner
    <3>2. outcome' = outcome
      BY <2>1
    <3>3. QED
      BY <1>0, <3>1, <3>2 DEF Winner, Valid
  <2>3. QED
    BY <1>0, <1>b, <1>c, <2>1, <2>2 DEF Winner
<1>2. CASE pc # "done"
  <2>1. outcome.kind = "none" /\ Won = {}
    BY <1>2 DEF Placement, Phases, Won
  <2>2. ASSUME errors' = errors, votes' = votes, outcome'.kind # "ok",
               pc' \in {"spawn", "check", "recv"} => pc \in {"start", "spawn", "check", "recv"}
        PROVE  Winner'
    <3>1. pc = "start" => ErrorSlots = {}
      BY DEF Placement, Covered
    <3>2. QED
      BY <1>0, <1>b, <1>c, <2>2, <3>1 DEF Winner
  <2>3. ASSUME NEW s \in todo, SkipForZeroTimeout(s) \/ SpawnFails(s) PROVE Winner'
    <3>1. PICK why \in {"timeout", "spawn failed"} : errors' = Append(errors, Failure(s, why))
      BY <2>3 DEF SkipForZeroTimeout, SpawnFails
    <3>2. /\ pc = "spawn" /\ votes' = votes /\ outcome' = outcome /\ worker' = worker
      BY <2>3 DEF SkipForZeroTimeout, SpawnFails
    <3>3. ErrorSlots' = ErrorSlots \cup {s}
      BY <1>a, <3>1, ErrorAdded DEF Placement, Reasons
    <3>4. Explained(s)'
      BY <3>2 DEF Messages, Explained
    <3>5. QED
      BY <1>0, <1>b, <1>c, <2>1, <3>2, <3>3, <3>4 DEF Winner
  <2>4. ASSUME NEW s \in Slots, ReceiveAnswer(s) \/ ReceiveVote(s) \/ ReceiveError(s)
        PROVE  Winner'
    <3>1. /\ pc = "recv" /\ chan # <<>> /\ s = Head(chan) /\ chan' = Tail(chan)
          /\ pending' = pending \ {s} /\ worker' = worker /\ result' = result
      BY <2>4 DEF ReceiveAnswer, ReceiveVote, ReceiveError
    <3>2. s \in pending /\ s \in Matching /\ s \notin ErrorSlots
      BY <1>a, <1>d, <3>1, MessageTaken DEF Placement
    <3>3. worker[s] = "gone" /\ result[s] # NoAnswer
      <4>1. s \in ValuesOf(chan)
        BY <3>1, EmptySeq, LenProperties, HeadTailProperties DEF TypeOK, ValuesOf
      <4>2. QED
        BY <4>1 DEF Messages, ValuesOf
    <3>4. CASE ReceiveAnswer(s)
      <4>1. /\ errors' = errors /\ votes' = votes /\ outcome' = Success(s) /\ Valid(s)
            /\ config.strategy # "Consensus"
        BY <3>4 DEF ReceiveAnswer
      <4>2. config.strategy = "First" => pending' = {}
        BY <3>1, <3>2 DEF Placement, Phases
      <4>3. QED
        BY <1>0, <1>b, <1>c, <3>1, <3>2, <3>3, <4>1, <4>2 DEF Winner, Success, Valid
    <3>5. CASE ReceiveVote(s)
      <4>1. errors' = errors /\ outcome' = outcome /\ config.strategy = "Consensus"
        BY <3>5 DEF ReceiveVote
      <4>2. QED
        BY <1>0, <2>1, <4>1 DEF Winner
    <3>6. CASE ReceiveError(s)
      <4>1. /\ errors' = Append(errors, Failure(s, Complaint(s))) /\ votes' = votes
            /\ outcome' = outcome /\ ~Valid(s)
        BY <3>6 DEF ReceiveError
      <4>2. Complaint(s) \in Reasons
        BY <3>3 DEF Complaint, Reasons, Failures, TypeOK
      <4>3. ErrorSlots' = ErrorSlots \cup {s}
        BY <3>2, <4>1, <4>2, ErrorAdded DEF Placement
      <4>4. Explained(s)'
        BY <1>0, <3>1, <3>3, <4>1 DEF Explained, Valid
      <4>5. QED
        BY <1>0, <1>b, <1>c, <2>1, <3>1, <4>1, <4>3, <4>4 DEF Winner
    <3>7. QED
      BY <2>4, <3>4, <3>5, <3>6
  <2>5. ASSUME GiveUp PROVE Winner'
    <3>1. /\ votes' = votes /\ outcome' = outcome
          /\ pc' = "drain" \/ config.strategy = "First"
      BY <2>5 DEF GiveUp
    <3>2. QED
      BY <1>0, <1>b, <2>1, <3>1 DEF Winner
  <2>6. ASSUME NEW s \in pending, Drain(s) PROVE Winner'
    <3>1. votes' = votes /\ outcome' = outcome /\ pc' = "drain"
      BY <2>6 DEF Drain
    <3>2. QED
      BY <1>0, <1>b, <2>1, <3>1 DEF Winner
  <2>7. ASSUME NEW s \in Slots, Elect(s) PROVE Winner'
    <3>1. /\ pc = "tally" /\ errors' = errors /\ votes' = votes /\ outcome' = Success(s)
          /\ worker' = worker /\ result' = result /\ s \in VoteSlots
      BY <2>7 DEF Elect, Group, VoteSlots
    <3>2. config.strategy = "Consensus"
      BY <3>1 DEF Placement, Phases
    <3>3. worker[s] = "gone" /\ Valid(s)
      BY <3>1 DEF Messages, VoteSlots
    <3>4. QED
      BY <1>0, <1>a, <1>b, <1>d, <3>1, <3>2, <3>3 DEF Winner, Success, Valid
  <2>8. ASSUME Resolve PROVE Winner'
    <3>1. /\ errors' = errors /\ votes' = votes /\ pc = "start"
          /\ outcome' = outcome \/ outcome' = NoProvidersForVersion
      BY <2>8 DEF Resolve
    <3>2. QED
      BY <2>1, <2>2, <3>1 DEF NoProvidersForVersion
  <2>9. ASSUME NEW s \in todo, Spawn(s) PROVE Winner'
    BY <2>1, <2>2, <2>9 DEF Spawn
  <2>10. ASSUME FirstExhausted \/ RaceLost \/ NoQuorum PROVE Winner'
    BY <2>2, <2>10 DEF FirstExhausted, RaceLost, NoQuorum, AllProvidersFailed,
                       ConsensusNotReached
  <2>11. ASSUME Arm \/ Check \/ StartTally PROVE Winner'
    BY <2>1, <2>2, <2>11 DEF Arm, Check, StartTally
  <2>12. ASSUME NEW ip \in unseen, CountGroup(ip) PROVE Winner'
    BY <2>1, <2>2, <2>12 DEF CountGroup
  <2>13. ASSUME Tick \/ UNCHANGED vars PROVE Winner'
    BY <2>1, <2>2, <2>13 DEF Tick, vars
  <2>14. ASSUME NEW s \in Slots, WorkerStep(s) PROVE Winner'
    BY <2>1, <2>2, <2>14 DEF WorkerStep, Begin, Finish, Panic, Send
  <2>15. QED
    BY <2>3, <2>4, <2>5, <2>6, <2>7, <2>8, <2>9, <2>10, <2>11, <2>12, <2>13, <2>14
       DEF Next, CallerStep
<1>3. QED
  BY <1>1, <1>2

LEMMA WinnerInvariant ==
    Spec => [](TypeOK /\ Messages /\ Placement /\ Order /\ Winner)
<1>1. QED
  BY TypeInit, TypeNext, MessagesNext, PlacementInit, PlacementNext, OrderInit, OrderNext,
     WinnerInit, WinnerNext, PTL DEF Spec

(* The First strategy answers from the first provider in config order whose
   turn ended well, all before it are reported in order, and none after it has
   been contacted, however late the answers of the earlier ones come.        *)
THEOREM FirstAnswerIsInOrder == Spec => []FirstKeepsOrder
<1>1. TypeOK /\ Placement /\ Order /\ Winner => FirstKeepsOrder
  <2> SUFFICES ASSUME TypeOK, Placement, InOrder, Winner, config.strategy = "First",
                      outcome.kind = "ok"
               PROVE  /\ Valid(outcome.slot)
                      /\ ErrorSlots = {s \in Matching : s < outcome.slot}
                      /\ Ascending
                      /\ \A s \in Slots : s > outcome.slot => worker[s] = "idle"
    BY DEF FirstKeepsOrder, Order, Ascending
  <2>1. /\ Slots \subseteq Nat /\ ErrorSlots \subseteq Slots /\ todo \subseteq Slots
        /\ outcome.slot \in Slots
    BY ConfigType, SlotsTyped DEF TypeOK, Winner
  <2>2. /\ Won = {outcome.slot} /\ pending = {} /\ VoteSlots = {} /\ Valid(outcome.slot)
    BY DEF Won, Winner
  <2>3. Matching = todo \cup ErrorSlots \cup {outcome.slot}
    BY <2>2 DEF Placement, Covered, Phases
  <2>4. \A s \in ErrorSlots : s < outcome.slot
    BY <2>2 DEF InOrder
  <2>5. \A t \in todo : outcome.slot < t
    BY <2>2 DEF InOrder
  <2>6. PICK w \in Nat : w = outcome.slot
    BY <2>1
  <2>7. ErrorSlots = {s \in Matching : s < outcome.slot}
    <3>1. /\ \A s \in ErrorSlots : s \in Nat /\ s < w
          /\ \A t \in todo : t \in Nat /\ w < t
      BY <2>1, <2>4, <2>5, <2>6
    <3>2. \A s \in Matching : s < w <=> s \in ErrorSlots
      BY <2>3, <2>6, <3>1
    <3>3. ErrorSlots \subseteq Matching
      BY <2>3
    <3>4. QED
      BY <2>6, <3>2, <3>3
  <2>8. ASSUME NEW s \in Slots, s > outcome.slot PROVE worker[s] = "idle"
    <3>1. s \notin ErrorSlots \cup {outcome.slot}
      <4>1. s \in Nat /\ s > w /\ \A e \in ErrorSlots : e \in Nat /\ e < w
        BY <2>1, <2>4, <2>8, <2>6
      <4>2. QED
        BY <2>6, <4>1
    <3>2. QED
      BY <2>2, <3>1 DEF InOrder
  <2>9. QED
    BY <2>2, <2>7, <2>8 DEF InOrder
<1>2. QED
  BY <1>1, WinnerInvariant, PTL

(* A race is won by a matching provider with a valid answer of its own, and
   no message handled before it held one.                                    *)
THEOREM RaceIsWonFairly == Spec => []RaceWinnerIsValid
<1>1. TypeOK /\ Winner => RaceWinnerIsValid
  BY DEF Winner, RaceWinnerIsValid, Explained
<1>2. QED
  BY <1>1, WinnerInvariant, PTL
-----------------------------------------------------------------------------
(* The tally.  The voters of an address are as many as the votes for it. *)
Voters(ip) == {s \in VoteSlots : result[s] = ip}

LEMMA VotersCounted ==
    ASSUME TypeOK, VotesOnce, NEW ip
    PROVE  /\ IsFiniteSet(Voters(ip))
           /\ Cardinality(Voters(ip)) = Cardinality(Group(ip))
           /\ Cardinality(Voters(ip)) \in Nat
           /\ ip \notin Voted => Cardinality(Voters(ip)) = 0
<1>1. Voters(ip) = {votes[i] : i \in Group(ip)}
  BY DEF Voters, VoteSlots, Group
<1>2. \A i, j \in Group(ip) : votes[i] = votes[j] => i = j
  BY DEF VotesOnce, Group
<1>3. IsFiniteSet(Group(ip))
  BY GroupSize
<1>4. IsFiniteSet(Voters(ip)) /\ Cardinality(Voters(ip)) = Cardinality(Group(ip))
  BY <1>1, <1>2, <1>3, ImageCounted
<1>5. ip \notin Voted => Voters(ip) = {}
  BY DEF Voters, VoteSlots, Voted
<1>6. QED
  BY <1>4, <1>5, FS_CardinalityType, FS_EmptySet

(* Nothing that happens while the votes stay the same changes what they say. *)
LEMMA GroupsKeep ==
    ASSUME TypeOK, Messages, [Next]_vars, votes' = votes
    PROVE  /\ Voted' = Voted /\ VoteSlots' = VoteSlots
           /\ \A ip : Group(ip)' = Group(ip) /\ Voters(ip)' = Voters(ip)
           /\ \A s \in VoteSlots : result'[s] = result[s] /\ age'[s] = age[s]
<1>1. \A i \in DOMAIN votes : votes[i] \in Slots /\ worker[votes[i]] = "gone"
  BY SlotsTyped DEF Messages, VoteSlots
<1>2. \A i \in DOMAIN votes : /\ result'[votes[i]] = result[votes[i]]
                             /\ age'[votes[i]] = age[votes[i]]
  BY <1>1, GoneKeeps
<1>3. VoteSlots' = VoteSlots /\ Voted' = Voted
  BY <1>2 DEF VoteSlots, Voted
<1>4. \A s \in VoteSlots : result'[s] = result[s] /\ age'[s] = age[s]
  BY <1>2 DEF VoteSlots
<1>5. \A ip : Group(ip)' = Group(ip)
  BY <1>2 DEF Group
<1>6. \A ip : Voters(ip)' = Voters(ip)
  BY <1>3, <1>4 DEF Voters
<1>7. QED
  BY <1>3, <1>4, <1>5, <1>6

(* While the groups are gone through, best leads all those seen so far. *)
Enough(ip) == Cardinality(Group(ip)) >= config.min_agree

Tally ==
    /\ pc \notin {"tally", "done"} => best = NoAnswer
    /\ pc = "tally" =>
          /\ unseen \subseteq Voted
          /\ best # NoAnswer => best \in Voted /\ Enough(best)
          /\ \A ip \in Voted \ unseen : Enough(ip) =>
                /\ best # NoAnswer
                /\ Cardinality(Group(ip)) <= Cardinality(Group(best))

LEMMA TallyInit == Init => Tally
BY DEF Init, Tally

LEMMA TallyNext == TypeOK /\ Messages /\ Tally /\ [Next]_vars => Tally'
<1> SUFFICES ASSUME TypeOK, Messages, Tally, [Next]_vars PROVE Tally'
  OBVIOUS
<1>0. config' = config /\ config.min_agree \in Nat
  BY ConfigConstant, ConfigType
<1>a. Voted \subseteq Addresses /\ NoAnswer \notin Addresses
  BY AddressAssumption DEF Voted, Messages, Valid
<1>b. \A ip : Cardinality(Group(ip)) \in Nat
  BY GroupSize
<1> USE DEF Return, callVars, workerVars, tallyVars, clockVars
<1>1. ASSUME StartTally PROVE Tally'
  <2>1. /\ pc = "drain" /\ pc' = "tally" /\ unseen' = Voted /\ best' = best /\ votes' = votes
    BY <1>1 DEF StartTally
  <2>2. Voted' = Voted
    BY <2>1, GroupsKeep
  <2>3. QED
    BY <2>1, <2>2 DEF Tally
<1>2. ASSUME NEW ip \in unseen, CountGroup(ip) PROVE Tally'
  <2>1. /\ pc = "tally" /\ pc' = "tally" /\ unseen' = unseen \ {ip} /\ votes' = votes
        /\ best' = IF /\ Enough(ip)
                      /\ best = NoAnswer \/ Cardinality(Group(ip)) > Cardinality(Group(best))
                     THEN ip ELSE best
    BY <1>2 DEF CountGroup, Enough
  <2>2. Voted' = Voted /\ \A x : Group(x)' = Group(x)
    BY <2>1, GroupsKeep
  <2>3. \A x : (Enough(x)' <=> Enough(x)) /\ Cardinality(Group(x))' = Cardinality(Group(x))
    BY <1>0, <2>2 DEF Enough
  <2>4. ip \in Voted /\ ip # NoAnswer
    BY <1>a, <2>1 DEF Tally
  <2>5. best' # NoAnswer => best' \in Voted' /\ Enough(best')
    BY <2>1, <2>2, <2>4 DEF Tally
  <2>6. ASSUME NEW x \in Voted \ unseen', Enough(x)
        PROVE  best' # NoAnswer /\ Cardinality(Group(x)) <= Cardinality(Group(best'))
    <3>1. CASE x = ip
      BY <1>b, <2>1, <2>4, <2>6, <3>1
    <3>2. CASE x # ip
      <4>1. best # NoAnswer /\ Cardinality(Group(x)) <= Cardinality(Group(best))
        BY <2>1, <2>6, <3>2 DEF Tally
      <4>2. CASE best' = best
        BY <4>1, <4>2
      <4>3. CASE best' = ip /\ Cardinality(Group(ip)) > Cardinality(Group(best))
        BY <1>b, <2>4, <4>1, <4>3
      <4>4. QED
        BY <2>1, <4>1, <4>2, <4>3
    <3>3. QED
      BY <3>1, <3>2
  <2>7. QED
    BY <2>1, <2>2, <2>3, <2>5, <2>6 DEF Tally
<1>3. ASSUME pc = "tally" => UNCHANGED <<votes, unseen>>,
             pc' = "tally" => pc = "tally", pc' \in {"tally", "done"} \/ pc \notin {"tally", "done"},
             best' = best
      PROVE  Tally'
  <2>1. pc = "tally" => Voted' = Voted /\ \A x : Group(x)' = Group(x)
    BY <1>3, GroupsKeep
  <2>2. pc = "tally" => \A x : (Enough(x)' <=> Enough(x))
    BY <1>0, <2>1 DEF Enough
  <2>3. QED
    BY <1>3, <2>1, <2>2 DEF Tally
<1>4. ASSUME Tick \/ UNCHANGED vars \/ \E s \in Slots : WorkerStep(s) PROVE Tally'
  BY <1>3, <1>4 DEF Tick, vars, WorkerStep, Begin, Finish, Panic, Send
<1>5. ASSUME Resolve \/ FirstExhausted \/ Arm \/ Check \/ GiveUp \/ RaceLost \/ NoQuorum
      PROVE  Tally'
  BY <1>3, <1>5 DEF Resolve, FirstExhausted, Arm, Check, GiveUp, RaceLost, NoQuorum
<1>6. ASSUME NEW s \in Slots, ReceiveAnswer(s) \/ ReceiveVote(s) \/ ReceiveError(s) \/ Elect(s)
      PROVE  Tally'
  BY <1>3, <1>6 DEF ReceiveAnswer, ReceiveVote, ReceiveError, Elect
<1>7. ASSUME NEW s, SkipForZeroTimeout(s) \/ Spawn(s) \/ SpawnFails(s) \/ Drain(s) PROVE Tally'
  BY <1>3, <1>7 DEF SkipForZeroTimeout, Spawn, SpawnFails, Drain
<1>8. QED
  BY <1>1, <1>2, <1>4, <1>5, <1>6, <1>7 DEF Next, CallerStep
-----------------------------------------------------------------------------
(* The verdict of a consensus call: what it rests on when it is given, and that
   workers that go on afterwards do not change what it rests on.             *)
Elected ==
    config.strategy = "Consensus" /\ outcome.kind = "ok" =>
        /\ outcome.slot \in Voters(result[outcome.slot]) /\ Valid(outcome.slot)
        /\ Enough(result[outcome.slot])
        /\ \A ip \in Voted :
              Cardinality(Group(ip)) <= Cardinality(Group(result[outcome.slot]))
        /\ \A s \in Voters(result[outcome.slot]) : age[outcome.slot] <= age[s]

Refused ==
    outcome.kind = "ConsensusNotReached" =>
        /\ outcome.got = 0 \/ \E ip \in Voted : outcome.got = Cardinality(Group(ip))
        /\ \A ip \in Voted : Cardinality(Group(ip)) <= outcome.got
        /\ outcome.got < config.min_agree

Verdict == Elected /\ Refused

LEMMA ElectedStep ==
    ASSUME TypeOK, Messages, Placement, Tally, NEW s \in Slots, Elect(s), [Next]_vars
    PROVE  Elected'
<1>1. /\ pc = "tally" /\ unseen = {} /\ best # NoAnswer
      /\ outcome' = Success(s)
      /\ UNCHANGED <<config, votes, result, age, best>>
  BY DEF Elect, Return, workerVars, tallyVars
<1>2. PICK i \in Group(best) : Fastest(i, Group(best)) /\ s = votes[i]
  BY DEF Elect
<1>3. s \in VoteSlots /\ result[s] = best /\ Valid(s) /\ s \in Voters(best)
  BY <1>2 DEF Group, VoteSlots, Messages, Voters
<1>4. Enough(best)
  BY <1>1 DEF Tally
<1>5. ASSUME NEW ip \in Voted PROVE Cardinality(Group(ip)) <= Cardinality(Group(best))
  <2>1. CASE Enough(ip)
    BY <1>1, <2>1 DEF Tally
  <2>2. CASE ~Enough(ip)
    <3>1. /\ Cardinality(Group(ip)) \in Nat /\ Cardinality(Group(best)) \in Nat
          /\ config.min_agree \in Nat
      BY GroupSize, ConfigType
    <3>2. QED
      BY <1>4, <2>2, <3>1 DEF Enough
  <2>3. QED
    BY <2>1, <2>2
<1>6. ASSUME NEW t \in Voters(best) PROVE age[s] <= age[t]
  <2>1. PICK j \in Group(best) : t = votes[j]
    BY DEF Voters, VoteSlots, Group
  <2>2. age[s] < age[t] \/ age[s] = age[t]
    BY <1>2, <2>1 DEF Fastest
  <2>3. age[s] \in Nat /\ age[t] \in Nat
    <3>1. t \in Slots
      BY SlotsTyped DEF Voters
    <3>2. age[s] \in 0..MaxAge /\ age[t] \in 0..MaxAge
      BY <3>1 DEF TypeOK
    <3>3. QED
      BY <3>2, MaxAgeAssumption
  <2>4. QED
    BY <2>2, <2>3
<1>7. /\ Voted' = Voted /\ \A ip : Group(ip)' = Group(ip) /\ Voters(ip)' = Voters(ip)
  BY <1>1, GroupsKeep
<1>8. outcome'.slot = s /\ result'[s] = best /\ age' = age /\ config' = config /\ result' = result
  BY <1>1, <1>3 DEF Success
<1>9. Valid(outcome.slot)'
  BY <1>3, <1>8 DEF Valid
<1>10. QED
  BY <1>1, <1>3, <1>4, <1>5, <1>6, <1>7, <1>8, <1>9 DEF Elected, Enough

LEMMA RefusedStep ==
    ASSUME TypeOK, Messages, Placement, Tally, NoQuorum, [Next]_vars
    PROVE  Refused'
<1>1. /\ pc = "tally" /\ unseen = {} /\ best = NoAnswer
      /\ outcome' = ConsensusNotReached(MaxAgreement) /\ UNCHANGED <<config, votes>>
  BY DEF NoQuorum, Return
<1>2. Voted' = Voted /\ \A ip : Group(ip)' = Group(ip)
  BY <1>1, GroupsKeep
<1>3. \A ip \in Voted : ~Enough(ip)
  BY <1>1 DEF Tally
<1>4. MaxAgreement < config.min_agree
  <2>1. config.min_agree \in Nat \ {0}
    BY ConfigType
  <2>2. CASE MaxAgreement = 0
    BY <2>1, <2>2
  <2>3. ASSUME NEW ip \in Voted, MaxAgreement = Cardinality(Group(ip))
        PROVE  MaxAgreement < config.min_agree
    <3>1. ~(MaxAgreement >= config.min_agree) /\ MaxAgreement \in Nat
      BY <1>3, <2>3, MaxAgreementType DEF Enough
    <3>2. QED
      BY <2>1, <3>1
  <2>4. QED
    BY <2>2, <2>3, MaxAgreementType
<1>5. outcome'.got = MaxAgreement /\ config' = config
  BY <1>1 DEF ConsensusNotReached
<1>6. QED
  BY <1>2, <1>4, <1>5, MaxAgreementType DEF Refused

LEMMA VerdictNext ==
    TypeOK /\ Messages /\ Placement /\ Winner /\ Tally /\ Verdict /\ [Next]_vars => Verdict'
<1> SUFFICES ASSUME TypeOK, Messages, Placement, Winner, Tally, Verdict, [Next]_vars
             PROVE  Verdict'
  OBVIOUS
<1>0. config' = config
  BY ConfigConstant
<1> USE DEF Return, callVars, workerVars, tallyVars, clockVars
<1>1. CASE pc = "done"
  <2>1. UNCHANGED <<outcome, votes>>
    BY <1>1, DoneStays
  <2>2. /\ Voted' = Voted /\ VoteSlots' = VoteSlots
        /\ \A ip : Group(ip)' = Group(ip) /\ Voters(ip)' = Voters(ip)
        /\ \A s \in VoteSlots : result'[s] = result[s] /\ age'[s] = age[s]
    BY <2>1, GroupsKeep
  <2>3. ASSUME config.strategy = "Consensus", outcome.kind = "ok" PROVE Elected'
    <3>1. /\ outcome.slot \in Voters(result[outcome.slot]) /\ Valid(outcome.slot)
          /\ outcome.slot \in VoteSlots
      BY <2>3 DEF Verdict, Elected, Voters
    <3>2. outcome' = outcome /\ result'[outcome.slot] = result[outcome.slot]
          /\ age'[outcome.slot] = age[outcome.slot]
      BY <2>1, <2>2, <3>1
    <3>3. Valid(outcome.slot)'
      BY <1>0, <3>1, <3>2 DEF Valid
    <3>4. \A s \in Voters(result[outcome.slot]) : age'[s] = age[s]
      BY <2>2 DEF Voters
    <3>5. QED
      BY <1>0, <2>2, <2>3, <3>1, <3>2, <3>3, <3>4 DEF Verdict, Elected, Enough
  <2>4. Elected'
    BY <1>0, <2>1, <2>3 DEF Elected
  <2>5. Refused'
    BY <1>0, <2>1, <2>2 DEF Verdict, Refused
  <2>6. QED
    BY <2>4, <2>5 DEF Verdict
<1>2. CASE pc # "done"
  <2>1. outcome.kind = "none"
    BY <1>2 DEF Placement, Phases
  <2>2. ASSUME outcome' = outcome \/ outcome'.kind \in {"AllProvidersFailed", "NoProvidersForVersion"}
        PROVE  Verdict'
    BY <2>1, <2>2 DEF Verdict, Elected, Refused
  <2>3. ASSUME NEW s \in Slots, ReceiveAnswer(s) PROVE Verdict'
    BY <1>0, <2>3 DEF ReceiveAnswer, Verdict, Elected, Refused, Success
  <2>4. ASSUME NEW s \in Slots, Elect(s) PROVE Verdict'
    <3>1. outcome'.kind = "ok"
      BY <2>4 DEF Elect, Success
    <3>2. QED
      BY <2>4, <3>1, ElectedStep DEF Verdict, Refused
  <2>5. ASSUME NoQuorum PROVE Verdict'
    <3>1. outcome'.kind = "ConsensusNotReached"
      BY <2>5 DEF NoQuorum, ConsensusNotReached
    <3>2. QED
      BY <2>5, <3>1, RefusedStep DEF Verdict, Elected
  <2>6. ASSUME Resolve \/ FirstExhausted \/ RaceLost PROVE Verdict'
    BY <2>2, <2>6 DEF Resolve, FirstExhausted, RaceLost, AllProvidersFailed,
                      NoProvidersForVersion
  <2>7. QED
    BY <2>2, <2>3, <2>4, <2>5, <2>6
       DEF Next, CallerStep, WorkerStep, vars, SkipForZeroTimeout, Spawn, SpawnFails, Arm,
           Check, ReceiveVote, ReceiveError, GiveUp, Drain, StartTally, CountGroup, Begin,
           Finish, Panic, Send, Tick
<1>3. QED
  BY <1>1, <1>2

LEMMA VerdictInvariant ==
    Spec => [](TypeOK /\ Messages /\ Placement /\ Order /\ Winner /\ Tally /\ Verdict)
<1>1. Init => Verdict
  BY DEF Init, Verdict, Elected, Refused, NotReturned
<1>2. QED
  BY <1>1, TypeInit, TypeNext, MessagesNext, PlacementInit, PlacementNext, OrderInit,
     OrderNext, WinnerInit, WinnerNext, TallyInit, TallyNext, VerdictNext, PTL DEF Spec

(* A consensus answer has min_agree votes, no address has more, and the
   provider named is a fastest of those that gave it: for any number of
   providers and whatever order the hash map yields its groups in.           *)
THEOREM ConsensusHolds == Spec => []ConsensusIsSound
<1>1. TypeOK /\ Placement /\ Verdict => ConsensusIsSound
  <2> SUFFICES ASSUME TypeOK, VotesOnce, Elected, config.strategy = "Consensus",
                      outcome.kind = "ok"
               PROVE  LET group == Voters(result[outcome.slot])
                      IN  /\ Valid(outcome.slot) /\ outcome.slot \in group
                          /\ Cardinality(group) >= config.min_agree
                          /\ \A ip \in Voted : Cardinality(Voters(ip)) <= Cardinality(group)
                          /\ \A s \in group : age[outcome.slot] <= age[s]
    BY DEF ConsensusIsSound, Voters, Placement, Verdict
  <2>1. \A ip : Cardinality(Voters(ip)) = Cardinality(Group(ip))
    BY VotersCounted
  <2>2. QED
    BY <2>1 DEF Elected, Enough
<1>2. QED
  BY <1>1, VerdictInvariant, PTL

(* A refused consensus had no address with min_agree votes, and what it reports
   is the size of the largest group.                                         *)
THEOREM RefusalHolds == Spec => []ConsensusRefusalIsHonest
<1>1. TypeOK /\ Placement /\ Verdict => ConsensusRefusalIsHonest
  <2> SUFFICES ASSUME TypeOK, VotesOnce, Refused, outcome.kind = "ConsensusNotReached"
               PROVE  /\ outcome.got < config.min_agree
                      /\ \A ip \in Addresses : Cardinality(Voters(ip)) <= outcome.got
                      /\ outcome.got > 0 =>
                            \E ip \in Voted : Cardinality(Voters(ip)) = outcome.got
    BY DEF ConsensusRefusalIsHonest, Voters, Placement, Verdict
  <2>1. outcome.got \in Nat
    BY DEF TypeOK, Outcomes
  <2>2. \A ip : Cardinality(Voters(ip)) = Cardinality(Group(ip))
    BY VotersCounted
  <2>3. \A ip : ip \notin Voted => Cardinality(Voters(ip)) = 0
    BY VotersCounted
  <2>4. ASSUME NEW ip \in Addresses PROVE Cardinality(Voters(ip)) <= outcome.got
    BY <2>1, <2>2, <2>3 DEF Refused
  <2>5. outcome.got > 0 => \E ip \in Voted : Cardinality(Voters(ip)) = outcome.got
    BY <2>1, <2>2 DEF Refused
  <2>6. QED
    BY <2>4, <2>5 DEF Refused
<1>2. QED
  BY <1>1, VerdictInvariant, PTL
-----------------------------------------------------------------------------
(* The contract.  Each step of the resolver is a step of the contract, or does
   not show in it, under the mapping of module BlockingResolver.             *)
Unreturned == pc # "done" => outcome = NotReturned

LEMMA UnreturnedNext == Unreturned /\ [Next]_vars => Unreturned'
<1> SUFFICES ASSUME Unreturned, [Next]_vars PROVE Unreturned'
  OBVIOUS
<1>1. CASE pc = "done"
  BY <1>1, DoneStays DEF Unreturned
<1>2. CASE pc # "done"
  BY <1>2 DEF Unreturned, Next, CallerStep, WorkerStep, vars, Return, callVars, workerVars,
     tallyVars, clockVars, Resolve, SkipForZeroTimeout, Spawn, SpawnFails, FirstExhausted,
     Arm, Check, ReceiveAnswer, ReceiveVote, ReceiveError, GiveUp, Drain, RaceLost,
     StartTally, CountGroup, Elect, NoQuorum, Begin, Finish, Panic, Send, Tick
<1>3. QED
  BY <1>1, <1>2

(* A call for which there is no provider returns at once. *)
Matched == pc \notin {"start", "done"} => Matching # {}

LEMMA MatchedNext == Matched /\ [Next]_vars => Matched'
<1> SUFFICES ASSUME Matched, [Next]_vars PROVE Matched'
  OBVIOUS
<1>1. Matching' = Matching
  BY ConfigConstant
<1>2. CASE pc = "done"
  BY <1>2, DoneStays DEF Matched
<1>3. CASE pc # "done"
  BY <1>1, <1>3 DEF Matched, Next, CallerStep, WorkerStep, vars, Return, callVars, workerVars,
     tallyVars, clockVars, Resolve, SkipForZeroTimeout, Spawn, SpawnFails, FirstExhausted,
     Arm, Check, ReceiveAnswer, ReceiveVote, ReceiveError, GiveUp, Drain, RaceLost,
     StartTally, CountGroup, Elect, NoQuorum, Begin, Finish, Panic, Send, Tick
<1>4. QED
  BY <1>2, <1>3

(* What the contract's terms are under the mapping. *)
Open == Matching \ (ErrorSlots \cup Settled)

LEMMA ContractTerms ==
    /\ Contract!Answered = Settled
    /\ Contract!Open = Open
    /\ Contract!MatchingSlots(config) = Matching
    /\ \A ip \in Addresses : Contract!Votes(ip) = {s \in Settled : result[s] = ip}
<1>1. Contract!Answered = Settled
  BY DEF Contract!Answered
<1>2. Contract!MatchingSlots(config) = Matching
  BY DEF Contract!MatchingSlots, Matching, MatchingSlots, Contract!SupportsVersion,
         SupportsVersion
<1>3. Contract!Open = Open
  BY <1>1, <1>2 DEF Contract!Open, Open
<1>4. \A ip \in Addresses : Contract!Votes(ip) = {s \in Settled : result[s] = ip}
  BY <1>1 DEF Contract!Votes
<1>5. QED
  BY <1>1, <1>2, <1>3, <1>4

LEMMA ContractInit == Init => Contract!Init
<1> SUFFICES ASSUME Init PROVE Contract!Init
  OBVIOUS
<1>1. ErrorSlots = {} /\ Settled = {}
  BY DEF Init, ErrorSlots, Settled, VoteSlots, NotReturned
<1>2. [s \in Settled |-> result[s]] = <<>>
  BY <1>1
<1>3. QED
  BY <1>1, <1>2 DEF Init, Contract!Init, NotReturned, Contract!NotReturned

(* The strengthened invariant from which the steps of the contract follow. *)
IInv == TypeOK /\ Messages /\ Placement /\ Order /\ Winner /\ Tally /\ Unreturned
        /\ Matched

LEMMA IInvInit == Init => IInv
<1>1. Init => Unreturned /\ Matched
  BY DEF Init, Unreturned, Matched
<1>2. QED
  BY <1>1, TypeInit, PlacementInit, OrderInit, WinnerInit, TallyInit DEF IInv

LEMMA IInvNext == IInv /\ [Next]_vars => IInv'
BY TypeNext, MessagesNext, PlacementNext, OrderNext, WinnerNext, TallyNext, UnreturnedNext,
   MatchedNext DEF IInv

(* While a call has not returned, whoever is not settled is still to be started
   or awaited; the First strategy settles the least of them.                 *)
LEMMA OpenSlots ==
    ASSUME IInv, pc # "done"
    PROVE  /\ outcome = NotReturned /\ Settled = VoteSlots
           /\ pc # "start" => Open = todo \cup pending
<1>1. outcome = NotReturned /\ Won = {}
  BY DEF IInv, Unreturned, Won, NotReturned
<1>2. Settled = VoteSlots
  BY <1>1 DEF Settled, NotReturned
<1>3. pc # "start" => Open = todo \cup pending
  BY <1>1, <1>2 DEF IInv, Placement, Covered, Disjoint, Open
<1>4. QED
  BY <1>1, <1>2, <1>3

LEMMA LeastAwaited ==
    ASSUME IInv, pc = "recv", config.strategy = "First", NEW s \in pending,
           NEW t \in todo \cup pending
    PROVE  s <= t
<1>1. s \in Nat /\ t \in Nat
  BY ConfigType DEF IInv, TypeOK
<1>2. pending = {s}
  BY DEF IInv, Placement, Phases
<1>3. t # s => s < t
  BY <1>2 DEF IInv, Order, InOrder
<1>4. QED
  BY <1>1, <1>3

(* The answers counted so far never change. *)
LEMMA SettledKeeps ==
    ASSUME IInv, [Next]_vars
    PROVE  \A s \in Settled : result'[s] = result[s]
<1>1. Settled \subseteq Slots /\ \A s \in Settled : worker[s] = "gone"
  <2>1. \A s \in VoteSlots : s \in Slots /\ worker[s] = "gone"
    BY SlotsTyped DEF IInv, Messages, VoteSlots
  <2>2. outcome.kind = "ok" => outcome.slot \in Slots /\ worker[outcome.slot] = "gone"
    BY ConfigType DEF IInv, Winner
  <2>3. QED
    BY <2>1, <2>2 DEF Settled
<1>2. QED
  BY <1>1, GoneKeeps DEF IInv

(* A step that adds no error and no vote and does not return does not show. *)
LEMMA StutterStep ==
    ASSUME IInv, [Next]_vars, errors' = errors, votes' = votes, outcome' = outcome
    PROVE  UNCHANGED Contract!vars
<1>1. ErrorSlots' = ErrorSlots /\ VoteSlots' = VoteSlots /\ config' = config
  BY ConfigConstant DEF ErrorSlots, VoteSlots
<1>2. Settled' = Settled
  BY <1>1 DEF Settled
<1>3. [s \in Settled |-> result[s]]' = [s \in Settled |-> result[s]]
  BY <1>2, SettledKeeps
<1>4. QED
  BY <1>1, <1>3 DEF Contract!vars

(* An error of a provider whose turn it is. *)
LEMMA FailStep ==
    ASSUME IInv, [Next]_vars, pc \notin {"start", "done"}, votes' = votes, outcome' = outcome,
           NEW s \in todo \cup pending, NEW why \in Reasons,
           errors' = Append(errors, Failure(s, why)),
           config.strategy = "First" => \A t \in todo \cup pending : s <= t
    PROVE  Contract!Next
<1>1. /\ outcome = NotReturned /\ Contract!Open = todo \cup pending /\ config' = config
      /\ Settled = VoteSlots
  BY OpenSlots, ContractTerms, ConfigConstant
<1>2. ErrorSlots' = ErrorSlots \cup {s}
  <2>1. s \in Slots \ ErrorSlots
    BY DEF IInv, TypeOK, Placement, Disjoint
  <2>2. QED
    BY <2>1, ErrorAdded DEF IInv, Placement
<1>3. Settled' = Settled
  BY <1>1 DEF Settled, VoteSlots
<1>4. [t \in Settled |-> result[t]]' = [t \in Settled |-> result[t]]
  BY <1>3, SettledKeeps
<1>5. Contract!Due(s)
  BY <1>1 DEF Contract!Due, NotReturned, Contract!NotReturned
<1>6. Contract!Fail(s)
  BY <1>1, <1>2, <1>4, <1>5 DEF Contract!Fail
<1>7. QED
  BY <1>1, <1>6 DEF Contract!Next

(* A valid answer of a provider whose turn it is. *)
LEMMA AnswerStep ==
    ASSUME IInv, [Next]_vars, pc = "recv", errors' = errors, result' = result,
           NEW s \in pending, Valid(s),
           Settled' = Settled \cup {s},
           outcome' = IF config.strategy = "Consensus" THEN outcome ELSE Success(s)
    PROVE  Contract!Next
<1>1. /\ outcome = NotReturned /\ Contract!Open = todo \cup pending /\ config' = config
      /\ Settled = VoteSlots /\ Contract!Answered = Settled
  BY OpenSlots, ContractTerms, ConfigConstant
<1>2. PICK ip \in Addresses : ip = result[s] /\ VersionMatches(config.version, ip)
  BY DEF Valid
<1>3. Contract!Due(s)
  <2>1. s \in todo \cup pending
    OBVIOUS
  <2>2. config.strategy = "First" => \A t \in todo \cup pending : s <= t
    BY LeastAwaited
  <2>3. QED
    BY <1>1, <2>1, <2>2 DEF Contract!Due, NotReturned, Contract!NotReturned
<1>4. ErrorSlots' = ErrorSlots
  BY DEF ErrorSlots
<1>5. [t \in Settled |-> result[t]]'
        = [t \in Settled \cup {s} |-> IF t = s THEN ip ELSE [u \in Settled |-> result[u]][t]]
  BY <1>2
<1>6. Contract!VersionMatches(config.version, ip)
  BY <1>2 DEF VersionMatches, Contract!VersionMatches
<1>7. Contract!Answer(s, ip)
  BY <1>1, <1>3, <1>4, <1>5, <1>6
     DEF Contract!Answer, NotReturned, Contract!NotReturned, Success, Contract!Success
<1>8. s \in Contract!Open /\ ip \in Contract!Addresses
  BY <1>1 DEF Addresses, Contract!Addresses
<1>9. QED
  BY <1>7, <1>8 DEF Contract!Next

(* The contract's agreement on an address is the size of its group. *)
LEMMA AgreementIs ==
    ASSUME IInv, pc # "done"
    PROVE  /\ \A ip \in Addresses : /\ Contract!Agreement(ip) = Cardinality(Group(ip))
                                    /\ Contract!Agreement(ip) \in Nat
                                    /\ ip \notin Voted => Contract!Agreement(ip) = 0
           /\ Contract!Addresses = Addresses
<1>1. \A ip \in Addresses : Contract!Votes(ip) = Voters(ip)
  BY OpenSlots, ContractTerms DEF Voters
<1>2. \A ip \in Addresses : Contract!Agreement(ip) = Cardinality(Voters(ip))
  <2>1. \A S : Contract!Cardinality(S) = Cardinality(S)
    BY Zenon DEF Cardinality, Contract!Cardinality
  <2>2. QED
    BY <1>1, <2>1 DEF Contract!Agreement
<1>3. \A ip : /\ Cardinality(Voters(ip)) = Cardinality(Group(ip))
              /\ Cardinality(Voters(ip)) \in Nat
              /\ ip \notin Voted => Cardinality(Voters(ip)) = 0
  BY VotersCounted DEF IInv, Placement
<1>4. Contract!Addresses = Addresses
  BY DEF Addresses, Contract!Addresses
<1>5. QED
  BY <1>2, <1>3, <1>4

(* The call fails when every provider is settled and none agreed enough. *)
LEMMA RefuseStep ==
    ASSUME IInv, [Next]_vars, pc # "done", Open = {}, errors' = errors, votes' = votes,
           \A ip \in Voted : Cardinality(Group(ip)) < config.min_agree,
           outcome' = CASE Matching = {} -> NoProvidersForVersion
                        [] Matching # {} /\ config.strategy # "Consensus" -> AllProvidersFailed
                        [] OTHER -> ConsensusNotReached(MaxAgreement)
    PROVE  Contract!Next
<1>1. /\ outcome = NotReturned /\ Contract!Open = {} /\ config' = config
      /\ Settled = VoteSlots /\ Contract!MatchingSlots(config) = Matching
  BY OpenSlots, ContractTerms, ConfigConstant
<1>2. ErrorSlots' = ErrorSlots /\ VoteSlots' = VoteSlots
  BY DEF ErrorSlots, VoteSlots
<1>3. [t \in Settled |-> result[t]]' = [t \in Settled |-> result[t]]
  <2>1. outcome'.kind # "ok"
    BY DEF NoProvidersForVersion, AllProvidersFailed, ConsensusNotReached
  <2>2. Settled' = Settled
    BY <1>1, <1>2, <2>1 DEF Settled
  <2>3. QED
    BY <2>2, SettledKeeps
<1>4. \A ip \in Addresses : Contract!Agreement(ip) < config.min_agree
  <2>1. config.min_agree \in Nat \ {0}
    BY ConfigType DEF IInv
  <2>2. QED
    BY <2>1, AgreementIs
<1>5. Contract!Max({0} \cup {Contract!Agreement(ip) : ip \in Contract!Addresses}) = MaxAgreement
  <2>1. {0} \cup {Contract!Agreement(ip) : ip \in Contract!Addresses}
          = {0} \cup {Cardinality(Group(ip)) : ip \in Voted}
    <3>1. Voted \subseteq Addresses
      BY DEF IInv, Messages, Voted, Valid
    <3>2. \A ip \in Contract!Addresses :
             Contract!Agreement(ip) \in {0} \cup {Cardinality(Group(x)) : x \in Voted}
      BY AgreementIs
    <3>3. \A ip \in Voted :
             Cardinality(Group(ip)) \in {Contract!Agreement(x) : x \in Contract!Addresses}
      BY <3>1, AgreementIs
    <3>4. QED
      BY <3>2, <3>3
  <2>2. QED
    BY <2>1 DEF MaxAgreement, Max, Contract!Max
<1>6. outcome' = CASE Contract!MatchingSlots(config) = {} -> Contract!NoProvidersForVersion
                   [] Contract!MatchingSlots(config) # {} /\ config.strategy # "Consensus"
                        -> Contract!AllProvidersFailed
                   [] OTHER -> Contract!ConsensusNotReached(
                        Contract!Max({0} \cup {Contract!Agreement(ip) : ip \in Contract!Addresses}))
  BY <1>1, <1>5 DEF NoProvidersForVersion, AllProvidersFailed, ConsensusNotReached,
     Contract!NoProvidersForVersion, Contract!AllProvidersFailed, Contract!ConsensusNotReached
<1>7. Contract!Refuse
  BY <1>1, <1>2, <1>3, <1>4, <1>6, AgreementIs
     DEF Contract!Refuse, NotReturned, Contract!NotReturned
<1>8. QED
  BY <1>7 DEF Contract!Next

LEMMA AgreeStep ==
    ASSUME IInv, [Next]_vars, NEW s \in Slots, Elect(s)
    PROVE  Contract!Next
<1>1. /\ pc = "tally" /\ outcome' = Success(s) /\ UNCHANGED <<config, errors, votes, result, best>>
      /\ config.strategy = "Consensus"
  BY DEF Elect, Return, workerVars, tallyVars, IInv, Placement, Phases
<1>2. /\ outcome = NotReturned /\ Contract!Open = {}
      /\ Settled = VoteSlots /\ Contract!Answered = Settled
  <2>1. todo = {} /\ pending = {}
    BY <1>1 DEF IInv, Placement, Phases
  <2>2. QED
    BY <1>1, <2>1, OpenSlots, ContractTerms
<1>3. ErrorSlots' = ErrorSlots /\ Settled' = Settled
  BY <1>1, <1>2 DEF ErrorSlots, VoteSlots, Settled, Success
<1>4. [t \in Settled |-> result[t]]' = [t \in Settled |-> result[t]]
  BY <1>1, <1>3
<1>5. Elected'
  BY ElectedStep DEF IInv
<1>6. /\ Voted' = Voted /\ VoteSlots' = VoteSlots
      /\ \A ip : Group(ip)' = Group(ip) /\ Voters(ip)' = Voters(ip)
  BY <1>1, GroupsKeep DEF IInv
<1>7. PICK ip : ip = result[s]
  OBVIOUS
<1>8. /\ s \in Voters(ip) /\ s \in VoteSlots /\ ip \in Addresses
      /\ Cardinality(Group(ip)) >= config.min_agree
      /\ \A x \in Voted : Cardinality(Group(x)) <= Cardinality(Group(ip))
  <2>1. outcome'.kind = "ok" /\ outcome'.slot = s /\ result'[s] = ip /\ config' = config
    BY <1>1, <1>7 DEF Success
  <2>2. /\ s \in Voters(ip) /\ Cardinality(Group(ip)) >= config.min_agree
        /\ \A x \in Voted : Cardinality(Group(x)) <= Cardinality(Group(ip))
    BY <1>1, <1>5, <1>6, <2>1 DEF Elected, Enough
  <2>3. Valid(s)
    BY <2>2 DEF Voters, VoteSlots, IInv, Messages
  <2>4. QED
    BY <1>7, <2>2, <2>3 DEF Voters, Valid
<1>9. \A x \in Addresses : Contract!Agreement(x) <= Contract!Agreement(ip)
  <2>1. \A x \in Addresses : x \notin Voted => Contract!Agreement(x) = 0
    BY <1>1, AgreementIs
  <2>2. \A x \in Voted \cap Addresses : Contract!Agreement(x) <= Contract!Agreement(ip)
    BY <1>1, <1>8, AgreementIs
  <2>3. Contract!Agreement(ip) \in Nat
    BY <1>1, <1>8, AgreementIs
  <2>4. QED
    BY <2>1, <2>2, <2>3
<1>10. Contract!Agreement(ip) >= config.min_agree
  BY <1>1, <1>8, AgreementIs
<1>11. [t \in Settled |-> result[t]][s] = ip
  BY <1>2, <1>7, <1>8
<1>12. Contract!Agree(s)
  BY <1>1, <1>2, <1>3, <1>4, <1>8, <1>9, <1>10, <1>11, AgreementIs
     DEF Contract!Agree, NotReturned, Contract!NotReturned, Success, Contract!Success
<1>13. QED
  BY <1>2, <1>8, <1>12 DEF Contract!Next

LEMMA ContractStep == IInv /\ [Next]_vars => [Contract!Next]_(Contract!vars)
<1> SUFFICES ASSUME IInv, [Next]_vars PROVE Contract!Next \/ UNCHANGED Contract!vars
  OBVIOUS
<1>0. todo \subseteq Slots /\ pending \subseteq Slots /\ Slots \subseteq Nat
  BY ConfigType DEF IInv, TypeOK
<1> USE DEF Return, callVars, workerVars, tallyVars, clockVars
<1>1. ASSUME Resolve PROVE Contract!Next \/ UNCHANGED Contract!vars
  <2>1. CASE Matching = {}
    <3>1. /\ pc # "done" /\ errors' = errors /\ votes' = votes
          /\ outcome' = NoProvidersForVersion /\ Open = {}
      BY <1>1, <2>1 DEF Resolve, Open
    <3>2. Voted = {}
      BY <1>1 DEF Resolve, IInv, Placement, Covered, VoteSlots, Voted
    <3>3. QED
      BY <2>1, <3>1, <3>2, RefuseStep
  <2>2. CASE Matching # {}
    BY <1>1, <2>2, StutterStep DEF Resolve
  <2>3. QED
    BY <2>1, <2>2
<1>2. ASSUME NEW s \in todo, SkipForZeroTimeout(s) \/ SpawnFails(s) PROVE Contract!Next
  <2>1. /\ pc = "spawn" /\ votes' = votes /\ outcome' = outcome /\ \A t \in todo : s <= t
        /\ config.strategy = "First" => pending = {}
    BY <1>2 DEF SkipForZeroTimeout, SpawnFails, IsNext, IInv, Placement, Phases
  <2>2. PICK why \in {"timeout", "spawn failed"} : errors' = Append(errors, Failure(s, why))
    BY <1>2 DEF SkipForZeroTimeout, SpawnFails
  <2>3. why \in Reasons
    BY DEF Reasons
  <2>4. QED
    BY <2>1, <2>2, <2>3, FailStep
<1>3. ASSUME FirstExhausted \/ RaceLost PROVE Contract!Next
  <2>1. /\ pc \notin {"start", "done"} /\ errors' = errors /\ votes' = votes
        /\ outcome' = AllProvidersFailed /\ config.strategy # "Consensus"
        /\ todo = {} /\ pending = {}
    BY <1>3 DEF FirstExhausted, RaceLost, IInv, Placement, Phases
  <2>2. Open = {}
    BY <2>1, OpenSlots
  <2>3. Voted = {}
    BY <2>1 DEF IInv, Winner, VoteSlots, Voted
  <2>4. CASE Matching # {}
    BY <2>1, <2>2, <2>3, <2>4, RefuseStep
  <2>5. CASE Matching = {}
    <3>1. Matched
      BY <2>5, <2>1 DEF IInv, Matched
    <3>2. QED
      BY <2>1, <2>5, <3>1 DEF Matched
  <2>6. QED
    BY <2>4, <2>5
<1>4. ASSUME NEW s \in Slots, ReceiveAnswer(s) PROVE Contract!Next
  <2>1. /\ pc = "recv" /\ chan # <<>> /\ s = Head(chan) /\ chan' = Tail(chan)
        /\ pending' = pending \ {s} /\ errors' = errors /\ votes' = votes /\ result' = result
        /\ Valid(s) /\ outcome' = Success(s) /\ config' = config
        /\ config.strategy # "Consensus"
    BY <1>4 DEF ReceiveAnswer
  <2>2. s \in pending /\ (config.strategy = "First" => pending = {s})
    <3>1. s \in pending
      BY <2>1, MessageTaken DEF IInv, Placement
    <3>2. QED
      BY <2>1, <3>1 DEF IInv, Placement, Phases
  <2>3. Settled' = Settled \cup {s}
    <3>1. Settled = VoteSlots
      BY <2>1, OpenSlots
    <3>2. VoteSlots' = VoteSlots
      BY <2>1 DEF VoteSlots
    <3>3. QED
      BY <2>1, <3>1, <3>2 DEF Settled, Success
  <2>4. QED
    BY <2>1, <2>2, <2>3, AnswerStep
<1>5. ASSUME NEW s \in Slots, ReceiveVote(s) PROVE Contract!Next
  <2>1. /\ pc = "recv" /\ chan # <<>> /\ s = Head(chan) /\ chan' = Tail(chan)
        /\ pending' = pending \ {s} /\ errors' = errors /\ votes' = Append(votes, s)
        /\ result' = result /\ Valid(s) /\ outcome' = outcome /\ config' = config
        /\ config.strategy = "Consensus"
    BY <1>5 DEF ReceiveVote
  <2>2. s \in pending
    BY <2>1, MessageTaken DEF IInv, Placement
  <2>3. Settled' = Settled \cup {s}
    <3>1. VoteSlots' = VoteSlots \cup {s}
      BY <2>1, <2>2, VoteAdded DEF IInv, Placement, Disjoint
    <3>2. QED
      BY <2>1, <3>1 DEF Settled
  <2>4. QED
    BY <2>1, <2>2, <2>3, AnswerStep
<1>6. ASSUME NEW s \in Slots, ReceiveError(s) PROVE Contract!Next
  <2>1. /\ pc = "recv" /\ chan # <<>> /\ s = Head(chan) /\ chan' = Tail(chan)
        /\ pending' = pending \ {s} /\ votes' = votes /\ outcome' = outcome
        /\ errors' = Append(errors, Failure(s, Complaint(s)))
    BY <1>6 DEF ReceiveError
  <2>2. s \in pending
    BY <2>1, MessageTaken DEF IInv, Placement
  <2>3. Complaint(s) \in Reasons
    <3>1. s \in ValuesOf(chan)
      BY <2>1, EmptySeq, LenProperties, HeadTailProperties DEF IInv, TypeOK, ValuesOf
    <3>2. result[s] \in Addresses \cup Failures
      BY <3>1 DEF IInv, Messages, TypeOK, ValuesOf
    <3>3. QED
      BY <3>2 DEF Complaint, Reasons, Failures
  <2>4. config.strategy = "First" => \A t \in todo \cup pending : s <= t
    BY <1>0, <2>1, <2>2, LeastAwaited
  <2>5. QED
    BY <2>1, <2>2, <2>3, <2>4, FailStep
<1>7. ASSUME GiveUp PROVE Contract!Next \/ UNCHANGED Contract!vars
  <2>1. pc = "recv" /\ votes' = votes /\ outcome' = outcome
    BY <1>7 DEF GiveUp
  <2>2. CASE config.strategy = "First"
    <3>1. PICK s \in pending :
             errors' = Append(errors, Failure(s, IF left = 0 THEN "timeout" ELSE "disconnected"))
      BY <1>7, <2>2 DEF GiveUp
    <3>2. \A t \in todo \cup pending : s <= t
      BY <2>1, <2>2, LeastAwaited
    <3>3. (IF left = 0 THEN "timeout" ELSE "disconnected") \in Reasons
      BY DEF Reasons
    <3>4. QED
      BY <2>1, <3>1, <3>2, <3>3, FailStep
  <2>3. CASE config.strategy # "First"
    BY <1>7, <2>1, <2>3, StutterStep DEF GiveUp
  <2>4. QED
    BY <2>2, <2>3
<1>8. ASSUME NEW s \in pending, Drain(s) PROVE Contract!Next
  <2>1. /\ pc = "drain" /\ votes' = votes /\ outcome' = outcome /\ config.strategy # "First"
        /\ errors' = Append(errors, Failure(s, "timeout"))
    BY <1>8 DEF Drain, IInv, Placement, Phases
  <2>2. "timeout" \in Reasons
    BY DEF Reasons
  <2>3. QED
    BY <2>1, <2>2, FailStep
<1>9. ASSUME NEW s \in Slots, Elect(s) PROVE Contract!Next
  BY <1>9, AgreeStep
<1>10. ASSUME NoQuorum PROVE Contract!Next
  <2>1. /\ pc = "tally" /\ unseen = {} /\ best = NoAnswer /\ errors' = errors /\ votes' = votes
        /\ outcome' = ConsensusNotReached(MaxAgreement)
    BY <1>10 DEF NoQuorum
  <2>2. todo = {} /\ pending = {} /\ config.strategy = "Consensus"
    BY <2>1 DEF IInv, Placement, Phases
  <2>3. Open = {}
    BY <2>1, <2>2, OpenSlots
  <2>4. \A ip \in Voted : Cardinality(Group(ip)) < config.min_agree
    <3>1. \A ip \in Voted : ~Enough(ip)
      BY <2>1 DEF IInv, Tally
    <3>2. \A ip : Cardinality(Group(ip)) \in Nat
      BY GroupSize DEF IInv
    <3>3. config.min_agree \in Nat
      BY ConfigType DEF IInv
    <3>4. QED
      BY <3>1, <3>2, <3>3 DEF Enough
  <2>5. Matching # {}
    BY <2>1 DEF IInv, Matched
  <2>6. QED
    BY <2>1, <2>2, <2>3, <2>4, <2>5, RefuseStep
<1>11. ASSUME Arm \/ Check \/ StartTally PROVE UNCHANGED Contract!vars
  BY <1>11, StutterStep DEF Arm, Check, StartTally
<1>12. ASSUME NEW s, Spawn(s) \/ CountGroup(s) PROVE UNCHANGED Contract!vars
  BY <1>12, StutterStep DEF Spawn, CountGroup
<1>13. ASSUME Tick \/ UNCHANGED vars PROVE UNCHANGED Contract!vars
  BY <1>13, StutterStep DEF Tick, vars
<1>14. ASSUME NEW s \in Slots, WorkerStep(s) PROVE UNCHANGED Contract!vars
  BY <1>14, StutterStep DEF WorkerStep, Begin, Finish, Panic, Send
<1>15. QED
  BY <1>1, <1>2, <1>3, <1>4, <1>5, <1>6, <1>7, <1>8, <1>9, <1>10, <1>11, <1>12, <1>13, <1>14
     DEF Next, CallerStep

(* The blocking resolver keeps the contract of module Resolution: any number of
   providers, whatever its threads, its channel and its clock do.            *)
THEOREM BlockingKeepsContract == Spec => ImplementsContract
<1>1. Init => Contract!Init
  BY ContractInit
<1>2. IInv /\ [Next]_vars => [Contract!Next]_(Contract!vars)
  BY ContractStep
<1>3. QED
  BY <1>1, <1>2, IInvInit, IInvNext, PTL DEF Spec, ImplementsContract, Contract!Spec
=============================================================================
