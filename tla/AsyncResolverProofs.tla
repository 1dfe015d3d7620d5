------------------------ MODULE AsyncResolverProofs -------------------------
(* Theorems about the asynchronous resolver, for every set of configurations:
   any number of providers, any timeouts and any addresses.                  *)
EXTENDS AsyncResolver, CollectionLemmas

(* What the type invariant says of the configuration. *)
LEMMA ConfigType ==
    ASSUME TypeOK
    PROVE  /\ config \in Config
           /\ config.timeout \in Nat /\ config.min_agree \in Nat \ {0, 1}
           /\ config.strategy \in Strategies
           /\ Slots \subseteq Nat \ {0}
           /\ Matching \subseteq Slots
<1>1. config \in Config
  BY ConfigsAssumption DEF TypeOK
<1>2. /\ config.timeout \in Nat /\ config.min_agree \in Nat \ {0, 1}
      /\ config.providers \in Seq(Provider) /\ config.strategy \in Strategies
  BY <1>1 DEF Config
<1>3. QED
  BY <1>1, <1>2, LenProperties DEF Slots, Matching, MatchingSlots

(* The configuration is never changed, and so neither is what depends on it. *)
LEMMA ConfigConstant ==
    ASSUME [Next]_vars
    PROVE  config' = config /\ Slots' = Slots /\ Matching' = Matching /\ Outcomes' = Outcomes
<1>1. config' = config
  BY DEF Next, TaskStep, ProviderStep, vars, callVars, pollVars, worldVars, Resolve,
     MakeFuture, MakePanics, FirstExhausted, Await, SkipCompleted, PollPending, PollAnswer,
     PollError, PollJoin, PollPanics, Sleep, Wake, RaceLost, Joined, Gather, Gathered,
     CountGroup, Elect, NoQuorum, Reply, Rouse, Tick
<1>2. Slots' = Slots
  BY <1>1 DEF Slots
<1>3. QED
  BY <1>1, <1>2 DEF Matching, Outcomes

(* A call that has returned is over: neither the task nor anything it awaited
   takes another step.                                                       *)
LEMMA DoneStays ==
    ASSUME [Next]_vars, pc = "done"
    PROVE  UNCHANGED vars
BY DEF Next, TaskStep, ProviderStep, Resolve, MakeFuture, MakePanics, FirstExhausted, Await,
   Polling, SkipCompleted, PollPending, PollAnswer, PollError, PollJoin, PollPanics, Sleep,
   Wake, RaceLost, Joined, Gather, Gathered, CountGroup, Elect, NoQuorum, Reply, Rouse, Tick

(* Vec::swap_remove takes out the element it is asked to, and no other. *)
LEMMA SwapRemoved ==
    ASSUME NEW S, NEW seq \in Seq(S), NEW i \in DOMAIN seq
    PROVE  /\ SwapRemove(seq, i) \in Seq(S)
           /\ Len(SwapRemove(seq, i)) = Len(seq) - 1
           /\ NoRepeats(seq) =>
                 /\ NoRepeats(SwapRemove(seq, i))
                 /\ ValuesOf(SwapRemove(seq, i)) = ValuesOf(seq) \ {seq[i]}
<1> DEFINE n == Len(seq)
           r == SwapRemove(seq, i)
<1>1. /\ n \in Nat \ {0} /\ DOMAIN seq = 1..n /\ i \in 1..n /\ \A j \in 1..n : seq[j] \in S
      /\ n - 1 \in Nat
  BY LenProperties
<1>2. /\ DOMAIN r = 1..(n - 1)
      /\ \A j \in 1..(n - 1) : r[j] = IF j = i THEN seq[n] ELSE seq[j]
      /\ r = [j \in 1..(n - 1) |-> IF j = i THEN seq[n] ELSE seq[j]]
  BY DEF SwapRemove
<1> HIDE DEF n, r
<1>3. r \in Seq(S) /\ Len(r) = n - 1
  <2>1. \A j \in 1..(n - 1) : (IF j = i THEN seq[n] ELSE seq[j]) \in S
    BY <1>1
  <2>2. QED
    BY <1>1, <1>2, <2>1
<1>4. ASSUME NoRepeats(seq) PROVE NoRepeats(r) /\ ValuesOf(r) = ValuesOf(seq) \ {seq[i]}
  <2>1. \A j, k \in 1..n : seq[j] = seq[k] => j = k
    BY <1>1, <1>4 DEF NoRepeats
  <2>2. NoRepeats(r)
    BY <1>1, <1>2, <2>1 DEF NoRepeats
  <2>3. ValuesOf(r) \subseteq ValuesOf(seq) \ {seq[i]}
    BY <1>1, <1>2, <2>1 DEF ValuesOf
  <2>4. ASSUME NEW x \in ValuesOf(seq) \ {seq[i]} PROVE x \in ValuesOf(r)
    <3>1. PICK j \in 1..n : x = seq[j] /\ j # i
      BY <1>1 DEF ValuesOf
    <3>2. CASE j = n
      BY <1>1, <1>2, <3>1, <3>2 DEF ValuesOf
    <3>3. CASE j # n
      BY <1>1, <1>2, <3>1, <3>3 DEF ValuesOf
    <3>4. QED
      BY <3>2, <3>3
  <2>5. QED
    BY <2>2, <2>3, <2>4
<1>5. QED
  BY <1>3, <1>4 DEF n, r

(* A group of votes is no larger than the number of votes. *)
LEMMA GroupSize ==
    ASSUME TypeOK, NEW ip
    PROVE  /\ IsFiniteSet(Group(ip)) /\ Size(ip) \in 0..Len(votes)
           /\ Size(ip) \in Nat /\ Len(votes) \in Nat
<1>1. Len(votes) \in Nat /\ DOMAIN votes = 1..Len(votes)
  BY LenProperties DEF TypeOK
<1>2. IsFiniteSet(DOMAIN votes) /\ Cardinality(DOMAIN votes) = Len(votes)
  <2>1. IsFiniteSet(1..Len(votes))
        /\ Cardinality(1..Len(votes)) = IF 1 > Len(votes) THEN 0 ELSE Len(votes) - 1 + 1
    BY <1>1, FS_Interval
  <2>2. QED
    BY <2>1, <1>1
<1>3. Group(ip) \in SUBSET DOMAIN votes
  BY DEF Group
<1>4. IsFiniteSet(Group(ip)) /\ Size(ip) <= Len(votes)
  BY <1>2, <1>3, FS_Subset DEF Size
<1>5. Size(ip) \in Nat
  BY <1>4, FS_CardinalityType DEF Size
<1>6. QED
  BY <1>1, <1>4, <1>5

(* The size that NoQuorum reports is a natural number. *)
LEMMA LargestSizeType ==
    ASSUME TypeOK
    PROVE  Max({0} \cup {Size(ip) : ip \in Voted}) \in Nat
<1> DEFINE sizes == {0} \cup {Size(ip) : ip \in Voted}
<1>1. sizes \in SUBSET (0..Len(votes)) /\ sizes # {} /\ Len(votes) \in Nat
  <2>1. Len(votes) \in Nat
    BY LenProperties DEF TypeOK
  <2>2. \A ip \in Voted : Size(ip) \in 0..Len(votes)
    BY GroupSize
  <2>3. 0 \in 0..Len(votes)
    BY <2>1
  <2>4. QED
    BY <2>1, <2>2, <2>3
<1> HIDE DEF sizes
<1>2. Max(sizes) \in sizes
  BY <1>1, MaxOfBounded
<1>3. \A n \in Nat : \A x \in 0..n : x \in Nat
  OBVIOUS
<1>4. Max(sizes) \in Nat
  BY <1>1, <1>2, <1>3, Zenon
<1>5. QED
  BY <1>4 DEF sizes
-----------------------------------------------------------------------------
LEMMA TypeInit == Init => TypeOK
<1> SUFFICES ASSUME Init PROVE TypeOK
  OBVIOUS
<1>1. outcome \in Outcomes
  BY DEF Init, Outcomes, OutcomeKinds, NotReturned
<1>2. reply \in [Slots -> Addresses \cup Failures \cup {NoAnswer}]
  BY DEF Init
<1>3. QED
  BY <1>1, <1>2, MaxAgeAssumption DEF Init, TypeOK, PCs

(* The values a call may return, and the entries that errors may grow by. *)
LEMMA OutcomeTyped ==
    /\ NoProvidersForVersion \in Outcomes /\ AllProvidersFailed \in Outcomes
    /\ \A s \in Slots : Success(s) \in Outcomes /\ Panicked(s) \in Outcomes
    /\ \A n \in Nat : ConsensusNotReached(n) \in Outcomes
BY DEF Outcomes, OutcomeKinds, NoProvidersForVersion, AllProvidersFailed, Success, Panicked,
       ConsensusNotReached

LEMMA ErrorTyped ==
    ASSUME TypeOK, NEW s \in Slots
    PROVE  /\ Failure(s, Complaint(s)) \in [slot : Slots, reason : Reasons]
           /\ Append(errors, Failure(s, Complaint(s))) \in Seq([slot : Slots, reason : Reasons])
<1>1. Complaint(s) \in Reasons
  BY DEF Complaint, Reasons
<1>2. Failure(s, Complaint(s)) \in [slot : Slots, reason : Reasons]
  BY <1>1 DEF Failure
<1>3. errors \in Seq([slot : Slots, reason : Reasons])
  BY DEF TypeOK
<1>4. QED
  BY <1>2, <1>3, AppendProperties

LEMMA TypeNext == TypeOK /\ Voted \subseteq Addresses /\ [Next]_vars => TypeOK'
<1> SUFFICES ASSUME TypeOK, Voted \subseteq Addresses, [Next]_vars PROVE TypeOK'
  OBVIOUS
<1>0. /\ config.timeout \in Nat /\ Matching \subseteq Slots
      /\ DOMAIN futures \subseteq Nat \ {0} /\ \A i \in DOMAIN futures : futures[i] \in Slots
      /\ DOMAIN votes \subseteq Nat \ {0} /\ \A i \in DOMAIN votes : votes[i] \in Slots
  BY ConfigType, LenProperties DEF TypeOK
<1>b. config' = config /\ Slots' = Slots /\ Outcomes' = Outcomes
  BY ConfigConstant
<1> USE <1>b DEF TypeOK, Return, callVars, pollVars, tallyVars, worldVars
<1>1. ASSUME Resolve PROVE TypeOK'
  BY <1>0, <1>1, OutcomeTyped DEF Resolve, PCs
<1>2. ASSUME NEW s \in todo, MakeFuture(s) PROVE TypeOK'
  <2>1. s \in Slots
    OBVIOUS
  <2>2. CASE config.strategy = "First"
    <3>1. futures' = <<s>> /\ at' = 1 /\ pc' = "poll"
      BY <1>2, <2>2 DEF MakeFuture
    <3>2. QED
      BY <1>2, <2>1, <3>1 DEF MakeFuture, PCs
  <2>3. CASE config.strategy # "First"
    <3>1. futures' = Append(futures, s) /\ at' = at /\ pc' = pc
      BY <1>2, <2>3 DEF MakeFuture
    <3>2. futures' \in Seq(Slots)
      BY <2>1, <3>1, AppendProperties
    <3>3. QED
      BY <1>2, <3>1, <3>2 DEF MakeFuture
  <2>4. QED
    BY <2>2, <2>3
<1>3. ASSUME NEW s \in todo, MakePanics(s) PROVE TypeOK'
  BY <1>3, OutcomeTyped DEF MakePanics, PCs
<1>4. ASSUME FirstExhausted \/ RaceLost PROVE TypeOK'
  BY <1>4, OutcomeTyped DEF FirstExhausted, RaceLost, PCs
<1>5. ASSUME Await \/ Sleep \/ Wake \/ Joined \/ Gathered PROVE TypeOK'
  BY <1>5 DEF Await, Sleep, Wake, Joined, Gathered, PCs
<1>6. ASSUME NEW s \in Slots, SkipCompleted(s) \/ Rouse(s) PROVE TypeOK'
  BY <1>6 DEF SkipCompleted, Rouse, PCs
<1>7. ASSUME NEW s \in Slots, PollPending(s) PROVE TypeOK'
  <2>1. left' \in [Slots -> Nat \cup {Unpolled}]
    BY <1>0, <1>7 DEF PollPending
  <2>2. QED
    BY <1>7, <2>1 DEF PollPending
<1>8. ASSUME NEW s \in Slots, PollAnswer(s) PROVE TypeOK'
  BY <1>8, OutcomeTyped DEF PollAnswer, PCs
<1>9. ASSUME NEW s \in Slots, PollError(s) PROVE TypeOK'
  <2>1. futures' \in Seq(Slots)
    BY <1>9, SwapRemoved DEF PollError, Polling
  <2>2. errors' \in Seq([slot : Slots, reason : Reasons])
    BY <1>9, ErrorTyped DEF PollError
  <2>3. pc' \in PCs
    BY <1>9 DEF PollError, PCs
  <2>4. QED
    BY <1>9, <2>1, <2>2, <2>3 DEF PollError
<1>10. ASSUME NEW s \in Slots, PollJoin(s) PROVE TypeOK'
  BY <1>10 DEF PollJoin
<1>11. ASSUME NEW s \in Slots, PollPanics(s) PROVE TypeOK'
  BY <1>11, OutcomeTyped DEF PollPanics, PCs
<1>12. ASSUME NEW s \in Slots, Gather(s) PROVE TypeOK'
  <2>1. Append(votes, s) \in Seq(Slots)
    BY AppendProperties
  <2>2. votes' \in Seq(Slots) /\ errors' \in Seq([slot : Slots, reason : Reasons])
    BY <1>12, <2>1, ErrorTyped DEF Gather
  <2>3. /\ at' = at + 1
        /\ UNCHANGED <<pc, todo, outcome, futures, completed, done, tallyVars, worldVars>>
    BY <1>12 DEF Gather
  <2>4. QED
    BY <2>2, <2>3
<1>13. ASSUME NEW s \in Slots, Elect(s) PROVE TypeOK'
  BY <1>13, OutcomeTyped DEF Elect, PCs
<1>14. ASSUME NoQuorum PROVE TypeOK'
  BY <1>14, LargestSizeType, OutcomeTyped DEF NoQuorum, PCs
<1>15. ASSUME NEW s \in Slots, NEW r \in Addresses \cup Failures, Reply(s, r) PROVE TypeOK'
  <2>1. reply' \in [Slots -> Addresses \cup Failures \cup {NoAnswer}]
    BY <1>15 DEF Reply
  <2>2. QED
    BY <1>15, <2>1 DEF Reply
<1>16. ASSUME Tick PROVE TypeOK'
  <2>1. left' \in [Slots -> Nat \cup {Unpolled}]
    <3>1. \A s \in Slots : left[s] \in Nat \cup {-1}
      BY DEF Unpolled
    <3>2. \A s \in Slots : (IF s \in Awaited /\ left[s] > 0 THEN left[s] - 1 ELSE left[s])
                              \in Nat \cup {-1}
      BY <3>1
    <3>3. QED
      BY <1>16, <3>2 DEF Tick, Unpolled
  <2>2. age' \in [Slots -> 0..MaxAge]
    <3>1. \A s \in Slots : (IF s \in Awaited /\ age[s] < MaxAge THEN age[s] + 1 ELSE age[s])
                              \in 0..MaxAge
      BY MaxAgeAssumption
    <3>2. QED
      BY <1>16, <3>1 DEF Tick
  <2>3. QED
    BY <1>16, <2>1, <2>2 DEF Tick
<1>17. ASSUME NEW ip \in unseen, CountGroup(ip) PROVE TypeOK'
  BY <1>17 DEF CountGroup
<1>18. CASE UNCHANGED vars
  BY <1>18 DEF vars
<1>19. QED
  BY <1>1, <1>2, <1>3, <1>4, <1>5, <1>6, <1>7, <1>8, <1>9, <1>10, <1>11, <1>12, <1>13, <1>14,
     <1>15, <1>16, <1>17, <1>18 DEF Next, TaskStep, ProviderStep
-----------------------------------------------------------------------------
(* The strengthened invariant: where each matching provider is. *)
Joining == config.strategy = "Consensus"
FutureSlots == ValuesOf(futures)

(* No provider has two futures, two errors or two votes, or an error and a vote. *)
ErrorsOnce == \A i, j \in DOMAIN errors : errors[i].slot = errors[j].slot => i = j

Once ==
    /\ NoRepeats(futures) /\ NoRepeats(votes) /\ ErrorsOnce
    /\ ErrorSlots \cap VoteSlots = {}

(* What each stage of the task finds.  resolve_first awaits one future, that of
   the least provider it has not tried.                                      *)
Phases ==
    /\ pc # "done" => outcome = NotReturned
    /\ pc = "start" => completed = {} /\ futures = <<>> /\ errors = <<>> /\ votes = <<>>
    /\ pc = "make" /\ config.strategy = "First" => futures = <<>>
    /\ pc \in {"poll", "asleep"} =>
          IF config.strategy = "First"
            THEN Len(futures) = 1 /\ \A t \in todo : futures[1] < t
            ELSE todo = {}
    /\ pc \in {"gather", "tally"} => Joining /\ todo = {}
    /\ pc = "asleep" => /\ at > Len(futures) /\ futures # <<>>
                        /\ Joining => done # Len(futures)
    /\ pc \notin {"start", "done"} => Matching # {}

(* Consensus: the futures stay in the vector, and only when all have completed
   are their results gone through, in the vector's order.                    *)
Seen == {futures[i] : i \in {j \in DOMAIN futures : j < at}}

Collected ==
    /\ Matching = todo \cup FutureSlots
    /\ completed \subseteq FutureSlots
    /\ pc \in {"make", "poll", "asleep"} => errors = <<>> /\ votes = <<>>
    /\ pc \in {"gather", "tally"} => completed = FutureSlots
    /\ pc = "gather" => ErrorSlots \cup VoteSlots = Seen
    /\ pc = "tally" => ErrorSlots \cup VoteSlots = Matching

(* First and Race: a future leaves the vector with the error that it gave. *)
Tried ==
    /\ Matching = todo \cup FutureSlots \cup ErrorSlots
    /\ ErrorSlots \cap (todo \cup FutureSlots) = {}
    /\ votes = <<>> /\ completed = ErrorSlots

Placement ==
    pc \notin {"start", "done"} =>
        /\ todo \cap FutureSlots = {}
        /\ IF Joining THEN Collected ELSE Tried

(* join_all_vec counts each result once. *)
Counted == Joining => IsFiniteSet(completed) /\ done = Cardinality(completed)

(* Errors and votes come from completed futures, and only votes are valid. *)
Judged ==
    /\ \A s \in ErrorSlots : s \in completed /\ ~Valid(s)
    /\ \A s \in VoteSlots : s \in completed /\ Valid(s)

(* The scan leaves behind futures that are completed or have been polled. *)
Polled ==
    pc \in {"poll", "asleep"} =>
        \A i \in DOMAIN futures :
            i < at => futures[i] \in completed \/ left[futures[i]] # Unpolled

(* While the groups are gone through, best leads all those seen so far. *)
Enough(ip) == Size(ip) >= config.min_agree

Tally ==
    /\ pc \notin {"tally", "done"} => best = NoAnswer
    /\ pc = "tally" =>
          /\ unseen \subseteq Voted
          /\ best # NoAnswer => best \in Voted /\ Enough(best)
          /\ \A ip \in Voted \ unseen : Enough(ip) => best # NoAnswer /\ Size(ip) <= Size(best)

IInv == TypeOK /\ Once /\ Phases /\ Placement /\ Counted /\ Judged /\ Polled /\ Tally

LEMMA IInvInit == Init => IInv
<1> SUFFICES ASSUME Init PROVE IInv
  OBVIOUS
<1>1. ErrorSlots = {} /\ VoteSlots = {}
  BY DEF Init, ErrorSlots, VoteSlots
<1>2. Once /\ Phases /\ Placement /\ Judged /\ Polled /\ Tally
  BY <1>1 DEF Init, Once, Phases, Placement, Judged, Polled, Tally, NoRepeats, ErrorsOnce
<1>3. Counted
  BY FS_EmptySet DEF Init, Counted
<1>4. QED
  BY <1>2, <1>3, TypeInit DEF IInv
-----------------------------------------------------------------------------
(* What a future has completed with, and when, is settled. *)
LEMMA CompletedKeeps ==
    ASSUME TypeOK, [Next]_vars, NEW s \in completed
    PROVE  reply'[s] = reply[s] /\ age'[s] = age[s] /\ (Valid(s)' <=> Valid(s))
<1>0. s \in Slots /\ s \notin Awaited /\ config' = config
  BY ConfigConstant DEF TypeOK, Awaited
<1>1. reply'[s] = reply[s] /\ age'[s] = age[s]
  <2>1. CASE Tick
    BY <1>0, <2>1 DEF Tick, TypeOK
  <2>2. ASSUME NEW t \in Slots, NEW r, Reply(t, r) PROVE reply'[s] = reply[s] /\ age'[s] = age[s]
    BY <1>0, <2>2 DEF Reply, TypeOK
  <2>3. CASE \E t \in Slots : Rouse(t)
    BY <2>3 DEF Rouse, worldVars
  <2>4. CASE TaskStep
    BY <2>4 DEF TaskStep, worldVars, Resolve, MakeFuture, MakePanics, FirstExhausted, Await,
       SkipCompleted, PollPending, PollAnswer, PollError, PollJoin, PollPanics, Sleep, Wake,
       RaceLost, Joined, Gather, Gathered, CountGroup, Elect, NoQuorum
  <2>5. QED
    BY <2>1, <2>2, <2>3, <2>4 DEF Next, ProviderStep, vars, worldVars
<1>2. QED
  BY <1>0, <1>1 DEF Valid

(* Only addresses are voted for, and nothing moves the groups that the votes
   form.                                                                     *)
LEMMA VotedTyped ==
    ASSUME IInv
    PROVE  Voted \subseteq Addresses /\ NoAnswer \notin Voted
<1>1. Voted \subseteq Addresses
  BY DEF IInv, Judged, VoteSlots, Voted, Valid
<1>2. QED
  BY <1>1, AddressAssumption

LEMMA GroupsKeep ==
    ASSUME IInv, [Next]_vars, votes' = votes
    PROVE  Voted' = Voted /\ \A ip : Size(ip)' = Size(ip) /\ (Enough(ip)' <=> Enough(ip))
<1>1. \A i \in DOMAIN votes : reply'[votes[i]] = reply[votes[i]]
  BY CompletedKeeps DEF IInv, Judged, VoteSlots
<1>2. Voted' = Voted
  BY <1>1 DEF Voted
<1>3. \A ip : Group(ip)' = Group(ip)
  BY <1>1 DEF Group
<1>4. \A ip : Size(ip)' = Size(ip)
  BY <1>3 DEF Size
<1>5. config' = config
  BY ConfigConstant
<1>6. QED
  BY <1>2, <1>4, <1>5 DEF Enough

(* Errors and votes are of slots of this call. *)
LEMMA JudgedTyped ==
    ASSUME TypeOK
    PROVE  ErrorSlots \subseteq Slots /\ VoteSlots \subseteq Slots /\ FutureSlots \subseteq Slots
<1>1. \A i \in DOMAIN errors : errors[i].slot \in Slots
  <2>1. PICK T : T = [slot : Slots, reason : Reasons]
    OBVIOUS
  <2>2. errors \in Seq(T)
    BY <2>1 DEF TypeOK
  <2>3. \A i \in DOMAIN errors : errors[i] \in T
    BY <2>2, LenProperties
  <2>4. \A e \in T : e.slot \in Slots
    BY <2>1
  <2>5. QED
    BY <2>3, <2>4
<1>2. /\ \A i \in DOMAIN votes : votes[i] \in Slots
      /\ \A i \in DOMAIN futures : futures[i] \in Slots
  BY LenProperties DEF TypeOK
<1>3. QED
  BY <1>1, <1>2 DEF ErrorSlots, VoteSlots, FutureSlots, ValuesOf

(* A new error is of a provider that had none. *)
LEMMA ErrorAdded ==
    ASSUME TypeOK, ErrorsOnce, NEW s \in Slots \ ErrorSlots,
           errors' = Append(errors, Failure(s, Complaint(s)))
    PROVE  ErrorSlots' = ErrorSlots \cup {s} /\ ErrorsOnce'
<1>1. /\ errors \in Seq([slot : Slots, reason : Reasons])
      /\ Failure(s, Complaint(s)) \in [slot : Slots, reason : Reasons]
  BY ErrorTyped DEF TypeOK
<1>2. /\ DOMAIN errors' = DOMAIN errors \cup {Len(errors) + 1}
      /\ Len(errors) + 1 \notin DOMAIN errors
      /\ \A i \in DOMAIN errors : errors'[i] = errors[i]
      /\ errors'[Len(errors) + 1].slot = s
  <2>1. /\ DOMAIN errors' = DOMAIN errors \cup {Len(errors) + 1}
        /\ Len(errors) + 1 \notin DOMAIN errors
        /\ \A i \in DOMAIN errors : errors'[i] = errors[i]
        /\ errors'[Len(errors) + 1] = Failure(s, Complaint(s))
    BY <1>1, Appended
  <2>2. QED
    BY <2>1 DEF Failure
<1>3. \A i \in DOMAIN errors : errors'[i].slot = errors[i].slot /\ errors[i].slot # s
  BY <1>2 DEF ErrorSlots
<1>4. ErrorSlots' = ErrorSlots \cup {s}
  BY <1>2, <1>3 DEF ErrorSlots
<1>5. ErrorsOnce'
  BY <1>2, <1>3 DEF ErrorsOnce
<1>6. QED
  BY <1>4, <1>5

(* A new vote comes from a provider that had none. *)
LEMMA VoteAdded ==
    ASSUME TypeOK, NoRepeats(votes), NEW s \in Slots \ VoteSlots, votes' = Append(votes, s)
    PROVE  VoteSlots' = VoteSlots \cup {s} /\ NoRepeats(votes')
<1>1. votes \in Seq(Slots) /\ VoteSlots = ValuesOf(votes) /\ VoteSlots' = ValuesOf(votes')
  BY DEF TypeOK, VoteSlots, ValuesOf
<1>2. QED
  BY <1>1, AppendedOnce

(* A future joins the vector, or leaves it. *)
LEMMA FutureMade ==
    ASSUME TypeOK, Phases, Placement, NoRepeats(futures), NEW s \in todo, MakeFuture(s)
    PROVE  NoRepeats(futures') /\ FutureSlots' = FutureSlots \cup {s}
<1>0. pc = "make" /\ s \in Slots \ FutureSlots
  BY DEF MakeFuture, TypeOK, Placement
<1>1. CASE config.strategy = "First"
  <2>1. futures = <<>> /\ futures' = <<s>>
    BY <1>0, <1>1 DEF MakeFuture, Phases
  <2>2. QED
    BY <2>1 DEF NoRepeats, FutureSlots, ValuesOf
<1>2. CASE config.strategy # "First"
  <2>1. futures' = Append(futures, s) /\ futures \in Seq(Slots)
    BY <1>2 DEF MakeFuture, TypeOK
  <2>2. QED
    BY <1>0, <2>1, AppendedOnce DEF FutureSlots
<1>3. QED
  BY <1>1, <1>2

LEMMA FutureDropped ==
    ASSUME TypeOK, NoRepeats(futures), NEW s, PollError(s)
    PROVE  /\ s \in FutureSlots /\ s \in Slots
           /\ NoRepeats(futures') /\ FutureSlots' = FutureSlots \ {s}
           /\ Len(futures') = Len(futures) - 1
<1>1. /\ futures' = SwapRemove(futures, at) /\ at \in DOMAIN futures /\ s = futures[at]
      /\ futures \in Seq(Slots)
  BY DEF PollError, Polling, TypeOK
<1>2. s \in FutureSlots
  BY <1>1 DEF FutureSlots, ValuesOf
<1>3. s \in Slots
  BY <1>1, LenProperties
<1>4. QED
  BY <1>1, <1>2, <1>3, SwapRemoved DEF FutureSlots

(* The vector is as long as the set of its slots is large. *)
LEMMA FuturesCounted ==
    ASSUME TypeOK, NoRepeats(futures)
    PROVE  IsFiniteSet(FutureSlots) /\ Cardinality(FutureSlots) = Len(futures)
<1>1. Len(futures) \in Nat /\ DOMAIN futures = 1..Len(futures)
  BY LenProperties DEF TypeOK
<1>2. FutureSlots = {futures[i] : i \in 1..Len(futures)}
  BY <1>1 DEF FutureSlots, ValuesOf
<1>3. \A i, j \in 1..Len(futures) : futures[i] = futures[j] => i = j
  BY <1>1 DEF NoRepeats
<1>4. QED
  BY <1>1, <1>2, <1>3, OnceCounted
-----------------------------------------------------------------------------
LEMMA PhasesNext == IInv /\ [Next]_vars => Phases'
<1> SUFFICES ASSUME IInv, [Next]_vars PROVE Phases'
  OBVIOUS
<1>0. /\ TypeOK /\ Phases /\ Slots \subseteq Nat /\ todo \subseteq Slots
  BY ConfigType DEF IInv, TypeOK
<1>b. config' = config /\ Matching' = Matching /\ (Joining' <=> Joining)
  BY ConfigConstant DEF Joining
<1> USE <1>0, <1>b DEF Phases, Return, callVars, pollVars, worldVars
<1>1. CASE pc = "done"
  BY <1>1, DoneStays DEF vars
<1>2. ASSUME Resolve PROVE Phases'
  BY <1>2 DEF Resolve
<1>3. ASSUME NEW s \in todo, MakeFuture(s) PROVE Phases'
  <2>1. CASE config.strategy = "First"
    <3>1. futures' = <<s>> /\ pc' = "poll" /\ todo' = todo \ {s} /\ outcome' = outcome /\ pc = "make"
      BY <1>3, <2>1 DEF MakeFuture
    <3>2. \A t \in todo' : s < t
      BY <1>3, <3>1 DEF MakeFuture
    <3>3. Len(futures') = 1 /\ futures'[1] = s
      BY <3>1
    <3>4. QED
      BY <2>1, <3>1, <3>2, <3>3
  <2>2. CASE config.strategy # "First"
    BY <1>3, <2>2 DEF MakeFuture
  <2>3. QED
    BY <2>1, <2>2
<1>4. ASSUME pc' = "done" PROVE Phases'
  BY <1>4
<1>5. ASSUME NEW s \in Slots, PollError(s) PROVE Phases'
  <2>1. /\ pc = "poll" /\ outcome' = outcome /\ todo' = todo
        /\ pc' = IF config.strategy = "First" THEN "make" ELSE "poll"
    BY <1>5 DEF PollError, Polling
  <2>2. config.strategy = "First" => futures' = <<>>
    <3>1. Len(futures') = Len(futures) - 1
      BY <1>5, FutureDropped DEF IInv, Once
    <3>2. futures' \in Seq(Slots)
      BY <1>5, SwapRemoved DEF PollError, Polling, TypeOK
    <3>3. config.strategy = "First" => Len(futures') = 0
      BY <2>1, <3>1
    <3>4. QED
      BY <3>2, <3>3, EmptySeq
  <2>3. QED
    BY <2>1, <2>2
<1>6. ASSUME Await \/ Sleep \/ Wake \/ Joined \/ Gathered PROVE Phases'
  BY <1>6 DEF Await, Sleep, Wake, Joined, Gathered, Joining
<1>7. ASSUME NEW s \in Slots, SkipCompleted(s) \/ PollPending(s) \/ PollJoin(s) PROVE Phases'
  BY <1>7 DEF SkipCompleted, PollPending, PollJoin, Polling
<1>8. ASSUME NEW s \in Slots, Gather(s) PROVE Phases'
  BY <1>8 DEF Gather
<1>9. ASSUME NEW s \in Slots, Rouse(s) \/ \E r \in Addresses \cup Failures : Reply(s, r)
      PROVE  Phases'
  BY <1>9 DEF Rouse, Reply
<1>10. ASSUME Tick \/ UNCHANGED vars PROVE Phases'
  BY <1>10 DEF Tick, vars
<1>11. ASSUME NEW ip, CountGroup(ip) PROVE Phases'
  BY <1>11 DEF CountGroup
<1>12. QED
  BY <1>2, <1>3, <1>4, <1>5, <1>6, <1>7, <1>8, <1>9, <1>10, <1>11
     DEF Next, TaskStep, ProviderStep, MakePanics, FirstExhausted, PollAnswer, PollPanics,
         RaceLost, Elect, NoQuorum

(* A result that is gone through is of a provider that is in neither list yet. *)
LEMMA GatheredOnce ==
    ASSUME IInv, NEW s, Gather(s)
    PROVE  /\ Joining /\ Collected /\ s \in Slots \ (ErrorSlots \cup VoteSlots)
           /\ s \in completed
<1>1. pc = "gather" /\ at \in DOMAIN futures /\ s = futures[at]
  BY DEF Gather
<1>2. Joining /\ Collected
  BY <1>1 DEF IInv, Phases, Placement
<1>3. s \notin Seen
  <2>1. \A j \in DOMAIN futures : j \in Nat
    BY LenProperties DEF IInv, TypeOK
  <2>2. QED
    BY <1>1, <2>1 DEF IInv, Once, NoRepeats, Seen
<1>4. s \in FutureSlots
  BY <1>1 DEF FutureSlots, ValuesOf
<1>5. s \in Slots
  BY <1>4, JudgedTyped DEF IInv
<1>6. QED
  BY <1>1, <1>2, <1>3, <1>4, <1>5 DEF Collected

LEMMA OnceNext == IInv /\ [Next]_vars => Once'
<1> SUFFICES ASSUME IInv, [Next]_vars PROVE Once'
  OBVIOUS
<1>0. TypeOK /\ Once /\ Phases /\ Placement
  BY DEF IInv
<1> USE DEF Return, callVars, pollVars, worldVars
<1>1. ASSUME errors' = errors, votes' = votes, NoRepeats(futures') PROVE Once'
  BY <1>0, <1>1 DEF Once, ErrorsOnce, ErrorSlots, VoteSlots
<1>2. ASSUME NEW s \in todo, MakeFuture(s) PROVE Once'
  <2>1. NoRepeats(futures')
    BY <1>0, <1>2, FutureMade DEF Once
  <2>2. QED
    BY <1>1, <1>2, <2>1 DEF MakeFuture
<1>3. ASSUME NEW s \in Slots, PollError(s) PROVE Once'
  <2>1. /\ pc = "poll" /\ ~Joining /\ votes' = votes
        /\ errors' = Append(errors, Failure(s, Complaint(s)))
    BY <1>3 DEF PollError, Polling, Joining
  <2>2. NoRepeats(futures') /\ s \in FutureSlots
    BY <1>0, <1>3, FutureDropped DEF Once
  <2>3. s \notin ErrorSlots /\ votes = <<>>
    BY <1>0, <2>1, <2>2 DEF Placement, Tried
  <2>4. ErrorsOnce'
    BY <1>0, <2>1, <2>3, ErrorAdded DEF Once
  <2>5. VoteSlots' = {} /\ NoRepeats(votes')
    BY <2>1, <2>3 DEF VoteSlots, NoRepeats
  <2>6. QED
    BY <2>2, <2>4, <2>5 DEF Once
<1>4. ASSUME NEW s \in Slots, Gather(s) PROVE Once'
  <2>1. s \in Slots \ (ErrorSlots \cup VoteSlots) /\ futures' = futures
    BY <1>4, GatheredOnce DEF Gather
  <2>2. CASE Valid(s)
    <3>1. votes' = Append(votes, s) /\ errors' = errors
      BY <1>4, <2>2 DEF Gather
    <3>2. VoteSlots' = VoteSlots \cup {s} /\ NoRepeats(votes')
      BY <1>0, <2>1, <3>1, VoteAdded DEF Once
    <3>3. ErrorSlots' = ErrorSlots /\ ErrorsOnce'
      BY <1>0, <3>1 DEF ErrorSlots, ErrorsOnce, Once
    <3>4. QED
      BY <1>0, <2>1, <3>2, <3>3 DEF Once
  <2>3. CASE ~Valid(s)
    <3>1. votes' = votes /\ errors' = Append(errors, Failure(s, Complaint(s)))
      BY <1>4, <2>3 DEF Gather
    <3>2. ErrorSlots' = ErrorSlots \cup {s} /\ ErrorsOnce'
      BY <1>0, <2>1, <3>1, ErrorAdded DEF Once
    <3>3. VoteSlots' = VoteSlots
      BY <3>1 DEF VoteSlots
    <3>4. QED
      BY <1>0, <2>1, <3>1, <3>2, <3>3 DEF Once
  <2>4. QED
    BY <2>2, <2>3
<1>5. ASSUME errors' = errors, votes' = votes, futures' = futures PROVE Once'
  BY <1>0, <1>1, <1>5 DEF Once
<1>6. QED
  BY <1>2, <1>3, <1>4, <1>5
     DEF Next, TaskStep, ProviderStep, vars, Resolve, MakePanics, FirstExhausted, Await,
         SkipCompleted, PollPending, PollAnswer, PollJoin, PollPanics, Sleep, Wake, RaceLost,
         Joined, Gathered, CountGroup, Elect, NoQuorum, Reply, Rouse, Tick

LEMMA CountedNext == IInv /\ [Next]_vars => Counted'
<1> SUFFICES ASSUME Counted, [Next]_vars PROVE Counted'
  BY DEF IInv
<1>0. Joining' <=> Joining
  BY ConfigConstant DEF Joining
<1> USE DEF Return, callVars, pollVars, worldVars
<1>1. ASSUME completed' = completed, done' = done PROVE Counted'
  BY <1>0, <1>1 DEF Counted
<1>2. ASSUME NEW s, PollJoin(s) PROVE Counted'
  <2>1. completed' = completed \cup {s} /\ done' = done + 1 /\ s \notin completed
    BY <1>2 DEF PollJoin
  <2>2. QED
    BY <1>0, <2>1, FS_AddElement DEF Counted
<1>3. ASSUME NEW s, PollAnswer(s) \/ PollError(s) PROVE Counted'
  BY <1>0, <1>3 DEF PollAnswer, PollError, Counted, Joining
<1>4. QED
  BY <1>1, <1>2, <1>3
     DEF Next, TaskStep, ProviderStep, vars, Resolve, MakeFuture, MakePanics, FirstExhausted,
         Await, SkipCompleted, PollPending, PollPanics, Sleep, Wake, RaceLost, Joined,
         Gather, Gathered, CountGroup, Elect, NoQuorum, Reply, Rouse, Tick

LEMMA JudgedNext == IInv /\ [Next]_vars => Judged'
<1> SUFFICES ASSUME IInv, [Next]_vars PROVE Judged'
  OBVIOUS
<1>0. TypeOK /\ Once /\ Placement /\ Judged
  BY DEF IInv
<1>k. \A s \in completed : Valid(s)' <=> Valid(s)
  BY <1>0, CompletedKeeps
<1> USE DEF Return, callVars, pollVars, worldVars
<1>1. ASSUME errors' = errors, votes' = votes, completed \subseteq completed' PROVE Judged'
  <2>1. ErrorSlots' = ErrorSlots /\ VoteSlots' = VoteSlots
    BY <1>1 DEF ErrorSlots, VoteSlots
  <2>2. QED
    BY <1>0, <1>k, <1>1, <2>1 DEF Judged
<1>2. ASSUME NEW s \in Slots, PollError(s) PROVE Judged'
  <2>1. /\ pc = "poll" /\ ~Joining /\ votes' = votes /\ ~Valid(s)
        /\ errors' = Append(errors, Failure(s, Complaint(s)))
        /\ completed' = completed \cup {s} /\ reply' = reply /\ config' = config
    BY <1>2 DEF PollError, Polling, Joining
  <2>2. s \in FutureSlots
    BY <1>0, <1>2, FutureDropped DEF Once
  <2>3. s \notin ErrorSlots
    BY <1>0, <2>1, <2>2 DEF Placement, Tried
  <2>4. ErrorSlots' = ErrorSlots \cup {s} /\ VoteSlots' = VoteSlots
    BY <1>0, <2>1, <2>3, ErrorAdded DEF Once, VoteSlots
  <2>5. Valid(s)' <=> Valid(s)
    BY <2>1 DEF Valid
  <2>6. QED
    BY <1>0, <1>k, <2>1, <2>4, <2>5 DEF Judged
<1>3. ASSUME NEW s \in Slots, Gather(s) PROVE Judged'
  <2>1. s \in Slots \ (ErrorSlots \cup VoteSlots) /\ completed' = completed /\ s \in completed
    BY <1>3, GatheredOnce DEF Gather
  <2>2. CASE Valid(s)
    <3>1. votes' = Append(votes, s) /\ errors' = errors
      BY <1>3, <2>2 DEF Gather
    <3>2. VoteSlots' = VoteSlots \cup {s} /\ ErrorSlots' = ErrorSlots
      BY <1>0, <2>1, <3>1, VoteAdded DEF Once, ErrorSlots
    <3>3. QED
      BY <1>0, <1>k, <2>1, <2>2, <3>2 DEF Judged
  <2>3. CASE ~Valid(s)
    <3>1. votes' = votes /\ errors' = Append(errors, Failure(s, Complaint(s)))
      BY <1>3, <2>3 DEF Gather
    <3>2. ErrorSlots' = ErrorSlots \cup {s} /\ VoteSlots' = VoteSlots
      BY <1>0, <2>1, <3>1, ErrorAdded DEF Once, VoteSlots
    <3>3. QED
      BY <1>0, <1>k, <2>1, <2>3, <3>2 DEF Judged
  <2>4. QED
    BY <2>2, <2>3
<1>4. ASSUME NEW s, PollAnswer(s) \/ PollJoin(s) PROVE Judged'
  BY <1>1, <1>4 DEF PollAnswer, PollJoin
<1>5. QED
  BY <1>1, <1>2, <1>3, <1>4
     DEF Next, TaskStep, ProviderStep, vars, Resolve, MakeFuture, MakePanics, FirstExhausted,
         Await, SkipCompleted, PollPending, PollPanics, Sleep, Wake, RaceLost, Joined,
         Gathered, CountGroup, Elect, NoQuorum, Reply, Rouse, Tick

LEMMA PolledNext == IInv /\ [Next]_vars => Polled'
<1> SUFFICES ASSUME IInv, [Next]_vars PROVE Polled'
  OBVIOUS
<1>0. TypeOK /\ Polled /\ Phases
  BY DEF IInv
<1>t. /\ at \in Nat /\ DOMAIN futures \subseteq Nat \ {0}
      /\ \A i \in DOMAIN futures : futures[i] \in Slots
  BY <1>0, LenProperties DEF TypeOK
<1> USE DEF Return, callVars, pollVars, worldVars
<1>1. ASSUME pc' \notin {"poll", "asleep"} \/ at' = 1 PROVE Polled'
  <2>1. \A i \in DOMAIN futures' : i \in Nat \ {0}
    <3>1. futures' \in Seq(Slots')
      BY TypeNext, VotedTyped DEF IInv, TypeOK
    <3>2. QED
      BY <3>1, LenProperties
  <2>2. QED
    BY <1>1, <2>1 DEF Polled
<1>2. ASSUME NEW s \in Slots, SkipCompleted(s) PROVE Polled'
  <2>1. /\ pc = "poll" /\ s = futures[at] /\ s \in completed /\ at' = at + 1
        /\ UNCHANGED <<futures, completed, left>>
    BY <1>2 DEF SkipCompleted, Polling
  <2>2. \A i \in DOMAIN futures : i < at + 1 => i < at \/ i = at
    BY <1>t
  <2>3. QED
    BY <1>0, <2>1, <2>2 DEF Polled
<1>3. ASSUME NEW s \in Slots, PollJoin(s) PROVE Polled'
  <2>1. /\ pc = "poll" /\ s = futures[at] /\ completed' = completed \cup {s} /\ at' = at + 1
        /\ UNCHANGED <<futures, left>>
    BY <1>3 DEF PollJoin, Polling
  <2>2. \A i \in DOMAIN futures : i < at + 1 => i < at \/ i = at
    BY <1>t
  <2>3. QED
    BY <1>0, <2>1, <2>2 DEF Polled
<1>4. ASSUME NEW s \in Slots, PollPending(s) PROVE Polled'
  <2>1. /\ pc = "poll" /\ s = futures[at] /\ at' = at + 1
        /\ left' = IF left[s] = Unpolled THEN [left EXCEPT ![s] = config.timeout] ELSE left
        /\ UNCHANGED <<futures, completed>>
    BY <1>4 DEF PollPending, Polling
  <2>2. \A i \in DOMAIN futures : i < at + 1 => i < at \/ i = at
    BY <1>t
  <2>3. config.timeout # Unpolled
    BY <1>0, ConfigType DEF Unpolled
  <2>4. left'[s] # Unpolled /\ \A t \in Slots : left[t] # Unpolled => left'[t] # Unpolled
    BY <1>0, <2>1, <2>3 DEF TypeOK
  <2>5. QED
    BY <1>0, <1>t, <2>1, <2>2, <2>4 DEF Polled
<1>5. ASSUME Tick PROVE Polled'
  <2>1. \A s \in Slots : left[s] # Unpolled => left'[s] # Unpolled
    <3>1. \A s \in Slots : left[s] \in Nat \cup {-1}
      BY <1>0 DEF TypeOK, Unpolled
    <3>2. \A s \in Slots : left'[s] =
             IF s \in Awaited /\ left[s] > 0 THEN left[s] - 1 ELSE left[s]
      BY <1>5 DEF Tick
    <3>3. QED
      BY <3>1, <3>2 DEF Unpolled
  <2>2. UNCHANGED <<pc, futures, at, completed>>
    BY <1>5 DEF Tick
  <2>3. QED
    BY <1>0, <1>t, <2>1, <2>2 DEF Polled
<1>6. ASSUME pc' \in {"poll", "asleep"} => pc \in {"poll", "asleep"},
             UNCHANGED <<futures, at, completed, left>>
      PROVE  Polled'
  BY <1>0, <1>6 DEF Polled
<1>7. ASSUME NEW s \in Slots, NEW r, Reply(s, r) PROVE Polled'
  BY <1>6, <1>7 DEF Reply
<1>8. ASSUME NEW s \in Slots, Rouse(s) \/ PollError(s) \/ PollAnswer(s) \/ PollPanics(s) \/ Elect(s)
      PROVE  Polled'
  BY <1>1, <1>8 DEF Rouse, PollError, PollAnswer, PollPanics, Elect
<1>9. ASSUME NEW s \in Slots, Gather(s) PROVE Polled'
  BY <1>1, <1>9 DEF Gather
<1>10. ASSUME NEW s \in todo, MakeFuture(s) \/ MakePanics(s) PROVE Polled'
  BY <1>1, <1>10 DEF MakeFuture, MakePanics
<1>11. ASSUME Sleep \/ UNCHANGED vars PROVE Polled'
  BY <1>6, <1>11 DEF Sleep, vars
<1>12. ASSUME \/ Resolve \/ FirstExhausted \/ Await \/ Wake \/ RaceLost \/ Joined \/ Gathered
              \/ NoQuorum
       PROVE  Polled'
  <2>1. pc' \notin {"poll", "asleep"} \/ at' = 1
    BY <1>12 DEF Resolve, FirstExhausted, Await, Wake, RaceLost, Joined, Gathered, NoQuorum
  <2>2. QED
    BY <1>1, <2>1
<1>13. ASSUME NEW ip, CountGroup(ip) PROVE Polled'
  BY <1>1, <1>13 DEF CountGroup
<1>14. QED
  BY <1>2, <1>3, <1>4, <1>5, <1>7, <1>8, <1>9, <1>10, <1>11, <1>12, <1>13
     DEF Next, TaskStep, ProviderStep

LEMMA PlacementNext == IInv /\ [Next]_vars => Placement'
<1> SUFFICES ASSUME IInv, [Next]_vars PROVE Placement'
  OBVIOUS
<1>0. TypeOK /\ Once /\ Phases /\ Placement
  BY DEF IInv
<1>b. Matching' = Matching /\ (Joining' <=> Joining) /\ Matching \subseteq Slots
  BY <1>0, ConfigConstant, ConfigType DEF Joining
<1> USE DEF Return, callVars, pollVars, worldVars
<1>1. ASSUME pc' \in {"start", "done"} PROVE Placement'
  BY <1>1 DEF Placement
<1>2. CASE pc = "done"
  BY <1>1, <1>2, DoneStays DEF vars
<1>3. ASSUME UNCHANGED <<todo, futures, completed, errors, votes>>,
             \/ pc' = pc /\ (pc # "gather" \/ at' = at)
             \/ {pc, pc'} \subseteq {"make", "poll", "asleep"}
      PROVE  Placement'
  <2>1. FutureSlots' = FutureSlots /\ ErrorSlots' = ErrorSlots /\ VoteSlots' = VoteSlots
    BY <1>3 DEF FutureSlots, ErrorSlots, VoteSlots
  <2>2. pc = "gather" /\ at' = at => Seen' = Seen
    BY <1>3 DEF Seen
  <2>3. QED
    BY <1>0, <1>b, <1>3, <2>1, <2>2 DEF Placement, Collected, Tried
<1>4. ASSUME Resolve PROVE Placement'
  <2>1. /\ pc = "start" /\ completed' = {} /\ futures' = <<>> /\ errors' = <<>> /\ votes' = <<>>
        /\ pc' # "done" => pc' = "make" /\ todo' = Matching
    BY <1>0, <1>4 DEF Resolve, Phases
  <2>2. FutureSlots' = {} /\ ErrorSlots' = {}
    BY <2>1 DEF FutureSlots, ValuesOf, ErrorSlots
  <2>3. QED
    BY <1>b, <2>1, <2>2 DEF Placement, Collected, Tried
<1>5. ASSUME NEW s \in todo, MakeFuture(s) PROVE Placement'
  <2>1. /\ pc = "make" /\ pc' \in {"make", "poll"} /\ todo' = todo \ {s}
        /\ UNCHANGED <<completed, errors, votes>>
    BY <1>5 DEF MakeFuture
  <2>2. FutureSlots' = FutureSlots \cup {s} /\ ErrorSlots' = ErrorSlots
    BY <1>0, <1>5, <2>1, FutureMade DEF Once, ErrorSlots
  <2>3. QED
    BY <1>0, <1>b, <2>1, <2>2 DEF Placement, Collected, Tried
<1>6. ASSUME NEW s \in Slots, PollError(s) PROVE Placement'
  <2>1. /\ pc = "poll" /\ ~Joining /\ votes' = votes /\ completed' = completed \cup {s}
        /\ errors' = Append(errors, Failure(s, Complaint(s))) /\ todo' = todo
    BY <1>6 DEF PollError, Polling, Joining
  <2>2. s \in FutureSlots /\ FutureSlots' = FutureSlots \ {s}
    BY <1>0, <1>6, FutureDropped DEF Once
  <2>3. s \notin ErrorSlots /\ Tried /\ todo \cap FutureSlots = {}
    BY <1>0, <2>1, <2>2 DEF Placement, Tried
  <2>4. ErrorSlots' = ErrorSlots \cup {s}
    BY <1>0, <2>1, <2>3, ErrorAdded DEF Once
  <2>5. QED
    BY <1>b, <2>1, <2>2, <2>3, <2>4 DEF Placement, Tried
<1>7. ASSUME NEW s \in Slots, PollJoin(s) PROVE Placement'
  <2>1. /\ pc = "poll" /\ pc' = pc /\ Joining /\ completed' = completed \cup {s}
        /\ UNCHANGED <<todo, futures, errors, votes>>
    BY <1>7 DEF PollJoin, Polling, Joining
  <2>2. s \in FutureSlots /\ FutureSlots' = FutureSlots
    BY <1>7, <2>1 DEF PollJoin, Polling, FutureSlots, ValuesOf
  <2>3. QED
    BY <1>0, <1>b, <2>1, <2>2 DEF Placement, Collected
<1>8. ASSUME Joined PROVE Placement'
  <2>1. /\ pc = "poll" /\ pc' = "gather" /\ at' = 1 /\ Joining /\ done = Len(futures)
        /\ UNCHANGED <<todo, futures, completed, errors, votes>>
    BY <1>8 DEF Joined, Joining
  <2>2. Collected /\ todo \cap FutureSlots = {}
    BY <1>0, <2>1 DEF Placement
  <2>3. completed = FutureSlots
    <3>1. completed \in SUBSET FutureSlots
      BY <2>2 DEF Collected
    <3>2. Cardinality(completed) = Cardinality(FutureSlots)
      BY <1>0, <2>1, FuturesCounted DEF IInv, Counted, Once
    <3>3. IsFiniteSet(FutureSlots)
      BY <1>0, FuturesCounted DEF Once
    <3>4. QED
      BY <3>1, <3>2, <3>3, FS_Subset
  <2>4. Seen' = {}
    <3>1. DOMAIN futures \subseteq Nat \ {0}
      BY <1>0, LenProperties DEF TypeOK
    <3>2. QED
      BY <2>1, <3>1 DEF Seen
  <2>5. ErrorSlots' = {} /\ VoteSlots' = {} /\ FutureSlots' = FutureSlots
    BY <2>1, <2>2 DEF Collected, ErrorSlots, VoteSlots, FutureSlots
  <2>6. QED
    BY <1>b, <2>1, <2>2, <2>3, <2>4, <2>5 DEF Placement, Collected
<1>9. ASSUME NEW s \in Slots, Gather(s) PROVE Placement'
  <2>1. /\ pc = "gather" /\ pc' = pc /\ at' = at + 1 /\ at \in DOMAIN futures /\ s = futures[at]
        /\ UNCHANGED <<todo, futures, completed>>
    BY <1>9 DEF Gather
  <2>2. /\ Joining /\ Collected /\ todo \cap FutureSlots = {}
        /\ s \in Slots \ (ErrorSlots \cup VoteSlots)
    BY <1>0, <1>9, <2>1, GatheredOnce DEF Placement
  <2>3. Seen' = Seen \cup {s}
    <3>1. DOMAIN futures \subseteq Nat /\ at \in Nat
      BY <1>0, LenProperties DEF TypeOK
    <3>2. {j \in DOMAIN futures : j < at + 1} = {j \in DOMAIN futures : j < at} \cup {at}
      BY <2>1, <3>1
    <3>3. QED
      BY <2>1, <3>2 DEF Seen
  <2>4. (ErrorSlots \cup VoteSlots)' = ErrorSlots \cup VoteSlots \cup {s}
    <3>1. CASE Valid(s)
      <4>1. votes' = Append(votes, s) /\ errors' = errors
        BY <1>9, <3>1 DEF Gather
      <4>2. QED
        BY <1>0, <2>2, <4>1, VoteAdded DEF Once, ErrorSlots
    <3>2. CASE ~Valid(s)
      <4>1. votes' = votes /\ errors' = Append(errors, Failure(s, Complaint(s)))
        BY <1>9, <3>2 DEF Gather
      <4>2. QED
        BY <1>0, <2>2, <4>1, ErrorAdded DEF Once, VoteSlots
    <3>3. QED
      BY <3>1, <3>2
  <2>5. FutureSlots' = FutureSlots
    BY <2>1 DEF FutureSlots
  <2>6. QED
    BY <1>b, <2>1, <2>2, <2>3, <2>4, <2>5 DEF Placement, Collected
<1>10. ASSUME Gathered PROVE Placement'
  <2>1. /\ pc = "gather" /\ pc' = "tally" /\ at > Len(futures)
        /\ UNCHANGED <<todo, futures, completed, errors, votes>>
    BY <1>10 DEF Gathered
  <2>2. Joining /\ Collected /\ todo = {}
    BY <1>0, <2>1 DEF Placement, Phases
  <2>3. Seen = FutureSlots
    <3>1. \A j \in DOMAIN futures : j < at
      BY <1>0, <2>1, LenProperties DEF TypeOK
    <3>2. QED
      BY <3>1 DEF Seen, FutureSlots, ValuesOf
  <2>4. FutureSlots' = FutureSlots /\ ErrorSlots' = ErrorSlots /\ VoteSlots' = VoteSlots
    BY <2>1 DEF FutureSlots, ErrorSlots, VoteSlots
  <2>5. QED
    BY <1>b, <2>1, <2>2, <2>3, <2>4 DEF Placement, Collected
<1>11. ASSUME Await \/ Sleep \/ Wake \/ Tick \/ UNCHANGED vars PROVE Placement'
  BY <1>3, <1>11 DEF Await, Sleep, Wake, Tick, vars
<1>12. ASSUME NEW s \in Slots,
              SkipCompleted(s) \/ PollPending(s) \/ Rouse(s)
                \/ \E r \in Addresses \cup Failures : Reply(s, r)
       PROVE  Placement'
  BY <1>3, <1>12 DEF SkipCompleted, PollPending, Polling, Rouse, Reply
<1>13. ASSUME NEW s, MakePanics(s) \/ PollAnswer(s) \/ PollPanics(s) \/ Elect(s)
       PROVE  Placement'
  BY <1>1, <1>13 DEF MakePanics, PollAnswer, PollPanics, Elect
<1>14. ASSUME FirstExhausted \/ RaceLost \/ NoQuorum PROVE Placement'
  BY <1>1, <1>14 DEF FirstExhausted, RaceLost, NoQuorum
<1>15. ASSUME NEW ip, CountGroup(ip) PROVE Placement'
  BY <1>3, <1>15 DEF CountGroup
<1>16. QED
  BY <1>4, <1>5, <1>6, <1>7, <1>8, <1>9, <1>10, <1>11, <1>12, <1>13, <1>14, <1>15
     DEF Next, TaskStep, ProviderStep

LEMMA TallyNext == IInv /\ [Next]_vars => Tally'
<1> SUFFICES ASSUME IInv, [Next]_vars PROVE Tally'
  OBVIOUS
<1>0. /\ Tally /\ config' = config /\ config.min_agree \in Nat
      /\ \A ip : Size(ip) \in Nat
  BY ConfigConstant, ConfigType, GroupSize DEF IInv
<1> USE DEF Return, callVars, tallyVars
<1>1. ASSUME Gathered PROVE Tally'
  <2>1. pc = "gather" /\ pc' = "tally" /\ unseen' = Voted /\ best' = best /\ votes' = votes
    BY <1>1 DEF Gathered
  <2>2. Voted' = Voted
    BY <2>1, GroupsKeep
  <2>3. QED
    BY <1>0, <2>1, <2>2 DEF Tally
<1>2. ASSUME NEW ip \in unseen, CountGroup(ip) PROVE Tally'
  <2>1. /\ pc = "tally" /\ pc' = "tally" /\ unseen' = unseen \ {ip} /\ votes' = votes
        /\ best' = IF Enough(ip) /\ (best = NoAnswer \/ Size(ip) > Size(best)) THEN ip ELSE best
    BY <1>2 DEF CountGroup, Enough
  <2>2. Voted' = Voted /\ \A x : Size(x)' = Size(x) /\ (Enough(x)' <=> Enough(x))
    BY <2>1, GroupsKeep
  <2>3. ip \in Voted /\ ip # NoAnswer
    BY <1>0, <2>1, VotedTyped DEF Tally
  <2>4. best' # NoAnswer => best' \in Voted /\ Enough(best')
    BY <1>0, <2>1, <2>3 DEF Tally
  <2>5. ASSUME NEW x \in Voted \ unseen', Enough(x)
        PROVE  best' # NoAnswer /\ Size(x) <= Size(best')
    <3>1. CASE x = ip
      BY <1>0, <2>1, <2>3, <2>5, <3>1
    <3>2. CASE x # ip
      <4>1. best # NoAnswer /\ Size(x) <= Size(best)
        BY <1>0, <2>1, <2>5, <3>2 DEF Tally
      <4>2. CASE best' = best
        BY <4>1, <4>2
      <4>3. CASE best' = ip /\ Size(ip) > Size(best)
        BY <1>0, <2>3, <4>1, <4>3
      <4>4. QED
        BY <2>1, <4>1, <4>2, <4>3
    <3>3. QED
      BY <3>1, <3>2
  <2>6. best' # NoAnswer => best' \in Voted' /\ Enough(best)'
    BY <2>2, <2>4
  <2>7. \A x \in Voted' \ unseen' : Enough(x)' => best' # NoAnswer /\ Size(x)' <= Size(best)'
    BY <2>2, <2>5
  <2>8. unseen' \subseteq Voted'
    BY <1>0, <2>1, <2>2 DEF Tally
  <2>9. QED
    BY <2>1, <2>6, <2>7, <2>8 DEF Tally
<1>3. ASSUME pc' = "tally" => pc = "tally" /\ UNCHANGED <<votes, unseen>>,
             pc' \notin {"tally", "done"} => pc \notin {"tally", "done"},
             best' = best
      PROVE  Tally'
  <2>1. pc' = "tally" =>
           Voted' = Voted /\ \A x : Size(x)' = Size(x) /\ (Enough(x)' <=> Enough(x))
    BY <1>3, GroupsKeep
  <2>2. QED
    BY <1>0, <1>3, <2>1 DEF Tally
<1>4. ASSUME Resolve \/ FirstExhausted \/ Await \/ Sleep \/ Wake \/ RaceLost \/ Joined \/ NoQuorum
      PROVE  Tally'
  BY <1>3, <1>4 DEF Resolve, FirstExhausted, Await, Sleep, Wake, RaceLost, Joined, NoQuorum
<1>5. ASSUME NEW s, \/ SkipCompleted(s) \/ PollPending(s) \/ PollAnswer(s) \/ PollError(s)
                    \/ PollJoin(s) \/ PollPanics(s)
      PROVE  Tally'
  BY <1>3, <1>5 DEF SkipCompleted, PollPending, PollAnswer, PollError, PollJoin, PollPanics, Polling
<1>6. ASSUME NEW s, MakeFuture(s) \/ MakePanics(s) \/ Gather(s) \/ Elect(s) \/ Rouse(s)
      PROVE  Tally'
  BY <1>3, <1>6 DEF MakeFuture, MakePanics, Gather, Elect, Rouse
<1>7. ASSUME Tick \/ UNCHANGED vars \/ \E s \in Slots, r \in Addresses \cup Failures : Reply(s, r)
      PROVE  Tally'
  BY <1>3, <1>7 DEF Tick, vars, Reply
<1>8. QED
  BY <1>1, <1>2, <1>4, <1>5, <1>6, <1>7 DEF Next, TaskStep, ProviderStep

LEMMA IInvNext == IInv /\ [Next]_vars => IInv'
BY VotedTyped, TypeNext, OnceNext, PhasesNext, PlacementNext, CountedNext, JudgedNext, PolledNext,
   TallyNext
   DEF IInv

LEMMA Invariant == Spec => []IInv
BY IInvInit, IInvNext, PTL DEF Spec

(* Every variable keeps its type, whatever the providers and the clock do. *)
THEOREM AsyncTypes == Spec => []TypeOK
<1>1. IInv => TypeOK
  BY DEF IInv
<1>2. QED
  BY <1>1, Invariant, PTL
-----------------------------------------------------------------------------
(* Where a call that ends with an error stands when it does: every provider is
   in one of the two lists.                                                  *)
LEMMA FailedStep ==
    ASSUME IInv, [Next]_vars, pc # "done", Failed'
    PROVE  /\ ErrorSlots \cup VoteSlots = Matching
           /\ UNCHANGED <<config, errors, votes, reply>>
<1>1. outcome.kind = "none"
  BY DEF IInv, Phases, NotReturned
<1>2. FirstExhausted \/ RaceLost \/ NoQuorum
  <2>1. outcome'.kind \in {"AllProvidersFailed", "ConsensusNotReached"}
    BY DEF Failed
  <2>2. outcome' # outcome
    BY <1>1, <2>1
  <2>3. \A s : outcome' # Success(s) /\ outcome' # Panicked(s) /\ outcome' # NoProvidersForVersion
    BY <2>1 DEF Success, Panicked, NoProvidersForVersion
  <2>4. ~ \E s \in Slots : PollAnswer(s) \/ PollPanics(s) \/ Elect(s)
    BY <2>3 DEF PollAnswer, PollPanics, Elect, Return
  <2>5. ~ (Resolve \/ \E s \in todo : MakePanics(s))
    BY <2>2, <2>3 DEF Resolve, MakePanics, Return
  <2>6. QED
    BY <2>2, <2>4, <2>5
       DEF Next, TaskStep, ProviderStep, vars, callVars, MakeFuture, Await, SkipCompleted,
           PollPending, PollError, PollJoin, Sleep, Wake, Joined, Gather, Gathered, CountGroup,
           Reply, Rouse, Tick
<1>3. CASE FirstExhausted \/ RaceLost
  <2>1. /\ pc \in {"make", "poll"} /\ ~Joining /\ futures = <<>> /\ todo = {}
        /\ UNCHANGED <<config, errors, votes, reply>>
    BY <1>3 DEF FirstExhausted, RaceLost, IInv, Phases, Joining, worldVars
  <2>2. FutureSlots = {} /\ Tried
    BY <2>1 DEF IInv, Placement, FutureSlots, ValuesOf
  <2>3. QED
    BY <2>1, <2>2 DEF Tried, VoteSlots
<1>4. CASE NoQuorum
  <2>1. pc = "tally" /\ UNCHANGED <<config, errors, votes, reply>>
    BY <1>4 DEF NoQuorum, worldVars
  <2>2. QED
    BY <2>1 DEF IInv, Placement, Phases, Collected
<1>5. QED
  BY <1>2, <1>3, <1>4

(* Errors and votes never hold more than one entry of a provider, so their
   lengths count the providers.                                              *)
LEMMA EntriesCounted ==
    ASSUME TypeOK, Once
    PROVE  Len(errors) + Len(votes) = Cardinality(ErrorSlots \cup VoteSlots)
<1>1. /\ Len(errors) \in Nat /\ DOMAIN errors = 1..Len(errors)
      /\ Len(votes) \in Nat /\ DOMAIN votes = 1..Len(votes)
  BY LenProperties DEF TypeOK
<1>2. IsFiniteSet(ErrorSlots) /\ Cardinality(ErrorSlots) = Len(errors)
  <2>1. PICK slot : slot = [i \in 1..Len(errors) |-> errors[i].slot]
    OBVIOUS
  <2>2. ErrorSlots = {slot[i] : i \in 1..Len(errors)}
    BY <1>1, <2>1 DEF ErrorSlots
  <2>3. \A i, j \in 1..Len(errors) : slot[i] = slot[j] => i = j
    BY <1>1, <2>1 DEF Once, ErrorsOnce
  <2>4. QED
    BY <1>1, <2>2, <2>3, OnceCounted
<1>3. IsFiniteSet(VoteSlots) /\ Cardinality(VoteSlots) = Len(votes)
  <2>1. VoteSlots = {votes[i] : i \in 1..Len(votes)}
    BY <1>1 DEF VoteSlots
  <2>2. \A i, j \in 1..Len(votes) : votes[i] = votes[j] => i = j
    BY <1>1 DEF Once, NoRepeats
  <2>3. QED
    BY <1>1, <2>1, <2>2, OnceCounted
<1>4. Cardinality(ErrorSlots \cup VoteSlots)
        = Cardinality(ErrorSlots) + Cardinality(VoteSlots) - Cardinality({})
  BY <1>2, <1>3, FS_Union DEF Once
<1>5. QED
  BY <1>1, <1>2, <1>3, <1>4, FS_EmptySet

(* A call that fails accounts for each matching provider exactly once, with
   any number of providers and however often swap_remove moves a future.     *)
THEOREM EveryOneAccounted == Spec => []EveryProviderAccounted
<1> DEFINE Settling == Failed => ErrorSlots \cup VoteSlots = Matching
<1>1. Init => Settling
  BY DEF Init, Failed, NotReturned
<1>2. IInv /\ Settling /\ [Next]_vars => Settling'
  <2> SUFFICES ASSUME IInv, Settling, [Next]_vars, Failed'
               PROVE  (ErrorSlots \cup VoteSlots)' = Matching'
    OBVIOUS
  <2>1. Matching' = Matching
    BY ConfigConstant
  <2>2. CASE pc = "done"
    BY <2>1, <2>2, DoneStays DEF vars, callVars, Failed, ErrorSlots, VoteSlots
  <2>3. CASE pc # "done"
    BY <2>1, <2>3, FailedStep DEF ErrorSlots, VoteSlots
  <2>4. QED
    BY <2>2, <2>3
<1>3. IInv /\ Settling => EveryProviderAccounted
  BY EntriesCounted DEF IInv, EveryProviderAccounted
<1> HIDE DEF Settling
<1>4. QED
  BY <1>1, <1>2, <1>3, Invariant, PTL DEF Spec

(* A call that fails has not thrown a valid answer away. *)
THEOREM NoAnswerIsDropped == Spec => []NoAnswerDropped
<1>1. Init => NoAnswerDropped
  BY DEF Init, NoAnswerDropped, Failed, NotReturned
<1>2. IInv /\ NoAnswerDropped /\ [Next]_vars => NoAnswerDropped'
  <2> SUFFICES ASSUME IInv, NoAnswerDropped, [Next]_vars, Failed'
               PROVE  {s \in Matching' : Valid(s)'} = VoteSlots'
    BY DEF NoAnswerDropped
  <2>1. Matching' = Matching
    BY ConfigConstant
  <2>2. CASE pc = "done"
    BY <2>1, <2>2, DoneStays
       DEF vars, callVars, worldVars, NoAnswerDropped, Failed, VoteSlots, Valid
  <2>3. CASE pc # "done"
    <3>1. /\ ErrorSlots \cup VoteSlots = Matching
          /\ UNCHANGED <<config, errors, votes, reply>>
      BY <2>3, FailedStep
    <3>2. {s \in Matching : Valid(s)} = VoteSlots
      BY <3>1 DEF IInv, Judged
    <3>3. QED
      BY <2>1, <3>1, <3>2 DEF VoteSlots, Valid
  <2>4. QED
    BY <2>2, <2>3
<1>3. QED
  BY <1>1, <1>2, Invariant, PTL DEF Spec

(* join_all_vec holds one result for each future when it returns them. *)
THEOREM JoinCompletes == Spec => []JoinIsComplete
<1>1. IInv => JoinIsComplete
  BY DEF IInv, Counted, Joining, JoinIsComplete, Placement, Phases, Collected
<1>2. QED
  BY <1>1, Invariant, PTL

(* A sleeping task has something to wake it for whatever it still awaits. *)
THEOREM SleepersCanWake == Spec => []SleepersAreArmed
<1>1. IInv => SleepersAreArmed
  <2> SUFFICES ASSUME IInv, pc = "asleep"
               PROVE  /\ Awaited # {}
                      /\ \A s \in Awaited : left[s] # Unpolled
                      /\ config.strategy # "First" => Awaited = Matching \ completed
    BY DEF SleepersAreArmed
  <2>0. Awaited = FutureSlots \ completed
    BY DEF Awaited, FutureSlots, ValuesOf
  <2>1. at > Len(futures) /\ futures # <<>> /\ (Joining => done # Len(futures))
    BY DEF IInv, Phases
  <2>2. /\ DOMAIN futures = 1..Len(futures) /\ Len(futures) \in Nat \ {0} /\ at \in Nat
    BY <2>1, LenProperties, EmptySeq DEF IInv, TypeOK
  <2>3. CASE Joining
    <3>1. completed \subseteq FutureSlots /\ Matching = todo \cup FutureSlots /\ todo = {}
      BY <2>3 DEF IInv, Placement, Collected, Phases, Joining
    <3>2. Cardinality(completed) # Cardinality(FutureSlots)
      BY <2>1, <2>3, FuturesCounted DEF IInv, Counted, Once
    <3>3. FutureSlots \ completed # {}
      BY <3>1, <3>2
    <3>4. \A s \in Awaited : left[s] # Unpolled
      BY <2>0, <2>1, <2>2 DEF IInv, Polled, FutureSlots, ValuesOf
    <3>5. QED
      BY <2>0, <3>1, <3>3, <3>4
  <2>4. CASE ~Joining
    <3>1. /\ Matching = todo \cup FutureSlots \cup ErrorSlots /\ completed = ErrorSlots
          /\ ErrorSlots \cap FutureSlots = {}
          /\ config.strategy # "First" => todo = {}
      BY <2>4 DEF IInv, Placement, Tried, Phases
    <3>2. FutureSlots # {}
      <4>1. 1 \in DOMAIN futures
        BY <2>2
      <4>2. QED
        BY <4>1 DEF FutureSlots, ValuesOf
    <3>3. Awaited = FutureSlots
      BY <2>0, <3>1
    <3>4. \A s \in Awaited : left[s] # Unpolled
      BY <2>0, <2>1, <2>2 DEF IInv, Polled, FutureSlots, ValuesOf
    <3>5. QED
      BY <3>1, <3>2, <3>3, <3>4
  <2>5. QED
    BY <2>3, <2>4
<1>2. QED
  BY <1>1, Invariant, PTL

-----------------------------------------------------------------------------
(* What a call returns: that a consensus is sound, and that the call keeps the
   contract of Resolution.                                                   *)
(* The providers that gave a valid answer with this address. *)
Voters(ip) == {s \in VoteSlots : reply[s] = ip}

LEMMA VotersCounted ==
    ASSUME TypeOK, Once, NEW ip
    PROVE  /\ Cardinality(Voters(ip)) = Size(ip)
           /\ Size(ip) \in Nat
           /\ ip \notin Voted => Size(ip) = 0
<1>1. Voters(ip) = {votes[i] : i \in Group(ip)}
  BY DEF Voters, VoteSlots, Group
<1>2. \A i, j \in Group(ip) : votes[i] = votes[j] => i = j
  BY DEF Once, NoRepeats, Group
<1>3. IsFiniteSet(Group(ip)) /\ Size(ip) \in Nat
  BY GroupSize
<1>4. Cardinality(Voters(ip)) = Size(ip)
  BY <1>1, <1>2, <1>3, ImageCounted DEF Size
<1>5. ip \notin Voted => Group(ip) = {}
  BY DEF Voted, Group
<1>6. QED
  BY <1>3, <1>4, <1>5, FS_EmptySet DEF Size

(* When the votes are counted they are all the valid answers there are. *)
LEMMA TallyComplete ==
    ASSUME IInv, pc = "tally"
    PROVE  /\ Joining /\ outcome = NotReturned /\ Matching # {}
           /\ ErrorSlots \cup VoteSlots = Matching
           /\ \A ip : {s \in Matching : Valid(s) /\ reply[s] = ip} = Voters(ip)
           /\ Voted \subseteq Addresses
<1>1. /\ Joining /\ outcome = NotReturned /\ Matching # {}
      /\ ErrorSlots \cup VoteSlots = Matching
  BY DEF IInv, Phases, Placement, Collected
<1>2. \A ip : {s \in Matching : Valid(s) /\ reply[s] = ip} = Voters(ip)
  BY <1>1 DEF IInv, Judged, Voters
<1>3. Voted \subseteq Addresses
  BY DEF IInv, Judged, VoteSlots, Voted, Valid
<1>4. QED
  BY <1>1, <1>2, <1>3

(* With every group gone through, the one the loop kept is a largest of them,
   and if it kept none then no group is large enough.                        *)
Leading(ip) == Enough(ip) /\ \A x \in Voted : Size(x) <= Size(ip)

LEMMA TallyDone ==
    ASSUME IInv, pc = "tally", unseen = {}
    PROVE  /\ best # NoAnswer => best \in Voted /\ Leading(best)
           /\ best = NoAnswer => \A ip \in Voted : Size(ip) < config.min_agree
<1>1. /\ best # NoAnswer => best \in Voted /\ Enough(best)
      /\ \A ip \in Voted : Enough(ip) => best # NoAnswer /\ Size(ip) <= Size(best)
  BY DEF IInv, Tally
<1>2. config.min_agree \in Nat /\ \A ip : Size(ip) \in Nat
  BY ConfigType, GroupSize DEF IInv
<1>3. \A ip \in Voted : ~Enough(ip) => Size(ip) < config.min_agree
  BY <1>2 DEF Enough
<1>4. ASSUME best # NoAnswer, NEW x \in Voted PROVE Size(x) <= Size(best)
  <2>1. CASE Enough(x)
    BY <1>1, <2>1
  <2>2. CASE ~Enough(x)
    BY <1>1, <1>2, <1>4, <2>2 DEF Enough
  <2>3. QED
    BY <2>1, <2>2
<1>5. QED
  BY <1>1, <1>3, <1>4 DEF Leading

(* The answer elected is a fastest of those that gave the leading address. *)
LEMMA ElectedLeads ==
    ASSUME IInv, NEW s, Elect(s), NEW ip, ip = reply[s]
    PROVE  /\ pc = "tally" /\ outcome' = Success(s)
           /\ UNCHANGED <<config, errors, votes, reply, age>>
           /\ s \in Voters(ip) /\ ip \in Voted /\ Leading(ip)
           /\ \A t \in Voters(ip) : age[s] <= age[t]
<1>1. /\ pc = "tally" /\ outcome' = Success(s)
      /\ UNCHANGED <<config, errors, votes, reply, age>>
  BY DEF Elect, Return, worldVars
<1>2. best \in Voted /\ Leading(best)
  BY TallyDone DEF Elect
<1>3. PICK i \in Group(best) : Fastest(i, Group(best)) /\ s = votes[i]
  BY DEF Elect
<1>4. best = ip /\ s \in Voters(ip)
  BY <1>3 DEF Group, Voters, VoteSlots
<1>5. ASSUME NEW t \in Voters(ip) PROVE age[s] <= age[t]
  <2>1. PICK j \in Group(ip) : t = votes[j]
    BY DEF Voters, VoteSlots, Group
  <2>2. age[s] < age[t] \/ age[s] = age[t]
    BY <1>3, <1>4, <2>1 DEF Fastest
  <2>3. s \in Slots /\ t \in Slots
    BY <1>4, JudgedTyped DEF Voters, IInv
  <2>4. age[s] \in 0..MaxAge /\ age[t] \in 0..MaxAge
    BY <2>3 DEF IInv, TypeOK
  <2>5. QED
    BY <2>2, <2>4, MaxAgeAssumption
<1>6. QED
  BY <1>1, <1>2, <1>4, <1>5

(* A consensus answer comes from a fastest member of a largest group of at
   least min_agree valid answers, with every provider settled: for any number
   of providers, and in whatever order the hash map yields the groups.       *)
THEOREM AsyncConsensusHolds == Spec => []ConsensusIsSound
<1>1. Init => ConsensusIsSound
  BY DEF Init, ConsensusIsSound, NotReturned
<1>2. IInv /\ ConsensusIsSound /\ [Next]_vars => ConsensusIsSound'
  <2> SUFFICES ASSUME IInv, ConsensusIsSound, [Next]_vars PROVE ConsensusIsSound'
    OBVIOUS
  <2>0. config' = config /\ Matching' = Matching
    BY ConfigConstant
  <2>1. CASE pc = "done"
    <3>1. UNCHANGED <<outcome, reply, age>>
      BY <2>1, DoneStays DEF vars, callVars, worldVars
    <3>2. \A s : Valid(s)' <=> Valid(s)
      BY <2>0, <3>1 DEF Valid
    <3>3. \A ip : {s \in Matching : Valid(s) /\ reply[s] = ip}'
                    = {s \in Matching : Valid(s) /\ reply[s] = ip}
      BY <2>0, <3>1, <3>2
    <3>4. QED
      BY <2>0, <3>1, <3>3 DEF ConsensusIsSound
  <2>2. ASSUME NEW s, Elect(s) PROVE ConsensusIsSound'
    <3>1. PICK ip : ip = reply[s]
      OBVIOUS
    <3>2. /\ pc = "tally" /\ outcome' = Success(s)
          /\ UNCHANGED <<config, errors, votes, reply, age>>
          /\ s \in Voters(ip) /\ ip \in Voted /\ Leading(ip)
          /\ \A t \in Voters(ip) : age[s] <= age[t]
      BY <2>2, <3>1, ElectedLeads
    <3>3. \A x : {t \in Matching : Valid(t) /\ reply[t] = x}' = Voters(x)
      <4>1. \A t : Valid(t)' <=> Valid(t)
        BY <3>2 DEF Valid
      <4>2. \A x : {t \in Matching : Valid(t) /\ reply[t] = x}' =
                   {t \in Matching : Valid(t) /\ reply[t] = x}
        BY <2>0, <3>2, <4>1
      <4>3. QED
        BY <3>2, <4>2, TallyComplete
    <3>4. /\ Cardinality(Voters(ip)) >= config.min_agree
          /\ \A x \in Addresses : Cardinality(Voters(x)) <= Cardinality(Voters(ip))
      <4>1. \A x : /\ Cardinality(Voters(x)) = Size(x) /\ Size(x) \in Nat
                   /\ x \notin Voted => Size(x) = 0
        BY VotersCounted DEF IInv
      <4>2. Size(ip) >= config.min_agree /\ \A x \in Voted : Size(x) <= Size(ip)
        BY <3>2 DEF Leading, Enough
      <4>3. QED
        BY <4>1, <4>2
    <3>5. outcome'.slot = s /\ reply'[outcome'.slot] = ip /\ age' = age
      BY <3>1, <3>2 DEF Success
    <3>6. QED
      BY <2>0, <3>2, <3>3, <3>4, <3>5 DEF ConsensusIsSound
  <2>3. ASSUME pc # "done", outcome' = outcome \/ outcome'.kind # "ok" PROVE ConsensusIsSound'
    <3>1. outcome'.kind # "ok"
      BY <2>3 DEF IInv, Phases, NotReturned
    <3>2. QED
      BY <3>1 DEF ConsensusIsSound
  <2>4. ASSUME NEW s, PollAnswer(s) PROVE ConsensusIsSound'
    BY <2>0, <2>4 DEF PollAnswer, ConsensusIsSound
  <2>5. ASSUME pc # "done", \/ Resolve \/ FirstExhausted \/ RaceLost \/ NoQuorum
                            \/ \E s \in todo : MakePanics(s)
                            \/ \E s \in Slots : PollPanics(s)
        PROVE  ConsensusIsSound'
    <3>1. outcome' = outcome \/ outcome'.kind # "ok"
      BY <2>5 DEF Resolve, FirstExhausted, RaceLost, NoQuorum, MakePanics, PollPanics, Return,
         NoProvidersForVersion, AllProvidersFailed, ConsensusNotReached, Panicked
    <3>2. QED
      BY <2>3, <2>5, <3>1
  <2>6. ASSUME pc # "done", outcome' = outcome PROVE ConsensusIsSound'
    BY <2>3, <2>6
  <2>7. QED
    BY <2>1, <2>2, <2>4, <2>5, <2>6
       DEF Next, TaskStep, ProviderStep, vars, callVars, pollVars, worldVars, MakeFuture, Await,
           SkipCompleted, PollPending, PollError, PollJoin, Sleep, Wake, Joined, Gather,
           Gathered, CountGroup, Reply, Rouse, Tick
<1>3. QED
  BY <1>1, <1>2, Invariant, PTL DEF Spec
-----------------------------------------------------------------------------
(* What the contract's terms are under the mapping. *)
Open == Matching \ (ErrorSlots \cup Settled)

LEMMA ContractTerms ==
    /\ Contract!Answered = Settled
    /\ Contract!Open = Open
    /\ Contract!MatchingSlots(config) = Matching
    /\ \A ip \in Addresses : Contract!Votes(ip) = {s \in Settled : reply[s] = ip}
<1>1. Contract!Answered = Settled
  BY DEF Contract!Answered
<1>2. Contract!MatchingSlots(config) = Matching
  BY DEF Contract!MatchingSlots, Matching, MatchingSlots, Contract!SupportsVersion,
         SupportsVersion
<1>3. Contract!Open = Open
  BY <1>1, <1>2 DEF Contract!Open, Open
<1>4. \A ip \in Addresses : Contract!Votes(ip) = {s \in Settled : reply[s] = ip}
  BY <1>1 DEF Contract!Votes
<1>5. QED
  BY <1>1, <1>2, <1>3, <1>4

LEMMA ContractInit == Init => Contract!Init
<1> SUFFICES ASSUME Init PROVE Contract!Init
  OBVIOUS
<1>1. ErrorSlots = {} /\ Settled = {}
  BY DEF Init, ErrorSlots, Settled, VoteSlots, NotReturned
<1>2. [s \in Settled |-> reply[s]] = <<>>
  BY <1>1
<1>3. QED
  BY <1>1, <1>2 DEF Init, Contract!Init, NotReturned, Contract!NotReturned

(* Before the call returns, what is settled are the errors and the votes. *)
LEMMA OpenSlots ==
    ASSUME IInv, pc # "done"
    PROVE  /\ outcome = NotReturned /\ outcome.kind = "none" /\ Settled = VoteSlots
           /\ Open = Matching \ (ErrorSlots \cup VoteSlots)
           /\ pc \in {"make", "poll", "asleep"} => Open = todo \cup FutureSlots
           /\ pc = "tally" => Open = {}
<1>1. outcome = NotReturned /\ outcome.kind = "none"
  BY DEF IInv, Phases, NotReturned
<1>2. Settled = VoteSlots
  BY <1>1 DEF Settled
<1>3. pc \in {"make", "poll", "asleep"} => Open = todo \cup FutureSlots
  <2> SUFFICES ASSUME pc \in {"make", "poll", "asleep"} PROVE Open = todo \cup FutureSlots
    OBVIOUS
  <2>1. CASE Joining
    <3>1. Matching = todo \cup FutureSlots /\ errors = <<>> /\ votes = <<>>
      BY <2>1 DEF IInv, Placement, Collected
    <3>2. QED
      BY <1>2, <3>1 DEF Open, ErrorSlots, VoteSlots
  <2>2. CASE ~Joining
    <3>1. /\ Matching = todo \cup FutureSlots \cup ErrorSlots /\ votes = <<>>
          /\ ErrorSlots \cap (todo \cup FutureSlots) = {}
      BY <2>2 DEF IInv, Placement, Tried
    <3>2. QED
      BY <1>2, <3>1 DEF Open, VoteSlots
  <2>3. QED
    BY <2>1, <2>2
<1>4. pc = "tally" => Open = {}
  BY <1>2, TallyComplete DEF Open
<1>5. QED
  BY <1>1, <1>2, <1>3, <1>4 DEF Open

(* The answers counted so far never change. *)
LEMMA SettledKeeps ==
    ASSUME IInv, [Next]_vars
    PROVE  \A s \in Settled : reply'[s] = reply[s]
<1>1. CASE pc = "done"
  BY <1>1, DoneStays DEF vars, worldVars
<1>2. CASE pc # "done"
  BY <1>2, OpenSlots, CompletedKeeps DEF IInv, Judged
<1>3. QED
  BY <1>1, <1>2

(* A step that adds no error and no vote does not show, when the call goes on
   or unwinds.                                                               *)
LEMMA StutterStep ==
    ASSUME IInv, [Next]_vars, errors' = errors, votes' = votes,
           \/ outcome' = outcome
           \/ pc # "done" /\ outcome'.kind = "panicked"
    PROVE  UNCHANGED Contract!vars
<1>1. ErrorSlots' = ErrorSlots /\ VoteSlots' = VoteSlots /\ config' = config
  BY ConfigConstant DEF ErrorSlots, VoteSlots
<1>2. Settled' = Settled
  <2>1. CASE outcome' = outcome
    BY <1>1, <2>1 DEF Settled
  <2>2. CASE pc # "done" /\ outcome'.kind = "panicked"
    BY <1>1, <2>2, OpenSlots DEF Settled
  <2>3. QED
    BY <2>1, <2>2
<1>3. [s \in Settled |-> reply[s]]' = [s \in Settled |-> reply[s]]
  BY <1>2, SettledKeeps
<1>4. (IF outcome.kind = "panicked" THEN NotReturned ELSE outcome)'
        = IF outcome.kind = "panicked" THEN NotReturned ELSE outcome
  BY OpenSlots
<1>5. QED
  BY <1>1, <1>3, <1>4 DEF Contract!vars

(* An error of a provider whose turn it is. *)
LEMMA FailStep ==
    ASSUME IInv, [Next]_vars, pc # "done", votes' = votes, outcome' = outcome,
           NEW s \in Open, errors' = Append(errors, Failure(s, Complaint(s))),
           config.strategy = "First" => \A t \in Open : s <= t
    PROVE  Contract!Next
<1>1. /\ outcome = NotReturned /\ outcome.kind = "none" /\ Contract!Open = Open
      /\ Settled = VoteSlots /\ config' = config
  BY OpenSlots, ContractTerms, ConfigConstant
<1>2. ErrorSlots' = ErrorSlots \cup {s}
  <2>1. s \in Slots \ ErrorSlots
    BY ConfigType DEF IInv, Open
  <2>2. QED
    BY <2>1, ErrorAdded DEF IInv, Once
<1>3. Settled' = Settled
  BY <1>1 DEF Settled, VoteSlots
<1>4. [t \in Settled |-> reply[t]]' = [t \in Settled |-> reply[t]]
  BY <1>3, SettledKeeps
<1>5. Contract!Due(s)
  BY <1>1 DEF Contract!Due, NotReturned, Contract!NotReturned
<1>6. Contract!Fail(s)
  BY <1>1, <1>2, <1>4, <1>5 DEF Contract!Fail
<1>7. QED
  BY <1>1, <1>6 DEF Contract!Next

(* A valid answer of a provider whose turn it is. *)
LEMMA AnswerStep ==
    ASSUME IInv, [Next]_vars, pc # "done", errors' = errors, reply' = reply,
           NEW s \in Open, Valid(s),
           config.strategy = "First" => \A t \in Open : s <= t,
           Settled' = Settled \cup {s},
           outcome' = IF config.strategy = "Consensus" THEN outcome ELSE Success(s)
    PROVE  Contract!Next
<1>1. /\ outcome = NotReturned /\ outcome.kind = "none" /\ Contract!Open = Open
      /\ Settled = VoteSlots /\ Contract!Answered = Settled /\ config' = config
  BY OpenSlots, ContractTerms, ConfigConstant
<1>2. PICK ip \in Addresses : ip = reply[s] /\ VersionMatches(config.version, ip)
  BY DEF Valid
<1>3. Contract!Due(s)
  BY <1>1 DEF Contract!Due, NotReturned, Contract!NotReturned
<1>4. ErrorSlots' = ErrorSlots
  BY DEF ErrorSlots
<1>5. [t \in Settled |-> reply[t]]'
        = [t \in Settled \cup {s} |-> IF t = s THEN ip ELSE [u \in Settled |-> reply[u]][t]]
  BY <1>2
<1>6. Contract!VersionMatches(config.version, ip)
  BY <1>2 DEF VersionMatches, Contract!VersionMatches
<1>7. (IF outcome.kind = "panicked" THEN NotReturned ELSE outcome)'
        = IF config.strategy = "Consensus" THEN Contract!NotReturned ELSE Contract!Success(s)
  BY <1>1 DEF NotReturned, Contract!NotReturned, Success, Contract!Success
<1>8. Contract!Answer(s, ip)
  BY <1>1, <1>3, <1>4, <1>5, <1>6, <1>7 DEF Contract!Answer
<1>9. s \in Contract!Open /\ ip \in Contract!Addresses
  BY <1>1 DEF Addresses, Contract!Addresses
<1>10. QED
  BY <1>8, <1>9 DEF Contract!Next

(* The contract's agreement on an address is the size of its group. *)
LEMMA AgreementIs ==
    ASSUME IInv, pc # "done"
    PROVE  /\ \A ip \in Addresses : /\ Contract!Agreement(ip) = Size(ip)
                                    /\ Contract!Agreement(ip) \in Nat
                                    /\ ip \notin Voted => Contract!Agreement(ip) = 0
           /\ Contract!Addresses = Addresses
<1>1. \A ip \in Addresses : Contract!Votes(ip) = Voters(ip)
  BY OpenSlots, ContractTerms DEF Voters
<1>2. \A ip \in Addresses : Contract!Agreement(ip) = Cardinality(Voters(ip))
  <2>1. \A S : Contract!Cardinality(S) = Cardinality(S)
    BY Zenon DEF Cardinality, Contract!Cardinality
  <2>2. QED
    BY <1>1, <2>1 DEF Contract!Agreement
<1>3. \A ip : /\ Cardinality(Voters(ip)) = Size(ip) /\ Size(ip) \in Nat
              /\ ip \notin Voted => Size(ip) = 0
  BY VotersCounted DEF IInv
<1>4. Contract!Addresses = Addresses
  BY DEF Addresses, Contract!Addresses
<1>5. QED
  BY <1>2, <1>3, <1>4

(* The call fails when every provider is settled and none agreed enough. *)
LEMMA RefuseStep ==
    ASSUME IInv, [Next]_vars, pc # "done", Open = {}, errors' = errors, votes' = votes,
           \A ip \in Voted : Size(ip) < config.min_agree,
           outcome' = CASE Matching = {} -> NoProvidersForVersion
                        [] Matching # {} /\ config.strategy # "Consensus" -> AllProvidersFailed
                        [] OTHER -> ConsensusNotReached(Max({0} \cup {Size(ip) : ip \in Voted}))
    PROVE  Contract!Next
<1>1. /\ outcome = NotReturned /\ outcome.kind = "none" /\ Contract!Open = {}
      /\ config' = config /\ Settled = VoteSlots /\ Contract!MatchingSlots(config) = Matching
  BY OpenSlots, ContractTerms, ConfigConstant
<1>2. ErrorSlots' = ErrorSlots /\ VoteSlots' = VoteSlots
  BY DEF ErrorSlots, VoteSlots
<1>3. outcome'.kind \in {"NoProvidersForVersion", "AllProvidersFailed", "ConsensusNotReached"}
  BY DEF NoProvidersForVersion, AllProvidersFailed, ConsensusNotReached
<1>4. [t \in Settled |-> reply[t]]' = [t \in Settled |-> reply[t]]
  <2>1. Settled' = Settled
    BY <1>1, <1>2, <1>3 DEF Settled
  <2>2. QED
    BY <2>1, SettledKeeps
<1>5. \A ip \in Addresses : Contract!Agreement(ip) < config.min_agree
  <2>1. config.min_agree \in Nat \ {0}
    BY ConfigType DEF IInv
  <2>2. QED
    BY <2>1, AgreementIs
<1>6. Contract!Max({0} \cup {Contract!Agreement(ip) : ip \in Contract!Addresses})
        = Max({0} \cup {Size(ip) : ip \in Voted})
  <2>1. {0} \cup {Contract!Agreement(ip) : ip \in Contract!Addresses}
          = {0} \cup {Size(ip) : ip \in Voted}
    <3>1. Voted \subseteq Addresses
      BY DEF IInv, Judged, VoteSlots, Voted, Valid
    <3>2. \A ip \in Contract!Addresses :
             Contract!Agreement(ip) \in {0} \cup {Size(x) : x \in Voted}
      BY AgreementIs
    <3>3. \A ip \in Voted : Size(ip) \in {Contract!Agreement(x) : x \in Contract!Addresses}
      BY <3>1, AgreementIs
    <3>4. QED
      BY <3>2, <3>3
  <2>2. QED
    BY <2>1 DEF Max, Contract!Max
<1>7. (IF outcome.kind = "panicked" THEN NotReturned ELSE outcome)' =
         CASE Contract!MatchingSlots(config) = {} -> Contract!NoProvidersForVersion
           [] Contract!MatchingSlots(config) # {} /\ config.strategy # "Consensus"
                -> Contract!AllProvidersFailed
           [] OTHER -> Contract!ConsensusNotReached(
                Contract!Max({0} \cup {Contract!Agreement(ip) : ip \in Contract!Addresses}))
  BY <1>1, <1>3, <1>6 DEF NoProvidersForVersion, AllProvidersFailed, ConsensusNotReached,
     Contract!NoProvidersForVersion, Contract!AllProvidersFailed, Contract!ConsensusNotReached
<1>8. Contract!Refuse
  BY <1>1, <1>2, <1>4, <1>5, <1>7, AgreementIs
     DEF Contract!Refuse, NotReturned, Contract!NotReturned
<1>9. QED
  BY <1>8 DEF Contract!Next

(* The call succeeds with the provider of a largest agreement. *)
LEMMA AgreeStep ==
    ASSUME IInv, [Next]_vars, NEW s \in Slots, Elect(s)
    PROVE  Contract!Next
<1>1. PICK ip : ip = reply[s]
  OBVIOUS
<1>2. /\ pc = "tally" /\ outcome' = Success(s)
      /\ UNCHANGED <<config, errors, votes, reply, age>>
      /\ s \in Voters(ip) /\ ip \in Voted /\ Leading(ip)
  BY <1>1, ElectedLeads
<1>3. /\ outcome = NotReturned /\ outcome.kind = "none" /\ Contract!Open = {}
      /\ Settled = VoteSlots /\ Contract!Answered = Settled
      /\ config.strategy = "Consensus" /\ ip \in Addresses
  BY <1>2, OpenSlots, ContractTerms, TallyComplete DEF Joining
<1>4. ErrorSlots' = ErrorSlots /\ Settled' = Settled
  BY <1>2, <1>3 DEF ErrorSlots, VoteSlots, Settled
<1>5. [t \in Settled |-> reply[t]]' = [t \in Settled |-> reply[t]]
  BY <1>2, <1>4
<1>6. /\ Contract!Agreement(ip) >= config.min_agree
      /\ \A x \in Addresses : Contract!Agreement(x) <= Contract!Agreement(ip)
  <2>1. \A x \in Addresses : /\ Contract!Agreement(x) = Size(x) /\ Size(x) \in Nat
                             /\ x \notin Voted => Size(x) = 0
    BY <1>2, AgreementIs
  <2>2. Size(ip) >= config.min_agree /\ \A x \in Voted : Size(x) <= Size(ip)
    BY <1>2 DEF Leading, Enough
  <2>3. QED
    BY <1>3, <2>1, <2>2
<1>7. s \in Settled /\ [t \in Settled |-> reply[t]][s] = ip
  BY <1>1, <1>2, <1>3 DEF Voters
<1>8. (IF outcome.kind = "panicked" THEN NotReturned ELSE outcome)' = Contract!Success(s)
  BY <1>2 DEF Success, Contract!Success
<1>9. Contract!Agree(s)
  BY <1>2, <1>3, <1>4, <1>5, <1>6, <1>7, <1>8, AgreementIs
     DEF Contract!Agree, NotReturned, Contract!NotReturned
<1>10. QED
  BY <1>3, <1>7, <1>9 DEF Contract!Next

(* The future that the First strategy polls is of the least provider open. *)
LEMMA LeastOpen ==
    ASSUME IInv, pc = "poll", NEW s, Polling(s)
    PROVE  s \in Open /\ (config.strategy = "First" => \A t \in Open : s <= t)
<1>1. s \in FutureSlots /\ at \in DOMAIN futures /\ s = futures[at]
  BY DEF Polling, FutureSlots, ValuesOf
<1>2. s \in Open
  BY <1>1, OpenSlots
<1>3. ASSUME config.strategy = "First", NEW t \in Open PROVE s <= t
  <2>1. Len(futures) = 1 /\ \A u \in todo : futures[1] < u
    BY <1>3 DEF IInv, Phases
  <2>2. DOMAIN futures = {1}
    BY <2>1, LenProperties DEF IInv, TypeOK
  <2>3. FutureSlots = {s} /\ s = futures[1]
    BY <1>1, <2>2 DEF FutureSlots, ValuesOf
  <2>4. t \in todo \cup {s}
    BY <2>3, OpenSlots
  <2>5. s \in Nat /\ t \in Nat
    BY <1>1, <2>4, JudgedTyped, ConfigType DEF IInv, TypeOK
  <2>6. QED
    BY <2>1, <2>3, <2>4, <2>5
<1>4. QED
  BY <1>2, <1>3

LEMMA ContractStep == IInv /\ [Next]_vars => [Contract!Next]_(Contract!vars)
<1> SUFFICES ASSUME IInv, [Next]_vars PROVE Contract!Next \/ UNCHANGED Contract!vars
  OBVIOUS
<1> USE DEF Return, callVars, pollVars, worldVars
<1>1. ASSUME Resolve PROVE Contract!Next \/ UNCHANGED Contract!vars
  <2>1. CASE Matching = {}
    <3>1. /\ pc = "start" /\ errors' = errors /\ votes' = votes
          /\ outcome' = NoProvidersForVersion
      BY <1>1, <2>1 DEF Resolve
    <3>2. Open = {} /\ Voted = {}
      BY <2>1, <3>1 DEF Open, IInv, Phases, Voted
    <3>3. QED
      BY <2>1, <3>1, <3>2, RefuseStep
  <2>2. CASE Matching # {}
    BY <1>1, <2>2, StutterStep DEF Resolve
  <2>3. QED
    BY <2>1, <2>2
<1>2. ASSUME NEW s \in Slots, PollAnswer(s) PROVE Contract!Next
  <2>1. /\ pc = "poll" /\ Polling(s) /\ s \notin completed /\ Valid(s)
        /\ config.strategy # "Consensus" /\ outcome' = Success(s)
        /\ UNCHANGED <<config, errors, votes, reply>>
    BY <1>2 DEF PollAnswer, Polling
  <2>2. s \in Open /\ (config.strategy = "First" => \A t \in Open : s <= t)
    BY <2>1, LeastOpen
  <2>3. Settled' = Settled \cup {s}
    <3>1. Settled = VoteSlots
      BY <2>1, OpenSlots
    <3>2. VoteSlots' = VoteSlots /\ config'.strategy # "Consensus"
      BY <2>1 DEF VoteSlots
    <3>3. QED
      BY <2>1, <3>1, <3>2 DEF Settled, Success
  <2>4. QED
    BY <2>1, <2>2, <2>3, AnswerStep
<1>3. ASSUME NEW s \in Slots, PollError(s) PROVE Contract!Next
  <2>1. /\ pc = "poll" /\ Polling(s) /\ s \notin completed
        /\ votes' = votes /\ outcome' = outcome
        /\ errors' = Append(errors, Failure(s, Complaint(s)))
    BY <1>3 DEF PollError, Polling
  <2>2. s \in Open /\ (config.strategy = "First" => \A t \in Open : s <= t)
    BY <2>1, LeastOpen
  <2>3. QED
    BY <2>1, <2>2, FailStep
<1>4. ASSUME FirstExhausted \/ RaceLost PROVE Contract!Next
  <2>1. /\ pc \in {"make", "poll"} /\ ~Joining /\ futures = <<>> /\ todo = {}
        /\ errors' = errors /\ votes' = votes /\ outcome' = AllProvidersFailed
        /\ config.strategy # "Consensus" /\ Matching # {}
    BY <1>4 DEF FirstExhausted, RaceLost, IInv, Phases, Joining
  <2>2. Open = {}
    <3>1. FutureSlots = {}
      BY <2>1 DEF FutureSlots, ValuesOf
    <3>2. QED
      BY <2>1, <3>1, OpenSlots
  <2>3. Voted = {}
    BY <2>1 DEF IInv, Placement, Tried, Voted
  <2>4. QED
    BY <2>1, <2>2, <2>3, RefuseStep
<1>5. ASSUME NEW s \in Slots, Gather(s) PROVE Contract!Next
  <2>1. pc = "gather" /\ outcome' = outcome /\ reply' = reply
    BY <1>5 DEF Gather
  <2>2. Joining /\ Collected /\ s \notin ErrorSlots \cup VoteSlots /\ s \in completed
    BY <1>5, GatheredOnce
  <2>3. s \in Open /\ config.strategy = "Consensus"
    BY <2>1, <2>2, OpenSlots DEF Collected, Joining
  <2>4. CASE Valid(s)
    <3>1. votes' = Append(votes, s) /\ errors' = errors
      BY <1>5, <2>4 DEF Gather
    <3>2. VoteSlots' = VoteSlots \cup {s}
      BY <2>2, <3>1, VoteAdded DEF IInv, Once
    <3>3. Settled' = Settled \cup {s}
      <4>1. config' = config
        BY ConfigConstant
      <4>2. QED
        BY <2>3, <3>2, <4>1 DEF Settled
    <3>4. QED
      BY <2>1, <2>3, <2>4, <3>1, <3>3, AnswerStep
  <2>5. CASE ~Valid(s)
    <3>1. votes' = votes /\ errors' = Append(errors, Failure(s, Complaint(s)))
      BY <1>5, <2>5 DEF Gather
    <3>2. QED
      BY <2>1, <2>3, <3>1, FailStep
  <2>6. QED
    BY <2>4, <2>5
<1>6. ASSUME NEW s \in Slots, Elect(s) PROVE Contract!Next
  BY <1>6, AgreeStep
<1>7. ASSUME NoQuorum PROVE Contract!Next
  <2>1. /\ pc = "tally" /\ errors' = errors /\ votes' = votes
        /\ outcome' = ConsensusNotReached(Max({0} \cup {Size(ip) : ip \in Voted}))
        /\ \A ip \in Voted : Size(ip) < config.min_agree
    BY <1>7, TallyDone DEF NoQuorum
  <2>2. Open = {} /\ Matching # {} /\ config.strategy = "Consensus"
    BY <2>1, OpenSlots, TallyComplete DEF Joining
  <2>3. QED
    BY <2>1, <2>2, RefuseStep
<1>8. ASSUME NEW s \in todo, MakeFuture(s) \/ MakePanics(s) PROVE UNCHANGED Contract!vars
  BY <1>8, StutterStep DEF MakeFuture, MakePanics, Panicked
<1>9. ASSUME Await \/ Sleep \/ Wake \/ Joined \/ Gathered \/ Tick \/ UNCHANGED vars
      PROVE  UNCHANGED Contract!vars
  BY <1>9, StutterStep DEF Await, Sleep, Wake, Joined, Gathered, Tick, vars
<1>10. ASSUME NEW s \in Slots, SkipCompleted(s) \/ PollPending(s) \/ PollJoin(s) \/ PollPanics(s)
       PROVE  UNCHANGED Contract!vars
  BY <1>10, StutterStep DEF SkipCompleted, PollPending, PollJoin, PollPanics, Polling, Panicked
<1>11. ASSUME NEW s \in Slots, Rouse(s) \/ \E r \in Addresses \cup Failures : Reply(s, r)
       PROVE  UNCHANGED Contract!vars
  BY <1>11, StutterStep DEF Rouse, Reply
<1>12. ASSUME NEW ip, CountGroup(ip) PROVE UNCHANGED Contract!vars
  BY <1>12, StutterStep DEF CountGroup
<1>13. QED
  BY <1>1, <1>2, <1>3, <1>4, <1>5, <1>6, <1>7, <1>8, <1>9, <1>10, <1>11, <1>12
     DEF Next, TaskStep, ProviderStep

(* The asynchronous resolver keeps the contract of module Resolution: any
   number of providers, whatever they answer and whenever the task is woken.
   The two resolvers promise the same, but for a provider's panic, with which
   a call of this one returns nothing.                                       *)
THEOREM AsyncKeepsContract == Spec => ImplementsContract
<1>1. Init => Contract!Init
  BY ContractInit
<1>2. IInv /\ [Next]_vars => [Contract!Next]_(Contract!vars)
  BY ContractStep
<1>3. QED
  BY <1>1, <1>2, IInvInit, IInvNext, PTL DEF Spec, ImplementsContract, Contract!Spec
=============================================================================
