# A verification of ip-discovery

`ip-discovery` finds the public IP address of the machine it runs on by asking
several public services (STUN, DNS, HTTP) and combining what they say. Its core
is a pair of *resolvers*, one for threads and one for async tasks, that run
unreliable providers under a timeout and apply one of three strategies: ask one
after the other (`First`), ask all and take the first success (`Race`), ask all
and require agreement (`Consensus`). This directory holds TLA+ models of that
core, of the providers and codecs below it and of the release script beside it,
the configurations that check them with TLC, and proofs for TLAPS.

Paths below are relative to the repository's root.

## The system

| Part | State it keeps | Operations | Interacts with | What makes it hard | What makes it correct |
|---|---|---|---|---|---|
| Blocking resolver, `src/blocking/mod.rs` | per call: pending map, error list, answers by address, a deadline; per provider a thread; one mpsc channel (First: one per provider) | `resolve` and its three strategies, `spawn_provider_worker` | provider code on the threads, the clock, the channel | threads that outlive the call, refused threads, panics, messages racing the deadline, a clock that cannot be added to | each provider accounted for once; no thread waited for in vain; one deadline; consensus is sound; the call returns |
| Async resolver, `src/resolver.rs` | per call: the vector of futures, results, a count | `resolve`, `make_provider_future`, `select_first`, `join_all_vec` | provider futures, tokio timers, the waker | a vector reordered while it is walked, futures polled again, wake-ups, an answer racing its timer | the same contract; no future polled twice past its end; no missed wake-up; no answer lost |
| Configuration builder, `src/config.rs` | custom providers, filter, timeout, version, strategy | the builder's calls, `build` | the built-in table (`src/types.rs`), CLI and Node | filters that replace one another, duplicates, two parallel lists | the lists follow the last filter; `min_agree` is at least two |
| Provider traits, errors, types | none | `supports_version`, `IpVersion::matches` | everything | - | families never confused |
| DNS and STUN providers, `src/dns/mod.rs`, `src/stun/mod.rs` | one UDP socket and one request per call | query, binding request | the network, the codecs | lost, late, repeated and stray datagrams; one `recv` | an answer only ever comes from a response to this request |
| DNS and STUN codecs, `src/dns/protocol.rs`, `src/stun/message.rs` | none | build, encode, parse, decode | - | lengths, padding, pointers at the boundaries | never reads outside the packet; finds the address a well-formed one holds |
| HTTP provider, `src/http` | none | one GET | reqwest | the question may go out over the other family, bodies that are no address | an answer is what the service saw, of the version asked for |
| CLI and Node bindings, `ipd/src/main.rs`, `node/src/lib.rs` | none | one builder sequence, one call | builder, resolvers | flags that override one another | what is asked is what the flags name (finding 4) |
| Release script, `scripts/release.sh` | local files, the receipt, remote registries and tags | check, artifacts, publish, tag, verify | GitHub, crates.io, npm | partial publication, re-runs, other people's runs | packages appear in order, from one commit, and a re-run completes the release |

`PROJECT.json` lists these parts with their status, and the hazards of the code
at their lines with the properties that guard against them.

## The modules

```
IpTypes                     addresses, versions, providers, Config, outcomes
  Resolution                the contract: what a call of resolve promises
  BlockingResolver          one blocking call: caller, workers, channel, clock
    BlockingResolverProofs  its theorems, the contract among them
    MCBlockingResolver      configurations for TLC
  AsyncResolver             one asynchronous call: task, futures, timers
    AsyncResolverProofs     its theorems, the contract among them
    MCAsyncResolver         configurations for TLC
  ConfigBuilder             chains of builder calls, ipd's and Node's among them
    ConfigBuilderProofs     its theorems
    MCConfigBuilder         their calls and arguments for TLC
WireTypes                   octets, and addresses as octets
  StunDecode                StunMessage::decode and get_mapped_address
  DnsParse                  the question, parse_response, skip_name, extract_ip
    Servers                 what the services send (external; uses both codecs)
      StunProofs            what decode makes of a message
        DnsProofs           what parse_response makes of one
      ProviderCalls         calls of providers over a network; composes all four
        ProviderCallsProofs theorems about calls, and through them the codecs
        MCProviderCalls     calls, servers and faults for TLC
Release                     scripts/release.sh against GitHub and the registries
  ReleaseProofs             its theorems
  MCRelease                 two bindings for TLC
CollectionLemmas            finite sets, sequences and what is put together of
                            them, for all proofs but the release script's
```

A provider is named by its *slot*, its index in the configured list, because
nothing prevents two providers from having the same name. An address is a model
value of one of two families; the text of an error becomes one of a few reasons.

### Resolution

The state is the set of slots settled by an error, the answers of the slots
settled by a valid address, and the outcome. `Fail` and `Answer` settle a slot,
in config order under `First`; a first valid answer ends a First or Race call.
`Refuse` ends a call as a failure only when no matching slot is open, and a
consensus call only when no address has `min_agree` votes, reporting the size of
the largest agreement (the code's `max()` of the groups, or 0 without any);
`Agree` returns a provider of a largest agreement.
`BlockingResolver` and `AsyncResolver` implement it: errors map to `failed`, the
votes and the winner of a First or Race call to `answers`.

### BlockingResolver

| Code | Model |
|---|---|
| `resolve`, the zero-timeout tests of Race and Consensus | `Resolve` |
| the provider loops, `spawn_provider_worker` as the caller sees it | `SkipForZeroTimeout`, `Spawn`, `SpawnFails`, `FirstExhausted` |
| the shared deadline, `checked_add` and `unwrap_or(ZERO)` | `Arm`, `SharedPatience`, `FirstPatience` |
| head of the receive loop | `Check` |
| the arms of `recv_timeout` | `ReceiveAnswer`, `ReceiveVote`, `ReceiveError`, `GiveUp` |
| `errors.extend(pending...)`, a HashMap in any order | `Drain` |
| the tally, a HashMap in any order, `min_by_key` | `StartTally`, `CountGroup`, `Elect`, `NoQuorum` |
| the worker's closure | `Begin`, `Finish`, `Panic`, `Send` |
| time | `Tick` |

A worker's message is its slot: the answer and the latency it carries no longer
change once the worker has them. A provider may return at any time or never,
with an address of either family, an error or a panic. `Tick` counts the time
left of the caller's wait, and the latencies up to `MaxAge`; any number of ticks
may pass between two steps of a thread, which is how late scheduling is
modelled. `left = 0` leaves both a `recv_timeout` that fails and one that still
finds a message. `waited` is a history variable and guards nothing.
`MaxInstant` is the longest timeout `Instant` can represent.

### AsyncResolver

| Code | Model |
|---|---|
| `resolve` | `Resolve` |
| `make_provider_future`, its synchronous part included | `MakeFuture`, `MakePanics` |
| one poll of one future by `select_first`, `join_all_vec` or `.await` | `PollPending`, `PollAnswer`, `PollError`, `PollJoin`, `PollPanics`, `SkipCompleted` |
| `swap_remove` | `SwapRemove` |
| `Poll::Pending` and the waker | `Sleep`, `Wake`, `Rouse` |
| results of `join_all_vec`, the tally | `Joined`, `Gather`, `Gathered`, `CountGroup`, `Elect`, `NoQuorum` |
| ends of First and Race | `FirstExhausted`, `RaceLost` |
| provider futures and time (tokio, external) | `Reply`, `Tick` |

The timer of a future starts when it is first polled (`left = Unpolled` before),
the provider is polled before the timer, and only a future that was polled can
wake the task. `Rouse` is a wake-up for nothing. A provider's panic unwinds
through the task (`kind = "panicked"`): nothing in `src/resolver.rs` catches it.
Dropping the call's future half-way is not modelled; it leaves nothing behind.
The tally takes the hash map's groups one at a time, in any order, and keeps its
`best` as the loop does (`CountGroup`, as in the blocking resolver).

### ConfigBuilder

| Code | Model |
|---|---|
| `ConfigBuilder::new`, the builder's calls | `New`, `Made` |
| `build`, its two matches on the filter | `Build`, `Built`, `BuiltinPart`, `HasCustom` |
| `BuiltinProvider::ALL`, `protocol`, `to_boxed`, `to_boxed_blocking` | `ALL`, `ProtocolOf`, `Boxed` |
| `ipd`'s `main`, the bindings' `get_ip` | `CliCalls`, `NodeCalls`, then `FrontEndCalls` |

A program makes any calls in any order; `ipd` and the bindings make those their
arguments lead to, in the order of their code. They differ in one point: an
empty list of protocols is no filter for `ipd` and a filter that excludes every
provider for Node. `calls` is a history variable. The module joins the
resolvers: `ResolversGetConfigs` says that whatever the chain, the result is in
`Config`, which the resolvers' modules and proofs assume of their configurations.
Both lists are modelled, as in a build with the `tokio` feature. `filter` and
`collect` are `Picked`, which numbers the places that are kept: it says the same
as `SelectSeq`, whose recursive definition the provers cannot expand.

### StunDecode, DnsParse

Both work on the octets of a datagram, one step per attribute, label, record or
character string, and end as `decoded` or `parsed`, `rejected`, or `panicked`: a
slice index beyond the octets received, which is what Rust would panic on. The
header fields are numbers; the rest is octets.

| Code | Model |
|---|---|
| `decode` up to its loop, the tests of the header | `DecodeHeader`, `HeaderIsValid` |
| one turn of its loop, padding | `DecodeAttribute`, `Padding` |
| `get_mapped_address` and its two parsers | `GetMappedAddress`, `FirstOf`, `ParseAddress` |
| `build_query` | `EncodeName`, `QueryIsValid`, `Question` |
| `validate_response`, the start of `parse_response` | `ResponseIsValid`, `ParseHeader` |
| its two loops, `skip_name` | `NextQuestion`, `SkipQuestion`, `NextAnswer`, `SkipName` |
| one record, one string of a TXT record | `ReadRecord`, `ReadString`, `TextDone` |
| `extract_ip` | `ExtractIp`, `Found`, `IsPart`, `BeforeSlash` |

`XorOctet`, `IsUtf8`, `FromStr` and `Spell` are constants: the exclusive or of
octets, and how the standard library tests, reads and writes text. `Servers` holds
the other side. A *shape* is one of the many ways in which a service may say what
address it saw: a list of attributes in any order, rewritten by a middlebox, of an
unknown family, claiming more than there is; names in full or by pointer, TXT
records in one string or two, strings that are no text, other records between. The
message follows from the shape, the request and the address. `GoodStun`, `GoodDns`
and `GoodHttp` say, of the shape alone, whether a client of the protocol can learn
the address from it, which is what the codecs' answers are compared with.

### ProviderCalls

| Code | Model |
|---|---|
| a zero timeout, `build_query` failing | `Begin` |
| `to_socket_addrs`, `lookup_host`, `select_addr` | `Lookup`, `SelectAddr` |
| `bind`, `select_resolver`; `connect`; `send` | `Bind`, `Connect`, `Send` |
| `recv` into 576 or 1232 octets | `Recv`, `Cut` |
| read timeout, client timeout, `tokio::time::timeout` | `TimesOut` |
| decoding, `process_response`, `extract_ip` | `Parse`, `ProcessResponse`, `ExtractResult`, `Conclude` |
| an error of the system, an ICMP error | `SystemFails` |
| `fetch_blocking`, `fetch`, the two parsers of bodies | `Fetch`, `FetchReturns`, `ParsePlainText`, `ParseCloudflareTrace` |
| servers, network, the host (external) | `Reply`, `Deliver`, `Move`, `Tick` |

A setting is a plan of calls with the servers and faults they meet. A socket is
its port and its queue; the port may be that of an earlier call, whose late
replies then arrive, and before `connect` from any server. A request's number
stands for its random transaction ID: that two requests never draw the same one
is an assumption of the model (12 octets for STUN; for DNS two, so there it is a
1 in 65536 matter). The blocking name lookup is under no timeout; the
asynchronous call is under one wherever it waits. A call abandoned by
`TimesOut` leaves its request, and the replies to it, in the network.

The resolvers see a provider call as one that returns an address of either
family, an error, a panic, or nothing in time; `ProviderCalls` shows which of
these the built-in providers really do (no panic, no wrong family).

### Release

| Code | Model |
|---|---|
| the command, `cd`, the case at the end | `Start`, `PhaseDone` |
| `die`, `set -e`, an interrupt, polls that run out | `Die`, `StepFails` |
| `assert_clean_main`, `phase_check` with `run_gates` | `CleanMain`, `Check`, `Gates` |
| `phase_artifacts` | `ArtifactsStart`, `Dispatch`, `WaitForNewRun`, `WatchRun`, `CopyBinding`, `WriteReceipt` |
| `phase_publish` | `PublishStart`, `Exists`, `Upload`, `WaitForCrate` |
| `phase_tag`, `phase_verify` | `Tag`, `Push`, `WatchRelease`, `Verify` |
| GitHub, registries, other people (external) | `MainMoves`, `CiPasses`, `OthersDispatch`, `RunListed`, `RegistryShows` |
| `.github/workflows/release.yml`, its jobs that publish | `PageMade`, `FormulaUpdated`, `ReleaseEnds` |

One version, released from commits that all carry it; one terminal. A workflow
run is the commit it builds; runs are listed in order, some time after they were
started. The registries refuse a version they have, and show one some time after
its upload. `calm` is a history variable and guards nothing: it becomes false
when the script's query for the latest run fails or misses a run, when main moves
before the workflow starts, or when somebody else starts it. In such histories
the bindings may be of another commit than the receipt says, and the code
publishes them; `NpmIsOneCommit` says that this is the only way.

`run_gates` builds the binding of the maintainer's own platform into `node/`
(`scripts/release.sh:162`), so `Check` sets `bindings[Host]` to HEAD before the rest
of the gates may fail. `HostAssumption` says that this platform is one of the
expected four: on another one a fifth file stays in `node/` and
`validate_bindings_dir` dies from then on (`scripts/release.sh:222`). The tag's workflow
makes the GitHub release (`page`) and then the Homebrew formula (`formula`), and may
fail between them. `phase_verify` dies when the tap holds the formula of an earlier
version and lets pass one that is missing or cannot be read, so without this
version's formula `Verify` may end either way. The version is a final one: for a
prerelease, which `validate_version` lets through, the workflow skips the formula
(`.github/workflows/release.yml:291`).

## The runs

| Run | States | What it shows |
|---|---|---|
| `blocking_calls` | 91 thousand | all strategies, timeouts 0 to 2, two providers (three for a First call in which one does not match), every interleaving: the contract, each property below, termination |
| `blocking_tally` | 205 thousand | the tally from every set of results and latencies of five workers, `min_agree` 2 and 3 |
| `async_calls` | 255 thousand | all strategies, two and three providers, every interleaving of polls, replies, ticks and spurious wake-ups |
| `async_tally` | 165 thousand | the answer of the tally, as in `blocking_tally` |
| `config_builder` | 85 thousand | every chain of up to four calls, every command line and options object: the result is a `Config`, both lists agree, the last filter decides |
| `blocking_huge_timeout` | violation | finding 1 |
| `blocking_in_time_answer` | violation | finding 2 |
| `blocking_duplicate_provider` | violation | finding 3 |
| `cli_protocols` | violation | finding 4 |
| `provider_calls` | 188 thousand | the calls of STUN, DNS and HTTP providers: in fair weather every shape of reply, cut at every octet; in foul weather two calls with lost, late, repeated and cut-off datagrams, a reused port, timeouts, failures and a moving host |
| `any_fallback` | violation | finding 5 |
| `release` | 478 thousand | every order of the phases with up to two failures, two commits, and other people's runs |

Bounds. Two providers give every pair of racing threads and three the first
reordering by `swap_remove` that moves a future other than the last; two
IPv4 addresses and an IPv6 one give agreement, disagreement and the wrong
family; five voters are the fewest with two groups of at least `min_agree` = 2
votes of different size (3 and 2). A timeout of two ticks separates "some time
has passed" from "the time is up"; `MaxInstant` = 2 lets the timeouts of the
passing runs be added and not that of `blocking_huge_timeout`; `MaxAge` = 1 tells
a faster from a slower answer. The two tally runs begin where a call stands when
its providers have reported, since the interleavings before that are covered by
the call runs; the states they begin in are ones a call of five providers reaches.

Four builder calls put two filters and two custom providers, in any order, into
one chain; the arguments include the empty filter, a provider selected twice,
providers whose feature is not compiled in, and a consensus of zero. The command
lines and options objects are complete chains and need no bound.

In `provider_calls` the plain calls get one reply of some twenty shapes per
protocol, cut after 0 to 90 octets, which is every octet of the longest; the buffers'
real sizes are not reached by such replies, and a cut stands for what a buffer
leaves. The message length of a STUN header is off by up to twelve either way.
Foul weather has two calls, two replies, two ports and a queue of two: enough for
a late or repeated reply to come before, after or instead of the one awaited. In
`release` two commits let main move between any two steps, two bindings let a
copy stop half-way, and `MaxUnlisted` = 2 lets somebody else's run come before or
after the script's own.

`CHECK_DEADLOCK FALSE`: a configuration that is built is final, a call that has
returned, and whose workers have ended, has nothing more to do, and neither has a
plan whose calls are made or a release that is verified.

Fairness. `WF(CallerStep)`, `WF(TaskStep)`: the operating system schedules the
caller's thread, the runtime polls a woken task. `WF(Tick)`: the clock runs.
Nothing is assumed of the workers or the providers, which may hang for ever, so
`Terminates` is a statement about the resolvers alone. Spurious wake-ups
(`Rouse`) are not fair and cannot stand in for a missed one. In `ProviderCalls`
the thread or task and the clock are fair, name lookup, servers and network are
not. In `Release` the script and the services run on, and the maintainer brings
the clone up to date and runs `all` again as long as the release is not verified
(strong fairness, since other commands of theirs may come between); failures and
new commits are bounded, so that they end.

### The properties

Both resolvers: `EveryProviderAccounted`, `ConsensusIsSound`, `Terminates`,
`ImplementsContract`. Blocking: `FirstKeepsOrder` (late messages reach nobody),
`RaceWinnerIsValid`, `ConsensusRefusalIsHonest`, `PendingHasWorker` (the
`Disconnected` arms are dead code), `TimeoutMeansDeadlinePassed`,
`OneDeadlineForAll`. Async: `NoAnswerDropped` (what the blocking resolver does
not achieve, finding 2), `JoinIsComplete`, `SleepersAreArmed`. Builder:
`ResolversGetConfigs`, `ListsAreParallel`, `LastFilterDecides`.

Codecs: `StunNeverPanics`, `DnsNeverPanics`; `AlignmentErrorsAreDead` (two error
paths of `decode` cannot be taken). Providers: `AnswerIsWhatServerSaw` (late and
repeated datagrams never become an answer), `GoodReplyIsUsed`,
`CutsLoseOnlyTheTail`, `VersionHonoured` (which the STUN provider never tests),
`CallEnds`. Release: `PublicationOrder`, `NpmIsOneCommit`, `Completes`.

### Findings

1. *A huge timeout is no timeout at all.* `Instant::now().checked_add(timeout)`
   is `None` for, say, `Duration::MAX`; the receive loop of Race and Consensus
   then has zero time left and reports every provider as timed out at once
   (`src/blocking/mod.rs:227`, `301`). `First` waits without limit instead.
2. *An answer that came in time can be dropped.* The loop looks at the clock
   before the channel (`src/blocking/mod.rs:233`): a caller that is scheduled
   late abandons valid answers already queued and calls their providers
   timed out. The async resolver polls the provider before the timer and loses
   nothing.
3. *One provider can agree with itself.* `ConfigBuilder::providers` keeps
   duplicates and the tally counts answers, not providers
   (`src/blocking/mod.rs:337`), against `src/config.rs:26`.
4. *A provider flag undoes the protocol flag.* `ipd -p dns --provider google-stun`
   uses STUN: `main` calls `providers` after `protocols`
   (`ipd/src/main.rs:188`), and each filter of the builder replaces the other,
   where the README's `-p` promises "Use only" the protocols given. The Node
   bindings make the same two calls.
5. *Any is IPv4 on a host without IPv4.* `IpVersion::Any` takes a STUN server's
   IPv4 address whenever it has one (`src/stun/mod.rs:59`) and always a DNS
   provider's IPv4 resolver (`src/dns/mod.rs:99`). On a host with IPv6 only,
   every such call fails at `connect`, where `README.md:83` promises to "fall back
   to IPv6".

Seen in `Release` and held by nothing: the tag is put at HEAD of the moment,
which may be later than the commit of the packages (`scripts/release.sh:366`); and
`check`, run between `artifacts` and `publish`, replaces one of the workflow's
bindings by one built on the maintainer's machine, of the same commit
(`scripts/release.sh:162`).

## What is proved

All theorems hold for every value of the constants under the named assumptions
of the modules, which TLC evaluates in the runs. They are about safety, and every
safety property that a passing run checks is among them; each follows from an
inductive invariant of the form "holds initially, is kept by every action, implies
the property", which TLC checked on the runs' instances before it was proved.

### The blocking resolver

`BlockingResolverProofs`, for any configurations, addresses, numbers of
providers and timeouts:

- `TypeCorrect`: `Spec => []TypeOK`.
- `EveryProviderIsAccounted`: `Spec => []EveryProviderAccounted`.
- `NobodyAwaitedInVain`: `Spec => []PendingHasWorker`.
- `NoEarlyTimeout`, `OneDeadline`: the two action properties, under the
  assumption that every configured timeout can be added to the clock; finding 1
  is what happens without it.

The inductive invariant is `TypeOK /\ Messages /\ Placement /\ Awaited /\ Clock`.
`EveryProviderAccounted` speaks of the end of a call only; to carry it there,
`Placement` says that at every moment each matching slot is in exactly one of
`todo`, `pending`, `errors` and `votes`, that none is in a list twice, and which
of the four may be inhabited in each phase; the counting at the end is
cardinality arithmetic on two injective sequences. `Messages` ties the queue to
what the workers computed, `Awaited` says where the message of a pending slot is,
and `Clock` that `left + waited` is the timeout while the caller waits.

On the same invariant, strengthened by what is said below, rest:

- `FirstAnswerIsInOrder`: `Spec => []FirstKeepsOrder`.
- `RaceIsWonFairly`: `Spec => []RaceWinnerIsValid`.
- `ConsensusHolds`: `Spec => []ConsensusIsSound`.
- `RefusalHolds`: `Spec => []ConsensusRefusalIsHonest`.
- `BlockingKeepsContract`: `Spec => ImplementsContract`, the refinement of
  `Resolution`.

`Order` keeps what is reported before what is awaited before what is untouched.
`Winner` says whose message won and that every error reported before came from a
thread that never was or a message without a valid answer; it rests on the
fact that a worker that has sent never changes its answer. `Tally` says that
`best` leads all groups gone through so far, which does not depend on their order;
`Verdict` keeps what a consensus was decided on while late workers run on. For the
refinement each action is a lemma: it maps to `Fail`, `Answer`, `Refuse` or
`Agree`, or changes nothing that the mapping shows.

### The asynchronous resolver

`AsyncResolverProofs`: `AsyncTypes` (`TypeOK`), `EveryOneAccounted`
(`EveryProviderAccounted`), `NoAnswerIsDropped` (`NoAnswerDropped`),
`JoinCompletes` (`JoinIsComplete`), `SleepersCanWake` (`SleepersAreArmed`), `AsyncConsensusHolds`
(`ConsensusIsSound`) and `AsyncKeepsContract` (`ImplementsContract`).

Here the invariant is `TypeOK /\ Once /\ Phases /\ Placement /\ Counted /\ Judged /\
Polled /\ Tally`. First and Race take a future out of the vector when it completes, in
whatever order `swap_remove` leaves the others, while Consensus keeps them all until
every result is there, so `Placement` has two cases (`Tried`, `Collected`) and both
speak of the vector's set of slots, never of its order. `Judged` says that errors
and votes come from completed futures and that only votes are valid; `Polled` that
the scan leaves no future behind that was not polled, which is why a task that
sleeps can be woken. `Tally` says of the loop over the hash map that `best` has
`min_agree` votes and leads the groups gone through so far; when none is left it
leads them all, or none has `min_agree` votes, whatever the order was.

### The configuration builder

`ConfigBuilderProofs`, for chains of any length and any command lines and options
of the right types: `BuilderMakesConfigs` (`ResolversGetConfigs`),
`BuiltListsAreParallel` (`ListsAreParallel`), `LastFilterWins`
(`LastFilterDecides`). The first one is the premise of the theorems above: the
resolvers assume that their configurations are `Config`s.

The invariant is `Typed /\ Kept /\ Final`: the builder is at every moment what the
history of calls says, each list of custom providers being the arguments of its
`add` calls and the filter that of the last call that set one. The lemmas on
`Rank`, `Nth` and `Picked` say what filtering does to a sequence that grows at its
end, and that it keeps the order.

### The providers and codecs

`ProviderCallsProofs`, for any plan of calls over a network that loses, delays,
repeats and reorders, and cuts anywhere. From nothing of a datagram but that it is
octets, of any number:

- `CallTypes`: `TypeOK`.
- `StunStaysInBounds`, `DnsStaysInBounds`: `StunNeverPanics`, `DnsNeverPanics`.
- `AlignmentIsKept`: `AlignmentErrorsAreDead`.

For replies of any shape, with any number of attributes, records and labels:

- `CodecsReadWhatWasSaid`: while a call parses, its codec has just what the server
  said, as far as it arrived, and rejects no whole message a client should read.
- `AnswersAreSeen`: `AnswerIsWhatServerSaw`.
- `GoodRepliesAreUsed`: `GoodReplyIsUsed`.
- `OnlyTheTailIsLost`: `CutsLoseOnlyTheTail`.
- `VersionsAreHonoured`: `VersionHonoured`.

The argument has four layers.

*Bounds.* `Decoding` keeps the STUN walk's place at least a header behind the start,
at or before the end and a multiple of four from it, so that an attribute header, a
value and its padding fit; `Reading` does the same for DNS, whose position may lie
beyond the end between `skip_name` and the next test.

*Contents.* `StunProofs` and `DnsProofs` place every part of a server's message:
attributes, records and labels lie one behind the other (`AttrAt`, `RecordAt`,
`LabelAt`), because `FlattenSeq` of a sequence is a function that grows by one part
at a time (`JoinOf` in `CollectionLemmas`). `StunReads` and `DnsReads` then say,
state by state, what the codec has of them: the first attributes, each with its
type and its value; the results of the first records; a name up to one of its
labels; a record up to one of its strings. One lemma per step of a codec shows that
it goes on from there. `MappedAddressFound`, `AddressExtracted` and their lemmas say
what the provider makes of what its codec has in the end: the first readable
XOR-MAPPED-ADDRESS comes before any MAPPED-ADDRESS, a text is an address, the
address after `ip=` or before a slash, or none.

*Transport.* `Made`, `Asked` and `Carried` tie every reply under way to a request of
its own protocol; `Identified` and `Matched` follow the transaction ID from the
request through the network into the parser. `Told` says that a reply is the message
of a shape, a request and the address of the family the request went over; `Asks`
and `Ways` that the current request is of the call's provider and family, `Gotten`
that only a reply is parsed.

*Answers.* `Understood` puts the contents on the reply that was received, and
`Answers`, the four properties, follow when the call concludes.

Induction over the parts of a message is done without the library's induction
theorems: the set of the numbers for which a statement fails would have a least
element (`LeastNatural`), which the step refutes (`SetInduction` states it for sets,
so that no operator is passed).

Behind these theorems stand

- `SettingsAssumption`: the types of the plans, and that a call asks only for a
  version its provider supports, which the resolvers see to.
- `DatagramsAssumption`: what servers send is octets, in datagrams of the length they
  have, and an attribute that claims more than there is does claim more. The proofs
  of the first group use nothing else of the servers.
- `ServersAssumption`: servers reply in one of their shapes; an address they may see
  is legible (`Legible`: its text is a few characters without a separator, and reads
  back as it); and one whose MAPPED-ADDRESS a middlebox may rewrite sends an
  XOR-MAPPED-ADDRESS beside it, and does not count less than it sends
  (`SentBeside`). Without the last one `get_mapped_address` does return the
  rewritten address, as any client would: RFC 5389 has the attribute for that reason.
- `XorAssumption`, `TextAssumption`: of the exclusive or, that it stays within an
  octet and undoes itself; of the texts, that the octet `e` is no address and that
  200 200 is not UTF-8.

That no two requests have the same ID is part of the model (see `ProviderCalls`
above).

### The release script

`ReleaseProofs`, for any number of commits, workflow runs, native bindings and
failures:

- `TypeCorrect`: `Spec => []TypeOK`.
- `PublicationInOrder`: `Spec => []PublicationOrder`.
- `NpmOfOneCommit`: `Spec => []NpmIsOneCommit`.

The properties look at the registries only; the invariants behind them say what
the script may rely on at each of its steps. `TypeInv` gives every variable its
type and keeps the receipt at or before HEAD, which is why a receipt that names
HEAD cannot come from a later commit and `Pull` makes every receipt stale.
`Seen` says what can be seen once the script handles a package or is about to
push a tag: each package is reached only through the one before it, skipped or
waited for. `Traced` follows a calm history: the run still to be listed or
already the latest is HEAD's, the script watches that run, what it has copied
was built by it, and a receipt that names HEAD stands for bindings built from
HEAD, even if a later `artifacts` phase stopped half-way through copying them
once more, or a later `check` built the host's binding again.

### Assumptions

Configurations are `Config`s (`BuilderMakesConfigs` shows that the builder's are);
bounds are naturals; the address families are disjoint; the builder's calls and the
front ends' arguments have the types of the methods they are passed to
(`CallsAssumption`), which Rust's type checker, clap and napi enforce; and
`NamesAssumption`, that the names of the built-in providers are strings, a truth of
TLA+ for which the provers have no rule. Those about providers and codecs are above.

### Only model-checked

- `Terminates` of both resolvers, `CallEnds`, `Completes`: liveness under fairness,
  for which the provers have no rules (`ENABLED`).
- The five runs that expect a violation: their counterexamples are TLC's.

## The plan

What was planned is modelled, checked and, but for liveness, proved. A change of the
code begins at the definition that `PROJECT.json` maps to its lines; a property that
TLC no longer confirms shows where, and an action's lemmas in the proofs are the
only ones that have to be looked at again. Worth adding when the code changes:
several DNS or STUN datagrams per call (a retry), and a cancelled asynchronous call
once something outlives it.

## Not modelled

- Formatting and parsing of text: `Display`, `FromStr` of the enums, the output of
  `ipd`, the texts of errors. No property is about them.
- The private-address lookup of `src/lib.rs`: a question to the routing table.
- The insides of reqwest, tokio and the registries, beyond what the code
  relies on; with them the default client, with its own timeout, that stands in when
  the blocking HTTP client cannot be built (`src/http/mod.rs:107`).
- A bound on the blocking name lookup: the code has none (`src/stun/mod.rs:104`).
  `CallEnds` begins after the lookup; that a provider hanging in one does not hang the
  resolver is `Terminates`.
- The CI workflows, which are declarations, beyond what `Release` says of them, and
  `node/index.js`, which is generated.
- `--dry-run` of the release script, which skips every step that changes anything.
- Examples and tests, which served as statements of intent.
