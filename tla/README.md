# Stream Replicator in TLA+

Models of Choria Stream Replicator, their TLC instances, and TLAPS proofs. Paths
are relative to the repository; `replicator.go`, `src_to_dest_copier.go` and
`target_initiated_copier.go` are in `replicator/`.

## 1. The system

A replicator process runs one `Stream` per configured stream. A `Stream` copies the
messages of a source JetStream stream into a target stream, in order, with one of
two copiers. Several processes may be configured for the same stream: then they
either share the work of one consumer, or elect a leader and the others are paused.

| Component | State | Operations | Talks to |
|---|---|---|---|
| Election, `election/` | `state`, `lastSeq`, `tries`, `notifyNext`, a ticker, a context | `campaign`, `try`, `campaignForLeadership`, `maintainLeadership`, `stop`, `IsLeader` | one key of a NATS key-value bucket (`Create`, `Update`, `Delete`, TTL); calls `wonCb`, `lostCb` |
| Stream runner, `replicator.go` | `paused`, `leadershipWon`, `leadershipLost`, connections | `Run`, `win`, `lost`, `isPaused`, `limitedProcess`, connecting | starts election and copier; both callbacks pause or resume the advisor |
| Source-initiated copier, `src_to_dest_copier.go` | `msgs` channel, `resumeSeq`, tickers | select loop: poll, health check, handle, ack or nak | a durable pull consumer shared by all replicators; requests to the target; the limiter |
| Target-initiated copier, `target_initiated_copier.go` | `msgs`, `lastCSeq`, `reset`, `resumeSeq`, `resumeTime`, `consumer`, `sub` | select loop: lost, won, message, reset, health check; store loop | an ephemeral push consumer per leader, without acknowledgements; the target, to write and to find where to resume |
| Backoff, `backoff/` | none (policies) | `Duration`, `Sleep`, `For` | election, copiers, advisor, tracker |
| Tracker, `idtrack/` | `Items` (seen, copied, size, advised), state file | `RecordSeen`, `RecordCopied`, `RecordAdvised`, `ShouldProcess`, scrub, save, load, gossip | limiter; advisor callbacks; the other replicators |
| Memory limiter, `limiter/memory/` | none of its own | `ProcessAndRecord` | tracker, source copier |
| Advisor, `advisor/` | `out` queue, `paused` | four callbacks, publisher, `Pause`, `Resume` | tracker, NATS |
| Heartbeat, `heartbeat/` | `paused`, a ticker per subject | worker per subject, election callbacks | its own election, JetStream |
| Configuration, command line, NATS utilities, metrics | configuration values | parsing, connecting, counting | all |

Interactions that make it hard:

* *Two goroutines per stream and node*: the campaign runs the callbacks while the
  copier's select loop is anywhere, in the middle of a health check or of an attempt
  to store a message. `paused` is a flag, the rest are tokens in channels of capacity one.
* *Several nodes* share the key of the election and the source copier's consumer;
  their leaderships may overlap, and a deposed node finishes what it has in hand.
* *Everything crosses a network*: requests and answers are lost or late, a push
  consumer's messages can be dropped, consumers vanish, processes die.
* *Positions are kept in several places*: the consumer on the server, `resumeSeq`
  in the process, the last message of the target, `lastCSeq` of some consumer.

What makes each component correct: the election has one leader at a time while nothing goes wrong from outside, tells it of
every win and loss once, deposed leaders stand down within a known time, and it settles; the source copier never loses a message and copies
first copies in order; the target copier leaves no gap and writes nothing twice
unless leaders overlap, a request outlives its process or is repeated beyond the target's duplicate window; a paused node is out of the way; with a stable leader everything
is copied. The tracker and the limiter: a message is only left out when the target got one
of its identity less than an interval ago, whichever replicator copied it. The advisor: a
silence is told once and is told in the end, and consumers do not take a living identity
for silent.

## 2. Modules

| Module | Models | Extends |
|---|---|---|
| `Election` | the campaign of every node over one key, time abstract | |
| `ElectionTimed` | tickers, waits, TTL and jitter on top of it | `Election` |
| `Replication` | abstract: what both copiers promise | |
| `SourceCopier` | source-initiated copier of any number of nodes, its consumer, the target | instance of `Replication` |
| `TargetCopier` | target-initiated copier, likewise | instance of `Replication` |
| `Tracker` | the table of identities of each replicator, its file, gossip, scrubs; no specification of its own | |
| `Limiter` | `ProcessAndRecord` of several replicators over their trackers | `Tracker` |
| `Advisor` | the callbacks of one tracker, the queue and the publisher | `Tracker` |
| `ElectionProof`, `ElectionTimedProof`, `SourceCopierProof`, `TargetCopierProof`, `TrackerProof`, `LimiterProof`, `AdvisorProof` | theorems; `TrackerProof` holds what the last two share | the module proved about |
| `MCElection`, `MCElectionTimed`, `MCSourceCopier`, `MCTargetCopier`, `MCLimiter`, `MCAdvisor` | values of the constants | |

**Election.** `pc[n]` is where the campaign goroutine of node `n` stands. `Campaign`
and `Maintain` are the two branches of `try()`: they send the request, whose outcome
(`reply`) is decided by the bucket: applied with or without the answer arriving,
refused, given up on, or given up on and applied later (`late`). `Created`,
`CreateFailed`, `Updated`, `UpdateFailed` are what follows the call, `Won` the end of
the 200ms pause and `wonCb`. `active[n]` is a history of the callbacks: the last one
was `wonCb`. `Shutdown` is `stop()` and the `IsLeader` question after it, `Delete` the unconditional
delete of the key. Revisions are compared only for equality, so they are a
small set of which a write takes one that nothing refers to; if none were free the write would be
disabled, and seven are enough for two nodes (MCElection says why). `e.tries` grows without end in the code
(`election.go:144`); `tries[n]` stands for the index into the policy that `Duration` makes of it, so `CreateFailed` stops at the last
index, `MaxTries`, and everything beyond is one value. The pauses are
atomic steps in `Election` because any of them may last any time there.

**ElectionTimed** conjoins timers to the same actions. `Tick` may not pass a ticker that fired, an answer that is
due or the key's TTL. One unit is 250ms. `Timings` are the configurations an election may have (the waits of the policy, the time a
request takes when nothing is wrong, the client's timeout, the TTL); a behaviour keeps the one it starts with. The waits
`backoff.Policy.Duration(k)` may return after jitter are given by their two ends, as what matters is that one
node waits longer than another. A request is three steps: it is sent (`TSend`), reaches the bucket or is lost (`TArrive`) and is
answered (`TAnswer`). The code sets no limit of its own to that (`replicator.go:203` leaves the client's default of some seconds), so the
answer may come at any time up to `timeout`; one that takes longer than `delay` is a fault. A tick that fires during a try
is dropped by the `Reset` that ends it (Go 1.23 and
later leave no stale tick in a reset ticker; `go.mod` asks for 1.25). What comes from outside is counted in `faults`: a slow or lost answer, a crash, a
write or delete by others. Both callers of the election pass a backoff policy (`replicator.go:248`, `heartbeat.go:224`). The fixed interval of
`election.go:109-111`, three quarters of the TTL, which only tests use, is in `Election` with its time abstract but not in `ElectionTimed`: whether it
gives one leader at a time depends on answers shorter than the 200ms pause, which nothing ensures.

**SourceCopier.** A message is its sequence. The server side is
external: `next` is the next sequence for a first delivery, `pending` the one delivered and
not acknowledged (`MaxAckPending(1)`), `due` that it may be delivered again, `pulls` the
requests it holds. The node side is the select loop: `Poll`, `HealthCheck` and `CreateConsumer` (two
requests, so two steps), `Take`, then `Skip`, `Store` or `StoreFails` for
`handler()`, and `Ack`. Polling and taking a message do not exclude each other as they are cases of one
select, so each is a step that starts in `idle`. `StartOption` says where a consumer starts whose node has no `resumeSeq`:
`"sequence"` is `start_sequence`, `start_time` or the whole stream, a fixed first message; `"end"` is `start_at_end`; with `"delta"` it is
`deltaSeq`, the first message that is not older than `start_delta` at the time of this creation (`src_to_dest_copier.go:250`). Messages
get older than the delta one after the other (`Ages`), so a node without a `resumeSeq` that makes a lost consumer anew, and every creation after a restart
with `ephemeral`, passes messages nobody handled. `Settled` are the messages handled or older than the delta: with `start_delta` a consumer promises no more. `Won`
and `Lost` may happen at any time: this copier's correctness must not depend
on there being one leader, and the model shows that it does not.

**TargetCopier.** A message in the channel carries its stream and its consumer sequence. `check`, `create`,
`recreate` and `store` are the places where the loop waits for an answer, so that
callbacks, deliveries and other nodes come between. `purgedAt` is where the last time of a
purged target falls among the messages of the source; `HeadersOnly` are the messages with headers and no body;
`sent` says what the target knows of the message id of the message in hand: nothing (`"never"`), that it stored it (`"known"`), or, once its
duplicate window has passed, no longer (`"forgotten"`, by `WindowPasses`), so that a further attempt of the endless store loop stores the message again.
`Recreate` with
`"api"` covers every error path of `recreateEphemeraLocked`. `Configured` is where a consumer starts while the target is empty; `start_delta`, counted from the
creation, may be any sequence there. The
drop of a status message changes nothing and is left out. `Faults`
names what may happen, so that a run says what its property needs:

| fault | what may happen |
|---|---|
| `dropLater`, `drop` | a message is lost between consumer and channel: after something was copied from this consumer, or at any time |
| `consumerIdle`, `consumer` | the server loses the consumer: while the channel is empty, or at any time |
| `timeout`, `late` | an attempt to store is not answered; the last request of a process that ended arrives later |
| `window` | attempts go on beyond the duplicate window of the target |
| `crash`, `api`, `purge` | restart; an API request fails; the target is purged |
| `rewin`, `twoLeaders` | a node wins again before its loop saw the loss; leaderships overlap |

**Tracker.** `items[n]` is `Tracker.Items`, `file[n]` the state file, `inbox[n]` the gossip on its way to `clusterSync`.
Times are ages in units of the maintenance period (ten seconds in the code), which grow with `TrackerTick` up to
`MaxAge`: no property looks at absolute times, and so the states are finite with time going on for ever. `copied` at
`MaxAge` is also "never", as both are beyond every deadline. A tick waits until each tracker with a state file scrubbed:
that is the ticker of `maintainer()`. Each call under the tracker's mutex is one operator, which the modules that
call it put into an action, except the mark of a timeout, which is one step with its entry into the queue (see Advisor). `Gossip` reaches any subset of the other replicators, and a publish is not echoed
(`NoEcho`). `Received` replaces the whole item, as `clusterSync` does. `Load` refuses when something was gossiped before.
`End` is a crash or a shutdown, with or without the last save.

**Limiter.** `job[n]` is where `ProcessAndRecord` of a node stands: it decides (`Decide`, `MustCopy`), records the sighting
(`Record`), calls the copier (`Skip`, `Store`, `StoreFails`) and records the copy (`Finish`). Gossip, scrubs and the
other replicators come between any two. `Deadlines` are the ages the splayed deadline may have. `lastCopy` is a
history: when the target last stored a message of the identity. A period does not end between the store and its record: the answer is waited for two
seconds at most (`src_to_dest_copier.go:327`), so `Copied` may be that much younger than the copy, and the times of the model, in units of ten
seconds, do not tell the two apart. `SampledEveryInterval` is meant with that precision. Which node handles a message, and whether a failed
one comes back, is left open: any node may handle any message at any time.

**Advisor.** `calls[n]` are the callbacks that were started as goroutines, `queue[n]` is `out`, `out[n]` what the
publisher has in hand. `Handle` is a sighting with the callbacks it starts, `Maintain` a scrub with its. `newAdvisory`
is `Enqueue` or `Overflow`. `Enqueue` puts the advisory into the queue and marks the timeout in one step; the code takes the tracker's mutex in between
(`advisor.go:217-219`), which `saveState` holds while it writes the file (`idtrack.go:355-399`). The model thus takes a write of the file to be
shorter than the ten seconds between scrubs: were it longer, a scrub could fall in between and tell of the same silence again. A publish ends with `Published`, is tried again after `Unanswered`, which may have stored it, and
is lost with `GiveUp`. There is one replicator: the others, which lead while it is paused, are `Hear` (they saw the
identity and told of its return if they had to) and `Overhear` (they told of its silence). `view` is the last advisory
consumers got about an identity, `told` says that a timeout was queued in this silence, and `missed` that an advisory
was lost or overtaken: by a full queue, by the last try, while paused, by the end of the process, or by one of the two races
described below.

## 3. What the runs check

| Run | Shows | Instance |
|---|---|---|
| `election` | `TypeOK`, `ActiveLeads`, `OneHolder`, `NoTakeover`, `WinsAlternate` | 2 nodes, 7 revisions, one late request, every event at any time |
| `limiter` | `CopiesAreReal`, `SampledEveryInterval`, `SamplingSettles`, `LimiterTypeOK` | 2 nodes, one with a state file, 1 identity, interval 2 with deadlines 0 and 1, failing stores and disks, one gossip on its way |
| `advisor` | `ViewCorrect`, `OnceASilence`, `SilenceTold`, `AdvisorTypeOK` | 1 elected node, 1 identity, interval 3 and warning after 1, queue of 1, 2 tries, failing publishes and disks |
| `election_timed` | `CalmOneLeads`, `OnlyFaultsDepose`, `DeposedStandsDown`, `LeadershipSettles`, `TimedTypeOK` | 2 nodes, two faults; jittered waits 1 or 3, then 2 or 4, answers within 1 or, as a fault, 4, pause 1, TTL 8 |
| `source_pair` | `TypeOK`, `NothingLost`, `Promise` | 2 nodes, 2 messages of which one may get older than `start_delta`, `ephemeral` (which only adds behaviours), all faults |
| `source_live` | `EverythingHandled`, `OrderPreserved` | 2 nodes, 2 messages, anything may be dropped |
| `target_hand_over` | `NoGaps`, `Promise` | 2 nodes, 3 messages, overlapping leaders, crashes, timeouts beyond the duplicate window, drops the code can detect |
| `target_all_faults` | `TypeOK`, `StoodDown` | 1 node, 3 messages, `start_delta` (which includes what `start_at_end` does), channel of one, one message without a body, all faults |
| `target_lone` | `OnceInOrder`, `EverythingStored` | 1 node, 4 messages, lost consumers, timeouts beyond the duplicate window, restarts, wins and losses |

Why the bounds are enough to be interesting: two nodes show every pairwise race, and
no action of these protocols involves three; two messages are enough for one to be overtaken
or copied twice, three for one to be lost between two others, three or four for a stale consumer sequence to look like a
new one (`target_repaired` needs four). Channels of one to three messages are full in
all runs. In `limiter` one identity is enough as
identities share only the table, and one gossip on its way already arrives late, early, to one node or none, and
behind a newer sighting; with one size `SizeJumped` holds for the first message only, so the size trigger is in
the theorems and not in the run. In `advisor` a queue of one place is full whenever two callbacks run, and two tries are one
answer lost and one given up; the safety properties also pass with a queue of two. The interval is large enough for
an item to be warned about, to recover and to expire. The timed runs have the first waits of `FiveSec`, the policy of both callers, in units of 250ms
(250..749ms and 375..1124ms after jitter); the client's timeout of five seconds and the TTL of ten are scaled down together, as what matters is that an answer may take
longer than a campaign interval and the pause, and that a leader may fail twice within a TTL. Two faults are enough to depose a
leader and make its successor fail. Bounds that exist only for TLC are `MaxSeq`,
`MaxAged`, `QueueCap` (in the copiers), `MaxPulls`, `GossipCap`, `MaxAge`, `MaxTries` (which is the last index of the policy, where
`Duration` saturates), `MaxLate` and `MaxFaults`; the theorems hold for all of
their values. Each property of a passing run is also shown to be broken by a plausible bug: the
definitions marked *Mutant* beside the action they change.

**Fairness.** In `ElectionTimed` time passes and timers fire (weak fairness of `Tick` and of the
steps a node takes when they are due), the bucket applies its TTL, and a process that has
shut down ends and is started again by its supervisor. In the copiers a select picks every
case that is ready again and again (Go chooses at random, hence strong fairness of the
cases), a request that is repeated for ever is answered at some time and a delivery that is
repeated for ever arrives, since both are retried on a connection that reconnects for ever.
In `Advisor` the maintainer, callbacks and publisher are goroutines that run when they can, and time passes (`AdvisorFairness`): a
publish is never assumed to succeed. `SamplingSettles` needs no fairness: it says that
what it excludes does not happen again and again.
No fault is ever required to happen or to stop, and nothing is assumed of the election but
what the property's premise says (one node is the leader from some time on).
`EverythingStored` is checked without message loss: see the hazard on the tail
of a burst in PROJECT.json.

**Where the code and its documentation disagree.** These runs expect a violation.

| Run | Property | What happens |
|---|---|---|
| `election_two_leaders` | `AtMostOneLeads` | with the jittered backoff, the new leader may be told before the old one campaigns again |
| `source_disorder` | `OrderPreserved` | a paused replicator stores its old message after the other stored later ones |
| `target_repaired` | `NoGaps` | a consumer recreated on a channel that still holds the old one's messages |

More that the models show, without a run of their own:

* A message with headers and an empty body is taken for a status message whatever its `Status`
  (`target_initiated_copier.go:213`) and never copied: give `target_repaired` a nonempty `HeadersOnly` and no faults, and
  `NoGaps` fails.
* A leader that is shut down is never told of its loss: `stop()` (`election.go:270`) has left the leader state before
  `IsLeader()` is asked (line 254). A node in `pc` `"done"` may be `active`; nothing depends on it, as everything ends with the
  same context.
* An identity seen again after the interval and before the scrub that would expire it is neither recovered nor new
  (`idtrack.go:211`): if consumers were told of its silence, they are never told of its return. `TooLate` in `Advisor`; without
  it in `missed`, `ViewCorrect` fails.
* A callback that tells of a silence may be queued behind the return it knows nothing of, or after it (`Overtaken`).
* A paused advisor marks a timeout and drops it (`advisor.go:182`, `219`). The others have the identity in their own tables, so
  they tell of it if they are up; the node itself only tells of the expire. `SilenceTold` holds because of the expire.
* Without a `state_store` `saveState` returns before the scrub (`idtrack.go:359`): no silence is ever advised and nothing
  is removed from the table. `SilenceTold` is about replicators with one.
* A message whose size jumped, and whose copy fails, is redelivered with its size already recorded (`limiter.go:156`) and is then left out
  if the identity was copied within the interval.

The same instances with one constant changed show three more gaps, which the hazards list: with `Faults = {"drop"}` the
first message of a new consumer is lost unnoticed (`lastCSeq` is 0); with `{"rewin"}` messages are dropped while
paused and the node wins again before its loop served the loss; with `{"api"}` a consumer is forgotten while its
subscription still delivers. And the order of copies is not kept by the target copier either: a store
loop never looks at `paused` and outlives the leadership. The store loop does not end after the five attempts its
comment announces (line 271): `backoff.For` ignores what the error says. So an outage of the target longer than its duplicate window may leave the message
in it twice (`WindowPasses`), and `OnceInOrder` says so. A `start_delta` counts from each creation of the consumer, not from the first: a
source copier that was down for longer than the delta may lose what it did not copy before.

The trace of `target_repaired`, as it takes the longest: message 1 is delivered with consumer sequence 1 and
message 2 with 2; before the loop takes 2, the server loses the consumer; the health check
recreates it at `resumeSeq` and zeroes `lastCSeq`, but message 2 is still in the
channel. It sets `lastCSeq` to 2. The new consumer's numbers start from 1 again, are refused as a gap
and a reset is requested; until the loop serves it, the new consumer's third message
arrives with number 3, which follows 2: it is stored, `resumeSeq` moves behind it, and
the ones refused are never asked for again.

## 4. What is proved

For any set of nodes, any bounds and any behaviour of the surroundings the model admits:

| Theorem | Statement |
|---|---|
| `ElectionProof!TypeCorrect`, `ActiveNodesLead`, `OneHolderAlways`, `WinsAlternateAlways`, `NobodyTakesOver` | `Spec => []TypeOK`, `[]ActiveLeads`, `[]OneHolder`, `WinsAlternate`, `NoTakeover` |
| `ElectionTimedProof!ImplementsElection`, `TimersTyped` | `TSpec => Spec` (so the theorems above hold with time), `[]TimedTypeOK` |
| `ElectionTimedProof!OneLeadsInCalm`, `OnlyFaultsEnd` | under `LeadersFitTTL`: `[]CalmOneLeads`, `OnlyFaultsDepose` |
| `ElectionTimedProof!OverlapIsBrief` | `DeposedStandsDown`, for every timing |
| `SourceCopierProof!TypeCorrect` | `[]TypeOK`, with every start option |
| `SourceCopierProof!NothingIsLost`, `ImplementsReplication` | without `start_at_end`, and but for what is older than a `start_delta`: `[]NothingLost`, `Promise` |
| `SourceCopierProof!OrderIsPreserved` | under `Undisturbed`: `OrderPreserved` |
| `TargetCopierProof!TypeCorrect`, `StandsDown` | `[]TypeOK` and `[]StoodDown`, under all faults |
| `LimiterProof!TypeCorrect`, `CopiesTrue`, `Sampling` | `[]LimiterTypeOK`, `[]CopiesAreReal`, `SampledEveryInterval` |
| `AdvisorProof!TypeCorrect`, `ViewTrue`, `TimeoutsOnce` | `[]AdvisorTypeOK`, `[]ViewCorrect`, `OnceASilence` |
| `TargetCopierProof!NeverAGap`, `ImplementsReplication` | under `Covered`: `[]NoGaps`, `Promise` |
| `TargetCopierProof!WritesOnceInOrder` | under `Lone`: `OnceInOrder` |

`Covered` excludes the conditions under which the runs above show a gap: messages without a
body, `start_at_end` and `start_delta` (which promise no position while the target is empty) and the faults `drop`, `consumer`, `api`, `purge`
and `rewin`. It keeps `dropLater`, `consumerIdle`, `timeout`, `window`, `crash`, `late` (which the run of these properties leaves out for its size) and overlapping leaders. `Lone` is `Covered`
with one replicator, the whole stream (`StartSequence = 1`) and no `late` request of a process that is gone, which would store its message again, perhaps behind later ones.

*Election.* `TypeOK` alone does not give the others. The inductive invariant adds `Distinct` (no two nodes know
the same revision as their own last write, since a write takes a revision nobody refers to) and `Phases` (in `update`
and `won` a node is the leader, in `create` a candidate; a leader has a revision; while `notifyNext` is
set or the announcement is under way, `wonCb` has not run). With them a leader's update expects a revision only it
has, so it overwrites nobody's key (`NoTakeover`), `Won` finds `active` false (`WinsAlternate`), and two leaders never
both hold the key (`OneHolder`, which is `Distinct` seen from the bucket).

*Election with time.* Each timed step is a step of `Election` or leaves its variables alone, so the invariant of `Election`
is there to use; `TimedInv` adds where a campaign stands in its loop (`Loop`) and that requests and the pause do not outlast their
bounds (`Paced`). Two invariants follow:

* `CalmInv`, for `CalmOneLeads` and `OnlyFaultsDepose`: while there was no fault, no request takes longer than `delay` (`Prompt`), a leader owns the key
  (`OwnsKey`), and its next update reaches the bucket before the TTL (`InTime`). Two leaders would own the same key with the same
  revision, which `Distinct` excludes.
* `IntervalInv`, for `DeposedStandsDown`: the ticker of a leader never shows more than the longest wait, so `EndsIn` starts at one
  interval and two timeouts of the client at most; no step makes it longer, time makes it shorter, and a write takes a
  revision nobody refers to, so the key does not come back. This needs no hypothesis: it says how long the two leaders of
  `election_two_leaders` can overlap.

`LeadersFitTTL` says that from one write to the next, with two requests, the pause and the longest wait of a leader between them, the key is younger than the TTL. It is what the
instance has and cannot be dropped: with a wait beyond the TTL TLC finds a leadership lost, and two leaders, without a fault. The code does not enforce it, as the policy and the
TTL of the bucket are configured apart. Once something went wrong nothing keeps two leaders apart: not the 200ms pause (`election.go:180`), as an answer may take the
client's timeout, and not the jittered interval, as `election_two_leaders` shows.

*Source copier.* `NothingLost` is about the consumer; the invariant `Flow` says of every place a sequence can be (the
pending message, a node's `resumeSeq`, the message in hand, the channel, a late request) that everything before it
was handled. That is what makes it harmless that any node may recreate the consumer from its own `resumeSeq`, and that
a late request arrives at any time. Handled here means `Settled`: with `start_delta` a consumer made by a node without a `resumeSeq` starts behind what got
older than the delta, and at no message younger than that which is not handled. `ImplementsReplication` follows step by step: a message that is stored or skipped
has its predecessors handled, so the step is `Handle`, or a repeated copy, which stutters.

`OrderPreserved`, that every copy and not only the first follows the order, is the promise of the repository's README that `source_disorder`
refutes. `OrderIsPreserved` says when it is true, with any number of replicators, lost answers and acknowledgements, restarts, wins and losses: no
`ephemeral`, the consumer is not lost, no request to the target arrives after it was given up, and the AckWait outlasts whoever has the message, or
there is a single replicator (`Undisturbed`). TLC finds a violation when any one of these is given up: a lost consumer is recreated
behind a message that still waits in the channel, which happens to one replicator too; an ephemeral one is recreated by each node that wins.
The invariant `OrderInv` says that the messages in each channel, the one in hand first, do not go down, start at the target's last and
end at the consumer's newest (`Ordered`), that the consumer is ahead of the target (`Ahead`), and, when the AckWait is long enough, that
only one node has a message, and it is the pending one (`OneCopy`).

*Target copier.* `NoGaps` needs the chain from the consumer to the target, per node: the messages in the channel are of
the node's present consumer, so stream and consumer sequences differ by a constant (`QueueInv`, with `Base`); what
comes before the start of that consumer is stored (`ConsumerInv`); with a `lastCSeq`, `resumeSeq` is the stream
sequence that follows it (`FollowInv`); without one, the first message of the consumer is still to come (`FirstInv`);
the message in hand and `resumeSeq` have all their predecessors stored (`HandInv`, `ResumeInv`). So a message whose consumer
sequence fits has its predecessors in the target. `StoodDown` is part of the invariant as well: a node that wins again
starts without a consumer. `StoodDown` itself needs only the types, whatever fails. For a replicator that is alone, `LoneInv` says
that the position is exact and not only safe: between two messages `resumeSeq` is right behind the last message of the target,
unless the node can create no consumer before it has looked there (`Blank`), and the message in hand is the next one
until it is stored, and from then on is the last one of the target (`TurnInv`), also when an attempt was stored and not answered. So an attempt beyond the
duplicate window of the target stores the message directly behind itself, and nothing else is ever written twice.

*Limiter.* `CopiesAreReal` is inductive but for the moment between the store and its record: `StoredNow` says that a node whose
`job` is `stored` has just stored it, so `RecordCopied` may say "now". Gossip, files and sightings only carry copy times
that were real when they were made, and all get older together. `Sampling` follows: a message is left out only if the item is tracked
and was copied after the deadline, which is younger than the interval. The proof needs `Tick` not to pass between a store and its record.

*Advisor.* `ViewCorrect` speaks of the moment when nothing is pending; the invariant (`ViewInv`) says of every identity the node knows to
live, or will know when it reads its file (`Fresh`), how what is pending will end: no callback tells of its silence, every timeout
or expire in the queue or in the publisher's hand is followed by a return, and so is the one consumers got last, unless the publisher has the
return in hand and has not stored it (`Settles`). It needs `FileInv` (the file knows of no later sighting than the table, so a
restart makes nobody fresher) and `UpInv` (nothing runs before the state is loaded). `TimeoutsOnce` rests on `ToldInv`: what was told is
marked as advised and no other timeout of it is under way. Assumed is that there is one replicator with advisories configured.

Only model-checked: `LeadershipSettles`, `EverythingHandled`, `EverythingStored`, `SamplingSettles` and `SilenceTold`, as
liveness is outside of what TLAPS 1.4.5 proves. Every invariant and every action property of the passing runs has its theorem.

## 5. Not modelled, and the plan

Not modelled in the components above: `election.Stop()` (nothing calls it; it would block on its own mutex) and a
failing `configure()`; failure of the source copier to subscribe at start-up; messages whose metadata does
not parse (they have no JetStream reply subject and do not come from a consumer); a target
with messages of another origin, where `getStartSequence` fails at each health check and nothing is copied; subjects
and the content of headers; metrics and logging.

Of the tracker, limiter and advisor: how the value of a message is read from a field, header or token (a message without one is
copied and leaves the tracker alone), the text of an advisory, clocks of different hosts that disagree, and more
than one replicator with an advisor at a time.

Components without a module: the heartbeat (a publish per tick unless a flag of its own election says paused: there is no
state to relate), configuration, connection set-up, command line and metrics (parsing, I/O and counters). The JavaScript in the
repository belongs to the documentation's vendored Hugo theme and has no part in the program, which is written in Go; it is
not modelled.

What could follow: `Election` composed with the copiers in place of their free `Won` and `Lost`; several advisors over gossiping
trackers in place of `Hear` and `Overhear`; the start options and the backoff policies as pure operators.
