---------------------------- MODULE TargetCopier ----------------------------
(***************************************************************************)
(* The target-initiated copier (replicator/target_initiated_copier.go):    *)
(* each leader creates an ephemeral push consumer of its own, without      *)
(* acknowledgements, that feeds a channel; it detects gaps by the          *)
(* consumer's sequence numbers, and finds where to resume by reading the   *)
(* last message of the target.                                             *)
(*                                                                         *)
(* A node is one goroutine in the select loop of copyMessages; what runs    *)
(* next to it are the callbacks of the election, the server and the other  *)
(* nodes.  A ready select picks any ready case.                            *)
(***************************************************************************)
EXTENDS Integers, Sequences

CONSTANTS
  Nodes,          \* the replicators of the stream
  MaxSeq,         \* bound on the sequences of the source
  HeadersOnly,    \* the messages of the source with headers and no body
  StartSequence,  \* config start_sequence; 1 stands for the whole stream
  StartOption,    \* which start option the config uses, see Configured
  Electing,       \* config leader_election_name is set
  QueueCap,       \* bound on the messages waiting in a node's channel
  Faults          \* which faults of the surroundings may happen

ASSUME TargetCopierAssumption ==
  /\ MaxSeq \in Nat /\ QueueCap \in Nat
  /\ StartSequence \in Nat \ {0}
  /\ HeadersOnly \subseteq 1 .. MaxSeq
  /\ StartOption \in {"sequence", "delta", "end"} /\ Electing \in BOOLEAN
  /\ Faults \subseteq {"drop", "dropLater", "consumer", "consumerIdle", "api",
                       "timeout", "window", "crash", "late", "purge", "rewin",
                       "twoLeaders"}

None == 0   \* no sequence: the servers number from 1

VARIABLES
  srcLast,     \* last sequence of the source stream
  stored,      \* sequences stored in the target at least once
  tgtLast,     \* sequence of the last message in the target, None if it is empty
  purgedAt,    \* after a purge: where the target's last time falls in the source
  late,        \* sequences of requests under way that nobody waits for
  exists,      \* the server has the consumer the node's subscription belongs to
  next,        \* the next stream sequence of that consumer
  cseq,        \* its consumer sequence: the messages it has sent so far
  msgs,        \* targetInitiatedCopier.msgs
  pc,          \* where the select loop stands
  cur,         \* the message the handler is storing
  sent,        \* what the target knows of the message id the handler gave cur
  handle,      \* source.consumer is not nil
  resumeSeq,   \* source.resumeSeq
  resumeTime,  \* source.resumeTime, as a sequence of the source
  lastCSeq,    \* targetInitiatedCopier.lastCSeq
  paused,      \* Stream.paused
  lostCh,      \* a token waits in Stream.leadershipLost
  wonCh,       \* a token waits in Stream.leadershipWon
  resetCh      \* a token waits in targetInitiatedCopier.reset

target == <<stored, tgtLast, purgedAt, late>>
consumer == <<exists, next, cseq>>
handler == <<cur, sent>>
source == <<handle, resumeSeq, resumeTime, lastCSeq>>
signals == <<paused, lostCh, wonCh, resetCh>>
vars == <<srcLast, target, consumer, msgs, pc, handler, source, signals>>

NoMsg == [seq |-> None, cseq |-> 0]

Init ==
  /\ srcLast = 0
  /\ stored = {} /\ tgtLast = None /\ purgedAt = None /\ late = {}
  /\ exists = [n \in Nodes |-> FALSE]
  /\ next = [n \in Nodes |-> None]
  /\ cseq = [n \in Nodes |-> 0]
  /\ msgs = [n \in Nodes |-> << >>]
  /\ pc = [n \in Nodes |-> "idle"]
  /\ cur = [n \in Nodes |-> NoMsg]
  /\ sent = [n \in Nodes |-> "never"]
  /\ handle = [n \in Nodes |-> FALSE]
  /\ resumeSeq = [n \in Nodes |-> None]
  /\ resumeTime = [n \in Nodes |-> None]
  /\ lastCSeq = [n \in Nodes |-> 0]
  /\ paused = [n \in Nodes |-> Electing]
  /\ lostCh = [n \in Nodes |-> FALSE]
  /\ wonCh = [n \in Nodes |-> FALSE]
  /\ resetCh = [n \in Nodes |-> FALSE]

-----------------------------------------------------------------------------
(* The source stream and the ephemeral consumers.                          *)

Publish ==
  /\ srcLast < MaxSeq
  /\ srcLast' = srcLast + 1
  /\ UNCHANGED <<target, consumer, msgs, pc, handler, source, signals>>

\* A message may be lost between the consumer and the channel: at any time
\* ("drop"), or only while the node has a consumer sequence to compare with.
MayDrop(n) ==
  "drop" \in Faults \/ ("dropLater" \in Faults /\ lastCSeq[n] # 0)

Deliver(n) ==
  /\ exists[n] /\ next[n] <= srcLast
  /\ next' = [next EXCEPT ![n] = @ + 1]
  /\ cseq' = [cseq EXCEPT ![n] = @ + 1]
  /\ \/ /\ Len(msgs[n]) < QueueCap
        /\ msgs' = [msgs EXCEPT ![n] =
                      Append(@, [seq |-> next[n], cseq |-> cseq[n] + 1])]
     \/ MayDrop(n) /\ UNCHANGED msgs
  /\ UNCHANGED <<srcLast, target, exists, pc, handler, source, signals>>

NoConsumer(n) ==
  /\ exists' = [exists EXCEPT ![n] = FALSE]
  /\ next' = [next EXCEPT ![n] = None]
  /\ cseq' = [cseq EXCEPT ![n] = 0]

\* The server loses the consumer, which it keeps in memory on one server: at any
\* time ("consumer"), or only while none of its messages waits in the channel.
ConsumerLost(n) ==
  /\ exists[n]
  /\ "consumer" \in Faults \/ ("consumerIdle" \in Faults /\ msgs[n] = << >>)
  /\ NoConsumer(n)
  /\ UNCHANGED <<srcLast, target, msgs, pc, handler, source, signals>>

-----------------------------------------------------------------------------
(* The target stream.                                                      *)

StoreIn(s) ==
  /\ stored' = stored \cup {s} /\ tgtLast' = s /\ purgedAt' = None

\* A request of a process that is gone reaches the target.
StoredLate ==
  \E s \in late :
    /\ StoreIn(s) /\ late' = late \ {s}
    /\ UNCHANGED <<srcLast, consumer, msgs, pc, handler, source, signals>>

\* The target is purged; its last time is that of the last message it stored,
\* some time after that message was published and before now.
Purge ==
  /\ "purge" \in Faults /\ tgtLast # None
  /\ \E at \in tgtLast + 1 .. srcLast + 1 : purgedAt' = at
  /\ tgtLast' = None
  /\ UNCHANGED <<srcLast, stored, late, consumer, msgs, pc, handler, source,
                 signals>>

-----------------------------------------------------------------------------
(* The callbacks of the election (replicator.go:213-242).                  *)

\* Leaders may overlap ("twoLeaders"), and a node may win again before its loop
\* saw that it lost ("rewin").
Won(n) ==
  /\ Electing /\ paused[n]
  /\ (\E m \in Nodes : ~paused[m]) => "twoLeaders" \in Faults
  /\ lostCh[n] => "rewin" \in Faults
  /\ paused' = [paused EXCEPT ![n] = FALSE]
  /\ wonCh' = [wonCh EXCEPT ![n] = TRUE]
  /\ UNCHANGED <<srcLast, target, consumer, msgs, pc, handler, source, lostCh,
                 resetCh>>

\* lostCb also runs when a win was never announced.
Lost(n) ==
  /\ Electing
  /\ paused' = [paused EXCEPT ![n] = TRUE]
  /\ lostCh' = [lostCh EXCEPT ![n] = TRUE]
  /\ UNCHANGED <<srcLast, target, consumer, msgs, pc, handler, source, wonCh,
                 resetCh>>

-----------------------------------------------------------------------------
(* The select loop.                                                        *)

\* resetSubscription: unsubscribe, forget and delete the consumer, new channel.
ResetSubscription(n) ==
  /\ handle' = [handle EXCEPT ![n] = FALSE]
  /\ msgs' = [msgs EXCEPT ![n] = << >>]
  /\ NoConsumer(n)

\* Mutant: a node that lost keeps its subscription.
LostSeenKeeps(n) ==
  /\ pc[n] = "idle" /\ lostCh[n]
  /\ lostCh' = [lostCh EXCEPT ![n] = FALSE]
  /\ UNCHANGED <<srcLast, target, consumer, msgs, pc, handler, source, paused,
                 wonCh, resetCh>>

LostSeen(n) ==
  /\ pc[n] = "idle" /\ lostCh[n]
  /\ lostCh' = [lostCh EXCEPT ![n] = FALSE]
  /\ ResetSubscription(n)
  /\ UNCHANGED <<srcLast, target, pc, handler, resumeSeq, resumeTime, lastCSeq,
                 paused, wonCh, resetCh>>

\* runHealthCheck: nothing while paused.
WonSeen(n) ==
  /\ pc[n] = "idle" /\ wonCh[n]
  /\ wonCh' = [wonCh EXCEPT ![n] = FALSE]
  /\ pc' = [pc EXCEPT ![n] = IF paused[n] THEN "idle" ELSE "check"]
  /\ UNCHANGED <<srcLast, target, consumer, msgs, handler, source, paused,
                 lostCh, resetCh>>

HealthTick(n) ==
  /\ pc[n] = "idle" /\ ~paused[n]
  /\ pc' = [pc EXCEPT ![n] = "check"]
  /\ UNCHANGED <<srcLast, target, consumer, msgs, handler, source, signals>>

\* Mutant: off by one behind the last message of the target.
FindStartPast(n) ==
  /\ pc[n] = "check" /\ ~handle[n]
  /\ resumeSeq' = [resumeSeq EXCEPT ![n] =
                     IF tgtLast = None THEN None ELSE tgtLast + 2]
  /\ resumeTime' = [resumeTime EXCEPT ![n] =
                     IF tgtLast = None THEN purgedAt ELSE None]
  /\ pc' = [pc EXCEPT ![n] = "create"]
  /\ UNCHANGED <<srcLast, target, consumer, msgs, handler, handle, lastCSeq,
                 signals>>

\* healthCheckSource without a consumer: getStartSequence reads the target.
FindStart(n) ==
  /\ pc[n] = "check" /\ ~handle[n]
  /\ resumeSeq' = [resumeSeq EXCEPT ![n] =
                     IF tgtLast = None THEN None ELSE tgtLast + 1]
  /\ resumeTime' = [resumeTime EXCEPT ![n] =
                     IF tgtLast = None THEN purgedAt ELSE None]
  /\ pc' = [pc EXCEPT ![n] = "create"]
  /\ UNCHANGED <<srcLast, target, consumer, msgs, handler, handle, lastCSeq,
                 signals>>

\* Mutant: a consumer that is gone is not noticed.
LoadConsumerBlindly(n) ==
  /\ pc[n] = "check" /\ handle[n]
  /\ pc' = [pc EXCEPT ![n] = "idle"]
  /\ UNCHANGED <<srcLast, target, consumer, msgs, handler, source, signals>>

\* healthCheckSource with one: LoadConsumer finds it, or finds it gone.
LoadConsumer(n) ==
  /\ pc[n] = "check" /\ handle[n]
  /\ pc' = [pc EXCEPT ![n] = IF exists[n] THEN "idle" ELSE "create"]
  /\ UNCHANGED <<srcLast, target, consumer, msgs, handler, source, signals>>

\* Any other error ends the check; LoadConsumer then returned a nil consumer.
CheckFails(n) ==
  /\ "api" \in Faults /\ pc[n] = "check"
  /\ pc' = [pc EXCEPT ![n] = "idle"]
  /\ handle' = [handle EXCEPT ![n] = FALSE]
  /\ UNCHANGED <<srcLast, target, consumer, msgs, handler, resumeSeq,
                 resumeTime, lastCSeq, signals>>

\* Where the config lets a consumer start: start_sequence (start_time names one
\* too, no option is the first), the end of the source, or what is not older than
\* start_delta, counted from the time of the creation: any sequence.
Configured ==
  CASE StartOption = "sequence" -> {StartSequence}
    [] StartOption = "end" -> {srcLast + 1}
    [] StartOption = "delta" -> 1 .. srcLast + 1

\* Where recreateEphemeraLocked starts the consumer.
Starts(n) ==
  CASE resumeSeq[n] > 0 -> {resumeSeq[n]}
    [] resumeSeq[n] = 0 /\ resumeTime[n] # None -> {resumeTime[n]}
    [] OTHER -> Configured

NewConsumer(n) ==
  /\ exists' = [exists EXCEPT ![n] = TRUE]
  /\ \E s \in Starts(n) : next' = [next EXCEPT ![n] = s]
  /\ cseq' = [cseq EXCEPT ![n] = 0]

\* recreateEphemeraLocked: a new subscription on the same channel replaces the
\* old one.  When the request fails the consumer may still have been created.
\* A health check then sets lastCSeq back if it got so far, a reset does not.
Recreate(n) ==
  /\ pc[n] \in {"create", "recreate"}
  /\ \/ /\ NewConsumer(n)
        /\ handle' = [handle EXCEPT ![n] = TRUE]
        /\ lastCSeq' = [lastCSeq EXCEPT ![n] = 0]
     \/ /\ "api" \in Faults
        /\ NewConsumer(n) \/ NoConsumer(n)
        /\ handle' = [handle EXCEPT ![n] = FALSE]
        /\ \/ UNCHANGED lastCSeq
           \/ pc[n] = "create" /\ lastCSeq' = [lastCSeq EXCEPT ![n] = 0]
  /\ pc' = [pc EXCEPT ![n] = "idle"]
  /\ UNCHANGED <<srcLast, target, msgs, handler, resumeSeq, resumeTime, signals>>

\* Mutant: a reset does not look at paused.
ResetSeenPaused(n) ==
  /\ pc[n] = "idle" /\ resetCh[n]
  /\ resetCh' = [resetCh EXCEPT ![n] = FALSE]
  /\ ResetSubscription(n) /\ pc' = [pc EXCEPT ![n] = "recreate"]
  /\ UNCHANGED <<srcLast, target, handler, resumeSeq, resumeTime, lastCSeq,
                 paused, lostCh, wonCh>>

ResetSeen(n) ==
  /\ pc[n] = "idle" /\ resetCh[n]
  /\ resetCh' = [resetCh EXCEPT ![n] = FALSE]
  /\ IF paused[n]
     THEN UNCHANGED <<pc, handle, msgs, consumer>>
     ELSE ResetSubscription(n) /\ pc' = [pc EXCEPT ![n] = "recreate"]
  /\ UNCHANGED <<srcLast, target, handler, resumeSeq, resumeTime, lastCSeq,
                 paused, lostCh, wonCh>>

\* Mutant: no gap is ever seen.
GapUnseen(n, m) == FALSE

\* The consumer sequence does not follow the last one handled, nor is this the
\* first message of a consumer that was reset to the right place.
Gap(n, m) ==
  /\ lastCSeq[n] # 0 /\ m.cseq # lastCSeq[n] + 1
  /\ ~(m.cseq = 1 /\ m.seq = resumeSeq[n])

\* A message is taken from the channel: dropped while paused or taken for a status
\* message, refused with a request for a reset at a gap, else handed to the store
\* loop.
Take(n) ==
  LET m == Head(msgs[n]) IN
  /\ pc[n] = "idle" /\ msgs[n] # << >>
  /\ msgs' = [msgs EXCEPT ![n] = Tail(@)]
  /\ \/ /\ paused[n] \/ m.seq \in HeadersOnly
        /\ UNCHANGED <<pc, cur, lastCSeq, resetCh>>
     \/ /\ ~paused[n] /\ m.seq \notin HeadersOnly /\ Gap(n, m)
        /\ resetCh' = [resetCh EXCEPT ![n] = TRUE]
        /\ UNCHANGED <<pc, cur, lastCSeq>>
     \/ /\ ~paused[n] /\ m.seq \notin HeadersOnly /\ ~Gap(n, m)
        /\ pc' = [pc EXCEPT ![n] = "store"]
        /\ cur' = [cur EXCEPT ![n] = m]
        /\ lastCSeq' = [lastCSeq EXCEPT ![n] =
                           IF @ # 0 /\ m.cseq # @ + 1 THEN 1 ELSE @]
        /\ UNCHANGED resetCh
  /\ UNCHANGED <<srcLast, target, consumer, sent, handle, resumeSeq,
                 resumeTime, paused, lostCh, wonCh>>

\* An attempt is stored and not answered in time.  backoff.For tries again, for ever:
\* an error of the callback never ends it, not even "maximum attempts reached", so
\* an attempt that stores nothing changes nothing.
Unanswered(n) ==
  /\ "timeout" \in Faults /\ pc[n] = "store"
  /\ sent[n] # "known" /\ sent' = [sent EXCEPT ![n] = "known"]
  /\ StoreIn(cur[n].seq)
  /\ UNCHANGED <<srcLast, late, consumer, msgs, pc, cur, source, signals>>

\* The attempts go on beyond the duplicate window of the target, which forgets the
\* message id.
WindowPasses(n) ==
  /\ "window" \in Faults /\ pc[n] = "store"
  /\ sent[n] = "known" /\ sent' = [sent EXCEPT ![n] = "forgotten"]
  /\ UNCHANGED <<srcLast, target, consumer, msgs, pc, cur, source, signals>>

\* Mutant: resume from the message just stored.
StoredNotPassed(n) ==
  /\ pc[n] = "store"
  /\ IF sent[n] = "known" THEN UNCHANGED <<stored, tgtLast, purgedAt>>
     ELSE StoreIn(cur[n].seq)
  /\ resumeSeq' = [resumeSeq EXCEPT ![n] = cur[n].seq]
  /\ lastCSeq' = [lastCSeq EXCEPT ![n] = cur[n].cseq]
  /\ pc' = [pc EXCEPT ![n] = "idle"]
  /\ cur' = [cur EXCEPT ![n] = NoMsg]
  /\ sent' = [sent EXCEPT ![n] = "never"]
  /\ UNCHANGED <<srcLast, late, consumer, msgs, handle, resumeTime, signals>>

\* An attempt succeeds; the target recognises the message id of an earlier one while
\* its duplicate window lasts.
Stored(n) ==
  /\ pc[n] = "store"
  /\ IF sent[n] = "known" THEN UNCHANGED <<stored, tgtLast, purgedAt>>
     ELSE StoreIn(cur[n].seq)
  /\ resumeSeq' = [resumeSeq EXCEPT ![n] = cur[n].seq + 1]
  /\ lastCSeq' = [lastCSeq EXCEPT ![n] = cur[n].cseq]
  /\ pc' = [pc EXCEPT ![n] = "idle"]
  /\ cur' = [cur EXCEPT ![n] = NoMsg]
  /\ sent' = [sent EXCEPT ![n] = "never"]
  /\ UNCHANGED <<srcLast, late, consumer, msgs, handle, resumeTime, signals>>

\* The process ends, or is stopped, and starts again.  The context also ends the
\* store loop, whose last request may still be under way.
Restart(n) ==
  /\ "crash" \in Faults
  /\ \/ UNCHANGED late
     \/ /\ "late" \in Faults /\ pc[n] = "store"
        /\ sent[n] = "known" => "window" \in Faults
        /\ late' = late \cup {cur[n].seq}
  /\ NoConsumer(n)
  /\ msgs' = [msgs EXCEPT ![n] = << >>]
  /\ pc' = [pc EXCEPT ![n] = "idle"]
  /\ cur' = [cur EXCEPT ![n] = NoMsg]
  /\ sent' = [sent EXCEPT ![n] = "never"]
  /\ handle' = [handle EXCEPT ![n] = FALSE]
  /\ resumeSeq' = [resumeSeq EXCEPT ![n] = None]
  /\ resumeTime' = [resumeTime EXCEPT ![n] = None]
  /\ lastCSeq' = [lastCSeq EXCEPT ![n] = 0]
  /\ paused' = [paused EXCEPT ![n] = Electing]
  /\ lostCh' = [lostCh EXCEPT ![n] = FALSE]
  /\ wonCh' = [wonCh EXCEPT ![n] = FALSE]
  /\ resetCh' = [resetCh EXCEPT ![n] = FALSE]
  /\ UNCHANGED <<srcLast, stored, tgtLast, purgedAt>>

Loop(n) ==
  \/ LostSeen(n) \/ WonSeen(n) \/ HealthTick(n) \/ FindStart(n)
  \/ LoadConsumer(n) \/ CheckFails(n) \/ Recreate(n) \/ ResetSeen(n) \/ Take(n)
  \/ Unanswered(n) \/ WindowPasses(n) \/ Stored(n)

Next ==
  \/ Publish \/ StoredLate \/ Purge
  \/ \E n \in Nodes : \/ Loop(n) \/ Restart(n) \/ Won(n) \/ Lost(n)
                      \/ Deliver(n) \/ ConsumerLost(n)

Spec == Init /\ [][Next]_vars

\* The select picks every ready case at some time, a request that is made again and
\* again is answered at some time, and so a consumer that is created again and
\* again delivers at some time.
Fairness ==
  \A n \in Nodes :
    /\ SF_vars(LostSeen(n)) /\ SF_vars(ResetSeen(n)) /\ SF_vars(HealthTick(n))
    /\ SF_vars(Take(n))
    /\ WF_vars(FindStart(n)) /\ WF_vars(LoadConsumer(n))
    /\ SF_vars(Recreate(n) /\ handle'[n])
    /\ SF_vars(Stored(n))
    /\ SF_vars(Deliver(n) /\ msgs' # msgs)

LiveSpec == Spec /\ Fairness

-----------------------------------------------------------------------------
(* Properties.                                                             *)

Seqs == 1 .. MaxSeq
Message == [seq : Seqs, cseq : Nat]

StreamsTyped ==
  /\ srcLast \in 0 .. MaxSeq
  /\ stored \subseteq Seqs /\ late \subseteq Seqs
  /\ tgtLast \in Seqs \cup {None}
  /\ purgedAt \in 0 .. MaxSeq + 1

ConsumersTyped ==
  /\ exists \in [Nodes -> BOOLEAN]
  /\ next \in [Nodes -> Nat]
  /\ cseq \in [Nodes -> Nat]

ChannelsTyped == msgs \in [Nodes -> Seq(Message)]

HandlersTyped ==
  /\ pc \in [Nodes -> {"idle", "check", "create", "recreate", "store"}]
  /\ cur \in [Nodes -> Message \cup {NoMsg}]
  /\ sent \in [Nodes -> {"never", "known", "forgotten"}]

SourcesTyped ==
  /\ handle \in [Nodes -> BOOLEAN]
  /\ resumeSeq \in [Nodes -> 0 .. MaxSeq + 1]
  /\ resumeTime \in [Nodes -> 0 .. MaxSeq + 1]
  /\ lastCSeq \in [Nodes -> Nat]

SignalsTyped ==
  /\ paused \in [Nodes -> BOOLEAN]
  /\ lostCh \in [Nodes -> BOOLEAN]
  /\ wonCh \in [Nodes -> BOOLEAN]
  /\ resetCh \in [Nodes -> BOOLEAN]

TypeOK ==
  /\ StreamsTyped /\ ConsumersTyped /\ ChannelsTyped /\ HandlersTyped
  /\ SourcesTyped /\ SignalsTyped

\* A node that saw its loss and was not told of a new win is out of the way: it
\* has no consumer, no subscription that delivers and no buffered message, and it
\* is not about to create one, whatever health checks, resets and stale tokens
\* were under way when the callback ran.
StoodDown ==
  \A n \in Nodes : paused[n] /\ ~lostCh[n] =>
    /\ ~handle[n] /\ ~exists[n] /\ msgs[n] = << >>
    /\ pc[n] \notin {"check", "create", "recreate", "store"}

\* The copier keeps the promise of Replication: no message is stored before all
\* the messages before it were, so the target never has a gap.
R == INSTANCE Replication WITH First <- StartSequence, handled <- stored

Promise == R!RSpec

\* The target has no gap (the check of target_initiated_copier_test.go:147).
NoGaps == \A s \in stored : StartSequence .. s \subseteq stored

\* A single replicator stores each message once and in order, over crashes, lost
\* consumers, gaps and repeated requests: it always resumes right behind the last
\* message of the target.  Only requests repeated beyond the duplicate window store
\* their message again, and then right behind itself.
Writes(n) == \/ Stored(n) /\ sent[n] # "known"
             \/ Unanswered(n)

InTurn(n) == \/ sent[n] = "never" /\ cur[n].seq = tgtLast + 1
             \/ sent[n] = "forgotten" /\ cur[n].seq = tgtLast

OnceInOrder == [][\A n \in Nodes : Writes(n) => InTurn(n)]_vars

\* When one node is the leader from some time on, all that is published is stored.
EverythingStored ==
  \A n \in Nodes : <>[]~paused[n] =>
    \A s \in StartSequence .. MaxSeq : [](s <= srcLast => <>(s \in stored))
=============================================================================
