---------------------------- MODULE SourceCopier ----------------------------
(***************************************************************************)
(* The source-initiated copier (replicator/src_to_dest_copier.go): the     *)
(* replicators of one stream share a durable pull consumer with explicit    *)
(* acknowledgements and one message outstanding; each takes messages from  *)
(* its channel, stores them in the target with a request, and acknowledges.*)
(*                                                                         *)
(* A message is its sequence.  The leader election is the two callbacks of  *)
(* replicator.go:213-242, which may run in any order on any node: Election  *)
(* says which orders happen, and nothing here depends on there being one    *)
(* leader at a time.                                                       *)
(***************************************************************************)
EXTENDS Integers, Sequences, FiniteSets

CONSTANTS
  Nodes,          \* the replicators
  MaxSeq,         \* bound on the sequences of the source
  StartOption,    \* where a first consumer starts: at a "sequence", at a "delta"
                  \* before its creation, or at the "end"
  StartSequence,  \* config start_sequence or what start_time comes to; 1 stands
                  \* for the whole stream
  MaxAged,        \* bound on the messages that get older than the delta
  Ephemeral,      \* config ephemeral
  Electing,       \* config leader_election_name is set
  Skippable,      \* messages MaxAge or the limiter may skip
  QueueCap,       \* bound on the messages waiting in a node's channel
  MaxPulls,       \* bound on the pull requests of a node at the server
  Faults          \* which faults of the surroundings may happen

ASSUME SourceCopierAssumption ==
  /\ MaxSeq \in Nat /\ MaxAged \in Nat /\ QueueCap \in Nat /\ MaxPulls \in Nat
  /\ StartOption \in {"sequence", "delta", "end"} /\ StartSequence \in Nat \ {0}
  /\ StartOption # "sequence" => StartSequence = 1
  /\ Ephemeral \in BOOLEAN /\ Electing \in BOOLEAN
  /\ Faults \subseteq {"drop", "late", "consumer", "crash", "redeliver"}

None == 0   \* no sequence: the server numbers messages from 1

VARIABLES
  srcLast,    \* last sequence of the source stream
  deltaSeq,   \* its first sequence that is not older than start_delta
  stored,     \* sequences stored in the target at least once
  skipped,    \* sequences skipped by age or by the limiter
  tgtLast,    \* sequence of the message last stored in the target
  late,       \* requests to the target that timed out and are still under way
  exists,     \* the durable consumer exists
  next,       \* the next sequence it delivers for the first time
  pending,    \* the delivered sequence it waits an acknowledgement for, or None
  due,        \* pending may be delivered again: AckWait or the NAK delay is over
  pulls,      \* pull requests of a node the server still holds
  msgs,       \* sourceInitiatedCopier.msgs: the channel of a node
  pc,         \* where the select loop of copyMessages stands
  cur,        \* the message in hand
  resumeSeq,  \* source.resumeSeq
  paused      \* Stream.paused

consumer == <<exists, next, pending, due>>
target == <<stored, skipped, tgtLast, late>>
node == <<pc, cur, resumeSeq, paused>>
vars == <<srcLast, deltaSeq, target, consumer, pulls, msgs, node>>

Handled == stored \cup skipped

Init ==
  /\ srcLast = 0 /\ deltaSeq = 1
  /\ stored = {} /\ skipped = {} /\ tgtLast = None /\ late = {}
  /\ exists = FALSE /\ next = None /\ pending = None /\ due = FALSE
  /\ pulls = [n \in Nodes |-> 0]
  /\ msgs = [n \in Nodes |-> << >>]
  /\ pc = [n \in Nodes |-> "idle"]
  /\ cur = [n \in Nodes |-> None]
  /\ resumeSeq = [n \in Nodes |-> None]
  /\ paused = [n \in Nodes |-> Electing]

-----------------------------------------------------------------------------
(* The source stream and its consumer.                                     *)

Publish ==
  /\ srcLast < MaxSeq
  /\ srcLast' = srcLast + 1
  /\ UNCHANGED <<deltaSeq, target, consumer, pulls, msgs, node>>

\* A message gets older than start_delta.
Ages ==
  /\ StartOption = "delta" /\ deltaSeq <= srcLast /\ deltaSeq <= MaxAged
  /\ deltaSeq' = deltaSeq + 1
  /\ UNCHANGED <<srcLast, target, consumer, pulls, msgs, node>>

\* A pull request is answered: with the pending message when it is due again,
\* else, as MaxAckPending is one, with the next one when nothing is pending.
\* The answer may be lost on its way to the node.
Deliver(n) ==
  /\ exists /\ pulls[n] > 0
  /\ pulls' = [pulls EXCEPT ![n] = @ - 1]
  /\ \/ pending # None /\ due /\ UNCHANGED <<next, pending>>
     \/ /\ pending = None /\ next <= srcLast
        /\ pending' = next /\ next' = next + 1
  /\ due' = FALSE
  /\ \/ /\ Len(msgs[n]) < QueueCap
        /\ msgs' = [msgs EXCEPT ![n] = Append(@, pending')]
     \/ "drop" \in Faults /\ UNCHANGED msgs
  /\ UNCHANGED <<srcLast, deltaSeq, target, exists, node>>

\* The pending message becomes due: the delay of its NAK is over or its AckWait
\* is.  Without "redeliver" an AckWait outlasts every node that has the message.
Redeliver ==
  /\ pending # None /\ ~due
  /\ \/ "redeliver" \in Faults
     \/ \A n \in Nodes : /\ pending \notin {msgs[n][i] : i \in 1 .. Len(msgs[n])}
                         /\ pc[n] # "idle" => cur[n] # pending
  /\ due' = TRUE
  /\ UNCHANGED <<srcLast, deltaSeq, target, exists, next, pending, pulls,
                 msgs, node>>

\* A pull request expires (404, 408: the node ignores the status message).
PullExpires(n) ==
  /\ pulls[n] > 0
  /\ pulls' = [pulls EXCEPT ![n] = @ - 1]
  /\ UNCHANGED <<srcLast, deltaSeq, target, consumer, msgs, node>>

\* A consumer that is gone takes the requests it holds with it.
NoConsumer ==
  /\ exists' = FALSE /\ next' = None /\ pending' = None /\ due' = FALSE
  /\ pulls' = [n \in Nodes |-> 0]

\* The server loses the consumer, or removes it as inactive.
ConsumerLost ==
  /\ "consumer" \in Faults /\ exists
  /\ NoConsumer
  /\ UNCHANGED <<srcLast, deltaSeq, target, msgs, node>>

-----------------------------------------------------------------------------
(* The select loop of one node.                                            *)

\* Mutant: after the first acknowledgement only +NXT asks for messages.
PollAtFirst(n) ==
  /\ pc[n] = "idle" /\ ~paused[n] /\ resumeSeq[n] = None
  /\ exists /\ pulls[n] < MaxPulls
  /\ pulls' = [pulls EXCEPT ![n] = @ + 1]
  /\ UNCHANGED <<srcLast, deltaSeq, target, consumer, msgs, node>>

\* The poll ticker: never while paused.  Nobody hears it without a consumer.
Poll(n) ==
  /\ pc[n] = "idle" /\ ~paused[n]
  /\ exists /\ pulls[n] < MaxPulls
  /\ pulls' = [pulls EXCEPT ![n] = @ + 1]
  /\ UNCHANGED <<srcLast, deltaSeq, target, consumer, msgs, node>>

\* Mutant: a node that acknowledged nothing starts at the end.
StartAtEndAfresh(n) == IF resumeSeq[n] > 0 THEN resumeSeq[n] ELSE srcLast + 1

\* Where a new consumer of the node starts; the delta counts from its creation.
StartAt(n) ==
  CASE resumeSeq[n] > 0 -> resumeSeq[n]
    [] resumeSeq[n] = 0 /\ StartOption = "end" -> srcLast + 1
    [] resumeSeq[n] = 0 /\ StartOption = "delta" -> deltaSeq
    [] OTHER -> StartSequence

\* Mutant: a node that acknowledged nothing starts a consumer of its own.
HealthCheckAnew(n) ==
  /\ pc[n] = "idle" /\ ~paused[n]
  /\ ~exists \/ resumeSeq[n] = 0
  /\ pc' = [pc EXCEPT ![n] = "create"]
  /\ NoConsumer
  /\ UNCHANGED <<srcLast, deltaSeq, target, msgs, cur, resumeSeq, paused>>

\* The health ticker, never while paused: a missing consumer is to be created,
\* and an ephemeral one is first removed as long as the node acknowledged nothing.
HealthCheck(n) ==
  LET force == resumeSeq[n] = 0 /\ Ephemeral IN
  /\ pc[n] = "idle" /\ ~paused[n]
  /\ ~exists \/ force
  /\ pc' = [pc EXCEPT ![n] = "create"]
  /\ NoConsumer
  /\ UNCHANGED <<srcLast, deltaSeq, target, msgs, cur, resumeSeq, paused>>

\* NewConsumerFromDefault: a no-op when another node was faster.
CreateConsumer(n) ==
  /\ pc[n] = "create"
  /\ pc' = [pc EXCEPT ![n] = "idle"]
  /\ IF exists THEN UNCHANGED consumer
     ELSE exists' = TRUE /\ next' = StartAt(n) /\ pending' = None /\ due' = FALSE
  /\ UNCHANGED <<srcLast, deltaSeq, target, pulls, msgs, cur,
                 resumeSeq, paused>>

\* A message is taken from the channel, paused or not.
Take(n) ==
  /\ pc[n] = "idle" /\ msgs[n] # << >>
  /\ cur' = [cur EXCEPT ![n] = Head(msgs[n])]
  /\ msgs' = [msgs EXCEPT ![n] = Tail(@)]
  /\ pc' = [pc EXCEPT ![n] = "handle"]
  /\ UNCHANGED <<srcLast, deltaSeq, target, consumer, pulls, resumeSeq, paused>>

\* handler() finds the message too old, or the limiter decides not to copy it.
Skip(n) ==
  /\ pc[n] = "handle" /\ cur[n] \in Skippable
  /\ skipped' = skipped \cup {cur[n]}
  /\ pc' = [pc EXCEPT ![n] = "ack"]
  /\ UNCHANGED <<srcLast, deltaSeq, stored, tgtLast, late, consumer, pulls, msgs, cur,
                 resumeSeq, paused>>

\* The target stores the message and says so.
Store(n) ==
  /\ pc[n] = "handle"
  /\ stored' = stored \cup {cur[n]} /\ tgtLast' = cur[n]
  /\ pc' = [pc EXCEPT ![n] = "ack"]
  /\ UNCHANGED <<srcLast, deltaSeq, skipped, late, consumer, pulls, msgs, cur, resumeSeq,
                 paused>>

\* Mutant: a message that could not be stored is acknowledged.
StoreFailsAcked(n) ==
  /\ pc[n] = "handle"
  /\ pc' = [pc EXCEPT ![n] = "ack"]
  /\ UNCHANGED <<srcLast, deltaSeq, target, consumer, pulls, msgs, cur,
                 resumeSeq, paused>>

\* The request fails or times out: nothing was stored, or it was and the answer
\* is lost, or it is stored later.  The message is given back with a delay.
StoreFails(n) ==
  /\ pc[n] = "handle"
  /\ \/ UNCHANGED <<stored, tgtLast, late>>
     \/ /\ "drop" \in Faults
        /\ stored' = stored \cup {cur[n]} /\ tgtLast' = cur[n]
        /\ UNCHANGED late
     \/ /\ "late" \in Faults
        /\ late' = late \cup {cur[n]} /\ UNCHANGED <<stored, tgtLast>>
  /\ pc' = [pc EXCEPT ![n] = "idle"]
  /\ cur' = [cur EXCEPT ![n] = None]
  /\ UNCHANGED <<srcLast, deltaSeq, skipped, consumer, pulls, msgs,
                 resumeSeq, paused>>

StoredLate ==
  \E s \in late :
    /\ late' = late \ {s}
    /\ stored' = stored \cup {s} /\ tgtLast' = s
    /\ UNCHANGED <<srcLast, deltaSeq, skipped, consumer, pulls, msgs, node>>

\* The consumer gets the acknowledgement of the message in hand; +NXT also asks
\* for the next one.
Acked(n) ==
  /\ IF exists /\ pending = cur[n]
     THEN pending' = None /\ due' = FALSE
     ELSE UNCHANGED <<pending, due>>
  /\ IF exists /\ ~paused[n] /\ pulls[n] < MaxPulls
     THEN pulls' = [pulls EXCEPT ![n] = @ + 1]
     ELSE UNCHANGED pulls

NotAcked == "drop" \in Faults /\ UNCHANGED <<pending, due, pulls>>

\* Mutant: resume behind the acknowledged message, which may be the last one.
ResumeBehind(n) == resumeSeq' = [resumeSeq EXCEPT ![n] = cur[n] + 1]

Resume(n) == resumeSeq' = [resumeSeq EXCEPT ![n] = cur[n]]

\* AckSync while paused: an error when the answer is missing.  Else the one-way
\* +NXT: an error when it cannot be sent, none when it is lost on its way.
Ack(n) ==
  /\ pc[n] = "ack"
  /\ pc' = [pc EXCEPT ![n] = "idle"]
  /\ cur' = [cur EXCEPT ![n] = None]
  /\ \/ Acked(n) /\ Resume(n)
     \/ NotAcked /\ UNCHANGED resumeSeq
     \/ paused[n] /\ "drop" \in Faults /\ Acked(n) /\ UNCHANGED resumeSeq
     \/ ~paused[n] /\ NotAcked /\ Resume(n)
  /\ UNCHANGED <<srcLast, deltaSeq, target, exists, next, msgs, paused>>

\* The process dies and starts again: its inbox is gone, and its requests with it.
Restart(n) ==
  /\ "crash" \in Faults
  /\ pulls' = [pulls EXCEPT ![n] = 0]
  /\ msgs' = [msgs EXCEPT ![n] = << >>]
  /\ pc' = [pc EXCEPT ![n] = "idle"]
  /\ cur' = [cur EXCEPT ![n] = None]
  /\ resumeSeq' = [resumeSeq EXCEPT ![n] = None]
  /\ paused' = [paused EXCEPT ![n] = Electing]
  /\ UNCHANGED <<srcLast, deltaSeq, target, consumer>>

\* The callbacks of the election: this copier only looks at paused.
Won(n) ==
  /\ Electing /\ paused[n]
  /\ paused' = [paused EXCEPT ![n] = FALSE]
  /\ UNCHANGED <<srcLast, deltaSeq, target, consumer, pulls, msgs, pc,
                 cur, resumeSeq>>

Lost(n) ==
  /\ Electing /\ ~paused[n]
  /\ paused' = [paused EXCEPT ![n] = TRUE]
  /\ UNCHANGED <<srcLast, deltaSeq, target, consumer, pulls, msgs, pc,
                 cur, resumeSeq>>

Node(n) ==
  \/ Poll(n) \/ HealthCheck(n) \/ CreateConsumer(n) \/ Take(n) \/ Skip(n)
  \/ Store(n) \/ StoreFails(n) \/ Ack(n) \/ Restart(n) \/ Won(n) \/ Lost(n)
  \/ Deliver(n) \/ PullExpires(n)

Next ==
  \/ Publish \/ Ages \/ Redeliver \/ ConsumerLost \/ StoredLate
  \/ \E n \in Nodes : Node(n)

Spec == Init /\ [][Next]_vars

\* The tickers fire and the server delivers what is asked for; an attempt that is
\* made again and again succeeds at some time.  Faults need not happen, and the
\* election owes nothing here.
Fairness ==
  /\ WF_vars(Redeliver)
  /\ \A n \in Nodes :
       /\ SF_vars(Poll(n)) /\ WF_vars(HealthCheck(n)) /\ SF_vars(Take(n))
       /\ WF_vars(CreateConsumer(n))
       /\ SF_vars(Deliver(n) /\ msgs' # msgs)
       /\ SF_vars(Store(n))
       /\ WF_vars(Ack(n)) /\ SF_vars(Ack(n) /\ Acked(n) /\ Resume(n))

LiveSpec == Spec /\ Fairness

-----------------------------------------------------------------------------
(* Properties.                                                             *)

Seqs == 1 .. MaxSeq

TypeOK ==
  /\ srcLast \in 0 .. MaxSeq /\ deltaSeq \in 1 .. srcLast + 1
  /\ stored \subseteq Seqs /\ skipped \subseteq Seqs /\ late \subseteq Seqs
  /\ tgtLast \in Seqs \cup {None}
  /\ exists \in BOOLEAN /\ due \in BOOLEAN
  /\ next \in Nat /\ pending \in Seqs \cup {None}
  /\ pulls \in [Nodes -> Nat]
  /\ msgs \in [Nodes -> Seq(Seqs)]
  /\ pc \in [Nodes -> {"idle", "create", "handle", "ack"}]
  /\ cur \in [Nodes -> Seqs \cup {None}]
  /\ resumeSeq \in [Nodes -> Seqs \cup {None}]
  /\ paused \in [Nodes -> BOOLEAN]

\* Handled, or too old to be replicated by a consumer that starts at a delta.
Settled == Handled \cup 1 .. deltaSeq - 1

\* What the consumer will not deliver any more was stored, skipped or, with
\* start_delta, is older than that: neither a retry, nor an acknowledgement that is
\* late or lost, nor a node that takes over and creates the consumer again, from its
\* own resumeSeq or from nothing, leaves another gap behind.
NothingLost ==
  exists => \A s \in StartSequence .. next - 1 : s # pending => s \in Settled

\* The copier keeps the promise of Replication: first copies happen in order, after
\* whatever start_delta has left behind.
R == INSTANCE Replication WITH First <- StartSequence, handled <- Settled

Promise == R!RSpec

\* The copies in the target follow the order of the source: what the README
\* (README.md:19, "order is preserved") says of every copy, not only the first.
OrderPreserved == [][tgtLast' >= tgtLast]_vars

\* When one node is the leader from some time on, and the consumer is not lost for
\* ever again, every message of the source is handled at some time: no attempt
\* that failed, no lost answer and no paused node holds a message back for good.
EverythingHandled ==
  \A n \in Nodes : <>[]~paused[n] /\ <>[][~ConsumerLost]_vars =>
    \A s \in StartSequence .. MaxSeq : [](s <= srcLast => <>(s \in Settled))
=============================================================================
