-------------------------- MODULE SourceCopierProof --------------------------
(* Machine-checked proofs about SourceCopier: for every set of nodes and of *)
(* faults, and every bound, a copier that does not start at the end loses   *)
(* nothing but what start_delta gives up, and makes first copies in order;  *)
(* and when all copies are in order.                                        *)
EXTENDS SourceCopier, TLAPS

\* The types need that the consumer and the node in hand have a sequence.
TypeInv ==
  /\ TypeOK
  /\ exists => next >= 1
  /\ \A n \in Nodes : pc[n] \in {"handle", "ack"} => cur[n] \in Seqs

\* Everything before s was handled, so s may be delivered.
Reached(s) ==
  /\ s \in Nat /\ StartSequence <= s /\ s <= srcLast
  /\ StartSequence .. s - 1 \subseteq Settled

ResumeInv ==
  \A n \in Nodes : resumeSeq[n] # None =>
    Reached(resumeSeq[n]) /\ resumeSeq[n] \in Handled

ConsumerInv ==
  /\ exists => next >= StartSequence
  /\ ~exists => pending = None
  /\ pending # None => next = pending + 1 /\ Reached(pending)

QueueInv == \A n \in Nodes : \A i \in 1 .. Len(msgs[n]) : Reached(msgs[n][i])

HandInv ==
  \A n \in Nodes :
    /\ pc[n] \in {"handle", "ack"} => Reached(cur[n])
    /\ pc[n] = "ack" => cur[n] \in Handled

LateInv == \A s \in late : Reached(s)

Flow == ResumeInv /\ ConsumerInv /\ QueueInv /\ HandInv /\ LateInv /\ NothingLost

IInv == TypeInv /\ Flow

LEMMA InitIInv == Init => IInv
<1> SUFFICES ASSUME Init PROVE IInv
  OBVIOUS
<1> USE SourceCopierAssumption
<1>1. TypeOK
  <2>1. msgs \in [Nodes -> Seq(Seqs)]
    BY DEF Init
  <2>2. /\ pulls \in [Nodes -> Nat] /\ cur \in [Nodes -> Seqs \cup {None}]
        /\ resumeSeq \in [Nodes -> Seqs \cup {None}]
        /\ pc \in [Nodes -> {"idle", "create", "handle", "ack"}]
        /\ paused \in [Nodes -> BOOLEAN]
    BY DEF Init
  <2>3. /\ stored \subseteq Seqs /\ skipped \subseteq Seqs /\ late \subseteq Seqs
        /\ tgtLast \in Seqs \cup {None} /\ pending \in Seqs \cup {None}
    BY DEF Init
  <2>4. srcLast \in 0 .. MaxSeq /\ deltaSeq \in 1 .. srcLast + 1 /\ next \in Nat
    BY DEF Init, None
  <2>5. exists \in BOOLEAN /\ due \in BOOLEAN
    BY DEF Init
  <2>6. QED
    BY <2>1, <2>2, <2>3, <2>4, <2>5 DEF TypeOK
<1>2. Flow
  BY DEF Init, Flow, ResumeInv, ConsumerInv, QueueInv, HandInv, LateInv,
         NothingLost, None
<1>3. TypeInv
  BY <1>1 DEF Init, TypeInv
<1>4. QED
  BY <1>2, <1>3 DEF IInv

\* Typing: every sequence in the system is one of the source stream's.
LEMMA StepTypeOK == TypeInv /\ [Next]_vars => TypeOK'
<1> SUFFICES ASSUME TypeInv, [Next]_vars PROVE TypeOK'
  OBVIOUS
<1> USE SourceCopierAssumption DEF None, Seqs
<1>0. TypeOK /\ (exists => next >= 1)
  BY DEF TypeInv, TypeOK
<1>a. \A n \in Nodes : pc[n] \in {"handle", "ack"} => cur[n] \in 1 .. MaxSeq
  BY DEF TypeInv
<1>1. CASE Publish
  BY <1>0, <1>1 DEF Publish, TypeOK, target, consumer, node
<1>17. CASE Ages
  <2>1. deltaSeq' \in 1 .. srcLast' + 1
    BY <1>0, <1>17 DEF Ages, TypeOK
  <2>2. QED
    BY <1>0, <1>17, <2>1 DEF Ages, TypeOK, target, consumer, node
<1>2. ASSUME NEW n \in Nodes, Deliver(n) PROVE TypeOK'
  <2>1. pending' \in 1 .. MaxSeq
    BY <1>0, <1>2 DEF Deliver, TypeOK
  <2>2. next' \in Nat /\ pulls' \in [Nodes -> Nat]
    BY <1>0, <1>2 DEF Deliver, TypeOK
  <2>3. msgs' \in [Nodes -> Seq(1 .. MaxSeq)]
    <3>1. CASE msgs' = [msgs EXCEPT ![n] = Append(@, pending')]
      <4>1. Append(msgs[n], pending') \in Seq(1 .. MaxSeq)
        BY <1>0, <2>1 DEF TypeOK
      <4>2. QED
        BY <1>0, <3>1, <4>1 DEF TypeOK
    <3>2. QED
      BY <1>0, <1>2, <3>1 DEF Deliver, TypeOK
  <2>4. QED
    BY <1>0, <1>2, <2>1, <2>2, <2>3 DEF Deliver, TypeOK, target, node
<1>3. CASE Redeliver
  BY <1>0, <1>3 DEF Redeliver, TypeOK, target, node
<1>15. CASE ConsumerLost
  BY <1>0, <1>15 DEF ConsumerLost, NoConsumer, TypeOK, target, node
<1>4. ASSUME NEW n \in Nodes, PullExpires(n) PROVE TypeOK'
  BY <1>0, <1>4 DEF PullExpires, TypeOK, target, consumer, node
<1>5. ASSUME NEW n \in Nodes, Poll(n) PROVE TypeOK'
  BY <1>0, <1>5 DEF Poll, TypeOK, target, consumer, node
<1>6. ASSUME NEW n \in Nodes, HealthCheck(n) PROVE TypeOK'
  BY <1>0, <1>6 DEF HealthCheck, NoConsumer, TypeOK, target
<1>7. ASSUME NEW n \in Nodes, CreateConsumer(n) PROVE TypeOK'
  <2>1. StartAt(n) \in Nat
    BY <1>0 DEF StartAt, TypeOK
  <2>2. next' \in Nat /\ exists' \in BOOLEAN /\ due' \in BOOLEAN
        /\ pending' \in 1 .. MaxSeq \cup {0}
    BY <1>0, <1>7, <2>1 DEF CreateConsumer, TypeOK, consumer
  <2>3. QED
    BY <1>0, <1>7, <2>2 DEF CreateConsumer, TypeOK, target
<1>8. ASSUME NEW n \in Nodes, Take(n) PROVE TypeOK'
  <2>1. Head(msgs[n]) \in 1 .. MaxSeq /\ Tail(msgs[n]) \in Seq(1 .. MaxSeq)
    BY <1>0, <1>8 DEF Take, TypeOK
  <2>2. QED
    BY <1>0, <1>8, <2>1 DEF Take, TypeOK, target, consumer
<1>9. ASSUME NEW n \in Nodes, Skip(n) \/ Store(n) \/ StoreFails(n) PROVE TypeOK'
  BY <1>0, <1>a, <1>9 DEF Skip, Store, StoreFails, TypeOK, consumer
<1>10. CASE StoredLate
  BY <1>0, <1>10 DEF StoredLate, TypeOK, consumer, node
<1>11. ASSUME NEW n \in Nodes, Ack(n) PROVE TypeOK'
  <2>1. pending' \in 1 .. MaxSeq \cup {0} /\ due' \in BOOLEAN
    BY <1>0, <1>11 DEF Ack, Acked, NotAcked, TypeOK
  <2>4. pulls' \in [Nodes -> Nat]
    <3>1. pulls' \in {pulls, [pulls EXCEPT ![n] = pulls[n] + 1]}
      BY <1>11 DEF Ack, Acked, NotAcked
    <3>2. pulls \in [Nodes -> Nat] /\ pulls[n] + 1 \in Nat
      BY <1>0 DEF TypeOK
    <3>3. QED
      BY <3>1, <3>2
  <2>2. resumeSeq' \in [Nodes -> 1 .. MaxSeq \cup {0}]
    BY <1>0, <1>11 DEF Ack, Resume, TypeOK
  <2>3. QED
    BY <1>0, <1>11, <2>1, <2>2, <2>4 DEF Ack, TypeOK, target
<1>12. ASSUME NEW n \in Nodes, Won(n) \/ Lost(n) PROVE TypeOK'
  BY <1>0, <1>12 DEF Won, Lost, TypeOK, target, consumer
<1>16. ASSUME NEW n \in Nodes, Restart(n) PROVE TypeOK'
  <2>1. msgs' \in [Nodes -> Seq(1 .. MaxSeq)]
    BY <1>0, <1>16 DEF Restart, TypeOK
  <2>2. QED
    BY <1>0, <1>16, <2>1 DEF Restart, TypeOK, target, consumer
<1>13. CASE UNCHANGED vars
  BY <1>0, <1>13 DEF vars, TypeOK, target, consumer, node
<1>14. QED
  BY <1>1, <1>2, <1>3, <1>4, <1>5, <1>6, <1>7, <1>8, <1>9, <1>10, <1>11, <1>12,
     <1>13, <1>15, <1>16, <1>17
     DEF Next, Node

\* A consumer starts at a sequence, and only a delivered message is taken in hand.
LEMMA StepTypeInv == TypeInv /\ [Next]_vars => TypeInv'
<1> SUFFICES ASSUME TypeInv, [Next]_vars PROVE TypeInv'
  OBVIOUS
<1> USE SourceCopierAssumption DEF None, Seqs
<1>0. TypeOK /\ TypeOK'
  BY StepTypeOK DEF TypeInv
<1>1. ASSUME NEW n \in Nodes, Deliver(n) PROVE TypeInv'
  BY <1>0, <1>1 DEF Deliver, TypeInv, TypeOK, node
<1>2. ASSUME NEW n \in Nodes, CreateConsumer(n) PROVE TypeInv'
  <2>1. StartAt(n) \in Nat /\ StartAt(n) >= 1
    <3>1. resumeSeq[n] \in Nat /\ srcLast \in Nat /\ deltaSeq \in 1 .. srcLast + 1
      BY <1>0 DEF TypeOK
    <3>2. QED
      BY <3>1 DEF StartAt
  <2>2. exists' => next' >= 1
    BY <1>2, <2>1 DEF CreateConsumer, TypeInv, consumer
  <2>3. \A m \in Nodes : pc'[m] \in {"handle", "ack"} =>
          cur'[m] = cur[m] /\ pc[m] \in {"handle", "ack"}
    BY <1>0, <1>2 DEF CreateConsumer, TypeOK
  <2>4. \A m \in Nodes : pc'[m] \in {"handle", "ack"} => cur'[m] \in Seqs
    BY <2>3 DEF TypeInv
  <2>5. QED
    BY <1>0, <2>2, <2>4 DEF TypeInv
<1>3. ASSUME NEW n \in Nodes, Take(n) PROVE TypeInv'
  <2>1. Head(msgs[n]) \in Seqs
    BY <1>0, <1>3 DEF Take, TypeOK
  <2>2. QED
    BY <1>0, <1>3, <2>1 DEF Take, TypeInv, TypeOK, consumer
<1>4. ASSUME NEW n \in Nodes,
             Skip(n) \/ Store(n) \/ StoreFails(n) \/ Ack(n) \/ Restart(n)
      PROVE  TypeInv'
  <2>1. /\ \A m \in Nodes : pc'[m] \in {"handle", "ack"} =>
             cur'[m] = cur[m] /\ pc[m] \in {"handle", "ack"}
        /\ exists' = exists /\ next' = next
    BY <1>0, <1>4 DEF Skip, Store, StoreFails, Ack, Restart, TypeOK, consumer
  <2>2. QED
    BY <1>0, <2>1 DEF TypeInv
<1>5. ASSUME NEW n \in Nodes, HealthCheck(n) PROVE TypeInv'
  BY <1>0, <1>5 DEF HealthCheck, NoConsumer, TypeInv, TypeOK
<1>6. CASE ConsumerLost
  BY <1>0, <1>6 DEF ConsumerLost, NoConsumer, TypeInv, node
<1>7. ASSUME NEW n \in Nodes, Poll(n) \/ PullExpires(n) \/ Won(n) \/ Lost(n)
      PROVE  TypeInv'
  BY <1>0, <1>7 DEF Poll, PullExpires, Won, Lost, TypeInv, consumer, node
<1>8. CASE Publish \/ Ages \/ Redeliver \/ StoredLate \/ UNCHANGED vars
  BY <1>0, <1>8 DEF Publish, Ages, Redeliver, StoredLate, TypeInv, vars, consumer, node
<1>9. QED
  BY <1>1, <1>2, <1>3, <1>4, <1>5, <1>6, <1>7, <1>8 DEF Next, Node

LEMMA TypeInvariance == Spec => []TypeInv
<1>1. Init => TypeInv
  BY InitIInv DEF IInv
<1>2. QED
  BY <1>1, StepTypeInv, PTL DEF Spec

\* Nothing is ever taken from the source or from what was handled.
LEMMA Grows ==
  ASSUME IInv, [Next]_vars
  PROVE  /\ Handled \subseteq Handled' /\ Settled \subseteq Settled'
         /\ srcLast \in Nat /\ srcLast' \in Nat /\ srcLast <= srcLast'
<1> USE SourceCopierAssumption
<1>1. srcLast \in Nat /\ deltaSeq \in Nat
  BY DEF IInv, TypeInv, TypeOK
<1>2. ASSUME Publish \/ Ages
      PROVE  Handled \subseteq Handled' /\ srcLast' \in Nat /\ srcLast <= srcLast'
  BY <1>1, <1>2 DEF Publish, Ages, target, Handled
<1>3. ASSUME Redeliver \/ ConsumerLost \/ StoredLate \/ UNCHANGED vars
      PROVE  Handled \subseteq Handled' /\ srcLast' \in Nat /\ srcLast <= srcLast'
  BY <1>1, <1>3 DEF Redeliver, ConsumerLost, StoredLate, vars, target, Handled
<1>4. ASSUME NEW n \in Nodes, Skip(n) \/ Store(n) \/ StoreFails(n)
      PROVE  Handled \subseteq Handled' /\ UNCHANGED <<srcLast, deltaSeq>>
  BY <1>4 DEF Skip, Store, StoreFails, Handled
<1>5. ASSUME NEW n \in Nodes,
             \/ Poll(n) \/ HealthCheck(n) \/ CreateConsumer(n) \/ Take(n)
             \/ Ack(n) \/ Restart(n) \/ Won(n) \/ Lost(n) \/ Deliver(n)
             \/ PullExpires(n)
      PROVE  UNCHANGED <<srcLast, deltaSeq, stored, skipped>>
  BY <1>5 DEF Poll, HealthCheck, CreateConsumer, Take, Ack, Restart, Won, Lost,
              Deliver, PullExpires, target
<1>6. Handled \subseteq Handled' /\ srcLast' \in Nat /\ srcLast <= srcLast'
  BY <1>1, <1>2, <1>3, <1>4, <1>5 DEF Next, Node, Handled
<1>7. deltaSeq' = deltaSeq \/ deltaSeq' = deltaSeq + 1
  BY <1>4, <1>5 DEF Next, Node, Publish, Ages, Redeliver, ConsumerLost, StoredLate, vars
<1>8. Settled \subseteq Settled'
  BY <1>1, <1>6, <1>7 DEF Settled
<1>9. QED
  BY <1>1, <1>6, <1>8

\* So what may be delivered once may be delivered ever after.
LEMMA ReachedStays ==
  ASSUME IInv, [Next]_vars, NEW s, Reached(s)
  PROVE  Reached(s)'
  BY Grows, SourceCopierAssumption DEF Reached

\* A node acknowledges, and resumes from, only what it handled.
LEMMA StepHand == IInv /\ [Next]_vars => HandInv' /\ ResumeInv'
<1> SUFFICES ASSUME IInv, [Next]_vars PROVE HandInv' /\ ResumeInv'
  OBVIOUS
<1>0. TypeOK /\ HandInv /\ ResumeInv /\ QueueInv
  BY DEF IInv, TypeInv, Flow
<1>a. Handled \subseteq Handled' /\ \A s : Reached(s) => Reached(s)'
  BY Grows, ReachedStays
<1>1. ASSUME NEW n \in Nodes, Take(n) PROVE HandInv' /\ ResumeInv'
  <2>1. Reached(Head(msgs[n]))
    BY <1>0, <1>1 DEF Take, QueueInv, TypeOK
  <2>2. QED
    BY <1>0, <1>a, <1>1, <2>1 DEF Take, HandInv, ResumeInv, TypeOK
<1>2. ASSUME NEW n \in Nodes, Skip(n) PROVE HandInv' /\ ResumeInv'
  BY <1>0, <1>a, <1>2 DEF Skip, HandInv, ResumeInv, TypeOK, Handled
<1>3. ASSUME NEW n \in Nodes, Store(n) PROVE HandInv' /\ ResumeInv'
  BY <1>0, <1>a, <1>3 DEF Store, HandInv, ResumeInv, TypeOK, Handled
<1>4. ASSUME NEW n \in Nodes, StoreFails(n) PROVE HandInv' /\ ResumeInv'
  BY <1>0, <1>a, <1>4 DEF StoreFails, HandInv, ResumeInv, TypeOK
<1>5. ASSUME NEW n \in Nodes, Ack(n) PROVE HandInv' /\ ResumeInv'
  <2>1. HandInv'
    BY <1>0, <1>a, <1>5 DEF Ack, HandInv, TypeOK
  <2>2. resumeSeq' \in {resumeSeq, [resumeSeq EXCEPT ![n] = cur[n]]}
    BY <1>5 DEF Ack, Resume
  <2>3. Reached(cur[n]) /\ cur[n] \in Handled
    BY <1>0, <1>5 DEF Ack, HandInv
  <2>4. ResumeInv'
    BY <1>0, <1>a, <2>2, <2>3 DEF ResumeInv, TypeOK
  <2>5. QED
    BY <2>1, <2>4
<1>6. ASSUME NEW n \in Nodes, HealthCheck(n) \/ CreateConsumer(n)
      PROVE  HandInv' /\ ResumeInv'
  BY <1>0, <1>a, <1>6
     DEF HealthCheck, CreateConsumer, HandInv, ResumeInv, TypeOK
<1>7. ASSUME NEW n \in Nodes, Restart(n) PROVE HandInv' /\ ResumeInv'
  BY <1>0, <1>a, <1>7 DEF Restart, HandInv, ResumeInv, TypeOK
<1>8. CASE UNCHANGED <<pc, cur, resumeSeq>>
  BY <1>0, <1>a, <1>8 DEF HandInv, ResumeInv
<1>9. ASSUME NEW n \in Nodes,
             Poll(n) \/ Won(n) \/ Lost(n) \/ Deliver(n) \/ PullExpires(n)
      PROVE  UNCHANGED <<pc, cur, resumeSeq>>
  BY <1>9 DEF Poll, Won, Lost, Deliver, PullExpires, node
<1>10. ASSUME \/ Publish \/ Ages \/ Redeliver \/ ConsumerLost \/ StoredLate
              \/ UNCHANGED vars
       PROVE  UNCHANGED <<pc, cur, resumeSeq>>
  BY <1>10 DEF Publish, Ages, Redeliver, ConsumerLost, StoredLate, vars, node
<1>11. QED
  BY <1>1, <1>2, <1>3, <1>4, <1>5, <1>6, <1>7, <1>8, <1>9, <1>10 DEF Next, Node

\* The messages under way, in the channels or late at the target, may be handled.
LEMMA StepUnderWay == IInv /\ [Next]_vars => QueueInv' /\ LateInv'
<1> SUFFICES ASSUME IInv, [Next]_vars PROVE QueueInv' /\ LateInv'
  OBVIOUS
<1>0. TypeOK /\ HandInv /\ ConsumerInv /\ QueueInv /\ LateInv
  BY DEF IInv, TypeInv, Flow
<1>a. \A s : Reached(s) => Reached(s)'
  BY ReachedStays
<1>1. ASSUME NEW n \in Nodes, Deliver(n) PROVE QueueInv' /\ LateInv'
  <2>1. Reached(pending')
    <3>1. CASE pending # None /\ pending' = pending
      BY <1>0, <3>1 DEF ConsumerInv
    <3>2. CASE pending = None /\ next <= srcLast /\ pending' = next
      BY <1>0, <1>1, <3>2, SourceCopierAssumption
         DEF Deliver, IInv, TypeInv, Flow, NothingLost, ConsumerInv, Reached, TypeOK, None
    <3>3. QED
      BY <1>1, <3>1, <3>2 DEF Deliver
  <2>2. pending' \in Seqs
    BY <2>1, <1>0, SourceCopierAssumption DEF Reached, TypeOK, Seqs
  <2>3. CASE msgs' = [msgs EXCEPT ![n] = Append(msgs[n], pending')]
    <3>1. ASSUME NEW m \in Nodes, NEW i \in 1 .. Len(msgs'[m])
          PROVE  Reached(msgs'[m][i])
      <4>1. CASE m # n
        BY <1>0, <2>3, <3>1, <4>1 DEF QueueInv, TypeOK
      <4>2. CASE m = n
        BY <1>0, <2>1, <2>2, <2>3, <3>1, <4>2 DEF QueueInv, TypeOK
      <4>3. QED
        BY <4>1, <4>2
    <3>2. late' = late
      BY <1>1 DEF Deliver, target
    <3>3. QED
      BY <1>0, <1>a, <3>1, <3>2 DEF QueueInv, LateInv
  <2>4. CASE UNCHANGED msgs
    BY <1>0, <1>a, <1>1, <2>4 DEF Deliver, target, QueueInv, LateInv
  <2>5. QED
    BY <1>1, <2>3, <2>4 DEF Deliver
<1>2. ASSUME NEW n \in Nodes, Take(n) PROVE QueueInv' /\ LateInv'
  <2>1. \A m \in Nodes : m # n => msgs'[m] = msgs[m]
    BY <1>0, <1>2 DEF Take, TypeOK
  <2>2. msgs'[n] = Tail(msgs[n]) /\ msgs[n] # << >> /\ msgs[n] \in Seq(Seqs)
    BY <1>0, <1>2 DEF Take, TypeOK
  <2>3. \A i \in 1 .. Len(msgs'[n]) :
          i + 1 \in 1 .. Len(msgs[n]) /\ msgs'[n][i] = msgs[n][i + 1]
    BY <2>2
  <2>4. QED
    BY <1>0, <1>a, <1>2, <2>1, <2>3 DEF Take, target, QueueInv, LateInv
<1>3. ASSUME NEW n \in Nodes, Restart(n) PROVE QueueInv' /\ LateInv'
  BY <1>0, <1>a, <1>3 DEF Restart, target, QueueInv, LateInv, TypeOK
<1>4. ASSUME NEW n \in Nodes, StoreFails(n) PROVE QueueInv' /\ LateInv'
  BY <1>0, <1>a, <1>4 DEF StoreFails, HandInv, QueueInv, LateInv
<1>5. CASE StoredLate
  BY <1>0, <1>a, <1>5 DEF StoredLate, QueueInv, LateInv
<1>6. CASE UNCHANGED <<msgs, late>>
  BY <1>0, <1>a, <1>6 DEF QueueInv, LateInv
<1>7. ASSUME NEW n \in Nodes,
             \/ Poll(n) \/ HealthCheck(n) \/ CreateConsumer(n) \/ Skip(n)
             \/ Store(n) \/ Ack(n) \/ Won(n) \/ Lost(n) \/ PullExpires(n)
      PROVE  UNCHANGED <<msgs, late>>
  BY <1>7 DEF Poll, HealthCheck, CreateConsumer, Skip, Store, Ack, Won, Lost,
              PullExpires, target
<1>8. ASSUME Publish \/ Ages \/ Redeliver \/ ConsumerLost \/ UNCHANGED vars
      PROVE  UNCHANGED <<msgs, late>>
  BY <1>8 DEF Publish, Ages, Redeliver, ConsumerLost, vars, target
<1>9. QED
  BY <1>1, <1>2, <1>3, <1>4, <1>5, <1>6, <1>7, <1>8 DEF Next, Node

\* The consumer never gets past a message nobody handled.
LEMMA StepConsumer ==
  StartOption # "end" /\ IInv /\ [Next]_vars => ConsumerInv' /\ NothingLost'
<1> SUFFICES ASSUME StartOption # "end", IInv, [Next]_vars
             PROVE  ConsumerInv' /\ NothingLost'
  OBVIOUS
<1> USE SourceCopierAssumption
<1>0. TypeOK /\ HandInv /\ ResumeInv /\ ConsumerInv /\ NothingLost
  BY DEF IInv, TypeInv, Flow
<1>a. Settled \subseteq Settled' /\ \A s : Reached(s) => Reached(s)'
  BY Grows, ReachedStays
<1>1. ASSUME NEW n \in Nodes, Deliver(n) PROVE ConsumerInv' /\ NothingLost'
  <2>1. CASE UNCHANGED <<next, pending>>
    BY <1>0, <1>a, <1>1, <2>1 DEF Deliver, ConsumerInv, NothingLost
  <2>2. CASE pending = None /\ next <= srcLast /\ pending' = next
             /\ next' = next + 1
    <3>1. Reached(next)
      BY <1>0, <1>1, <2>2 DEF Deliver, NothingLost, ConsumerInv, Reached, TypeOK,
                              None
    <3>2. QED
      BY <1>0, <1>a, <1>1, <2>2, <3>1
         DEF Deliver, ConsumerInv, NothingLost, TypeOK, None
  <2>3. QED
    BY <1>1, <2>1, <2>2 DEF Deliver
<1>2. ASSUME NEW n \in Nodes, CreateConsumer(n)
      PROVE  ConsumerInv' /\ NothingLost'
  <2>1. CASE exists
    BY <1>0, <1>a, <1>2, <2>1 DEF CreateConsumer, consumer, ConsumerInv,
                                  NothingLost
  <2>2. CASE ~exists
    <3>1. StartAt(n) \in Nat /\ StartAt(n) >= StartSequence
          /\ StartSequence .. StartAt(n) - 1 \subseteq Settled
      BY <1>0 DEF StartAt, ResumeInv, Reached, TypeOK, None, Settled
    <3>2. exists' /\ next' = StartAt(n) /\ pending' = None
      BY <1>2, <2>2 DEF CreateConsumer
    <3>3. QED
      BY <1>a, <3>1, <3>2 DEF ConsumerInv, NothingLost
  <2>3. QED
    BY <2>1, <2>2
<1>3. ASSUME NEW n \in Nodes, Ack(n) PROVE ConsumerInv' /\ NothingLost'
  <2>1. cur[n] \in Settled
    BY <1>0, <1>3 DEF Ack, HandInv, Settled
  <2>2. exists' = exists /\ next' = next
    BY <1>3 DEF Ack
  <2>3. pending' = pending \/ (pending = cur[n] /\ pending' = None /\ exists)
    BY <1>3 DEF Ack, Acked, NotAcked
  <2>4. QED
    BY <1>0, <1>a, <2>1, <2>2, <2>3 DEF ConsumerInv, NothingLost
<1>4. ASSUME ConsumerLost \/ \E n \in Nodes : HealthCheck(n)
      PROVE  ConsumerInv' /\ NothingLost'
  BY <1>4 DEF ConsumerLost, HealthCheck, NoConsumer, ConsumerInv, NothingLost
<1>5. CASE UNCHANGED <<exists, next, pending>>
  BY <1>0, <1>a, <1>5 DEF ConsumerInv, NothingLost
<1>6. ASSUME NEW n \in Nodes,
             \/ Poll(n) \/ Take(n) \/ Skip(n) \/ Store(n) \/ StoreFails(n)
             \/ Restart(n) \/ Won(n) \/ Lost(n) \/ PullExpires(n)
      PROVE  UNCHANGED <<exists, next, pending>>
  BY <1>6 DEF Poll, Take, Skip, Store, StoreFails, Restart, Won, Lost,
              PullExpires, consumer
<1>7. ASSUME Publish \/ Ages \/ Redeliver \/ StoredLate \/ UNCHANGED vars
      PROVE  UNCHANGED <<exists, next, pending>>
  BY <1>7 DEF Publish, Ages, Redeliver, StoredLate, vars, consumer
<1>8. QED
  BY <1>1, <1>2, <1>3, <1>4, <1>5, <1>6, <1>7 DEF Next, Node

LEMMA Invariance == StartOption # "end" => (Spec => []IInv)
<1> SUFFICES ASSUME StartOption # "end" PROVE Spec => []IInv
  OBVIOUS
<1>1. IInv /\ [Next]_vars => IInv'
  BY StepTypeInv, StepHand, StepUnderWay, StepConsumer DEF IInv, TypeInv, Flow
<1>2. QED
  BY InitIInv, <1>1, PTL DEF Spec

\* Every sequence number in the source copier, in its channels and in its consumer
\* is one of the source stream's, wherever the stream starts
\* (src_to_dest_copier.go:57-215).
THEOREM TypeCorrect == Spec => []TypeOK
<1>1. TypeInv => TypeOK
  BY DEF TypeInv
<1>2. QED
  BY TypeInvariance, <1>1, PTL

\* The source copier loses nothing, whatever the faults and however many nodes are
\* leaders at once, unless every new consumer starts at the end of the stream; with
\* start_delta, counted anew for every consumer that starts from nothing, it gives up
\* only what is older (src_to_dest_copier.go:241-256).
THEOREM NothingIsLost == StartOption # "end" => (Spec => []NothingLost)
<1>1. IInv => NothingLost
  BY DEF IInv, TypeInv, Flow
<1>2. QED
  BY Invariance, <1>1, PTL

\* A step that handles a message handles the next one in order, or one that was
\* handled before.
LEMMA StepPromise == IInv /\ [Next]_vars => [R!RNext]_(R!rvars)
<1> SUFFICES ASSUME IInv, [Next]_vars PROVE [R!RNext]_(R!rvars)
  OBVIOUS
<1>0. HandInv /\ LateInv
  BY DEF IInv, TypeInv, Flow
<1>a. ASSUME NEW s, Reached(s), Settled' = Settled \cup {s}, srcLast' = srcLast
      PROVE  [R!RNext]_(R!rvars)
  <2>1. CASE s \in Settled
    BY <1>a, <2>1 DEF R!rvars
  <2>2. CASE s \notin Settled
    <3>1. s \in StartSequence .. srcLast
      BY <1>a, SourceCopierAssumption DEF Reached, IInv, TypeOK
    <3>2. R!Handle(s)
      BY <1>a, <2>2 DEF R!Handle, Reached
    <3>3. QED
      BY <3>1, <3>2 DEF R!RNext
  <2>3. QED
    BY <2>1, <2>2
<1>1. CASE Publish
  BY <1>1 DEF Publish, target, Handled, Settled, R!RNext, R!Published
<1>2. ASSUME NEW n \in Nodes, Skip(n) \/ Store(n) PROVE [R!RNext]_(R!rvars)
  <2>1. Reached(cur[n]) /\ Settled' = Settled \cup {cur[n]} /\ srcLast' = srcLast
    BY <1>0, <1>2 DEF Skip, Store, HandInv, Handled, Settled
  <2>2. QED
    BY <1>a, <2>1
<1>3. ASSUME NEW n \in Nodes, StoreFails(n) PROVE [R!RNext]_(R!rvars)
  <2>1. CASE UNCHANGED stored
    BY <1>3, <2>1 DEF StoreFails, Handled, Settled, R!rvars
  <2>2. CASE stored' = stored \cup {cur[n]}
    <3>1. Reached(cur[n]) /\ Settled' = Settled \cup {cur[n]}
          /\ srcLast' = srcLast
      BY <1>0, <1>3, <2>2 DEF StoreFails, HandInv, Handled, Settled
    <3>2. QED
      BY <1>a, <3>1
  <2>3. QED
    BY <1>3, <2>1, <2>2 DEF StoreFails
<1>4. CASE StoredLate
  <2>1. PICK s \in late : /\ stored' = stored \cup {s}
                          /\ UNCHANGED <<srcLast, deltaSeq, skipped>>
    BY <1>4 DEF StoredLate
  <2>2. Reached(s) /\ Settled' = Settled \cup {s} /\ srcLast' = srcLast
    BY <1>0, <2>1 DEF LateInv, Handled, Settled
  <2>3. QED
    BY <1>a, <2>2
<1>5. CASE UNCHANGED <<srcLast, deltaSeq, stored, skipped>>
  BY <1>5 DEF Handled, Settled, R!rvars
<1>6. ASSUME NEW n \in Nodes,
             \/ Poll(n) \/ HealthCheck(n) \/ CreateConsumer(n) \/ Take(n)
             \/ Ack(n) \/ Restart(n) \/ Won(n) \/ Lost(n) \/ Deliver(n)
             \/ PullExpires(n)
      PROVE  UNCHANGED <<srcLast, deltaSeq, stored, skipped>>
  BY <1>6 DEF Poll, HealthCheck, CreateConsumer, Take, Ack, Restart, Won, Lost,
              Deliver, PullExpires, target
<1>7. ASSUME Redeliver \/ ConsumerLost \/ UNCHANGED vars
      PROVE  UNCHANGED <<srcLast, deltaSeq, stored, skipped>>
  BY <1>7 DEF Redeliver, ConsumerLost, vars, target
<1>8. CASE Ages
  <2>1. /\ StartSequence = 1 /\ deltaSeq \in 1 .. srcLast /\ srcLast \in Nat
        /\ deltaSeq' = deltaSeq + 1 /\ UNCHANGED <<srcLast, stored, skipped>>
    BY <1>8, SourceCopierAssumption DEF Ages, target, IInv, TypeInv, TypeOK
  <2>2. Reached(deltaSeq)
    BY <2>1 DEF Reached, Settled
  <2>3. Settled' = Settled \cup {deltaSeq} /\ srcLast' = srcLast
    BY <2>1 DEF Settled, Handled
  <2>4. QED
    BY <1>a, <2>2, <2>3
<1>9. QED
  BY <1>1, <1>2, <1>3, <1>4, <1>5, <1>6, <1>7, <1>8 DEF Next, Node

\* The source copier implements Replication: a message is handled for the first
\* time only after all before it that start_delta does not leave behind, for every
\* interleaving of nodes and faults (src_to_dest_copier.go:153-215, 241-256).
THEOREM ImplementsReplication == StartOption # "end" => (Spec => Promise)
<1> SUFFICES ASSUME StartOption # "end" PROVE Spec => Promise
  OBVIOUS
<1>1. Init => R!RInit
  BY DEF Init, Handled, Settled, R!RInit
<1>2. QED
  BY <1>1, StepPromise, Invariance, PTL DEF Spec, Promise, R!RSpec
-----------------------------------------------------------------------------
(* When every copy, and not only the first, follows the order of the source. *)

\* The consumer is never lost and never removed, no request to the target arrives
\* after its sender gave up, and the AckWait outlasts whoever has the message, or
\* there is only one replicator.
Undisturbed ==
  /\ ~Ephemeral
  /\ {"consumer", "late"} \cap Faults = {}
  /\ "redeliver" \in Faults => \A m, n \in Nodes : m = n

\* What node n has in hand, if anything.
Hand(n) == IF pc[n] \in {"handle", "ack"} THEN {cur[n]} ELSE {}

\* What is in hand and then the messages of a channel, in an order that does not go
\* down, from lo to below hi.
Ordered(hand, queue, lo, hi) ==
  /\ \A c \in hand : lo <= c /\ c < hi /\ \A i \in 1 .. Len(queue) : c <= queue[i]
  /\ \A i \in 1 .. Len(queue) :
       /\ lo <= queue[i] /\ queue[i] < hi
       /\ \A j \in 1 .. i : queue[j] <= queue[i]

\* No node has a message older than the last one the target got, nor in another
\* order than they were delivered in.
QueueOrder(n) == Ordered(Hand(n), msgs[n], tgtLast, next)

Nothing(n) == msgs[n] = << >> /\ Hand(n) = {}

\* The delivered message is with one node, and no node has another one.
OneCopy ==
  /\ \A n \in Nodes : \/ Nothing(n)
                      \/ msgs[n] = << >> /\ Hand(n) = {pending}
                      \/ msgs[n] = <<pending>> /\ Hand(n) = {}
  /\ pending = None \/ due => \A n \in Nodes : Nothing(n)
  /\ \A m, n \in Nodes : m = n \/ Nothing(m) \/ Nothing(n)

\* The one consumer is further than the target.
Ahead ==
  /\ ~exists => tgtLast = None /\ \A n \in Nodes : Nothing(n)
  /\ exists => tgtLast < next
  /\ pending # None => exists /\ next = pending + 1
  /\ late = {}

OrderInv ==
  /\ Ahead
  /\ \A n \in Nodes : QueueOrder(n)
  /\ "redeliver" \notin Faults => OneCopy

LEMMA InitOrder == Init => OrderInv
BY SourceCopierAssumption
   DEF Init, OrderInv, Ahead, QueueOrder, OneCopy, Nothing, Hand, Ordered, None

\* Everything a node or the consumer refers to is a sequence of the source, or None.
LEMMA HasSequences ==
  ASSUME TypeOK, NEW n \in Nodes
  PROVE  /\ msgs[n] \in Seq(Nat) /\ cur[n] \in Nat /\ Hand(n) \in SUBSET Nat
         /\ tgtLast \in Nat /\ next \in Nat /\ pending \in Nat
<1>1. \A s \in Seqs : s \in Nat
  BY SourceCopierAssumption DEF Seqs
<1>2. msgs[n] \in Seq(Seqs) /\ cur[n] \in Seqs \cup {None}
  BY DEF TypeOK
<1>3. msgs[n] \in Seq(Nat)
  BY <1>1, <1>2
<1>4. cur[n] \in Nat /\ tgtLast \in Nat /\ next \in Nat /\ pending \in Nat
  BY <1>1, <1>2, SourceCopierAssumption DEF TypeOK, None
<1>5. QED
  BY <1>3, <1>4 DEF Hand

\* A message that is not older than any delivered one is put behind them.
LEMMA OrderedAppend ==
  ASSUME NEW hand \in SUBSET Nat, NEW queue \in Seq(Nat), NEW lo \in Nat,
         NEW hi \in Nat, NEW x \in Nat, NEW hi2 \in Nat,
         Ordered(hand, queue, lo, hi), \A y \in Nat : y < hi => y <= x, x < hi2, lo <= x
  PROVE  Ordered(hand, queue, lo, hi2) /\ Ordered(hand, Append(queue, x), lo, hi2)
<1> DEFINE q == Append(queue, x)
<1>1. /\ Len(queue) \in Nat /\ Len(q) = Len(queue) + 1 /\ q[Len(queue) + 1] = x
      /\ \A i \in 1 .. Len(queue) : queue[i] \in Nat /\ q[i] = queue[i]
  OBVIOUS
<1>2. /\ \A i \in 1 .. Len(queue) : queue[i] <= x
      /\ \A c \in hand : c <= x
  BY <1>1 DEF Ordered
<1> HIDE DEF q
<1>3. ASSUME NEW i \in 1 .. Len(q)
      PROVE  /\ lo <= q[i] /\ q[i] < hi2 /\ \A c \in hand : c <= q[i]
             /\ \A j \in 1 .. i : q[j] <= q[i]
  <2>1. CASE i = Len(queue) + 1
    <3>1. q[i] = x /\ \A j \in 1 .. Len(queue) : q[j] <= x
      BY <1>1, <1>2, <2>1
    <3>2. QED
      BY <1>1, <1>2, <2>1, <3>1
  <2>2. CASE i \in 1 .. Len(queue)
    <3>1. q[i] = queue[i] /\ \A j \in 1 .. i : q[j] = queue[j]
      BY <1>1, <2>2
    <3>2. lo <= queue[i] /\ queue[i] < hi2
      BY <1>1, <1>2, <2>2 DEF Ordered
    <3>3. /\ \A c \in hand : c <= queue[i]
          /\ \A j \in 1 .. i : queue[j] <= queue[i]
      BY <2>2 DEF Ordered
    <3>4. QED
      BY <3>1, <3>2, <3>3
  <2>3. QED
    BY <1>1, <2>1, <2>2
<1>4. Ordered(hand, q, lo, hi2)
  BY <1>3 DEF Ordered
<1>5. Ordered(hand, queue, lo, hi2)
  BY <1>1 DEF Ordered
<1>6. QED
  BY <1>4, <1>5 DEF q

\* The first message of a channel is the next one in hand.
LEMMA OrderedTake ==
  ASSUME NEW queue \in Seq(Nat), queue # << >>, NEW lo \in Nat, NEW hi \in Nat,
         Ordered({}, queue, lo, hi)
  PROVE  Ordered({Head(queue)}, Tail(queue), lo, hi)
<1>1. /\ Len(queue) \in Nat /\ Len(queue) > 0 /\ Head(queue) = queue[1]
      /\ Len(Tail(queue)) = Len(queue) - 1
      /\ \A i \in 1 .. Len(queue) - 1 : Tail(queue)[i] = queue[i + 1]
  OBVIOUS
<1>2. QED
  BY <1>1 DEF Ordered

\* What is done with the message in hand: it is put away, or stored.
LEMMA OrderedHand ==
  ASSUME NEW c \in Nat, NEW queue \in Seq(Nat), NEW lo \in Nat, NEW hi \in Nat,
         Ordered({c}, queue, lo, hi)
  PROVE  /\ lo <= c /\ c < hi
         /\ Ordered({c}, queue, c, hi) /\ Ordered({}, queue, lo, hi)
         /\ Ordered({}, queue, c, hi)
BY DEF Ordered

\* A delivery is the newest message, or the pending one again.
LEMMA DeliverOrder ==
  ASSUME TypeInv, OrderInv, NEW n \in Nodes, Deliver(n)
  PROVE  OrderInv' /\ tgtLast' = tgtLast
<1> USE DEF None, Seqs
<1>0. TypeOK /\ Ahead /\ exists /\ next \in Nat /\ tgtLast \in Nat
  BY SourceCopierAssumption DEF TypeInv, TypeOK, OrderInv, Deliver
<1>1. /\ tgtLast' = tgtLast /\ late' = late /\ pc' = pc /\ cur' = cur
      /\ pending' # None /\ next' = pending' + 1
  BY <1>0, SourceCopierAssumption DEF Deliver, Ahead, TypeOK, target, node
<1>2. /\ pending' \in Nat /\ next' \in Nat
      /\ pending' < next' /\ tgtLast <= pending' /\ tgtLast < next'
      /\ \A y \in Nat : y < next => y <= pending'
  BY <1>0, SourceCopierAssumption DEF Deliver, Ahead, TypeOK
<1>3. exists' /\ due' = FALSE /\ (pending = None \/ due)
  BY <1>0 DEF Deliver
<1>4. msgs' = msgs \/ msgs' = [msgs EXCEPT ![n] = Append(@, pending')]
  BY DEF Deliver
<1>5. \A m \in Nodes : Hand(m)' = Hand(m)
  BY <1>1 DEF Hand
<1>6. Ahead'
  <2>1. tgtLast' < next' /\ late' = {}
    BY <1>0, <1>1, <1>2 DEF Ahead
  <2>2. QED
    BY <1>1, <1>3, <2>1 DEF Ahead
<1>7. ASSUME NEW m \in Nodes PROVE QueueOrder(m)'
  <2>1. msgs[m] \in Seq(Nat) /\ Hand(m) \in SUBSET Nat
    BY <1>0, HasSequences
  <2>2. Ordered(Hand(m), msgs[m], tgtLast, next)
    BY DEF OrderInv, QueueOrder
  <2>3. /\ Ordered(Hand(m), msgs[m], tgtLast, next')
        /\ Ordered(Hand(m), Append(msgs[m], pending'), tgtLast, next')
    BY <1>0, <1>2, <2>1, <2>2, OrderedAppend
  <2>4. msgs'[m] = msgs[m] \/ msgs'[m] = Append(msgs[m], pending')
    BY <1>0, <1>4 DEF TypeOK
  <2>5. QED
    BY <1>1, <1>5, <2>3, <2>4 DEF QueueOrder
<1>8. ASSUME OneCopy PROVE OneCopy'
  <2>1. \A m \in Nodes : Nothing(m)
    BY <1>3, <1>8 DEF OneCopy
  <2>2. \A m \in Nodes : Hand(m)' = {} /\ (m # n => msgs'[m] = << >>)
    BY <1>0, <1>4, <1>5, <2>1 DEF Nothing, TypeOK
  <2>3. msgs'[n] = << >> \/ msgs'[n] = <<pending'>>
    BY <1>0, <1>4, <2>1 DEF Nothing, TypeOK
  <2>4. QED
    BY <1>1, <1>3, <2>2, <2>3 DEF OneCopy, Nothing
<1>9. QED
  BY <1>1, <1>6, <1>7, <1>8 DEF OrderInv

\* What is stored is the oldest message of all channels and hands.
LEMMA HandleOrder ==
  ASSUME TypeInv, OrderInv, Undisturbed,
         NEW n \in Nodes, Skip(n) \/ Store(n) \/ StoreFails(n)
  PROVE  OrderInv' /\ tgtLast <= tgtLast'
<1>0. TypeOK /\ Ahead /\ tgtLast \in Nat /\ next \in Nat /\ cur[n] \in Nat
  BY HasSequences DEF TypeInv, OrderInv
<1>1. /\ UNCHANGED <<exists, next, pending, due, msgs>>
      /\ late' = late
      /\ tgtLast' = tgtLast \/ tgtLast' = cur[n]
      /\ \A m \in Nodes : m # n => pc'[m] = pc[m] /\ cur'[m] = cur[m]
      /\ pc[n] = "handle"
      /\ \/ pc'[n] = "ack" /\ cur'[n] = cur[n]
         \/ pc'[n] = "idle"
  BY <1>0 DEF Skip, Store, StoreFails, Undisturbed, target, consumer, TypeOK
<1>2. /\ Hand(n) = {cur[n]} /\ Hand(n)' \in {{}, {cur[n]}}
      /\ \A m \in Nodes : m # n => Hand(m)' = Hand(m)
  BY <1>1 DEF Hand
<1>3. Ordered({cur[n]}, msgs[n], tgtLast, next)
  BY <1>2 DEF OrderInv, QueueOrder
<1>4. /\ tgtLast <= cur[n] /\ cur[n] < next
      /\ \A h \in {{}, {cur[n]}} : \A lo \in {tgtLast, cur[n]} :
           Ordered(h, msgs[n], lo, next)
  BY <1>0, <1>3, HasSequences, OrderedHand
<1>5. exists /\ ~Nothing(n)
  BY <1>0, <1>2 DEF Ahead, Nothing
<1>6. Ahead'
  <2>1. exists' /\ next' = next /\ pending' = pending /\ late' = {} /\ tgtLast' < next'
    BY <1>0, <1>1, <1>4, <1>5 DEF Ahead
  <2>2. QED
    BY <1>0, <2>1 DEF Ahead
<1>7. QueueOrder(n)'
  BY <1>1, <1>2, <1>4 DEF QueueOrder
<1>8. ASSUME NEW m \in Nodes, m # n PROVE QueueOrder(m)'
  <2>1. CASE tgtLast' = tgtLast
    BY <1>1, <1>2, <1>8, <2>1 DEF OrderInv, QueueOrder
  <2>2. CASE tgtLast' = cur[n]
    <3>1. Nothing(m)
      BY <1>5, <1>8 DEF Undisturbed, OrderInv, OneCopy
    <3>2. QED
      BY <1>1, <1>2, <1>8, <3>1 DEF Nothing, QueueOrder, Ordered
  <2>3. QED
    BY <1>1, <2>1, <2>2
<1>9. ASSUME OneCopy PROVE OneCopy'
  <2>1. \A m \in Nodes : Nothing(m) => Nothing(m)'
    BY <1>1, <1>2 DEF Nothing
  <2>2. /\ msgs[n] = << >> /\ Hand(n) = {pending}
        /\ pending # None /\ ~due
        /\ \A m \in Nodes : m # n => Nothing(m)
    BY <1>2, <1>5, <1>9 DEF OneCopy, Nothing
  <2>3. Nothing(n)' \/ (msgs'[n] = << >> /\ Hand(n)' = {pending'})
    BY <1>1, <1>2, <2>2 DEF Nothing
  <2>4. QED
    BY <1>1, <2>1, <2>2, <2>3 DEF OneCopy
<1>10. tgtLast <= tgtLast'
  BY <1>0, <1>1, <1>4
<1>11. QED
  BY <1>6, <1>7, <1>8, <1>9, <1>10 DEF OrderInv

\* A message moves from the channel into the hand.
LEMMA TakeOrder ==
  ASSUME TypeInv, OrderInv, NEW n \in Nodes, Take(n)
  PROVE  OrderInv' /\ tgtLast' = tgtLast
<1>0. TypeOK /\ Ahead /\ tgtLast \in Nat /\ next \in Nat
  BY HasSequences DEF TypeInv, OrderInv
<1>1. /\ UNCHANGED <<exists, next, pending, due>>
      /\ tgtLast' = tgtLast /\ late' = late
      /\ \A m \in Nodes : m # n =>
           pc'[m] = pc[m] /\ cur'[m] = cur[m] /\ msgs'[m] = msgs[m]
      /\ pc[n] = "idle" /\ pc'[n] = "handle" /\ cur'[n] = Head(msgs[n])
      /\ msgs[n] # << >> /\ msgs'[n] = Tail(msgs[n])
  BY <1>0 DEF Take, target, consumer, TypeOK
<1>2. /\ Hand(n) = {} /\ Hand(n)' = {Head(msgs[n])}
      /\ \A m \in Nodes : m # n => Hand(m)' = Hand(m)
  BY <1>1 DEF Hand
<1>3. Ahead'
  BY <1>0, <1>1, <1>2 DEF Ahead, Nothing
<1>4. QueueOrder(n)'
  BY <1>0, <1>1, <1>2, HasSequences, OrderedTake DEF OrderInv, QueueOrder
<1>5. ASSUME NEW m \in Nodes, m # n PROVE QueueOrder(m)'
  BY <1>1, <1>2, <1>5 DEF OrderInv, QueueOrder
<1>6. ASSUME OneCopy PROVE OneCopy'
  <2>1. msgs[n] = <<pending>> /\ pending # None /\ ~due
    BY <1>1, <1>2, <1>6 DEF OneCopy, Nothing
  <2>2. msgs'[n] = << >> /\ Hand(n)' = {pending}
    BY <1>1, <1>2, <2>1
  <2>3. \A m \in Nodes : m # n => Nothing(m) /\ Nothing(m)'
    BY <1>1, <1>2, <1>6 DEF OneCopy, Nothing
  <2>4. QED
    BY <1>1, <2>1, <2>2, <2>3 DEF OneCopy
<1>7. QED
  BY <1>1, <1>3, <1>4, <1>5, <1>6 DEF OrderInv

\* An acknowledgement and the end of a process take messages away, no more.
LEMMA PutAwayOrder ==
  ASSUME TypeInv, OrderInv, NEW n \in Nodes, Ack(n) \/ Restart(n)
  PROVE  OrderInv' /\ tgtLast' = tgtLast
<1>0. TypeOK /\ Ahead /\ tgtLast \in Nat /\ next \in Nat /\ cur[n] \in Nat
  BY HasSequences DEF TypeInv, OrderInv
<1>1. /\ UNCHANGED <<exists, next>>
      /\ tgtLast' = tgtLast /\ late' = late
      /\ \A m \in Nodes : m # n =>
           pc'[m] = pc[m] /\ cur'[m] = cur[m] /\ msgs'[m] = msgs[m]
      /\ pc'[n] = "idle"
      /\ msgs'[n] = << >> \/ (msgs'[n] = msgs[n] /\ Hand(n) = {cur[n]})
  BY <1>0 DEF Ack, Restart, target, consumer, TypeOK, Hand
<1>2. \/ pending' = pending /\ due' = due
      \/ pending' = None /\ msgs'[n] = msgs[n] /\ Hand(n) = {cur[n]}
  BY <1>0 DEF Ack, Acked, NotAcked, Restart, consumer, TypeOK, Hand
<1>3. Hand(n)' = {} /\ \A m \in Nodes : m # n => Hand(m)' = Hand(m)
  BY <1>1 DEF Hand
<1>4. \A m \in Nodes : Nothing(m) => Nothing(m)'
  BY <1>1, <1>3 DEF Nothing
<1>5. Ahead'
  BY <1>0, <1>1, <1>2, <1>4 DEF Ahead
<1>6. QueueOrder(n)'
  <2>1. CASE msgs'[n] = << >>
    BY <1>3, <2>1 DEF QueueOrder, Ordered
  <2>2. CASE msgs'[n] = msgs[n] /\ Hand(n) = {cur[n]}
    <3>1. Ordered({cur[n]}, msgs[n], tgtLast, next)
      BY <2>2 DEF OrderInv, QueueOrder
    <3>2. Ordered({}, msgs[n], tgtLast, next)
      BY <1>0, <3>1, HasSequences, OrderedHand
    <3>3. QED
      BY <1>1, <1>3, <2>2, <3>2 DEF QueueOrder
  <2>3. QED
    BY <1>1, <2>1, <2>2
<1>7. ASSUME NEW m \in Nodes, m # n PROVE QueueOrder(m)'
  BY <1>1, <1>3, <1>7 DEF OrderInv, QueueOrder
<1>8. ASSUME OneCopy PROVE OneCopy'
  <2>1. CASE pending' = pending /\ due' = due
    <3>1. Nothing(n)'
      BY <1>1, <1>3, <1>8 DEF OneCopy, Nothing
    <3>2. QED
      BY <1>1, <1>3, <1>4, <1>8, <2>1, <3>1 DEF OneCopy, Nothing
  <2>2. CASE pending' = None /\ msgs'[n] = msgs[n] /\ Hand(n) = {cur[n]}
    <3>1. ~Nothing(n) /\ msgs[n] = << >>
      BY <1>8, <2>2 DEF OneCopy, Nothing
    <3>2. \A m \in Nodes : Nothing(m)'
      BY <1>1, <1>3, <1>4, <1>8, <2>2, <3>1 DEF OneCopy, Nothing
    <3>3. QED
      BY <3>2 DEF OneCopy
  <2>3. QED
    BY <1>2, <2>1, <2>2
<1>9. QED
  BY <1>1, <1>5, <1>6, <1>7, <1>8 DEF OrderInv

\* A consumer is created once, before anything was delivered or stored.
LEMMA ConsumerOrder ==
  ASSUME TypeInv, OrderInv, Undisturbed,
         NEW n \in Nodes, HealthCheck(n) \/ CreateConsumer(n)
  PROVE  OrderInv' /\ tgtLast' = tgtLast
<1>0. TypeOK /\ Ahead
  BY DEF TypeInv, OrderInv
<1>1. /\ tgtLast' = tgtLast /\ late' = late /\ msgs' = msgs
      /\ \A m \in Nodes : Hand(m)' = Hand(m)
  BY <1>0 DEF HealthCheck, CreateConsumer, target, TypeOK, Hand
<1>2. \/ UNCHANGED consumer
      \/ /\ ~exists /\ pending' = None
         /\ exists' => next' = StartAt(n)
  BY DEF HealthCheck, CreateConsumer, NoConsumer, Undisturbed
<1>3. \A m \in Nodes : Nothing(m)' <=> Nothing(m)
  BY <1>1 DEF Nothing
<1>4. CASE UNCHANGED consumer
  BY <1>1, <1>3, <1>4 DEF OrderInv, Ahead, QueueOrder, OneCopy, consumer
<1>5. CASE ~exists /\ pending' = None /\ (exists' => next' = StartAt(n))
  <2>1. tgtLast = 0 /\ late = {} /\ \A m \in Nodes : Nothing(m)
    BY <1>0, <1>5 DEF Ahead, None
  <2>2. 0 < StartAt(n)
    BY <1>0, SourceCopierAssumption DEF StartAt, TypeOK, Seqs, None
  <2>3. exists' => tgtLast' < next'
    BY <1>1, <1>5, <2>1, <2>2
  <2>4. Ahead'
    BY <1>1, <1>3, <1>5, <2>1, <2>3 DEF Ahead, None
  <2>5. \A m \in Nodes : QueueOrder(m)'
    BY <1>3, <2>1 DEF Nothing, QueueOrder, Ordered
  <2>6. OneCopy'
    BY <1>3, <2>1 DEF OneCopy
  <2>7. QED
    BY <1>1, <2>4, <2>5, <2>6 DEF OrderInv
<1>6. QED
  BY <1>2, <1>4, <1>5

\* The order of the copies is kept by every step.
LEMMA StepOrder ==
  TypeInv /\ OrderInv /\ Undisturbed /\ [Next]_vars => OrderInv' /\ tgtLast <= tgtLast'
<1> SUFFICES ASSUME TypeInv, OrderInv, Undisturbed, [Next]_vars
             PROVE  OrderInv' /\ tgtLast <= tgtLast'
  OBVIOUS
<1>0. TypeOK /\ Ahead /\ tgtLast \in Nat
  BY SourceCopierAssumption DEF TypeInv, TypeOK, OrderInv, Seqs, None
<1>1. ASSUME UNCHANGED <<tgtLast, late, exists, next, pending, due, msgs, pc, cur>>
      PROVE  OrderInv' /\ tgtLast <= tgtLast'
  <2>1. \A m \in Nodes : Hand(m)' = Hand(m)
    BY <1>1 DEF Hand
  <2>2. QED
    BY <1>0, <1>1, <2>1 DEF OrderInv, Ahead, QueueOrder, OneCopy, Nothing
<1>2. CASE Publish \/ Ages \/ UNCHANGED vars
  BY <1>1, <1>2 DEF Publish, Ages, vars, target, consumer, node
<1>3. CASE Redeliver
  <2>1. /\ UNCHANGED <<tgtLast, late, exists, next, pending, msgs, pc, cur>>
        /\ pending # None
    BY <1>3 DEF Redeliver, target, node
  <2>2. \A m \in Nodes : Hand(m)' = Hand(m)
    BY <2>1 DEF Hand
  <2>3. Ahead' /\ \A m \in Nodes : QueueOrder(m)'
    BY <2>1, <2>2 DEF OrderInv, Ahead, QueueOrder, Nothing
  <2>4. ASSUME "redeliver" \notin Faults PROVE OneCopy'
    <3>1. \A m \in Nodes : /\ pending \notin {msgs[m][i] : i \in 1 .. Len(msgs[m])}
                           /\ pc[m] # "idle" => cur[m] # pending
      BY <1>3, <2>4 DEF Redeliver
    <3>2. ASSUME NEW m \in Nodes PROVE Nothing(m)
      <4>1. msgs[m] # <<pending>>
        BY <3>1, <3>2
      <4>2. Hand(m) # {pending}
        BY <3>1, <3>2 DEF Hand
      <4>3. QED
        BY <2>4, <4>1, <4>2 DEF OrderInv, OneCopy
    <3>3. QED
      BY <2>1, <2>2, <3>2 DEF OneCopy, Nothing
  <2>5. QED
    BY <1>0, <2>1, <2>3, <2>4 DEF OrderInv
<1>4. ~ConsumerLost /\ ~StoredLate
  BY <1>0 DEF ConsumerLost, StoredLate, Undisturbed, Ahead
<1>5. ASSUME NEW n \in Nodes, Node(n) PROVE OrderInv' /\ tgtLast <= tgtLast'
  <2>1. CASE Deliver(n) \/ Take(n) \/ Ack(n) \/ Restart(n)
    BY <1>0, <2>1, DeliverOrder, TakeOrder, PutAwayOrder
  <2>2. CASE Skip(n) \/ Store(n) \/ StoreFails(n)
    BY <2>2, HandleOrder
  <2>3. CASE HealthCheck(n) \/ CreateConsumer(n)
    BY <1>0, <2>3, ConsumerOrder
  <2>4. CASE Poll(n) \/ PullExpires(n) \/ Won(n) \/ Lost(n)
    BY <1>1, <2>4 DEF Poll, PullExpires, Won, Lost, target, consumer, node
  <2>5. QED
    BY <1>5, <2>1, <2>2, <2>3, <2>4 DEF Node
<1>6. QED
  BY <1>2, <1>3, <1>4, <1>5 DEF Next

\* Every copy follows the order of the source, over failed stores, lost answers and
\* acknowledgements, restarts and any change of leadership, as long as the consumer
\* exists and the AckWait is long enough (src_to_dest_copier.go:153-215, 241-246).
THEOREM OrderIsPreserved == Undisturbed => (Spec => OrderPreserved)
<1> SUFFICES ASSUME Undisturbed PROVE Spec => OrderPreserved
  OBVIOUS
<1>1. TypeInv /\ OrderInv /\ [Next]_vars => OrderInv' /\ [tgtLast' >= tgtLast]_vars
  <2>1. TypeInv => tgtLast \in Nat
    BY SourceCopierAssumption DEF TypeInv, TypeOK, Seqs, None
  <2>2. TypeInv /\ OrderInv /\ [Next]_vars => tgtLast <= tgtLast'
    BY StepOrder
  <2>3. TypeInv /\ OrderInv /\ [Next]_vars => tgtLast' >= tgtLast
    BY <2>2
  <2>4. QED
    BY <2>3, StepOrder
<1>2. QED
  BY <1>1, InitOrder, TypeInvariance, PTL DEF Spec, OrderPreserved
=============================================================================
