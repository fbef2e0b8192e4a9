-------------------------- MODULE TargetCopierProof --------------------------
(* Machine-checked proofs about TargetCopier, for every set of nodes and    *)
(* every bound: its types and StoodDown under all faults, and its promise   *)
(* to leave no gap under the faults that the gap detection covers.         *)
EXTENDS TargetCopier, TLAPS

-----------------------------------------------------------------------------
(* Under all faults.                                                       *)

\* What the types rest on: consumers start at a sequence, and only a message that
\* was taken from the channel is stored.
Started == \A n \in Nodes : exists[n] => next[n] >= 1
Holding == \A n \in Nodes : pc[n] = "store" => cur[n] \in Message

ConsumersOK == ConsumersTyped /\ Started
HandlersOK == HandlersTyped /\ Holding

TInv == TypeOK /\ Started /\ Holding

\* TInv is the conjunction of the typing of its groups of variables.
LEMMA Groups ==
  TInv <=> /\ StreamsTyped /\ ConsumersOK /\ ChannelsTyped /\ HandlersOK
           /\ SourcesTyped /\ SignalsTyped
BY DEF TInv, TypeOK, ConsumersOK, HandlersOK

LEMMA GroupsNext ==
  TInv' <=> /\ StreamsTyped' /\ ConsumersOK' /\ ChannelsTyped' /\ HandlersOK'
            /\ SourcesTyped' /\ SignalsTyped'
BY DEF TInv, TypeOK, ConsumersOK, HandlersOK

\* A group of variables that a step leaves alone keeps its types.
LEMMA Kept ==
  ASSUME TInv
  PROVE  /\ UNCHANGED <<srcLast, target>> => StreamsTyped'
         /\ UNCHANGED consumer => ConsumersOK'
         /\ UNCHANGED msgs => ChannelsTyped'
         /\ UNCHANGED <<pc, handler>> => HandlersOK'
         /\ UNCHANGED source => SourcesTyped'
         /\ UNCHANGED signals => SignalsTyped'
<1> USE Groups
<1>1. UNCHANGED <<srcLast, target>> => StreamsTyped'
  BY DEF target, StreamsTyped
<1>2. UNCHANGED consumer => ConsumersOK'
  BY DEF consumer, ConsumersOK, ConsumersTyped, Started
<1>3. UNCHANGED msgs => ChannelsTyped'
  BY DEF ChannelsTyped
<1>4. UNCHANGED <<pc, handler>> => HandlersOK'
  BY DEF handler, HandlersOK, HandlersTyped, Holding
<1>5. UNCHANGED source => SourcesTyped'
  BY DEF source, SourcesTyped
<1>6. UNCHANGED signals => SignalsTyped'
  BY DEF signals, SignalsTyped
<1>7. QED
  BY <1>1, <1>2, <1>3, <1>4, <1>5, <1>6

\* A consumer that is created or forgotten keeps the types.
LEMMA ConsumerTyped ==
  ASSUME TInv, NEW n \in Nodes, NewConsumer(n) \/ NoConsumer(n)
  PROVE  ConsumersOK'
<1> USE TargetCopierAssumption DEF None, ConsumersOK, ConsumersTyped, Started
<1>1. \A s \in Starts(n) : s \in Nat /\ s >= 1
  <2>1. \A s \in Configured : s \in Nat /\ s >= 1
    BY Groups DEF StreamsTyped, Configured
  <2>2. resumeSeq[n] \in Nat /\ resumeTime[n] \in Nat
    BY Groups DEF SourcesTyped
  <2>3. QED
    BY <2>1, <2>2 DEF Starts
<1>2. CASE NewConsumer(n)
  <2>1. PICK s \in Starts(n) : next' = [next EXCEPT ![n] = s]
    BY <1>2 DEF NewConsumer
  <2>2. QED
    BY <1>1, <1>2, <2>1, Groups DEF NewConsumer
<1>3. CASE NoConsumer(n)
  BY <1>3, Groups DEF NoConsumer
<1>4. QED
  BY <1>2, <1>3

\* Storing a message keeps the types.
LEMMA StoreTyped ==
  ASSUME TInv, NEW s \in Seqs, StoreIn(s), srcLast' = srcLast, late' \subseteq Seqs
  PROVE  StreamsTyped'
BY Groups, TargetCopierAssumption DEF StoreIn, StreamsTyped, None, Seqs

\* The message that a node stores.
LEMMA InHand ==
  ASSUME TInv, NEW n \in Nodes, pc[n] = "store"
  PROVE  cur[n].seq \in Seqs /\ cur[n].cseq \in Nat
BY DEF TInv, Holding, Message

\* Deliver numbers what it appends.
LEMMA DeliverTyped ==
  ASSUME TInv, NEW n \in Nodes, Deliver(n)
  PROVE  TInv'
<1> USE Groups
<1>1. /\ next[n] \in Seqs /\ cseq[n] \in Nat
  BY TargetCopierAssumption
     DEF ConsumersOK, ConsumersTyped, Started, StreamsTyped, Deliver, Seqs
<1>2. ConsumersOK'
  BY DEF ConsumersOK, ConsumersTyped, Started, Deliver
<1>3. ChannelsTyped'
  <2> DEFINE m == [seq |-> next[n], cseq |-> cseq[n] + 1]
  <2>0. cseq[n] + 1 \in Nat
    BY <1>1
  <2>1. m \in Message
    BY <1>1, <2>0, Zenon DEF Message
  <2>2. Append(msgs[n], m) \in Seq(Message)
    BY <2>1 DEF ChannelsTyped
  <2>3. msgs' = msgs \/ msgs' = [msgs EXCEPT ![n] = Append(msgs[n], m)]
    BY DEF Deliver
  <2> HIDE DEF m
  <2>4. QED
    BY <2>2, <2>3 DEF ChannelsTyped
<1>4. QED
  BY <1>2, <1>3, Kept, GroupsNext DEF Deliver, consumer, target, handler, source, signals

\* The channel holds messages, so Take hands on a message.
LEMMA TakeTyped ==
  ASSUME TInv, NEW n \in Nodes, Take(n)
  PROVE  TInv'
<1> USE Groups
<1>0. msgs[n] \in Seq(Message) /\ msgs[n] # << >>
  BY DEF ChannelsTyped, Take
<1>1. Head(msgs[n]) \in Message /\ Tail(msgs[n]) \in Seq(Message)
  BY <1>0
<1>2. ChannelsTyped'
  BY <1>1 DEF ChannelsTyped, Take
<1>3. HandlersOK'
  <2>1. CASE UNCHANGED <<pc, cur>>
    BY <2>1, Kept DEF Take, handler
  <2>2. CASE /\ pc' = [pc EXCEPT ![n] = "store"]
             /\ cur' = [cur EXCEPT ![n] = Head(msgs[n])]
    BY <1>1, <2>2 DEF HandlersOK, HandlersTyped, Holding, Take
  <2>3. QED
    BY <2>1, <2>2 DEF Take
<1>4. SourcesTyped'
  <2> DEFINE last == IF lastCSeq[n] # 0 /\ Head(msgs[n]).cseq # lastCSeq[n] + 1
                     THEN 1 ELSE lastCSeq[n]
  <2>1. lastCSeq' = lastCSeq \/ lastCSeq' = [lastCSeq EXCEPT ![n] = last]
    BY DEF Take
  <2>2. last \in Nat
    BY DEF SourcesTyped
  <2> HIDE DEF last
  <2>3. QED
    BY <2>1, <2>2 DEF SourcesTyped, Take
<1>5. SignalsTyped'
  BY DEF SignalsTyped, Take
<1>6. QED
  BY <1>2, <1>3, <1>4, <1>5, Kept, GroupsNext DEF Take, target, consumer

\* Recreate starts the consumer at some sequence.
LEMMA RecreateTyped ==
  ASSUME TInv, NEW n \in Nodes, Recreate(n)
  PROVE  TInv'
<1> USE Groups
<1>1. ConsumersOK'
  BY ConsumerTyped DEF Recreate
<1>2. HandlersOK'
  BY DEF HandlersOK, HandlersTyped, Holding, Recreate, handler
<1>3. SourcesTyped'
  <2>1. PICK b \in BOOLEAN : handle' = [handle EXCEPT ![n] = b]
    BY DEF Recreate
  <2>2. lastCSeq' = lastCSeq \/ lastCSeq' = [lastCSeq EXCEPT ![n] = 0]
    BY DEF Recreate
  <2>3. UNCHANGED <<resumeSeq, resumeTime>>
    BY DEF Recreate
  <2>4. handle' \in [Nodes -> BOOLEAN] /\ lastCSeq' \in [Nodes -> Nat]
    BY <2>1, <2>2 DEF SourcesTyped
  <2>5. QED
    BY <2>3, <2>4 DEF SourcesTyped
<1>4. QED
  BY <1>1, <1>2, <1>3, Kept, GroupsNext DEF Recreate, target

\* FindStart resumes behind a message of the target.
LEMMA FindStartTyped ==
  ASSUME TInv, NEW n \in Nodes, FindStart(n)
  PROVE  TInv'
<1> USE Groups
<1>1. HandlersOK'
  BY DEF HandlersOK, HandlersTyped, Holding, FindStart, handler
<1>2. SourcesTyped'
  <2> DEFINE seq == IF tgtLast = None THEN None ELSE tgtLast + 1
             time == IF tgtLast = None THEN purgedAt ELSE None
  <2>1. seq \in 0 .. MaxSeq + 1 /\ time \in 0 .. MaxSeq + 1
    BY TargetCopierAssumption DEF StreamsTyped, Seqs, None
  <2>2. /\ resumeSeq' = [resumeSeq EXCEPT ![n] = seq]
        /\ resumeTime' = [resumeTime EXCEPT ![n] = time]
        /\ UNCHANGED <<handle, lastCSeq>>
    BY DEF FindStart
  <2> HIDE DEF seq, time
  <2>3. QED
    BY <2>1, <2>2 DEF SourcesTyped
<1>3. QED
  BY <1>1, <1>2, Kept, GroupsNext DEF FindStart, target

\* WindowPasses changes what the target knows.
LEMMA WindowTyped ==
  ASSUME TInv, NEW n \in Nodes, WindowPasses(n)
  PROVE  TInv'
<1> USE Groups
<1>1. HandlersOK'
  BY DEF HandlersOK, HandlersTyped, Holding, WindowPasses
<1>2. QED
  BY <1>1, Kept, GroupsNext DEF WindowPasses

\* Unanswered stores the message in hand.
LEMMA UnansweredTyped ==
  ASSUME TInv, NEW n \in Nodes, Unanswered(n)
  PROVE  TInv'
<1> USE Groups
<1>1. StreamsTyped'
  BY InHand, StoreTyped, Kept DEF Unanswered, StreamsTyped, target
<1>2. HandlersOK'
  BY DEF HandlersOK, HandlersTyped, Holding, Unanswered
<1>3. QED
  BY <1>1, <1>2, Kept, GroupsNext DEF Unanswered

\* Stored resumes behind the message it stored.
LEMMA StoredTyped ==
  ASSUME TInv, NEW n \in Nodes, Stored(n)
  PROVE  TInv'
<1> USE Groups
<1>1. StreamsTyped'
  BY InHand, StoreTyped, Kept DEF Stored, StreamsTyped, target
<1>2. HandlersOK'
  BY TargetCopierAssumption DEF HandlersOK, HandlersTyped, Holding, Stored
<1>3. SourcesTyped'
  BY InHand, TargetCopierAssumption DEF SourcesTyped, Stored, Seqs
<1>4. QED
  BY <1>1, <1>2, <1>3, Kept, GroupsNext DEF Stored

\* Restart leaves at most the request for the message in hand behind.
LEMMA RestartTyped ==
  ASSUME TInv, NEW n \in Nodes, Restart(n)
  PROVE  TInv'
<1> USE Groups, TargetCopierAssumption
<1>1. StreamsTyped'
  BY InHand DEF Restart, StreamsTyped
<1>2. ConsumersOK'
  BY ConsumerTyped DEF Restart
<1>3. ChannelsTyped'
  BY DEF ChannelsTyped, Restart
<1>4. HandlersOK'
  BY DEF HandlersOK, HandlersTyped, Holding, Restart
<1>5. SourcesTyped'
  BY DEF SourcesTyped, Restart, None
<1>6. SignalsTyped'
  BY DEF SignalsTyped, Restart
<1>7. QED
  BY <1>1, <1>2, <1>3, <1>4, <1>5, <1>6, GroupsNext

\* Init establishes the types.
LEMMA InitTyped == Init => TInv
<1> SUFFICES ASSUME Init PROVE TInv
  OBVIOUS
<1> USE TargetCopierAssumption DEF None
<1>1. ChannelsTyped
  BY DEF Init, ChannelsTyped
<1>2. HandlersOK
  BY DEF Init, HandlersOK, HandlersTyped, Holding
<1>3. StreamsTyped /\ ConsumersOK /\ SourcesTyped /\ SignalsTyped
  BY DEF Init, StreamsTyped, ConsumersOK, ConsumersTyped, Started, SourcesTyped,
         SignalsTyped
<1>4. QED
  BY <1>1, <1>2, <1>3, Groups

\* Every step keeps the types.
LEMMA StepTyped == TInv /\ [Next]_vars => TInv'
<1> SUFFICES ASSUME TInv, [Next]_vars PROVE TInv'
  OBVIOUS
<1> USE Groups, GroupsNext, Kept
<1>1. CASE Publish
  <2>1. StreamsTyped'
    BY <1>1, TargetCopierAssumption DEF Publish, target, StreamsTyped
  <2>2. QED
    BY <1>1, <2>1 DEF Publish
<1>2. CASE StoredLate
  <2>1. StreamsTyped'
    BY <1>2, StoreTyped DEF StoredLate, StreamsTyped
  <2>2. QED
    BY <1>2, <2>1 DEF StoredLate
<1>3. CASE Purge
  <2>1. StreamsTyped'
    BY <1>3, TargetCopierAssumption DEF Purge, StreamsTyped, Seqs
  <2>2. QED
    BY <1>3, <2>1 DEF Purge
<1>4. ASSUME NEW n \in Nodes, Deliver(n) PROVE TInv'
  BY <1>4, DeliverTyped
<1>5. ASSUME NEW n \in Nodes, ConsumerLost(n) PROVE TInv'
  BY <1>5, ConsumerTyped DEF ConsumerLost
<1>6. ASSUME NEW n \in Nodes, Won(n) \/ Lost(n) PROVE TInv'
  <2>1. SignalsTyped'
    BY <1>6 DEF Won, Lost, SignalsTyped
  <2>2. QED
    BY <1>6, <2>1 DEF Won, Lost
<1>7. ASSUME NEW n \in Nodes, LostSeen(n) \/ ResetSeen(n) PROVE TInv'
  <2>1. ChannelsTyped'
    <3>1. msgs' = msgs \/ msgs' = [msgs EXCEPT ![n] = << >>]
      BY <1>7 DEF LostSeen, ResetSeen, ResetSubscription
    <3>2. << >> \in Seq(Message)
      OBVIOUS
    <3>3. QED
      BY <3>1, <3>2 DEF ChannelsTyped
  <2>2. ConsumersOK'
    BY <1>7, ConsumerTyped DEF LostSeen, ResetSeen, ResetSubscription
  <2>3. HandlersOK'
    BY <1>7 DEF LostSeen, ResetSeen, handler, HandlersOK, HandlersTyped, Holding
  <2>4. SourcesTyped'
    BY <1>7 DEF LostSeen, ResetSeen, ResetSubscription, SourcesTyped
  <2>5. SignalsTyped'
    BY <1>7 DEF LostSeen, ResetSeen, SignalsTyped
  <2>6. QED
    BY <1>7, <2>1, <2>2, <2>3, <2>4, <2>5 DEF LostSeen, ResetSeen
<1>8. ASSUME NEW n \in Nodes, WonSeen(n) \/ HealthTick(n) \/ LoadConsumer(n)
      PROVE  TInv'
  <2>1. HandlersOK'
    BY <1>8 DEF WonSeen, HealthTick, LoadConsumer, handler, HandlersOK,
                HandlersTyped, Holding
  <2>2. SignalsTyped'
    BY <1>8 DEF WonSeen, HealthTick, LoadConsumer, signals, SignalsTyped
  <2>3. QED
    BY <1>8, <2>1, <2>2 DEF WonSeen, HealthTick, LoadConsumer
<1>9. ASSUME NEW n \in Nodes, CheckFails(n) PROVE TInv'
  <2>1. HandlersOK'
    BY <1>9 DEF CheckFails, handler, HandlersOK, HandlersTyped, Holding
  <2>2. SourcesTyped'
    BY <1>9 DEF CheckFails, SourcesTyped
  <2>3. QED
    BY <1>9, <2>1, <2>2 DEF CheckFails
<1>10. ASSUME NEW n \in Nodes,
              \/ Take(n) \/ Recreate(n) \/ FindStart(n) \/ Unanswered(n)
              \/ WindowPasses(n) \/ Stored(n) \/ Restart(n)
       PROVE  TInv'
  BY <1>10, TakeTyped, RecreateTyped, FindStartTyped, UnansweredTyped, WindowTyped,
     StoredTyped, RestartTyped
<1>11. CASE UNCHANGED vars
  BY <1>11 DEF vars
<1>12. QED
  BY <1>1, <1>2, <1>3, <1>4, <1>5, <1>6, <1>7, <1>8, <1>9, <1>10, <1>11
     DEF Next, Loop

\* Every sequence in the target copier, in its channels and in its consumers is
\* one of the source stream's (target_initiated_copier.go:151-317).
THEOREM TypeCorrect == Spec => []TypeOK
<1>1. TInv => TypeOK
  BY DEF TInv
<1>2. QED
  BY <1>1, InitTyped, StepTyped, PTL DEF Spec

\* The part of StoodDown that is about one node.
Down(n) ==
  paused[n] /\ ~lostCh[n] =>
    /\ ~handle[n] /\ ~exists[n] /\ msgs[n] = << >>
    /\ pc[n] \notin {"check", "create", "recreate", "store"}

\* A node that saw its loss stays out of the way, under all faults
\* (target_initiated_copier.go:84-131, 133-137, 165-177).
THEOREM StandsDown == Spec => []StoodDown
<1>1. Init => StoodDown
  BY DEF Init, StoodDown
<1>2. TypeOK /\ StoodDown /\ [Next]_vars => StoodDown'
  <2> SUFFICES ASSUME TypeOK, StoodDown, [Next]_vars, NEW m \in Nodes PROVE Down(m)'
    BY DEF StoodDown, Down
  <2> USE DEF Down
  <2>0. Down(m)
    BY DEF StoodDown
  <2>t. HandlersTyped /\ SourcesTyped /\ SignalsTyped /\ ConsumersTyped
        /\ ChannelsTyped
    BY DEF TypeOK
  <2>1. ASSUME UNCHANGED <<consumer, msgs, pc, handle, paused, lostCh>>
        PROVE  Down(m)'
    BY <2>0, <2>1 DEF consumer
  <2>2. ASSUME Publish \/ StoredLate \/ Purge \/ UNCHANGED vars PROVE Down(m)'
    BY <2>1, <2>2 DEF Publish, StoredLate, Purge, vars, source, signals
  <2>3. ASSUME NEW n \in Nodes, Deliver(n) PROVE Down(m)'
    BY <2>0, <2>3, <2>t DEF Deliver, source, signals, ConsumersTyped, ChannelsTyped
  <2>4. ASSUME NEW n \in Nodes, ConsumerLost(n) PROVE Down(m)'
    BY <2>0, <2>4, <2>t DEF ConsumerLost, NoConsumer, source, signals, ConsumersTyped
  <2>5. ASSUME NEW n \in Nodes, Won(n) PROVE Down(m)'
    BY <2>0, <2>5, <2>t DEF Won, consumer, source, SignalsTyped
  <2>6. ASSUME NEW n \in Nodes, Lost(n) PROVE Down(m)'
    BY <2>0, <2>6, <2>t DEF Lost, consumer, source, SignalsTyped
  <2>7. ASSUME NEW n \in Nodes, LostSeen(n) PROVE Down(m)'
    BY <2>0, <2>7, <2>t DEF LostSeen, ResetSubscription, NoConsumer, SignalsTyped,
                            SourcesTyped, ConsumersTyped, ChannelsTyped
  <2>8. ASSUME NEW n \in Nodes, WonSeen(n) \/ HealthTick(n) PROVE Down(m)'
    BY <2>0, <2>8, <2>t DEF WonSeen, HealthTick, consumer, source, signals,
                            HandlersTyped
  <2>9. ASSUME NEW n \in Nodes, LoadConsumer(n) \/ CheckFails(n) \/ FindStart(n)
        PROVE  Down(m)'
    BY <2>0, <2>9, <2>t DEF LoadConsumer, CheckFails, FindStart, consumer, source,
                            signals, HandlersTyped, SourcesTyped
  <2>10. ASSUME NEW n \in Nodes, Recreate(n) PROVE Down(m)'
    <3>1. CASE m = n
      BY <2>0, <2>10, <3>1 DEF Recreate, signals
    <3>2. CASE m # n
      BY <2>0, <2>10, <3>2, <2>t DEF Recreate, NewConsumer, NoConsumer, signals,
                                     HandlersTyped, SourcesTyped, ConsumersTyped
    <3>3. QED
      BY <3>1, <3>2
  <2>11. ASSUME NEW n \in Nodes, ResetSeen(n) PROVE Down(m)'
    <3>1. CASE m = n
      BY <2>0, <2>11, <3>1, <2>t DEF ResetSeen, consumer
    <3>2. CASE m # n
      BY <2>0, <2>11, <3>2, <2>t DEF ResetSeen, ResetSubscription, NoConsumer, consumer,
                   HandlersTyped, SourcesTyped, ConsumersTyped, ChannelsTyped
    <3>3. QED
      BY <3>1, <3>2
  <2>12. ASSUME NEW n \in Nodes, Take(n) PROVE Down(m)'
    BY <2>0, <2>12, <2>t DEF Take, consumer, HandlersTyped, ChannelsTyped
  <2>13. ASSUME NEW n \in Nodes, Unanswered(n) \/ WindowPasses(n) \/ Stored(n)
         PROVE  Down(m)'
    BY <2>0, <2>13, <2>t DEF Unanswered, WindowPasses, Stored, consumer, source, signals,
                             HandlersTyped
  <2>14. ASSUME NEW n \in Nodes, Restart(n) PROVE Down(m)'
    BY <2>0, <2>14, <2>t DEF Restart, NoConsumer, HandlersTyped, SourcesTyped,
                             SignalsTyped, ConsumersTyped, ChannelsTyped
  <2>15. QED
    BY <2>2, <2>3, <2>4, <2>5, <2>6, <2>7, <2>8, <2>9, <2>10, <2>11, <2>12, <2>13,
       <2>14 DEF Next, Loop
<1>3. QED
  BY <1>1, <1>2, TypeCorrect, PTL DEF Spec

-----------------------------------------------------------------------------
(* Under the faults that the gap detection covers.                         *)

\* No message of the source is taken for a status message, and a fresh consumer
\* that starts at the beginning meets neither a lost message, nor leftovers of
\* another consumer, nor a target that was purged.
Covered ==
  /\ HeadersOnly = {} /\ StartOption = "sequence"
  /\ Faults \cap {"drop", "consumer", "api", "purge", "rewin"} = {}

\* All before s was stored: s may be stored next.
Reached(s) ==
  s \in Nat /\ StartSequence <= s /\ StartSequence .. s - 1 \subseteq stored

Due(s) == Reached(s) /\ s <= srcLast

\* The stream sequence before the first message of the node's consumer.
Base(n) == next[n] - cseq[n] - 1

TargetInv ==
  /\ \A s \in stored \cup late : Due(s)
  /\ tgtLast # None => tgtLast \in stored
  /\ purgedAt = None

ResumeInv(n) ==
  /\ resumeSeq[n] # 0 => Reached(resumeSeq[n])
  /\ resumeTime[n] = None

\* A consumer has a handle, and messages wait in the channel only with a consumer.
ConsumerInv(n) ==
  /\ exists[n] => handle[n] /\ Reached(Base(n) + 1)
  /\ ~exists[n] => msgs[n] = << >>
  /\ pc[n] \in {"create", "recreate"} => ~exists[n]

\* The messages in the channel are of the node's present consumer.
QueueInv(n) ==
  \A i \in 1 .. Len(msgs[n]) :
    /\ msgs[n][i].seq <= srcLast /\ msgs[n][i].cseq >= 1
    /\ msgs[n][i].seq = Base(n) + msgs[n][i].cseq

\* Without a last consumer sequence the first message is still to come.
FirstInv(n) ==
  exists[n] /\ lastCSeq[n] = 0 /\ ~lostCh[n] /\ pc[n] # "store" =>
    IF msgs[n] = << >> THEN cseq[n] = 0 ELSE msgs[n][1].cseq = 1

\* With one, the next message in its order is the one to resume from.
FollowInv(n) ==
  exists[n] /\ lastCSeq[n] # 0 /\ pc[n] # "store" =>
    resumeSeq[n] = Base(n) + lastCSeq[n] + 1

HandInv(n) ==
  pc[n] = "store" =>
    /\ Due(cur[n].seq) /\ cur[n].cseq >= 1
    /\ exists[n] => cur[n].seq = Base(n) + cur[n].cseq

SentInv(n) == sent[n] # "never" => pc[n] = "store" /\ cur[n].seq \in stored

LossInv(n) == lostCh[n] => paused[n]

NodeInv(n) ==
  /\ ResumeInv(n) /\ ConsumerInv(n) /\ QueueInv(n) /\ FirstInv(n) /\ FollowInv(n)
  /\ HandInv(n) /\ SentInv(n) /\ LossInv(n)

IInv == TInv /\ StoodDown /\ TargetInv /\ \A n \in Nodes : NodeInv(n)

\* What the next step leaves alone of a node.
Same(m) ==
  /\ exists'[m] = exists[m] /\ next'[m] = next[m] /\ cseq'[m] = cseq[m]
  /\ msgs'[m] = msgs[m] /\ pc'[m] = pc[m] /\ cur'[m] = cur[m] /\ sent'[m] = sent[m]
  /\ handle'[m] = handle[m] /\ resumeSeq'[m] = resumeSeq[m]
  /\ resumeTime'[m] = resumeTime[m] /\ lastCSeq'[m] = lastCSeq[m]
  /\ paused'[m] = paused[m] /\ lostCh'[m] = lostCh[m]

\* The source and what was stored only grow.
Grows == stored \subseteq stored' /\ srcLast <= srcLast'

\* What was reached stays reached.
LEMMA ReachedKept ==
  ASSUME TypeOK, TypeOK', Grows
  PROVE  \A s : (Reached(s) => Reached(s)') /\ (Due(s) => Due(s)')
BY DEF Grows, Reached, Due, TypeOK, StreamsTyped

\* The messages in a node's channel.
LEMMA Queued ==
  ASSUME TypeOK, NEW n \in Nodes
  PROVE  /\ msgs[n] \in Seq(Message)
         /\ \A i \in 1 .. Len(msgs[n]) : msgs[n][i].seq \in Nat /\ msgs[n][i].cseq \in Nat
<1>1. msgs[n] \in Seq(Message)
  BY DEF TypeOK, ChannelsTyped
<1>2. \A i \in 1 .. Len(msgs[n]) : msgs[n][i] \in Message
  BY <1>1
<1>3. \A m \in Message : m.seq \in Nat /\ m.cseq \in Nat
  BY TargetCopierAssumption DEF Message, Seqs
<1>4. QED
  BY <1>1, <1>2, <1>3

\* A node that a step leaves alone keeps its invariant.
LEMMA NodeKept ==
  ASSUME TypeOK, TypeOK', Grows, NEW m \in Nodes, NodeInv(m), Same(m)
  PROVE  NodeInv(m)'
<1> USE ReachedKept DEF NodeInv, Same
<1>1. Base(m)' = Base(m)
  BY DEF Base
<1>2. ResumeInv(m)' /\ LossInv(m)' /\ SentInv(m)'
  BY DEF ResumeInv, LossInv, SentInv, Grows
<1>3. ConsumerInv(m)'
  BY <1>1 DEF ConsumerInv
<1>4. QueueInv(m)'
  <2>1. \A i \in 1 .. Len(msgs[m]) : msgs[m][i].seq \in Int
    BY Queued
  <2>2. srcLast \in Int /\ srcLast' \in Int
    BY DEF TypeOK, StreamsTyped
  <2>3. QED
    BY <1>1, <2>1, <2>2 DEF QueueInv, Grows
<1>5. FirstInv(m)' /\ FollowInv(m)'
  BY <1>1 DEF FirstInv, FollowInv
<1>6. HandInv(m)'
  BY <1>1 DEF HandInv
<1>7. QED
  BY <1>2, <1>3, <1>4, <1>5, <1>6

\* The steps of one node leave the others alone.
LEMMA OthersSame ==
  ASSUME TypeOK, NEW n \in Nodes, NEW m \in Nodes, m # n,
         \/ Loop(n) \/ Restart(n) \/ Won(n) \/ Lost(n) \/ Deliver(n)
         \/ ConsumerLost(n)
  PROVE  Same(m)
<1> USE DEF Same, TypeOK, ConsumersTyped, ChannelsTyped, HandlersTyped, SourcesTyped,
            SignalsTyped
<1>1. CASE LostSeen(n) \/ ResetSeen(n)
  BY <1>1 DEF LostSeen, ResetSeen, ResetSubscription, NoConsumer, handler, consumer
<1>2. CASE WonSeen(n) \/ HealthTick(n) \/ LoadConsumer(n)
  BY <1>2 DEF WonSeen, HealthTick, LoadConsumer, consumer, handler, source, signals
<1>3. CASE FindStart(n) \/ CheckFails(n)
  BY <1>3 DEF FindStart, CheckFails, consumer, handler, signals
<1>4. CASE Recreate(n)
  BY <1>4 DEF Recreate, NewConsumer, NoConsumer, handler, signals
<1>5. CASE Take(n)
  BY <1>5 DEF Take, consumer
<1>6. CASE Unanswered(n) \/ WindowPasses(n) \/ Stored(n)
  BY <1>6 DEF Unanswered, WindowPasses, Stored, consumer, source, signals
<1>7. CASE Restart(n)
  BY <1>7 DEF Restart, NoConsumer
<1>8. CASE Won(n) \/ Lost(n)
  BY <1>8 DEF Won, Lost, consumer, handler, source
<1>9. CASE Deliver(n) \/ ConsumerLost(n)
  BY <1>9 DEF Deliver, ConsumerLost, NoConsumer, handler, source, signals
<1>10. QED
  BY <1>1, <1>2, <1>3, <1>4, <1>5, <1>6, <1>7, <1>8, <1>9 DEF Loop

\* What is stored was due, so the target grows without a gap.
LEMMA TargetStep ==
  ASSUME Covered, IInv, [Next]_vars, TypeOK'
  PROVE  TargetInv' /\ Grows
<1> USE DEF None
<1>0. TargetInv /\ TypeOK /\ \A n \in Nodes : HandInv(n)
  BY DEF IInv, TInv, NodeInv
<1>1. ASSUME NEW s, Due(s), StoreIn(s), late' \subseteq late, srcLast' = srcLast
      PROVE  TargetInv' /\ Grows
  BY <1>0, <1>1 DEF StoreIn, TargetInv, Due, Reached, Grows, TypeOK, StreamsTyped
<1>2. ASSUME UNCHANGED <<srcLast, stored, tgtLast, purgedAt>>,
             late' \subseteq late \/ \E s : Due(s) /\ late' = late \cup {s}
      PROVE  TargetInv' /\ Grows
  BY <1>0, <1>2 DEF TargetInv, Due, Reached, Grows, TypeOK, StreamsTyped
<1>3. CASE Publish
  BY <1>0, <1>3 DEF Publish, target, TargetInv, Due, Reached, Grows, TypeOK,
                    StreamsTyped
<1>4. CASE StoredLate
  <2>1. PICK s \in late : StoreIn(s) /\ late' = late \ {s} /\ srcLast' = srcLast
    BY <1>4 DEF StoredLate
  <2>2. QED
    BY <1>0, <1>1, <2>1 DEF TargetInv
<1>5. CASE Purge
  BY <1>5 DEF Purge, Covered
<1>6. ASSUME NEW n \in Nodes, Unanswered(n) \/ Stored(n) PROVE TargetInv' /\ Grows
  <2>1. Due(cur[n].seq) /\ late' = late /\ srcLast' = srcLast
    BY <1>0, <1>6 DEF Unanswered, Stored, HandInv
  <2>2. StoreIn(cur[n].seq) \/ UNCHANGED <<stored, tgtLast, purgedAt>>
    BY <1>6 DEF Unanswered, Stored
  <2>3. QED
    BY <1>1, <1>2, <2>1, <2>2
<1>7. ASSUME NEW n \in Nodes, Restart(n) PROVE TargetInv' /\ Grows
  BY <1>0, <1>2, <1>7 DEF Restart, HandInv
<1>8. ASSUME NEW n \in Nodes,
             \/ Deliver(n) \/ ConsumerLost(n) \/ Won(n) \/ Lost(n) \/ LostSeen(n)
             \/ WonSeen(n) \/ HealthTick(n) \/ FindStart(n) \/ LoadConsumer(n)
             \/ CheckFails(n) \/ Recreate(n) \/ ResetSeen(n) \/ Take(n)
             \/ WindowPasses(n)
      PROVE  UNCHANGED <<srcLast, target>>
  BY <1>8 DEF WindowPasses, Deliver, ConsumerLost, Won, Lost, LostSeen, WonSeen, HealthTick,
              FindStart, LoadConsumer, CheckFails, Recreate, ResetSeen, Take
<1>9. CASE UNCHANGED <<srcLast, target>>
  BY <1>2, <1>9 DEF target
<1>10. QED
  BY <1>3, <1>4, <1>5, <1>6, <1>7, <1>8, <1>9 DEF Next, Loop, vars

\* The numbers of a node.
LEMMA Numbers ==
  ASSUME TypeOK, NEW n \in Nodes
  PROVE  /\ srcLast \in Nat /\ next[n] \in Nat /\ cseq[n] \in Nat
         /\ resumeSeq[n] \in Nat /\ resumeTime[n] \in Nat /\ lastCSeq[n] \in Nat
BY TargetCopierAssumption DEF TypeOK, StreamsTyped, ConsumersTyped, SourcesTyped

\* Deliver: the message follows those the consumer sent before.
LEMMA DeliverNode ==
  ASSUME Covered, IInv, TypeOK', Grows, NEW n \in Nodes, Deliver(n)
  PROVE  NodeInv(n)'
<1> USE ReachedKept, Numbers DEF IInv, TInv, NodeInv
<1> DEFINE m == [seq |-> next[n], cseq |-> cseq[n] + 1]
<1>0. UNCHANGED <<srcLast, exists, pc, cur, sent, handle, resumeSeq, resumeTime,
                  lastCSeq, paused, lostCh>>
  BY DEF Deliver, handler, source, signals
<1>1. Base(n)' = Base(n)
  BY DEF Deliver, Base, TypeOK, ConsumersTyped
<1>2. ResumeInv(n)' /\ LossInv(n)' /\ HandInv(n)' /\ SentInv(n)' /\ FollowInv(n)'
  BY <1>0, <1>1 DEF ResumeInv, LossInv, HandInv, SentInv, FollowInv, Grows
<1>3. ConsumerInv(n)'
  BY <1>0, <1>1 DEF ConsumerInv, Deliver
<1>4. (msgs'[n] = msgs[n] /\ lastCSeq[n] # 0) \/ msgs'[n] = Append(msgs[n], m)
  BY DEF Deliver, MayDrop, Covered, TypeOK, ChannelsTyped
<1>5. m.seq <= srcLast /\ m.cseq >= 1 /\ m.seq = Base(n) + m.cseq
  BY DEF Deliver, Base
<1>6. /\ Len(Append(msgs[n], m)) = Len(msgs[n]) + 1
      /\ \A i \in 1 .. Len(msgs[n]) + 1 :
           Append(msgs[n], m)[i] = IF i = Len(msgs[n]) + 1 THEN m ELSE msgs[n][i]
      /\ msgs[n] = << >> <=> Len(msgs[n]) = 0
      /\ Len(msgs[n]) \in Nat
  BY Queued
<1> HIDE DEF m
<1>7. QueueInv(n)'
  <2>1. CASE msgs'[n] = msgs[n]
    BY <1>0, <1>1, <2>1 DEF QueueInv
  <2>2. CASE msgs'[n] = Append(msgs[n], m)
    BY <1>0, <1>1, <1>5, <1>6, <2>2 DEF QueueInv
  <2>3. QED
    BY <1>4, <2>1, <2>2
<1>8. FirstInv(n)'
  <2>1. CASE lastCSeq[n] # 0
    BY <1>0, <2>1 DEF FirstInv
  <2>2. CASE lastCSeq[n] = 0
    <3>1. msgs'[n] = Append(msgs[n], m)
      BY <1>4, <2>2
    <3>2. msgs'[n] # << >>
      BY <1>6, <3>1
    <3>3. CASE msgs[n] = << >>
      <4>1. msgs'[n][1] = m
        BY <1>6, <3>1, <3>3
      <4>2. QED
        BY <1>0, <3>2, <3>3, <4>1 DEF FirstInv, m
    <3>4. CASE msgs[n] # << >>
      <4>1. msgs'[n][1] = msgs[n][1]
        BY <1>6, <3>1, <3>4
      <4>2. QED
        BY <1>0, <3>2, <3>4, <4>1 DEF FirstInv
    <3>5. QED
      BY <3>3, <3>4
  <2>3. QED
    BY <2>1, <2>2
<1>9. QED
  BY <1>2, <1>3, <1>7, <1>8

\* Take: what is stored next was due, by the consumer sequences.
LEMMA TakeNode ==
  ASSUME Covered, IInv, TypeOK', Grows, NEW n \in Nodes, Take(n)
  PROVE  NodeInv(n)'
<1> USE ReachedKept, Numbers DEF IInv, TInv, NodeInv
<1> DEFINE m == Head(msgs[n])
<1>0. UNCHANGED <<srcLast, exists, next, cseq, sent, handle, resumeSeq, resumeTime,
                  paused, lostCh>>
  BY DEF Take, consumer
<1>1. Base(n)' = Base(n) /\ Base(n) \in Int
  BY <1>0 DEF Base
<1>2. /\ pc[n] = "idle" /\ msgs[n] # << >>
      /\ msgs'[n] = Tail(msgs[n])
  BY DEF Take, TypeOK, ChannelsTyped
<1>3. /\ Len(msgs[n]) >= 1 /\ m = msgs[n][1] /\ Len(msgs[n]) \in Nat
      /\ Len(Tail(msgs[n])) = Len(msgs[n]) - 1
      /\ \A i \in 1 .. Len(msgs[n]) - 1 : Tail(msgs[n])[i] = msgs[n][i + 1]
  BY <1>2, Queued
<1>4. /\ exists[n] /\ m.seq <= srcLast /\ m.cseq >= 1 /\ m.seq = Base(n) + m.cseq
      /\ m.seq \in Nat /\ m.cseq \in Nat
  BY <1>2, <1>3, Queued DEF QueueInv, ConsumerInv
<1> HIDE DEF m
<1>5. ResumeInv(n)' /\ LossInv(n)' /\ SentInv(n)'
  BY <1>0, <1>2 DEF ResumeInv, LossInv, SentInv
<1>6. ConsumerInv(n)'
  <2>1. pc'[n] \in {"idle", "store"}
    BY <1>2 DEF Take, TypeOK, HandlersTyped
  <2>2. QED
    BY <1>0, <1>1, <1>4, <2>1 DEF ConsumerInv
<1>7. QueueInv(n)'
  BY <1>0, <1>1, <1>2, <1>3 DEF QueueInv
<1>8. CASE paused[n]
  <2>1. UNCHANGED <<pc, cur, lastCSeq>> /\ lostCh[n]
    BY <1>2, <1>8 DEF Take, StoodDown
  <2>2. FirstInv(n)' /\ FollowInv(n)' /\ HandInv(n)'
    BY <1>0, <1>1, <1>2, <2>1 DEF FirstInv, FollowInv, HandInv
  <2>3. QED
    BY <1>5, <1>6, <1>7, <2>2
<1>9. CASE ~paused[n] /\ Gap(n, m)
  <2>1. UNCHANGED <<pc, cur, lastCSeq>> /\ lastCSeq[n] # 0
    BY <1>9 DEF Take, Gap, m, Covered
  <2>2. FirstInv(n)' /\ FollowInv(n)' /\ HandInv(n)'
    BY <1>0, <1>1, <1>2, <2>1 DEF FirstInv, FollowInv, HandInv
  <2>3. QED
    BY <1>5, <1>6, <1>7, <2>2
<1>10. CASE ~paused[n] /\ ~Gap(n, m)
  <2>1. pc'[n] = "store" /\ cur'[n] = m
    BY <1>10 DEF Take, Covered, TypeOK, HandlersTyped, m
  <2>2. ~lostCh[n]
    BY <1>10 DEF LossInv
  <2>3. Reached(m.seq)
    <3>1. CASE lastCSeq[n] = 0
      <4>1. m.cseq = 1
        BY <1>2, <1>3, <1>4, <2>2, <3>1 DEF FirstInv
      <4>2. QED
        BY <1>1, <1>4, <4>1 DEF ConsumerInv
    <3>2. CASE lastCSeq[n] # 0
      <4>1. resumeSeq[n] = Base(n) + lastCSeq[n] + 1
        BY <1>2, <1>4, <3>2 DEF FollowInv
      <4>2. m.seq = resumeSeq[n]
        BY <1>1, <1>4, <1>10, <3>2, <4>1 DEF Gap
      <4>3. resumeSeq[n] # 0
        BY <1>1, <1>4, <3>2, <4>1, <4>2, TargetCopierAssumption
           DEF ConsumerInv, Reached
      <4>4. QED
        BY <4>2, <4>3 DEF ResumeInv
    <3>3. QED
      BY <3>1, <3>2
  <2>4. FirstInv(n)' /\ FollowInv(n)'
    BY <2>1 DEF FirstInv, FollowInv
  <2>5. HandInv(n)'
    BY <1>0, <1>1, <1>4, <2>1, <2>3 DEF HandInv, Due
  <2>6. QED
    BY <1>5, <1>6, <1>7, <2>4, <2>5
<1>11. QED
  BY <1>8, <1>9, <1>10

\* Recreate: a new consumer starts where everything before it was stored.
LEMMA RecreateNode ==
  ASSUME Covered, IInv, TypeOK', Grows, NEW n \in Nodes, Recreate(n)
  PROVE  NodeInv(n)'
<1> USE ReachedKept, Numbers, TargetCopierAssumption DEF IInv, TInv, NodeInv, None
<1>0. /\ UNCHANGED <<srcLast, msgs, cur, sent, resumeSeq, resumeTime, paused, lostCh>>
      /\ pc[n] \in {"create", "recreate"}
      /\ pc'[n] = "idle"
  BY DEF Recreate, handler, signals, TypeOK, HandlersTyped
<1>1. /\ NewConsumer(n)
      /\ handle' = [handle EXCEPT ![n] = TRUE]
      /\ lastCSeq' = [lastCSeq EXCEPT ![n] = 0]
  BY DEF Recreate, Covered
<1>2. /\ exists'[n] /\ handle'[n] /\ lastCSeq'[n] = 0
      /\ next'[n] \in Starts(n) /\ cseq'[n] = 0
  BY <1>1 DEF NewConsumer, TypeOK, ConsumersTyped, SourcesTyped
<1>3. \A s \in Starts(n) : Reached(s) /\ s \in Nat
  BY DEF Starts, Configured, ResumeInv, Covered, Reached
<1>4. Reached(Base(n)' + 1)
  BY <1>2, <1>3 DEF Base
<1>5. msgs[n] = << >>
  BY <1>0 DEF ConsumerInv
<1>6. ResumeInv(n)' /\ LossInv(n)' /\ SentInv(n)'
  BY <1>0 DEF ResumeInv, LossInv, SentInv
<1>7. ConsumerInv(n)'
  BY <1>0, <1>2, <1>3, <1>4 DEF ConsumerInv
<1>8. QueueInv(n)' /\ FirstInv(n)' /\ FollowInv(n)' /\ HandInv(n)'
  BY <1>0, <1>2, <1>5 DEF QueueInv, FirstInv, FollowInv, HandInv
<1>9. QED
  BY <1>6, <1>7, <1>8

\* Stored: the next message in the consumer's order is the one to resume from.
LEMMA StoredNode ==
  ASSUME Covered, IInv, TypeOK', Grows, NEW n \in Nodes, Stored(n)
  PROVE  NodeInv(n)'
<1> USE ReachedKept, Numbers DEF IInv, TInv, NodeInv
<1>0. /\ UNCHANGED <<srcLast, exists, next, cseq, msgs, handle, resumeTime, paused,
                     lostCh>>
      /\ pc[n] = "store" /\ pc'[n] = "idle"
      /\ resumeSeq'[n] = cur[n].seq + 1 /\ lastCSeq'[n] = cur[n].cseq
      /\ sent'[n] = "never"
  BY DEF Stored, consumer, signals, TypeOK, HandlersTyped, SourcesTyped
<1>1. cur[n].seq \in Nat /\ cur[n].cseq \in Nat /\ cur[n].cseq >= 1
  BY <1>0, InHand, TargetCopierAssumption DEF HandInv, Seqs
<1>2. Base(n)' = Base(n) /\ Base(n) \in Int
  BY <1>0 DEF Base
<1>3. Due(cur[n].seq) /\ cur[n].seq \in stored'
  BY <1>0 DEF HandInv, SentInv, Stored, StoreIn, Grows
<1>4. \A s : s = cur[n].seq + 1 => Reached(s)'
  BY <1>1, <1>3, TargetCopierAssumption DEF Due, Reached, Grows
<1>5. ResumeInv(n)' /\ LossInv(n)' /\ SentInv(n)'
  BY <1>0, <1>4 DEF ResumeInv, LossInv, SentInv
<1>6. ConsumerInv(n)' /\ QueueInv(n)' /\ FirstInv(n)' /\ HandInv(n)'
  BY <1>0, <1>1, <1>2 DEF ConsumerInv, QueueInv, FirstInv, HandInv
<1>7. FollowInv(n)'
  BY <1>0, <1>1, <1>2 DEF FollowInv, HandInv
<1>8. QED
  BY <1>5, <1>6, <1>7

\* The steps that end a consumer.
LEMMA EndNode ==
  ASSUME Covered, IInv, TypeOK', Grows, NEW n \in Nodes,
         LostSeen(n) \/ ResetSeen(n) \/ ConsumerLost(n) \/ Restart(n)
  PROVE  NodeInv(n)'
<1> USE ReachedKept, Numbers DEF IInv, TInv, NodeInv, None
<1>1. CASE ResetSeen(n) /\ paused[n]
  <2>1. Same(n)
    BY <1>1 DEF ResetSeen, handler, consumer, Same
  <2>2. QED
    BY <2>1, NodeKept
<1>2. CASE LostSeen(n) \/ (ResetSeen(n) /\ ~paused[n]) \/ ConsumerLost(n) \/ Restart(n)
  <2>1. ~exists'[n] /\ msgs'[n] = << >>
    BY <1>2 DEF LostSeen, ResetSeen, ConsumerLost, Restart, ResetSubscription,
                NoConsumer, Covered, TypeOK, ConsumersTyped, ChannelsTyped
  <2>2. ConsumerInv(n)' /\ QueueInv(n)' /\ FirstInv(n)' /\ FollowInv(n)'
    BY <2>1 DEF ConsumerInv, QueueInv, FirstInv, FollowInv
  <2>3. /\ resumeSeq'[n] \in {resumeSeq[n], 0} /\ resumeTime'[n] \in {resumeTime[n], 0}
        /\ lostCh'[n] => lostCh[n] /\ paused'[n] = paused[n]
    BY <1>2 DEF LostSeen, ResetSeen, ConsumerLost, Restart, source, signals, TypeOK,
                SourcesTyped, SignalsTyped
  <2>4. ResumeInv(n)' /\ LossInv(n)'
    BY <2>3 DEF ResumeInv, LossInv
  <2>5. pc'[n] = "store" => pc[n] = "store" /\ cur'[n] = cur[n]
    BY <1>2 DEF LostSeen, ResetSeen, ConsumerLost, Restart, handler, TypeOK,
                HandlersTyped
  <2>6. sent'[n] # "never" =>
          sent[n] # "never" /\ pc'[n] = pc[n] /\ cur'[n] = cur[n]
    BY <1>2 DEF LostSeen, ResetSeen, ConsumerLost, Restart, handler, TypeOK,
                HandlersTyped, SentInv
  <2>7. HandInv(n)' /\ SentInv(n)'
    BY <2>1, <2>5, <2>6 DEF HandInv, SentInv, Grows
  <2>8. QED
    BY <2>2, <2>4, <2>7
<1>3. QED
  BY <1>1, <1>2

\* The steps of a health check before it creates a consumer, and of the callbacks.
LEMMA CheckNode ==
  ASSUME Covered, IInv, TypeOK', Grows, NEW n \in Nodes,
         \/ WonSeen(n) \/ HealthTick(n) \/ LoadConsumer(n) \/ FindStart(n)
         \/ Won(n) \/ Lost(n)
  PROVE  NodeInv(n)'
<1> USE ReachedKept, Numbers, TargetCopierAssumption DEF IInv, TInv, NodeInv, None
<1>1. UNCHANGED <<srcLast, exists, next, cseq, msgs, cur, sent, handle, lastCSeq>>
  BY DEF WonSeen, HealthTick, LoadConsumer, FindStart, Won, Lost, consumer, handler,
         source
<1>2. Base(n)' = Base(n)
  BY <1>1 DEF Base
<1>3. \/ pc'[n] = pc[n]
      \/ pc[n] # "store" /\ pc'[n] # "store"
  BY DEF WonSeen, HealthTick, LoadConsumer, FindStart, Won, Lost, TypeOK, HandlersTyped
<1>4. pc'[n] \in {"create", "recreate"} => pc'[n] = pc[n] \/ ~exists[n]
  BY DEF WonSeen, HealthTick, LoadConsumer, FindStart, Won, Lost, TypeOK,
         HandlersTyped, ConsumerInv
<1>5. \/ resumeSeq'[n] = resumeSeq[n] /\ resumeTime'[n] = resumeTime[n]
      \/ /\ ~exists[n] /\ resumeTime'[n] = 0
         /\ resumeSeq'[n] = 0 \/ (resumeSeq'[n] = tgtLast + 1 /\ tgtLast \in stored)
  BY DEF WonSeen, HealthTick, LoadConsumer, FindStart, Won, Lost, source, TypeOK,
         SourcesTyped, ConsumerInv, TargetInv
<1>6. /\ lostCh'[n] => paused'[n]
      /\ ~lostCh'[n] => ~lostCh[n]
  BY DEF WonSeen, HealthTick, LoadConsumer, FindStart, Won, Lost, signals, Covered,
         TypeOK, SignalsTyped, LossInv
<1>7. \A s : s \in stored => Reached(s + 1)
  BY DEF TargetInv, Due, Reached
<1>8. ResumeInv(n)'
  BY <1>5, <1>7 DEF ResumeInv
<1>9. ConsumerInv(n)' /\ QueueInv(n)'
  BY <1>1, <1>2, <1>4 DEF ConsumerInv, QueueInv
<1>10. FirstInv(n)' /\ FollowInv(n)'
  BY <1>1, <1>2, <1>3, <1>5, <1>6 DEF FirstInv, FollowInv
<1>11. HandInv(n)' /\ SentInv(n)' /\ LossInv(n)'
  BY <1>1, <1>2, <1>3, <1>6 DEF HandInv, SentInv, LossInv, Grows
<1>12. QED
  BY <1>8, <1>9, <1>10, <1>11

\* Unanswered and WindowPasses: at most the message in hand is stored.
LEMMA UnansweredNode ==
  ASSUME Covered, IInv, TypeOK', Grows, NEW n \in Nodes,
         Unanswered(n) \/ WindowPasses(n)
  PROVE  NodeInv(n)'
<1> USE ReachedKept, Numbers DEF IInv, TInv, NodeInv
<1>1. UNCHANGED <<srcLast, exists, next, cseq, msgs, pc, cur, handle, resumeSeq,
                  resumeTime, lastCSeq, paused, lostCh>>
  BY DEF Unanswered, WindowPasses, consumer, source, signals
<1>2. Base(n)' = Base(n)
  BY <1>1 DEF Base
<1>3. ResumeInv(n)' /\ ConsumerInv(n)' /\ QueueInv(n)' /\ LossInv(n)'
  BY <1>1, <1>2 DEF ResumeInv, ConsumerInv, QueueInv, LossInv
<1>4. FirstInv(n)' /\ FollowInv(n)' /\ HandInv(n)'
  BY <1>1, <1>2 DEF FirstInv, FollowInv, HandInv
<1>5. SentInv(n)'
  BY <1>1 DEF SentInv, Unanswered, WindowPasses, StoreIn, Grows, TypeOK, HandlersTyped
<1>6. QED
  BY <1>3, <1>4, <1>5

LEMMA InitIInv == Covered /\ Init => IInv
<1> SUFFICES ASSUME Covered, Init PROVE IInv
  OBVIOUS
<1>1. StoodDown
  BY DEF Init, StoodDown
<1>2. TargetInv
  BY DEF Init, TargetInv
<1>3. ASSUME NEW n \in Nodes PROVE NodeInv(n)
  <2>1. msgs[n] = << >> /\ ~exists[n] /\ pc[n] = "idle" /\ sent[n] = "never"
        /\ ~lostCh[n] /\ resumeSeq[n] = 0 /\ resumeTime[n] = 0
    BY DEF Init, None
  <2>2. QueueInv(n)
    BY <2>1 DEF QueueInv
  <2>3. QED
    BY <2>1, <2>2 DEF NodeInv, ResumeInv, ConsumerInv, FirstInv, FollowInv, HandInv,
                      SentInv, LossInv, None
<1>4. QED
  BY <1>1, <1>2, <1>3, InitTyped DEF IInv

\* Every step keeps the invariant of every node and of the target.
LEMMA StepIInv ==
  ASSUME Covered, IInv, [Next]_vars, TInv', StoodDown'
  PROVE  IInv'
<1>0. TypeOK /\ TypeOK' /\ Grows /\ TargetInv'
  BY TargetStep DEF IInv, TInv
<1>1. SUFFICES ASSUME NEW m \in Nodes PROVE NodeInv(m)'
  BY <1>0 DEF IInv
<1>2. ASSUME Same(m) PROVE NodeInv(m)'
  BY <1>0, <1>2, NodeKept DEF IInv
<1>3. CASE Publish \/ StoredLate \/ Purge \/ UNCHANGED vars
  BY <1>2, <1>3 DEF Publish, StoredLate, Purge, vars, consumer, handler, source,
                    signals, Same
<1>4. ASSUME NEW n \in Nodes,
             \/ Loop(n) \/ Restart(n) \/ Won(n) \/ Lost(n) \/ Deliver(n)
             \/ ConsumerLost(n)
      PROVE  NodeInv(m)'
  <2>1. CASE m # n
    BY <1>0, <1>2, <1>4, <2>1, OthersSame
  <2>2. CASE m = n
    <3>1. ~CheckFails(n)
      BY DEF CheckFails, Covered
    <3>2. QED
      BY <1>0, <1>4, <2>2, <3>1, DeliverNode, TakeNode, RecreateNode, StoredNode,
         EndNode, CheckNode, UnansweredNode DEF Loop
  <2>3. QED
    BY <2>1, <2>2
<1>5. QED
  BY <1>3, <1>4 DEF Next

LEMMA Invariance == Covered => (Spec => []IInv)
<1> SUFFICES ASSUME Covered PROVE Spec => []IInv
  OBVIOUS
<1>1. IInv /\ [Next]_vars /\ TInv' /\ StoodDown' => IInv'
  BY StepIInv
<1>2. Init => IInv
  BY InitIInv
<1>3. Spec => []TInv
  BY InitTyped, StepTyped, PTL DEF Spec
<1>4. QED
  BY <1>1, <1>2, <1>3, StandsDown, PTL DEF Spec

\* The target never has a gap, as long as the faults are those that the consumer
\* sequences can tell (target_initiated_copier.go:250-264, 310-311).
THEOREM NeverAGap == Covered => (Spec => []NoGaps)
<1>1. IInv => NoGaps
  <2> SUFFICES ASSUME IInv, NEW s \in stored PROVE StartSequence .. s \subseteq stored
    BY DEF NoGaps
  <2>1. Reached(s)
    BY DEF IInv, TargetInv, Due
  <2>2. QED
    BY <2>1, TargetCopierAssumption DEF Reached
<1>2. QED
  BY <1>1, Invariance, PTL

\* A step that stores a message stores the next one in order, or one that was
\* stored before.
LEMMA StepPromise == Covered /\ IInv /\ [Next]_vars => [R!RNext]_(R!rvars)
<1> SUFFICES ASSUME Covered, IInv, [Next]_vars PROVE [R!RNext]_(R!rvars)
  OBVIOUS
<1>0. TargetInv /\ TypeOK /\ \A n \in Nodes : HandInv(n)
  BY DEF IInv, TInv, NodeInv
<1>1. ASSUME NEW s, Due(s), stored' = stored \cup {s}, srcLast' = srcLast
      PROVE  [R!RNext]_(R!rvars)
  <2>1. CASE s \in stored
    BY <1>1, <2>1 DEF R!rvars
  <2>2. CASE s \notin stored
    <3>1. s \in StartSequence .. srcLast
      BY <1>0, <1>1, TargetCopierAssumption DEF Due, Reached, TypeOK, StreamsTyped
    <3>2. R!Handle(s)
      BY <1>1, <2>2 DEF R!Handle, Due, Reached
    <3>3. QED
      BY <3>1, <3>2 DEF R!RNext
  <2>3. QED
    BY <2>1, <2>2
<1>2. CASE Publish
  BY <1>2 DEF Publish, target, R!RNext, R!Published
<1>3. CASE StoredLate
  <2>1. PICK s \in late : stored' = stored \cup {s} /\ srcLast' = srcLast
    BY <1>3 DEF StoredLate, StoreIn
  <2>2. QED
    BY <1>0, <1>1, <2>1 DEF TargetInv
<1>4. CASE UNCHANGED <<srcLast, stored>>
  BY <1>4 DEF R!rvars
<1>5. ASSUME NEW n \in Nodes, Unanswered(n) \/ Stored(n) PROVE [R!RNext]_(R!rvars)
  <2>1. Due(cur[n].seq) /\ srcLast' = srcLast
    BY <1>0, <1>5 DEF Unanswered, Stored, HandInv
  <2>2. stored' = stored \/ stored' = stored \cup {cur[n].seq}
    BY <1>5 DEF Unanswered, Stored, StoreIn
  <2>3. QED
    BY <1>1, <1>4, <2>1, <2>2
<1>6. ASSUME NEW n \in Nodes,
             \/ Deliver(n) \/ ConsumerLost(n) \/ Won(n) \/ Lost(n) \/ LostSeen(n)
             \/ WonSeen(n) \/ HealthTick(n) \/ FindStart(n) \/ LoadConsumer(n)
             \/ CheckFails(n) \/ Recreate(n) \/ ResetSeen(n) \/ Take(n) \/ Restart(n)
             \/ WindowPasses(n)
      PROVE  UNCHANGED <<srcLast, stored>>
  BY <1>6 DEF WindowPasses, Deliver, ConsumerLost, Won, Lost, LostSeen, WonSeen, HealthTick,
              FindStart, LoadConsumer, CheckFails, Recreate, ResetSeen, Take, Restart,
              target
<1>7. CASE Purge \/ UNCHANGED vars
  BY <1>4, <1>7 DEF Purge, vars, target
<1>8. QED
  BY <1>2, <1>3, <1>4, <1>5, <1>6, <1>7 DEF Next, Loop

\* The target-initiated copier implements Replication, as long as the faults are
\* those that the consumer sequences can tell, for every interleaving of nodes.
THEOREM ImplementsReplication == Covered => (Spec => Promise)
<1> SUFFICES ASSUME Covered PROVE Spec => Promise
  OBVIOUS
<1>1. Init => R!RInit
  BY DEF Init, R!RInit
<1>2. IInv /\ [Next]_vars => [R!RNext]_(R!rvars)
  BY StepPromise
<1>3. QED
  BY <1>1, <1>2, Invariance, PTL DEF Spec, Promise, R!RSpec

-----------------------------------------------------------------------------
(* A single replicator.                                                    *)

\* Nobody else writes to the target, and no request outlives its process.
Lone ==
  /\ Covered /\ StartSequence = 1 /\ "late" \notin Faults
  /\ \A m, n \in Nodes : m = n

\* A node that was not told where to resume has nothing that could create or feed
\* a consumer without looking at the target first.
Blank(n) ==
  /\ resumeSeq[n] = 0 /\ lastCSeq[n] = 0
  /\ ~handle[n] /\ ~resetCh[n] /\ pc[n] \notin {"create", "recreate"}

\* Between two messages the node resumes right behind the last one of the target,
\* and so does a consumer none of whose messages was stored.
BehindInv(n) ==
  pc[n] # "store" =>
    /\ \/ resumeSeq[n] = tgtLast + 1
       \/ resumeSeq[n] = 0 /\ tgtLast = 0
       \/ Blank(n)
    /\ exists[n] /\ lastCSeq[n] = 0 => Base(n) = tgtLast

\* The message in hand follows the last one of the target until it is stored, and
\* then is that one, whether or not the target still knows its message id.
TurnInv(n) ==
  pc[n] = "store" =>
    cur[n].seq = IF sent[n] = "never" THEN tgtLast + 1 ELSE tgtLast

LoneNode(n) == BehindInv(n) /\ TurnInv(n)

LoneInv == late = {} /\ \A n \in Nodes : LoneNode(n)

\* Take: the message is the next one in order, by the consumer sequences.
LEMMA TakeLone ==
  ASSUME Lone, IInv, NEW n \in Nodes, LoneNode(n), Take(n)
  PROVE  LoneNode(n)'
<1> USE Numbers DEF IInv, TInv, NodeInv, LoneNode, Lone
<1> DEFINE m == Head(msgs[n])
<1>0. /\ pc[n] = "idle" /\ msgs[n] # << >> /\ sent[n] = "never"
      /\ UNCHANGED <<tgtLast, exists, next, cseq, sent, handle, resumeSeq, paused>>
  BY DEF Take, target, consumer, SentInv
<1>1. Base(n)' = Base(n) /\ Base(n) \in Int /\ tgtLast \in Nat
  BY <1>0, TargetCopierAssumption DEF Base, TypeOK, StreamsTyped, None, Seqs
<1>2. Len(msgs[n]) >= 1 /\ m = msgs[n][1] /\ Len(msgs[n]) \in Nat
  BY <1>0, Queued
<1>3. /\ exists[n] /\ m.cseq >= 1 /\ m.seq = Base(n) + m.cseq
      /\ m.seq \in Nat /\ m.cseq \in Nat
  BY <1>0, <1>2, Queued DEF QueueInv, ConsumerInv
<1> HIDE DEF m
<1>4. CASE paused[n] \/ Gap(n, m)
  <2>1. UNCHANGED <<pc, lastCSeq>>
    BY <1>4 DEF Take, Covered, m
  <2>2. /\ exists[n] => handle[n]
    BY DEF ConsumerInv
  <2>3. QED
    BY <1>0, <1>1, <1>3, <2>1, <2>2 DEF BehindInv, TurnInv, Blank
<1>5. CASE ~paused[n] /\ ~Gap(n, m)
  <2>1. pc'[n] = "store" /\ cur'[n] = m
    BY <1>5 DEF Take, Covered, TypeOK, HandlersTyped, m
  <2>2. m.seq = tgtLast + 1
    <3>1. CASE lastCSeq[n] = 0
      <4>1. m.cseq = 1
        BY <1>0, <1>2, <1>3, <1>5, <3>1 DEF FirstInv, LossInv
      <4>2. Base(n) = tgtLast
        BY <1>0, <1>3, <3>1 DEF BehindInv
      <4>3. QED
        BY <1>1, <1>3, <4>1, <4>2
    <3>2. CASE lastCSeq[n] # 0
      <4>1. resumeSeq[n] = Base(n) + lastCSeq[n] + 1
        BY <1>0, <1>3, <3>2 DEF FollowInv
      <4>2. m.seq = resumeSeq[n]
        BY <1>1, <1>3, <1>5, <3>2, <4>1 DEF Gap
      <4>3. resumeSeq[n] # 0
        BY <1>1, <1>3, <3>2, <4>1 DEF ConsumerInv, Reached
      <4>4. resumeSeq[n] = tgtLast + 1
        BY <1>0, <3>2, <4>3 DEF BehindInv, Blank
      <4>5. QED
        BY <4>2, <4>4
    <3>3. QED
      BY <3>1, <3>2
  <2>3. QED
    BY <1>0, <2>1, <2>2 DEF BehindInv, TurnInv
<1>6. QED
  BY <1>4, <1>5

\* Recreate: a consumer starts right behind the last message of the target.
LEMMA RecreateLone ==
  ASSUME Lone, IInv, NEW n \in Nodes, LoneNode(n), Recreate(n)
  PROVE  LoneNode(n)'
<1> USE Numbers DEF IInv, TInv, NodeInv, LoneNode, Lone, None
<1>0. /\ pc[n] \in {"create", "recreate"} /\ pc'[n] = "idle"
      /\ UNCHANGED <<tgtLast, resumeSeq>>
  BY DEF Recreate, target, TypeOK, HandlersTyped
<1>1. next'[n] \in Starts(n) /\ cseq'[n] = 0
  BY DEF Recreate, Covered, NewConsumer, TypeOK, ConsumersTyped
<1>2. tgtLast \in Nat
  BY TargetCopierAssumption DEF TypeOK, StreamsTyped, Seqs
<1>3. resumeSeq[n] = tgtLast + 1 \/ (resumeSeq[n] = 0 /\ tgtLast = 0)
  BY <1>0 DEF BehindInv, Blank
<1>4. \A s \in Starts(n) : s = tgtLast + 1
  BY <1>2, <1>3 DEF Starts, Configured, ResumeInv, Covered
<1>5. Base(n)' = tgtLast
  BY <1>1, <1>2, <1>4 DEF Base
<1>6. QED
  BY <1>0, <1>3, <1>5 DEF BehindInv, TurnInv

\* The message in hand is stored, once or, when the target forgot it, again: the
\* node resumes behind it.
LEMMA WriteLone ==
  ASSUME Lone, IInv, NEW n \in Nodes, LoneNode(n),
         Unanswered(n) \/ WindowPasses(n) \/ Stored(n)
  PROVE  LoneNode(n)'
<1> USE DEF IInv, TInv, LoneNode
<1>1. cur[n].seq \in Nat /\ cur[n].cseq \in Nat
  BY InHand, TargetCopierAssumption DEF Unanswered, WindowPasses, Stored, Seqs
<1>2. CASE Unanswered(n)
  <2>1. pc'[n] = "store" /\ cur' = cur /\ sent'[n] = "known" /\ tgtLast' = cur[n].seq
    BY <1>2 DEF Unanswered, StoreIn, TypeOK, HandlersTyped
  <2>2. QED
    BY <2>1 DEF BehindInv, TurnInv
<1>3. CASE Stored(n)
  <2>1. /\ pc[n] = "store" /\ pc'[n] = "idle"
        /\ resumeSeq'[n] = cur[n].seq + 1 /\ lastCSeq'[n] = cur[n].cseq
    BY <1>3 DEF Stored, TypeOK, HandlersTyped, SourcesTyped
  <2>2. tgtLast' = cur[n].seq
    BY <1>3, <2>1 DEF Stored, StoreIn, TurnInv
  <2>3. cur[n].cseq # 0
    BY <1>1, <2>1 DEF NodeInv, HandInv
  <2>4. QED
    BY <2>1, <2>2, <2>3 DEF BehindInv, TurnInv
<1>4. CASE WindowPasses(n)
  <2>1. /\ pc'[n] = "store" /\ cur' = cur /\ tgtLast' = tgtLast
        /\ sent[n] = "known" /\ sent'[n] = "forgotten"
    BY <1>4 DEF WindowPasses, target, TypeOK, HandlersTyped
  <2>2. QED
    BY <1>4, <2>1 DEF WindowPasses, BehindInv, TurnInv
<1>5. QED
  BY <1>2, <1>3, <1>4

\* The steps that end a consumer.
LEMMA EndLone ==
  ASSUME Lone, IInv, NEW n \in Nodes, LoneNode(n),
         LostSeen(n) \/ ResetSeen(n) \/ ConsumerLost(n) \/ Restart(n)
  PROVE  LoneNode(n)'
<1> USE DEF IInv, TInv, LoneNode, TypeOK, ConsumersTyped, HandlersTyped, SourcesTyped,
            SignalsTyped
<1>0. tgtLast' = tgtLast
  BY DEF LostSeen, ResetSeen, ConsumerLost, Restart, target
<1>1. CASE LostSeen(n)
  <2>1. /\ UNCHANGED <<pc, resumeSeq, lastCSeq, resetCh>>
        /\ pc[n] = "idle" /\ ~exists'[n] /\ ~handle'[n]
    BY <1>1 DEF LostSeen, ResetSubscription, NoConsumer
  <2>2. QED
    BY <1>0, <2>1 DEF BehindInv, TurnInv, Blank
<1>2. CASE ResetSeen(n)
  <2>1. /\ UNCHANGED <<resumeSeq, lastCSeq>>
        /\ pc[n] = "idle" /\ resetCh[n] /\ pc'[n] # "store"
    BY <1>2 DEF ResetSeen
  <2>2. ~exists'[n] \/ UNCHANGED consumer
    BY <1>2 DEF ResetSeen, ResetSubscription, NoConsumer
  <2>3. QED
    BY <1>0, <2>1, <2>2 DEF BehindInv, TurnInv, Blank, Base, consumer
<1>3. CASE ConsumerLost(n)
  <2>1. /\ UNCHANGED <<pc, cur, sent, handle, resumeSeq, lastCSeq, resetCh>>
        /\ ~exists'[n]
    BY <1>3 DEF ConsumerLost, NoConsumer, handler, source, signals
  <2>2. QED
    BY <1>0, <2>1 DEF BehindInv, TurnInv, Blank
<1>4. CASE Restart(n)
  <2>1. /\ resumeSeq'[n] = 0 /\ lastCSeq'[n] = 0 /\ pc'[n] = "idle"
        /\ ~handle'[n] /\ ~resetCh'[n] /\ ~exists'[n]
    BY <1>4 DEF Restart, NoConsumer, None
  <2>2. QED
    BY <2>1 DEF BehindInv, TurnInv, Blank
<1>5. QED
  BY <1>1, <1>2, <1>3, <1>4

\* The steps of a health check before it creates a consumer, of the callbacks and
\* of the consumer.
LEMMA CheckLone ==
  ASSUME Lone, IInv, NEW n \in Nodes, LoneNode(n),
         \/ WonSeen(n) \/ HealthTick(n) \/ LoadConsumer(n) \/ FindStart(n)
         \/ Won(n) \/ Lost(n) \/ Deliver(n)
  PROVE  LoneNode(n)'
<1> USE Numbers DEF IInv, TInv, LoneNode, TypeOK, ConsumersTyped, HandlersTyped,
                    SourcesTyped, None
<1>0. UNCHANGED <<tgtLast, exists, cur, sent, handle, lastCSeq, resetCh>>
  BY DEF WonSeen, HealthTick, LoadConsumer, FindStart, Won, Lost, Deliver, target,
         consumer, handler, source, signals
<1>1. Base(n)' = Base(n)
  BY DEF WonSeen, HealthTick, LoadConsumer, FindStart, Won, Lost, Deliver, consumer,
         Base
<1>2. pc'[n] = pc[n] \/ (pc[n] # "store" /\ pc'[n] # "store")
  BY DEF WonSeen, HealthTick, LoadConsumer, FindStart, Won, Lost, Deliver
<1>3. TurnInv(n)'
  BY <1>0, <1>2 DEF TurnInv
<1>4. CASE FindStart(n)
  <2>1. resumeSeq'[n] = IF tgtLast = 0 THEN 0 ELSE tgtLast + 1
    BY <1>4 DEF FindStart
  <2>2. pc[n] # "store" /\ ~exists[n]
    BY <1>4 DEF FindStart, NodeInv, ConsumerInv
  <2>3. QED
    BY <1>0, <1>3, <2>1, <2>2 DEF BehindInv
<1>5. CASE ~FindStart(n)
  <2>1. resumeSeq' = resumeSeq
    BY <1>5 DEF WonSeen, HealthTick, LoadConsumer, Won, Lost, Deliver, source
  <2>2. pc'[n] \in {"create", "recreate"} => pc'[n] = pc[n] \/ handle[n]
    BY <1>5 DEF WonSeen, HealthTick, LoadConsumer, Won, Lost, Deliver
  <2>3. QED
    BY <1>0, <1>1, <1>2, <1>3, <2>1, <2>2 DEF BehindInv, Blank
<1>6. QED
  BY <1>4, <1>5

\* Every step keeps the node right behind the target.
LEMMA StepLone ==
  ASSUME Lone, IInv, LoneInv, [Next]_vars
  PROVE  LoneInv'
<1> USE DEF LoneInv
<1>1. CASE Publish \/ UNCHANGED vars
  BY <1>1 DEF Publish, vars, target, consumer, handler, source, signals, LoneNode,
              BehindInv, TurnInv, Blank, Base
<1>2. CASE StoredLate \/ Purge
  BY <1>2 DEF StoredLate, Purge, Lone, Covered
<1>3. ASSUME NEW n \in Nodes,
             \/ Loop(n) \/ Restart(n) \/ Won(n) \/ Lost(n) \/ Deliver(n)
             \/ ConsumerLost(n)
      PROVE  LoneInv'
  <2>1. ~CheckFails(n)
    BY DEF CheckFails, Lone, Covered
  <2>2. LoneNode(n)'
    BY <1>3, <2>1, TakeLone, RecreateLone, WriteLone, EndLone, CheckLone DEF Loop
  <2>3. late' = late
    BY <1>3, <2>1 DEF Loop, LostSeen, WonSeen, HealthTick, FindStart, LoadConsumer,
       Recreate, ResetSeen, Take, Unanswered, WindowPasses, Stored, Restart, Won, Lost, Deliver,
       ConsumerLost, target, Lone
  <2>4. QED
    BY <2>2, <2>3 DEF Lone
<1>4. QED
  BY <1>1, <1>2, <1>3 DEF Next

\* A single replicator stores each message once and in order: it resumes right
\* behind the last message of the target after every restart, lost consumer,
\* repeated request and gap.  What it repeats beyond the duplicate window of the
\* target is stored again, right behind itself (target_initiated_copier.go:250-264,
\* 270-294, 310-311, 320-365).
THEOREM WritesOnceInOrder == Lone => (Spec => OnceInOrder)
<1> SUFFICES ASSUME Lone PROVE Spec => OnceInOrder
  OBVIOUS
<1>1. Init => LoneInv
  BY DEF Init, LoneInv, LoneNode, BehindInv, TurnInv, Lone, None
<1>2. IInv /\ LoneInv /\ [Next]_vars => LoneInv'
  BY StepLone
<1>3. IInv /\ LoneInv => \A n \in Nodes : Writes(n) => InTurn(n)
  BY DEF IInv, TInv, TypeOK, HandlersTyped, LoneInv, LoneNode, TurnInv, Writes, InTurn,
         Stored, Unanswered
<1>4. Spec => []IInv
  BY Invariance DEF Lone
<1>5. QED
  BY <1>1, <1>2, <1>3, <1>4, PTL DEF Spec, OnceInOrder
=============================================================================
