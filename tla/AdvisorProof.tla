---------------------------- MODULE AdvisorProof ----------------------------
(***************************************************************************)
(* What consumers are told, for any identities, intervals, number of tries *)
(* and length of the queue: a silence at most once, and never that a       *)
(* living identity is silent unless an advisory was lost or late.          *)
(***************************************************************************)
EXTENDS Advisor, TrackerProof

-----------------------------------------------------------------------------
(* The inductive invariant.                                                *)

Timeout(v) == [kind |-> "timeout", id |-> v]

\* Nothing runs before the state is loaded.
UpInv ==
  \A n \in Nodes : status[n] # "up" => calls[n] = {} /\ DOMAIN items[n] = {}

\* What was told is marked, and no other timeout of it is on its way.
ToldInv ==
  \A n \in Nodes, v \in Ids :
    told[v] => /\ status[n] = "up" /\ Timeout(v) \notin calls[n]
               /\ Tracked(n, v) => items[n][v].advised

\* The file knows of no later sighting than the table.
FileInv ==
  \A n \in Nodes, v \in Ids :
    v \in DOMAIN file[n] /\ Tracked(n, v) => file[n][v].seen >= items[n][v].seen

\* An identity the replicator knows, or will know when it loads its state, to live.
Fresh(n, v) ==
  \/ Tracked(n, v) /\ items[n][v].seen <= WarnAge
  \/ v \in DOMAIN file[n] /\ file[n][v].seen <= WarnAge

Good(a, v) == a # NoAdvisory /\ a.id = v /\ a.kind \in {"new", "recover"}
Bad(a, v) == a # NoAdvisory /\ a.id = v /\ a.kind \in Silent

\* Consumers will be told that v lives, after what stands at i in the queue.
ToldLater(n, v, i) ==
  \/ \E a \in calls[n] : Good(a, v)
  \/ \E j \in DOMAIN queue[n] : j > i /\ Good(queue[n][j], v)

\* Whatever is said of the silence of v is followed by its return.
Settles(n, v) ==
  /\ \A a \in calls[n] : ~Bad(a, v)
  /\ \A i \in DOMAIN queue[n] : Bad(queue[n][i], v) => ToldLater(n, v, i)
  /\ Bad(out[n], v) => ToldLater(n, v, 0)
  /\ view[v] \in Silent => ToldLater(n, v, 0) \/ (Good(out[n], v) /\ ~out[n].stored)

ViewInv == \A n \in Nodes, v \in Ids : Fresh(n, v) /\ ~missed[v] => Settles(n, v)

IInv == AdvisorTypeOK /\ UpInv /\ ToldInv /\ FileInv /\ ViewInv

-----------------------------------------------------------------------------
(* Types.                                                                  *)

\* There is one replicator.
LEMMA OneNode == \A m, n \in Nodes : m = n
  BY AdvisorAssumption

LEMMA TimeoutIs ==
  ASSUME NEW v \in Ids
  PROVE  Timeout(v) \in Advisories /\ Timeout(v).kind = "timeout" /\ Timeout(v).id = v
  BY DEF Timeout, Advisories, Kinds

\* No advisory is the lack of one.
LEMMA NotNone ==
  ASSUME NEW a \in Advisories \cup InHand
  PROVE  a # NoAdvisory /\ a.id \in Ids /\ a.kind \in Kinds
  BY DEF Advisories, InHand, NoAdvisory, Kinds

LEMMA MissesTyped ==
  ASSUME NEW S, Misses(S), missed \in [Ids -> BOOLEAN]
  PROVE  /\ missed' \in [Ids -> BOOLEAN]
         /\ \A v \in Ids : missed[v] => missed'[v]
         /\ \A v \in Ids : \A a \in S : a.id = v /\ a.kind # "timeout" => missed'[v]
  BY DEF Misses

LEMMA InitIInv == AdvisorInit => IInv
<1> SUFFICES ASSUME AdvisorInit PROVE IInv
  OBVIOUS
<1>1. AdvisorTypeOK
  <2>1. TrackerTypeOK
    <3>1. \A n \in Nodes : << >> \in Seq(Gossips)
      OBVIOUS
    <3> QED  BY <3>1, EmptyTable DEF AdvisorInit, TrackerInit, TrackerTypeOK
  <2>2. << >> \in Seq(Advisories) /\ Len(<< >>) <= QueueCap
    BY AdvisorAssumption
  <2>3. paused \in [Nodes -> BOOLEAN]
    BY AdvisorAssumption DEF AdvisorInit
  <2>4. queue \in [Nodes -> Seq(Advisories)] /\ \A n \in Nodes : Len(queue[n]) <= QueueCap
    BY <2>2 DEF AdvisorInit
  <2>5. told \in [Ids -> BOOLEAN] /\ missed \in [Ids -> BOOLEAN]
    BY DEF AdvisorInit
  <2> QED  BY <2>1, <2>3, <2>4, <2>5 DEF AdvisorInit, AdvisorTypeOK
<1>2. UpInv /\ ToldInv /\ FileInv
  BY EmptyTable DEF AdvisorInit, TrackerInit, UpInv, ToldInv, FileInv, Tracked
<1>3. ViewInv
  BY EmptyTable DEF AdvisorInit, TrackerInit, ViewInv, Fresh, Tracked
<1> QED  BY <1>1, <1>2, <1>3 DEF IInv

\* What a sighting calls back.
LEMMA SeenIs ==
  ASSUME NEW n \in Nodes, NEW v \in Ids
  PROVE  /\ Seen(n, v) \subseteq Advisories
         /\ \A a \in Seen(n, v) : Good(a, v)
         /\ ~Tracked(n, v) \/ Recovers(n, v) => Seen(n, v) # {}
<1>1. \A a \in Seen(n, v) : a = [kind |-> "new", id |-> v] \/ a = [kind |-> "recover", id |-> v]
  BY DEF Seen
<1>2. \A a \in Seen(n, v) : a \in Advisories /\ a.id = v /\ a.kind \in {"new", "recover"}
  BY <1>1 DEF Advisories, Kinds
<1>3. ~Tracked(n, v) \/ Recovers(n, v) => Seen(n, v) # {}
  BY DEF Seen
<1> QED  BY <1>2, <1>3, NotNone DEF Good

LEMMA HandleTyped ==
  ASSUME AdvisorTypeOK, NEW n \in Nodes, NEW v \in Ids, Handle(n, v)
  PROVE  /\ AdvisorTypeOK'
         /\ DOMAIN items'[n] = DOMAIN items[n] \cup {v}
         /\ items'[n][v].seen = 0
         /\ \A x \in DOMAIN items[n] \ {v} : items'[n][x] = items[n][x]
         /\ calls'[n] = calls[n] \cup Seen(n, v)
         /\ \A x \in Ids \ {v} : told'[x] = told[x] /\ missed'[x] = missed[x]
         /\ ~told'[v]
         /\ missed'[v] <=> \/ TooLate(n, v) \/ Overtaken(n, v)
                           \/ missed[v] /\ (Seen(n, v) = {} \/ About(Pending(n), v) # {})
<1>1. TrackerTypeOK /\ told \in [Ids -> BOOLEAN] /\ missed \in [Ids -> BOOLEAN]
  BY DEF AdvisorTypeOK
<1>2. PICK sz \in Sizes : RecordSeen(n, v, sz)
  BY DEF Handle
<1>3. /\ items' \in [Nodes -> Tables] /\ inbox' \in [Nodes -> Seq(Gossips)]
      /\ DOMAIN items'[n] = DOMAIN items[n] \cup {v}
      /\ items'[n][v].seen = 0
      /\ \A x \in DOMAIN items[n] \ {v} : items'[n][x] = items[n][x]
  BY <1>1, <1>2, RecordSeenTyped
<1>4. /\ calls' \in [Nodes -> SUBSET Advisories]
      /\ calls'[n] = calls[n] \cup Seen(n, v)
  BY SeenIs DEF Handle, AdvisorTypeOK
<1>5. told' \in [Ids -> BOOLEAN] /\ ~told'[v] /\ \A x \in Ids \ {v} : told'[x] = told[x]
  BY <1>1 DEF Handle
<1>6. PICK b \in BOOLEAN :
        b <=> \/ TooLate(n, v) \/ Overtaken(n, v)
              \/ missed[v] /\ (Seen(n, v) = {} \/ About(Pending(n), v) # {})
  OBVIOUS
<1>7. missed' = [missed EXCEPT ![v] = b]
  BY <1>1, <1>6, Zenon DEF Handle
<1>8. /\ missed' \in [Ids -> BOOLEAN] /\ missed'[v] = b
      /\ \A x \in Ids \ {v} : missed'[x] = missed[x]
  BY <1>1, <1>7
<1>9. TrackerTypeOK'
  BY <1>1, <1>3 DEF Handle, TrackerTypeOK
<1>10. AdvisorTypeOK'
  BY <1>4, <1>5, <1>8, <1>9 DEF Handle, AdvisorTypeOK
<1> QED  BY <1>3, <1>4, <1>5, <1>6, <1>8, <1>10

-----------------------------------------------------------------------------
(* Sightings and maintenance.                                              *)

LEMMA HandleKeeps ==
  ASSUME IInv, NEW n \in Nodes, NEW v \in Ids, Handle(n, v)
  PROVE  IInv'
<1>1. /\ AdvisorTypeOK'
      /\ DOMAIN items'[n] = DOMAIN items[n] \cup {v}
      /\ items'[n][v].seen = 0
      /\ \A x \in DOMAIN items[n] \ {v} : items'[n][x] = items[n][x]
      /\ calls'[n] = calls[n] \cup Seen(n, v)
      /\ \A x \in Ids \ {v} : told'[x] = told[x] /\ missed'[x] = missed[x]
      /\ ~told'[v]
      /\ missed'[v] <=> \/ TooLate(n, v) \/ Overtaken(n, v)
                        \/ missed[v] /\ (Seen(n, v) = {} \/ About(Pending(n), v) # {})
  BY HandleTyped DEF IInv
<1>2. /\ \A m \in Nodes : m = n
      /\ status[n] = "up" /\ UNCHANGED <<status, file, queue, out, view>>
      /\ Seen(n, v) \subseteq Advisories
      /\ \A a \in Seen(n, v) : Good(a, v)
      /\ ~Tracked(n, v) \/ Recovers(n, v) => Seen(n, v) # {}
  BY OneNode, SeenIs DEF Handle
<1>3. UpInv'
  BY <1>2 DEF UpInv
<1>4. ToldInv'
  <2>1. ASSUME NEW x \in Ids, told'[x]
        PROVE  /\ status'[n] = "up" /\ Timeout(x) \notin calls'[n]
               /\ Tracked(n, x)' => items'[n][x].advised
    <3>1. x # v /\ told[x]
      BY <1>1, <2>1
    <3>2. Timeout(x) \notin Seen(n, v)
      BY <1>2, <3>1, TimeoutIs DEF Good
    <3> QED  BY <1>1, <1>2, <3>1, <3>2 DEF IInv, ToldInv, Tracked
  <2> QED  BY <1>2, <2>1 DEF ToldInv
<1>5. FileInv'
  <2>1. ASSUME NEW x \in Ids, x \in DOMAIN file[n], x \in DOMAIN items'[n]
        PROVE  file[n][x].seen >= items'[n][x].seen
    <3>1. CASE x = v
      <4>1. file[n] \in Tables
        BY DEF IInv, AdvisorTypeOK, TrackerTypeOK
      <4>2. file[n][x] \in Item
        BY <2>1, <4>1, TableIs
      <4> QED  BY <1>1, <3>1, <4>2, TrackerAssumption DEF Item, Ages
    <3>2. CASE x # v
      BY <1>1, <2>1, <3>2 DEF IInv, FileInv, Tracked
    <3> QED  BY <3>1, <3>2
  <2> QED  BY <1>2, <2>1 DEF FileInv, Tracked
<1>6. ASSUME NEW x \in Ids, Fresh(n, x)', ~missed'[x]
      PROVE  Settles(n, x)'
  <2>1. CASE x # v
    <3>1. Fresh(n, x) /\ ~missed[x]
      BY <1>1, <1>2, <1>6, <2>1 DEF Fresh, Tracked
    <3>2. Settles(n, x)
      BY <3>1 DEF IInv, ViewInv
    <3>3. \A a \in Seen(n, v) : ~Bad(a, x)
      BY <1>2, <2>1 DEF Good, Bad
    <3> QED  BY <1>1, <1>2, <3>2, <3>3 DEF Settles, ToldLater
  <2>2. CASE x = v
    <3>1. /\ ~TooLate(n, v) /\ ~Overtaken(n, v)
          /\ missed[v] => Seen(n, v) # {} /\ About(Pending(n), v) = {}
      BY <1>1, <1>6, <2>2
    <3>2. \A a \in Seen(n, v) : ~Bad(a, v)
      BY <1>2 DEF Good, Bad, Silent
    <3>3. \A a \in calls[n] : ~Bad(a, v)
      BY <3>1 DEF Overtaken, Bad
    <3>4. \A a \in calls'[n] : ~Bad(a, v)
      BY <1>1, <3>2, <3>3
    <3>5. CASE Seen(n, v) # {}
      <4>1. \A i : ToldLater(n, v, i)'
        BY <1>1, <1>2, <3>5 DEF ToldLater
      <4> QED  BY <2>2, <3>4, <4>1 DEF Settles
    <3>6. CASE Seen(n, v) = {}
      <4>1. ~missed[v] /\ Tracked(n, v) /\ ~Recovers(n, v)
        BY <1>2, <3>1, <3>6
      <4>2. items[n][v].seen <= WarnAge
        <5>1. items[n][v].seen < Interval
          <6>1. items[n] \in Tables
            BY DEF IInv, AdvisorTypeOK, TrackerTypeOK
          <6>2. items[n][v] \in Item
            BY <4>1, <6>1, TableIs DEF Tracked
          <6> QED  BY <3>1, <4>1, <6>2, TrackerAssumption DEF TooLate, Item, Ages
        <5>2. items[n][v].seen \in Nat /\ WarnAge \in Nat
          <6>1. items[n] \in Tables
            BY DEF IInv, AdvisorTypeOK, TrackerTypeOK
          <6>2. items[n][v] \in Item
            BY <4>1, <6>1, TableIs DEF Tracked
          <6> QED  BY <6>2, TrackerAssumption DEF Item, Ages
        <5> QED  BY <4>1, <5>1, <5>2, AdvisorAssumption DEF Recovers, ItemOf
      <4>3. Settles(n, v)
        BY <4>1, <4>2 DEF IInv, ViewInv, Fresh
      <4> QED  BY <1>1, <1>2, <2>2, <3>4, <4>3 DEF Settles, ToldLater
    <3> QED  BY <3>5, <3>6
  <2> QED  BY <2>1, <2>2
<1>7. ViewInv'
  BY <1>2, <1>6 DEF ViewInv
<1> QED  BY <1>1, <1>3, <1>4, <1>5, <1>7 DEF IInv

\* A step that leaves callbacks, queue, publisher and consumers alone, and makes no
\* identity fresh.
LEMMA QuietView ==
  ASSUME IInv, UNCHANGED <<calls, queue, out, view, missed>>,
         \A n \in Nodes, v \in Ids : Fresh(n, v)' => Fresh(n, v)
  PROVE  ViewInv'
<1>1. ASSUME NEW n \in Nodes, NEW v \in Ids, Fresh(n, v)', ~missed'[v]
      PROVE  Settles(n, v)'
  <2>1. Settles(n, v)
    BY <1>1 DEF IInv, ViewInv
  <2> QED  BY <2>1 DEF Settles, ToldLater
<1> QED  BY <1>1 DEF ViewInv

LEMMA MaintainKeeps ==
  ASSUME IInv, NEW n \in Nodes, Maintain(n)
  PROVE  IInv'
<1> DEFINE New == {[kind |-> "expire", id |-> v] : v \in ToExpire(n)}
                    \cup {[kind |-> "timeout", id |-> v] : v \in ToWarn(n)}
<1>1. /\ TrackerTypeOK' /\ items'[n] = Scrubbed(items[n])
      /\ file' = file \/ file' = [file EXCEPT ![n] = Scrubbed(items[n])]
  BY SaveTyped DEF Maintain, IInv, AdvisorTypeOK
<1>2. /\ items[n] \in Tables /\ file \in [Nodes -> Tables]
      /\ DOMAIN items[n] \subseteq Ids
      /\ \A x \in DOMAIN items[n] : items[n][x] \in Item
      /\ DOMAIN items'[n] \subseteq DOMAIN items[n]
      /\ \A x \in DOMAIN items'[n] : items'[n][x] = items[n][x]
  <2>1. items[n] \in Tables /\ file \in [Nodes -> Tables]
    BY DEF IInv, AdvisorTypeOK, TrackerTypeOK
  <2> QED  BY <1>1, <2>1, TableIs, ScrubbedType
<1>3. /\ \A m \in Nodes : m = n
      /\ status[n] = "up" /\ UNCHANGED <<status, queue, out, paused, view, told, missed>>
  BY OneNode DEF Maintain, Save
<1>4. calls'[n] = calls[n] \cup New /\ calls' = [calls EXCEPT ![n] = calls[n] \cup New]
  BY DEF Maintain, IInv, AdvisorTypeOK
<1>5. \A v \in ToExpire(n) \cup ToWarn(n) :
        v \in DOMAIN items[n] /\ v \in Ids /\ items[n][v].seen > WarnAge
  <2>1. \A v \in ToExpire(n) : v \in DOMAIN items[n] /\ items[n][v].seen > Interval
    BY DEF ToExpire, Expired
  <2>2. \A v \in ToWarn(n) : v \in DOMAIN items[n] /\ items[n][v].seen > WarnAge
    BY DEF ToWarn
  <2>3. \A v \in DOMAIN items[n] : items[n][v].seen \in Nat
    BY <1>2, TrackerAssumption DEF Item, Ages
  <2> QED  BY <1>2, <2>1, <2>2, <2>3, TrackerAssumption
<1>6. /\ New \subseteq Advisories
      /\ \A a \in New : a.id \in DOMAIN items[n] /\ items[n][a.id].seen > WarnAge
      /\ \A v \in Ids : Timeout(v) \in New => v \in ToWarn(n)
  <2>1. \A a \in New : \/ \E v \in ToExpire(n) : a = [kind |-> "expire", id |-> v]
                       \/ \E v \in ToWarn(n) : a = [kind |-> "timeout", id |-> v]
    OBVIOUS
  <2>2. \A a \in New : a \in Advisories
    BY <1>5, <2>1 DEF Advisories, Kinds
  <2>3. \A a \in New : a.id \in ToExpire(n) \cup ToWarn(n)
    BY <2>1
  <2>4. \A v \in Ids : Timeout(v) \in New => v \in ToWarn(n)
    BY <2>1 DEF Timeout
  <2> QED  BY <1>5, <2>2, <2>3, <2>4
<1> HIDE DEF New
<1>7. AdvisorTypeOK'
  <2>1. calls' \in [Nodes -> SUBSET Advisories]
    BY <1>4, <1>6 DEF IInv, AdvisorTypeOK
  <2> QED  BY <1>1, <1>3, <2>1 DEF IInv, AdvisorTypeOK
<1>8. UpInv'
  BY <1>3 DEF UpInv
<1>9. ToldInv'
  <2>1. ASSUME NEW v \in Ids, told[v]
        PROVE  /\ Timeout(v) \notin calls'[n]
               /\ Tracked(n, v)' => items'[n][v].advised
    <3>1. Timeout(v) \notin calls[n] /\ (Tracked(n, v) => items[n][v].advised)
      BY <2>1 DEF IInv, ToldInv
    <3>2. v \notin ToWarn(n)
      BY <3>1 DEF ToWarn, Tracked
    <3> QED  BY <1>2, <1>4, <1>6, <3>1, <3>2 DEF Tracked
  <2> QED  BY <1>3, <2>1 DEF ToldInv
<1>10. ASSUME NEW v \in Ids, v \in DOMAIN file'[n]
       PROVE  \/ v \in DOMAIN items'[n] /\ file'[n][v] = items'[n][v]
              \/ v \in DOMAIN file[n] /\ file'[n][v] = file[n][v]
  BY <1>1, <1>2, <1>10
<1>11. FileInv'
  <2>1. ASSUME NEW v \in Ids, v \in DOMAIN file'[n], v \in DOMAIN items'[n]
        PROVE  file'[n][v].seen >= items'[n][v].seen
    <3>1. items'[n][v].seen \in Nat /\ items'[n][v] = items[n][v]
      BY <1>2, <2>1, TrackerAssumption DEF Item, Ages
    <3> QED  BY <1>2, <1>10, <2>1, <3>1 DEF IInv, FileInv, Tracked
  <2> QED  BY <1>3, <2>1 DEF FileInv, Tracked
<1>12. ASSUME NEW v \in Ids, Fresh(n, v)', ~missed'[v]
       PROVE  Settles(n, v)'
  <2>1. Fresh(n, v)
    BY <1>2, <1>10, <1>12 DEF Fresh, Tracked
  <2>2. Settles(n, v)
    BY <1>3, <1>12, <2>1 DEF IInv, ViewInv
  <2>3. ~(v \in DOMAIN items[n] /\ items[n][v].seen > WarnAge)
    <3>1. ASSUME v \in DOMAIN items[n], items[n][v].seen > WarnAge
          PROVE  FALSE
      <4>1. items[n][v].seen \in Nat /\ WarnAge \in Nat
        BY <1>2, <3>1, TrackerAssumption DEF Item, Ages
      <4>2. v \in DOMAIN file[n] /\ file[n][v].seen <= WarnAge
        BY <2>1, <3>1, <4>1 DEF Fresh
      <4>3. file[n][v].seen >= items[n][v].seen
        BY <3>1, <4>2 DEF IInv, FileInv, Tracked
      <4>4. file[n][v].seen \in Nat
        <5>1. file[n] \in Tables
          BY <1>2
        <5>2. file[n][v] \in Item
          BY <4>2, <5>1, TableIs
        <5> QED  BY <5>2, TrackerAssumption DEF Item, Ages
      <4> QED  BY <3>1, <4>1, <4>2, <4>3, <4>4
    <3> QED  BY <3>1
  <2>4. \A a \in New : ~Bad(a, v)
    BY <1>6, <2>3 DEF Bad
  <2> QED  BY <1>3, <1>4, <2>2, <2>4 DEF Settles, ToldLater
<1>13. ViewInv'
  BY <1>3, <1>12 DEF ViewInv
<1> QED  BY <1>7, <1>8, <1>9, <1>11, <1>13 DEF IInv

-----------------------------------------------------------------------------
(* The queue.                                                              *)

\* What the steps of the callbacks and of the publisher start from.
LEMMA QueueIs ==
  ASSUME IInv, NEW n \in Nodes
  PROVE  /\ \A m \in Nodes : m = n
         /\ queue[n] \in Seq(Advisories) /\ Len(queue[n]) \in Nat
         /\ DOMAIN queue[n] = 1 .. Len(queue[n])
         /\ calls[n] \subseteq Advisories
         /\ \A i \in DOMAIN queue[n] : queue[n][i] \in Advisories
         /\ out[n] \in InHand \cup {NoAdvisory}
<1>1. queue[n] \in Seq(Advisories) /\ calls[n] \subseteq Advisories
      /\ out[n] \in InHand \cup {NoAdvisory}
  BY DEF IInv, AdvisorTypeOK
<1> QED  BY <1>1, OneNode

\* An advisory that goes to the end of the queue is still to come.
LEMMA AppendLater ==
  ASSUME IInv, NEW n \in Nodes, NEW a \in calls[n],
         queue'[n] = Append(queue[n], a), calls'[n] = calls[n] \ {a},
         NEW v \in Ids, NEW i \in 0 .. Len(queue[n]), ToldLater(n, v, i)
  PROVE  ToldLater(n, v, i)'
<1>1. /\ queue[n] \in Seq(Advisories) /\ a \in Advisories /\ Len(queue[n]) \in Nat
      /\ DOMAIN queue[n] = 1 .. Len(queue[n])
  BY QueueIs
<1>2. /\ DOMAIN queue'[n] = 1 .. Len(queue[n]) + 1
      /\ queue'[n][Len(queue[n]) + 1] = a
      /\ \A j \in 1 .. Len(queue[n]) : queue'[n][j] = queue[n][j]
  BY <1>1, AppendProperties
<1>3. CASE \E b \in calls[n] : Good(b, v)
  <2>1. PICK b \in calls[n] : Good(b, v)
    BY <1>3
  <2>2. CASE b = a
    <3>1. Len(queue[n]) + 1 \in DOMAIN queue'[n] /\ Len(queue[n]) + 1 > i
      BY <1>1, <1>2
    <3> QED  BY <1>2, <2>1, <2>2, <3>1 DEF ToldLater, Good
  <2>3. CASE b # a
    BY <2>1, <2>3 DEF ToldLater, Good
  <2> QED  BY <2>2, <2>3
<1>4. CASE \E j \in DOMAIN queue[n] : j > i /\ Good(queue[n][j], v)
  <2>1. PICK j \in DOMAIN queue[n] : j > i /\ Good(queue[n][j], v)
    BY <1>4
  <2>2. j \in DOMAIN queue'[n] /\ queue'[n][j] = queue[n][j]
    BY <1>1, <1>2, <2>1
  <2> QED  BY <2>1, <2>2 DEF ToldLater, Good
<1> QED  BY <1>3, <1>4 DEF ToldLater

LEMMA EnqueueTyped ==
  ASSUME IInv, NEW n \in Nodes, NEW a \in calls[n], Enqueue(n, a)
  PROVE  /\ AdvisorTypeOK'
         /\ queue'[n] = Append(queue[n], a) /\ calls'[n] = calls[n] \ {a}
         /\ DOMAIN items'[n] = DOMAIN items[n]
         /\ \A x \in DOMAIN items[n] :
              /\ items'[n][x].seen = items[n][x].seen
              /\ items[n][x].advised => items'[n][x].advised
              /\ a = Timeout(x) => items'[n][x].advised
         /\ \A x \in Ids : told'[x] => told[x] \/ a = Timeout(x)
<1>1. TrackerTypeOK /\ told \in [Ids -> BOOLEAN] /\ a \in Advisories /\ a.id \in Ids
  BY QueueIs, NotNone DEF IInv, AdvisorTypeOK
<1>2. a.kind = "timeout" => a = Timeout(a.id)
  BY <1>1 DEF Advisories, Timeout
<1>3. /\ items' \in [Nodes -> Tables] /\ DOMAIN items'[n] = DOMAIN items[n]
      /\ \A x \in DOMAIN items[n] :
           /\ items'[n][x].seen = items[n][x].seen
           /\ items[n][x].advised => items'[n][x].advised
           /\ a = Timeout(x) => items'[n][x].advised
  <2>1. CASE a.kind = "timeout"
    <3>1. RecordAdvised(n, a.id)
      BY <2>1 DEF Enqueue
    <3>2. \A x : a = Timeout(x) => x = a.id
      BY DEF Timeout
    <3> QED  BY <1>1, <3>1, <3>2, RecordAdvisedTyped
  <2>2. CASE a.kind # "timeout"
    <3>1. items' = items
      BY <2>2 DEF Enqueue
    <3>2. \A x : a # Timeout(x)
      BY <2>2 DEF Timeout
    <3> QED  BY <1>1, <3>1, <3>2 DEF TrackerTypeOK
  <2> QED  BY <2>1, <2>2
<1>4. /\ told' \in [Ids -> BOOLEAN]
      /\ \A x \in Ids : told'[x] => told[x] \/ a = Timeout(x)
  <2>1. CASE a.kind = "timeout"
    <3>1. told' = [told EXCEPT ![a.id] = TRUE]
      BY <2>1 DEF Enqueue
    <3> QED  BY <1>1, <1>2, <2>1, <3>1
  <2>2. CASE a.kind # "timeout"
    BY <1>1, <2>2 DEF Enqueue
  <2> QED  BY <2>1, <2>2
<1>5. /\ calls' \in [Nodes -> SUBSET Advisories] /\ calls'[n] = calls[n] \ {a}
  BY DEF Enqueue, IInv, AdvisorTypeOK
<1>6. /\ queue' \in [Nodes -> Seq(Advisories)] /\ queue'[n] = Append(queue[n], a)
      /\ \A m \in Nodes : Len(queue'[m]) <= QueueCap
  <2>1. queue \in [Nodes -> Seq(Advisories)] /\ queue[n] \in Seq(Advisories)
    BY DEF IInv, AdvisorTypeOK
  <2>2. PICK q \in Seq(Advisories) : q = Append(queue[n], a) /\ Len(q) = Len(queue[n]) + 1
    <3>1. /\ Append(queue[n], a) \in Seq(Advisories)
          /\ Len(Append(queue[n], a)) = Len(queue[n]) + 1
      BY <1>1, <2>1, AppendProperties
    <3> QED  BY <3>1
  <2>3. queue' = [queue EXCEPT ![n] = q]
    BY <2>2 DEF Enqueue
  <2>4. Len(q) <= QueueCap
    BY <2>1, <2>2, AdvisorAssumption DEF Enqueue
  <2> QED  BY <2>1, <2>2, <2>3, <2>4, OneNode
<1>7. TrackerTypeOK'
  BY <1>1, <1>3 DEF Enqueue, TrackerTypeOK
<1>8. out' = out /\ paused' = paused /\ view' = view /\ missed' = missed
  BY DEF Enqueue
<1> QED  BY <1>3, <1>4, <1>5, <1>6, <1>7, <1>8 DEF IInv, AdvisorTypeOK

LEMMA EnqueueKeeps ==
  ASSUME IInv, NEW n \in Nodes, NEW a \in calls[n], Enqueue(n, a)
  PROVE  IInv'
<1>1. /\ AdvisorTypeOK'
      /\ queue'[n] = Append(queue[n], a) /\ calls'[n] = calls[n] \ {a}
      /\ DOMAIN items'[n] = DOMAIN items[n]
      /\ \A x \in DOMAIN items[n] :
           /\ items'[n][x].seen = items[n][x].seen
           /\ items[n][x].advised => items'[n][x].advised
           /\ a = Timeout(x) => items'[n][x].advised
      /\ \A x \in Ids : told'[x] => told[x] \/ a = Timeout(x)
  BY EnqueueTyped
<1>2. /\ \A m \in Nodes : m = n
      /\ queue[n] \in Seq(Advisories) /\ Len(queue[n]) \in Nat
      /\ DOMAIN queue[n] = 1 .. Len(queue[n])
      /\ a \in Advisories
      /\ UNCHANGED <<status, file, out, view, missed>>
      /\ status[n] = "up"
  BY QueueIs DEF Enqueue, IInv, UpInv
<1>3. UpInv'
  BY <1>2 DEF UpInv
<1>4. ToldInv'
  <2>1. ASSUME NEW x \in Ids, told'[x]
        PROVE  /\ Timeout(x) \notin calls'[n]
               /\ Tracked(n, x)' => items'[n][x].advised
    <3>1. CASE a = Timeout(x)
      BY <1>1, <3>1 DEF Tracked
    <3>2. CASE told[x]
      <4>1. Timeout(x) \notin calls[n] /\ (Tracked(n, x) => items[n][x].advised)
        BY <3>2 DEF IInv, ToldInv
      <4> QED  BY <1>1, <4>1 DEF Tracked
    <3> QED  BY <1>1, <2>1, <3>1, <3>2
  <2> QED  BY <1>2, <2>1 DEF ToldInv
<1>5. FileInv'
  BY <1>1, <1>2 DEF IInv, FileInv, Tracked
<1>6. ASSUME NEW v \in Ids, Fresh(n, v)', ~missed'[v]
      PROVE  Settles(n, v)'
  <2>1. Settles(n, v)
    <3>1. Fresh(n, v)
      BY <1>1, <1>2, <1>6 DEF Fresh, Tracked
    <3> QED  BY <1>2, <1>6, <3>1 DEF IInv, ViewInv
  <2>2. \A i \in 0 .. Len(queue[n]) : ToldLater(n, v, i) => ToldLater(n, v, i)'
    BY <1>1, AppendLater
  <2>3. 0 \in 0 .. Len(queue[n])
    BY <1>2
  <2>4. ASSUME NEW i \in DOMAIN queue'[n], Bad(queue'[n][i], v)
        PROVE  ToldLater(n, v, i)'
    <3>1. i \in 1 .. Len(queue[n]) + 1
      BY <1>1, <1>2, <2>4, AppendProperties
    <3>2. CASE i = Len(queue[n]) + 1
      <4>1. queue'[n][i] = a
        BY <1>1, <1>2, <3>2, AppendProperties
      <4> QED  BY <2>1, <2>4, <4>1 DEF Settles
    <3>3. CASE i \in 1 .. Len(queue[n])
      <4>1. queue'[n][i] = queue[n][i] /\ i \in DOMAIN queue[n]
        BY <1>1, <1>2, <3>3, AppendProperties
      <4>2. ToldLater(n, v, i)
        BY <2>1, <2>4, <4>1 DEF Settles
      <4> QED  BY <1>2, <2>2, <3>3, <4>2
    <3> QED  BY <1>2, <3>1, <3>2, <3>3
  <2>5. \A b \in calls'[n] : ~Bad(b, v)
    BY <1>1, <2>1 DEF Settles
  <2>6. /\ Bad(out'[n], v) => ToldLater(n, v, 0)'
        /\ view'[v] \in Silent => \/ ToldLater(n, v, 0)'
                                  \/ Good(out'[n], v) /\ ~out'[n].stored
    BY <1>2, <2>1, <2>2, <2>3 DEF Settles
  <2> QED  BY <2>4, <2>5, <2>6 DEF Settles, Bad, Good
<1>7. ViewInv'
  BY <1>2, <1>6 DEF ViewInv
<1> QED  BY <1>1, <1>3, <1>4, <1>5, <1>7 DEF IInv

\* A step of a callback or of the publisher that leaves the tracker alone has only to
\* keep types, and what consumers will be told.
LEMMA TrackerStays ==
  ASSUME IInv, UNCHANGED <<tracker, told>>, AdvisorTypeOK',
         \A n \in Nodes : calls'[n] \subseteq calls[n],
         \A v \in Ids : missed[v] => missed'[v],
         \A n \in Nodes, v \in Ids : Settles(n, v) /\ ~missed'[v] => Settles(n, v)'
  PROVE  IInv'
<1>1. UpInv' /\ ToldInv' /\ FileInv'
  BY DEF IInv, UpInv, ToldInv, FileInv, Tracked, tracker
<1>2. ViewInv'
  BY DEF IInv, ViewInv, Fresh, Tracked, tracker
<1> QED  BY <1>1, <1>2 DEF IInv

LEMMA OverflowKeeps ==
  ASSUME IInv, NEW n \in Nodes, NEW a \in calls[n], Overflow(n, a)
  PROVE  IInv'
<1>1. /\ \A m \in Nodes : m = n
      /\ a \in Advisories /\ Misses({a})
      /\ UNCHANGED <<tracker, queue, out, paused, view, told>>
  BY QueueIs DEF Overflow
<1>2. /\ calls' \in [Nodes -> SUBSET Advisories] /\ calls'[n] = calls[n] \ {a}
  BY DEF Overflow, IInv, AdvisorTypeOK
<1>3. /\ missed' \in [Ids -> BOOLEAN]
      /\ \A v \in Ids : missed[v] => missed'[v]
      /\ \A v \in Ids : a.id = v /\ a.kind # "timeout" => missed'[v]
  BY <1>1, MissesTyped DEF IInv, AdvisorTypeOK
<1>4. AdvisorTypeOK'
  BY <1>1, <1>2, <1>3 DEF IInv, AdvisorTypeOK, TrackerTypeOK, tracker
<1>5. ASSUME NEW v \in Ids, Settles(n, v), ~missed'[v]
      PROVE  Settles(n, v)'
  <2>1. ~Good(a, v)
    BY <1>3, <1>5 DEF Good
  <2>2. \A i : ToldLater(n, v, i) => ToldLater(n, v, i)'
    BY <1>1, <1>2, <2>1 DEF ToldLater, Good
  <2> QED  BY <1>1, <1>2, <1>5, <2>2 DEF Settles, Bad, Good
<1> QED  BY <1>1, <1>2, <1>3, <1>4, <1>5, TrackerStays

\* What follows an advisory still does when the head of the queue is taken.
LEMMA TailLater ==
  ASSUME IInv, NEW n \in Nodes, queue[n] # << >>, queue'[n] = Tail(queue[n]),
         calls'[n] = calls[n], NEW v \in Ids
  PROVE  /\ \A i \in Nat : ToldLater(n, v, i + 1) => ToldLater(n, v, i)'
         /\ ToldLater(n, v, 0) => ToldLater(n, v, 0)' \/ Good(Head(queue[n]), v)
         /\ \A i \in DOMAIN queue'[n] : /\ i \in Nat /\ i + 1 \in DOMAIN queue[n]
                                        /\ queue'[n][i] = queue[n][i + 1]
<1>1. /\ queue[n] \in Seq(Advisories) /\ Len(queue[n]) \in Nat
      /\ DOMAIN queue[n] = 1 .. Len(queue[n])
      /\ Head(queue[n]) = queue[n][1]
  BY QueueIs
<1>2. /\ queue'[n] \in Seq(Advisories) /\ Len(queue'[n]) = Len(queue[n]) - 1
      /\ \A i \in 1 .. Len(queue'[n]) : queue'[n][i] = queue[n][i + 1]
      /\ DOMAIN queue'[n] = 1 .. Len(queue'[n])
  BY <1>1, HeadTailProperties
<1>3. ASSUME NEW j \in DOMAIN queue[n], j > 1
      PROVE  j - 1 \in DOMAIN queue'[n] /\ queue'[n][j - 1] = queue[n][j]
  <2>1. j - 1 \in 1 .. Len(queue'[n]) /\ (j - 1) + 1 = j
    BY <1>1, <1>2, <1>3
  <2> QED  BY <1>2, <2>1
<1>4. ASSUME NEW i \in Nat, ToldLater(n, v, i + 1)
      PROVE  ToldLater(n, v, i)'
  <2>1. CASE \E a \in calls[n] : Good(a, v)
    BY <2>1 DEF ToldLater, Good
  <2>2. CASE \E j \in DOMAIN queue[n] : j > i + 1 /\ Good(queue[n][j], v)
    <3>1. PICK j \in DOMAIN queue[n] : j > i + 1 /\ Good(queue[n][j], v)
      BY <2>2
    <3>2. j > 1 /\ j - 1 > i
      BY <1>1, <3>1
    <3>3. j - 1 \in DOMAIN queue'[n] /\ Good(queue'[n][j - 1], v)
      BY <1>3, <3>1, <3>2
    <3> QED  BY <3>2, <3>3 DEF ToldLater, Good
  <2> QED  BY <1>4, <2>1, <2>2 DEF ToldLater
<1>5. ASSUME ToldLater(n, v, 0), ~Good(Head(queue[n]), v)
      PROVE  ToldLater(n, v, 0)'
  <2>1. ToldLater(n, v, 0 + 1)
    <3>1. CASE \E a \in calls[n] : Good(a, v)
      BY <3>1 DEF ToldLater
    <3>2. CASE \E j \in DOMAIN queue[n] : j > 0 /\ Good(queue[n][j], v)
      <4>1. PICK j \in DOMAIN queue[n] : j > 0 /\ Good(queue[n][j], v)
        BY <3>2
      <4>2. j # 1
        BY <1>1, <1>5, <4>1
      <4>3. j > 0 + 1
        BY <1>1, <4>1, <4>2
      <4> QED  BY <4>1, <4>3 DEF ToldLater
    <3> QED  BY <1>5, <3>1, <3>2 DEF ToldLater
  <2> QED  BY <1>4, <2>1
<1>6. ASSUME NEW i \in DOMAIN queue'[n]
      PROVE  i \in Nat /\ i + 1 \in DOMAIN queue[n] /\ queue'[n][i] = queue[n][i + 1]
  BY <1>1, <1>2, <1>6
<1> QED  BY <1>4, <1>5, <1>6

\* The head of the queue and what is left of it.
LEMMA TailTyped ==
  ASSUME IInv, NEW n \in Nodes, queue[n] # << >>,
         queue' = [queue EXCEPT ![n] = Tail(@)]
  PROVE  /\ queue' \in [Nodes -> Seq(Advisories)] /\ queue'[n] = Tail(queue[n])
         /\ \A m \in Nodes : Len(queue'[m]) <= QueueCap
         /\ Head(queue[n]) \in Advisories /\ Head(queue[n]) = queue[n][1]
         /\ 1 \in DOMAIN queue[n]
<1>1. /\ queue \in [Nodes -> Seq(Advisories)] /\ queue[n] \in Seq(Advisories)
      /\ Len(queue[n]) <= QueueCap /\ Len(queue[n]) \in Nat
  BY DEF IInv, AdvisorTypeOK
<1>2. /\ Tail(queue[n]) \in Seq(Advisories) /\ Len(Tail(queue[n])) = Len(queue[n]) - 1
      /\ Head(queue[n]) \in Advisories /\ Head(queue[n]) = queue[n][1]
      /\ 1 \in DOMAIN queue[n]
  BY <1>1, HeadTailProperties
<1>3. PICK q \in Seq(Advisories) : q = Tail(queue[n])
  BY <1>2
<1>4. queue' = [queue EXCEPT ![n] = q] /\ Len(q) <= QueueCap
  BY <1>1, <1>2, <1>3, AdvisorAssumption
<1> QED  BY <1>1, <1>2, <1>3, <1>4, OneNode

-----------------------------------------------------------------------------
(* The publisher.                                                          *)

LEMMA TakeKeeps ==
  ASSUME IInv, NEW n \in Nodes, Take(n)
  PROVE  IInv'
<1> DEFINE a == Head(queue[n])
           o == [kind |-> a.kind, id |-> a.id, tries |-> 0, stored |-> FALSE]
<1>1. /\ \A m \in Nodes : m = n
      /\ out[n] = NoAdvisory /\ queue[n] # << >>
      /\ queue' = [queue EXCEPT ![n] = Tail(@)]
      /\ out' = [out EXCEPT ![n] = o]
      /\ UNCHANGED <<tracker, calls, paused, view, told, missed>>
  BY OneNode DEF Take
<1>2. /\ queue' \in [Nodes -> Seq(Advisories)] /\ queue'[n] = Tail(queue[n])
      /\ \A m \in Nodes : Len(queue'[m]) <= QueueCap
      /\ a \in Advisories /\ a = queue[n][1] /\ 1 \in DOMAIN queue[n]
  BY <1>1, TailTyped
<1>3. o \in InHand /\ o.kind = a.kind /\ o.id = a.id /\ ~o.stored
  BY <1>2, AdvisorAssumption DEF InHand, Advisories
<1> HIDE DEF o
<1>4. out' \in [Nodes -> InHand \cup {NoAdvisory}] /\ out'[n] = o
  BY <1>1, <1>3 DEF IInv, AdvisorTypeOK
<1>5. AdvisorTypeOK'
  BY <1>1, <1>2, <1>4 DEF IInv, AdvisorTypeOK, TrackerTypeOK, tracker
<1>6. \A v \in Ids : /\ Good(o, v) <=> Good(a, v)
                     /\ Bad(o, v) <=> Bad(a, v)
  BY <1>2, <1>3, NotNone DEF Good, Bad
<1>7. ASSUME NEW v \in Ids, Settles(n, v)
      PROVE  Settles(n, v)'
  <2>1. /\ \A i \in Nat : ToldLater(n, v, i + 1) => ToldLater(n, v, i)'
        /\ ToldLater(n, v, 0) => ToldLater(n, v, 0)' \/ Good(a, v)
        /\ \A i \in DOMAIN queue'[n] : /\ i \in Nat /\ i + 1 \in DOMAIN queue[n]
                                       /\ queue'[n][i] = queue[n][i + 1]
    BY <1>1, <1>2, TailLater
  <2>2. Bad(o, v) => ToldLater(n, v, 0)'
    <3>1. Bad(o, v) => ToldLater(n, v, 0 + 1)
      BY <1>2, <1>6, <1>7 DEF Settles
    <3> QED  BY <2>1, <3>1
  <2>3. ~Good(out[n], v)
    BY <1>1 DEF Good
  <2>4. view[v] \in Silent => ToldLater(n, v, 0)' \/ Good(o, v)
    BY <1>6, <1>7, <2>1, <2>3 DEF Settles
  <2>5. \A i \in DOMAIN queue'[n] : Bad(queue'[n][i], v) => ToldLater(n, v, i)'
    BY <1>7, <2>1 DEF Settles
  <2> QED  BY <1>1, <1>3, <1>4, <1>7, <2>2, <2>4, <2>5 DEF Settles, Bad, Good
<1> QED  BY <1>1, <1>5, <1>7, TrackerStays

LEMMA DiscardKeeps ==
  ASSUME IInv, NEW n \in Nodes, Discard(n)
  PROVE  IInv'
<1> DEFINE a == Head(queue[n])
<1>1. /\ \A m \in Nodes : m = n
      /\ out[n] = NoAdvisory /\ queue[n] # << >>
      /\ queue' = [queue EXCEPT ![n] = Tail(@)]
      /\ Misses({a})
      /\ UNCHANGED <<tracker, calls, out, paused, view, told>>
  BY OneNode DEF Discard
<1>2. /\ queue' \in [Nodes -> Seq(Advisories)] /\ queue'[n] = Tail(queue[n])
      /\ \A m \in Nodes : Len(queue'[m]) <= QueueCap
  BY <1>1, TailTyped
<1>3. /\ missed' \in [Ids -> BOOLEAN]
      /\ \A v \in Ids : missed[v] => missed'[v]
      /\ \A v \in Ids : a.id = v /\ a.kind # "timeout" => missed'[v]
  BY <1>1, MissesTyped DEF IInv, AdvisorTypeOK
<1>4. AdvisorTypeOK'
  BY <1>1, <1>2, <1>3 DEF IInv, AdvisorTypeOK, TrackerTypeOK, tracker
<1>5. ASSUME NEW v \in Ids, Settles(n, v), ~missed'[v]
      PROVE  Settles(n, v)'
  <2>1. /\ \A i \in Nat : ToldLater(n, v, i + 1) => ToldLater(n, v, i)'
        /\ ToldLater(n, v, 0) => ToldLater(n, v, 0)' \/ Good(a, v)
        /\ \A i \in DOMAIN queue'[n] : /\ i \in Nat /\ i + 1 \in DOMAIN queue[n]
                                       /\ queue'[n][i] = queue[n][i + 1]
    BY <1>1, <1>2, TailLater
  <2>2. ~Good(a, v) /\ ~Good(out[n], v) /\ ~Bad(out[n], v)
    BY <1>1, <1>3, <1>5 DEF Good, Bad
  <2>3. \A i \in DOMAIN queue'[n] : Bad(queue'[n][i], v) => ToldLater(n, v, i)'
    BY <1>5, <2>1 DEF Settles
  <2> QED  BY <1>1, <1>5, <2>1, <2>2, <2>3 DEF Settles, Bad, Good
<1> QED  BY <1>1, <1>3, <1>4, <1>5, TrackerStays

\* What the publisher may leave in hand: nothing, or the advisory after a try.
LEMMA OutTyped ==
  ASSUME IInv, NEW n \in Nodes, NEW o \in InHand \cup {NoAdvisory},
         out' = [out EXCEPT ![n] = o]
  PROVE  out' \in [Nodes -> InHand \cup {NoAdvisory}] /\ out'[n] = o
  BY DEF IInv, AdvisorTypeOK

\* Consumers get what the publisher has in hand.
LEMMA StoredTyped ==
  ASSUME IInv, NEW n \in Nodes, out[n] # NoAdvisory, Stored(n)
  PROVE  /\ view' \in [Ids -> Kinds \cup {"none"}]
         /\ \A v \in Ids : \/ view'[v] = view[v] /\ (out[n].stored \/ out[n].id # v)
                           \/ view'[v] = out[n].kind /\ out[n].id = v
<1>1. view \in [Ids -> Kinds \cup {"none"}] /\ out[n] \in InHand
  BY DEF IInv, AdvisorTypeOK
<1>2. out[n].kind \in Kinds /\ out[n].id \in Ids /\ out[n].stored \in BOOLEAN
  BY <1>1 DEF InHand
<1>3. CASE out[n].stored
  BY <1>1, <1>3 DEF Stored
<1>4. CASE ~out[n].stored
  BY <1>1, <1>2, <1>4 DEF Stored
<1> QED  BY <1>3, <1>4

\* Once stored, what the publisher has in hand will not be missed.
LEMMA StoredSettles ==
  ASSUME IInv, NEW n \in Nodes, out[n] # NoAdvisory, Stored(n),
         UNCHANGED <<queue, calls>>,
         \/ out'[n] = NoAdvisory
         \/ \A v \in Ids : Bad(out'[n], v) => Bad(out[n], v),
         NEW v \in Ids, Settles(n, v)
  PROVE  Settles(n, v)'
<1>1. \A i : ToldLater(n, v, i)' <=> ToldLater(n, v, i)
  BY DEF ToldLater, Good
<1>2. Bad(out'[n], v) => Bad(out[n], v)
  BY DEF Bad
<1>3. \/ view'[v] = view[v] /\ (out[n].stored \/ out[n].id # v)
      \/ view'[v] = out[n].kind /\ out[n].id = v
  BY StoredTyped
<1>4. view'[v] \in Silent => ToldLater(n, v, 0)
  <2>1. CASE view'[v] = view[v] /\ (out[n].stored \/ out[n].id # v)
    BY <2>1 DEF Settles, Good
  <2>2. CASE view'[v] = out[n].kind /\ out[n].id = v
    BY <2>2 DEF Settles, Bad
  <2> QED  BY <1>3, <2>1, <2>2
<1> QED  BY <1>1, <1>2, <1>4 DEF Settles, Bad, Good

LEMMA PublishedKeeps ==
  ASSUME IInv, NEW n \in Nodes, Published(n)
  PROVE  IInv'
<1>1. /\ out[n] # NoAdvisory /\ Stored(n)
      /\ out' = [out EXCEPT ![n] = NoAdvisory]
      /\ UNCHANGED <<tracker, calls, queue, paused, told, missed>>
  BY DEF Published, CanTry
<1>2. out' \in [Nodes -> InHand \cup {NoAdvisory}] /\ out'[n] = NoAdvisory
  BY <1>1, OutTyped
<1>3. view' \in [Ids -> Kinds \cup {"none"}]
  BY <1>1, StoredTyped
<1>4. AdvisorTypeOK'
  BY <1>1, <1>2, <1>3 DEF IInv, AdvisorTypeOK, TrackerTypeOK, tracker
<1>5. \A v \in Ids : Settles(n, v) => Settles(n, v)'
  BY <1>1, <1>2, StoredSettles
<1> QED  BY <1>1, <1>4, <1>5, OneNode, TrackerStays

\* An advisory after one more try.
LEMMA TriedIs ==
  ASSUME NEW a \in InHand, NEW k \in 0 .. MaxTries
  PROVE  /\ [a EXCEPT !.tries = k] \in InHand
         /\ [a EXCEPT !.tries = k].kind = a.kind
         /\ [a EXCEPT !.tries = k].id = a.id
         /\ [a EXCEPT !.tries = k].stored = a.stored
         /\ [a EXCEPT !.tries = k, !.stored = TRUE] \in InHand
         /\ [a EXCEPT !.tries = k, !.stored = TRUE].kind = a.kind
         /\ [a EXCEPT !.tries = k, !.stored = TRUE].id = a.id
  BY DEF InHand

LEMMA UnansweredKeeps ==
  ASSUME IInv, NEW n \in Nodes, Unanswered(n)
  PROVE  IInv'
<1>1. /\ \A m \in Nodes : m = n
      /\ out[n] \in InHand /\ out[n] # NoAdvisory /\ out[n].tries < Tries /\ Reliable
      /\ UNCHANGED <<tracker, calls, queue, paused, told, missed>>
  BY OneNode DEF Unanswered, CanTry, IInv, AdvisorTypeOK
<1>2. out[n].tries + 1 \in 0 .. MaxTries
  BY <1>1, AdvisorAssumption DEF InHand, Tries
<1>3. CASE Stored(n) /\ out' = [out EXCEPT ![n].tries = @ + 1, ![n].stored = TRUE]
  <2>1. PICK o \in InHand : /\ o = [out[n] EXCEPT !.tries = @ + 1, !.stored = TRUE]
                            /\ o.kind = out[n].kind /\ o.id = out[n].id
    BY <1>1, <1>2, TriedIs
  <2>2. out' = [out EXCEPT ![n] = o]
    BY <1>1, <1>3, <2>1 DEF IInv, AdvisorTypeOK
  <2>3. out' \in [Nodes -> InHand \cup {NoAdvisory}] /\ out'[n] = o
    BY <2>2, OutTyped
  <2>4. view' \in [Ids -> Kinds \cup {"none"}]
    BY <1>1, <1>3, StoredTyped
  <2>5. AdvisorTypeOK'
    BY <1>1, <2>3, <2>4 DEF IInv, AdvisorTypeOK, TrackerTypeOK, tracker
  <2>6. \A v \in Ids : Bad(out'[n], v) => Bad(out[n], v)
    BY <1>1, <2>1, <2>3 DEF Bad
  <2>7. \A v \in Ids : Settles(n, v) => Settles(n, v)'
    BY <1>1, <1>3, <2>6, StoredSettles
  <2> QED  BY <1>1, <2>5, <2>7, TrackerStays
<1>4. CASE out' = [out EXCEPT ![n].tries = @ + 1] /\ UNCHANGED view
  <2>1. PICK o \in InHand : /\ o = [out[n] EXCEPT !.tries = @ + 1]
                            /\ o.kind = out[n].kind /\ o.id = out[n].id
                            /\ o.stored = out[n].stored
    BY <1>1, <1>2, TriedIs
  <2>2. out' = [out EXCEPT ![n] = o]
    BY <1>1, <1>4, <2>1 DEF IInv, AdvisorTypeOK
  <2>3. out' \in [Nodes -> InHand \cup {NoAdvisory}] /\ out'[n] = o
    BY <2>2, OutTyped
  <2>4. AdvisorTypeOK'
    BY <1>1, <1>4, <2>3 DEF IInv, AdvisorTypeOK, TrackerTypeOK, tracker
  <2>5. \A v \in Ids : /\ Bad(out'[n], v) <=> Bad(out[n], v)
                       /\ Good(out'[n], v) <=> Good(out[n], v)
    BY <1>1, <2>1, <2>3, NotNone DEF Bad, Good
  <2>6. \A v \in Ids : Settles(n, v) => Settles(n, v)'
    BY <1>1, <1>4, <2>1, <2>3, <2>5 DEF Settles, ToldLater, Bad, Good
  <2> QED  BY <1>1, <2>4, <2>6, TrackerStays
<1> QED  BY <1>3, <1>4 DEF Unanswered

LEMMA GiveUpKeeps ==
  ASSUME IInv, NEW n \in Nodes, GiveUp(n)
  PROVE  IInv'
<1>1. /\ out[n] # NoAdvisory /\ out' = [out EXCEPT ![n] = NoAdvisory]
      /\ Misses(IF out[n].stored THEN {} ELSE {out[n]})
      /\ UNCHANGED <<tracker, calls, queue, paused, view, told>>
  BY DEF GiveUp
<1>2. out' \in [Nodes -> InHand \cup {NoAdvisory}] /\ out'[n] = NoAdvisory
  BY <1>1, OutTyped
<1>3. /\ missed' \in [Ids -> BOOLEAN]
      /\ \A v \in Ids : missed[v] => missed'[v]
      /\ \A v \in Ids : Good(out[n], v) /\ ~out[n].stored => missed'[v]
  BY <1>1, MissesTyped DEF IInv, AdvisorTypeOK, Good
<1>4. AdvisorTypeOK'
  BY <1>1, <1>2, <1>3 DEF IInv, AdvisorTypeOK, TrackerTypeOK, tracker
<1>5. ASSUME NEW v \in Ids, Settles(n, v), ~missed'[v]
      PROVE  Settles(n, v)'
  <2>1. ~(Good(out[n], v) /\ ~out[n].stored)
    BY <1>3, <1>5
  <2>2. ~Bad(out'[n], v)
    BY <1>2 DEF Bad
  <2> QED  BY <1>1, <1>5, <2>1, <2>2 DEF Settles, ToldLater, Bad, Good
<1> QED  BY <1>1, <1>3, <1>4, <1>5, OneNode, TrackerStays

-----------------------------------------------------------------------------
(* Leadership, the other replicators, restarts and time.                   *)

LEMMA LeadershipKeeps ==
  ASSUME IInv, NEW n \in Nodes, Pause(n) \/ Resume(n)
  PROVE  IInv'
<1>1. /\ UNCHANGED <<tracker, calls, queue, out, view, told, missed>>
      /\ paused' \in [Nodes -> BOOLEAN]
  BY DEF Pause, Resume, IInv, AdvisorTypeOK
<1>2. AdvisorTypeOK'
  BY <1>1 DEF IInv, AdvisorTypeOK, TrackerTypeOK, tracker
<1>3. \A m \in Nodes, v \in Ids : Settles(m, v) => Settles(m, v)'
  BY <1>1 DEF Settles, ToldLater, Bad, Good
<1> QED  BY <1>1, <1>2, <1>3, TrackerStays

\* An item that was never older than what it replaces.
LEMMA NewItemIs ==
  ASSUME NEW sz \in Sizes
  PROVE  /\ [NewItem EXCEPT !.size = sz] \in Item
         /\ [NewItem EXCEPT !.size = sz].seen = 0
<1>1. NewItem \in Item /\ NewItem.seen = 0
  BY TrackerAssumption DEF NewItem, Item, Ages
<1>2. ASSUME NEW i \in Item
      PROVE  [i EXCEPT !.size = sz] \in Item /\ [i EXCEPT !.size = sz].seen = i.seen
  BY DEF Item
<1> QED  BY <1>1, <1>2

LEMMA HearTyped ==
  ASSUME IInv, NEW n \in Nodes, NEW v \in Ids, Hear(n, v)
  PROVE  /\ AdvisorTypeOK'
         /\ DOMAIN items'[n] = DOMAIN items[n] \cup {v}
         /\ items'[n][v].seen = 0
         /\ \A x \in DOMAIN items[n] \ {v} : items'[n][x] = items[n][x]
         /\ \A x \in Ids \ {v} : /\ told'[x] = told[x] /\ missed'[x] = missed[x]
                                 /\ view'[x] = view[x]
         /\ ~told'[v] /\ view'[v] \notin Silent
         /\ ~missed'[v] => About(Pending(n), v) = {}
<1>1. /\ TrackerTypeOK /\ told \in [Ids -> BOOLEAN] /\ missed \in [Ids -> BOOLEAN]
      /\ view \in [Ids -> Kinds \cup {"none"}]
  BY DEF IInv, AdvisorTypeOK
<1>2. PICK sz \in Sizes :
        Received(n, [id |-> v, item |-> [NewItem EXCEPT !.size = sz]])
  BY DEF Hear
<1>3. PICK i \in Item : i = [NewItem EXCEPT !.size = sz] /\ i.seen = 0
  BY NewItemIs
<1>4. TrackerTypeOK /\ items' = [items EXCEPT ![n] = Put(@, v, i)]
  BY <1>1, <1>2, <1>3 DEF Received
<1>5. /\ items' \in [Nodes -> Tables]
      /\ DOMAIN items'[n] = DOMAIN items[n] \cup {v}
      /\ items'[n][v].seen = 0
      /\ \A x \in DOMAIN items[n] \ {v} : items'[n][x] = items[n][x]
  <2>1. /\ items' \in [Nodes -> Tables]
        /\ DOMAIN items'[n] = DOMAIN items[n] \cup {v}
        /\ items'[n][v] = i
        /\ \A x \in DOMAIN items[n] \ {v} : items'[n][x] = items[n][x]
    BY <1>4, PutTyped
  <2> QED  BY <1>3, <2>1
<1>6. PICK b \in BOOLEAN : b <=> About(Pending(n), v) # {}
  OBVIOUS
<1>7. missed' = [missed EXCEPT ![v] = b]
  BY <1>6, Zenon DEF Hear
<1>8. /\ missed' \in [Ids -> BOOLEAN] /\ (~missed'[v] => About(Pending(n), v) = {})
      /\ \A x \in Ids \ {v} : missed'[x] = missed[x]
  BY <1>1, <1>6, <1>7
<1>9. /\ told' \in [Ids -> BOOLEAN] /\ ~told'[v]
      /\ \A x \in Ids \ {v} : told'[x] = told[x]
  BY <1>1 DEF Hear
<1>10. /\ view' \in [Ids -> Kinds \cup {"none"}] /\ view'[v] \notin Silent
       /\ \A x \in Ids \ {v} : view'[x] = view[x]
  <2>1. CASE view[v] \in Silent
    BY <1>1, <2>1 DEF Hear, Kinds, Silent
  <2>2. CASE view[v] \notin Silent
    BY <1>1, <2>2 DEF Hear
  <2> QED  BY <2>1, <2>2
<1>11. TrackerTypeOK'
  BY <1>1, <1>5 DEF Hear, TrackerTypeOK
<1>12. AdvisorTypeOK'
  BY <1>8, <1>9, <1>10, <1>11 DEF Hear, IInv, AdvisorTypeOK, advisor
<1> QED  BY <1>5, <1>8, <1>9, <1>10, <1>12

LEMMA HearKeeps ==
  ASSUME IInv, NEW n \in Nodes, NEW v \in Ids, Hear(n, v)
  PROVE  IInv'
<1>1. /\ AdvisorTypeOK'
      /\ DOMAIN items'[n] = DOMAIN items[n] \cup {v}
      /\ items'[n][v].seen = 0
      /\ \A x \in DOMAIN items[n] \ {v} : items'[n][x] = items[n][x]
      /\ \A x \in Ids \ {v} : /\ told'[x] = told[x] /\ missed'[x] = missed[x]
                              /\ view'[x] = view[x]
      /\ ~told'[v] /\ view'[v] \notin Silent
      /\ ~missed'[v] => About(Pending(n), v) = {}
  BY HearTyped
<1>2. /\ \A m \in Nodes : m = n
      /\ status[n] = "up" /\ UNCHANGED <<status, file, calls, queue, out>>
  BY OneNode DEF Hear, advisor
<1>3. UpInv'
  BY <1>2 DEF UpInv
<1>4. ToldInv'
  <2>1. ASSUME NEW x \in Ids, told'[x]
        PROVE  /\ Timeout(x) \notin calls[n]
               /\ Tracked(n, x)' => items'[n][x].advised
    <3>1. x # v /\ told[x]
      BY <1>1, <2>1
    <3> QED  BY <1>1, <3>1 DEF IInv, ToldInv, Tracked
  <2> QED  BY <1>2, <2>1 DEF ToldInv
<1>5. FileInv'
  <2>1. ASSUME NEW x \in Ids, x \in DOMAIN file[n], x \in DOMAIN items'[n]
        PROVE  file[n][x].seen >= items'[n][x].seen
    <3>1. CASE x = v
      <4>1. file[n] \in Tables
        BY DEF IInv, AdvisorTypeOK, TrackerTypeOK
      <4>2. file[n][x] \in Item
        BY <2>1, <4>1, TableIs
      <4> QED  BY <1>1, <3>1, <4>2, TrackerAssumption DEF Item, Ages
    <3>2. CASE x # v
      BY <1>1, <2>1, <3>2 DEF IInv, FileInv, Tracked
    <3> QED  BY <3>1, <3>2
  <2> QED  BY <1>2, <2>1 DEF FileInv, Tracked
<1>6. ASSUME NEW x \in Ids, Fresh(n, x)', ~missed'[x]
      PROVE  Settles(n, x)'
  <2>1. CASE x # v
    <3>1. Fresh(n, x) /\ ~missed[x]
      BY <1>1, <1>2, <1>6, <2>1 DEF Fresh, Tracked
    <3>2. Settles(n, x)
      BY <3>1 DEF IInv, ViewInv
    <3> QED  BY <1>1, <1>2, <2>1, <3>2 DEF Settles, ToldLater, Bad, Good
  <2>2. CASE x = v
    <3>1. \A a \in Pending(n) : ~Bad(a, v)
      BY <1>1, <1>6, <2>2 DEF About, Bad
    <3>2. /\ \A a \in calls[n] : ~Bad(a, v)
          /\ \A i \in DOMAIN queue[n] : ~Bad(queue[n][i], v)
          /\ ~Bad(out[n], v)
      BY <3>1 DEF Pending, Queued
    <3> QED  BY <1>1, <1>2, <2>2, <3>2 DEF Settles, Bad
  <2> QED  BY <2>1, <2>2
<1>7. ViewInv'
  BY <1>2, <1>6 DEF ViewInv
<1> QED  BY <1>1, <1>3, <1>4, <1>5, <1>7 DEF IInv

\* What a replicator knows to be late is not in its file as fresh.
LEMMA LateNotFresh ==
  ASSUME IInv, NEW n \in Nodes, NEW v \in Ids, Tracked(n, v), items[n][v].seen > WarnAge
  PROVE  ~Fresh(n, v)
<1>1. items[n] \in Tables /\ file[n] \in Tables
  BY DEF IInv, AdvisorTypeOK, TrackerTypeOK
<1>2. items[n][v].seen \in Nat /\ WarnAge \in Nat
  <2>1. items[n][v] \in Item
    BY <1>1, TableIs DEF Tracked
  <2> QED  BY <2>1, TrackerAssumption DEF Item, Ages
<1>3. v \in DOMAIN file[n] => file[n][v].seen \in Nat /\ file[n][v].seen >= items[n][v].seen
  <2>1. v \in DOMAIN file[n] => file[n][v] \in Item
    BY <1>1, TableIs
  <2> QED  BY <2>1, TrackerAssumption DEF Item, Ages, IInv, FileInv
<1> QED  BY <1>2, <1>3 DEF Fresh

LEMMA OverhearKeeps ==
  ASSUME IInv, NEW n \in Nodes, NEW v \in Ids, Overhear(n, v)
  PROVE  IInv'
<1>1. /\ \A m \in Nodes : m = n
      /\ Tracked(n, v) /\ items[n][v].seen > WarnAge
      /\ view' = [view EXCEPT ![v] = "timeout"]
      /\ UNCHANGED <<tracker, calls, queue, out, paused, told, missed>>
  BY OneNode DEF Overhear, advisor
<1>2. /\ view' \in [Ids -> Kinds \cup {"none"}]
      /\ \A x \in Ids \ {v} : view'[x] = view[x]
  BY <1>1 DEF IInv, AdvisorTypeOK, Kinds
<1>3. AdvisorTypeOK'
  BY <1>1, <1>2 DEF IInv, AdvisorTypeOK, TrackerTypeOK, tracker
<1>4. UpInv' /\ ToldInv' /\ FileInv'
  BY <1>1 DEF IInv, UpInv, ToldInv, FileInv, Tracked, tracker
<1>5. ASSUME NEW x \in Ids, Fresh(n, x)', ~missed'[x]
      PROVE  Settles(n, x)'
  <2>1. Fresh(n, x) /\ ~missed[x]
    BY <1>1, <1>5 DEF Fresh, Tracked, tracker
  <2>2. x # v
    BY <1>1, <2>1, LateNotFresh
  <2>3. Settles(n, x)
    BY <2>1 DEF IInv, ViewInv
  <2> QED  BY <1>1, <1>2, <2>2, <2>3 DEF Settles, ToldLater, Bad, Good
<1>6. ViewInv'
  BY <1>1, <1>5 DEF ViewInv
<1> QED  BY <1>3, <1>4, <1>6 DEF IInv

\* What is loaded is what the file holds: no identity becomes fresh by it.
LEMMA LoadStateKeeps ==
  ASSUME IInv, NEW n \in Nodes, LoadState(n)
  PROVE  IInv'
<1>1. /\ \A m \in Nodes : m = n
      /\ TrackerTypeOK'
      /\ items' = items \/ items' = [items EXCEPT ![n] = Scrubbed(file[n])]
      /\ status[n] = "loading" /\ file' = file
      /\ UNCHANGED <<advisor, view, told, missed>>
  BY LoadTyped, OneNode DEF LoadState, Load, IInv, AdvisorTypeOK
<1>2. /\ file[n] \in Tables /\ items \in [Nodes -> Tables]
      /\ status' = [status EXCEPT ![n] = "up"] /\ status'[n] = "up"
  BY DEF LoadState, Load, IInv, AdvisorTypeOK, TrackerTypeOK
<1>3. AdvisorTypeOK'
  BY <1>1 DEF IInv, AdvisorTypeOK, advisor
<1>4. UpInv'
  BY <1>1, <1>2 DEF UpInv
<1>5. ToldInv'
  BY <1>1, <1>2 DEF IInv, ToldInv
<1>6. ASSUME NEW v \in DOMAIN items'[n]
      PROVE  v \in DOMAIN file[n] /\ items'[n][v] = file[n][v] /\ file[n][v] \in Item
  <2>1. DOMAIN items[n] = {}
    BY <1>1 DEF IInv, UpInv
  <2>2. items'[n] = Scrubbed(file[n])
    BY <1>1, <1>2, <1>6, <2>1
  <2> QED  BY <1>2, <1>6, <2>2, ScrubbedType, TableIs
<1>7. FileInv'
  <2>1. \A v \in DOMAIN items'[n] : items'[n][v].seen \in Nat
    BY <1>6, TrackerAssumption DEF Item, Ages
  <2> QED  BY <1>1, <1>6, <2>1 DEF FileInv, Tracked
<1>8. \A m \in Nodes, v \in Ids : Fresh(m, v)' => Fresh(m, v)
  BY <1>1, <1>6 DEF Fresh, Tracked
<1>9. ViewInv'
  BY <1>1, <1>8, QuietView DEF advisor
<1> QED  BY <1>3, <1>4, <1>5, <1>7, <1>9 DEF IInv

LEMMA RestartKeeps ==
  ASSUME IInv, NEW n \in Nodes, Restart(n)
  PROVE  IInv'
<1>1. /\ \A m \in Nodes : m = n
      /\ TrackerTypeOK' /\ status[n] = "down"
      /\ UNCHANGED <<items, file, advisor, view, told, missed>>
  BY StartTyped, OneNode DEF Restart, Start, IInv, AdvisorTypeOK
<1>2. AdvisorTypeOK'
  BY <1>1 DEF IInv, AdvisorTypeOK, advisor
<1>3. UpInv' /\ ToldInv' /\ FileInv'
  BY <1>1 DEF IInv, UpInv, ToldInv, FileInv, Tracked, advisor
<1>4. ViewInv'
  BY <1>1, QuietView DEF advisor, Fresh, Tracked
<1> QED  BY <1>2, <1>3, <1>4 DEF IInv

LEMMA StopKeeps ==
  ASSUME IInv, NEW n \in Nodes, Stop(n)
  PROVE  IInv'
<1>1. /\ \A m \in Nodes : m = n
      /\ TrackerTypeOK' /\ DOMAIN items'[n] = {}
      /\ \/ file' = file
         \/ status[n] = "up" /\ file' = [file EXCEPT ![n] = Scrubbed(items[n])]
      /\ view' = view /\ Misses(Pending(n) \ {NoAdvisory})
  BY EndTyped, EmptyTable, OneNode DEF Stop, IInv, AdvisorTypeOK
<1>2. /\ calls' \in [Nodes -> SUBSET Advisories] /\ calls'[n] = {}
      /\ out' \in [Nodes -> InHand \cup {NoAdvisory}] /\ out'[n] = NoAdvisory
      /\ paused' \in [Nodes -> BOOLEAN]
      /\ told' \in [Ids -> BOOLEAN] /\ \A v \in Ids : ~told'[v]
  BY AdvisorAssumption DEF Stop, IInv, AdvisorTypeOK
<1>3. /\ queue' \in [Nodes -> Seq(Advisories)] /\ queue'[n] = << >>
      /\ \A m \in Nodes : Len(queue'[m]) <= QueueCap
  <2>1. << >> \in Seq(Advisories) /\ Len(<< >>) <= QueueCap
    BY AdvisorAssumption
  <2>2. queue \in [Nodes -> Seq(Advisories)] /\ queue' = [queue EXCEPT ![n] = << >>]
    BY DEF Stop, IInv, AdvisorTypeOK
  <2> QED  BY <1>1, <2>1, <2>2
<1>4. /\ missed' \in [Ids -> BOOLEAN]
      /\ \A v \in Ids : missed[v] => missed'[v]
      /\ \A v \in Ids : \A a \in Pending(n) : Good(a, v) => missed'[v]
  <2>1. /\ missed' \in [Ids -> BOOLEAN]
        /\ \A v \in Ids : missed[v] => missed'[v]
        /\ \A v \in Ids : \A a \in Pending(n) \ {NoAdvisory} :
             a.id = v /\ a.kind # "timeout" => missed'[v]
    BY <1>1, MissesTyped DEF IInv, AdvisorTypeOK
  <2> QED  BY <2>1 DEF Good
<1>5. AdvisorTypeOK'
  BY <1>1, <1>2, <1>3, <1>4 DEF IInv, AdvisorTypeOK
<1>6. UpInv' /\ ToldInv' /\ FileInv'
  BY <1>1, <1>2 DEF UpInv, ToldInv, FileInv, Tracked
<1>7. ASSUME NEW v \in Ids, Fresh(n, v)', ~missed'[v]
      PROVE  Settles(n, v)'
  <2>1. Fresh(n, v)
    <3>1. v \in DOMAIN file'[n] /\ file'[n][v].seen <= WarnAge
      BY <1>1, <1>7 DEF Fresh, Tracked
    <3>2. CASE file' = file
      BY <3>1, <3>2 DEF Fresh
    <3>3. CASE file' = [file EXCEPT ![n] = Scrubbed(items[n])]
      <4>1. items[n] \in Tables /\ file'[n] = Scrubbed(items[n])
        BY <3>3 DEF IInv, AdvisorTypeOK, TrackerTypeOK
      <4> QED  BY <3>1, <4>1, ScrubbedType DEF Fresh, Tracked
    <3> QED  BY <1>1, <3>2, <3>3
  <2>2. Settles(n, v)
    BY <1>4, <1>7, <2>1 DEF IInv, ViewInv
  <2>3. \A a \in Pending(n) : ~Good(a, v)
    BY <1>4, <1>7
  <2>4. ~ToldLater(n, v, 0) /\ ~Good(out[n], v)
    BY <2>3 DEF Pending, Queued, ToldLater
  <2>5. view'[v] \notin Silent
    BY <1>1, <2>2, <2>4 DEF Settles
  <2> QED  BY <1>2, <1>3, <2>5 DEF Settles, Bad
<1>8. ViewInv'
  BY <1>1, <1>7 DEF ViewInv
<1> QED  BY <1>5, <1>6, <1>8 DEF IInv

LEMMA TickKeeps ==
  ASSUME IInv, Tick
  PROVE  IInv'
<1>1. /\ TrackerTypeOK' /\ UNCHANGED <<status, advisor, view, told, missed>>
      /\ items' = [n \in Nodes |-> OlderTable(items[n])]
      /\ file' = [n \in Nodes |-> OlderTable(file[n])]
  BY TrackerTickTyped DEF Tick, TrackerTick, IInv, AdvisorTypeOK
<1>2. ASSUME NEW t \in Tables
      PROVE  /\ DOMAIN OlderTable(t) = DOMAIN t
             /\ \A v \in DOMAIN t :
                  /\ t[v].seen \in Ages /\ OlderTable(t)[v].seen = Older(t[v].seen)
                  /\ OlderTable(t)[v].advised = t[v].advised
  <2>1. \A v \in DOMAIN t : t[v] \in Item
    BY TableIs
  <2> QED  BY <2>1, OlderTableType DEF Item
<1>3. \A n \in Nodes : /\ items[n] \in Tables /\ items'[n] = OlderTable(items[n])
                       /\ file[n] \in Tables /\ file'[n] = OlderTable(file[n])
  BY <1>1 DEF IInv, AdvisorTypeOK, TrackerTypeOK
<1>4. AdvisorTypeOK'
  BY <1>1 DEF IInv, AdvisorTypeOK, advisor
<1>5. UpInv' /\ ToldInv'
  <2>1. UpInv'
    BY <1>1, <1>2, <1>3 DEF IInv, UpInv, advisor
  <2>2. ASSUME NEW n \in Nodes, NEW v \in Ids, told'[v]
        PROVE  /\ status'[n] = "up" /\ Timeout(v) \notin calls'[n]
               /\ Tracked(n, v)' => items'[n][v].advised
    <3>1. /\ status[n] = "up" /\ Timeout(v) \notin calls[n]
          /\ Tracked(n, v) => items[n][v].advised
      BY <1>1, <2>2 DEF IInv, ToldInv
    <3> QED  BY <1>1, <1>2, <1>3, <3>1 DEF Tracked, advisor
  <2> QED  BY <2>1, <2>2 DEF ToldInv
<1>6. FileInv'
  BY <1>1, <1>2, <1>3, OlderMonotone DEF IInv, FileInv, Tracked
<1>7. \A n \in Nodes, v \in Ids : Fresh(n, v)' => Fresh(n, v)
  <2>1. \A a \in Ages : Older(a) <= WarnAge => a <= WarnAge
    BY TrackerAssumption DEF Ages, Older
  <2> QED  BY <1>2, <1>3, <2>1 DEF Fresh, Tracked
<1>8. ViewInv'
  BY <1>1, <1>7, QuietView DEF advisor
<1> QED  BY <1>4, <1>5, <1>6, <1>8 DEF IInv

-----------------------------------------------------------------------------
(* The theorems.                                                           *)

LEMMA NextIInv == IInv /\ [AdvisorNext]_vars => IInv'
<1> SUFFICES ASSUME IInv, [AdvisorNext]_vars PROVE IInv'
  OBVIOUS
<1>1. ASSUME NEW n \in Nodes, NEW v \in Ids, Handle(n, v) \/ Hear(n, v) \/ Overhear(n, v)
      PROVE  IInv'
  BY <1>1, HandleKeeps, HearKeeps, OverhearKeeps
<1>2. ASSUME NEW n \in Nodes, Maintain(n)
      PROVE  IInv'
  BY <1>2, MaintainKeeps
<1>3. ASSUME NEW n \in Nodes, Callback(n)
      PROVE  IInv'
  BY <1>3, EnqueueKeeps, OverflowKeeps DEF Callback
<1>4. ASSUME NEW n \in Nodes, Publisher(n)
      PROVE  IInv'
  BY <1>4, TakeKeeps, DiscardKeeps, PublishedKeeps, UnansweredKeeps, GiveUpKeeps
     DEF Publisher
<1>5. ASSUME NEW n \in Nodes, Pause(n) \/ Resume(n)
      PROVE  IInv'
  BY <1>5, LeadershipKeeps
<1>6. ASSUME NEW n \in Nodes, LoadState(n) \/ Restart(n) \/ Stop(n)
      PROVE  IInv'
  BY <1>6, LoadStateKeeps, RestartKeeps, StopKeeps
<1>7. CASE Tick
  BY <1>7, TickKeeps
<1>8. CASE UNCHANGED vars
  <2>1. UNCHANGED <<tracker, calls, queue, out, paused, view, told, missed>>
    BY <1>8 DEF vars, advisor
  <2>2. AdvisorTypeOK'
    BY <2>1 DEF IInv, AdvisorTypeOK, TrackerTypeOK, tracker
  <2>3. \A n \in Nodes, v \in Ids : Settles(n, v) => Settles(n, v)'
    BY <2>1 DEF Settles, ToldLater, Bad, Good
  <2> QED  BY <2>1, <2>2, <2>3, TrackerStays
<1> QED
  BY <1>1, <1>2, <1>3, <1>4, <1>5, <1>6, <1>7, <1>8 DEF AdvisorNext

\* The inductive invariant holds.
THEOREM AdvisorInductive == AdvisorSpec => []IInv
  BY InitIInv, NextIInv, PTL DEF AdvisorSpec

\* Every variable of the advisor keeps its type: the queue its capacity, the publisher's
\* tries their bound, the files and tables whole items (advisor.go:61, 124-194).
THEOREM TypeCorrect == AdvisorSpec => []AdvisorTypeOK
<1>1. IInv => AdvisorTypeOK
  BY DEF IInv
<1> QED  BY <1>1, AdvisorInductive, PTL

\* Consumers do not take a living identity for silent, for any length of the queue and
\* any number of tries, intervals and identities.
THEOREM ViewTrue == AdvisorSpec => []ViewCorrect
<1>1. IInv => ViewCorrect
  <2> SUFFICES ASSUME IInv, NEW n \in Nodes, NEW v \in Ids,
                      Tracked(n, v), items[n][v].seen <= WarnAge,
                      About(Pending(n), v) = {}, ~missed[v]
               PROVE  view[v] \notin Silent
    BY DEF IInv, ViewCorrect
  <2>1. Settles(n, v)
    BY DEF IInv, ViewInv, Fresh
  <2>2. \A a \in Pending(n) : ~Good(a, v)
    BY DEF About, Good
  <2>3. ~ToldLater(n, v, 0) /\ ~Good(out[n], v)
    BY <2>2 DEF Pending, Queued, ToldLater
  <2> QED  BY <2>1, <2>3 DEF Settles
<1> QED  BY <1>1, AdvisorInductive, PTL

\* Only a callback makes the queue longer, and it has not told of this silence before.
LEMMA TimeoutIsNew ==
  ASSUME IInv, AdvisorNext, NEW n \in Nodes, NEW v \in Ids,
         queue'[n] = Append(queue[n], Timeout(v))
  PROVE  ~told[v]
<1>1. /\ \A m \in Nodes : m = n
      /\ queue[n] \in Seq(Advisories) /\ Len(queue[n]) \in Nat
      /\ Timeout(v) \in Advisories
  BY QueueIs, TimeoutIs
<1>2. Len(queue'[n]) = Len(queue[n]) + 1 /\ queue'[n][Len(queue[n]) + 1] = Timeout(v)
  BY <1>1, AppendProperties
<1>3. queue' # queue
  BY <1>1, <1>2
<1>4. ASSUME queue[n] # << >>, queue' = [queue EXCEPT ![n] = Tail(@)]
      PROVE  FALSE
  <2>1. queue'[n] = Tail(queue[n])
    BY <1>4, TailTyped
  <2>2. Len(Tail(queue[n])) = Len(queue[n]) - 1
    BY <1>1, <1>4, HeadTailProperties
  <2> QED  BY <1>1, <1>2, <2>1, <2>2
<1>5. ~Stop(n)
  <2>1. Stop(n) => queue'[n] = << >>
    BY DEF Stop, IInv, AdvisorTypeOK
  <2>2. Len(<< >>) = 0
    OBVIOUS
  <2> QED  BY <1>1, <1>2, <2>1, <2>2
<1>6. PICK a \in calls[n] : Enqueue(n, a)
  <2>1. \A m \in Nodes, x \in Ids : ~Handle(m, x) /\ ~Hear(m, x) /\ ~Overhear(m, x)
    BY <1>3 DEF Handle, Hear, Overhear, advisor
  <2>2. \A m \in Nodes : /\ ~Maintain(m) /\ ~Pause(m) /\ ~Resume(m)
                         /\ ~LoadState(m) /\ ~Restart(m)
                         /\ ~Published(m) /\ ~Unanswered(m) /\ ~GiveUp(m)
                         /\ \A a \in calls[m] : ~Overflow(m, a)
    BY <1>3 DEF Maintain, Pause, Resume, LoadState, Restart, Published, Unanswered,
                GiveUp, Overflow, advisor
  <2>3. ~Take(n) /\ ~Discard(n)
    BY <1>4 DEF Take, Discard
  <2>4. ~Tick
    BY <1>3 DEF Tick, advisor
  <2> QED  BY <1>1, <1>5, <2>1, <2>2, <2>3, <2>4 DEF AdvisorNext, Callback, Publisher
<1>7. queue'[n] = Append(queue[n], a) /\ a \in Advisories
  BY <1>6, EnqueueTyped, QueueIs
<1>8. a = Timeout(v)
  <2>1. queue'[n][Len(queue[n]) + 1] = a
    BY <1>1, <1>7, AppendProperties
  <2> QED  BY <1>2, <2>1
<1> QED  BY <1>6, <1>8 DEF IInv, ToldInv

\* A silence is told at most once by a process.
THEOREM TimeoutsOnce == AdvisorSpec => OnceASilence
<1>1. IInv /\ [AdvisorNext]_vars =>
        [\A n \in Nodes, v \in Ids :
           queue'[n] = Append(queue[n], [kind |-> "timeout", id |-> v]) => ~told[v]]_vars
  BY TimeoutIsNew DEF Timeout
<1> QED  BY <1>1, AdvisorInductive, PTL DEF AdvisorSpec, OnceASilence
=============================================================================
