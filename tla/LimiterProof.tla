---------------------------- MODULE LimiterProof ----------------------------
(***************************************************************************)
(* What the limiter leaves out was copied less than an interval ago, for   *)
(* any number of replicators, identities and messages, any interval and    *)
(* any losses of gossip.                                                   *)
(***************************************************************************)
EXTENDS Limiter, TrackerProof

-----------------------------------------------------------------------------
(* The inductive invariant.                                                *)

\* What was stored is recorded before time goes on.
StoredNow ==
  \A n \in Nodes : job[n] # NoJob /\ job[n].step = "stored" => lastCopy[job[n].id] = 0

IInv == LimiterTypeOK /\ CopiesAreReal /\ StoredNow

LEMMA InitIInv == LimiterInit => IInv
<1> SUFFICES ASSUME LimiterInit PROVE IInv
  OBVIOUS
<1>1. LimiterTypeOK
  <2>1. \A n \in Nodes : << >> \in Seq(Gossips)
    OBVIOUS
  <2> QED  BY <2>1, EmptyTable, TrackerAssumption
              DEF LimiterInit, TrackerInit, LimiterTypeOK, TrackerTypeOK, Ages
<1>2. CopiesAreReal
  BY EmptyTable DEF LimiterInit, TrackerInit, CopiesAreReal
<1>3. StoredNow
  BY DEF LimiterInit, StoredNow
<1> QED  BY <1>1, <1>2, <1>3 DEF IInv

\* A job is a record of its own.
LEMMA JobIs ==
  ASSUME LimiterTypeOK, NEW n \in Nodes, job[n] # NoJob
  PROVE  /\ job[n] \in Jobs /\ job[n].id \in Ids /\ job[n].size \in Sizes
         /\ job[n].process \in BOOLEAN
  BY DEF LimiterTypeOK, Jobs

\* No item of a node claims a later copy, nor does a new one.
LEMMA ItemIsReal ==
  ASSUME IInv, NEW n \in Nodes, NEW v \in Ids
  PROVE  ItemOf(n, v).copied >= lastCopy[v]
<1>1. CASE Tracked(n, v)
  BY <1>1 DEF ItemOf, Tracked, IInv, CopiesAreReal
<1>2. CASE ~Tracked(n, v)
  <2>1. ItemOf(n, v).copied = MaxAge
    BY <1>2 DEF ItemOf, NewItem
  <2>2. lastCopy[v] \in 0 .. MaxAge
    BY DEF IInv, LimiterTypeOK, Ages
  <2> QED  BY <2>1, <2>2, TrackerAssumption
<1> QED  BY <1>1, <1>2

\* The tables after an item of one was added or replaced.
LEMMA PutKeeps ==
  ASSUME IInv, NEW n \in Nodes, NEW v \in Ids, NEW i \in Item,
         i.copied >= lastCopy[v],
         items' = [items EXCEPT ![n] = Put(@, v, i)]
  PROVE  /\ items' \in [Nodes -> Tables]
         /\ \A m \in Nodes : \A x \in DOMAIN items'[m] :
              items'[m][x].copied >= lastCopy[x]
<1>1. items \in [Nodes -> Tables] /\ items[n] \in Tables
  BY DEF IInv, LimiterTypeOK, TrackerTypeOK
<1>2. \A t \in Tables : /\ Put(t, v, i) \in Tables
                        /\ DOMAIN Put(t, v, i) = DOMAIN t \cup {v}
                        /\ Put(t, v, i)[v] = i
                        /\ \A x \in DOMAIN t \ {v} : Put(t, v, i)[x] = t[x]
  BY PutType
<1>3. items' \in [Nodes -> Tables]
  BY <1>1, <1>2
<1>4. ASSUME NEW m \in Nodes, NEW x \in DOMAIN items'[m]
      PROVE  items'[m][x].copied >= lastCopy[x]
  <2>1. CASE m = n
    <3>1. items'[m] = Put(items[n], v, i)
      BY <1>1, <2>1
    <3>2. CASE x = v
      BY <1>1, <1>2, <1>4, <3>1, <3>2
    <3>3. CASE x # v
      <4>1. x \in DOMAIN items[n] /\ items'[m][x] = items[n][x]
        BY <1>1, <1>2, <1>4, <3>1, <3>3
      <4> QED  BY <4>1 DEF IInv, CopiesAreReal
    <3> QED  BY <3>2, <3>3
  <2>2. CASE m # n
    BY <1>1, <1>4, <2>2 DEF IInv, CopiesAreReal
  <2> QED  BY <2>1, <2>2
<1> QED  BY <1>3, <1>4

LEMMA RecordKeeps ==
  ASSUME IInv, NEW n \in Nodes, Record(n)
  PROVE  IInv'
<1>1. /\ job[n] # NoJob /\ job[n].id \in Ids /\ job[n].size \in Sizes
      /\ job[n] \in Jobs
  BY JobIs DEF Record, IInv
<1>2. PICK v \in Ids, sz \in Sizes : v = job[n].id /\ sz = job[n].size
  BY <1>1
<1>3. /\ RecordSeen(n, v, sz) /\ lastCopy' = lastCopy /\ UNCHANGED <<status, file, due>>
      /\ job' = [job EXCEPT ![n].step = "seen"]
  BY <1>2 DEF Record
<1>4. ItemOf(n, v) \in Item
  BY ItemOfType DEF IInv, LimiterTypeOK
<1>5. PICK i \in Item : /\ i.copied = ItemOf(n, v).copied
                        /\ items' = [items EXCEPT ![n] = Put(@, v, i)]
                        /\ Gossip(n, v, i)
  <2>1. (~Recovers(n, v)) \in BOOLEAN
    BY DEF Recovers
  <2>2. PICK b \in BOOLEAN : b = ~Recovers(n, v)
    BY <2>1
  <2> QED  BY <1>3, <1>4, <2>2, SeenItem DEF RecordSeen
<1>6. i.copied >= lastCopy[v]
  BY <1>5, ItemIsReal
<1>7. PICK g \in Gossips : g.id = v /\ g.item = i /\ g = [id |-> v, item |-> i]
  BY DEF Gossips
<1>8. PICK got \in SUBSET Nodes : Deliver(got, g)
  BY <1>5, <1>7 DEF Gossip
<1>9. /\ inbox' \in [Nodes -> Seq(Gossips)]
      /\ \A m \in Nodes : \A k \in DOMAIN inbox'[m] :
           inbox'[m][k] = g \/ (k \in DOMAIN inbox[m] /\ inbox'[m][k] = inbox[m][k])
  BY <1>8, DeliverKeeps DEF IInv, LimiterTypeOK, TrackerTypeOK
<1>10. /\ items' \in [Nodes -> Tables]
       /\ \A m \in Nodes : \A x \in DOMAIN items'[m] :
            items'[m][x].copied >= lastCopy[x]
  BY <1>5, <1>6, PutKeeps
<1>11. LimiterTypeOK'
  <2>1. job' \in [Nodes -> Jobs \cup {NoJob}]
    <3>1. [job[n] EXCEPT !.step = "seen"] \in Jobs
      BY <1>1 DEF Jobs
    <3> QED  BY <1>3, <3>1 DEF IInv, LimiterTypeOK
  <2> QED  BY <1>3, <1>9, <1>10, <2>1 DEF IInv, LimiterTypeOK, TrackerTypeOK
<1>12. CopiesAreReal'
  <2>1. \A m \in Nodes : \A k \in DOMAIN inbox'[m] :
          inbox'[m][k].item.copied >= lastCopy[inbox'[m][k].id]
    BY <1>6, <1>7, <1>9 DEF IInv, CopiesAreReal
  <2> QED  BY <1>3, <1>10, <2>1 DEF IInv, CopiesAreReal
<1>13. StoredNow'
  <2>1. job \in [Nodes -> Jobs \cup {NoJob}]
    BY DEF IInv, LimiterTypeOK
  <2>2. job'[n].step = "seen"
    BY <1>1, <1>3, <2>1 DEF Jobs
  <2> QED  BY <1>3, <2>1, <2>2 DEF IInv, StoredNow
<1> QED  BY <1>11, <1>12, <1>13 DEF IInv

\* What does not touch the tracker, nor stores.
LEMMA BeginKeeps ==
  ASSUME IInv, NEW n \in Nodes, NEW v \in Ids, NEW sz \in Sizes, NEW p \in BOOLEAN,
         Begin(n, v, sz, p)
  PROVE  IInv'
<1>1. [step |-> "decided", id |-> v, size |-> sz, process |-> p] \in Jobs
  BY DEF Jobs
<1>2. LimiterTypeOK'
  BY <1>1 DEF Begin, IInv, LimiterTypeOK, TrackerTypeOK, tracker
<1>3. CopiesAreReal'
  BY DEF Begin, IInv, CopiesAreReal, tracker
<1>4. StoredNow'
  <2>1. job \in [Nodes -> Jobs \cup {NoJob}]
    BY DEF IInv, LimiterTypeOK
  <2> QED  BY <2>1 DEF Begin, IInv, StoredNow
<1> QED  BY <1>2, <1>3, <1>4 DEF IInv

LEMMA SkipKeeps ==
  ASSUME IInv, NEW n \in Nodes, Skip(n)
  PROVE  IInv'
<1>1. LimiterTypeOK'
  BY DEF Skip, IInv, LimiterTypeOK, TrackerTypeOK, tracker
<1>2. CopiesAreReal'
  BY DEF Skip, IInv, CopiesAreReal, tracker
<1>3. StoredNow'
  BY DEF Skip, IInv, StoredNow, LimiterTypeOK
<1> QED  BY <1>1, <1>2, <1>3 DEF IInv

\* The target stores a message of v: every claim about v stays true.
LEMMA StoredKeeps ==
  ASSUME IInv, NEW v \in Ids, UNCHANGED tracker,
         lastCopy' = [lastCopy EXCEPT ![v] = 0]
  PROVE  lastCopy' \in [Ids -> Ages] /\ CopiesAreReal' /\ TrackerTypeOK'
<1>1. lastCopy \in [Ids -> Ages] /\ 0 \in Ages
  BY TrackerAssumption DEF IInv, LimiterTypeOK, Ages
<1>2. /\ items' = items /\ file' = file /\ inbox' = inbox
      /\ items \in [Nodes -> Tables] /\ file \in [Nodes -> Tables]
      /\ inbox \in [Nodes -> Seq(Gossips)]
  BY DEF tracker, IInv, LimiterTypeOK, TrackerTypeOK
<1>3. \A x \in Ids : \A a \in Ages : a >= lastCopy[x] => a >= lastCopy'[x]
  BY <1>1 DEF Ages
<1>4. ASSUME NEW n \in Nodes
      PROVE  /\ \A x \in DOMAIN items[n] : x \in Ids /\ items[n][x].copied \in Ages
             /\ \A x \in DOMAIN file[n] : x \in Ids /\ file[n][x].copied \in Ages
             /\ \A i \in DOMAIN inbox[n] : /\ inbox[n][i].id \in Ids
                                           /\ inbox[n][i].item.copied \in Ages
  <2>1. items[n] \in Tables /\ file[n] \in Tables /\ inbox[n] \in Seq(Gossips)
    BY <1>2
  <2>2. \A x \in DOMAIN items[n] : x \in Ids /\ items[n][x] \in Item
    BY <2>1, TableIs
  <2>3. \A x \in DOMAIN file[n] : x \in Ids /\ file[n][x] \in Item
    BY <2>1, TableIs
  <2>4. \A i \in DOMAIN inbox[n] : inbox[n][i] \in Gossips
    BY <2>1
  <2> QED  BY <2>2, <2>3, <2>4 DEF Item, Gossips
<1>5. CopiesAreReal'
  BY <1>2, <1>3, <1>4 DEF IInv, CopiesAreReal
<1>6. TrackerTypeOK'
  BY DEF tracker, IInv, LimiterTypeOK, TrackerTypeOK
<1> QED  BY <1>1, <1>5, <1>6

LEMMA StoreKeeps ==
  ASSUME IInv, NEW n \in Nodes, Store(n)
  PROVE  IInv'
<1>1. job[n] \in Jobs /\ job[n].id \in Ids /\ job[n] # NoJob
  BY JobIs DEF Store, Handling, IInv
<1>2. lastCopy' \in [Ids -> Ages] /\ CopiesAreReal' /\ TrackerTypeOK'
  BY <1>1, StoredKeeps DEF Store
<1>3. /\ [job[n] EXCEPT !.step = "stored"] \in Jobs
      /\ [job[n] EXCEPT !.step = "stored"].id = job[n].id
  BY <1>1 DEF Jobs
<1>4. job \in [Nodes -> Jobs \cup {NoJob}] /\ lastCopy \in [Ids -> Ages]
  BY DEF IInv, LimiterTypeOK
<1>5. LimiterTypeOK'
  BY <1>2, <1>3, <1>4 DEF Store, LimiterTypeOK
<1>6. StoredNow'
  <2>1. lastCopy' = [lastCopy EXCEPT ![job[n].id] = 0] /\ job'[n].id = job[n].id
    BY <1>3, <1>4 DEF Store
  <2>2. ASSUME NEW m \in Nodes, job'[m] # NoJob, job'[m].step = "stored"
        PROVE  lastCopy'[job'[m].id] = 0
    <3>1. CASE m = n
      BY <1>1, <1>4, <2>1, <3>1
    <3>2. CASE m # n
      <4>1. job'[m] = job[m] /\ job[m].id \in Ids
        BY <1>4, <2>2, <3>2 DEF Store, Jobs
      <4> QED  BY <1>4, <2>1, <2>2, <4>1 DEF IInv, StoredNow
    <3> QED  BY <3>1, <3>2
  <2> QED  BY <2>2 DEF StoredNow
<1> QED  BY <1>2, <1>5, <1>6 DEF IInv

LEMMA StoreFailsKeeps ==
  ASSUME IInv, NEW n \in Nodes, StoreFails(n)
  PROVE  IInv'
<1>1. job[n].id \in Ids
  BY JobIs DEF StoreFails, Handling, IInv
<1>2. lastCopy' \in [Ids -> Ages] /\ CopiesAreReal' /\ TrackerTypeOK'
  <2>1. CASE lastCopy' = lastCopy
    BY <2>1 DEF StoreFails, IInv, LimiterTypeOK, TrackerTypeOK, CopiesAreReal, tracker
  <2>2. CASE lastCopy' = [lastCopy EXCEPT ![job[n].id] = 0]
    BY <1>1, <2>2, StoredKeeps DEF StoreFails
  <2> QED  BY <2>1, <2>2 DEF StoreFails
<1>3. job \in [Nodes -> Jobs \cup {NoJob}] /\ lastCopy \in [Ids -> Ages]
  BY DEF IInv, LimiterTypeOK
<1>4. LimiterTypeOK'
  BY <1>2, <1>3 DEF StoreFails, LimiterTypeOK
<1>5. StoredNow'
  <2>1. ASSUME NEW m \in Nodes, job'[m] # NoJob, job'[m].step = "stored"
        PROVE  lastCopy'[job'[m].id] = 0
    <3>1. job'[m] = job[m] /\ job[m].id \in Ids
      BY <1>3, <2>1 DEF StoreFails, Jobs
    <3> QED  BY <1>3, <2>1, <3>1 DEF StoreFails, IInv, StoredNow
  <2> QED  BY <2>1 DEF StoredNow
<1> QED  BY <1>2, <1>4, <1>5 DEF IInv

LEMMA FinishKeeps ==
  ASSUME IInv, NEW n \in Nodes, Finish(n)
  PROVE  IInv'
<1>1. PICK v \in Ids : v = job[n].id /\ RecordCopied(n, v) /\ lastCopy[v] = 0
  BY JobIs DEF Finish, IInv, StoredNow
<1>2. /\ job' = [job EXCEPT ![n] = NoJob] /\ lastCopy' = lastCopy
      /\ UNCHANGED <<status, file, inbox, due>>
  BY DEF Finish
<1>3. items \in [Nodes -> Tables] /\ items[n] \in Tables
  BY DEF IInv, LimiterTypeOK, TrackerTypeOK
<1>4. /\ items' \in [Nodes -> Tables]
      /\ \A m \in Nodes : \A x \in DOMAIN items'[m] :
           items'[m][x].copied >= lastCopy[x]
  <2>1. CASE ~Tracked(n, v)
    BY <1>1, <1>3, <2>1 DEF RecordCopied, IInv, CopiesAreReal
  <2>2. CASE Tracked(n, v)
    <3>1. PICK t : t = [items[n] EXCEPT ![v].copied = 0]
      OBVIOUS
    <3>2. items' = [items EXCEPT ![n] = t]
      BY <1>1, <2>2, <3>1 DEF RecordCopied
    <3>3. /\ items[n] \in [DOMAIN items[n] -> Item] /\ DOMAIN items[n] \in SUBSET Ids
          /\ v \in DOMAIN items[n] /\ items[n][v] \in Item
      BY <1>3, <2>2, TableIs DEF Tracked
    <3>4. /\ [items[n][v] EXCEPT !.copied = 0] \in Item
          /\ [items[n][v] EXCEPT !.copied = 0].copied = 0
      BY <3>3, TrackerAssumption DEF Item, Ages
    <3>5. /\ t \in [DOMAIN items[n] -> Item] /\ t[v].copied = 0
          /\ \A x \in DOMAIN items[n] \ {v} : t[x] = items[n][x]
      BY <3>1, <3>3, <3>4
    <3>6. t \in Tables /\ DOMAIN t = DOMAIN items[n]
      BY <3>3, <3>5, IsTable
    <3>7. items' \in [Nodes -> Tables]
      BY <1>3, <3>2, <3>6
    <3>8. ASSUME NEW m \in Nodes, NEW x \in DOMAIN items'[m]
          PROVE  items'[m][x].copied >= lastCopy[x]
      <4>1. CASE m = n /\ x = v
        BY <1>1, <1>3, <3>2, <3>5, <4>1
      <4>2. CASE m = n /\ x # v
        BY <1>3, <3>2, <3>5, <3>6, <3>8, <4>2 DEF IInv, CopiesAreReal
      <4>3. CASE m # n
        BY <1>3, <3>2, <3>8, <4>3 DEF IInv, CopiesAreReal
      <4> QED  BY <4>1, <4>2, <4>3
    <3> QED  BY <3>7, <3>8
  <2> QED  BY <2>1, <2>2
<1>5. LimiterTypeOK'
  BY <1>2, <1>4 DEF IInv, LimiterTypeOK, TrackerTypeOK
<1>6. CopiesAreReal'
  BY <1>2, <1>4 DEF IInv, CopiesAreReal
<1>7. StoredNow'
  BY <1>2 DEF IInv, StoredNow, LimiterTypeOK
<1> QED  BY <1>5, <1>6, <1>7 DEF IInv

-----------------------------------------------------------------------------
(* Maintenance, restarts and time.                                         *)

\* A sufficient condition for the steps that leave jobs and copies alone.
LEMMA TrackerStepKeeps ==
  ASSUME IInv, UNCHANGED <<job, lastCopy>>, TrackerTypeOK', CopiesAreReal'
  PROVE  IInv'
  BY DEF IInv, LimiterTypeOK, StoredNow

LEMMA SaveKeeps ==
  ASSUME IInv, NEW n \in Nodes, Save(n), UNCHANGED <<job, lastCopy>>
  PROVE  IInv'
<1>1. /\ items \in [Nodes -> Tables] /\ items[n] \in Tables
      /\ file \in [Nodes -> Tables]
  BY DEF IInv, LimiterTypeOK, TrackerTypeOK
<1>2. PICK t \in Tables : /\ t = Scrubbed(items[n])
                          /\ DOMAIN t \subseteq DOMAIN items[n]
                          /\ \A x \in DOMAIN t : t[x] = items[n][x]
  BY <1>1, ScrubbedType
<1>3. /\ items' = [items EXCEPT ![n] = t] /\ inbox' = inbox
      /\ file' = file \/ file' = [file EXCEPT ![n] = t]
  BY <1>1, <1>2 DEF Save
<1>4. \A x \in DOMAIN t : t[x].copied >= lastCopy[x]
  BY <1>2 DEF IInv, CopiesAreReal
<1>5. TrackerTypeOK'
  BY <1>1, <1>3 DEF Save, IInv, LimiterTypeOK, TrackerTypeOK
<1>6. CopiesAreReal'
  <2>1. \A m \in Nodes : \A x \in DOMAIN items'[m] : items'[m][x].copied >= lastCopy[x]
    BY <1>1, <1>3, <1>4 DEF IInv, CopiesAreReal
  <2>2. \A m \in Nodes : \A x \in DOMAIN file'[m] : file'[m][x].copied >= lastCopy[x]
    BY <1>1, <1>3, <1>4 DEF IInv, CopiesAreReal
  <2> QED  BY <1>3, <2>1, <2>2 DEF IInv, CopiesAreReal
<1> QED  BY <1>5, <1>6, TrackerStepKeeps

LEMMA SyncKeeps ==
  ASSUME IInv, NEW n \in Nodes, Sync(n), UNCHANGED <<job, lastCopy>>
  PROVE  IInv'
<1>1. inbox \in [Nodes -> Seq(Gossips)] /\ inbox[n] \in Seq(Gossips) /\ inbox[n] # << >>
  BY DEF Sync, IInv, LimiterTypeOK, TrackerTypeOK
<1>2. PICK g \in Gossips : g = Head(inbox[n]) /\ g = inbox[n][1] /\ 1 \in DOMAIN inbox[n]
  BY <1>1
<1>3. g.id \in Ids /\ g.item \in Item /\ g.item.copied >= lastCopy[g.id]
  BY <1>2 DEF Gossips, IInv, CopiesAreReal
<1>4. PICK v \in Ids, i \in Item : v = g.id /\ i = g.item
  BY <1>3
<1>5. items' = [items EXCEPT ![n] = Put(@, v, i)] /\ i.copied >= lastCopy[v]
  BY <1>2, <1>3, <1>4 DEF Sync, Received
<1>6. /\ items' \in [Nodes -> Tables]
      /\ \A m \in Nodes : \A x \in DOMAIN items'[m] :
           items'[m][x].copied >= lastCopy[x]
  BY <1>5, PutKeeps
<1>7. PICK q : q = Tail(inbox[n])
  OBVIOUS
<1>8. /\ q \in Seq(Gossips) /\ Len(q) = Len(inbox[n]) - 1
       /\ \A k \in 1 .. Len(q) : q[k] = inbox[n][k + 1]
  BY <1>1, <1>7, HeadTailProperties
<1>9. \A k \in DOMAIN q : k + 1 \in DOMAIN inbox[n] /\ q[k] = inbox[n][k + 1]
  BY <1>1, <1>8
<1>10. inbox' = [inbox EXCEPT ![n] = q]
  BY <1>7 DEF Sync
<1>11. TrackerTypeOK'
  BY <1>1, <1>6, <1>8, <1>10 DEF Sync, IInv, LimiterTypeOK, TrackerTypeOK
<1>12. CopiesAreReal'
  <2>1. ASSUME NEW m \in Nodes, NEW k \in DOMAIN inbox'[m]
        PROVE  inbox'[m][k].item.copied >= lastCopy[inbox'[m][k].id]
    <3>1. CASE m = n
      <4>1. inbox'[m] = q
        BY <1>1, <1>10, <3>1
      <4>2. k \in DOMAIN q
        BY <2>1, <4>1
      <4>3. k + 1 \in DOMAIN inbox[n] /\ inbox'[m][k] = inbox[n][k + 1]
        BY <1>9, <4>1, <4>2
      <4> QED  BY <4>3 DEF IInv, CopiesAreReal
    <3>2. CASE m # n
      BY <1>1, <1>10, <2>1, <3>2 DEF IInv, CopiesAreReal
    <3> QED  BY <3>1, <3>2
  <2> QED  BY <1>6, <2>1 DEF Sync, IInv, CopiesAreReal
<1> QED  BY <1>11, <1>12, TrackerStepKeeps

LEMMA LoadKeeps ==
  ASSUME IInv, NEW n \in Nodes, Load(n), UNCHANGED <<job, lastCopy>>
  PROVE  IInv'
<1>1. /\ items \in [Nodes -> Tables] /\ file[n] \in Tables
      /\ file' = file /\ inbox' = inbox
  BY DEF Load, IInv, LimiterTypeOK, TrackerTypeOK
<1>2. PICK t \in Tables : /\ t = Scrubbed(file[n])
                          /\ DOMAIN t \subseteq DOMAIN file[n]
                          /\ \A x \in DOMAIN t : t[x] = file[n][x]
  BY <1>1, ScrubbedType
<1>3. items' = items \/ items' = [items EXCEPT ![n] = t]
  BY <1>2 DEF Load
<1>4. TrackerTypeOK'
  <2>1. status' \in [Nodes -> {"down", "loading", "up"}]
    BY DEF Load, IInv, LimiterTypeOK, TrackerTypeOK
  <2> QED  BY <1>1, <1>3, <2>1 DEF Load, IInv, LimiterTypeOK, TrackerTypeOK
<1>5. CopiesAreReal'
  <2>1. \A x \in DOMAIN t : t[x].copied >= lastCopy[x]
    BY <1>2 DEF IInv, CopiesAreReal
  <2>2. \A m \in Nodes : \A x \in DOMAIN items'[m] : items'[m][x].copied >= lastCopy[x]
    BY <1>1, <1>3, <2>1 DEF IInv, CopiesAreReal
  <2> QED  BY <1>1, <2>2 DEF IInv, CopiesAreReal
<1> QED  BY <1>4, <1>5, TrackerStepKeeps

LEMMA StartKeeps ==
  ASSUME IInv, NEW n \in Nodes, Start(n), UNCHANGED <<job, lastCopy>>
  PROVE  IInv'
<1>1. TrackerTypeOK'
  BY DEF Start, IInv, LimiterTypeOK, TrackerTypeOK
<1>2. CopiesAreReal'
  BY DEF Start, IInv, CopiesAreReal
<1> QED  BY <1>1, <1>2, TrackerStepKeeps

LEMMA StopKeeps ==
  ASSUME IInv, NEW n \in Nodes, Stop(n)
  PROVE  IInv'
<1>1. /\ items \in [Nodes -> Tables] /\ items[n] \in Tables
      /\ file \in [Nodes -> Tables] /\ inbox \in [Nodes -> Seq(Gossips)]
      /\ << >> \in Seq(Gossips)
  BY DEF IInv, LimiterTypeOK, TrackerTypeOK
<1>2. PICK t \in Tables : /\ t = Scrubbed(items[n])
                          /\ DOMAIN t \subseteq DOMAIN items[n]
                          /\ \A x \in DOMAIN t : t[x] = items[n][x]
  BY <1>1, ScrubbedType
<1>3. /\ items' = [items EXCEPT ![n] = Empty] /\ inbox' = [inbox EXCEPT ![n] = << >>]
      /\ file' = file \/ file' = [file EXCEPT ![n] = t]
      /\ lastCopy' = lastCopy /\ job' = [job EXCEPT ![n] = NoJob]
  <2>1. [file EXCEPT ![n] = file[n]] = file
    BY <1>1
  <2> QED  BY <1>2, <2>1 DEF Stop, End
<1>4. LimiterTypeOK'
  <2>1. status' \in [Nodes -> {"down", "loading", "up"}] /\ due' \in [Nodes -> BOOLEAN]
    BY DEF Stop, End, IInv, LimiterTypeOK, TrackerTypeOK
  <2> QED  BY <1>1, <1>3, <2>1, EmptyTable DEF IInv, LimiterTypeOK, TrackerTypeOK
<1>5. CopiesAreReal'
  <2>1. \A m \in Nodes : \A x \in DOMAIN items'[m] : items'[m][x].copied >= lastCopy[x]
    BY <1>1, <1>3, EmptyTable DEF IInv, CopiesAreReal
  <2>2. \A m \in Nodes : \A x \in DOMAIN file'[m] : file'[m][x].copied >= lastCopy[x]
    BY <1>1, <1>2, <1>3 DEF IInv, CopiesAreReal
  <2>3. \A m \in Nodes : \A k \in DOMAIN inbox'[m] :
          inbox'[m][k].item.copied >= lastCopy[inbox'[m][k].id]
    BY <1>1, <1>3 DEF IInv, CopiesAreReal
  <2> QED  BY <1>3, <2>1, <2>2, <2>3 DEF CopiesAreReal
<1>6. StoredNow'
  BY <1>3 DEF IInv, StoredNow, LimiterTypeOK
<1> QED  BY <1>4, <1>5, <1>6 DEF IInv

\* Items and copies get older together.
LEMMA TickKeeps ==
  ASSUME IInv, Tick
  PROVE  IInv'
<1>1. /\ lastCopy \in [Ids -> Ages] /\ job' = job
      /\ \A v \in Ids : lastCopy'[v] = Older(lastCopy[v])
      /\ lastCopy' = [v \in Ids |-> Older(lastCopy[v])]
  BY DEF Tick, IInv, LimiterTypeOK
<1>2. /\ items \in [Nodes -> Tables] /\ file \in [Nodes -> Tables]
      /\ inbox \in [Nodes -> Seq(Gossips)]
      /\ items' = [m \in Nodes |-> OlderTable(items[m])]
      /\ file' = [m \in Nodes |-> OlderTable(file[m])]
      /\ inbox' = [m \in Nodes |-> OlderQueue(inbox[m])]
  BY DEF Tick, TrackerTick, IInv, LimiterTypeOK, TrackerTypeOK
<1>3. ASSUME NEW t \in Tables, \A x \in DOMAIN t : t[x].copied >= lastCopy[x]
      PROVE  /\ OlderTable(t) \in Tables
             /\ \A x \in DOMAIN OlderTable(t) :
                  OlderTable(t)[x].copied >= lastCopy'[x]
  <2>1. /\ OlderTable(t) \in Tables /\ DOMAIN OlderTable(t) = DOMAIN t
        /\ \A v \in DOMAIN t : OlderTable(t)[v].copied = Older(t[v].copied)
    BY OlderTableType
  <2>2. \A x \in DOMAIN t : x \in Ids /\ t[x] \in Item
    BY TableIs
  <2>3. \A x \in DOMAIN t : Older(t[x].copied) >= Older(lastCopy[x])
    BY <1>1, <1>3, <2>2, OlderMonotone DEF Item
  <2> QED  BY <1>1, <2>1, <2>2, <2>3
<1>4. ASSUME NEW m \in Nodes
      PROVE  /\ inbox'[m] \in Seq(Gossips)
             /\ \A k \in DOMAIN inbox'[m] :
                  inbox'[m][k].item.copied >= lastCopy'[inbox'[m][k].id]
  <2>1. PICK q \in Seq(Gossips) : q = inbox[m]
    BY <1>2
  <2>2. inbox'[m] = [k \in DOMAIN q |-> [q[k] EXCEPT !.item = OlderItem(@)]]
    BY <1>2, <2>1 DEF OlderQueue
  <2>3. ASSUME NEW k \in DOMAIN q
        PROVE  /\ inbox'[m][k] \in Gossips
               /\ inbox'[m][k].item.copied >= lastCopy'[inbox'[m][k].id]
    <3>0. q[k] \in Gossips
      BY <2>3, ElementOfSeq
    <3>1. q[k].item \in Item /\ q[k].id \in Ids
      BY <3>0 DEF Gossips
    <3>2. /\ OlderItem(q[k].item) \in Item
          /\ OlderItem(q[k].item).copied = Older(q[k].item.copied)
      BY <3>1, OlderItemType
    <3>3. PICK i \in Item : i = OlderItem(q[k].item)
      BY <3>2
    <3>4. inbox'[m][k] = [q[k] EXCEPT !.item = i]
      BY <2>2, <3>3
    <3>5. /\ inbox'[m][k] \in Gossips /\ inbox'[m][k].item = i
          /\ inbox'[m][k].id = q[k].id
      BY <3>0, <3>4 DEF Gossips
    <3>6. q[k].item.copied >= lastCopy[q[k].id]
      BY <2>1 DEF IInv, CopiesAreReal
    <3>7. Older(q[k].item.copied) >= Older(lastCopy[q[k].id])
      BY <1>1, <3>1, <3>6, OlderMonotone DEF Item
    <3> QED  BY <1>1, <3>1, <3>2, <3>3, <3>5, <3>7
  <2>4. inbox'[m] \in Seq(Gossips)
    <3>1. DOMAIN q = 1 .. Len(q) /\ Len(q) \in Nat
      OBVIOUS
    <3>2. inbox'[m] \in [1 .. Len(q) -> Gossips]
      BY <2>2, <2>3, <3>1
    <3> QED  BY <3>1, <3>2, SeqDef
  <2> QED  BY <2>2, <2>3, <2>4
<1>5. LimiterTypeOK'
  <2>1. items' \in [Nodes -> Tables] /\ file' \in [Nodes -> Tables]
    BY <1>2, <1>3 DEF IInv, CopiesAreReal
  <2>2. inbox' \in [Nodes -> Seq(Gossips)]
    BY <1>2, <1>4
  <2>3. lastCopy' \in [Ids -> Ages]
    BY <1>1, OlderAge
  <2>4. status' = status /\ due' \in [Nodes -> BOOLEAN]
    BY DEF Tick, TrackerTick, IInv, LimiterTypeOK, TrackerTypeOK
  <2> QED  BY <1>1, <2>1, <2>2, <2>3, <2>4 DEF IInv, LimiterTypeOK, TrackerTypeOK
<1>6. CopiesAreReal'
  <2>1. ASSUME NEW m \in Nodes
        PROVE  /\ \A x \in DOMAIN items'[m] : items'[m][x].copied >= lastCopy'[x]
               /\ \A x \in DOMAIN file'[m] : file'[m][x].copied >= lastCopy'[x]
    <3>1. /\ \A x \in DOMAIN items[m] : items[m][x].copied >= lastCopy[x]
          /\ \A x \in DOMAIN file[m] : file[m][x].copied >= lastCopy[x]
      BY DEF IInv, CopiesAreReal
    <3>2. items[m] \in Tables /\ file[m] \in Tables
      BY <1>2
    <3>3. items'[m] = OlderTable(items[m]) /\ file'[m] = OlderTable(file[m])
      BY <1>2
    <3> QED  BY <1>3, <3>1, <3>2, <3>3
  <2> QED  BY <1>4, <2>1 DEF CopiesAreReal
<1>7. StoredNow'
  BY <1>1 DEF Tick, StoredNow, IInv
<1> QED  BY <1>5, <1>6, <1>7 DEF IInv

-----------------------------------------------------------------------------
(* The theorems.                                                           *)

LEMMA NextIInv == IInv /\ [LimiterNext]_vars => IInv'
<1> SUFFICES ASSUME IInv, [LimiterNext]_vars PROVE IInv'
  OBVIOUS
<1>1. ASSUME NEW n \in Nodes, NEW v \in Ids, NEW sz \in Sizes, NEW d \in Deadlines,
             Decide(n, v, sz, d)
      PROVE  IInv'
  BY <1>1, BeginKeeps, Zenon DEF Decide
<1>2. ASSUME NEW n \in Nodes, NEW v \in Ids, NEW sz \in Sizes, MustCopy(n, v, sz)
      PROVE  IInv'
  BY <1>2, BeginKeeps, Zenon DEF MustCopy
<1>3. ASSUME NEW n \in Nodes, Record(n)
      PROVE  IInv'
  BY <1>3, RecordKeeps
<1>4. ASSUME NEW n \in Nodes, Skip(n)
      PROVE  IInv'
  BY <1>4, SkipKeeps
<1>5. ASSUME NEW n \in Nodes, Store(n)
      PROVE  IInv'
  BY <1>5, StoreKeeps
<1>6. ASSUME NEW n \in Nodes, StoreFails(n)
      PROVE  IInv'
  BY <1>6, StoreFailsKeeps
<1>7. ASSUME NEW n \in Nodes, Finish(n)
      PROVE  IInv'
  BY <1>7, FinishKeeps
<1>8. ASSUME NEW n \in Nodes, Maintain(n)
      PROVE  IInv'
  BY <1>8, SaveKeeps, SyncKeeps, LoadKeeps, StartKeeps DEF Maintain
<1>9. ASSUME NEW n \in Nodes, Stop(n)
      PROVE  IInv'
  BY <1>9, StopKeeps
<1>10. CASE Tick
  BY <1>10, TickKeeps
<1>11. CASE UNCHANGED vars
  BY <1>11 DEF vars, tracker, IInv, LimiterTypeOK, TrackerTypeOK, CopiesAreReal, StoredNow
<1> QED
  BY <1>1, <1>2, <1>3, <1>4, <1>5, <1>6, <1>7, <1>8, <1>9, <1>10, <1>11 DEF LimiterNext

\* The inductive invariant holds.
THEOREM LimiterInductive == LimiterSpec => []IInv
  BY InitIInv, NextIInv, PTL DEF LimiterSpec

\* Every variable of the limiter and of its trackers keeps its type: tables hold whole
\* items of known identities, whatever is loaded or gossiped (idtrack.go:120-139, 320-356).
THEOREM TypeCorrect == LimiterSpec => []LimiterTypeOK
<1>1. IInv => LimiterTypeOK
  BY DEF IInv
<1> QED  BY <1>1, LimiterInductive, PTL

\* No item claims a copy the target does not have, whatever is gossiped, lost, saved,
\* loaded or raced in between.
THEOREM CopiesTrue == LimiterSpec => []CopiesAreReal
<1>1. IInv => CopiesAreReal
  BY DEF IInv
<1> QED  BY <1>1, LimiterInductive, PTL

\* A decision not to copy is right: what is decided in a step of the specification.
LEMMA DecisionIsRight ==
  ASSUME IInv, LimiterNext, NEW n \in Nodes,
         job[n] = NoJob, job'[n] # NoJob, ~job'[n].process
  PROVE  lastCopy[job'[n].id] < Interval
<1>1. job \in [Nodes -> Jobs \cup {NoJob}]
  BY DEF IInv, LimiterTypeOK
<1>2. PICK v \in Ids, sz \in Sizes, d \in Deadlines :
        Begin(n, v, sz, FALSE) /\ ~ShouldProcess(n, v, sz, d)
  <2>1. ASSUME NEW m \in Nodes, NEW v \in Ids, NEW sz \in Sizes, Begin(m, v, sz, TRUE)
        PROVE  FALSE
    BY <1>1, <2>1 DEF Begin
  <2>2. ASSUME NEW m \in Nodes, NEW v \in Ids, NEW sz \in Sizes, Begin(m, v, sz, FALSE)
        PROVE  m = n
    BY <1>1, <2>2 DEF Begin
  <2>3. ASSUME NEW m \in Nodes,
               \/ Record(m) \/ Skip(m) \/ Store(m) \/ StoreFails(m)
               \/ Finish(m) \/ Maintain(m) \/ Stop(m)
        PROVE  FALSE
    BY <1>1, <2>3 DEF Record, Skip, Store, StoreFails, Finish, Maintain, Stop, Handling
  <2>4. ~Tick
    BY DEF Tick
  <2>5. PICK m \in Nodes, v \in Ids, sz \in Sizes :
          (\E d \in Deadlines : Decide(m, v, sz, d)) \/ MustCopy(m, v, sz)
    BY <2>3, <2>4 DEF LimiterNext
  <2>6. PICK d \in Deadlines : Begin(m, v, sz, FALSE) /\ ~ShouldProcess(m, v, sz, d)
    BY <2>1, <2>5, Zenon DEF Decide, MustCopy
  <2> QED  BY <2>2, <2>6
<1>3. job'[n].id = v
  BY <1>1, <1>2 DEF Begin
<1>4. Tracked(n, v) /\ ~(items[n][v].copied > d)
  BY <1>2 DEF ShouldProcess, ItemOf
<1>5. items[n][v].copied \in Nat
  <2>1. items[n] \in Tables
    BY DEF IInv, LimiterTypeOK, TrackerTypeOK
  <2>2. items[n][v] \in Item
    BY <1>4, <2>1, TableIs DEF Tracked
  <2> QED  BY <2>2, TrackerAssumption DEF Item, Ages
<1>6. items[n][v].copied >= lastCopy[v] /\ lastCopy[v] \in Nat
  BY <1>4, TrackerAssumption DEF IInv, CopiesAreReal, Tracked, LimiterTypeOK, Ages
<1>7. d \in Nat /\ d < Interval
  BY TrackerAssumption, LimiterAssumption
<1>8. \A c \in Nat, l \in Nat : ~(c > d) /\ c >= l => l < Interval
  BY <1>7, TrackerAssumption
<1>9. lastCopy[v] < Interval
  BY <1>4, <1>5, <1>6, <1>8
<1> QED  BY <1>3, <1>9

\* Every message left out is of an identity copied less than an interval ago.
THEOREM Sampling == LimiterSpec => SampledEveryInterval
<1>1. IInv /\ [LimiterNext]_vars =>
        [\A n \in Nodes :
           job[n] = NoJob /\ job'[n] # NoJob /\ ~job'[n].process
             => lastCopy[job'[n].id] < Interval]_vars
  BY DecisionIsRight
<1> QED  BY <1>1, LimiterInductive, PTL DEF LimiterSpec, SampledEveryInterval
=============================================================================
