---------------------------- MODULE TrackerProof ----------------------------
(***************************************************************************)
(* Facts about the tracker that the proofs about the limiter and the       *)
(* advisor share: what its operations do to tables, items and gossip.      *)
(***************************************************************************)
EXTENDS Tracker, TLAPS, SequenceTheorems

-----------------------------------------------------------------------------
(* Ages and tables.                                                        *)

\* Ages stay ages when time goes by.
LEMMA OlderAge ==
  ASSUME NEW a \in Ages
  PROVE  Older(a) \in Ages
  BY TrackerAssumption DEF Ages, Older

\* Time goes by for all alike.
LEMMA OlderMonotone ==
  ASSUME NEW a \in Ages, NEW b \in Ages, a >= b
  PROVE  Older(a) >= Older(b)
  BY TrackerAssumption DEF Ages, Older

\* An item that gets older is an item.
LEMMA OlderItemType ==
  ASSUME NEW i \in Item
  PROVE  /\ OlderItem(i) \in Item
         /\ OlderItem(i).copied = Older(i.copied)
         /\ OlderItem(i).seen = Older(i.seen)
         /\ OlderItem(i).advised = i.advised
  BY OlderAge DEF OlderItem, Item

\* What a table is.
LEMMA TableIs ==
  ASSUME NEW t \in Tables
  PROVE  DOMAIN t \subseteq Ids /\ t \in [DOMAIN t -> Item]
  BY DEF Tables

LEMMA IsTable ==
  ASSUME NEW S \in SUBSET Ids, NEW t \in [S -> Item]
  PROVE  t \in Tables
  BY DEF Tables

\* Adding or replacing an item.
LEMMA PutType ==
  ASSUME NEW t \in Tables, NEW v \in Ids, NEW i \in Item
  PROVE  /\ Put(t, v, i) \in Tables
         /\ DOMAIN Put(t, v, i) = DOMAIN t \cup {v}
         /\ Put(t, v, i)[v] = i
         /\ \A x \in DOMAIN t \ {v} : Put(t, v, i)[x] = t[x]
<1> DEFINE S == DOMAIN t \cup {v}
<1>1. S \in SUBSET Ids /\ t \in [DOMAIN t -> Item]
  BY TableIs
<1>2. Put(t, v, i) \in [S -> Item]
  BY <1>1 DEF Put
<1>3. Put(t, v, i) \in Tables
  BY <1>1, <1>2, IsTable
<1> QED  BY <1>3 DEF Put

\* Dropping items.
LEMMA KeepType ==
  ASSUME NEW t \in Tables, NEW S \in SUBSET DOMAIN t
  PROVE  /\ Keep(t, S) \in Tables
         /\ DOMAIN Keep(t, S) = S
         /\ \A x \in S : Keep(t, S)[x] = t[x]
<1>1. S \in SUBSET Ids /\ t \in [DOMAIN t -> Item]
  BY TableIs
<1>2. Keep(t, S) \in [S -> Item]
  BY <1>1 DEF Keep
<1>3. Keep(t, S) \in Tables
  BY <1>1, <1>2, IsTable
<1> QED  BY <1>3 DEF Keep

LEMMA ScrubbedType ==
  ASSUME NEW t \in Tables
  PROVE  /\ Scrubbed(t) \in Tables
         /\ DOMAIN Scrubbed(t) \subseteq DOMAIN t
         /\ \A x \in DOMAIN Scrubbed(t) : Scrubbed(t)[x] = t[x]
<1> DEFINE S == DOMAIN t \ Expired(t)
<1>1. S \in SUBSET DOMAIN t
  OBVIOUS
<1> QED  BY <1>1, KeepType DEF Scrubbed

\* A table whose items get older.
LEMMA OlderTableType ==
  ASSUME NEW t \in Tables
  PROVE  /\ OlderTable(t) \in Tables
         /\ DOMAIN OlderTable(t) = DOMAIN t
         /\ \A v \in DOMAIN t : /\ OlderTable(t)[v].copied = Older(t[v].copied)
                                /\ OlderTable(t)[v].seen = Older(t[v].seen)
                                /\ OlderTable(t)[v].advised = t[v].advised
<1>1. DOMAIN t \in SUBSET Ids /\ t \in [DOMAIN t -> Item]
  BY TableIs
<1>2. OlderTable(t) \in [DOMAIN t -> Item]
  BY <1>1, OlderItemType DEF OlderTable
<1>3. OlderTable(t) \in Tables
  BY <1>1, <1>2, IsTable
<1>4. \A v \in DOMAIN t : /\ OlderTable(t)[v].copied = Older(t[v].copied)
                           /\ OlderTable(t)[v].seen = Older(t[v].seen)
                           /\ OlderTable(t)[v].advised = t[v].advised
  BY <1>1, OlderItemType DEF OlderTable
<1> QED  BY <1>3, <1>4 DEF OlderTable

LEMMA EmptyTable == Empty \in Tables /\ DOMAIN Empty = {}
<1>1. Empty \in [{} -> Item] /\ {} \in SUBSET Ids
  BY DEF Empty
<1> QED  BY <1>1, IsTable DEF Empty

\* The item a sighting or a gossip is about.
LEMMA ItemOfType ==
  ASSUME TrackerTypeOK, NEW n \in Nodes, NEW v \in Ids
  PROVE  ItemOf(n, v) \in Item
<1>1. items[n] \in [DOMAIN items[n] -> Item]
  BY TableIs DEF TrackerTypeOK
<1>2. NewItem \in Item
  BY TrackerAssumption DEF NewItem, Item, Ages
<1> QED  BY <1>1, <1>2 DEF ItemOf, Tracked

\* The queues after a gossip was sent to some.
LEMMA DeliverKeeps ==
  ASSUME inbox \in [Nodes -> Seq(Gossips)], NEW got \in SUBSET Nodes,
         NEW g \in Gossips, Deliver(got, g)
  PROVE  /\ inbox' \in [Nodes -> Seq(Gossips)]
         /\ \A m \in Nodes : \A i \in DOMAIN inbox'[m] :
              inbox'[m][i] = g \/ (i \in DOMAIN inbox[m] /\ inbox'[m][i] = inbox[m][i])
<1>1. \A m \in Nodes : inbox'[m] = IF m \in got THEN Append(inbox[m], g) ELSE inbox[m]
  BY DEF Deliver
<1>2. ASSUME NEW m \in Nodes
      PROVE  inbox'[m] \in Seq(Gossips)
  <2>1. inbox[m] \in Seq(Gossips) /\ Append(inbox[m], g) \in Seq(Gossips)
    OBVIOUS
  <2> QED  BY <1>1, <2>1
<1>3. inbox' \in [Nodes -> Seq(Gossips)]
  BY <1>2 DEF Deliver
<1>4. ASSUME NEW m \in Nodes, NEW i \in DOMAIN inbox'[m]
      PROVE  inbox'[m][i] = g \/ (i \in DOMAIN inbox[m] /\ inbox'[m][i] = inbox[m][i])
  <2>1. inbox[m] \in Seq(Gossips)
    OBVIOUS
  <2>2. CASE m \in got
    <3>0. inbox'[m] = Append(inbox[m], g)
      BY <1>1, <2>2
    <3>1. i \in 1 .. Len(inbox[m]) + 1
      BY <1>4, <2>1, <3>0, AppendProperties
    <3>2. CASE i = Len(inbox[m]) + 1
      BY <2>1, <3>0, <3>2, AppendProperties
    <3>3. CASE i \in 1 .. Len(inbox[m])
      BY <2>1, <3>0, <3>3, AppendProperties
    <3> QED  BY <2>1, <3>1, <3>2, <3>3
  <2>3. CASE m \notin got
    BY <1>1, <1>4, <2>1, <2>3
  <2> QED  BY <2>2, <2>3
<1> QED  BY <1>3, <1>4

\* A sighting does not say that anything was copied.
LEMMA SeenItem ==
  ASSUME NEW i \in Item, NEW sz \in Sizes, NEW b \in BOOLEAN
  PROVE  LET j == [i EXCEPT !.seen = 0, !.size = sz, !.advised = @ /\ b]
         IN  j \in Item /\ j.copied = i.copied
<1>1. 0 \in Ages
  BY TrackerAssumption DEF Ages
<1> QED  BY <1>1 DEF Item

-----------------------------------------------------------------------------
(* Operations keep the types.                                              *)

LEMMA PutTyped ==
  ASSUME TrackerTypeOK, NEW n \in Nodes, NEW v \in Ids, NEW i \in Item,
         items' = [items EXCEPT ![n] = Put(@, v, i)]
  PROVE  /\ items' \in [Nodes -> Tables]
         /\ DOMAIN items'[n] = DOMAIN items[n] \cup {v}
         /\ items'[n][v] = i
         /\ \A x \in DOMAIN items[n] \ {v} : items'[n][x] = items[n][x]
<1>1. items \in [Nodes -> Tables] /\ items[n] \in Tables
  BY DEF TrackerTypeOK
<1>2. \A t \in Tables : /\ Put(t, v, i) \in Tables
                        /\ DOMAIN Put(t, v, i) = DOMAIN t \cup {v}
                        /\ Put(t, v, i)[v] = i
                        /\ \A x \in DOMAIN t \ {v} : Put(t, v, i)[x] = t[x]
  BY PutType
<1>3. items'[n] = Put(items[n], v, i)
  BY <1>1
<1> QED  BY <1>1, <1>2, <1>3

LEMMA RecordSeenTyped ==
  ASSUME TrackerTypeOK, NEW n \in Nodes, NEW v \in Ids, NEW sz \in Sizes,
         RecordSeen(n, v, sz)
  PROVE  /\ items' \in [Nodes -> Tables] /\ inbox' \in [Nodes -> Seq(Gossips)]
         /\ DOMAIN items'[n] = DOMAIN items[n] \cup {v}
         /\ items'[n][v].seen = 0
         /\ \A x \in DOMAIN items[n] \ {v} : items'[n][x] = items[n][x]
<1>1. ItemOf(n, v) \in Item
  BY ItemOfType
<1>2. PICK i \in Item : /\ i.seen = 0
                        /\ items' = [items EXCEPT ![n] = Put(@, v, i)]
                        /\ Gossip(n, v, i)
  <2>1. (~Recovers(n, v)) \in BOOLEAN
    BY DEF Recovers
  <2>2. PICK b \in BOOLEAN : b = ~Recovers(n, v)
    BY <2>1
  <2>3. PICK j \in Item : j = [ItemOf(n, v) EXCEPT !.seen = 0, !.size = sz,
                                                   !.advised = @ /\ b]
    BY <1>1, SeenItem
  <2>4. j.seen = 0
    BY <1>1, <2>3 DEF Item
  <2> QED  BY <2>2, <2>3, <2>4 DEF RecordSeen
<1>3. PICK g \in Gossips : g = [id |-> v, item |-> i]
  BY DEF Gossips
<1>4. PICK got \in SUBSET Nodes : Deliver(got, g)
  BY <1>2, <1>3 DEF Gossip
<1>5. inbox' \in [Nodes -> Seq(Gossips)]
  BY <1>4, DeliverKeeps DEF TrackerTypeOK
<1> QED  BY <1>2, <1>5, PutTyped

LEMMA RecordAdvisedTyped ==
  ASSUME TrackerTypeOK, NEW n \in Nodes, NEW v \in Ids, RecordAdvised(n, v)
  PROVE  /\ items' \in [Nodes -> Tables]
         /\ DOMAIN items'[n] = DOMAIN items[n]
         /\ \A x \in DOMAIN items[n] : /\ items'[n][x].seen = items[n][x].seen
                                       /\ x # v => items'[n][x] = items[n][x]
                                       /\ x = v => items'[n][x].advised
<1>1. items \in [Nodes -> Tables] /\ items[n] \in Tables
  BY DEF TrackerTypeOK
<1>2. CASE ~Tracked(n, v)
  BY <1>1, <1>2 DEF RecordAdvised, Tracked
<1>3. CASE Tracked(n, v)
  <2>1. PICK t : t = [items[n] EXCEPT ![v].advised = TRUE]
    OBVIOUS
  <2>2. items' = [items EXCEPT ![n] = t] /\ items'[n] = t
    BY <1>1, <1>3, <2>1 DEF RecordAdvised
  <2>3. /\ items[n] \in [DOMAIN items[n] -> Item] /\ DOMAIN items[n] \in SUBSET Ids
        /\ v \in DOMAIN items[n] /\ items[n][v] \in Item
    BY <1>1, <1>3, TableIs DEF Tracked
  <2>4. /\ [items[n][v] EXCEPT !.advised = TRUE] \in Item
        /\ [items[n][v] EXCEPT !.advised = TRUE].advised
        /\ [items[n][v] EXCEPT !.advised = TRUE].seen = items[n][v].seen
    BY <2>3 DEF Item
  <2>5. /\ t \in [DOMAIN items[n] -> Item]
        /\ t[v].advised /\ t[v].seen = items[n][v].seen
        /\ \A x \in DOMAIN items[n] \ {v} : t[x] = items[n][x]
    BY <2>1, <2>3, <2>4
  <2>6. t \in Tables /\ DOMAIN t = DOMAIN items[n]
    BY <2>3, <2>5, IsTable
  <2> QED  BY <1>1, <2>2, <2>5, <2>6
<1> QED  BY <1>2, <1>3

LEMMA SaveTyped ==
  ASSUME TrackerTypeOK, NEW n \in Nodes, Save(n)
  PROVE  /\ TrackerTypeOK' /\ items'[n] = Scrubbed(items[n])
         /\ file' = file \/ file' = [file EXCEPT ![n] = Scrubbed(items[n])]
<1>1. /\ items \in [Nodes -> Tables] /\ items[n] \in Tables
      /\ file \in [Nodes -> Tables]
  BY DEF TrackerTypeOK
<1>2. PICK t \in Tables : t = Scrubbed(items[n])
  BY <1>1, ScrubbedType
<1>3. /\ items' = [items EXCEPT ![n] = t] /\ items'[n] = t
      /\ file' = file \/ file' = [file EXCEPT ![n] = t]
  BY <1>1, <1>2 DEF Save
<1> QED  BY <1>1, <1>2, <1>3 DEF Save, TrackerTypeOK

LEMMA LoadTyped ==
  ASSUME TrackerTypeOK, NEW n \in Nodes, Load(n)
  PROVE  /\ TrackerTypeOK'
         /\ items' = items \/ items' = [items EXCEPT ![n] = Scrubbed(file[n])]
<1>1. items \in [Nodes -> Tables] /\ file[n] \in Tables
  BY DEF TrackerTypeOK
<1>2. PICK t \in Tables : t = Scrubbed(file[n])
  BY <1>1, ScrubbedType
<1>3. items' = items \/ items' = [items EXCEPT ![n] = t]
  BY <1>2 DEF Load
<1>4. status' \in [Nodes -> {"down", "loading", "up"}]
  BY DEF Load, TrackerTypeOK
<1> QED  BY <1>1, <1>2, <1>3, <1>4 DEF Load, TrackerTypeOK

LEMMA StartTyped ==
  ASSUME TrackerTypeOK, NEW n \in Nodes, Start(n)
  PROVE  TrackerTypeOK'
  BY DEF Start, TrackerTypeOK

LEMMA EndTyped ==
  ASSUME TrackerTypeOK, NEW n \in Nodes, End(n)
  PROVE  /\ TrackerTypeOK' /\ items'[n] = Empty
         /\ \/ file' = file
            \/ status[n] = "up" /\ file' = [file EXCEPT ![n] = Scrubbed(items[n])]
<1>1. /\ items \in [Nodes -> Tables] /\ items[n] \in Tables
      /\ file \in [Nodes -> Tables] /\ inbox \in [Nodes -> Seq(Gossips)]
      /\ << >> \in Seq(Gossips)
  BY DEF TrackerTypeOK
<1>2. PICK t \in Tables : t = Scrubbed(items[n])
  BY <1>1, ScrubbedType
<1>3. /\ items' = [items EXCEPT ![n] = Empty] /\ inbox' = [inbox EXCEPT ![n] = << >>]
      /\ file' = file \/ (status[n] = "up" /\ file' = [file EXCEPT ![n] = t])
  <2>1. [file EXCEPT ![n] = file[n]] = file
    BY <1>1
  <2> QED  BY <1>2, <2>1 DEF End
<1>4. status' \in [Nodes -> {"down", "loading", "up"}] /\ due' \in [Nodes -> BOOLEAN]
  BY DEF End, TrackerTypeOK
<1> QED  BY <1>1, <1>2, <1>3, <1>4, EmptyTable DEF TrackerTypeOK

LEMMA TrackerTickTyped ==
  ASSUME TrackerTypeOK, TrackerTick
  PROVE  TrackerTypeOK'
<1>1. /\ items \in [Nodes -> Tables] /\ file \in [Nodes -> Tables]
      /\ inbox \in [Nodes -> Seq(Gossips)]
      /\ items' = [m \in Nodes |-> OlderTable(items[m])]
      /\ file' = [m \in Nodes |-> OlderTable(file[m])]
      /\ inbox' = [m \in Nodes |-> OlderQueue(inbox[m])]
      /\ status' = status /\ due' \in [Nodes -> BOOLEAN]
  BY DEF TrackerTick, TrackerTypeOK
<1>2. items' \in [Nodes -> Tables] /\ file' \in [Nodes -> Tables]
  BY <1>1, OlderTableType
<1>3. ASSUME NEW q \in Seq(Gossips)
      PROVE  OlderQueue(q) \in Seq(Gossips)
  <2>1. DOMAIN q = 1 .. Len(q) /\ Len(q) \in Nat
    OBVIOUS
  <2>2. ASSUME NEW k \in DOMAIN q
        PROVE  [q[k] EXCEPT !.item = OlderItem(@)] \in Gossips
    <3>1. q[k] \in Gossips
      BY <2>2, ElementOfSeq
    <3>2. PICK i \in Item : i = OlderItem(q[k].item)
      BY <3>1, OlderItemType DEF Gossips
    <3> QED  BY <3>1, <3>2 DEF Gossips
  <2>3. OlderQueue(q) \in [1 .. Len(q) -> Gossips]
    BY <2>1, <2>2 DEF OlderQueue
  <2> QED  BY <2>1, <2>3, SeqDef
<1>4. inbox' \in [Nodes -> Seq(Gossips)]
  BY <1>1, <1>3
<1> QED  BY <1>1, <1>2, <1>4 DEF TrackerTypeOK
=============================================================================
