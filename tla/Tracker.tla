------------------------------ MODULE Tracker ------------------------------
(***************************************************************************)
(* The table of identities a replicator keeps (idtrack/idtrack.go): when   *)
(* each was last seen and last copied, how large its message was, whether  *)
(* a timeout was advised.  It is saved to a file every ten seconds, and    *)
(* with advisories configured every sighting is gossiped to the other      *)
(* replicators of the stream, whose items it replaces.                     *)
(*                                                                         *)
(* Times are ages, in units of the maintenance period: time goes on for    *)
(* ever and the states stay finite.  Clocks of different hosts agree.      *)
(*                                                                         *)
(* Limiter and Advisor add who calls the tracker, and the callbacks.       *)
(***************************************************************************)
EXTENDS Integers, Sequences, FiniteSets

CONSTANTS
  Nodes,      \* the replicators of one stream
  Ids,        \* identities found in its messages
  Sizes,      \* sizes of messages
  Interval,   \* Tracker.interval, config inspect_duration
  WarnAge,    \* Tracker.warnAge, config warn_duration
  Advising,   \* config advisory is set: callbacks are registered, and gossip
  Stateful,   \* those whose config has a state_store
  MaxAge,     \* ages saturate here: beyond every deadline, or never
  GossipCap,  \* bound on the gossip on its way
  Faults      \* what may go wrong, or slowly

ASSUME TrackerAssumption ==
  /\ Sizes \subseteq Nat
  /\ Interval \in Nat /\ WarnAge \in 0 .. Interval
  /\ MaxAge \in Nat /\ MaxAge > Interval
  /\ Advising \in BOOLEAN /\ Stateful \subseteq Nodes
  /\ GossipCap \in Nat

VARIABLES
  status,  \* a process is down, loading its state, or up
  items,   \* Tracker.Items of a node
  file,    \* the items in the state file of a node
  inbox,   \* gossip on its way to clusterSync of a node
  due      \* the maintenance ticker of a node fired

tracker == <<status, items, file, inbox, due>>

Ages == 0 .. MaxAge
Item == [seen : Ages, copied : Ages, size : Sizes \cup {0}, advised : BOOLEAN]
Tables == UNION {[S -> Item] : S \in SUBSET Ids}
Gossips == [id : Ids, item : Item]

Older(a) == IF a < MaxAge THEN a + 1 ELSE a
OlderItem(i) == [i EXCEPT !.seen = Older(@), !.copied = Older(@)]
OlderTable(t) == [v \in DOMAIN t |-> OlderItem(t[v])]
OlderQueue(q) == [i \in DOMAIN q |-> [q[i] EXCEPT !.item = OlderItem(@)]]
Empty == [v \in {} |-> {}]
Put(t, v, i) == [x \in DOMAIN t \cup {v} |-> IF x = v THEN i ELSE t[x]]
Keep(t, S) == [x \in S |-> t[x]]

TrackerInit ==
  /\ status = [n \in Nodes |-> "loading"]
  /\ items = [n \in Nodes |-> Empty]
  /\ file = [n \in Nodes |-> Empty]
  /\ inbox = [n \in Nodes |-> << >>]
  /\ due = [n \in Nodes |-> FALSE]

-----------------------------------------------------------------------------
(* Calls of the limiter and of the advisor: each holds the tracker's mutex. *)

Tracked(n, v) == v \in DOMAIN items[n]

\* addItem: seen now, never copied, no size.
NewItem == [seen |-> 0, copied |-> MaxAge, size |-> 0, advised |-> FALSE]

ItemOf(n, v) == IF Tracked(n, v) THEN items[n][v] ELSE NewItem

\* Mutant: only what was advised can recover.
RecoversAdvised(n, v) ==
  /\ Advising /\ ItemOf(n, v).advised
  /\ ItemOf(n, v).seen > WarnAge /\ ItemOf(n, v).seen < Interval

\* A sighting calls recoverCB: the item is late, but not as late as to expire.
Recovers(n, v) ==
  Advising /\ ItemOf(n, v).seen > WarnAge /\ ItemOf(n, v).seen < Interval

\* Gossip on its way, to whomever.
InFlight == UNION {{m} \X DOMAIN inbox[m] : m \in Nodes}

Deliver(got, g) ==
  /\ Cardinality(InFlight) + Cardinality(got) <= GossipCap
  /\ inbox' = [m \in Nodes |-> IF m \in got THEN Append(inbox[m], g) ELSE inbox[m]]

\* Mutant: the connection echoes what it publishes to its own subscription.
GossipEchoed(n, v, i) ==
  \E got \in SUBSET {m \in Nodes : Advising /\ status[m] # "down"} :
    Deliver(got, [id |-> v, item |-> i])

\* The item is published on the sync subject.  Nobody acknowledges it: a replicator
\* gets it or not.  NoEcho (util.go:39) keeps it from the publisher's own tracker.
Gossip(n, v, i) ==
  \E got \in SUBSET {m \in Nodes \ {n} : Advising /\ status[m] # "down"} :
    Deliver(got, [id |-> v, item |-> i])

\* RecordSeen: copied keeps its value, also in what is gossiped.
RecordSeen(n, v, sz) ==
  LET i == [ItemOf(n, v) EXCEPT !.seen = 0, !.size = sz,
                                !.advised = @ /\ ~Recovers(n, v)]
  IN  /\ items' = [items EXCEPT ![n] = Put(@, v, i)]
      /\ Gossip(n, v, i)

\* Mutant: the clock of this host is ahead of the others'.
RecordCopiedAhead(n, v) ==
  items' = IF Tracked(n, v) THEN [items EXCEPT ![n][v].copied = -1] ELSE items

\* RecordCopied and RecordAdvised do nothing for an item that is gone.
RecordCopied(n, v) ==
  items' = IF Tracked(n, v) THEN [items EXCEPT ![n][v].copied = 0] ELSE items

RecordAdvised(n, v) ==
  items' = IF Tracked(n, v) THEN [items EXCEPT ![n][v].advised = TRUE] ELSE items

-----------------------------------------------------------------------------
(* Maintenance.                                                            *)

Expired(t) == {v \in DOMAIN t : t[v].seen > Interval}

\* Mutant: what expired is compared with the wrong deadline.
ToExpireNothing(n) == {v \in Expired(items[n]) : items[n][v].seen <= Interval}

\* scrub() tells of what expired not too long ago, and of what is late and was not
\* advised.
ToExpire(n) == {v \in Expired(items[n]) : items[n][v].seen <= 2 * Interval}
ToWarn(n) == {v \in DOMAIN items[n] \ Expired(items[n]) :
                 ~items[n][v].advised /\ items[n][v].seen > WarnAge}

Scrubbed(t) == Keep(t, DOMAIN t \ Expired(t))

\* The ticker of maintainer() calls saveState: scrub, and replace the file (or remove
\* it with the last item), which may fail.  Without a state file it returns before the
\* scrub, and is never due here.
Save(n) ==
  /\ status[n] = "up" /\ due[n]
  /\ items' = [items EXCEPT ![n] = Scrubbed(@)]
  /\ \/ file' = [file EXCEPT ![n] = items'[n]]
     \/ "disk" \in Faults /\ UNCHANGED file
  /\ due' = [due EXCEPT ![n] = FALSE]
  /\ UNCHANGED <<status, inbox>>

\* clusterSync: the gossiped item replaces the local one, whatever they hold.
Received(n, g) == items' = [items EXCEPT ![n] = Put(@, g.id, g.item)]

Sync(n) ==
  /\ status[n] # "down" /\ inbox[n] # << >>
  /\ Received(n, Head(inbox[n]))
  /\ inbox' = [inbox EXCEPT ![n] = Tail(@)]
  /\ UNCHANGED <<status, file, due>>

\* loadState, after clusterSync was started: it refuses when something was gossiped
\* before.  What expired meanwhile is dropped before any callback is registered.
Load(n) ==
  /\ status[n] = "loading"
  /\ status' = [status EXCEPT ![n] = "up"]
  /\ \/ /\ n \in Stateful /\ items[n] = Empty
        /\ items' = [items EXCEPT ![n] = Scrubbed(file[n])]
     \/ /\ n \notin Stateful \/ items[n] # Empty \/ "disk" \in Faults
        /\ UNCHANGED items
  /\ UNCHANGED <<file, inbox, due>>

\* The process ends: by a crash, or after the last save of maintainer() when its
\* context is done.
End(n) ==
  /\ status[n] # "down"
  /\ status' = [status EXCEPT ![n] = "down"]
  /\ items' = [items EXCEPT ![n] = Empty]
  /\ file' \in {file, [file EXCEPT ![n] =
                        IF n \in Stateful /\ status[n] = "up" THEN Scrubbed(items[n])
                        ELSE @]}
  /\ inbox' = [inbox EXCEPT ![n] = << >>]
  /\ due' = [due EXCEPT ![n] = FALSE]

Start(n) ==
  /\ status[n] = "down"
  /\ status' = [status EXCEPT ![n] = "loading"]
  /\ UNCHANGED <<items, file, inbox, due>>

\* A maintenance period goes by; every tracker with a state file scrubs once in it.
TrackerTick ==
  /\ \A n \in Nodes : ~due[n]
  /\ due' = [n \in Nodes |-> status[n] = "up" /\ n \in Stateful]
  /\ items' = [n \in Nodes |-> OlderTable(items[n])]
  /\ file' = [n \in Nodes |-> OlderTable(file[n])]
  /\ inbox' = [n \in Nodes |-> OlderQueue(inbox[n])]
  /\ UNCHANGED status

TrackerTypeOK ==
  /\ status \in [Nodes -> {"down", "loading", "up"}]
  /\ items \in [Nodes -> Tables]
  /\ file \in [Nodes -> Tables]
  /\ inbox \in [Nodes -> Seq(Gossips)]
  /\ due \in [Nodes -> BOOLEAN]
=============================================================================
