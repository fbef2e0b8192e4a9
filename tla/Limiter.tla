------------------------------ MODULE Limiter ------------------------------
(***************************************************************************)
(* Sampling (limiter/memory/limiter.go): of the messages of one identity   *)
(* the copiers copy one per inspect_duration, and those whose size jumped. *)
(* ProcessAndRecord is not atomic: it decides, records the sighting, lets  *)
(* the copier handle the message and records the copy, each under a lock   *)
(* of the tracker of its own, while gossip and maintenance go on.          *)
(*                                                                         *)
(* Any replicator may handle a message of any identity at any time: who    *)
(* leads, and what is redelivered, is the business of Election and         *)
(* SourceCopier.  A message without the inspected field is copied and      *)
(* leaves the tracker alone; it is left out.                               *)
(***************************************************************************)
EXTENDS Tracker

CONSTANTS
  SizeTrigger,  \* config size_trigger, 0: none
  Deadlines     \* the interval less a second and less a random splay, at most 10 %

ASSUME LimiterAssumption ==
  SizeTrigger \in Nat /\ Deadlines \subseteq 0 .. Interval - 1

VARIABLES
  job,      \* what ProcessAndRecord of a node is doing
  lastCopy  \* history: when the target last stored a message of an identity

vars == <<tracker, job, lastCopy>>

NoJob == [step |-> "idle"]
Jobs == [step : {"decided", "seen", "stored"}, id : Ids, size : Sizes,
         process : BOOLEAN]

LimiterInit ==
  /\ TrackerInit
  /\ job = [n \in Nodes |-> NoJob]
  /\ lastCopy = [v \in Ids |-> MaxAge]

-----------------------------------------------------------------------------

\* Mutant: only the sightings are looked at, not the copies.
ShouldProcessBySeen(n, v, sz, d) ==
  ~Tracked(n, v) \/ ItemOf(n, v).seen > d

\* Distances of sizes are taken from the last message seen, copied or not.
SizeJumped(i, sz) ==
  \/ i.size = 0 /\ sz # 0
  \/ SizeTrigger > 0 /\ (sz - i.size >= SizeTrigger \/ i.size - sz >= SizeTrigger)

ShouldProcess(n, v, sz, d) ==
  LET i == ItemOf(n, v)
  IN  ~Tracked(n, v) \/ i.copied > d \/ SizeJumped(i, sz) \/ i.seen > d

Begin(n, v, sz, process) ==
  /\ status[n] = "up" /\ job[n] = NoJob
  /\ job' = [job EXCEPT ![n] = [step |-> "decided", id |-> v, size |-> sz,
                                process |-> process]]
  /\ UNCHANGED <<tracker, lastCopy>>

Decide(n, v, sz, d) ==
  \/ ShouldProcess(n, v, sz, d) /\ Begin(n, v, sz, TRUE)
  \/ ~ShouldProcess(n, v, sz, d) /\ Begin(n, v, sz, FALSE)

\* The message holds the force field.
MustCopy(n, v, sz) == Begin(n, v, sz, TRUE)

\* The sighting is recorded before anything is copied.
Record(n) ==
  /\ job[n] # NoJob /\ job[n].step = "decided"
  /\ RecordSeen(n, job[n].id, job[n].size)
  /\ job' = [job EXCEPT ![n].step = "seen"]
  /\ UNCHANGED <<status, file, due, lastCopy>>

Handling(n, process) ==
  job[n] # NoJob /\ job[n].step = "seen" /\ job[n].process = process

\* The copier acknowledges the message and does not copy it.
Skip(n) ==
  /\ Handling(n, FALSE)
  /\ job' = [job EXCEPT ![n] = NoJob]
  /\ UNCHANGED <<tracker, lastCopy>>

Store(n) ==
  /\ Handling(n, TRUE)
  /\ lastCopy' = [lastCopy EXCEPT ![job[n].id] = 0]
  /\ job' = [job EXCEPT ![n].step = "stored"]
  /\ UNCHANGED tracker

\* Mutant: an error of the copier is not looked at.
StoreFailsUnseen(n) ==
  /\ "store" \in Faults /\ Handling(n, TRUE)
  /\ job' = [job EXCEPT ![n].step = "stored"]
  /\ UNCHANGED <<tracker, lastCopy>>

\* The copier returns an error: nothing was stored, or the answer was lost.
StoreFails(n) ==
  /\ "store" \in Faults /\ Handling(n, TRUE)
  /\ lastCopy' \in {lastCopy, [lastCopy EXCEPT ![job[n].id] = 0]}
  /\ job' = [job EXCEPT ![n] = NoJob]
  /\ UNCHANGED tracker

Finish(n) ==
  /\ job[n] # NoJob /\ job[n].step = "stored"
  /\ RecordCopied(n, job[n].id)
  /\ job' = [job EXCEPT ![n] = NoJob]
  /\ UNCHANGED <<status, file, inbox, due, lastCopy>>

-----------------------------------------------------------------------------

Maintain(n) == (Save(n) \/ Sync(n) \/ Load(n) \/ Start(n)) /\ UNCHANGED <<job, lastCopy>>

Stop(n) ==
  /\ End(n)
  /\ job' = [job EXCEPT ![n] = NoJob]
  /\ UNCHANGED lastCopy

Idle == \A n \in Nodes : job[n] = NoJob

\* No period ends between a store and its record: what is waited for there is the
\* answer of the target, for two seconds at most (src_to_dest_copier.go:327), and a
\* period is ten.  So a copy may be recorded up to two seconds younger than it is,
\* which the model does not tell from now.  Before the store any time may pass.
Tick ==
  /\ "slowStore" \in Faults \/ Idle
  /\ \A n \in Nodes : job[n] = NoJob \/ job[n].step # "stored"
  /\ TrackerTick
  /\ lastCopy' = [v \in Ids |-> Older(lastCopy[v])]
  /\ UNCHANGED job

LimiterNext ==
  \/ \E n \in Nodes, v \in Ids, sz \in Sizes :
       (\E d \in Deadlines : Decide(n, v, sz, d)) \/ MustCopy(n, v, sz)
  \/ \E n \in Nodes : \/ Record(n) \/ Skip(n) \/ Store(n) \/ StoreFails(n)
                      \/ Finish(n) \/ Maintain(n) \/ Stop(n)
  \/ Tick

LimiterSpec == LimiterInit /\ [][LimiterNext]_vars

-----------------------------------------------------------------------------

\* Type invariant.
LimiterTypeOK ==
  /\ TrackerTypeOK
  /\ job \in [Nodes -> Jobs \cup {NoJob}]
  /\ lastCopy \in [Ids -> Ages]

\* No item, kept, gossiped or on disk, says its identity was copied later than the
\* target says (limiter.go:158-165, idtrack.go:130, 346).
CopiesAreReal ==
  \A n \in Nodes :
    /\ \A v \in DOMAIN items[n] : items[n][v].copied >= lastCopy[v]
    /\ \A v \in DOMAIN file[n] : file[n][v].copied >= lastCopy[v]
    /\ \A i \in DOMAIN inbox[n] : inbox[n][i].item.copied >= lastCopy[inbox[n][i].id]

\* A replicator leaves a message out only when the target got one of the same
\* identity less than an interval ago, whichever replicator copied it, whatever was
\* gossiped, lost or restarted in between (limiter.go:154, idtrack.go:281).
SampledEveryInterval ==
  [][\A n \in Nodes :
       job[n] = NoJob /\ job'[n] # NoJob /\ ~job'[n].process
         => lastCopy[job'[n].id] < Interval]_vars

\* From some time on only n handles messages, quickly and without a failing store, and
\* no process ends or starts.
OnlyHandles(n) ==
  <>[][/\ \A m \in Nodes : job'[m] # job[m] => m = n
       /\ status' = status
       /\ ~StoreFails(n)
       /\ Tick => Idle]_vars

\* Then in the end n decides to copy no identity the target got within the shortest
\* deadline, but for a message whose size jumped: neither its own gossip nor that of
\* the others undoes for ever what it recorded (util.go:39, idtrack.go:130, 220-228).
SamplingSettles ==
  \A n \in Nodes : OnlyHandles(n) =>
    <>[][\A v \in Ids, sz \in Sizes, d \in Deadlines :
           /\ \A e \in Deadlines : lastCopy[v] <= e
           /\ Decide(n, v, sz, d) /\ job'[n].process
           => SizeJumped(ItemOf(n, v), sz)]_vars
=============================================================================
