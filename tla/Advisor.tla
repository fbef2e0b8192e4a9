------------------------------ MODULE Advisor ------------------------------
(***************************************************************************)
(* Advisories (advisor/advisor.go): what a replicator tells consumers      *)
(* about an identity: that it is new, silent (timeout), back (recover) or  *)
(* gone (expire).  The tracker calls back, each call in a goroutine of its *)
(* own; the calls fill a queue and a publisher empties it, unless it is    *)
(* paused because another replicator leads.                                *)
(*                                                                         *)
(* Nodes holds one replicator.  Those that lead while it is paused do what *)
(* they should: their gossip, and what they tell consumers, are Hear and   *)
(* Overhear.                                                               *)
(***************************************************************************)
EXTENDS Tracker

CONSTANTS
  Electing,  \* config leader_election_name is set
  Reliable,  \* config advisory.reliable: publish to JetStream and retry
  MaxTries,  \* publishes of an advisory when reliable, 10 in the code
  QueueCap   \* places in the queue, 1000 in the code

ASSUME AdvisorAssumption ==
  /\ Electing \in BOOLEAN /\ Reliable \in BOOLEAN
  /\ MaxTries \in Nat \ {0} /\ QueueCap \in Nat \ {0}
  /\ MaxAge > 2 * Interval
  /\ Advising /\ \E n \in Nodes : Nodes = {n}

VARIABLES
  calls,   \* callbacks that run, in goroutines of their own
  queue,   \* Advisor.out
  out,     \* the advisory the publisher has in hand
  paused,  \* Advisor.paused
  view,    \* the last advisory consumers got about an identity
  told,    \* history: a timeout was queued since the identity was last seen
  missed   \* history: consumers miss an advisory, or got one too late

advisor == <<calls, queue, out, paused>>
vars == <<tracker, advisor, view, told, missed>>

Kinds == {"new", "timeout", "recover", "expire"}
Silent == {"timeout", "expire"}
Advisories == [kind : Kinds, id : Ids]
NoAdvisory == [kind |-> "none"]
InHand == [kind : Kinds, id : Ids, tries : 0 .. MaxTries, stored : BOOLEAN]

\* A lost timeout is made up for by the expire, any other advisory by none.
Misses(S) == missed' = [v \in Ids |-> missed[v] \/ \E a \in S :
                                        a.id = v /\ a.kind # "timeout"]

About(S, v) == {a \in S : a # NoAdvisory /\ a.id = v}
Queued(n) == {queue[n][i] : i \in DOMAIN queue[n]}
Pending(n) == calls[n] \cup Queued(n) \cup {out[n]}

AdvisorInit ==
  /\ TrackerInit
  /\ calls = [n \in Nodes |-> {}]
  /\ queue = [n \in Nodes |-> << >>]
  /\ out = [n \in Nodes |-> NoAdvisory]
  /\ paused = [n \in Nodes |-> Electing]
  /\ view = [v \in Ids |-> "none"]
  /\ told = [v \in Ids |-> FALSE]
  /\ missed = [v \in Ids |-> FALSE]

-----------------------------------------------------------------------------
(* The tracker calls back.                                                 *)

Seen(n, v) ==
  (IF Tracked(n, v) THEN {} ELSE {[kind |-> "new", id |-> v]})
    \cup (IF Recovers(n, v) THEN {[kind |-> "recover", id |-> v]} ELSE {})

\* Seen again after the interval, before the scrub that would expire it.
TooLate(n, v) == Tracked(n, v) /\ items[n][v].seen >= Interval

\* A callback that has not run yet tells of a silence that is over.
Overtaken(n, v) == \E a \in calls[n] : a.id = v /\ a.kind \in Silent

\* The copier handles a message of v, be it paused.
Handle(n, v) ==
  /\ status[n] = "up"
  /\ \E sz \in Sizes : RecordSeen(n, v, sz)
  /\ calls' = [calls EXCEPT ![n] = @ \cup Seen(n, v)]
  /\ told' = [told EXCEPT ![v] = FALSE]
  /\ missed' = [missed EXCEPT ![v] =
                  \/ TooLate(n, v) \/ Overtaken(n, v)
                  \/ @ /\ (Seen(n, v) = {} \/ About(Pending(n), v) # {})]
  /\ UNCHANGED <<status, file, due, queue, out, paused, view>>

\* The maintainer scrubs.
Maintain(n) ==
  /\ Save(n)
  /\ calls' = [calls EXCEPT ![n] = @
                 \cup {[kind |-> "expire", id |-> v] : v \in ToExpire(n)}
                 \cup {[kind |-> "timeout", id |-> v] : v \in ToWarn(n)}]
  /\ UNCHANGED <<queue, out, paused, view, told, missed>>

-----------------------------------------------------------------------------
(* newAdvisory: only a timeout that got into the queue is marked.          *)

\* Mutant: a timeout is not marked.
EnqueueUnmarked(n, a) ==
  /\ a \in calls[n] /\ Len(queue[n]) < QueueCap
  /\ queue' = [queue EXCEPT ![n] = Append(@, a)]
  /\ calls' = [calls EXCEPT ![n] = @ \ {a}]
  /\ told' = IF a.kind = "timeout" THEN [told EXCEPT ![a.id] = TRUE] ELSE told
  /\ UNCHANGED <<tracker, out, paused, view, missed>>

\* Mutant: an off-by-one in the bound of the queue.
EnqueueOverfull(n, a) ==
  /\ a \in calls[n] /\ Len(queue[n]) <= QueueCap
  /\ queue' = [queue EXCEPT ![n] = Append(@, a)]
  /\ calls' = [calls EXCEPT ![n] = @ \ {a}]
  /\ UNCHANGED <<tracker, out, paused, view, told, missed>>

\* The advisory enters the queue and then, under the tracker's mutex, is marked
\* (advisor.go:217-219).  The two are one step here: the wait for the mutex, which
\* saveState holds while it writes the file, is taken for shorter than the
\* maintenance period, so no scrub falls between them.
Enqueue(n, a) ==
  /\ a \in calls[n] /\ Len(queue[n]) < QueueCap
  /\ queue' = [queue EXCEPT ![n] = Append(@, a)]
  /\ calls' = [calls EXCEPT ![n] = @ \ {a}]
  /\ IF a.kind = "timeout"
     THEN RecordAdvised(n, a.id) /\ told' = [told EXCEPT ![a.id] = TRUE]
     ELSE UNCHANGED <<items, told>>
  /\ UNCHANGED <<status, file, inbox, due, out, paused, view, missed>>

\* The queue is full: the advisory is dropped.
Overflow(n, a) ==
  /\ a \in calls[n] /\ Len(queue[n]) = QueueCap
  /\ calls' = [calls EXCEPT ![n] = @ \ {a}]
  /\ Misses({a})
  /\ UNCHANGED <<tracker, queue, out, paused, view, told>>

-----------------------------------------------------------------------------
(* The publisher.                                                          *)

Take(n) ==
  /\ out[n] = NoAdvisory /\ queue[n] # << >> /\ ~paused[n]
  /\ LET a == Head(queue[n])
     IN  out' = [out EXCEPT ![n] = [kind |-> a.kind, id |-> a.id, tries |-> 0,
                                    stored |-> FALSE]]
  /\ queue' = [queue EXCEPT ![n] = Tail(@)]
  /\ UNCHANGED <<tracker, calls, paused, view, told, missed>>

\* What is taken from the queue while paused is dropped.
Discard(n) ==
  /\ out[n] = NoAdvisory /\ queue[n] # << >> /\ paused[n]
  /\ queue' = [queue EXCEPT ![n] = Tail(@)]
  /\ Misses({Head(queue[n])})
  /\ UNCHANGED <<tracker, calls, out, paused, view, told>>

Tries == IF Reliable THEN MaxTries ELSE 1
CanTry(n) == out[n] # NoAdvisory /\ out[n].tries < Tries

\* Consumers get it; a second publish has the same EventID and is a duplicate.
Stored(n) ==
  view' = IF out[n].stored THEN view ELSE [view EXCEPT ![out[n].id] = out[n].kind]

Published(n) ==
  /\ CanTry(n)
  /\ Stored(n)
  /\ out' = [out EXCEPT ![n] = NoAdvisory]
  /\ UNCHANGED <<tracker, calls, queue, paused, told, missed>>

\* No answer: the stream has it, or not.
Unanswered(n) ==
  /\ Reliable /\ "publish" \in Faults /\ CanTry(n)
  /\ \/ Stored(n) /\ out' = [out EXCEPT ![n].tries = @ + 1, ![n].stored = TRUE]
     \/ out' = [out EXCEPT ![n].tries = @ + 1] /\ UNCHANGED view
  /\ UNCHANGED <<tracker, calls, queue, paused, told, missed>>

\* It gives up after ten tries, and without reliable does not know of a loss.
GiveUp(n) ==
  /\ out[n] # NoAdvisory /\ "publish" \in Faults
  /\ out[n].tries = Tries \/ ~Reliable
  /\ out' = [out EXCEPT ![n] = NoAdvisory]
  /\ Misses(IF out[n].stored THEN {} ELSE {out[n]})
  /\ UNCHANGED <<tracker, calls, queue, paused, view, told>>

-----------------------------------------------------------------------------
(* Leadership, the other replicators, restarts and time.                   *)

\* Lost and won are called back by the election.
Pause(n) ==
  /\ Electing /\ status[n] = "up" /\ ~paused[n]
  /\ paused' = [paused EXCEPT ![n] = TRUE]
  /\ UNCHANGED <<tracker, calls, queue, out, view, told, missed>>

Resume(n) ==
  /\ Electing /\ status[n] = "up" /\ paused[n]
  /\ paused' = [paused EXCEPT ![n] = FALSE]
  /\ UNCHANGED <<tracker, calls, queue, out, view, told, missed>>

\* Another replicator saw v, told consumers when it was back, and the gossip arrives.
\* What this one has still to publish comes after it.
Hear(n, v) ==
  /\ status[n] = "up" /\ paused[n]
  /\ \E sz \in Sizes :
       Received(n, [id |-> v, item |-> [NewItem EXCEPT !.size = sz]])
  /\ view' = IF view[v] \in Silent THEN [view EXCEPT ![v] = "recover"] ELSE view
  /\ told' = [told EXCEPT ![v] = FALSE]
  /\ missed' = [missed EXCEPT ![v] = About(Pending(n), v) # {}]
  /\ UNCHANGED <<status, file, inbox, due, advisor>>

\* Another replicator told consumers that v is silent.
Overhear(n, v) ==
  /\ status[n] = "up" /\ paused[n] /\ Tracked(n, v) /\ items[n][v].seen > WarnAge
  /\ view' = [view EXCEPT ![v] = "timeout"]
  /\ UNCHANGED <<tracker, advisor, told, missed>>

\* The callbacks are registered after the state was loaded, and the advisor of an
\* elected replicator waits for it to win.
LoadState(n) ==
  /\ Load(n)
  /\ UNCHANGED <<advisor, view, told, missed>>

Restart(n) ==
  /\ Start(n)
  /\ UNCHANGED <<advisor, view, told, missed>>

Stop(n) ==
  /\ End(n)
  /\ calls' = [calls EXCEPT ![n] = {}]
  /\ queue' = [queue EXCEPT ![n] = << >>]
  /\ out' = [out EXCEPT ![n] = NoAdvisory]
  /\ paused' = [paused EXCEPT ![n] = Electing]
  /\ told' = [v \in Ids |-> FALSE]
  /\ Misses(Pending(n) \ {NoAdvisory})
  /\ UNCHANGED view

\* A callback takes no time: it only tries to queue.  A publish may take long.
Tick ==
  /\ \A n \in Nodes : calls[n] = {}
  /\ TrackerTick
  /\ UNCHANGED <<advisor, view, told, missed>>

Callback(n) == \E a \in calls[n] : Enqueue(n, a) \/ Overflow(n, a)
Publisher(n) == Take(n) \/ Discard(n) \/ Published(n) \/ Unanswered(n) \/ GiveUp(n)

AdvisorNext ==
  \/ \E n \in Nodes, v \in Ids : Handle(n, v) \/ Hear(n, v) \/ Overhear(n, v)
  \/ \E n \in Nodes : \/ Maintain(n) \/ Callback(n) \/ Publisher(n)
                      \/ Pause(n) \/ Resume(n)
                      \/ LoadState(n) \/ Restart(n) \/ Stop(n)
  \/ Tick

\* Goroutines run, a publish ends, and time goes on.
AdvisorFairness ==
  /\ \A n \in Nodes : /\ WF_vars(Maintain(n)) /\ WF_vars(Callback(n))
                      /\ WF_vars(Publisher(n))
  /\ WF_vars(Tick)

AdvisorSpec == AdvisorInit /\ [][AdvisorNext]_vars /\ AdvisorFairness

-----------------------------------------------------------------------------

\* Type invariant.
AdvisorTypeOK ==
  /\ TrackerTypeOK
  /\ calls \in [Nodes -> SUBSET Advisories]
  /\ queue \in [Nodes -> Seq(Advisories)]
  /\ \A n \in Nodes : Len(queue[n]) <= QueueCap
  /\ out \in [Nodes -> InHand \cup {NoAdvisory}]
  /\ paused \in [Nodes -> BOOLEAN]
  /\ view \in [Ids -> Kinds \cup {"none"}]
  /\ told \in [Ids -> BOOLEAN] /\ missed \in [Ids -> BOOLEAN]

\* Consumers do not take a living identity for silent: while it is seen in time, and
\* nothing about it is still to be published, the last they were told is that it is new
\* or back, whatever was restarted, retried or handed over.  The exceptions are all in
\* missed: an advisory lost to a full queue, to the last try, to a pause or to the end
\* of the process; a callback that is overtaken; a return too late to recover and too
\* early to be new (idtrack.go:209-215, 416-438; advisor.go:144, 182, 216).
ViewCorrect ==
  \A n \in Nodes, v \in Ids :
    /\ status[n] = "up" /\ Tracked(n, v) /\ items[n][v].seen <= WarnAge
    /\ About(Pending(n), v) = {} /\ ~missed[v]
    => view[v] \notin Silent

\* A silence is told at most once by a process, however long a publish takes and however
\* often it is scrubbed (idtrack.go:422, advisor.go:218-220).
OnceASilence ==
  [][\A n \in Nodes, v \in Ids :
       queue'[n] = Append(queue[n], [kind |-> "timeout", id |-> v]) => ~told[v]]_vars

Leads(n) == status[n] = "up" /\ ~paused[n]

\* A replicator that leads in the end tells consumers of a silence, by the timeout or by
\* the expire, though the queue was full, a publish failed or the timeout was dropped
\* while it was paused (idtrack.go:416-438, advisor.go:216-224).  It needs a state file:
\* without one nothing is ever scrubbed (idtrack.go:359).
SilenceTold ==
  \A n \in Stateful, v \in Ids :
    Leads(n) /\ Tracked(n, v) /\ items[n][v].seen > WarnAge /\ ~missed[v]
      ~> \/ view[v] \in Silent \/ missed[v] \/ ~Leads(n)
         \/ Tracked(n, v) /\ items[n][v].seen = 0
=============================================================================
