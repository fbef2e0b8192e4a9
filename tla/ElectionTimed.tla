---------------------------- MODULE ElectionTimed ----------------------------
(***************************************************************************)
(* Election with its timers: the campaign ticker, the requests, the pause  *)
(* before wonCb, the TTL of the bucket.  Time advances in whole units by   *)
(* Tick, which overtakes nothing that is due.  A request is sent by one    *)
(* step, reaches the bucket by a later one and is answered by a third: the *)
(* code sets no limit to that, so it may take the client's own timeout.    *)
(*                                                                         *)
(* The replicator and the heartbeats campaign with a backoff policy        *)
(* (replicator.go:248, heartbeat.go:224); the fixed interval of            *)
(* election.go:109-111 is not modelled with its time.                      *)
(*                                                                         *)
(* The things that go wrong from outside (lost requests, answers that take *)
(* longer than delay, crashes, writes and deletes by others) are counted   *)
(* by faults, up to MaxFaults.                                             *)
(***************************************************************************)
EXTENDS Election, Sequences

CONSTANTS
  Timings,   \* how the candidates may be configured, all of them alike:
             \*   waits[k]  what Duration(k - 1) may return, after jitter
             \*   delay     the longest a request takes when nothing is wrong
             \*   timeout   how long the client waits for an answer
             \*   ttl       the TTL of the bucket
  Splays,    \* the start-up waits of campaign()
  WonPause,  \* the pause before wonCb
  MaxFaults  \* bound on the faults of a behaviour

ASSUME TimedAssumption ==
  /\ Splays \subseteq Nat /\ WonPause \in Nat /\ MaxFaults \in Nat
  /\ \A t \in Timings :
       /\ t.delay \in Nat /\ t.timeout \in Nat /\ t.ttl \in Nat
       /\ t.delay <= t.timeout
       /\ t.waits \in Seq(SUBSET Nat) /\ Len(t.waits) = MaxTries + 1
       /\ \A k \in DOMAIN t.waits :
            \E d \in t.waits[k] : \A e \in t.waits[k] : e <= d

VARIABLES
  timing, \* the configuration
  timer,  \* units to the next tick of a node's ticker
  sent,   \* a request of a node is on its way to the bucket
  wait,   \* units to the answer, or to the end of the pause, of a node
  age,    \* age of the live value of the key
  faults

tvars == <<vars, timing, timer, sent, wait, age, faults>>

TInit ==
  /\ Init
  /\ timing \in Timings
  /\ timer = [n \in Nodes |-> 0]
  /\ sent = [n \in Nodes |-> FALSE]
  /\ wait = [n \in Nodes |-> 0]
  /\ age = 0
  /\ faults = 0

\* Mutant: the jitter may make a wait longer than the TTL.
DurationBeyondTTL(try) == timing.waits[1] \cup {timing.ttl + 1}

\* Mutant: the wait grows with the tries and does not saturate.
DurationUnsaturated(try) == {d * (try + 1) : d \in timing.waits[1]}

\* Duration (backoff.go:55-61): the waits of the policy at this try, the last ones
\* from its end on.
Duration(try) ==
  timing.waits[IF try < Len(timing.waits) THEN try + 1 ELSE Len(timing.waits)]

\* Every step ends with one of these; the configuration never changes.
Fault ==
  /\ faults < MaxFaults /\ faults' = faults + 1
  /\ UNCHANGED timing

NoFault == UNCHANGED <<faults, timing>>

\* A write starts a new life of the key.
Written == age' = IF key' # key THEN 0 ELSE age

TStart(n) ==
  /\ Start(n)
  /\ \E splay \in Splays : timer' = [timer EXCEPT ![n] = splay]
  /\ UNCHANGED <<sent, wait, age>> /\ NoFault

\* A tick of the ticker, or the end of the start-up wait: try() sends its request.
\* What the ticker does meanwhile is dropped by the Reset at the end of tick().
TSend(n) ==
  /\ pc[n] \in {"splay", "idle"} /\ ~sent[n]
  /\ timer[n] = 0 \/ (pc[n] = "splay" /\ cancelled[n])
  /\ sent' = [sent EXCEPT ![n] = TRUE]
  /\ \E d \in 0 .. timing.timeout :
       /\ wait' = [wait EXCEPT ![n] = d]
       /\ IF d > timing.delay THEN Fault ELSE NoFault
  /\ UNCHANGED <<vars, timer, age>>

\* The request reaches the bucket, or is lost.
TArrive(n) ==
  /\ sent[n]
  /\ Campaign(n) \/ Maintain(n)
  /\ sent' = [sent EXCEPT ![n] = FALSE]
  /\ Written
  /\ LET expected == IF state[n] = "leader" THEN lastSeq[n] ELSE NoKey
     IN IF (key = expected /\ reply'[n] = NoRev) \/ late' # late
        THEN Fault ELSE NoFault
  /\ UNCHANGED <<timer, wait>>

\* The end of tick(): the ticker is reset for the tries so far.
TickEnds(n) ==
  \E d \in Duration(tries'[n]) : timer' = [timer EXCEPT ![n] = d]

\* The answer, or the error of the client that had none in time.
TAnswer(n) ==
  /\ wait[n] = 0
  /\ Created(n) \/ CreateFailed(n) \/ Updated(n) \/ UpdateFailed(n)
  /\ IF pc'[n] = "won"
     THEN /\ wait' = [wait EXCEPT ![n] = WonPause]
          /\ UNCHANGED timer
     ELSE TickEnds(n) /\ UNCHANGED wait
  /\ UNCHANGED <<sent, age>> /\ NoFault

\* The pause is over, or the context ended it.
TWon(n) ==
  /\ wait[n] = 0 \/ cancelled[n]
  /\ Won(n)
  /\ wait' = [wait EXCEPT ![n] = 0]
  /\ TickEnds(n)
  /\ UNCHANGED <<sent, age>> /\ NoFault

TCancel(n) ==
  /\ Cancel(n)
  /\ UNCHANGED <<timer, sent, wait, age>> /\ Fault

TShutdown(n) ==
  /\ ~sent[n]
  /\ Shutdown(n) \/ Delete(n)
  /\ timer' = [timer EXCEPT ![n] = 0]
  /\ wait' = [wait EXCEPT ![n] = 0]
  /\ Written /\ NoFault
  /\ UNCHANGED sent

\* A process ends by itself after its shutdown; before that it is a crash.  A request
\* that outlives its process is one TArrive has put among the late ones.
TExit(n) ==
  /\ Exit(n)
  /\ timer' = [timer EXCEPT ![n] = 0]
  /\ sent' = [sent EXCEPT ![n] = FALSE]
  /\ wait' = [wait EXCEPT ![n] = 0]
  /\ UNCHANGED age
  /\ IF pc[n] = "done" THEN NoFault ELSE Fault

\* The value reaches its TTL, or somebody deletes it.
TExpire ==
  /\ Expire
  /\ age' = 0
  /\ UNCHANGED <<timer, sent, wait>>
  /\ IF age = timing.ttl THEN NoFault ELSE Fault

TOutsider ==
  /\ Corrupt \/ LateArrival
  /\ Written
  /\ UNCHANGED <<timer, sent, wait>> /\ Fault

\* What has to happen before time may pass.
Due(n) ==
  \/ pc[n] \in {"splay", "idle"} /\ ~sent[n] /\ (timer[n] = 0 \/ cancelled[n])
  \/ (sent[n] \/ pc[n] \in {"create", "update", "won"}) /\ wait[n] = 0
  \/ pc[n] = "won" /\ cancelled[n]
  \/ pc[n] = "delete"

Less(f) == [n \in Nodes |-> IF f[n] > 0 THEN f[n] - 1 ELSE 0]

Tick ==
  /\ \A n \in Nodes : ~Due(n)
  /\ key # NoKey => age < timing.ttl
  /\ timer' = Less(timer)
  /\ wait' = Less(wait)
  /\ age' = IF key # NoKey THEN age + 1 ELSE 0
  /\ UNCHANGED <<vars, sent>> /\ NoFault

TNode(n) == TStart(n) \/ TSend(n) \/ TArrive(n) \/ TAnswer(n) \/ TWon(n)
            \/ TCancel(n) \/ TShutdown(n) \/ TExit(n)

TNext == Tick \/ TExpire \/ TOutsider \/ \E n \in Nodes : TNode(n)

\* Go schedules every goroutine, timers fire, the bucket applies its TTL, the
\* operator starts what is down; faults are never required to happen.
Fairness ==
  /\ WF_tvars(Tick)
  /\ WF_tvars(age = timing.ttl /\ TExpire)
  /\ \A n \in Nodes :
       /\ WF_tvars(TStart(n))
       /\ WF_tvars(TSend(n))
       /\ WF_tvars(TArrive(n))
       /\ WF_tvars(TAnswer(n) \/ TWon(n))
       /\ WF_tvars(TShutdown(n))
       /\ WF_tvars(pc[n] = "done" /\ TExit(n))

TSpec == TInit /\ [][TNext]_tvars /\ Fairness

-----------------------------------------------------------------------------
(* Properties.                                                             *)

\* The waits a ticker is ever set to.
Waits == Splays \cup UNION {timing.waits[k] : k \in DOMAIN timing.waits}

TimedTypeOK ==
  /\ TypeOK
  /\ timing \in Timings
  /\ timer \in [Nodes -> Nat]
  /\ \A n \in Nodes : \E d \in Waits : timer[n] <= d
  /\ sent \in [Nodes -> BOOLEAN]
  /\ wait \in [Nodes -> 0 .. timing.timeout + WonPause]
  /\ age \in 0 .. timing.ttl
  /\ faults \in 0 .. MaxFaults

\* A replicator copies while its last callback was wonCb and its context is not
\* done: both come from the same process.
Leads(n) == active[n] /\ ~cancelled[n]

\* Never two leaders at once: the pause until the next campaign gives a deposed
\* leader the time to find out (election.go:176, election_test.go:202-203).
AtMostOneLeads == \A m, n \in Nodes : Leads(m) /\ Leads(n) => m = n

\* Without a fault from outside it is so: no campaign interval, jitter and start-up
\* wait makes the key of a leader run out and lets a second one in.
CalmOneLeads == faults = 0 => AtMostOneLeads

\* A leader that has lost the key, and may not know it.
Deposed(n) == Leads(n) /\ ~Holds(n)

\* The longest wait of a leader for its next tick.
Longest == CHOOSE d \in timing.waits[1] : \A e \in timing.waits[1] : e <= d

\* Units until a deposed leader has stood down, at the latest: until the update it
\* makes at its next tick has failed.
EndsIn(n) ==
  CASE pc[n] = "update" /\ reply[n] # NoRev -> wait[n] + Longest + timing.timeout
    [] pc[n] = "idle" /\ ~sent[n] -> timer[n] + timing.timeout
    [] OTHER -> wait[n]

\* A deposed leader never gets the key back, and leads on for no longer than one
\* interval and the client's timeouts of two requests: two may lead at once, and this
\* is how long they may (election.go:160-172, 236).
DeposedStandsDown ==
  [][\A n \in Nodes : Deposed(n) =>
       /\ EndsIn(n) <= Longest + 2 * timing.timeout
       /\ Leads(n)' => /\ Deposed(n)'
                       /\ EndsIn(n)' <= EndsIn(n)
                       /\ Tick => EndsIn(n)' < EndsIn(n)]_tvars

\* Without a fault from outside nobody loses the leadership: the campaign
\* intervals and the answers fit the TTL (election.go:220, 236; backoff.go:55-61).
OnlyFaultsDepose ==
  [][\A n \in Nodes : active[n] /\ ~active'[n] => faults' # 0]_tvars

\* When the faults are over some node becomes the leader and stays it.
LeadershipSettles == \E n \in Nodes : <>[]Leads(n)
=============================================================================
