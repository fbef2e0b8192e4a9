-------------------------- MODULE ElectionTimedProof --------------------------
(* Machine-checked proofs about ElectionTimed, for every set of nodes, every  *)
(* timing and every number of faults: that it implements Election, that only *)
(* a fault ends a leadership or lets two nodes lead, and how long a deposed  *)
(* leader goes on.                                                           *)
EXTENDS ElectionTimed, ElectionProof

-----------------------------------------------------------------------------
(* What the timers rest on.                                                *)

\* How the place in the campaign loop goes together with what Phases leaves open.
Loop(n) ==
  /\ pc[n] \in {"delete", "done"} => cancelled[n]
  /\ pc[n] \notin {"create", "update"} => reply[n] = NoRev
  /\ state[n] = "leader" =>
       /\ pc[n] \in {"idle", "update", "won"}
       /\ tries[n] = 0
       /\ pc[n] = "won" \/ notifyNext[n] \/ active[n]

\* No request outlasts the client's timeout, and no pause the one before wonCb.
Paced(n) ==
  /\ sent[n] => pc[n] \in {"splay", "idle"}
  /\ sent[n] \/ pc[n] \in {"create", "update"} => wait[n] <= timing.timeout
  /\ pc[n] = "won" => wait[n] <= WonPause

TimedInv == IInv /\ TimedTypeOK /\ \A n \in Nodes : Loop(n) /\ Paced(n)

\* Every timed step is a step of the election, or lets only time pass.
LEMMA StepElection == [TNext]_tvars => [Next]_vars
<1>1. ASSUME NEW n \in Nodes, TNode(n) PROVE Node(n) \/ UNCHANGED vars
  BY <1>1 DEF TNode, TStart, TSend, TArrive, TAnswer, TWon, TCancel, TShutdown, TExit, Node
<1>2. CASE Tick \/ UNCHANGED tvars
  BY <1>2 DEF Tick, tvars
<1>3. CASE TExpire \/ TOutsider
  BY <1>3 DEF TExpire, TOutsider, Next
<1>4. QED
  BY <1>1, <1>2, <1>3 DEF TNext, Next

LEMMA StepIInv == IInv /\ [Next]_vars => IInv'
BY StepTypeOK, StepDistinct, StepPhases DEF IInv

\* The numbers of a configuration.
LEMMA Timing ==
  ASSUME timing \in Timings
  PROVE  /\ timing.delay \in Nat /\ timing.timeout \in Nat /\ timing.ttl \in Nat
         /\ timing.delay <= timing.timeout
         /\ WonPause \in Nat /\ MaxFaults \in Nat /\ Splays \subseteq Nat
         /\ \A d \in timing.waits[1] : d \in Nat
         /\ timing.waits[1] # {}
BY TimedAssumption, ElectionAssumption

\* Every try has a wait of the policy, the first ones of a leader (backoff.go:55-61).
LEMMA Policy ==
  ASSUME timing \in Timings
  PROVE  /\ Duration(0) = timing.waits[1]
         /\ \A k \in Nat : \A d \in Duration(k) : d \in Nat /\ d \in Waits
<1> USE TimedAssumption, ElectionAssumption DEF Duration
<1>1. timing.waits \in Seq(SUBSET Nat) /\ Len(timing.waits) = MaxTries + 1
  OBVIOUS
<1>2. DOMAIN timing.waits = 1 .. MaxTries + 1
  BY <1>1
<1>3. \A k \in 1 .. MaxTries + 1 : timing.waits[k] \subseteq Nat
  BY <1>1
<1>4. Duration(0) = timing.waits[1]
  BY <1>1
<1>5. ASSUME NEW k \in Nat, NEW d \in Duration(k)
      PROVE  d \in Nat /\ d \in Waits
  <2>1. PICK i \in 1 .. MaxTries + 1 : Duration(k) = timing.waits[i]
    BY <1>1
  <2>2. QED
    BY <1>1, <1>2, <1>3, <1>5, <2>1 DEF Waits
<1>6. QED
  BY <1>4, <1>5

\* A ticker that has fired is within some wait.
LEMMA WaitsNat ==
  ASSUME timing \in Timings
  PROVE  Waits \subseteq Nat /\ \E d \in Waits : d \in Nat
<1>1. /\ timing.waits \in Seq(SUBSET Nat) /\ Len(timing.waits) = MaxTries + 1
      /\ MaxTries \in Nat /\ Splays \subseteq Nat
  BY TimedAssumption, ElectionAssumption
<1>2. DOMAIN timing.waits = 1 .. MaxTries + 1
  BY <1>1
<1>3. \A k \in 1 .. MaxTries + 1 : timing.waits[k] \subseteq Nat
  BY <1>1
<1>4. Waits \subseteq Nat
  BY <1>1, <1>2, <1>3 DEF Waits
<1>5. 1 \in DOMAIN timing.waits /\ timing.waits[1] # {}
  BY <1>1, <1>2, Timing
<1>6. QED
  BY <1>4, <1>5 DEF Waits

\* What the arrival of a request does: one compare-and-set.
Expected(n) == IF state[n] = "leader" THEN lastSeq[n] ELSE NoKey

LEMMA ArriveEffect ==
  ASSUME TimedInv, NEW n \in Nodes, TArrive(n)
  PROVE  /\ pc[n] \in {"splay", "idle"} /\ state[n] \in {"candidate", "leader"}
         /\ state[n] = "leader" => pc[n] = "idle"
         /\ pc' = [pc EXCEPT ![n] = IF state[n] = "leader" THEN "update" ELSE "create"]
         /\ UNCHANGED <<campaigner, cancelled, active, timing, timer, wait>>
         /\ \A m \in Nodes : m # n => reply'[m] = reply[m]
         /\ \/ key # Expected(n) /\ key' = key /\ reply'[n] = NoRev
            \/ key' = key /\ reply'[n] = NoRev /\ faults' # 0
            \/ /\ key = Expected(n) /\ key' \in Revs \ InUse
               /\ reply'[n] = key' \/ (reply'[n] = NoRev /\ faults' # 0)
         /\ late' = late \/ faults' # 0
         /\ sent[n] /\ sent' = [sent EXCEPT ![n] = FALSE]
         /\ wait[n] <= timing.timeout
<1> USE DEF TimedInv, TimedTypeOK
<1>0. TypeOK /\ faults \in Nat
  BY Timing DEF IInv
<1>1. Request(n, Expected(n), IF state[n] = "leader" THEN "update" ELSE "create")
  BY DEF TArrive, Campaign, Maintain, Expected
<1>2. Expected(n) \in Revs \cup {NoKey}
  BY LeaderExpects DEF Expected
<1>3. /\ pc[n] \in {"splay", "idle"} /\ state[n] \in {"candidate", "leader"}
      /\ state[n] = "leader" => pc[n] = "idle"
  BY DEF TArrive, Campaign, Maintain
<1>4. /\ pc' = [pc EXCEPT ![n] = IF state[n] = "leader" THEN "update" ELSE "create"]
      /\ UNCHANGED <<campaigner, cancelled, active>>
  BY <1>1 DEF Request
<1>5. UNCHANGED <<timing, timer, wait>> /\ (Fault \/ NoFault)
  BY DEF TArrive, Fault, NoFault
<1>6. Fault => faults' # 0
  BY <1>0 DEF Fault
<1>7. \A m \in Nodes : m # n => reply'[m] = reply[m]
  BY <1>0, <1>1, <1>2, RequestEffect
<1>8. /\ (key = Expected(n) /\ reply'[n] = NoRev) \/ late' # late => Fault
  BY DEF TArrive, Expected
<1>9. \/ key # Expected(n) /\ key' = key /\ reply'[n] = NoRev
      \/ key' = key /\ reply'[n] = NoRev /\ faults' # 0
      \/ /\ key = Expected(n) /\ key' \in Revs \ InUse
         /\ reply'[n] = key' \/ (reply'[n] = NoRev /\ faults' # 0)
  <2>1. CASE TimedOut(n, Expected(n))
    BY <1>0, <1>6, <1>8, <2>1 DEF TimedOut, TypeOK
  <2>2. CASE Delivered(n, Expected(n)) /\ key # Expected(n)
    BY <1>0, <2>2 DEF Delivered, TypeOK
  <2>3. CASE Delivered(n, Expected(n)) /\ key = Expected(n)
    BY <1>0, <1>6, <1>8, <2>3 DEF Delivered, Fresh, TypeOK
  <2>4. QED
    BY <1>1, <2>1, <2>2, <2>3 DEF Request
<1>10. late' = late \/ faults' # 0
  BY <1>6, <1>8
<1>11. sent[n] /\ sent' = [sent EXCEPT ![n] = FALSE] /\ wait[n] <= timing.timeout
  BY DEF TArrive, Paced
<1>12. QED
  BY <1>3, <1>4, <1>5, <1>7, <1>9, <1>10, <1>11

\* What sending it does: only the wait for its answer begins.
LEMMA SendEffect ==
  ASSUME TimedInv, NEW n \in Nodes, TSend(n)
  PROVE  /\ pc[n] \in {"splay", "idle"} /\ ~sent[n]
         /\ timer[n] = 0 \/ cancelled[n]
         /\ UNCHANGED <<vars, timer, age, timing>>
         /\ sent' = [sent EXCEPT ![n] = TRUE]
         /\ wait'[n] \in 0 .. timing.timeout
         /\ wait' = [wait EXCEPT ![n] = wait'[n]]
         /\ wait'[n] <= timing.delay \/ faults' # 0
<1> USE DEF TimedInv, TimedTypeOK
<1>1. PICK d \in 0 .. timing.timeout :
        /\ wait' = [wait EXCEPT ![n] = d]
        /\ IF d > timing.delay THEN Fault ELSE NoFault
  BY DEF TSend
<1>2. faults \in Nat /\ timing.delay \in Nat /\ timing.timeout \in Nat
  BY Timing
<1>3. wait'[n] = d
  BY <1>1
<1>4. d <= timing.delay \/ faults' # 0
  <2>1. CASE d > timing.delay
    BY <1>1, <1>2, <2>1 DEF Fault
  <2>2. QED
    BY <1>2, <2>1
<1>5. timing' = timing
  BY <1>1 DEF Fault, NoFault
<1>6. /\ pc[n] \in {"splay", "idle"} /\ ~sent[n]
      /\ timer[n] = 0 \/ cancelled[n]
      /\ UNCHANGED <<vars, timer, age>>
      /\ sent' = [sent EXCEPT ![n] = TRUE]
  BY DEF TSend
<1>7. QED
  BY <1>1, <1>3, <1>4, <1>5, <1>6

\* The end of a tick sets a new wait.
LEMMA TickEndsEffect ==
  ASSUME TimedInv, NEW n \in Nodes, TickEnds(n), tries'[n] \in Nat
  PROVE  /\ timer' \in [Nodes -> Nat]
         /\ \A m \in Nodes : m # n => timer'[m] = timer[m]
         /\ timer'[n] \in Duration(tries'[n]) /\ timer'[n] \in Waits
BY Policy, Timing DEF TickEnds, TimedInv, TimedTypeOK

\* What no step of n touches of another node.
SameNode(m) ==
  /\ pc'[m] = pc[m] /\ state'[m] = state[m] /\ lastSeq'[m] = lastSeq[m]
  /\ tries'[m] = tries[m] /\ notifyNext'[m] = notifyNext[m] /\ reply'[m] = reply[m]
  /\ cancelled'[m] = cancelled[m] /\ active'[m] = active[m]
  /\ timer'[m] = timer[m] /\ wait'[m] = wait[m] /\ sent'[m] = sent[m]

LEMMA OthersSame ==
  ASSUME TimedInv, TypeOK', NEW n \in Nodes, NEW m \in Nodes, m # n, TNode(n)
  PROVE  SameNode(m)
<1> USE DEF TimedInv, TimedTypeOK, SameNode, IInv, TypeOK
<1>1. CASE TStart(n)
  BY <1>1 DEF TStart, Start, server
<1>2. CASE TArrive(n) \/ TSend(n)
  BY <1>2, ArriveEffect, SendEffect DEF campaigner, vars
<1>3. CASE TAnswer(n)
  <2>1. /\ pc'[m] = pc[m] /\ state'[m] = state[m] /\ lastSeq'[m] = lastSeq[m]
        /\ tries'[m] = tries[m] /\ notifyNext'[m] = notifyNext[m]
        /\ reply'[m] = reply[m] /\ cancelled'[m] = cancelled[m]
        /\ active'[m] = active[m]
    BY <1>3 DEF TAnswer, Created, CreateFailed, Updated, UpdateFailed
  <2>2. timer'[m] = timer[m] /\ wait'[m] = wait[m] /\ sent'[m] = sent[m]
    BY <1>3, ElectionAssumption, TickEndsEffect DEF TAnswer
  <2>3. QED
    BY <2>1, <2>2
<1>4. CASE TWon(n)
  <2>1. timer'[m] = timer[m] /\ wait'[m] = wait[m] /\ sent'[m] = sent[m]
    BY <1>4, ElectionAssumption, TickEndsEffect DEF TWon
  <2>2. QED
    BY <1>4, <2>1 DEF TWon, Won, campaigner
<1>5. CASE TCancel(n)
  BY <1>5 DEF TCancel, Cancel, campaigner
<1>6. CASE TShutdown(n)
  BY <1>6 DEF TShutdown, Shutdown, Delete, campaigner
<1>7. CASE TExit(n)
  BY <1>7 DEF TExit, Exit
<1>8. QED
  BY <1>1, <1>2, <1>3, <1>4, <1>5, <1>6, <1>7 DEF TNode

LEMMA InitTimed == TInit => TimedInv
<1> SUFFICES ASSUME TInit PROVE TimedInv
  OBVIOUS
<1>1. IInv
  BY InitIInv DEF TInit
<1>2. TimedTypeOK
  <2>1. timing \in Timings /\ \A n \in Nodes : timer[n] = 0
    BY DEF TInit
  <2>2. \A n \in Nodes : \E d \in Waits : timer[n] <= d
    BY <2>1, WaitsNat
  <2>3. QED
    BY <1>1, <2>1, <2>2, Timing DEF TInit, TimedTypeOK, IInv
<1>3. \A n \in Nodes : Loop(n) /\ Paced(n)
  BY DEF TInit, Init, Loop, Paced
<1>4. QED
  BY <1>1, <1>2, <1>3 DEF TimedInv

\* The steps of a node keep the types of the timers.
LEMMA NodeTypes ==
  ASSUME TimedInv, TypeOK', NEW n \in Nodes, TNode(n)
  PROVE  TimedTypeOK'
<1> USE Timing DEF TimedInv, TimedTypeOK
<1>0. faults' \in 0 .. MaxFaults /\ timing' = timing
  <2>1. Fault \/ NoFault
    BY DEF TNode, TStart, TSend, TArrive, TAnswer, TWon, TCancel, TShutdown, TExit, Fault, NoFault
  <2>2. QED
    BY <2>1 DEF Fault, NoFault
<1>1. age' \in 0 .. timing.ttl
  BY DEF TNode, TStart, TSend, TArrive, TAnswer, TWon, TCancel, TShutdown, TExit, Written
<1>2. wait' \in [Nodes -> 0 .. timing.timeout + WonPause]
  <2>1. CASE TSend(n)
    BY <2>1, SendEffect
  <2>2. CASE ~TSend(n)
    BY <2>2, ArriveEffect DEF TNode, TStart, TAnswer, TWon, TCancel, TShutdown, TExit
  <2>3. QED
    BY <2>1, <2>2
<1>3. sent' \in [Nodes -> BOOLEAN]
  BY DEF TNode, TStart, TSend, TArrive, TAnswer, TWon, TCancel, TShutdown, TExit
<1>4. timer' \in [Nodes -> Nat] /\ (timer' = timer \/ \E d \in Waits : timer'[n] <= d)
  <2>1. CASE TArrive(n) \/ TSend(n) \/ TCancel(n)
    BY <2>1, ArriveEffect, SendEffect DEF TCancel
  <2>2. ASSUME TickEnds(n)
        PROVE  timer' \in [Nodes -> Nat] /\ \E d \in Waits : timer'[n] <= d
    <3>1. timer' \in [Nodes -> Nat] /\ timer'[n] \in Waits
      BY <2>2, TickEndsEffect, ElectionAssumption DEF TypeOK
    <3>2. timer'[n] <= timer'[n]
      BY <3>1
    <3>3. QED
      BY <3>1, <3>2
  <2>3. CASE TAnswer(n) \/ TWon(n)
    BY <2>2, <2>3 DEF TAnswer, TWon
  <2>4. CASE TStart(n)
    <3>1. PICK splay \in Splays : timer' = [timer EXCEPT ![n] = splay]
      BY <2>4 DEF TStart
    <3>2. splay \in Nat /\ splay \in Waits
      BY DEF Waits
    <3>3. QED
      BY <3>1, <3>2
  <2>5. CASE TShutdown(n) \/ TExit(n)
    BY <2>5, WaitsNat DEF TShutdown, TExit
  <2>6. QED
    BY <2>1, <2>3, <2>4, <2>5 DEF TNode
<1>5. \A m \in Nodes : \E d \in Waits' : timer'[m] <= d
  <2>1. Waits' = Waits
    BY <1>0 DEF Waits
  <2>2. \A m \in Nodes : m # n => timer'[m] = timer[m]
    BY OthersSame DEF SameNode
  <2>3. QED
    BY <1>4, <2>1, <2>2
<1>6. QED
  BY <1>0, <1>1, <1>2, <1>3, <1>4, <1>5

\* The steps of a node keep it in its loop and in its pace.
LEMMA NodePaced ==
  ASSUME TimedInv, IInv', TimedTypeOK', NEW n \in Nodes, TNode(n)
  PROVE  Loop(n)' /\ Paced(n)'
<1> USE Timing DEF TimedInv, TimedTypeOK, IInv, TypeOK, Phases, ActiveLeads
<1>0. timing' = timing
  BY DEF TNode, TStart, TSend, TArrive, TAnswer, TWon, TCancel, TShutdown, TExit, Fault, NoFault
<1>1. CASE TStart(n)
  BY <1>0, <1>1 DEF TStart, Start, server, Loop, Paced
<1>2. CASE TSend(n)
  BY <1>0, <1>2, SendEffect DEF vars, Loop, Paced
<1>3. CASE TArrive(n)
  <2>1. Loop(n)'
    BY <1>3, ArriveEffect DEF campaigner, Loop
  <2>2. Paced(n)'
    BY <1>0, <1>3, ArriveEffect DEF Paced
  <2>3. QED
    BY <2>1, <2>2
<1>4. CASE TAnswer(n)
  <2>1. Loop(n)'
    BY <1>4 DEF TAnswer, Created, CreateFailed, Updated, UpdateFailed, Loop
  <2>2. CASE pc'[n] = "won"
    <3>1. pc[n] = "update" /\ ~sent'[n] /\ wait'[n] = WonPause
      BY <1>4, <2>2 DEF TAnswer, Created, CreateFailed, Updated, UpdateFailed, Paced
    <3>2. QED
      BY <1>0, <2>1, <2>2, <3>1 DEF Paced
  <2>3. CASE pc'[n] # "won"
    <3>1. pc'[n] = "idle" /\ ~sent'[n]
      BY <1>4, <2>3 DEF TAnswer, Created, CreateFailed, Updated, UpdateFailed, Paced
    <3>2. QED
      BY <2>1, <3>1 DEF Paced
  <2>4. QED
    BY <2>2, <2>3
<1>5. CASE TWon(n)
  BY <1>5 DEF TWon, Won, campaigner, Loop, Paced
<1>6. CASE TCancel(n)
  BY <1>0, <1>6 DEF TCancel, Cancel, campaigner, Loop, Paced
<1>7. CASE TShutdown(n)
  <2>1. cancelled[n] /\ cancelled' = cancelled
    BY <1>7 DEF TShutdown, Shutdown, Delete, Loop
  <2>2. pc'[n] \in {"delete", "done"} /\ state'[n] # "leader"
    <3>1. CASE Shutdown(n)
      BY <3>1 DEF Shutdown
    <3>2. CASE Delete(n)
      BY <3>2 DEF Delete, campaigner, Loop
    <3>3. QED
      BY <1>7, <3>1, <3>2 DEF TShutdown
  <2>3. reply'[n] = NoRev /\ ~sent'[n]
    BY <1>7 DEF TShutdown, Shutdown, Delete, Loop
  <2>4. QED
    BY <2>1, <2>2, <2>3 DEF Loop, Paced
<1>8. CASE TExit(n)
  BY <1>8 DEF TExit, Exit, Loop, Paced
<1>9. QED
  BY <1>1, <1>2, <1>3, <1>4, <1>5, <1>6, <1>7, <1>8 DEF TNode

\* Time passes for every timer at once, and overtakes none that is due.
LEMMA TickEffect ==
  ASSUME TimedInv, Tick
  PROVE  /\ UNCHANGED <<vars, faults, timing>>
         /\ key # NoKey => age < timing.ttl /\ age' = age + 1
         /\ key = NoKey => age' = 0
         /\ timer' \in [Nodes -> Nat] /\ sent' = sent
         /\ wait' \in [Nodes -> 0 .. timing.timeout + WonPause]
         /\ \A n \in Nodes :
              /\ timer'[n] = IF timer[n] > 0 THEN timer[n] - 1 ELSE 0
              /\ wait'[n] = IF wait[n] > 0 THEN wait[n] - 1 ELSE 0
              /\ pc[n] \in {"splay", "idle"} /\ ~sent[n] => timer[n] > 0
              /\ sent[n] \/ pc[n] \in {"create", "update", "won"} => wait[n] > 0
BY Timing DEF Tick, Less, Due, NoFault, TimedInv, TimedTypeOK

\* Every step keeps the types, the loops and the pace.
LEMMA StepTimed == TimedInv /\ [TNext]_tvars => TimedInv'
<1> SUFFICES ASSUME TimedInv, [TNext]_tvars PROVE TimedInv'
  OBVIOUS
<1>0. IInv' /\ TypeOK'
  BY StepElection, StepIInv DEF TimedInv, IInv
<1>1. ASSUME NEW n \in Nodes, TNode(n) PROVE TimedInv'
  <2>1. TimedTypeOK'
    BY <1>0, <1>1, NodeTypes
  <2>2. Loop(n)' /\ Paced(n)'
    BY <1>0, <1>1, <2>1, NodePaced
  <2>3. timing' = timing
    BY <1>1 DEF TNode, TStart, TSend, TArrive, TAnswer, TWon, TCancel, TShutdown, TExit, Fault,
                NoFault
  <2>4. ASSUME NEW m \in Nodes, m # n PROVE Loop(m)' /\ Paced(m)'
    BY <1>0, <1>1, <2>3, <2>4, OthersSame DEF SameNode, TimedInv, Loop, Paced
  <2>5. QED
    BY <1>0, <2>1, <2>2, <2>4 DEF TimedInv
<1>2. CASE Tick
  <2>1. TimedTypeOK'
    <3>1. Waits' = Waits /\ Waits \subseteq Nat
      BY <1>2, TickEffect, WaitsNat DEF Waits, TimedInv, TimedTypeOK
    <3>2. \A n \in Nodes : timer[n] \in Nat /\ timer'[n] \in Nat /\ timer'[n] <= timer[n]
      BY <1>2, TickEffect DEF TimedInv, TimedTypeOK
    <3>3. \A n \in Nodes : \E d \in Waits' : timer'[n] <= d
      BY <3>1, <3>2 DEF TimedInv, TimedTypeOK
    <3>4. QED
      BY <1>0, <1>2, <3>3, TickEffect, Timing DEF TimedInv, TimedTypeOK
  <2>2. ASSUME NEW n \in Nodes PROVE Loop(n)' /\ Paced(n)'
    BY <1>2, TickEffect, Timing DEF TimedInv, TimedTypeOK, Loop, Paced, vars
  <2>3. QED
    BY <1>0, <2>1, <2>2 DEF TimedInv
<1>3. CASE TExpire \/ TOutsider \/ UNCHANGED tvars
  <2>1. /\ UNCHANGED <<pc, state, tries, notifyNext, reply, cancelled, active, timing,
                       timer, sent, wait>>
        /\ age' \in {0, age}
        /\ faults' = faults \/ (faults < MaxFaults /\ faults' = faults + 1)
    BY <1>3 DEF TExpire, TOutsider, Expire, Corrupt, LateArrival, Written, Fault,
                NoFault, campaigner, tvars, vars
  <2>2. TimedTypeOK'
    BY <1>0, <2>1, Timing DEF TimedInv, TimedTypeOK, Waits
  <2>3. QED
    BY <1>0, <2>1, <2>2 DEF TimedInv, Loop, Paced
<1>4. QED
  BY <1>1, <1>2, <1>3 DEF TNext

LEMMA TimedInvariance == TSpec => []TimedInv
BY InitTimed, StepTimed, PTL DEF TSpec

\* ElectionTimed implements Election: with timers, what is proved of any timing holds.
THEOREM ImplementsElection == TSpec => Spec
BY StepElection, PTL DEF TSpec, TInit, Spec

\* The timers keep their types: no ticker is set beyond the waits of the policy and
\* the start-up, no wait for an answer outlasts the client's timeout, and the key never
\* outlives the TTL of the bucket (election.go:180, 215-239; backoff.go:55-61).
THEOREM TimersTyped == TSpec => []TimedTypeOK
<1>1. TimedInv => TimedTypeOK
  BY DEF TimedInv
<1>2. QED
  BY <1>1, TimedInvariance, PTL

-----------------------------------------------------------------------------
(* Without a fault.                                                        *)

\* From a write to the next one the key is younger than its TTL: the answer, the pause
\* before wonCb, the wait for the next tick and its request.
LeadersFitTTL ==
  \A t \in Timings : \A d \in t.waits[1] : 2 * t.delay + WonPause + d < t.ttl

Leading(n) == state[n] = "leader" \/ (pc[n] = "create" /\ reply[n] # NoRev)

\* The key is the node's own, and its next update arrives before the TTL is over.
OwnsKey(n) == key = IF pc[n] \in {"create", "update"} THEN reply[n] ELSE lastSeq[n]

InTime(n) ==
  CASE pc[n] = "idle" /\ ~sent[n] -> age + timer[n] + timing.delay < timing.ttl
    [] pc[n] = "idle" /\ sent[n] -> age + wait[n] < timing.ttl
    [] OTHER ->
         \A d \in timing.waits[1] :
           age + wait[n] + (IF pc[n] = "won" THEN 0 ELSE WonPause) + d + timing.delay
             < timing.ttl

\* No request of the node takes longer than it does when nothing is wrong.
Prompt(n) == sent[n] \/ pc[n] \in {"create", "update"} => wait[n] <= timing.delay

CalmInv ==
  faults = 0 =>
    /\ late = {}
    /\ \A n \in Nodes : ~cancelled[n] /\ Prompt(n)
    /\ \A n \in Nodes : Leading(n) => OwnsKey(n) /\ InTime(n)

LEMMA InitCalm == TInit => CalmInv
BY Timing DEF TInit, Init, CalmInv, Leading, Prompt

\* A leading node owns a live key that is younger than its TTL.
LEMMA OwnedKey ==
  ASSUME TimedInv, CalmInv, faults = 0, NEW n \in Nodes, Leading(n)
  PROVE  /\ OwnsKey(n) /\ InTime(n) /\ ~cancelled[n] /\ late = {}
         /\ pc[n] \in {"idle", "create", "update", "won"}
         /\ key \in Revs /\ key # NoKey /\ key # NoRev /\ age < timing.ttl
<1> USE Timing DEF TimedInv, TimedTypeOK
<1>1. OwnsKey(n) /\ InTime(n) /\ ~cancelled[n] /\ late = {}
  BY DEF CalmInv
<1>2. pc[n] \in {"idle", "create", "update", "won"} /\ Loop(n)
  BY DEF Leading, Loop
<1>3. key \in Revs /\ key # NoKey /\ key # NoRev
  <2>1. key # NoRev /\ \A r \in Revs : r # NoKey /\ r # NoRev
    BY ElectionAssumption DEF IInv, TypeOK, NoKey, NoRev
  <2>2. state[n] = "leader" => lastSeq[n] \in Revs
    BY LeaderExpects
  <2>3. reply[n] \in Revs \cup {NoRev} /\ (pc[n] = "create" => state[n] = "candidate")
    BY DEF IInv, TypeOK, Phases
  <2>4. QED
    BY <1>1, <1>2, <2>1, <2>2, <2>3 DEF OwnsKey, Leading
<1>4. age < timing.ttl
  <2>1. PICK d \in timing.waits[1] : d \in Nat
    OBVIOUS
  <2>2. timer[n] \in Nat /\ wait[n] \in Nat /\ age \in Nat
    OBVIOUS
  <2>3. CASE pc[n] = "idle"
    BY <1>1, <2>2, <2>3 DEF InTime
  <2>4. CASE pc[n] # "idle"
    BY <1>1, <2>1, <2>2, <2>4 DEF InTime
  <2>5. QED
    BY <2>3, <2>4
<1>5. QED
  BY <1>1, <1>2, <1>3, <1>4

\* Only one node owns the key, so only one node leads.
LEMMA SoleLeader ==
  ASSUME TimedInv, CalmInv, faults = 0, NEW m \in Nodes, NEW n \in Nodes, m # n,
         Leading(m), Leading(n)
  PROVE  FALSE
BY OwnedKey DEF TimedInv, IInv, Distinct, OwnsKey

\* A node another's step leaves alone, together with the key.
LEMMA SameCalm ==
  ASSUME NEW m \in Nodes, SameNode(m), UNCHANGED <<key, age, timing>>
  PROVE  /\ Leading(m)' <=> Leading(m)
         /\ Prompt(m)' <=> Prompt(m)
         /\ OwnsKey(m)' <=> OwnsKey(m)
         /\ InTime(m)' <=> InTime(m)
BY DEF SameNode, Leading, OwnsKey, InTime, Prompt

\* A request that finds the key as it expects it starts a new life of the key; one that
\* does not changes nothing (election.go:138-149, 155-170).
LEMMA ArriveCalm ==
  ASSUME LeadersFitTTL, TimedInv, TypeOK', CalmInv, faults = 0, faults' = 0,
         NEW n \in Nodes, TArrive(n)
  PROVE  CalmInv'
<1> USE Timing DEF TimedInv, TimedTypeOK
<1>1. \A m \in Nodes : m # n => SameNode(m)
  BY OthersSame DEF TNode
<1>2. /\ late' = {} /\ UNCHANGED <<cancelled, timing, state, lastSeq>>
      /\ \A m \in Nodes : ~cancelled[m]
      /\ pc'[n] = IF state[n] = "leader" THEN "update" ELSE "create"
      /\ wait[n] \in Nat /\ wait'[n] = wait[n] /\ wait[n] <= timing.delay /\ ~sent'[n]
      /\ Prompt(n)'
  BY ArriveEffect DEF CalmInv, Prompt, campaigner, IInv, TypeOK
<1>3. CASE key = Expected(n)
  <2>1. key' \in Revs \ InUse /\ reply'[n] = key' /\ age' = 0
    <3>1. key' \in Revs \ InUse /\ reply'[n] = key'
      <4>1. key # NoRev
        BY ElectionAssumption DEF IInv, TypeOK, NoKey, NoRev
      <4>2. (key = Expected(n) /\ reply'[n] = NoRev) => faults' # 0
        BY DEF TArrive, Expected, Fault
      <4>3. QED
        BY <1>3, <4>2, ArriveEffect
    <3>2. QED
      BY <3>1 DEF TArrive, Written, InUse
  <2>2. OwnsKey(n)' /\ InTime(n)'
    <3>1. OwnsKey(n)'
      BY <1>2, <2>1 DEF OwnsKey
    <3>2. ASSUME NEW d \in timing.waits[1]
          PROVE  wait[n] + WonPause + d + timing.delay < timing.ttl
      BY <1>2, <3>2 DEF LeadersFitTTL
    <3>3. pc'[n] # "idle" /\ pc'[n] # "won"
      BY <1>2
    <3>4. InTime(n)'
      BY <1>2, <2>1, <3>2, <3>3 DEF InTime
    <3>5. QED
      BY <3>1, <3>4
  <2>3. \A m \in Nodes : m # n => ~Leading(m)
    <3>1. CASE state[n] = "leader"
      BY <3>1, SoleLeader DEF Leading
    <3>2. CASE state[n] # "leader"
      BY <1>3, <3>2, OwnedKey DEF Expected
    <3>3. QED
      BY <3>1, <3>2
  <2>4. \A m \in Nodes : m # n => ~Leading(m)'
    BY <1>1, <2>3 DEF SameNode, Leading
  <2>5. \A m \in Nodes : Prompt(m)'
    BY <1>1, <1>2 DEF SameNode, Prompt, CalmInv
  <2>6. QED
    BY <1>2, <2>2, <2>4, <2>5 DEF CalmInv
<1>4. CASE key # Expected(n)
  <2>1. key' = key /\ reply'[n] = NoRev /\ age' = age
    BY <1>4, ArriveEffect DEF TArrive, Written
  <2>2. state[n] # "leader"
    <3>1. state[n] = "leader" => pc[n] = "idle"
      BY ArriveEffect
    <3>2. QED
      BY <1>4, <3>1, OwnedKey DEF Leading, OwnsKey, Expected
  <2>3. ~Leading(n)'
    BY <1>2, <2>1, <2>2 DEF Leading
  <2>4. \A m \in Nodes : m # n /\ Leading(m)' => OwnsKey(m)' /\ InTime(m)'
    BY <1>1, <1>2, <2>1, SameCalm DEF CalmInv
  <2>5. \A m \in Nodes : Prompt(m)'
    BY <1>1, <1>2 DEF SameNode, Prompt, CalmInv
  <2>6. QED
    BY <1>2, <2>3, <2>4, <2>5 DEF CalmInv
<1>5. QED
  BY <1>3, <1>4

\* The rest of a node's steps leave the key alone, and no node stands down.
LEMMA NodeCalm ==
  ASSUME TimedInv, TypeOK', CalmInv, faults = 0, faults' = 0, NEW n \in Nodes, TNode(n),
         ~TArrive(n)
  PROVE  /\ UNCHANGED <<key, late, age, cancelled, timing>>
         /\ Leading(n)' => Leading(n) /\ OwnsKey(n)' /\ InTime(n)'
         /\ Prompt(n)'
         /\ active[n] => active'[n]
<1> USE Timing DEF TimedInv, TimedTypeOK
<1>0. /\ TypeOK /\ Loop(n) /\ Paced(n) /\ Prompt(n) /\ ~cancelled[n] /\ age \in Nat
      /\ timer[n] \in Nat /\ wait[n] \in Nat
      /\ pc[n] = "create" => state[n] = "candidate"
      /\ pc[n] \in {"update", "won"} => state[n] = "leader"
  BY DEF IInv, Phases, CalmInv
<1>1. CASE TStart(n)
  BY <1>0, <1>1 DEF TStart, Start, NoFault, server, TypeOK, Leading, Prompt, Paced
<1>2. CASE TAnswer(n)
  <2>0. /\ wait[n] = 0 /\ ~sent'[n] /\ UNCHANGED <<age, timing>>
        /\ pc'[n] \in {"idle", "won"} /\ Prompt(n)'
    <3>1. wait[n] = 0 /\ ~sent'[n] /\ UNCHANGED <<age, timing>>
      BY <1>0, <1>2 DEF TAnswer, NoFault, Paced, Created, CreateFailed, Updated, UpdateFailed
    <3>2. pc'[n] \in {"idle", "won"}
      BY <1>0, <1>2 DEF TAnswer, TypeOK, Created, CreateFailed, Updated, UpdateFailed
    <3>3. QED
      BY <3>1, <3>2 DEF Prompt
  <2>1. CASE Created(n)
    <3>1. /\ pc[n] = "create" /\ reply[n] # NoRev /\ pc'[n] = "idle"
          /\ lastSeq'[n] = reply[n] /\ tries'[n] = 0
          /\ UNCHANGED <<key, late, cancelled, active>>
      BY <1>0, <2>1 DEF Created, server, TypeOK
    <3>2. TickEnds(n)
      BY <1>2, <3>1 DEF TAnswer
    <3>3. timer'[n] \in timing.waits[1]
      BY <3>1, <3>2, TickEndsEffect, Policy
    <3>4. Leading(n) /\ OwnsKey(n) /\ InTime(n)
      BY <3>1 DEF Leading, CalmInv
    <3>5. OwnsKey(n)'
      BY <3>1, <3>4 DEF OwnsKey
    <3>6. InTime(n)'
      BY <1>0, <2>0, <3>1, <3>3, <3>4 DEF InTime
    <3>7. QED
      BY <2>0, <3>1, <3>4, <3>5, <3>6
  <2>2. CASE CreateFailed(n)
    BY <1>0, <2>0, <2>2 DEF CreateFailed, server, TypeOK, Leading
  <2>3. CASE Updated(n)
    <3>1. /\ pc[n] = "update" /\ state[n] = "leader" /\ reply[n] # NoRev
          /\ pc'[n] = IF notifyNext[n] THEN "won" ELSE "idle"
          /\ lastSeq'[n] = reply[n] /\ tries'[n] = 0
          /\ UNCHANGED <<key, late, cancelled, active>>
      BY <1>0, <2>3 DEF Updated, server, TypeOK, Loop
    <3>2. IF notifyNext[n] THEN wait'[n] = WonPause /\ timer' = timer ELSE TickEnds(n)
      BY <1>0, <1>2, <3>1 DEF TAnswer, TypeOK
    <3>3. notifyNext[n] \/ timer'[n] \in timing.waits[1]
      BY <3>1, <3>2, TickEndsEffect, Policy
    <3>4. Leading(n) /\ OwnsKey(n) /\ InTime(n)
      BY <3>1 DEF Leading, CalmInv
    <3>5. OwnsKey(n)'
      BY <3>1, <3>4 DEF OwnsKey
    <3>6. InTime(n)'
      BY <1>0, <2>0, <3>1, <3>2, <3>3, <3>4 DEF InTime
    <3>7. QED
      BY <2>0, <3>1, <3>4, <3>5, <3>6
  <2>4. ~UpdateFailed(n)
    <3>1. UpdateFailed(n) => Leading(n) /\ pc[n] = "update" /\ reply[n] = NoRev
      BY <1>0 DEF UpdateFailed, Leading
    <3>2. QED
      BY <3>1, OwnedKey DEF OwnsKey
  <2>5. QED
    BY <1>2, <2>1, <2>2, <2>3, <2>4 DEF TAnswer
<1>3. CASE TWon(n)
  <2>1. /\ pc[n] = "won" /\ state[n] = "leader" /\ pc'[n] = "idle" /\ tries'[n] = 0
        /\ wait[n] = 0 /\ active'[n] = TRUE /\ TickEnds(n) /\ ~sent'[n]
        /\ UNCHANGED <<key, late, lastSeq, age, cancelled, timing>>
    BY <1>0, <1>3 DEF TWon, Won, NoFault, server, campaigner, TypeOK, Loop, Paced
  <2>2. timer'[n] \in timing.waits[1]
    BY <2>1, TickEndsEffect, Policy
  <2>3. Leading(n) /\ OwnsKey(n) /\ InTime(n)
    BY <2>1 DEF Leading, CalmInv
  <2>4. OwnsKey(n)'
    BY <2>1, <2>3 DEF OwnsKey
  <2>5. InTime(n)'
    BY <1>0, <2>1, <2>2, <2>3 DEF InTime
  <2>6. Prompt(n)'
    BY <2>1 DEF Prompt
  <2>7. QED
    BY <2>1, <2>3, <2>4, <2>5, <2>6
<1>4. CASE TSend(n)
  <2>1. /\ pc[n] \in {"splay", "idle"} /\ ~sent[n] /\ timer[n] = 0 /\ sent'[n]
        /\ UNCHANGED <<vars, timer, age, timing>>
        /\ wait'[n] \in Nat /\ wait'[n] <= timing.delay
    BY <1>0, <1>4, SendEffect
  <2>2. Prompt(n)'
    BY <2>1 DEF Prompt
  <2>3. ASSUME Leading(n)' PROVE Leading(n) /\ OwnsKey(n)' /\ InTime(n)'
    <3>1. Leading(n) /\ pc[n] = "idle"
      BY <1>0, <2>1, <2>3 DEF Leading, vars, Loop
    <3>2. OwnsKey(n) /\ InTime(n)
      BY <3>1 DEF CalmInv
    <3>3. age + timing.delay < timing.ttl
      BY <1>0, <2>1, <3>1, <3>2 DEF InTime
    <3>4. age' + wait'[n] < timing.ttl
      BY <1>0, <2>1, <3>3
    <3>5. QED
      BY <2>1, <3>1, <3>2, <3>4 DEF OwnsKey, InTime, vars
  <2>4. QED
    BY <2>1, <2>2, <2>3 DEF vars
<1>5. ~TCancel(n)
  BY DEF TCancel, Fault
<1>6. ~TShutdown(n)
  BY <1>0 DEF TShutdown, Shutdown, Delete, Loop
<1>7. ~TExit(n)
  BY <1>0 DEF TExit, Fault, Loop
<1>8. QED
  BY <1>1, <1>2, <1>3, <1>4, <1>5, <1>6, <1>7 DEF TNode

\* Every step keeps the calm, and no leadership ends in it.
LEMMA StepCalm ==
  ASSUME LeadersFitTTL, TimedInv, TimedInv', CalmInv, [TNext]_tvars
  PROVE  /\ CalmInv'
         /\ faults' = 0 => \A n \in Nodes : active[n] => active'[n]
<1> USE Timing DEF TimedInv, TimedTypeOK
<1>1. /\ TypeOK' /\ faults \in Nat
      /\ faults' = faults \/ faults' = faults + 1
  BY DEF IInv, TNext, TNode, Tick, TExpire, TOutsider, TStart, TSend, TArrive, TAnswer, TWon,
         TCancel, TShutdown, TExit, Fault, NoFault, tvars
<1>2. SUFFICES ASSUME faults = 0, faults' = 0
               PROVE  CalmInv' /\ \A n \in Nodes : active[n] => active'[n]
  BY <1>1 DEF CalmInv
<1>3. ASSUME NEW n \in Nodes, TNode(n)
      PROVE  CalmInv' /\ \A m \in Nodes : active[m] => active'[m]
  <2>1. \A m \in Nodes : m # n => SameNode(m)
    BY <1>1, <1>3, OthersSame
  <2>2. CASE TArrive(n)
    BY <1>1, <1>2, <2>2, ArriveCalm, ArriveEffect
  <2>3. CASE ~TArrive(n)
    <3>1. /\ UNCHANGED <<key, late, age, cancelled, timing>>
          /\ Leading(n)' => OwnsKey(n)' /\ InTime(n)'
          /\ Prompt(n)'
          /\ active[n] => active'[n]
      BY <1>1, <1>2, <1>3, <2>3, NodeCalm
    <3>2. \A m \in Nodes : m # n /\ Leading(m)' => OwnsKey(m)' /\ InTime(m)'
      BY <1>2, <2>1, <3>1, SameCalm DEF CalmInv
    <3>3. \A m \in Nodes : active[m] => active'[m]
      BY <2>1, <3>1 DEF SameNode
    <3>4. \A m \in Nodes : Prompt(m)'
      BY <1>2, <2>1, <3>1, SameCalm DEF CalmInv
    <3>5. QED
      BY <1>2, <3>1, <3>2, <3>3, <3>4 DEF CalmInv
  <2>4. QED
    BY <2>2, <2>3
<1>4. CASE Tick
  <2>1. UNCHANGED <<key, late, pc, state, lastSeq, reply, cancelled, active, timing>>
    BY <1>4, TickEffect DEF vars
  <2>2. ASSUME NEW n \in Nodes, Leading(n)' PROVE OwnsKey(n)' /\ InTime(n)'
    <3>1. Leading(n)
      BY <2>1, <2>2 DEF Leading
    <3>2. /\ OwnsKey(n) /\ InTime(n) /\ key # NoKey
          /\ pc[n] \in {"idle", "create", "update", "won"}
      BY <1>2, <3>1, OwnedKey
    <3>3. /\ age' = age + 1 /\ timer[n] \in Nat /\ wait[n] \in Nat /\ age \in Nat
          /\ timer'[n] = IF timer[n] > 0 THEN timer[n] - 1 ELSE 0
          /\ wait'[n] = IF wait[n] > 0 THEN wait[n] - 1 ELSE 0
          /\ pc[n] = "idle" /\ ~sent[n] => timer[n] > 0
          /\ sent[n] \/ pc[n] # "idle" => wait[n] > 0
          /\ sent' = sent
      BY <1>4, <3>2, TickEffect
    <3>5. InTime(n)'
      BY <2>1, <3>2, <3>3 DEF InTime
    <3>6. QED
      BY <2>1, <3>2, <3>5 DEF OwnsKey
  <2>3. ASSUME NEW n \in Nodes PROVE Prompt(n)'
    <3>1. /\ wait[n] \in Nat /\ wait'[n] \in Nat /\ wait'[n] <= wait[n]
          /\ sent' = sent /\ Prompt(n)
      BY <1>2, <1>4, TickEffect DEF CalmInv
    <3>2. QED
      BY <2>1, <3>1 DEF Prompt
  <2>4. QED
    BY <1>2, <2>1, <2>2, <2>3 DEF CalmInv
<1>5. CASE TExpire
  <2>1. /\ age = timing.ttl
        /\ UNCHANGED <<late, pc, state, reply, cancelled, active, sent, wait, timing>>
    BY <1>2, <1>5 DEF TExpire, Expire, Fault, NoFault, campaigner
  <2>2. \A n \in Nodes : ~Leading(n)
    BY <1>2, <2>1, OwnedKey
  <2>3. \A n \in Nodes : ~Leading(n)'
    BY <2>1, <2>2 DEF Leading
  <2>4. QED
    BY <1>2, <2>1, <2>3 DEF CalmInv, Prompt
<1>6. ~TOutsider
  BY <1>2 DEF TOutsider, Fault
<1>7. CASE UNCHANGED tvars
  BY <1>2, <1>7 DEF tvars, vars, CalmInv, Leading, OwnsKey, InTime, Prompt
<1>8. QED
  BY <1>3, <1>4, <1>5, <1>6, <1>7 DEF TNext

\* Without a fault from outside no two nodes lead at once, however many campaign, whatever
\* the jitter, as long as interval, pause and answers fit the TTL (election.go:176-183, 236).
THEOREM OneLeadsInCalm == LeadersFitTTL => (TSpec => []CalmOneLeads)
<1> SUFFICES ASSUME LeadersFitTTL PROVE TSpec => []CalmOneLeads
  OBVIOUS
<1>1. TimedInv /\ TimedInv' /\ CalmInv /\ [TNext]_tvars => CalmInv'
  BY StepCalm
<1>2. TimedInv /\ CalmInv => CalmOneLeads
  <2> SUFFICES ASSUME TimedInv, CalmInv, faults = 0, NEW m \in Nodes, NEW n \in Nodes,
                      Leads(m), Leads(n), m # n
               PROVE  FALSE
    BY DEF CalmOneLeads, AtMostOneLeads
  <2>1. Leading(m) /\ Leading(n)
    BY DEF Leads, Leading, TimedInv, IInv, Phases, ActiveLeads, Loop
  <2>2. QED
    BY <2>1, SoleLeader
<1>3. QED
  BY <1>1, <1>2, InitCalm, TimedInvariance, PTL DEF TSpec

\* Without a fault from outside nobody loses the leadership, as long as interval, pause
\* and answers fit the TTL (election.go:155-170, 236).
THEOREM OnlyFaultsEnd == LeadersFitTTL => (TSpec => OnlyFaultsDepose)
<1> SUFFICES ASSUME LeadersFitTTL PROVE TSpec => OnlyFaultsDepose
  OBVIOUS
<1> DEFINE OnlyFaults == \A n \in Nodes : active[n] /\ ~active'[n] => faults' # 0
<1>1. TimedInv /\ TimedInv' /\ CalmInv /\ [TNext]_tvars => CalmInv' /\ OnlyFaults
  BY StepCalm
<1>2. QED
  <2> HIDE DEF OnlyFaults
  <2>1. TSpec => [][OnlyFaults]_tvars
    BY <1>1, InitCalm, TimedInvariance, PTL DEF TSpec
  <2>2. QED
    BY <2>1 DEF OnlyFaults, OnlyFaultsDepose

-----------------------------------------------------------------------------
(* After a fault.                                                          *)

\* A write takes a revision nobody refers to, so a deposed leader stays so.
LEMMA KeyStep ==
  ASSUME IInv, [Next]_vars
  PROVE  key' \in {key, NoKey} \/ key' \notin InUse
<1>1. ASSUME NEW n \in Nodes, Campaign(n) \/ Maintain(n)
      PROVE  key' = key \/ key' \notin InUse
  BY <1>1 DEF Campaign, Maintain, Request, Delivered, TimedOut, Fresh
<1>2. ASSUME NEW n \in Nodes,
             \/ Start(n) \/ Created(n) \/ CreateFailed(n) \/ Updated(n)
             \/ UpdateFailed(n) \/ Won(n) \/ Cancel(n) \/ Shutdown(n) \/ Exit(n)
      PROVE  key' = key
  BY <1>2 DEF Start, Created, CreateFailed, Updated, UpdateFailed, Won, Cancel,
              Shutdown, Exit, server
<1>3. ASSUME NEW n \in Nodes, Delete(n) PROVE key' \in {key, NoKey}
  BY <1>3 DEF Delete
<1>4. CASE LateArrival \/ Expire \/ Corrupt
  BY <1>4 DEF LateArrival, Expire, Corrupt, Fresh
<1>5. CASE UNCHANGED vars
  BY <1>5 DEF vars
<1>6. QED
  BY <1>1, <1>2, <1>3, <1>4, <1>5 DEF Next, Node

\* A leader's next tick is no further away than its longest wait.
IntervalInv ==
  \A n \in Nodes : state[n] = "leader" /\ pc[n] = "idle" => timer[n] <= Longest

LEMMA LongestWait ==
  ASSUME timing \in Timings
  PROVE  /\ Longest \in Nat
         /\ \A d \in timing.waits[1] : d <= Longest
<1>1. /\ timing.waits \in Seq(SUBSET Nat) /\ Len(timing.waits) = MaxTries + 1
      /\ MaxTries \in Nat
  BY TimedAssumption, ElectionAssumption
<1>2. 1 \in DOMAIN timing.waits /\ timing.waits[1] \subseteq Nat
  BY <1>1
<1>3. \E d \in timing.waits[1] : \A e \in timing.waits[1] : e <= d
  BY <1>2, TimedAssumption
<1>4. Longest \in timing.waits[1] /\ \A e \in timing.waits[1] : e <= Longest
  BY <1>3 DEF Longest
<1>5. QED
  BY <1>2, <1>4

LEMMA InitInterval == TInit => IntervalInv
BY DEF TInit, Init, IntervalInv

\* A node's own steps keep its next tick within its interval.
LEMMA NodeInterval ==
  ASSUME TimedInv, TypeOK', IntervalInv, NEW n \in Nodes, TNode(n)
  PROVE  state'[n] = "leader" /\ pc'[n] = "idle" => timer'[n] <= Longest
<1> USE Timing DEF TimedInv, TimedTypeOK
<1>0. /\ TypeOK /\ Loop(n) /\ timer[n] \in Nat /\ Longest \in Nat
      /\ \A d \in Duration(0) : d <= Longest
      /\ Duration(0) = timing.waits[1]
      /\ pc[n] = "create" => state[n] = "candidate"
      /\ pc[n] \in {"update", "won"} => state[n] = "leader"
  BY LongestWait, Policy DEF IInv, Phases
<1>1. CASE TArrive(n)
  <2>1. pc'[n] \in {"create", "update"}
    BY <1>0, <1>1, ArriveEffect DEF TypeOK
  <2>2. QED
    BY <2>1
<1>2. CASE TAnswer(n)
  <2>1. CASE Created(n)
    <3>1. pc[n] = "create" /\ pc'[n] = "idle" /\ tries'[n] = 0 /\ TickEnds(n)
      BY <1>0, <1>2, <2>1 DEF TAnswer, Created, TypeOK
    <3>2. QED
      BY <1>0, <3>1, TickEndsEffect DEF IntervalInv
  <2>2. CASE CreateFailed(n) \/ UpdateFailed(n)
    <3>1. pc'[n] = "idle" /\ state'[n] = "candidate"
      BY <1>0, <2>2 DEF CreateFailed, UpdateFailed, TypeOK
    <3>2. QED
      BY <3>1
  <2>3. CASE Updated(n)
    <3>1. /\ pc[n] = "update" /\ tries'[n] = 0
          /\ pc'[n] = IF notifyNext[n] THEN "won" ELSE "idle"
      BY <1>0, <2>3 DEF Updated, TypeOK, Loop
    <3>2. CASE notifyNext[n]
      <4>1. pc'[n] = "won" /\ timer' = timer
        BY <1>2, <3>1, <3>2 DEF TAnswer
      <4>2. QED
        BY <3>1, <4>1 DEF IntervalInv
    <3>3. CASE ~notifyNext[n]
      <4>1. pc'[n] = "idle" /\ TickEnds(n)
        BY <1>2, <3>1, <3>3 DEF TAnswer
      <4>2. QED
        BY <1>0, <3>1, <4>1, TickEndsEffect DEF IntervalInv
    <3>4. QED
      BY <3>2, <3>3
  <2>4. QED
    BY <1>2, <2>1, <2>2, <2>3 DEF TAnswer
<1>3. CASE TWon(n)
  <2>1. pc[n] = "won" /\ pc'[n] = "idle" /\ tries'[n] = 0 /\ TickEnds(n)
    BY <1>0, <1>3 DEF TWon, Won, campaigner, TypeOK, Loop
  <2>2. QED
    BY <1>0, <2>1, TickEndsEffect DEF IntervalInv
<1>4. CASE TCancel(n) \/ TSend(n)
  BY <1>4, SendEffect DEF TCancel, Cancel, campaigner, vars, IntervalInv
<1>5. CASE TStart(n) \/ TShutdown(n) \/ TExit(n)
  <2>1. pc'[n] \in {"splay", "delete", "done", "off"}
    BY <1>0, <1>5 DEF TStart, Start, TShutdown, Shutdown, Delete, TExit, Exit, TypeOK
  <2>2. QED
    BY <2>1
<1>6. QED
  BY <1>1, <1>2, <1>3, <1>4, <1>5 DEF TNode

LEMMA StepInterval == TimedInv /\ TimedInv' /\ IntervalInv /\ [TNext]_tvars => IntervalInv'
<1> SUFFICES ASSUME TimedInv, TimedInv', IntervalInv, [TNext]_tvars PROVE IntervalInv'
  OBVIOUS
<1>1. ASSUME NEW n \in Nodes, TNode(n) PROVE IntervalInv'
  <2>1. timing' = timing /\ TypeOK'
    BY <1>1 DEF TimedInv, IInv, TNode, TStart, TSend, TArrive, TAnswer, TWon, TCancel, TShutdown,
                TExit, Fault, NoFault
  <2>2. \A m \in Nodes : m # n => SameNode(m)
    BY <1>1, <2>1, OthersSame
  <2>3. Longest' = Longest
    BY <2>1 DEF Longest
  <2>4. QED
    BY <1>1, <2>1, <2>2, <2>3, NodeInterval DEF IntervalInv, SameNode
<1>2. CASE Tick
  <2>1. UNCHANGED <<pc, state, timing>> /\ Longest' = Longest /\ Longest \in Nat
    BY <1>2, TickEffect, LongestWait DEF vars, Longest, TimedInv, TimedTypeOK
  <2>2. \A n \in Nodes : timer[n] \in Nat /\ timer'[n] \in Nat /\ timer'[n] <= timer[n]
    BY <1>2, TickEffect DEF TimedInv, TimedTypeOK
  <2>3. QED
    BY <2>1, <2>2 DEF IntervalInv
<1>3. CASE TExpire \/ TOutsider \/ UNCHANGED tvars
  BY <1>3 DEF TExpire, TOutsider, Expire, Corrupt, LateArrival, Fault, NoFault, campaigner,
              tvars, vars, IntervalInv, Longest
<1>4. QED
  BY <1>1, <1>2, <1>3 DEF TNext

\* Where a node that leads stands, and how long its leadership may last if it is deposed.
LEMMA LeaderPlace ==
  ASSUME TimedInv, IntervalInv, NEW n \in Nodes, Leads(n)
  PROVE  /\ pc[n] \in {"idle", "update"} /\ state[n] = "leader" /\ ~notifyNext[n]
         /\ Longest \in Nat /\ timing.timeout \in Nat
         /\ timer[n] \in Nat /\ wait[n] \in Nat
         /\ sent[n] => pc[n] = "idle"
         /\ EndsIn(n) \in Nat /\ EndsIn(n) <= Longest + 2 * timing.timeout
<1> USE Timing, LongestWait DEF TimedInv, TimedTypeOK
<1>1. pc[n] \in {"idle", "update"} /\ state[n] = "leader" /\ ~notifyNext[n]
  BY DEF Leads, IInv, Phases, ActiveLeads, Loop
<1>2. /\ Longest \in Nat /\ timing.timeout \in Nat
      /\ timer[n] \in Nat /\ wait[n] \in Nat
  OBVIOUS
<1>3. /\ sent[n] \/ pc[n] = "update" => wait[n] <= timing.timeout
      /\ pc[n] = "idle" => timer[n] <= Longest
      /\ sent[n] => pc[n] = "idle"
  BY <1>1 DEF Paced, IntervalInv
<1>4. EndsIn(n) \in Nat /\ EndsIn(n) <= Longest + 2 * timing.timeout
  BY <1>1, <1>2, <1>3 DEF EndsIn
<1>5. QED
  BY <1>1, <1>2, <1>3, <1>4

\* A step of another node, of the bucket or of time leaves a deposed leader deposed.
LEMMA StaysDeposed ==
  ASSUME TimedInv, [Next]_vars, NEW n \in Nodes, Deposed(n),
         UNCHANGED <<pc[n], lastSeq[n], reply[n], cancelled[n], active[n]>>
  PROVE  Deposed(n)'
<1>1. lastSeq[n] # NoKey /\ reply[n] # NoKey
  BY ElectionAssumption DEF TimedInv, IInv, TypeOK, NoKey, NoRev
<1>2. QED
  BY <1>1, KeyStep DEF TimedInv, Deposed, Leads, Holds, InUse

\* A deposed leader tries, learns that its update failed, and stands down; an answer that
\* is still under way is the last good one.
LEMMA OwnDeposed ==
  ASSUME TimedInv, TypeOK', IntervalInv, NEW n \in Nodes, TNode(n), Deposed(n), Leads(n)'
  PROVE  Deposed(n)' /\ EndsIn(n)' <= EndsIn(n)
<1> USE Timing DEF TimedInv, TimedTypeOK
<1>0. /\ pc[n] \in {"idle", "update"} /\ state[n] = "leader" /\ ~notifyNext[n]
      /\ sent[n] => pc[n] = "idle"
      /\ Longest \in Nat /\ timer[n] \in Nat /\ wait[n] \in Nat
      /\ TypeOK /\ Loop(n) /\ ~cancelled[n] /\ active[n]
      /\ key # NoRev /\ key # lastSeq[n] /\ key # reply[n]
      /\ Duration(0) = timing.waits[1] /\ \A d \in Duration(0) : d <= Longest
  BY LeaderPlace, LongestWait, Policy, ElectionAssumption
     DEF Deposed, Leads, Holds, IInv, TypeOK, NoKey, NoRev
<1>1. CASE TArrive(n)
  <2>1. /\ pc[n] = "idle" /\ pc'[n] = "update" /\ key' = key /\ reply'[n] = NoRev
        /\ lastSeq' = lastSeq /\ sent[n] /\ wait' = wait
    BY <1>0, <1>1, ArriveEffect DEF Expected, campaigner, TypeOK
  <2>2. Deposed(n)'
    BY <1>0, <2>1 DEF Deposed, Holds
  <2>3. EndsIn(n)' = wait[n] /\ EndsIn(n) = wait[n]
    BY <2>1 DEF EndsIn
  <2>4. QED
    BY <1>0, <2>2, <2>3
<1>2. CASE TSend(n)
  <2>1. /\ pc[n] = "idle" /\ ~sent[n] /\ sent'[n] /\ timer[n] = 0
        /\ UNCHANGED vars /\ wait'[n] \in 0 .. timing.timeout
    BY <1>0, <1>2, SendEffect
  <2>2. Deposed(n)'
    BY <2>1 DEF Deposed, Leads, Holds, vars
  <2>3. EndsIn(n)' = wait'[n] /\ EndsIn(n) = timing.timeout
    BY <2>1 DEF EndsIn, vars
  <2>4. QED
    BY <2>1, <2>2, <2>3
<1>3. CASE TAnswer(n)
  <2>1. ~Created(n) /\ ~CreateFailed(n)
    BY <1>0 DEF Created, CreateFailed
  <2>2. ~UpdateFailed(n)
    BY <1>0 DEF UpdateFailed, Leads, TypeOK
  <2>3. /\ pc[n] = "update" /\ pc'[n] = "idle" /\ reply[n] # NoRev /\ wait[n] = 0
        /\ lastSeq'[n] = reply[n] /\ reply'[n] = NoRev /\ key' = key /\ tries'[n] = 0
        /\ timing' = timing /\ TickEnds(n)
    BY <1>0, <1>3, <2>1, <2>2 DEF TAnswer, Updated, server, NoFault, TypeOK, Loop
  <2>4. Deposed(n)'
    BY <1>0, <2>3 DEF Deposed, Holds
  <2>5. ~sent'[n]
    BY <1>0, <1>3, <2>3 DEF TAnswer
  <2>6. EndsIn(n)' = timer'[n] + timing.timeout
    BY <2>3, <2>5 DEF EndsIn
  <2>7. timer'[n] \in Duration(0) /\ timer'[n] \in Nat
    BY <2>3, TickEndsEffect
  <2>8. EndsIn(n) = Longest + timing.timeout
    BY <1>0, <2>3 DEF EndsIn
  <2>9. QED
    BY <1>0, <2>4, <2>6, <2>7, <2>8
<1>4. ~TStart(n) /\ ~TWon(n)
  BY <1>0 DEF TStart, Start, TWon, Won
<1>5. ~TCancel(n) /\ ~TShutdown(n) /\ ~TExit(n)
  BY <1>0 DEF TCancel, Cancel, TShutdown, Shutdown, Delete, TExit, Exit, Leads, TypeOK
<1>6. QED
  BY <1>1, <1>2, <1>3, <1>4, <1>5 DEF TNode

LEMMA StepDeposed ==
  ASSUME TimedInv, TimedInv', IntervalInv, [TNext]_tvars, NEW n \in Nodes, Deposed(n)
  PROVE  /\ EndsIn(n) <= Longest + 2 * timing.timeout
         /\ Leads(n)' => /\ Deposed(n)'
                         /\ EndsIn(n)' <= EndsIn(n)
                         /\ Tick => EndsIn(n)' < EndsIn(n)
<1>1. EndsIn(n) \in Nat /\ EndsIn(n) <= Longest + 2 * timing.timeout
  BY LeaderPlace DEF Deposed
<1>2. SUFFICES ASSUME Leads(n)'
               PROVE  /\ Deposed(n)' /\ EndsIn(n)' <= EndsIn(n)
                      /\ Tick => EndsIn(n)' < EndsIn(n)
  BY <1>1
<1>3. [Next]_vars /\ TypeOK'
  BY StepElection DEF TimedInv, IInv
<1>4. CASE Tick
  <2>1. UNCHANGED <<pc, lastSeq, reply, cancelled, active, timing>> /\ Longest' = Longest
    BY <1>4, TickEffect DEF vars, Longest
  <2>2. Deposed(n)'
    BY <1>3, <2>1, StaysDeposed
  <2>3. /\ pc[n] \in {"idle", "update"} /\ timer[n] \in Nat /\ wait[n] \in Nat
        /\ Longest \in Nat /\ timing.timeout \in Nat
        /\ timer'[n] = IF timer[n] > 0 THEN timer[n] - 1 ELSE 0
        /\ wait'[n] = IF wait[n] > 0 THEN wait[n] - 1 ELSE 0
        /\ pc[n] = "idle" /\ ~sent[n] => timer[n] > 0
        /\ sent[n] \/ pc[n] = "update" => wait[n] > 0
        /\ sent' = sent
    BY <1>4, LeaderPlace, TickEffect DEF Deposed
  <2>4. EndsIn(n)' < EndsIn(n)
    BY <2>1, <2>3 DEF EndsIn
  <2>5. EndsIn(n)' \in Nat
    BY <1>2, <2>1, <2>3 DEF EndsIn
  <2>6. QED
    BY <1>1, <2>2, <2>4, <2>5
<1>5. ASSUME ~Tick, UNCHANGED <<pc[n], lastSeq[n], reply[n], cancelled[n], active[n],
                                timer[n], wait[n], sent[n], timing>>
      PROVE  Deposed(n)' /\ EndsIn(n)' = EndsIn(n)
  BY <1>3, <1>5, StaysDeposed DEF EndsIn, Longest
<1>6. CASE ~Tick /\ (TExpire \/ TOutsider \/ UNCHANGED tvars)
  <2>1. UNCHANGED <<pc, lastSeq, reply, cancelled, active, timer, wait, sent, timing>>
    BY <1>6 DEF TExpire, TOutsider, Expire, Corrupt, LateArrival, Fault, NoFault,
                campaigner, tvars, vars
  <2>2. QED
    BY <1>1, <1>5, <1>6, <2>1
<1>7. ASSUME ~Tick, NEW m \in Nodes, TNode(m)
      PROVE  Deposed(n)' /\ EndsIn(n)' <= EndsIn(n)
  <2>1. CASE m = n
    BY <1>2, <1>3, <1>7, <2>1, OwnDeposed
  <2>2. CASE m # n
    <3>1. SameNode(n)
      BY <1>3, <1>7, <2>2, OthersSame
    <3>2. timing' = timing
      BY <1>7 DEF TNode, TStart, TSend, TArrive, TAnswer, TWon, TCancel, TShutdown, TExit, Fault,
                  NoFault
    <3>3. QED
      BY <1>1, <1>5, <1>7, <3>1, <3>2 DEF SameNode
  <2>3. QED
    BY <2>1, <2>2
<1>8. QED
  BY <1>4, <1>6, <1>7 DEF TNext

\* Whatever the faults and however many nodes campaign, a deposed leader does not lead
\* again before it stood down, and stands down within one interval and the client's
\* timeouts of two requests (election.go:160-172, 236).
THEOREM OverlapIsBrief == TSpec => DeposedStandsDown
<1> DEFINE Brief == \A n \in Nodes : Deposed(n) =>
             /\ EndsIn(n) <= Longest + 2 * timing.timeout
             /\ Leads(n)' => /\ Deposed(n)'
                             /\ EndsIn(n)' <= EndsIn(n)
                             /\ Tick => EndsIn(n)' < EndsIn(n)
<1>1. TimedInv /\ TimedInv' /\ IntervalInv /\ [TNext]_tvars => IntervalInv' /\ Brief
  BY StepInterval, StepDeposed
<1>2. QED
  <2> HIDE DEF Brief
  <2>1. TSpec => [][Brief]_tvars
    BY <1>1, InitInterval, TimedInvariance, PTL DEF TSpec
  <2>2. QED
    BY <2>1 DEF Brief, DeposedStandsDown
=============================================================================
