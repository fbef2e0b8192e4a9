---------------------------- MODULE ElectionProof ----------------------------
(* Machine-checked proofs about Election, for every set of nodes and of    *)
(* revisions.                                                              *)
EXTENDS Election, TLAPS

\* No two nodes know the same revision as their own last write.
Distinct ==
  \A m, n \in Nodes : m # n =>
    /\ lastSeq[m] # NoRev => lastSeq[m] \notin {lastSeq[n], reply[n]}
    /\ reply[m] # NoRev => reply[m] # reply[n]

\* How the place in the campaign loop, the state and the callbacks go together.
Phases ==
  \A n \in Nodes :
    /\ pc[n] = "off" => ~active[n]
    /\ pc[n] = "create" => state[n] = "candidate"
    /\ pc[n] \in {"update", "won"} => state[n] = "leader"
    /\ pc[n] = "won" => ~active[n] /\ ~notifyNext[n]
    /\ state[n] = "leader" => lastSeq[n] # NoRev
    /\ state[n] = "leader" /\ notifyNext[n] => ~active[n]

IInv == TypeOK /\ Distinct /\ Phases /\ ActiveLeads

\* The invariant holds initially.
LEMMA InitIInv == Init => IInv
  BY ElectionAssumption
     DEF Init, IInv, TypeOK, Distinct, Phases, ActiveLeads, PCs, States, NoKey,
         NoRev

\* What one compare-and-set does: it answers with an error or with a revision
\* nobody refers to, and it changes the key only if it was the expected one.
LEMMA RequestEffect ==
  ASSUME TypeOK, NEW n \in Nodes, NEW expected \in Revs \cup {NoKey}, NEW at,
         Request(n, expected, at)
  PROVE  /\ key' \in Revs \cup {NoKey}
         /\ late' \subseteq Revs \cup {NoKey}
         /\ reply' \in [Nodes -> Revs \cup {NoRev}]
         /\ \A m \in Nodes : m # n => reply'[m] = reply[m]
         /\ reply'[n] # NoRev => reply'[n] \notin InUse
         /\ key # expected => key' = key
<1> USE DEF TypeOK
<1>1. CASE Delivered(n, expected) /\ key = expected
  <2>1. PICK r \in Revs : Fresh(r) /\ key' = r
    BY <1>1 DEF Delivered
  <2>2. PICK answer \in {key', NoRev} : reply' = [reply EXCEPT ![n] = answer]
    BY <1>1 DEF Delivered
  <2>3. r \notin InUse
    BY <2>1 DEF Fresh
  <2>4. QED
    BY <1>1, <2>1, <2>2, <2>3 DEF Delivered
<1>2. CASE Delivered(n, expected) /\ key # expected
  BY <1>2 DEF Delivered
<1>3. CASE TimedOut(n, expected)
  BY <1>3 DEF TimedOut
<1>4. QED
  BY <1>1, <1>2, <1>3 DEF Request

\* A leader's update expects a revision, never "no value".
LEMMA LeaderExpects ==
  ASSUME IInv, NEW n \in Nodes, state[n] = "leader"
  PROVE  lastSeq[n] \in Revs
  BY DEF IInv, TypeOK, Phases

\* Every step keeps the types.
LEMMA StepTypeOK == IInv /\ [Next]_vars => TypeOK'
<1> SUFFICES ASSUME IInv, [Next]_vars PROVE TypeOK'
  OBVIOUS
<1> USE ElectionAssumption
<1>0. TypeOK
  BY DEF IInv
<1>1. ASSUME NEW n \in Nodes, Start(n) PROVE TypeOK'
  BY <1>0, <1>1 DEF Start, server, TypeOK, PCs, States
<1>2. ASSUME NEW n \in Nodes, Campaign(n) PROVE TypeOK'
  <2>1. Request(n, NoKey, "create")
    BY <1>2 DEF Campaign
  <2>2. QED
    BY <1>0, <2>1, RequestEffect DEF Request, campaigner, TypeOK, PCs
<1>3. ASSUME NEW n \in Nodes, Maintain(n) PROVE TypeOK'
  <2>1. Request(n, lastSeq[n], "update") /\ lastSeq[n] \in Revs
    BY <1>3, LeaderExpects DEF Maintain
  <2>2. QED
    BY <1>0, <2>1, RequestEffect DEF Request, campaigner, TypeOK, PCs
<1>4. ASSUME NEW n \in Nodes, Created(n) PROVE TypeOK'
  BY <1>0, <1>4 DEF Created, server, TypeOK, PCs, States
<1>5. ASSUME NEW n \in Nodes, CreateFailed(n) PROVE TypeOK'
  BY <1>0, <1>5 DEF CreateFailed, server, TypeOK, PCs
<1>6. ASSUME NEW n \in Nodes, Updated(n) PROVE TypeOK'
  BY <1>0, <1>6 DEF Updated, server, TypeOK, PCs
<1>7. ASSUME NEW n \in Nodes, UpdateFailed(n) PROVE TypeOK'
  BY <1>0, <1>7 DEF UpdateFailed, server, TypeOK, PCs, States
<1>8. ASSUME NEW n \in Nodes, Won(n) \/ Cancel(n) PROVE TypeOK'
  BY <1>0, <1>8 DEF Won, Cancel, server, campaigner, TypeOK, PCs
<1>9. ASSUME NEW n \in Nodes, Shutdown(n) PROVE TypeOK'
  BY <1>0, <1>9 DEF Shutdown, server, TypeOK, PCs, States
<1>12. ASSUME NEW n \in Nodes, Delete(n) PROVE TypeOK'
  BY <1>0, <1>12 DEF Delete, campaigner, TypeOK, PCs
<1>13. ASSUME NEW n \in Nodes, Exit(n) PROVE TypeOK'
  BY <1>0, <1>13 DEF Exit, server, TypeOK, PCs, States
<1>10. ASSUME LateArrival \/ Expire \/ Corrupt PROVE TypeOK'
  BY <1>0, <1>10 DEF LateArrival, Expire, Corrupt, campaigner, TypeOK
<1>11. CASE UNCHANGED vars
  BY <1>0, <1>11 DEF vars, TypeOK
<1>14. QED
  BY <1>1, <1>2, <1>3, <1>4, <1>5, <1>6, <1>7, <1>8, <1>9, <1>10, <1>11,
     <1>12, <1>13
     DEF Next, Node

\* Every step keeps the known revisions distinct: a request answers with a
\* revision nobody refers to, and only its sender learns it.
LEMMA StepDistinct == IInv /\ [Next]_vars => Distinct'
<1> SUFFICES ASSUME IInv, [Next]_vars PROVE Distinct'
  OBVIOUS
<1>0. TypeOK /\ Distinct
  BY DEF IInv
<1>1. ASSUME NEW n \in Nodes, NEW expected \in Revs \cup {NoKey}, NEW at,
             Request(n, expected, at)
      PROVE  Distinct'
  <2>1. /\ \A m \in Nodes : m # n => reply'[m] = reply[m]
        /\ reply'[n] # NoRev => reply'[n] \notin InUse
        /\ lastSeq' = lastSeq
    BY <1>0, <1>1, RequestEffect DEF Request, campaigner
  <2>2. QED
    BY <1>0, <2>1 DEF Distinct, InUse
<1>2. ASSUME NEW n \in Nodes, Campaign(n) \/ Maintain(n) PROVE Distinct'
  BY <1>1, <1>2, LeaderExpects DEF Campaign, Maintain
<1>3. ASSUME NEW n \in Nodes, Created(n) \/ Updated(n) PROVE Distinct'
  BY <1>0, <1>3 DEF Created, Updated, Distinct, TypeOK
<1>4. ASSUME NEW n \in Nodes, UpdateFailed(n) \/ Shutdown(n) \/ Exit(n)
      PROVE Distinct'
  BY <1>0, <1>4 DEF UpdateFailed, Shutdown, Exit, Distinct, TypeOK
<1>5. CASE UNCHANGED <<lastSeq, reply>>
  BY <1>0, <1>5 DEF Distinct
<1>6. ASSUME NEW n \in Nodes,
             Start(n) \/ CreateFailed(n) \/ Won(n) \/ Cancel(n) \/ Delete(n)
      PROVE  UNCHANGED <<lastSeq, reply>>
  BY <1>6 DEF Start, CreateFailed, Won, Cancel, Delete, campaigner
<1>7. ASSUME LateArrival \/ Expire \/ Corrupt \/ UNCHANGED vars
      PROVE  UNCHANGED <<lastSeq, reply>>
  BY <1>7 DEF LateArrival, Expire, Corrupt, campaigner, vars
<1>8. QED
  BY <1>2, <1>3, <1>4, <1>5, <1>6, <1>7 DEF Next, Node

\* Every step keeps the relation between the loop, the state and the callbacks.
LEMMA StepPhases == IInv /\ [Next]_vars => Phases' /\ ActiveLeads'
<1> SUFFICES ASSUME IInv, [Next]_vars PROVE Phases' /\ ActiveLeads'
  OBVIOUS
<1>0. TypeOK /\ Phases /\ ActiveLeads
  BY DEF IInv
<1> USE DEF Phases, ActiveLeads
<1>1. ASSUME NEW n \in Nodes, Start(n) PROVE Phases' /\ ActiveLeads'
  BY <1>0, <1>1 DEF Start, TypeOK
<1>2. ASSUME NEW n \in Nodes, Campaign(n) \/ Maintain(n)
      PROVE  Phases' /\ ActiveLeads'
  BY <1>0, <1>2 DEF Campaign, Maintain, Request, campaigner, TypeOK
<1>3. ASSUME NEW n \in Nodes, Created(n) PROVE Phases' /\ ActiveLeads'
  BY <1>0, <1>3 DEF Created, TypeOK
<1>4. ASSUME NEW n \in Nodes, CreateFailed(n) PROVE Phases' /\ ActiveLeads'
  BY <1>0, <1>4 DEF CreateFailed, TypeOK
<1>5. ASSUME NEW n \in Nodes, Updated(n) PROVE Phases' /\ ActiveLeads'
  BY <1>0, <1>5 DEF Updated, TypeOK
<1>6. ASSUME NEW n \in Nodes, UpdateFailed(n) PROVE Phases' /\ ActiveLeads'
  BY <1>0, <1>6 DEF UpdateFailed, TypeOK
<1>7. ASSUME NEW n \in Nodes, Won(n) PROVE Phases' /\ ActiveLeads'
  <2>1. state[n] = "leader" /\ ~notifyNext[n]
    BY <1>0, <1>7 DEF Won
  <2>2. QED
    BY <1>0, <1>7, <2>1 DEF Won, campaigner, TypeOK
<1>8. ASSUME NEW n \in Nodes, Cancel(n) PROVE Phases' /\ ActiveLeads'
  BY <1>0, <1>8 DEF Cancel, campaigner, TypeOK
<1>9. ASSUME NEW n \in Nodes, Shutdown(n) PROVE Phases' /\ ActiveLeads'
  BY <1>0, <1>9 DEF Shutdown, TypeOK
<1>10. ASSUME NEW n \in Nodes, Delete(n) PROVE Phases' /\ ActiveLeads'
  BY <1>0, <1>10 DEF Delete, campaigner, TypeOK
<1>11. ASSUME NEW n \in Nodes, Exit(n) PROVE Phases' /\ ActiveLeads'
  BY <1>0, <1>11 DEF Exit, TypeOK
<1>12. CASE LateArrival \/ Expire \/ Corrupt \/ UNCHANGED vars
  BY <1>0, <1>12 DEF LateArrival, Expire, Corrupt, campaigner, vars
<1>13. QED
  BY <1>1, <1>2, <1>3, <1>4, <1>5, <1>6, <1>7, <1>8, <1>9, <1>10, <1>11, <1>12
     DEF Next, Node

\* The invariant is inductive, so it holds in every reachable state.
LEMMA Invariance == Spec => []IInv
<1>1. IInv /\ [Next]_vars => IInv'
  BY StepTypeOK, StepDistinct, StepPhases DEF IInv
<1>2. QED
  BY InitIInv, <1>1, PTL DEF Spec

\* Every variable of the election keeps its type (the struct fields of
\* election.go:60-74), and only a revision is ever sent as the expected one.
THEOREM TypeCorrect == Spec => []TypeOK
<1>1. IInv => TypeOK
  BY DEF IInv
<1>2. QED
  BY Invariance, <1>1, PTL

\* A node whose last callback was wonCb is the leader in its own state until its
\* campaign ends (election.go:157-186).
THEOREM ActiveNodesLead == Spec => []ActiveLeads
<1>1. IInv => ActiveLeads
  BY DEF IInv
<1>2. QED
  BY Invariance, <1>1, PTL

\* The live value of the key is at most one node's own, for any number of nodes, as
\* each write takes a revision of its own (election.go:142-148, 160-174).
THEOREM OneHolderAlways == Spec => []OneHolder
<1>1. IInv => OneHolder
  <2> SUFFICES ASSUME IInv, key # NoKey, NEW m \in Nodes, NEW n \in Nodes,
                      Holds(m), Holds(n)
               PROVE  m = n
    BY DEF OneHolder
  <2>1. key # NoRev
    BY ElectionAssumption DEF IInv, TypeOK, NoKey, NoRev
  <2>2. QED
    BY <2>1 DEF IInv, Distinct, Holds
<1>2. QED
  BY Invariance, <1>1, PTL

\* wonCb never runs twice in a row (election.go:176-183).
THEOREM WinsAlternateAlways == Spec => WinsAlternate
<1>1. IInv /\ [Next]_vars => [\A n \in Nodes : Won(n) => ~active[n]]_vars
  BY DEF IInv, Phases, Won
<1>2. QED
  BY Invariance, <1>1, PTL DEF Spec, WinsAlternate

\* No try takes the key from another node that holds it (election.go:142, 160).
THEOREM NobodyTakesOver == Spec => NoTakeover
<1> DEFINE Kept == \A m, n \in Nodes :
             m # n /\ Holds(m) /\ (Campaign(n) \/ Maintain(n)) => Holds(m)'
<1>1. ASSUME IInv, NEW m \in Nodes, NEW n \in Nodes, m # n, Holds(m),
             Campaign(n) \/ Maintain(n)
      PROVE  Holds(m)'
  <2>1. key \in Revs /\ key # NoKey
    BY <1>1, ElectionAssumption DEF IInv, TypeOK, Holds, NoKey, NoRev
  <2>2. PICK expected \in Revs \cup {NoKey}, at \in PCs :
          Request(n, expected, at) /\ expected # key
    <3>1. CASE Campaign(n)
      BY <3>1, <2>1 DEF Campaign, PCs
    <3>2. CASE Maintain(n)
      <4>1. lastSeq[n] \in Revs
        BY <3>2, <1>1, LeaderExpects DEF Maintain
      <4>2. lastSeq[n] # key
        BY <4>1, <2>1, <1>1, ElectionAssumption
           DEF IInv, Distinct, Holds, NoRev
      <4>3. QED
        BY <3>2, <4>1, <4>2 DEF Maintain, PCs
    <3>3. QED
      BY <1>1, <3>1, <3>2
  <2>3. key' = key /\ reply'[m] = reply[m] /\ lastSeq' = lastSeq
    BY <1>1, <2>2, RequestEffect DEF IInv, Request, campaigner
  <2>4. QED
    BY <1>1, <2>3 DEF Holds
<1>2. IInv /\ [Next]_vars => [Kept]_vars
  BY <1>1
<1>3. QED
  BY Invariance, <1>2, PTL DEF Spec, NoTakeover
=============================================================================
