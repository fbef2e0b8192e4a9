------------------------------ MODULE Election ------------------------------
(***************************************************************************)
(* Leader election over one key of a NATS key-value bucket                 *)
(* (election/election.go).  A candidate creates the key, a leader keeps it *)
(* alive by compare-and-set updates, and the replicator is told of a win   *)
(* only at the first successful update after the create.                   *)
(*                                                                         *)
(* Time is abstract here: a ticker may fire at any moment and the key may  *)
(* expire at any moment.  ElectionTimed adds the timers and the TTL.       *)
(*                                                                         *)
(* Bucket revisions are only ever compared for equality, so a revision no  *)
(* variable refers to is as good as a new one: Revs may be a small set.    *)
(***************************************************************************)
EXTENDS Integers, FiniteSets

CONSTANTS
  Nodes,     \* the replicators that campaign for the same key
  Revs,      \* revisions the bucket hands out
  MaxTries,  \* last index of the backoff policy; Duration(n) saturates there
  MaxLate    \* bound on the requests in flight after their sender gave up

ASSUME ElectionAssumption ==
  /\ Revs \subseteq Nat \ {0}
  /\ MaxTries \in Nat
  /\ MaxLate \in Nat

NoKey == 0    \* the bucket holds no live value for the key
NoRev == -1   \* math.MaxUint64 in the code, and the error of a request

VARIABLES
  key,         \* revision of the live value of the key, or NoKey
  late,        \* revisions expected by requests given up on, still to arrive
  pc,          \* where the campaign goroutine of a node stands
  state,       \* election.state
  lastSeq,     \* election.lastSeq
  tries,       \* index into the backoff policy that election.tries stands for
  notifyNext,  \* election.notifyNext
  reply,       \* outcome of the request a node waits for
  cancelled,   \* election.ctx is done
  active       \* the last callback that ran was wonCb

server == <<key, late>>
campaigner == <<state, lastSeq, tries, notifyNext>>
vars == <<key, late, pc, state, lastSeq, tries, notifyNext, reply, cancelled,
          active>>

States == {"unknown", "candidate", "leader"}
PCs == {"off", "splay", "idle", "create", "update", "won", "delete", "done"}

\* Every revision some variable still refers to.
InUse == {key} \cup late \cup {lastSeq[n] : n \in Nodes}
               \cup {reply[n] : n \in Nodes}

\* The revision of the next write: the smallest one nobody refers to.
Fresh(r) == /\ r \in Revs \ InUse
            /\ \A q \in Revs \ InUse : r <= q

Init ==
  /\ key = NoKey
  /\ late = {}
  /\ pc = [n \in Nodes |-> "off"]
  /\ state = [n \in Nodes |-> "unknown"]
  /\ lastSeq = [n \in Nodes |-> NoRev]
  /\ tries = [n \in Nodes |-> 0]
  /\ notifyNext = [n \in Nodes |-> FALSE]
  /\ reply = [n \in Nodes |-> NoRev]
  /\ cancelled = [n \in Nodes |-> FALSE]
  /\ active = [n \in Nodes |-> FALSE]

-----------------------------------------------------------------------------
(* The bucket.  Create succeeds when the key has no live value, Update when *)
(* the live value still is the expected revision: both are one             *)
(* compare-and-set on the expected revision, NoKey for Create.             *)

\* The request reaches the bucket; its answer may still be lost on the way back.
Delivered(n, expected) ==
  /\ UNCHANGED late
  /\ \/ /\ key = expected
        /\ \E r \in Revs : Fresh(r) /\ key' = r
        /\ \E answer \in {key', NoRev} : reply' = [reply EXCEPT ![n] = answer]
     \/ /\ key # expected
        /\ reply' = [reply EXCEPT ![n] = NoRev]
        /\ UNCHANGED key

\* The request is given up on; it never arrives, or it arrives later.
TimedOut(n, expected) ==
  /\ \/ UNCHANGED late
     \/ Cardinality(late) < MaxLate /\ late' = late \cup {expected}
  /\ reply' = [reply EXCEPT ![n] = NoRev]
  /\ UNCHANGED key

\* A request its sender has given up on reaches the bucket.
LateArrival ==
  \E expected \in late :
    /\ late' = late \ {expected}
    /\ \/ key = expected /\ \E r \in Revs : Fresh(r) /\ key' = r
       \/ key # expected /\ UNCHANGED key
    /\ UNCHANGED <<pc, campaigner, reply, cancelled, active>>

\* The bucket's TTL removes the value, or somebody deletes the key.
Expire ==
  /\ key # NoKey
  /\ key' = NoKey
  /\ UNCHANGED <<late, pc, campaigner, reply, cancelled, active>>

\* Another client writes the key; the test suite does this to force failures.
Corrupt ==
  /\ \E r \in Revs : Fresh(r) /\ key' = r
  /\ UNCHANGED <<late, pc, campaigner, reply, cancelled, active>>

-----------------------------------------------------------------------------
(* A node.  try() holds the mutex from the request to the last callback, so *)
(* between "idle" and "idle" nothing else of the node runs but the context.*)

Start(n) ==
  /\ pc[n] = "off"
  /\ pc' = [pc EXCEPT ![n] = "splay"]
  /\ state' = [state EXCEPT ![n] = "candidate"]
  /\ UNCHANGED <<server, lastSeq, tries, notifyNext, reply, cancelled, active>>

Request(n, expected, at) ==
  /\ pc' = [pc EXCEPT ![n] = at]
  /\ Delivered(n, expected) \/ TimedOut(n, expected)
  /\ UNCHANGED <<campaigner, cancelled, active>>

\* A tick of a candidate, or the first try after the start-up wait, which a done
\* context only shortens: campaignForLeadership sends Create.
Campaign(n) ==
  /\ pc[n] \in {"splay", "idle"} /\ state[n] = "candidate"
  /\ Request(n, NoKey, "create")

\* Mutant: an Update that overwrites whatever revision the key has.
MaintainBlindly(n) ==
  /\ pc[n] = "idle" /\ state[n] = "leader"
  /\ Request(n, key, "update")

\* A tick of a leader: maintainLeadership sends Update with the last revision.
Maintain(n) ==
  /\ pc[n] = "idle" /\ state[n] = "leader"
  /\ Request(n, lastSeq[n], "update")

\* Mutant: the revision is read back from the key, which another may have written.
CreatedReadsBack(n) ==
  /\ pc[n] = "create" /\ reply[n] # NoRev
  /\ pc' = [pc EXCEPT ![n] = "idle"]
  /\ lastSeq' = [lastSeq EXCEPT ![n] = IF key = NoKey THEN reply[n] ELSE key]
  /\ state' = [state EXCEPT ![n] = "leader"]
  /\ tries' = [tries EXCEPT ![n] = 0]
  /\ notifyNext' = [notifyNext EXCEPT ![n] = TRUE]
  /\ reply' = [reply EXCEPT ![n] = NoRev]
  /\ UNCHANGED <<server, cancelled, active>>

\* Create succeeded: leader, but the win is announced at the next tick.
Created(n) ==
  /\ pc[n] = "create" /\ reply[n] # NoRev
  /\ pc' = [pc EXCEPT ![n] = "idle"]
  /\ lastSeq' = [lastSeq EXCEPT ![n] = reply[n]]
  /\ state' = [state EXCEPT ![n] = "leader"]
  /\ tries' = [tries EXCEPT ![n] = 0]
  /\ notifyNext' = [notifyNext EXCEPT ![n] = TRUE]
  /\ reply' = [reply EXCEPT ![n] = NoRev]
  /\ UNCHANGED <<server, cancelled, active>>

\* The code counts e.tries on without end (election.go:144); the tries beyond the last
\* index of the policy are one value here, as they are to Duration (backoff.go:55-61).
CreateFailed(n) ==
  /\ pc[n] = "create" /\ reply[n] = NoRev
  /\ pc' = [pc EXCEPT ![n] = "idle"]
  /\ tries' = [tries EXCEPT ![n] = IF @ < MaxTries THEN @ + 1 ELSE @]
  /\ UNCHANGED <<server, state, lastSeq, notifyNext, reply, cancelled, active>>

\* Mutant: the win is announced again at every tick.
UpdatedAgain(n) ==
  /\ pc[n] = "update" /\ reply[n] # NoRev
  /\ pc' = [pc EXCEPT ![n] = IF notifyNext[n] THEN "won" ELSE "idle"]
  /\ lastSeq' = [lastSeq EXCEPT ![n] = reply[n]]
  /\ reply' = [reply EXCEPT ![n] = NoRev]
  /\ UNCHANGED <<server, state, tries, notifyNext, cancelled, active>>

\* Update succeeded; after a create the win is announced 200ms later.
Updated(n) ==
  /\ pc[n] = "update" /\ reply[n] # NoRev
  /\ pc' = [pc EXCEPT ![n] = IF notifyNext[n] THEN "won" ELSE "idle"]
  /\ lastSeq' = [lastSeq EXCEPT ![n] = reply[n]]
  /\ notifyNext' = [notifyNext EXCEPT ![n] = FALSE]
  /\ reply' = [reply EXCEPT ![n] = NoRev]
  /\ UNCHANGED <<server, state, tries, cancelled, active>>

\* Mutant: a leader that stands down does not call lostCb.
UpdateFailedSilently(n) ==
  /\ pc[n] = "update" /\ reply[n] = NoRev
  /\ pc' = [pc EXCEPT ![n] = "idle"]
  /\ state' = [state EXCEPT ![n] = "candidate"]
  /\ lastSeq' = [lastSeq EXCEPT ![n] = NoRev]
  /\ UNCHANGED <<server, tries, notifyNext, reply, cancelled, active>>

\* Mutant: a leader whose update failed goes on as a leader.
UpdateFailedStays(n) ==
  /\ pc[n] = "update" /\ reply[n] = NoRev
  /\ pc' = [pc EXCEPT ![n] = "idle"]
  /\ lastSeq' = [lastSeq EXCEPT ![n] = NoRev]
  /\ active' = [active EXCEPT ![n] = FALSE]
  /\ UNCHANGED <<server, state, tries, notifyNext, reply, cancelled>>

\* Mutant: a loss resets lastSeq to 0, with which an update would be a create.
UpdateFailedZero(n) ==
  /\ pc[n] = "update" /\ reply[n] = NoRev
  /\ pc' = [pc EXCEPT ![n] = "idle"]
  /\ state' = [state EXCEPT ![n] = "candidate"]
  /\ lastSeq' = [lastSeq EXCEPT ![n] = NoKey]
  /\ active' = [active EXCEPT ![n] = FALSE]
  /\ UNCHANGED <<server, tries, notifyNext, reply, cancelled>>

\* Update failed: the node stands down and runs lostCb, win announced or not.
UpdateFailed(n) ==
  /\ pc[n] = "update" /\ reply[n] = NoRev
  /\ pc' = [pc EXCEPT ![n] = "idle"]
  /\ state' = [state EXCEPT ![n] = "candidate"]
  /\ lastSeq' = [lastSeq EXCEPT ![n] = NoRev]
  /\ active' = [active EXCEPT ![n] = FALSE]
  /\ UNCHANGED <<server, tries, notifyNext, reply, cancelled>>

\* The pause before the announcement ends, or the context ended it: wonCb runs.
Won(n) ==
  /\ pc[n] = "won"
  /\ pc' = [pc EXCEPT ![n] = "idle"]
  /\ active' = [active EXCEPT ![n] = TRUE]
  /\ UNCHANGED <<server, campaigner, reply, cancelled>>

\* The replicator is asked to stop: the context given to Start is cancelled.
Cancel(n) ==
  /\ pc[n] \notin {"off", "delete", "done"}
  /\ ~cancelled[n]
  /\ cancelled' = [cancelled EXCEPT ![n] = TRUE]
  /\ UNCHANGED <<server, pc, campaigner, reply, active>>

\* The select sees the context done: stop() first, then lostCb if IsLeader().
Shutdown(n) ==
  /\ pc[n] = "idle" /\ cancelled[n]
  /\ pc' = [pc EXCEPT ![n] = "delete"]
  /\ state' = [state EXCEPT ![n] = "candidate"]
  /\ lastSeq' = [lastSeq EXCEPT ![n] = NoRev]
  /\ active' = [active EXCEPT ![n] =
                  IF state'[n] = "leader" /\ ~notifyNext[n] THEN FALSE ELSE @]
  /\ UNCHANGED <<server, tries, notifyNext, reply, cancelled>>

\* The key is deleted whoever holds it; an error is ignored.
Delete(n) ==
  /\ pc[n] = "delete"
  /\ pc' = [pc EXCEPT ![n] = "done"]
  /\ key' \in {NoKey, key}
  /\ UNCHANGED <<late, campaigner, reply, cancelled, active>>

\* The process ends, after its shutdown or by a crash.
Exit(n) ==
  /\ pc[n] # "off"
  /\ pc' = [pc EXCEPT ![n] = "off"]
  /\ state' = [state EXCEPT ![n] = "unknown"]
  /\ lastSeq' = [lastSeq EXCEPT ![n] = NoRev]
  /\ tries' = [tries EXCEPT ![n] = 0]
  /\ notifyNext' = [notifyNext EXCEPT ![n] = FALSE]
  /\ reply' = [reply EXCEPT ![n] = NoRev]
  /\ cancelled' = [cancelled EXCEPT ![n] = FALSE]
  /\ active' = [active EXCEPT ![n] = FALSE]
  /\ UNCHANGED server

Node(n) ==
  \/ Start(n) \/ Campaign(n) \/ Maintain(n)
  \/ Created(n) \/ CreateFailed(n) \/ Updated(n) \/ UpdateFailed(n) \/ Won(n)
  \/ Cancel(n) \/ Shutdown(n) \/ Delete(n) \/ Exit(n)

Next == (\E n \in Nodes : Node(n)) \/ LateArrival \/ Expire \/ Corrupt

Spec == Init /\ [][Next]_vars

-----------------------------------------------------------------------------
(* Properties.                                                             *)

TypeOK ==
  /\ key \in Revs \cup {NoKey}
  /\ late \subseteq Revs \cup {NoKey}
  /\ pc \in [Nodes -> PCs]
  /\ state \in [Nodes -> States]
  /\ lastSeq \in [Nodes -> Revs \cup {NoRev}]
  /\ tries \in [Nodes -> 0 .. MaxTries]
  /\ notifyNext \in [Nodes -> BOOLEAN]
  /\ reply \in [Nodes -> Revs \cup {NoRev}]
  /\ cancelled \in [Nodes -> BOOLEAN]
  /\ active \in [Nodes -> BOOLEAN]

\* The live value of the key is the last one n wrote, whether or not n has
\* the answer yet.
Holds(n) == key \in {lastSeq[n], reply[n]}

\* The live value of the key is never two nodes' own: whatever is lost, late or
\* deleted, at most one of them can have its next update accepted (election.go:142,
\* 148, 160, 174).
OneHolder ==
  key # NoKey => \A m, n \in Nodes : Holds(m) /\ Holds(n) => m = n

\* However requests, answers, expiry and late arrivals interleave, the try of
\* one node never takes the key from another node that still holds it: this
\* is what the expected revision of maintainLeadership (election.go:160) is
\* for, and a leader that was replaced therefore learns it at its next try.
NoTakeover ==
  [][\A m, n \in Nodes :
       m # n /\ Holds(m) /\ (Campaign(n) \/ Maintain(n)) => Holds(m)']_vars

\* A node that was told it won and not that it lost is the leader in its own
\* state, until its campaign ends: no path leaves LeaderState without lostCb
\* while the campaign goes on.
ActiveLeads ==
  \A n \in Nodes :
    active[n] => state[n] = "leader" \/ pc[n] \in {"delete", "done"}

\* wonCb never runs twice without a lostCb between: notifyNext, which a loss
\* does not reset, cannot announce the same win again.
WinsAlternate == [][\A n \in Nodes : Won(n) => ~active[n]]_vars
=============================================================================
