----------------------------- MODULE Replication -----------------------------
(***************************************************************************)
(* What both copiers promise of one stream, whatever fails: every message  *)
(* of the source is handled (stored in the target, skipped on purpose by    *)
(* age or by the limiter, or given up as older than start_delta), and for  *)
(* the first time only after all the messages before it.  A message may be *)
(* stored again later: replication is at least once, so a repeated copy is *)
(* a stuttering step here.                                                 *)
(***************************************************************************)
EXTENDS Integers

CONSTANTS
  First,     \* sequence of the first message to replicate
  MaxSeq     \* bound on the sequences of the source

VARIABLES
  srcLast,   \* last sequence of the source stream
  handled    \* sequences stored in the target, or skipped

rvars == <<srcLast, handled>>

RInit == srcLast = 0 /\ handled = {}

\* A message reaches the source stream.
Published ==
  /\ srcLast < MaxSeq
  /\ srcLast' = srcLast + 1
  /\ UNCHANGED handled

\* The next message in order is stored or skipped.
Handle(s) ==
  /\ s \notin handled
  /\ First .. s - 1 \subseteq handled
  /\ handled' = handled \cup {s}
  /\ UNCHANGED srcLast

RNext == Published \/ \E s \in First .. srcLast : Handle(s)

RSpec == RInit /\ [][RNext]_rvars
=============================================================================
