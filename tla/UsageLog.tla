------------------------------ MODULE UsageLog ------------------------------
(***************************************************************************)
(* What the usage logger promises: a log that may lose records but never   *)
(* stores one twice, never stores one it has reported lost, and stores     *)
(* records in the order it accepted them, whole batches at a time.         *)
(* UsageLogger implements it.                                              *)
(***************************************************************************)
EXTENDS Integers, SequencesExt

CONSTANT Records

VARIABLES
  accepted,  \* taken from a caller and not stored yet, oldest first
  stored,    \* in the database, in insertion order
  lost       \* discarded, with a warning or an error in the process log

vars == <<accepted, stored, lost>>

In(s) == {s[i] : i \in 1..Len(s)}
Fresh(r) == r \notin In(accepted) \cup In(stored) \cup lost

Init == accepted = <<>> /\ stored = <<>> /\ lost = {}

Accept(r) ==
  /\ Fresh(r)
  /\ accepted' = Append(accepted, r)
  /\ UNCHANGED <<stored, lost>>

Refuse(r) ==
  /\ Fresh(r)
  /\ lost' = lost \cup {r}
  /\ UNCHANGED <<accepted, stored>>

Displace(i) ==
  /\ accepted' = RemoveAt(accepted, i)
  /\ lost' = lost \cup {accepted[i]}
  /\ UNCHANGED stored

\* The n oldest records are written in one transaction.
Store(n) ==
  /\ stored' = stored \o SubSeq(accepted, 1, n)
  /\ accepted' = SubSeq(accepted, n + 1, Len(accepted))
  /\ UNCHANGED lost

\* The transaction fails and takes all of them with it.
Fail(n) ==
  /\ lost' = lost \cup In(SubSeq(accepted, 1, n))
  /\ accepted' = SubSeq(accepted, n + 1, Len(accepted))
  /\ UNCHANGED stored

Next ==
  \/ \E r \in Records : Accept(r) \/ Refuse(r)
  \/ \E i \in 1..Len(accepted) : Displace(i) \/ Store(i) \/ Fail(i)

Spec == Init /\ [][Next]_vars
=============================================================================
