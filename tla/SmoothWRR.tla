----------------------------- MODULE SmoothWRR -----------------------------
(***************************************************************************)
(* What a BackendPool promises, without its memory: smooth weighted        *)
(* round-robin over a fixed set of slots.  Each turn every slot earns its  *)
(* weight, the richest slot (the first of them) is picked and pays the     *)
(* total.  BackendRouting implements this one slot and one load or store   *)
(* at a time.                                                              *)
(***************************************************************************)
EXTENDS Integers, Functions

CONSTANTS
  K,       \* number of slots
  Weights  \* Weights[s], the weight of slot s

Slots == 1..K

VARIABLES
  credit,  \* credit[s], currentWeight of the backend in slot s
  picks,   \* picks[s], how often slot s was picked
  turns    \* how many picks were made

vars == <<credit, picks, turns>>

Total == SumFunction(Weights)

Init ==
  /\ credit = [s \in Slots |-> 0]
  /\ picks = [s \in Slots |-> 0]
  /\ turns = 0

Raised == [s \in Slots |-> credit[s] + Weights[s]]

\* The first of the slots with the largest raised credit: a later slot must be
\* strictly richer to replace it.
Leads(s) ==
  /\ \A t \in Slots : Raised[t] <= Raised[s]
  /\ \A t \in 1..(s - 1) : Raised[t] < Raised[s]

Pick(s) ==
  /\ Leads(s)
  /\ credit' = [Raised EXCEPT ![s] = @ - Total]
  /\ picks' = [picks EXCEPT ![s] = @ + 1]
  /\ turns' = turns + 1

Next == \E s \in Slots : Pick(s)

Spec == Init /\ [][Next]_vars
=============================================================================
