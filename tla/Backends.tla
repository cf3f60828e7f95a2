------------------------------ MODULE Backends ------------------------------
(***************************************************************************)
(* The Backend object of internal/backends/backend.go: one record per      *)
(* object, one operator per method that changes it.  The record keeps the  *)
(* fields that routing reads and the failure count, which is counted up to *)
(* UnhealthyThreshold.  lastCheckTime, Tag, Timeout and Headers are left   *)
(* out; URL stands for the base URL together with the health check path.   *)
(***************************************************************************)
EXTENDS Integers

CONSTANTS
  Names,  \* backend names, the keys of Manager.byName
  URLs,   \* the addresses a backend can be given
  UnhealthyThreshold  \* health_check.unhealthy_threshold of the configuration

ASSUME BackendsAssumption ==
  Names # {} /\ URLs # {} /\ UnhealthyThreshold \in Nat \ {0}

Weight == Nat \ {0}

Backend ==
  [name            : Names,
   url             : URLs,
   weight          : Weight,
   effectiveWeight : Nat,
   currentWeight   : Int,
   healthy         : BOOLEAN,
   enabled         : BOOLEAN,
   failureCount    : 0..UnhealthyThreshold]

\* A fresh object is optimistic: healthy until the first health check.
NewBackend(n, u, w) ==
  [name |-> n, url |-> u, weight |-> w, effectiveWeight |-> w,
   currentWeight |-> 0, healthy |-> TRUE, enabled |-> TRUE,
   failureCount |-> 0]

SetEnabled(b, e) == [b EXCEPT !.enabled = e]

\* SetHealth makes two stores, and nothing keeps a reader from seeing only the
\* first.
StoreHealth(b, h) == [b EXCEPT !.healthy = h]

\* Fault: recovery does not restore the weight.
StoreWeightForgotten(b, h) == [b EXCEPT !.effectiveWeight = IF h THEN @ ELSE 0]
StoreWeight(b, h) == [b EXCEPT !.effectiveWeight = IF h THEN b.weight ELSE 0]

MarkFailure(b) ==
  [b EXCEPT !.failureCount = IF @ < UnhealthyThreshold THEN @ + 1 ELSE @]

MarkSuccess(b) == [b EXCEPT !.failureCount = 0]

\* A backend that was seen unhealthy keeps its effective weight.
UpdateConfig(b, u, w, seen) ==
  [b EXCEPT !.url = u,
            !.weight = w,
            !.effectiveWeight = IF seen THEN w ELSE @]

\* Manager.UpsertBackend and Store.LoadActiveBackends both raise a weight that
\* is not positive to DefaultModelWeight.
DefaultModelWeight == 1
\* Fault: a weight of zero passes.
ClampNegativeWeight(w) == IF w < 0 THEN DefaultModelWeight ELSE w
ClampWeight(w) == IF w <= 0 THEN DefaultModelWeight ELSE w
=============================================================================
