--------------------------- MODULE BackendRouting ---------------------------
(***************************************************************************)
(* Backend selection: internal/backends pool.go, manager.go and            *)
(* healthcheck.go, and the pool building of internal/models/resolver.go.   *)
(*                                                                         *)
(* A Backend is a heap object.  The manager maps names to objects and keeps*)
(* them in a list; a request builds a pool of pointers under the manager's *)
(* read lock and then selects from it.  The pool, with its mutex, is       *)
(* private to the request, so selections of different requests interleave  *)
(* at every load and store of the shared currentWeight.  The health checker*)
(* walks a snapshot of the list, and the answer to a probe may be applied  *)
(* after the backend was changed, disabled or removed.                     *)
(*                                                                         *)
(* The fields of a Backend are plain: a selection holds only its own pool's*)
(* mutex and the checker holds none.  One step each: what the manager does *)
(* under its lock, every load Select makes of a backend's field, its two   *)
(* stores, and each of the checker's stores that routing reads.  Loads and *)
(* stores of one goroutine are taken in program order.  The compiler keeps *)
(* the raised currentWeight in a register, so the comparison that follows  *)
(* the store does not load it again.                                       *)
(***************************************************************************)
EXTENDS Backends, SequencesExt

CONSTANTS
  Requests,       \* request goroutines
  Models,         \* what requests ask for: models, and NoModel
  NoModel,        \* GET /api/tags and the like name no model
  Refs,           \* Refs[m], the catalog's backends of model m with weights
  MaxObjects,     \* bound: Backend objects ever created
  Malformed,      \* addresses for which no probe request can be built
  InputWeights,   \* weights an administrator may give
  StartReachable, \* addresses that answer at start
  StartBackends,  \* the backends of the configuration, in order
  MaxRequests,    \* bound: selections made by all requests
  MaxAdmin,       \* bound: administrator operations
  MaxFlips        \* bound: changes of a backend's reachability

Objects == 1..MaxObjects
Nil == 0
Ref == [backend : Names, weight : Int]
Entry == [object : Objects, weight : Weight]

ASSUME RoutingAssumption ==
  /\ Refs \in [Models \ {NoModel} -> Seq(Ref)]
  /\ MaxObjects \in Nat
  /\ Malformed \subseteq URLs /\ StartReachable \subseteq URLs
  /\ InputWeights \subseteq Int
  /\ MaxRequests \in Nat /\ MaxAdmin \in Nat /\ MaxFlips \in Nat
  \* PRIMARY KEY (model_name, backend_name) of the table model_backends
  /\ \A m \in Models \ {NoModel} : \A i, j \in 1..Len(Refs[m]) :
        Refs[m][i].backend = Refs[m][j].backend => i = j
  /\ StartBackends \in Seq([name : Names, url : URLs, weight : Weight])
  /\ Len(StartBackends) <= MaxObjects
  /\ \A i, j \in 1..Len(StartBackends) :
        StartBackends[i].name = StartBackends[j].name => i = j

VARIABLES
  heap,       \* heap[o], the Backend object o
  used,       \* objects 1..used have been created
  byName,     \* Manager.byName, Nil for a missing name
  list,       \* Manager.backends
  sel,        \* sel[r], the locals of request r inside Select
  todo,       \* the rest of the health checker's snapshot
  probe,      \* the answer the health checker is applying
  reachable,  \* the addresses that answer now
  served,     \* selections started
  adminOps,   \* administrator operations made
  flips,      \* reachability changes made
  picks,      \* history: picks[m][n], selections of m answered with n
  everHealthy,  \* history: objects healthy at some moment of r's selection
  everOK,     \* history: those of them enabled at that moment or a later one
  alwaysOK    \* history: objects steadily routable throughout r's selection

managerVars == <<used, byName, list>>
checkerVars == <<todo, probe>>
boundVars == <<served, adminOps, flips>>
vars == <<heap, used, byName, list, sel, todo, probe, reachable,
          served, adminOps, flips, picks, everHealthy, everOK, alwaysOK>>

-----------------------------------------------------------------------------
(* The start: NewManager over the configured backends.                     *)

Locals(pc, m, pool) ==
  [pc |-> pc, model |-> m, pool |-> pool, next |-> 1,
   reg |-> 0, total |-> 0, best |-> 0, bestWeight |-> 0]

Idle == Locals("idle", NoModel, <<>>)

NoProbe == [object |-> Nil, verdict |-> "none", stored |-> FALSE]

Blank == [name |-> CHOOSE n \in Names : TRUE, url |-> CHOOSE u \in URLs : TRUE,
          weight |-> 1, effectiveWeight |-> 1, currentWeight |-> 0,
          healthy |-> TRUE, enabled |-> TRUE, failureCount |-> 0]

Init ==
  /\ used = Len(StartBackends)
  /\ heap = [o \in Objects |->
       IF o <= used
       THEN NewBackend(StartBackends[o].name, StartBackends[o].url, StartBackends[o].weight)
       ELSE Blank]
  /\ list = [i \in 1..used |-> i]
  /\ byName = [n \in Names |->
       IF \E o \in 1..used : StartBackends[o].name = n
       THEN CHOOSE o \in 1..used : StartBackends[o].name = n
       ELSE Nil]
  /\ sel = [r \in Requests |-> Idle]
  /\ todo = <<>>
  /\ probe = NoProbe
  /\ reachable = StartReachable
  /\ served = 0 /\ adminOps = 0 /\ flips = 0
  /\ picks = [m \in Models |-> [n \in Names |-> 0]]
  /\ everHealthy = [r \in Requests |-> {}]
  /\ everOK = [r \in Requests |-> {}]
  /\ alwaysOK = [r \in Requests |-> {}]

-----------------------------------------------------------------------------
(* History: which of a request's pool objects could take traffic while it  *)
(* was selecting.  Watch is a conjunct of every action.                    *)

Resting(r) == sel[r].pc \in {"idle", "chosen", "rejected", "failed"}

PoolObjects(r) == {sel[r].pool[i].object : i \in 1..Len(sel[r].pool)}
Healthy(r) == {o \in PoolObjects(r) : heap[o].healthy}
Enabled(r) == {o \in PoolObjects(r) : heap[o].enabled}

\* The checker has made o healthy and not restored its weight yet.
Recovering(o) == probe.object = o /\ probe.stored /\ probe.verdict = "up"
Steady(r) ==
  {o \in Healthy(r) \cap Enabled(r) : heap[o].effectiveWeight > 0 \/ ~Recovering(o)}

Starts(r) == Resting(r) /\ ~Resting(r)'

Watch ==
  /\ everHealthy' = [r \in Requests |->
       IF Starts(r) THEN Healthy(r)'
       ELSE IF Resting(r) THEN everHealthy[r] ELSE everHealthy[r] \cup Healthy(r)']
  /\ everOK' = [r \in Requests |->
       IF Starts(r) THEN (Healthy(r) \cap Enabled(r))'
       ELSE IF Resting(r) THEN everOK[r]
       ELSE everOK[r] \cup (everHealthy'[r] \cap Enabled(r)')]
  /\ alwaysOK' = [r \in Requests |->
       IF Starts(r) THEN Steady(r)'
       ELSE IF Resting(r) THEN alwaysOK[r] ELSE alwaysOK[r] \cap Steady(r)']

-----------------------------------------------------------------------------
(* Manager: each operation holds Manager.mu throughout.                    *)

\* UpdateConfig loads the health without a lock, while the checker may be
\* storing it: it may have seen TRUE before the checker's store, or FALSE.
MaySee(o, h) == h \/ ~heap[o].healthy \/ Recovering(o)

\* UpsertBackend changes an existing object in place and enables it, or
\* appends a new one.  (A URL that does not parse returns early and changes
\* nothing.)
UpsertBackend(n, u, w) ==
  /\ adminOps < MaxAdmin
  /\ adminOps' = adminOps + 1
  /\ \/ /\ byName[n] # Nil
        /\ \E seen \in BOOLEAN :
             /\ MaySee(byName[n], seen)
             /\ heap' = [heap EXCEPT ![byName[n]] =
                  SetEnabled(UpdateConfig(@, u, ClampWeight(w), seen), TRUE)]
        /\ UNCHANGED managerVars
     \/ /\ byName[n] = Nil
        /\ used < MaxObjects
        /\ used' = used + 1
        /\ heap' = [heap EXCEPT ![used + 1] = NewBackend(n, u, ClampWeight(w))]
        /\ list' = Append(list, used + 1)
        /\ byName' = [byName EXCEPT ![n] = used + 1]
  /\ UNCHANGED <<sel, checkerVars, reachable, served, flips, picks>>
  /\ Watch

\* Fault: the name is deleted from the map only.
FilteredNothing(n) == list

\* The filter of RemoveBackend: the names in the list are distinct, so it drops
\* one position.
Filtered(n) == RemoveAt(list, CHOOSE i \in 1..Len(list) : heap[list[i]].name = n)

RemoveBackend(n) ==
  /\ adminOps < MaxAdmin
  /\ adminOps' = adminOps + 1
  /\ byName[n] # Nil
  /\ byName' = [byName EXCEPT ![n] = Nil]
  /\ list' = Filtered(n)
  /\ UNCHANGED <<heap, used, sel, checkerVars, reachable, served, flips, picks>>
  /\ Watch

\* The dashboard calls SetEnabled through a pointer it got from GetByName, so
\* the object may have been removed since.  A call that changes nothing is left
\* out.
SetBackendEnabled(o, e) ==
  /\ adminOps < MaxAdmin
  /\ adminOps' = adminOps + 1
  /\ o <= used
  /\ heap[o].enabled # e
  /\ heap' = [heap EXCEPT ![o] = SetEnabled(@, e)]
  /\ UNCHANGED <<managerVars, sel, checkerVars, reachable, served, flips, picks>>
  /\ Watch

-----------------------------------------------------------------------------
(* HealthChecker: one goroutine, one probe at a time, no lock.             *)

\* A ticker starts CheckAll over a copy of the list.
StartCycle ==
  /\ todo = <<>> /\ probe = NoProbe
  /\ todo' = list
  /\ UNCHANGED <<heap, managerVars, sel, probe, reachable, boundVars, picks>>
  /\ Watch

Verdict(u) ==
  IF u \in Malformed THEN "unbuilt"
  ELSE IF u \in reachable THEN "up" ELSE "down"

\* The address is read before the request is sent.
Probe ==
  /\ todo # <<>> /\ probe = NoProbe
  /\ probe' = [object |-> Head(todo), verdict |-> Verdict(heap[Head(todo)].url),
               stored |-> FALSE]
  /\ todo' = Tail(todo)
  /\ UNCHANGED <<heap, managerVars, sel, reachable, boundVars, picks>>
  /\ Watch

\* Fault: no failure takes a backend out of rotation.
JudgedUpOnly(b, verdict) == IF verdict = "up" THEN StoreHealth(b, TRUE) ELSE b

\* checkBackend, the first store of SetHealth.  A request that cannot be built
\* only counts as a failure.
Judged(b, verdict) ==
  IF verdict = "unbuilt" THEN b ELSE StoreHealth(b, verdict = "up")

ApplyHealth ==
  /\ probe # NoProbe /\ ~probe.stored
  /\ heap' = [heap EXCEPT ![probe.object] = Judged(@, probe.verdict)]
  /\ probe' = [probe EXCEPT !.stored = TRUE]
  /\ UNCHANGED <<managerVars, sel, todo, reachable, boundVars, picks>>
  /\ Watch

\* Its second store, and the count.
Checked(b, verdict) ==
  CASE verdict = "unbuilt" -> MarkFailure(b)
    [] verdict = "up"      -> MarkSuccess(StoreWeight(b, TRUE))
    [] verdict = "down"    -> MarkFailure(StoreWeight(b, FALSE))

ApplyWeight ==
  /\ probe.stored
  /\ heap' = [heap EXCEPT ![probe.object] = Checked(@, probe.verdict)]
  /\ probe' = NoProbe
  /\ UNCHANGED <<managerVars, sel, todo, reachable, boundVars, picks>>
  /\ Watch

\* The network: a backend goes down or comes back.
Flip(u) ==
  /\ flips < MaxFlips
  /\ flips' = flips + 1
  /\ reachable' = IF u \in reachable THEN reachable \ {u} ELSE reachable \cup {u}
  /\ UNCHANGED <<heap, managerVars, sel, checkerVars, served, adminOps, picks>>
  /\ Watch

-----------------------------------------------------------------------------
(* Requests: Resolver.Resolve / DefaultPool, then BackendPool.Select.      *)

\* Fault: the backend's own weight replaces the model's.
RefEntriesUnweighted(m) ==
  [i \in 1..Len(Refs[m]) |->
     [object |-> byName[Refs[m][i].backend],
      weight |-> heap[byName[Refs[m][i].backend]].weight]]

\* Resolver.Resolve: a catalog weight that is not positive counts as 1.
RefEntries(m) ==
  [i \in 1..Len(Refs[m]) |->
     [object |-> byName[Refs[m][i].backend], weight |-> ClampWeight(Refs[m][i].weight)]]

DefaultEntries ==
  [i \in 1..Len(list) |-> [object |-> list[i], weight |-> heap[list[i]].weight]]

Entries(m) == IF m = NoModel THEN DefaultEntries ELSE RefEntries(m)

UnknownBackend(m) ==
  m # NoModel /\ \E i \in 1..Len(Refs[m]) : byName[Refs[m][i].backend] = Nil

\* PoolForModel answers an error, and the gateway a 500, when the catalog
\* names a backend the manager does not have.
BuildPool(r, m) ==
  /\ Resting(r)
  /\ served < MaxRequests
  /\ served' = served + 1
  /\ sel' = [sel EXCEPT ![r] =
       IF UnknownBackend(m)
       THEN Locals("failed", m, <<>>)
       ELSE Locals("scan", m, Entries(m))]
  /\ UNCHANGED <<heap, managerVars, checkerVars, reachable, adminOps, flips, picks>>
  /\ Watch

Current(r) == sel[r].pool[sel[r].next]

\* The tests at the head of Select's loop, one load each: a field that passes lets
\* the next one be loaded, a field that fails skips the entry.
Entered(r, at) == sel[r].pc = at /\ sel[r].next <= Len(sel[r].pool)
Pass(r, then) == sel' = [sel EXCEPT ![r].pc = then]
Skip(r) == sel' = [sel EXCEPT ![r].pc = "scan", ![r].next = sel[r].next + 1]

LoadHealthy(r) ==
  /\ Entered(r, "scan")
  /\ \/ heap[Current(r).object].healthy /\ Pass(r, "enabled")
     \/ ~heap[Current(r).object].healthy /\ Skip(r)
  /\ UNCHANGED <<heap, managerVars, checkerVars, reachable, boundVars, picks>>
  /\ Watch

\* Fault: an administrator's switch is ignored.
LoadEnabledInVain(r) ==
  /\ Entered(r, "enabled")
  /\ Pass(r, "weight")
  /\ UNCHANGED <<heap, managerVars, checkerVars, reachable, boundVars, picks>>
  /\ Watch

LoadEnabled(r) ==
  /\ Entered(r, "enabled")
  /\ \/ heap[Current(r).object].enabled /\ Pass(r, "weight")
     \/ ~heap[Current(r).object].enabled /\ Skip(r)
  /\ UNCHANGED <<heap, managerVars, checkerVars, reachable, boundVars, picks>>
  /\ Watch

LoadWeight(r) ==
  /\ Entered(r, "weight")
  /\ \/ heap[Current(r).object].effectiveWeight > 0 /\ Pass(r, "credit")
     \/ ~(heap[Current(r).object].effectiveWeight > 0) /\ Skip(r)
  /\ UNCHANGED <<heap, managerVars, checkerVars, reachable, boundVars, picks>>
  /\ Watch

LoadCredit(r) ==
  /\ sel[r].pc = "credit"
  /\ sel' = [sel EXCEPT ![r].pc = "accrue",
                        ![r].reg = heap[Current(r).object].currentWeight]
  /\ UNCHANGED <<heap, managerVars, checkerVars, reachable, boundVars, picks>>
  /\ Watch

\* The four loads of one entry.
Visit(r) == LoadHealthy(r) \/ LoadEnabled(r) \/ LoadWeight(r) \/ LoadCredit(r)

\* Faults: the last of equals wins; the poorest wins.
BeatsOnTie(s, raised) == s.best = 0 \/ raised >= s.bestWeight
BeatsIfPoorer(s, raised) == s.best = 0 \/ raised < s.bestWeight

\* Strictly richer than the best so far; bestWeight starts at the least integer.
Beats(s, raised) == s.best = 0 \/ raised > s.bestWeight

\* The body of the loop: store the raised weight and keep the best entry.
Accrue(r) ==
  /\ sel[r].pc = "accrue"
  /\ LET s == sel[r]
         raised == s.reg + Current(r).weight
     IN  /\ heap' = [heap EXCEPT ![Current(r).object].currentWeight = raised]
         /\ sel' = [sel EXCEPT ![r] =
              [s EXCEPT !.pc = "scan",
                        !.next = s.next + 1,
                        !.total = s.total + Current(r).weight,
                        !.best = IF Beats(s, raised) THEN s.next ELSE @,
                        !.bestWeight = IF Beats(s, raised) THEN raised ELSE @]]
  /\ UNCHANGED <<managerVars, checkerVars, reachable, boundVars, picks>>
  /\ Watch

\* After the loop: ErrNoHealthyBackends (a 503), or load the winner's weight.
EndScan(r) ==
  /\ sel[r].pc = "scan"
  /\ sel[r].next > Len(sel[r].pool)
  /\ LET s == sel[r]
     IN  sel' = [sel EXCEPT ![r] =
           IF s.best = 0 \/ s.total = 0
           THEN [s EXCEPT !.pc = "rejected"]
           ELSE [s EXCEPT !.pc = "charge",
                          !.reg = heap[s.pool[s.best].object].currentWeight]]
  /\ UNCHANGED <<heap, managerVars, checkerVars, reachable, boundVars, picks>>
  /\ Watch

\* Fault: the winner pays its own weight.
PriceOfWinner(s) == s.pool[s.best].weight

\* The winner pays what all the entries of this round earned.
Price(s) == s.total

Charge(r) ==
  /\ sel[r].pc = "charge"
  /\ LET s == sel[r]
         o == s.pool[s.best].object
     IN  /\ heap' = [heap EXCEPT ![o].currentWeight = s.reg - Price(s)]
         /\ sel' = [sel EXCEPT ![r].pc = "chosen"]
         /\ picks' = [picks EXCEPT ![s.model][heap[o].name] = @ + 1]
  /\ UNCHANGED <<managerVars, checkerVars, reachable, boundVars>>
  /\ Watch

-----------------------------------------------------------------------------
(* The next-state relation.                                                *)

AdminStep ==
  \/ \E n \in Names, u \in URLs, w \in InputWeights : UpsertBackend(n, u, w)
  \/ \E n \in Names : RemoveBackend(n)
  \/ \E o \in Objects, e \in BOOLEAN : SetBackendEnabled(o, e)

CheckerStep == StartCycle \/ Probe \/ ApplyHealth \/ ApplyWeight

RequestStep(r) ==
  \/ \E m \in Models : BuildPool(r, m)
  \/ Visit(r) \/ Accrue(r) \/ EndScan(r) \/ Charge(r)

Next ==
  \/ AdminStep
  \/ CheckerStep
  \/ \E u \in URLs : Flip(u)
  \/ \E r \in Requests : RequestStep(r)

Spec == Init /\ [][Next]_vars

\* The checker goroutine runs until the process stops, and every probe ends at
\* the latest with its timeout.
Fairness ==
  /\ WF_vars(StartCycle)
  /\ WF_vars(Probe)
  /\ WF_vars(ApplyHealth)
  /\ WF_vars(ApplyWeight)

FairSpec == Spec /\ Fairness

-----------------------------------------------------------------------------
(* Properties.                                                             *)

SelState ==
  [pc         : {"idle", "scan", "enabled", "weight", "credit", "accrue", "charge",
                 "chosen", "rejected", "failed"},
   model      : Models \cup {NoModel},
   pool       : Seq(Entry),
   next       : Nat,
   reg        : Int,
   total      : Nat,
   best       : Nat,
   bestWeight : Int]

ProbeState ==
  {NoProbe} \cup
    [object : 1..used, verdict : {"unbuilt", "up", "down"}, stored : BOOLEAN]

TypeOK ==
  /\ heap \in [Objects -> Backend]
  /\ used \in 0..MaxObjects
  /\ byName \in [Names -> 0..used]
  /\ list \in Seq(1..used)
  /\ sel \in [Requests -> SelState]
  /\ todo \in Seq(1..used)
  /\ probe \in ProbeState
  /\ reachable \subseteq URLs
  /\ served \in 0..MaxRequests
  /\ adminOps \in 0..MaxAdmin
  /\ flips \in 0..MaxFlips
  /\ picks \in [Models -> [Names -> Nat]]
  /\ everHealthy \in [Requests -> SUBSET Objects]
  /\ everOK \in [Requests -> SUBSET Objects]
  /\ alwaysOK \in [Requests -> SUBSET Objects]

\* The two indexes of Manager agree after any sequence of upserts and removals:
\* the list holds each routed object once, under the name the map has for it
\* (manager.go 13-18, "keyed by position (name lookup via map below)").
RegistryConsistent ==
  /\ \A i, j \in 1..Len(list) : list[i] = list[j] => i = j
  /\ \A i \in 1..Len(list) : byName[heap[list[i]].name] = list[i]
  /\ \A n \in Names : byName[n] # Nil =>
       /\ heap[byName[n]].name = n
       /\ \E i \in 1..Len(list) : list[i] = byName[n]

\* Whatever the health checker and the administrator do meanwhile, a request is
\* only sent to a backend that was healthy at some moment of its selection and
\* enabled at that moment or a later one: one that was switched off, or found
\* down, before the selection began and stayed so is never used.  The code does
\* not promise that it was both at once: healthy can be loaded before the checker
\* clears it, and enabled after an administrator sets it (backend.go 336,
\* pool.go 65).
RoutedWhileRoutable ==
  \A r \in Requests :
    sel[r].pc = "chosen" => sel[r].pool[sel[r].best].object \in everOK[r]

\* A request is refused with a 503 only if no backend of its pool stayed
\* healthy and enabled throughout the selection, one whose recovery is half
\* stored aside (pool.go 65, 76-78): recovery restores the weight, and neither
\* a racing update nor a negative currentWeight hides a backend.
NoSpuriousRejection ==
  \A r \in Requests : sel[r].pc = "rejected" => alwaysOK[r] = {}

\* Once the network and the configuration stop changing, every routed backend is
\* healthy, with a weight to be selected by, if its address answers and neither if
\* it does not, whatever stale answers were applied and whatever update read the
\* health between the checker's two stores (healthcheck.go 28-71).
HealthConverges ==
  <>[](\A i \in 1..Len(list) :
         LET b == heap[list[i]]
         IN  b.url \notin Malformed =>
               /\ b.healthy <=> b.url \in reachable
               /\ b.effectiveWeight > 0 <=> b.url \in reachable)

\* The credits the backends hold sum to zero whenever no selection is under
\* way: a selection gives out exactly what it takes back (pool.go 64-80).
WeightsConserved ==
  (\A r \in Requests : Resting(r)) =>
    SumFunction([o \in Objects |-> heap[o].currentWeight]) = 0

WeightIn(m, n) ==
  LET I == {i \in 1..Len(Refs[m]) : Refs[m][i].backend = n}
  IN  SumFunctionOnSet([i \in I |-> ClampWeight(Refs[m][i].weight)], I)
TotalWeight(m) == SumFunction([n \in Names |-> WeightIn(m, n)])
Turns(m) == SumFunction(picks[m])

\* While no backend fails and nothing is reconfigured, every model's requests
\* are spread in proportion to its weights after each full cycle
\* (docs/specs/06-backend-routing-spec.md:56 and :182).
ProportionalShare ==
  \A m \in Models \ {NoModel} : Turns(m) % TotalWeight(m) = 0 =>
    \A n \in Names : picks[m][n] * TotalWeight(m) = Turns(m) * WeightIn(m, n)

\* And within a cycle no backend of the model is a whole turn ahead of its share,
\* nor further behind it than the other backends can be ahead, so that none
\* starves ("interleaves backends smoothly", 06-backend-routing-spec.md:57).
LagBounded ==
  \A m \in Models \ {NoModel} : \A i \in 1..Len(Refs[m]) :
    LET n == Refs[m][i].backend
        lag == Turns(m) * WeightIn(m, n) - TotalWeight(m) * picks[m][n]
    IN  -lag < TotalWeight(m) /\ lag <= (Len(Refs[m]) - 1) * (TotalWeight(m) - 1)

-----------------------------------------------------------------------------
(* The pool of a model is the abstract scheduler: its credits are the      *)
(* backends' currentWeights, less what an unfinished selection has already *)
(* added.                                                                  *)

SlotWeight(m, i) == ClampWeight(Refs[m][i].weight)

Busy == {"scan", "enabled", "weight", "credit", "accrue", "charge"}

Earned(m, i) ==
  \E r \in Requests :
    /\ sel[r].model = m
    /\ sel[r].pc \in Busy
    /\ i < sel[r].next

Credit(m, i) ==
  heap[byName[Refs[m][i].backend]].currentWeight - (IF Earned(m, i) THEN SlotWeight(m, i) ELSE 0)

WRR(m) == INSTANCE SmoothWRR WITH
  K <- Len(Refs[m]),
  Weights <- [i \in 1..Len(Refs[m]) |-> SlotWeight(m, i)],
  credit <- [i \in 1..Len(Refs[m]) |-> Credit(m, i)],
  picks <- [i \in 1..Len(Refs[m]) |-> picks[m][Refs[m][i].backend]],
  turns <- Turns(m)

\* Selections made one at a time implement smooth weighted round-robin, for each
\* model (pool.go 50-82).  It is WRR(m)!Spec for every m, with the quantifier inside.
ImplementsSmoothWRR ==
  /\ \A m \in Models \ {NoModel} : WRR(m)!Init
  /\ [][\A m \in Models \ {NoModel} : [WRR(m)!Next]_(WRR(m)!vars)]_vars
=============================================================================
