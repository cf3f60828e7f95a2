----------------------- MODULE BackendRouting_proofs -----------------------
(***************************************************************************)
(* Proofs about BackendRouting, for every number of requests, backends,    *)
(* models and objects.                                                     *)
(***************************************************************************)
EXTENDS BackendRouting, SequenceTheorems, TLAPS

USE DEF Objects, Nil, Weight, ProbeState, Busy

\* A healthy object has an effective weight, whichever method touched it last,
\* unless the health checker is about to store it.
HealthCoherent ==
  /\ \A o \in Objects : heap[o].healthy => heap[o].effectiveWeight > 0 \/ Recovering(o)
  /\ probe.stored /\ probe.verdict = "down" => ~heap[probe.object].healthy

\* What a selection knows about the entries it has passed.
ScanOK(r) ==
  LET s == sel[r]
  IN  /\ s.next \in 1..(Len(s.pool) + 1)
      /\ s.best < s.next
      /\ s.best # 0 => s.total > 0
      /\ s.pc \in {"enabled", "weight", "credit", "accrue"} => s.next <= Len(s.pool)
      /\ s.pc \in {"charge", "chosen"} => s.best # 0
      /\ s.pc \in Busy \cup {"chosen"} /\ s.best # 0
           => s.pool[s.best].object \in everOK[r]
      /\ s.pc = "enabled" => s.pool[s.next].object \in everHealthy[r]
      /\ s.pc \in {"weight", "credit", "accrue"} => s.pool[s.next].object \in everOK[r]
      /\ s.pc \in Busy => alwaysOK[r] \subseteq PoolObjects(r)
      /\ s.pc \in Busy \ {"charge"} /\ s.best = 0
           => \A i \in 1..(s.next - 1) : s.pool[i].object \notin alwaysOK[r]
      /\ s.pc = "rejected" => alwaysOK[r] = {}

\* The inductive invariant.
Inv ==
  /\ TypeOK
  /\ RegistryConsistent
  /\ HealthCoherent
  /\ \A r \in Requests : ScanOK(r)

-----------------------------------------------------------------------------
(* The methods of Backend.                                                 *)

\* A method of Backend returns a Backend of the same name.
LEMMA BackendMethods ==
  ASSUME NEW b \in Backend
  PROVE  /\ \A h \in BOOLEAN : SetEnabled(b, h) \in Backend /\ SetEnabled(b, h).name = b.name
         /\ \A h \in BOOLEAN : StoreHealth(b, h) \in Backend /\ StoreHealth(b, h).name = b.name
         /\ \A h \in BOOLEAN : StoreWeight(b, h) \in Backend /\ StoreWeight(b, h).name = b.name
         /\ \A u \in URLs, w \in Weight, h \in BOOLEAN :
              UpdateConfig(b, u, w, h) \in Backend /\ UpdateConfig(b, u, w, h).name = b.name
         /\ MarkFailure(b) \in Backend /\ MarkFailure(b).name = b.name
         /\ MarkSuccess(b) \in Backend /\ MarkSuccess(b).name = b.name
         /\ \A c \in Int : [b EXCEPT !.currentWeight = c] \in Backend
<1>1. UnhealthyThreshold \in Nat \ {0}
  BY BackendsAssumption
<1>2. \A h \in BOOLEAN : SetEnabled(b, h) \in Backend /\ SetEnabled(b, h).name = b.name
  BY DEF SetEnabled, Backend
<1>3. \A h \in BOOLEAN : StoreHealth(b, h) \in Backend /\ StoreHealth(b, h).name = b.name
  BY DEF StoreHealth, Backend
<1>4. \A u \in URLs, w \in Weight, h \in BOOLEAN :
        UpdateConfig(b, u, w, h) \in Backend /\ UpdateConfig(b, u, w, h).name = b.name
  BY DEF UpdateConfig, Backend
<1>5. MarkFailure(b) \in Backend /\ MarkFailure(b).name = b.name
  BY <1>1 DEF MarkFailure, Backend
<1>6. MarkSuccess(b) \in Backend /\ MarkSuccess(b).name = b.name
  BY <1>1 DEF MarkSuccess, Backend
<1>7. \A c \in Int : [b EXCEPT !.currentWeight = c] \in Backend
  BY DEF Backend
<1>8. \A h \in BOOLEAN : StoreWeight(b, h) \in Backend /\ StoreWeight(b, h).name = b.name
  BY DEF StoreWeight, Backend
<1> QED
  BY <1>2, <1>3, <1>4, <1>5, <1>6, <1>7, <1>8

\* A new object is a Backend, and a weight that was raised is positive.
LEMMA NewBackends ==
  /\ \A n \in Names, u \in URLs, w \in Weight : NewBackend(n, u, w) \in Backend
  /\ \A w \in Int : ClampWeight(w) \in Weight
<1>1. \A n \in Names, u \in URLs, w \in Weight : NewBackend(n, u, w) \in Backend
  BY BackendsAssumption DEF NewBackend, Backend
<1>2. \A w \in Int : ClampWeight(w) \in Weight
  BY DEF ClampWeight, DefaultModelWeight
<1> QED
  BY <1>1, <1>2

\* Applying the answer to a probe makes a Backend of the same name.
LEMMA CheckedBackend ==
  ASSUME NEW b \in Backend, NEW v \in {"unbuilt", "up", "down"}
  PROVE  /\ Judged(b, v) \in Backend /\ Judged(b, v).name = b.name
         /\ Checked(b, v) \in Backend /\ Checked(b, v).name = b.name
<1>1. CASE v = "unbuilt"
  BY <1>1, BackendMethods DEF Checked, Judged
<1>2. CASE v = "up"
  <2>1. StoreWeight(b, TRUE) \in Backend /\ StoreWeight(b, TRUE).name = b.name
    BY BackendMethods
  <2>2. MarkSuccess(StoreWeight(b, TRUE)) \in Backend
        /\ MarkSuccess(StoreWeight(b, TRUE)).name = b.name
    BY <2>1, BackendMethods
  <2>3. Judged(b, v) \in Backend /\ Judged(b, v).name = b.name
    BY <1>2, BackendMethods DEF Judged
  <2> QED
    BY <1>2, <2>2, <2>3 DEF Checked
<1>3. CASE v = "down"
  <2>1. StoreWeight(b, FALSE) \in Backend /\ StoreWeight(b, FALSE).name = b.name
    BY BackendMethods
  <2>2. MarkFailure(StoreWeight(b, FALSE)) \in Backend
        /\ MarkFailure(StoreWeight(b, FALSE)).name = b.name
    BY <2>1, BackendMethods
  <2>3. Judged(b, v) \in Backend /\ Judged(b, v).name = b.name
    BY <1>3, BackendMethods DEF Judged
  <2> QED
    BY <1>3, <2>2, <2>3 DEF Checked
<1> QED
  BY <1>1, <1>2, <1>3

-----------------------------------------------------------------------------
(* Type correctness and the two indexes of the manager, which need each    *)
(* other: a removal finds its position because the indexes agree.          *)

\* The part of the type invariant that speaks of the histories.
HistoriesTyped ==
  /\ everHealthy \in [Requests -> SUBSET Objects]
  /\ everOK \in [Requests -> SUBSET Objects]
  /\ alwaysOK \in [Requests -> SUBSET Objects]

\* The histories are sets of objects.
LEMMA WatchType ==
  ASSUME Watch, TypeOK, sel' \in [Requests -> SelState]
  PROVE  HistoriesTyped'
<1>1. ASSUME NEW r \in Requests PROVE PoolObjects(r)' \subseteq Objects
  <2>1. sel'[r].pool \in Seq(Entry)
    BY <1>1 DEF SelState
  <2>2. \A i \in 1..Len(sel'[r].pool) : sel'[r].pool[i] \in Entry
    BY <2>1, ElementOfSeq
  <2>3. \A e \in Entry : e.object \in Objects
    BY DEF Entry
  <2> QED
    BY <2>2, <2>3 DEF PoolObjects
<1>2. \A r \in Requests : /\ Healthy(r)' \subseteq Objects /\ Enabled(r)' \subseteq Objects
                          /\ Steady(r)' \subseteq Objects
  BY <1>1 DEF Healthy, Enabled, Steady
<1>3. HistoriesTyped
  BY DEF TypeOK, HistoriesTyped
<1>4. everHealthy' \in [Requests -> SUBSET Objects]
  BY <1>2, <1>3 DEF Watch, HistoriesTyped
<1>5. everOK' \in [Requests -> SUBSET Objects]
  BY <1>2, <1>3 DEF Watch, HistoriesTyped
<1>6. alwaysOK' \in [Requests -> SUBSET Objects]
  BY <1>2, <1>3 DEF Watch, HistoriesTyped
<1> QED
  BY <1>4, <1>5, <1>6 DEF HistoriesTyped

\* Removing one position of a sequence shifts the rest.
LEMMA RemovePosition ==
  ASSUME NEW S, NEW s \in Seq(S), NEW i \in 1..Len(s)
  PROVE  /\ RemoveAt(s, i) \in Seq(S)
         /\ Len(RemoveAt(s, i)) = Len(s) - 1
         /\ \A j \in 1..(Len(s) - 1) : RemoveAt(s, i)[j] = s[IF j < i THEN j ELSE j + 1]
<1> DEFINE a == SubSeq(s, 1, i - 1)
           z == SubSeq(s, i + 1, Len(s))
<1>1. a \in Seq(S) /\ Len(a) = i - 1 /\ \A j \in 1..(i - 1) : a[j] = s[j]
  OBVIOUS
<1>2. z \in Seq(S) /\ Len(z) = Len(s) - i /\ \A j \in 1..(Len(s) - i) : z[j] = s[i + j]
  OBVIOUS
<1>3. RemoveAt(s, i) = a \o z
  BY DEF RemoveAt
<1> HIDE DEF a, z
<1>4. /\ a \o z \in Seq(S)
      /\ Len(a \o z) = Len(a) + Len(z)
      /\ \A j \in 1..(Len(a) + Len(z)) :
           (a \o z)[j] = IF j <= Len(a) THEN a[j] ELSE z[j - Len(a)]
  BY <1>1, <1>2, ConcatProperties
<1>5. Len(s) \in Nat /\ Len(a) + Len(z) = Len(s) - 1
  BY <1>1, <1>2
<1>6. ASSUME NEW j \in 1..(Len(s) - 1) PROVE (a \o z)[j] = s[IF j < i THEN j ELSE j + 1]
  <2>1. CASE j < i
    BY <1>1, <1>4, <1>5, <2>1
  <2>2. CASE ~(j < i)
    <3>1. /\ j \in 1..(Len(a) + Len(z)) /\ ~(j <= Len(a))
          /\ j - Len(a) \in 1..(Len(s) - i) /\ i + (j - Len(a)) = j + 1
      BY <1>1, <1>5, <2>2
    <3> QED
      BY <1>2, <1>4, <2>2, <3>1
  <2> QED
    BY <2>1, <2>2
<1> QED
  BY <1>3, <1>4, <1>5, <1>6

\* The manager's operations keep the types: an index of the list or of the map is
\* an object in use, before and after.
LEMMA TypeOfAdminStep ==
  ASSUME TypeOK, RegistryConsistent, AdminStep
  PROVE  TypeOK'
<1>1. /\ heap \in [Objects -> Backend] /\ used \in 0..MaxObjects
      /\ byName \in [Names -> 0..used] /\ list \in Seq(1..used)
      /\ todo \in Seq(1..used) /\ adminOps \in 0..MaxAdmin /\ MaxObjects \in Nat
      /\ MaxAdmin \in Nat /\ InputWeights \subseteq Int
      /\ probe \in ProbeState
  BY RoutingAssumption DEF TypeOK
<1>2. Watch /\ sel' = sel /\ adminOps' = adminOps + 1 /\ adminOps < MaxAdmin
  BY DEF AdminStep, UpsertBackend, RemoveBackend, SetBackendEnabled
<1>3. HistoriesTyped'
  <2>1. sel' \in [Requests -> SelState]
    BY <1>2 DEF TypeOK
  <2> QED
    BY <1>2, <2>1, WatchType
<1>4. adminOps' \in 0..MaxAdmin
  BY <1>1, <1>2
<1>5. ASSUME NEW n \in Names, NEW u \in URLs, NEW w \in InputWeights, UpsertBackend(n, u, w)
      PROVE  TypeOK'
  <2>1. ClampWeight(w) \in Weight
    BY <1>1, NewBackends
  <2>2. CASE byName[n] # Nil /\ UNCHANGED managerVars
    <3>1. byName[n] \in Objects
      BY <1>1, <2>2
    <3>2. \A h \in BOOLEAN :
            SetEnabled(UpdateConfig(heap[byName[n]], u, ClampWeight(w), h), TRUE) \in Backend
      BY <1>1, <2>1, <3>1, BackendMethods
    <3>3. \E h \in BOOLEAN :
            heap' = [heap EXCEPT ![byName[n]] =
                       SetEnabled(UpdateConfig(heap[byName[n]], u, ClampWeight(w), h), TRUE)]
      BY <1>5, <2>2 DEF UpsertBackend
    <3>4. heap' \in [Objects -> Backend]
      BY <1>1, <3>1, <3>2, <3>3
    <3> QED
      BY <1>3, <1>4, <1>5, <2>2, <3>4 DEF UpsertBackend, managerVars, checkerVars, TypeOK, HistoriesTyped
  <2>3. CASE byName[n] = Nil /\ used < MaxObjects /\ used' = used + 1
    <3>0. /\ heap' = [heap EXCEPT ![used + 1] = NewBackend(n, u, ClampWeight(w))]
          /\ list' = Append(list, used + 1)
          /\ byName' = [byName EXCEPT ![n] = used + 1]
      BY <1>5, <2>3 DEF UpsertBackend
    <3>1. NewBackend(n, u, ClampWeight(w)) \in Backend
      BY <2>1, NewBackends
    <3>2. heap' \in [Objects -> Backend]
      BY <1>1, <2>3, <3>0, <3>1
    <3>3. /\ used' \in 0..MaxObjects /\ used + 1 \in 1..used'
          /\ 0..used \subseteq 0..used' /\ 1..used \subseteq 1..used'
      BY <1>1, <2>3
    <3>4. byName' \in [Names -> 0..used']
      BY <1>1, <3>0, <3>3
    <3>5. list \in Seq(1..used') /\ todo \in Seq(1..used')
      BY <1>1, <3>3, SeqMonotonic
    <3>6. list' \in Seq(1..used')
      BY <3>0, <3>3, <3>5
    <3>7. probe \in ProbeState'
      BY <1>1, <3>3
    <3> QED
      BY <1>3, <1>4, <1>5, <3>2, <3>3, <3>4, <3>5, <3>6, <3>7
      DEF UpsertBackend, checkerVars, TypeOK, HistoriesTyped
  <2> QED
    BY <1>5, <2>2, <2>3 DEF UpsertBackend
<1>6. ASSUME NEW n \in Names, RemoveBackend(n) PROVE TypeOK'
  <2>1. byName[n] # Nil
    BY <1>6 DEF RemoveBackend
  <2>2. \E i \in 1..Len(list) : heap[list[i]].name = n
    BY <1>6, <2>1 DEF RegistryConsistent
  <2>3. PICK i \in 1..Len(list) : list' = RemoveAt(list, i)
    BY <1>6, <2>2 DEF RemoveBackend, Filtered
  <2>4. list' \in Seq(1..used)
    BY <1>1, <2>3, RemovePosition
  <2>5. byName' \in [Names -> 0..used]
    BY <1>1, <1>6 DEF RemoveBackend
  <2> QED
    BY <1>3, <1>4, <1>6, <2>4, <2>5 DEF RemoveBackend, checkerVars, TypeOK, HistoriesTyped
<1>7. ASSUME NEW o \in Objects, NEW e \in BOOLEAN, SetBackendEnabled(o, e) PROVE TypeOK'
  <2>1. SetEnabled(heap[o], e) \in Backend
    BY <1>1, BackendMethods
  <2>2. heap' \in [Objects -> Backend]
    BY <1>1, <1>7, <2>1 DEF SetBackendEnabled
  <2> QED
    BY <1>3, <1>4, <1>7, <2>2 DEF SetBackendEnabled, managerVars, checkerVars, TypeOK, HistoriesTyped
<1> QED
  BY <1>5, <1>6, <1>7 DEF AdminStep

\* The health checker keeps the types: it only holds objects in use.
LEMMA TypeOfCheckerStep ==
  ASSUME TypeOK, CheckerStep
  PROVE  TypeOK'
<1>1. /\ heap \in [Objects -> Backend] /\ used \in 0..MaxObjects
      /\ list \in Seq(1..used) /\ todo \in Seq(1..used) /\ MaxObjects \in Nat
      /\ probe \in ProbeState
  BY RoutingAssumption DEF TypeOK
<1>2. Watch /\ sel' = sel
  BY DEF CheckerStep, StartCycle, Probe, ApplyHealth, ApplyWeight
<1>3. HistoriesTyped'
  <2>1. sel' \in [Requests -> SelState]
    BY <1>2 DEF TypeOK
  <2> QED
    BY <1>2, <2>1, WatchType
<1>4. CASE StartCycle
  BY <1>3, <1>4 DEF StartCycle, managerVars, boundVars, TypeOK, HistoriesTyped
<1>5. CASE Probe
  <2>1. Head(todo) \in 1..used /\ Tail(todo) \in Seq(1..used)
    BY <1>1, <1>5 DEF Probe
  <2>2. Verdict(heap[Head(todo)].url) \in {"unbuilt", "up", "down"}
    BY DEF Verdict
  <2>3. probe' \in ProbeState
    BY <1>1, <1>5, <2>1, <2>2 DEF Probe
  <2> QED
    BY <1>3, <1>5, <2>1, <2>3 DEF Probe, managerVars, boundVars, TypeOK, HistoriesTyped
<1>6. CASE ApplyHealth
  <2>1. probe.object \in Objects /\ probe.object \in 1..used
        /\ probe.verdict \in {"unbuilt", "up", "down"}
    BY <1>1, <1>6 DEF ApplyHealth, ProbeState
  <2>2. Judged(heap[probe.object], probe.verdict) \in Backend
    BY <1>1, <2>1, CheckedBackend
  <2>3. heap' \in [Objects -> Backend]
    BY <1>1, <1>6, <2>1, <2>2 DEF ApplyHealth
  <2>4. probe' \in ProbeState
    BY <1>1, <1>6, <2>1 DEF ApplyHealth, ProbeState
  <2> QED
    BY <1>3, <1>6, <2>3, <2>4 DEF ApplyHealth, managerVars, boundVars, TypeOK, ProbeState, HistoriesTyped
<1>7. CASE ApplyWeight
  <2>1. probe.object \in Objects /\ probe.verdict \in {"unbuilt", "up", "down"}
    BY <1>1, <1>7 DEF ApplyWeight, ProbeState, NoProbe
  <2>2. Checked(heap[probe.object], probe.verdict) \in Backend
    BY <1>1, <2>1, CheckedBackend
  <2>3. heap' \in [Objects -> Backend]
    BY <1>1, <1>7, <2>1, <2>2 DEF ApplyWeight
  <2>4. probe' \in ProbeState
    BY <1>7 DEF ApplyWeight, ProbeState
  <2> QED
    BY <1>3, <1>7, <2>3, <2>4 DEF ApplyWeight, managerVars, boundVars, TypeOK, ProbeState, HistoriesTyped
<1> QED
  BY <1>4, <1>5, <1>6, <1>7 DEF CheckerStep

\* The entries of a fresh pool are objects in use, with positive weights.
LEMMA PoolType ==
  ASSUME TypeOK, NEW m \in Models, ~UnknownBackend(m)
  PROVE  Entries(m) \in Seq(Entry)
<1>1. /\ heap \in [Objects -> Backend] /\ used \in 0..MaxObjects /\ MaxObjects \in Nat
      /\ byName \in [Names -> 0..used] /\ list \in Seq(1..used)
  BY RoutingAssumption DEF TypeOK
<1>2. CASE m = NoModel
  <2>1. \A i \in 1..Len(list) : list[i] \in Objects
    BY <1>1, ElementOfSeq
  <2>2. \A b \in Backend : b.weight \in Weight
    BY DEF Backend
  <2>3. \A i \in 1..Len(list) : DefaultEntries[i] \in Entry
    BY <1>1, <2>1, <2>2 DEF DefaultEntries, Entry
  <2>4. Len(list) \in Nat
    BY <1>1
  <2>5. DefaultEntries \in [1..Len(list) -> Entry]
    BY <2>3 DEF DefaultEntries
  <2> QED
    BY <1>2, <2>4, <2>5 DEF Entries
<1>3. CASE m # NoModel
  <2>1. Refs[m] \in Seq(Ref)
    BY <1>3, RoutingAssumption
  <2>2. \A i \in 1..Len(Refs[m]) : Refs[m][i] \in Ref
    BY <2>1, ElementOfSeq
  <2>3. \A i \in 1..Len(Refs[m]) : byName[Refs[m][i].backend] \in Objects
    BY <1>1, <1>3, <2>2 DEF UnknownBackend, Ref
  <2>4. \A i \in 1..Len(Refs[m]) : ClampWeight(Refs[m][i].weight) \in Weight
    BY <2>2, NewBackends DEF Ref
  <2>5. \A i \in 1..Len(Refs[m]) : RefEntries(m)[i] \in Entry
    BY <2>3, <2>4 DEF RefEntries, Entry
  <2>6. Len(Refs[m]) \in Nat
    BY <2>1
  <2>7. RefEntries(m) \in [1..Len(Refs[m]) -> Entry]
    BY <2>5 DEF RefEntries
  <2> QED
    BY <1>3, <2>6, <2>7 DEF Entries
<1> QED
  BY <1>2, <1>3

\* The updates that a request makes of its locals.
LEMMA SelUpdates ==
  /\ \A m \in Models : Locals("failed", m, <<>>) \in SelState
  /\ \A m \in Models, p \in Seq(Entry) :
       Locals("scan", m, p) \in SelState
  /\ \A s \in SelState, c \in Int : [s EXCEPT !.pc = "accrue", !.reg = c] \in SelState
  /\ \A s \in SelState : [s EXCEPT !.pc = "scan", !.next = s.next + 1] \in SelState
  /\ \A s \in SelState, p \in {"enabled", "weight", "credit"} : [s EXCEPT !.pc = p] \in SelState
  /\ \A s \in SelState, c \in Int : [s EXCEPT !.pc = "charge", !.reg = c] \in SelState
  /\ \A s \in SelState : [s EXCEPT !.pc = "rejected"] \in SelState
  /\ \A s \in SelState : [s EXCEPT !.pc = "chosen"] \in SelState
  /\ \A s \in SelState, t \in Nat, g \in Nat, w \in Int :
       [s EXCEPT !.pc = "scan", !.next = s.next + 1, !.total = t,
                 !.best = g, !.bestWeight = w] \in SelState
<1>1. <<>> \in Seq(Entry)
  OBVIOUS
<1>2. \A m \in Models : Locals("failed", m, <<>>) \in SelState
  BY <1>1 DEF Locals, SelState
<1>3. \A m \in Models, p \in Seq(Entry) : Locals("scan", m, p) \in SelState
  BY DEF Locals, SelState
<1>4. \A s \in SelState, c \in Int : [s EXCEPT !.pc = "accrue", !.reg = c] \in SelState
  BY DEF SelState
<1>5. \A s \in SelState : [s EXCEPT !.pc = "scan", !.next = s.next + 1] \in SelState
  <2>1. \A s \in SelState : [s EXCEPT !.pc = "scan"] \in SelState
    BY DEF SelState
  <2>2. \A s \in SelState, k \in Nat : [s EXCEPT !.next = k] \in SelState
    BY DEF SelState
  <2>3. ASSUME NEW s \in SelState
        PROVE  /\ s.next + 1 \in Nat
               /\ [s EXCEPT !.pc = "scan", !.next = s.next + 1]
                    = [[s EXCEPT !.pc = "scan"] EXCEPT !.next = s.next + 1]
    BY DEF SelState
  <2> QED
    BY <2>1, <2>2, <2>3
<1>10. \A s \in SelState, p \in {"enabled", "weight", "credit"} : [s EXCEPT !.pc = p] \in SelState
  BY DEF SelState
<1>6. \A s \in SelState, c \in Int : [s EXCEPT !.pc = "charge", !.reg = c] \in SelState
  BY DEF SelState
<1>7. \A s \in SelState : [s EXCEPT !.pc = "rejected"] \in SelState
  BY DEF SelState
<1>8. \A s \in SelState : [s EXCEPT !.pc = "chosen"] \in SelState
  BY DEF SelState
<1>9. \A s \in SelState, t \in Nat, g \in Nat, w \in Int :
       [s EXCEPT !.pc = "scan", !.next = s.next + 1, !.total = t,
                 !.best = g, !.bestWeight = w] \in SelState
  <2> SUFFICES ASSUME NEW s \in SelState, NEW t \in Nat, NEW g \in Nat, NEW w \in Int
               PROVE  [s EXCEPT !.pc = "scan", !.next = s.next + 1, !.total = t,
                                !.best = g, !.bestWeight = w] \in SelState
    OBVIOUS
  <2>1. \A q \in SelState : [q EXCEPT !.pc = "scan"] \in SelState
    BY DEF SelState
  <2>2. \A q \in SelState, k \in Nat : [q EXCEPT !.next = k] \in SelState
    BY DEF SelState
  <2>3. \A q \in SelState : [q EXCEPT !.total = t] \in SelState
    BY DEF SelState
  <2>4. \A q \in SelState : [q EXCEPT !.best = g] \in SelState
    BY DEF SelState
  <2>5. \A q \in SelState : [q EXCEPT !.bestWeight = w] \in SelState
    BY DEF SelState
  <2>6. s.next + 1 \in Nat
    BY DEF SelState
  <2>7. [s EXCEPT !.pc = "scan", !.next = s.next + 1, !.total = t,
                  !.best = g, !.bestWeight = w] =
          [[[[[s EXCEPT !.pc = "scan"] EXCEPT !.next = s.next + 1]
              EXCEPT !.total = t] EXCEPT !.best = g] EXCEPT !.bestWeight = w]
    OBVIOUS
  <2> QED
    BY <2>1, <2>2, <2>3, <2>4, <2>5, <2>6, <2>7
<1> QED
  BY <1>2, <1>3, <1>4, <1>5, <1>6, <1>7, <1>8, <1>9, <1>10

\* One of the three loads that test an entry of r's pool, made at location at.
Tested(r, at) ==
  /\ Entered(r, at) /\ Watch /\ heap' = heap /\ probe' = probe /\ picks' = picks
  /\ UNCHANGED <<managerVars, checkerVars, reachable, boundVars>>

\* An entry's test either lets the next field be loaded or skips the entry.
LEMMA TestCases ==
  ASSUME TypeOK, NEW r \in Requests, LoadHealthy(r) \/ LoadEnabled(r) \/ LoadWeight(r)
  PROVE  LET o == Current(r).object
         IN  \/ /\ Tested(r, "scan")
                /\ \/ heap[o].healthy /\ Pass(r, "enabled")
                   \/ ~heap[o].healthy /\ Skip(r)
             \/ /\ Tested(r, "enabled")
                /\ \/ heap[o].enabled /\ Pass(r, "weight")
                   \/ ~heap[o].enabled /\ Skip(r)
             \/ /\ Tested(r, "weight")
                /\ \/ heap[o].effectiveWeight > 0 /\ Pass(r, "credit")
                   \/ ~(heap[o].effectiveWeight > 0) /\ Skip(r)
<1>1. CASE LoadHealthy(r)
  BY <1>1 DEF LoadHealthy, Tested, checkerVars
<1>2. CASE LoadEnabled(r)
  BY <1>2 DEF LoadEnabled, Tested, checkerVars
<1>3. CASE LoadWeight(r)
  BY <1>3 DEF LoadWeight, Tested, checkerVars
<1> QED
  BY <1>1, <1>2, <1>3

\* A request's steps keep the types: every entry of its pool is an object.
LEMMA TypeOfRequestStep ==
  ASSUME TypeOK, \A q \in Requests : ScanOK(q), NEW r \in Requests, RequestStep(r)
  PROVE  TypeOK'
<1>1. /\ heap \in [Objects -> Backend] /\ sel \in [Requests -> SelState]
      /\ served \in 0..MaxRequests /\ MaxRequests \in Nat
      /\ picks \in [Models -> [Names -> Nat]] /\ ScanOK(r)
  BY RoutingAssumption DEF TypeOK
<1>2. Watch
  BY DEF RequestStep, BuildPool, Visit, LoadHealthy, LoadEnabled,
     LoadWeight, LoadCredit, Pass, Skip, Accrue, EndScan, Charge
<1>3. sel[r] \in SelState /\ sel[r].pool \in Seq(Entry)
  BY <1>1 DEF SelState
<1>4. \A i \in 1..Len(sel[r].pool) :
        sel[r].pool[i].object \in Objects /\ sel[r].pool[i].weight \in Weight
  <2>1. \A i \in 1..Len(sel[r].pool) : sel[r].pool[i] \in Entry
    BY <1>3, ElementOfSeq
  <2> QED
    BY <2>1 DEF Entry
<1>5. SUFFICES ASSUME sel' \in [Requests -> SelState] => HistoriesTyped'
               PROVE  TypeOK'
  BY <1>2, WatchType
<1>5b. sel[r].best # 0 => sel[r].best \in 1..Len(sel[r].pool)
  <2>1. sel[r].best \in Nat /\ sel[r].next \in Nat /\ Len(sel[r].pool) \in Nat
    BY <1>3 DEF SelState
  <2>2. sel[r].next \in 1..(Len(sel[r].pool) + 1) /\ sel[r].best < sel[r].next
    BY <1>1 DEF ScanOK
  <2> QED
    BY <2>1, <2>2
<1>6. ASSUME NEW m \in Models, BuildPool(r, m) PROVE TypeOK'
  <2>1. Locals("failed", m, <<>>) \in SelState
    BY SelUpdates
  <2>2. ~UnknownBackend(m) =>
          Locals("scan", m, Entries(m)) \in SelState
    BY PoolType, SelUpdates
  <2>3. sel' \in [Requests -> SelState]
    BY <1>1, <1>6, <2>1, <2>2 DEF BuildPool
  <2>4. served' \in 0..MaxRequests
    BY <1>1, <1>6 DEF BuildPool
  <2> QED
    BY <1>5, <1>6, <2>3, <2>4 DEF BuildPool, managerVars, checkerVars, TypeOK, HistoriesTyped
<1>7. CASE LoadHealthy(r) \/ LoadEnabled(r) \/ LoadWeight(r)
  <2>1. Skip(r) \/ \E then \in {"enabled", "weight", "credit"} : Pass(r, then)
    BY <1>7, TestCases
  <2>2. /\ [sel[r] EXCEPT !.pc = "scan", !.next = sel[r].next + 1] \in SelState
        /\ \A then \in {"enabled", "weight", "credit"} : [sel[r] EXCEPT !.pc = then] \in SelState
    BY <1>3, SelUpdates
  <2>3. ASSUME Skip(r) PROVE sel' \in [Requests -> SelState]
    <3> DEFINE x == [sel[r] EXCEPT !.pc = "scan", !.next = sel[r].next + 1]
    <3>1. sel' = [sel EXCEPT ![r] = x]
      BY <1>1, <2>3 DEF Skip
    <3>2. x \in SelState
      BY <2>2
    <3> HIDE DEF x
    <3> QED
      BY <1>1, <3>1, <3>2
  <2>4. ASSUME NEW then \in {"enabled", "weight", "credit"}, Pass(r, then)
        PROVE  sel' \in [Requests -> SelState]
    <3>1. sel' = [sel EXCEPT ![r] = [sel[r] EXCEPT !.pc = then]]
      BY <1>1, <2>4 DEF Pass
    <3> QED
      BY <1>1, <2>2, <3>1
  <2>5. /\ heap' = heap /\ picks' = picks
        /\ UNCHANGED <<managerVars, checkerVars, reachable, boundVars>>
    BY <1>7, TestCases DEF Tested
  <2>6. sel' \in [Requests -> SelState]
    BY <2>1, <2>3, <2>4
  <2> QED
    BY <1>5, <2>5, <2>6 DEF managerVars, checkerVars, boundVars, TypeOK, HistoriesTyped
<1>12. CASE LoadCredit(r)
  <2>1. Current(r).object \in Objects
    <3>1. sel[r].pc = "credit"
      BY <1>12 DEF LoadCredit
    <3>2. sel[r].next \in 1..(Len(sel[r].pool) + 1) /\ sel[r].next <= Len(sel[r].pool)
      BY <1>1, <3>1 DEF ScanOK
    <3>3. Len(sel[r].pool) \in Nat
      BY <1>3
    <3>4. sel[r].next \in 1..Len(sel[r].pool)
      BY <3>2, <3>3
    <3> QED
      BY <1>4, <3>4 DEF Current
  <2>2. heap[Current(r).object].currentWeight \in Int
    BY <1>1, <2>1 DEF Backend
  <2>3. sel' \in [Requests -> SelState]
    <3> DEFINE c == heap[Current(r).object].currentWeight
    <3>1. [sel[r] EXCEPT !.pc = "accrue", !.reg = c] \in SelState
      BY <1>3, <2>2, SelUpdates
    <3>2. sel' = [sel EXCEPT ![r] = [sel[r] EXCEPT !.pc = "accrue", !.reg = c]]
      BY <1>1, <1>12 DEF LoadCredit
    <3> QED
      BY <1>1, <3>1, <3>2
  <2> QED
    BY <1>5, <1>12, <2>3 DEF LoadCredit, managerVars, checkerVars, boundVars, TypeOK, HistoriesTyped
<1>8. CASE Accrue(r)
  <2>1. Current(r).object \in Objects /\ Current(r).weight \in Weight
    <3>1. sel[r].pc = "accrue"
      BY <1>8 DEF Accrue
    <3>2. sel[r].next \in 1..(Len(sel[r].pool) + 1) /\ sel[r].next <= Len(sel[r].pool)
      BY <1>1, <3>1 DEF ScanOK
    <3>3. Len(sel[r].pool) \in Nat
      BY <1>3
    <3>4. sel[r].next \in 1..Len(sel[r].pool)
      BY <3>2, <3>3
    <3> QED
      BY <1>4, <3>4 DEF Current
  <2>2. sel[r].reg + Current(r).weight \in Int /\ sel[r].total + Current(r).weight \in Nat
    BY <1>3, <2>1 DEF SelState
  <2>3. heap' \in [Objects -> Backend]
    <3>1. [heap[Current(r).object] EXCEPT !.currentWeight = sel[r].reg + Current(r).weight]
            \in Backend
      BY <1>1, <2>1, <2>2, BackendMethods
    <3> QED
      BY <1>1, <1>8, <2>1, <3>1 DEF Accrue
  <2>4. sel' \in [Requests -> SelState]
    <3> DEFINE s == sel[r]
               raised == s.reg + Current(r).weight
    <3>1. (IF Beats(s, raised) THEN s.next ELSE s.best) \in Nat
      BY <1>3 DEF SelState
    <3>2. (IF Beats(s, raised) THEN raised ELSE s.bestWeight) \in Int
      BY <1>3, <2>2 DEF SelState
    <3>3. sel' = [sel EXCEPT ![r] =
             [s EXCEPT !.pc = "scan", !.next = s.next + 1,
                       !.total = s.total + Current(r).weight,
                       !.best = IF Beats(s, raised) THEN s.next ELSE s.best,
                       !.bestWeight = IF Beats(s, raised) THEN raised ELSE s.bestWeight]]
      BY <1>8 DEF Accrue
    <3> QED
      BY <1>1, <1>3, <2>2, <3>1, <3>2, <3>3, SelUpdates
  <2> QED
    BY <1>5, <1>8, <2>3, <2>4 DEF Accrue, managerVars, checkerVars, boundVars, TypeOK, HistoriesTyped
<1>9. CASE EndScan(r)
  <2>1. sel[r].best # 0 => sel[r].pool[sel[r].best].object \in Objects
    BY <1>4, <1>5b
  <2>2. sel[r].best # 0 => heap[sel[r].pool[sel[r].best].object].currentWeight \in Int
    BY <1>1, <2>1 DEF Backend
  <2>3. sel' \in [Requests -> SelState]
    BY <1>1, <1>3, <1>9, <2>2, SelUpdates DEF EndScan
  <2> QED
    BY <1>5, <1>9, <2>3 DEF EndScan, managerVars, checkerVars, boundVars, TypeOK, HistoriesTyped
<1>10. CASE Charge(r)
  <2>1. sel[r].pool[sel[r].best].object \in Objects
    BY <1>1, <1>4, <1>10, <1>5b DEF Charge, ScanOK
  <2>2. sel[r].reg - Price(sel[r]) \in Int
    BY <1>3 DEF SelState, Price
  <2>3. heap' \in [Objects -> Backend]
    <3>1. [heap[sel[r].pool[sel[r].best].object] EXCEPT
             !.currentWeight = sel[r].reg - Price(sel[r])] \in Backend
      BY <1>1, <2>1, <2>2, BackendMethods
    <3> QED
      BY <1>1, <1>10, <2>1, <3>1 DEF Charge
  <2>4. sel' \in [Requests -> SelState]
    <3>1. sel' = [sel EXCEPT ![r] = [sel[r] EXCEPT !.pc = "chosen"]]
      BY <1>1, <1>10 DEF Charge
    <3> QED
      BY <1>1, <1>3, <3>1, SelUpdates
  <2>5. picks' \in [Models -> [Names -> Nat]]
    <3> DEFINE m == sel[r].model
               n == heap[sel[r].pool[sel[r].best].object].name
    <3>1. picks' = [picks EXCEPT ![m] = [picks[m] EXCEPT ![n] = picks[m][n] + 1]]
      BY <1>10 DEF Charge
    <3>3. n \in Names
      BY <1>1, <2>1 DEF Backend
    <3> HIDE DEF m, n
    <3>2. ASSUME m \in Models
          PROVE  [picks[m] EXCEPT ![n] = picks[m][n] + 1] \in [Names -> Nat]
      BY <1>1, <3>2, <3>3
    <3> QED
      BY <1>1, <3>1, <3>2
  <2> QED
    BY <1>5, <1>10, <2>3, <2>4, <2>5 DEF Charge, managerVars, checkerVars, boundVars, TypeOK, HistoriesTyped
<1> QED
  BY <1>6, <1>7, <1>8, <1>9, <1>10, <1>12 DEF RequestStep, Visit

\* A change of the network keeps the types.
LEMMA TypeOfFlip ==
  ASSUME TypeOK, NEW u \in URLs, Flip(u)
  PROVE  TypeOK'
<1>1. Watch /\ sel' = sel /\ sel \in [Requests -> SelState]
  BY DEF Flip, TypeOK
<1>2. HistoriesTyped'
  BY <1>1, WatchType
<1>3. reachable' \subseteq URLs /\ flips' \in 0..MaxFlips
  BY RoutingAssumption DEF Flip, TypeOK
<1> QED
  BY <1>2, <1>3 DEF Flip, managerVars, checkerVars, TypeOK, HistoriesTyped

\* Every step keeps the types.
LEMMA TypeStep ==
  ASSUME Inv, [Next]_vars
  PROVE  TypeOK'
<1> USE DEF Inv
<1>1. CASE AdminStep
  BY <1>1, TypeOfAdminStep
<1>2. CASE CheckerStep
  BY <1>2, TypeOfCheckerStep
<1>3. ASSUME NEW u \in URLs, Flip(u) PROVE TypeOK'
  BY <1>3, TypeOfFlip
<1>4. ASSUME NEW r \in Requests, RequestStep(r) PROVE TypeOK'
  BY <1>4, TypeOfRequestStep
<1>5. CASE UNCHANGED vars
  BY <1>5 DEF vars, TypeOK
<1> QED
  BY <1>1, <1>2, <1>3, <1>4, <1>5 DEF Next

-----------------------------------------------------------------------------
(* The registry.                                                           *)

\* A step that keeps the indexes, and the names of the objects in use.
LEMMA RegistryKept ==
  ASSUME TypeOK, RegistryConsistent, UNCHANGED managerVars,
         \A o \in 1..used : heap'[o].name = heap[o].name
  PROVE  RegistryConsistent'
<1>1. /\ list' = list /\ byName' = byName /\ used \in Nat
      /\ list \in Seq(1..used) /\ byName \in [Names -> 0..used]
  BY DEF managerVars, TypeOK
<1>2. \A i \in 1..Len(list) : list[i] \in 1..used
  BY <1>1, ElementOfSeq
<1>3. \A n \in Names : byName[n] # Nil => byName[n] \in 1..used
  BY <1>1
<1> QED
  BY ZenonT(60), <1>1, <1>2, <1>3 DEF RegistryConsistent

\* Upserts and removals keep the two indexes in agreement: a new object enters
\* both, a removed one leaves both.
LEMMA RegistryOfAdminStep ==
  ASSUME TypeOK, RegistryConsistent, AdminStep
  PROVE  RegistryConsistent'
<1>1. /\ heap \in [Objects -> Backend] /\ used \in 0..MaxObjects
      /\ byName \in [Names -> 0..used] /\ list \in Seq(1..used)
      /\ MaxObjects \in Nat /\ InputWeights \subseteq Int
  BY RoutingAssumption DEF TypeOK
<1>2. \A i \in 1..Len(list) : list[i] \in 1..used /\ list[i] \in Objects
  BY <1>1, ElementOfSeq
<1>3. ASSUME NEW n \in Names, NEW u \in URLs, NEW w \in InputWeights, UpsertBackend(n, u, w)
      PROVE  RegistryConsistent'
  <2>1. ClampWeight(w) \in Weight
    BY <1>1, NewBackends
  <2>2. CASE byName[n] # Nil /\ UNCHANGED managerVars
    <3>1. byName[n] \in Objects
      BY <1>1, <2>2
    <3>2. \A h \in BOOLEAN :
            /\ UpdateConfig(heap[byName[n]], u, ClampWeight(w), h) \in Backend
            /\ UpdateConfig(heap[byName[n]], u, ClampWeight(w), h).name = heap[byName[n]].name
      BY <1>1, <2>1, <3>1, BackendMethods
    <3>3. \A h \in BOOLEAN :
            SetEnabled(UpdateConfig(heap[byName[n]], u, ClampWeight(w), h), TRUE).name
              = heap[byName[n]].name
      BY <3>2, BackendMethods
    <3>4. \E h \in BOOLEAN :
            heap' = [heap EXCEPT ![byName[n]] =
                       SetEnabled(UpdateConfig(heap[byName[n]], u, ClampWeight(w), h), TRUE)]
      BY <1>3, <2>2 DEF UpsertBackend
    <3>5. PICK b : /\ heap' = [heap EXCEPT ![byName[n]] = b]
                   /\ b.name = heap[byName[n]].name
      BY <3>3, <3>4
    <3>6. \A o \in 1..used : heap'[o].name = heap[o].name
      BY <1>1, <3>1, <3>5
    <3> QED
      BY <2>2, <3>6, RegistryKept
  <2>3. CASE byName[n] = Nil /\ used < MaxObjects /\ used' = used + 1
    <3>1. /\ heap' = [heap EXCEPT ![used + 1] = NewBackend(n, u, ClampWeight(w))]
          /\ list' = Append(list, used + 1)
          /\ byName' = [byName EXCEPT ![n] = used + 1]
      BY <1>3, <2>3 DEF UpsertBackend
    <3>2. used + 1 \in Objects /\ Len(list) \in Nat
      BY <1>1, <2>3
    <3>3. heap'[used + 1].name = n
      BY <1>1, <3>1, <3>2 DEF NewBackend
    <3>4. \A o \in 1..used : heap'[o].name = heap[o].name
      BY <1>1, <3>1
    <3>5. /\ Len(list') = Len(list) + 1
          /\ \A i \in 1..Len(list) : list'[i] = list[i]
          /\ list'[Len(list) + 1] = used + 1
      BY <1>1, <3>1, AppendProperties
    <3>6. \A i \in 1..Len(list') : i \in 1..Len(list) \/ i = Len(list) + 1
      BY <3>2, <3>5
    <3>7. ASSUME NEW i \in 1..Len(list'), NEW j \in 1..Len(list'), list'[i] = list'[j]
          PROVE  i = j
      <4>1. \A k \in 1..Len(list) : list'[k] # used + 1
        <5>1. \A k \in 1..Len(list) : list[k] # used + 1
          BY <1>1, <1>2
        <5> QED
          BY <3>5, <5>1
      <4>2. CASE i \in 1..Len(list) /\ j \in 1..Len(list)
        BY <3>5, <3>7, <4>2 DEF RegistryConsistent
      <4>3. CASE i = Len(list) + 1 \/ j = Len(list) + 1
        BY <3>5, <3>6, <3>7, <4>1, <4>3
      <4> QED
        BY <3>6, <4>2, <4>3
    <3>8. ASSUME NEW i \in 1..Len(list') PROVE byName'[heap'[list'[i]].name] = list'[i]
      <4>1. CASE i \in 1..Len(list)
        <5>1. byName[heap[list[i]].name] = list[i] /\ heap[list[i]].name \in Names
          BY <1>1, <1>2, <4>1 DEF RegistryConsistent, Backend
        <5>2. heap[list[i]].name # n
          BY <1>1, <1>2, <2>3, <4>1, <5>1
        <5> QED
          BY <1>1, <1>2, <3>1, <3>4, <3>5, <4>1, <5>1, <5>2
      <4>2. CASE i = Len(list) + 1
        BY <1>1, <3>1, <3>3, <3>5, <4>2
      <4> QED
        BY <3>6, <4>1, <4>2
    <3>9. ASSUME NEW k \in Names, byName'[k] # Nil
          PROVE  /\ heap'[byName'[k]].name = k
                 /\ \E i \in 1..Len(list') : list'[i] = byName'[k]
      <4>1. CASE k = n
        <5>1. byName'[k] = used + 1
          BY <1>1, <3>1, <4>1
        <5>2. Len(list) + 1 \in 1..Len(list')
          BY <3>2, <3>5
        <5> QED
          BY <3>3, <3>5, <4>1, <5>1, <5>2
      <4>2. CASE k # n
        <5>1. byName'[k] = byName[k] /\ byName[k] \in 1..used
          BY <1>1, <3>1, <3>9, <4>2
        <5>2. heap[byName[k]].name = k /\ \E i \in 1..Len(list) : list[i] = byName[k]
          BY <3>9, <5>1 DEF RegistryConsistent
        <5> QED
          BY <3>2, <3>4, <3>5, <5>1, <5>2
      <4> QED
        BY <4>1, <4>2
    <3> QED
      BY <3>7, <3>8, <3>9 DEF RegistryConsistent
  <2> QED
    BY <1>3, <2>2, <2>3 DEF UpsertBackend
<1>4. ASSUME NEW n \in Names, RemoveBackend(n) PROVE RegistryConsistent'
  <2>1. byName[n] # Nil /\ heap' = heap /\ byName' = [byName EXCEPT ![n] = Nil]
    BY <1>4 DEF RemoveBackend
  <2>2. \E i \in 1..Len(list) : heap[list[i]].name = n
    BY <1>4, <2>1 DEF RegistryConsistent
  <2>3. PICK i \in 1..Len(list) : heap[list[i]].name = n /\ list' = RemoveAt(list, i)
    BY <1>4, <2>2 DEF RemoveBackend, Filtered
  <2>4. Len(list) \in Nat /\ list[i] = byName[n]
    BY <1>1, <2>3 DEF RegistryConsistent
  <2>5. /\ Len(list') = Len(list) - 1
        /\ \A j \in 1..Len(list') : list'[j] = list[IF j < i THEN j ELSE j + 1]
    BY <1>1, <2>3, RemovePosition
  <2> DEFINE old(j) == IF j < i THEN j ELSE j + 1
  <2>6. \A j \in 1..Len(list') : old(j) \in 1..Len(list) /\ old(j) # i
    BY <2>4, <2>5
  <2>7. \A k \in 1..Len(list) : k # i => \E j \in 1..Len(list') : old(j) = k
    <3> SUFFICES ASSUME NEW k \in 1..Len(list), k # i
                 PROVE  \E j \in 1..Len(list') : old(j) = k
      OBVIOUS
    <3>1. CASE k < i
      <4>1. k \in 1..Len(list') /\ old(k) = k
        BY <2>4, <2>5, <3>1
      <4> QED
        BY <4>1
    <3>2. CASE k > i
      <4>1. k - 1 \in 1..Len(list') /\ old(k - 1) = k
        BY <2>4, <2>5, <3>2
      <4> QED
        BY <4>1
    <3> QED
      BY <2>4, <3>1, <3>2
  <2>8. \A j, k \in 1..Len(list') : list'[j] = list'[k] => j = k
    <3>1. \A j, k \in 1..Len(list') : old(j) = old(k) => j = k
      BY <2>4, <2>5
    <3> HIDE DEF old
    <3>2. \A j \in 1..Len(list') : list'[j] = list[old(j)]
      BY <2>5 DEF old
    <3> QED
      BY <2>6, <3>1, <3>2 DEF RegistryConsistent
  <2>9. ASSUME NEW j \in 1..Len(list') PROVE byName'[heap'[list'[j]].name] = list'[j]
    <3>1. list'[j] = list[old(j)] /\ old(j) \in 1..Len(list) /\ old(j) # i
      BY <2>5, <2>6
    <3> HIDE DEF old
    <3>2. /\ byName[heap[list[old(j)]].name] = list[old(j)]
          /\ heap[list[old(j)]].name \in Names
      BY <1>1, <1>2, <3>1 DEF RegistryConsistent, Backend
    <3>3. heap[list[old(j)]].name # n
      BY <2>4, <3>1, <3>2 DEF RegistryConsistent
    <3> QED
      BY <1>1, <2>1, <3>1, <3>2, <3>3
  <2>10. ASSUME NEW k \in Names, byName'[k] # Nil
         PROVE  /\ heap'[byName'[k]].name = k
                /\ \E j \in 1..Len(list') : list'[j] = byName'[k]
    <3>1. k # n /\ byName'[k] = byName[k] /\ byName[k] # Nil
      BY <1>1, <2>1, <2>10
    <3>2. heap[byName[k]].name = k
      BY <3>1 DEF RegistryConsistent
    <3>3. PICK m \in 1..Len(list) : list[m] = byName[k]
      BY <3>1 DEF RegistryConsistent
    <3>4. m # i
      BY <2>3, <3>1, <3>2, <3>3
    <3>5. PICK j \in 1..Len(list') : old(j) = m
      BY <2>7, <3>4
    <3> QED
      BY <2>1, <2>5, <3>1, <3>2, <3>3, <3>5
  <2> QED
    BY <2>8, <2>9, <2>10 DEF RegistryConsistent
<1>5. ASSUME NEW o \in Objects, NEW e \in BOOLEAN, SetBackendEnabled(o, e)
      PROVE  RegistryConsistent'
  <2>1. SetEnabled(heap[o], e).name = heap[o].name
    BY <1>1, BackendMethods
  <2>2. \A p \in 1..used : heap'[p].name = heap[p].name
    BY <1>1, <1>5, <2>1 DEF SetBackendEnabled
  <2> QED
    BY <1>5, <2>2, RegistryKept DEF SetBackendEnabled
<1> QED
  BY <1>3, <1>4, <1>5 DEF AdminStep

\* The health checker touches neither index and renames no object.
LEMMA RegistryOfCheckerStep ==
  ASSUME TypeOK, RegistryConsistent, CheckerStep
  PROVE  RegistryConsistent'
<1>1. /\ heap \in [Objects -> Backend] /\ used \in 0..MaxObjects /\ MaxObjects \in Nat
      /\ probe \in ProbeState
  BY RoutingAssumption DEF TypeOK
<1>2. CASE StartCycle \/ Probe
  BY <1>2, RegistryKept DEF StartCycle, Probe
<1>3. CASE ApplyHealth \/ ApplyWeight
  <2>1. probe.object \in Objects /\ probe.verdict \in {"unbuilt", "up", "down"}
    BY <1>1, <1>3 DEF ApplyHealth, ApplyWeight, ProbeState, NoProbe
  <2>2. PICK b : /\ b.name = heap[probe.object].name
                 /\ heap' = [heap EXCEPT ![probe.object] = b]
    BY <1>1, <1>3, <2>1, CheckedBackend DEF ApplyHealth, ApplyWeight
  <2>3. ASSUME NEW o \in 1..used PROVE heap'[o].name = heap[o].name
    BY <1>1, <2>1, <2>2
  <2> QED
    BY <1>3, <2>3, RegistryKept DEF ApplyHealth, ApplyWeight
<1> QED
  BY <1>2, <1>3 DEF CheckerStep

\* A request writes nothing of an object but its currentWeight.
LEMMA RequestWrites ==
  ASSUME TypeOK, NEW r \in Requests, RequestStep(r), NEW o \in Objects
  PROVE  /\ heap'[o].name = heap[o].name
         /\ heap'[o].healthy = heap[o].healthy
         /\ heap'[o].enabled = heap[o].enabled
         /\ heap'[o].effectiveWeight = heap[o].effectiveWeight
<1>1. heap \in [Objects -> Backend]
  BY DEF TypeOK
<1>2. \/ heap' = heap
      \/ \E p, c : heap' = [heap EXCEPT ![p].currentWeight = c]
  BY DEF RequestStep, BuildPool, Visit, LoadHealthy, LoadEnabled,
     LoadWeight, LoadCredit, Pass, Skip, Accrue, EndScan, Charge
<1>3. ASSUME NEW p, NEW c, heap' = [heap EXCEPT ![p].currentWeight = c]
      PROVE  heap'[o] = heap[o] \/ heap'[o] = [heap[o] EXCEPT !.currentWeight = c]
  BY <1>1, <1>3
<1>4. CASE heap' = heap
  BY <1>4
<1>5. ASSUME NEW p, NEW c, heap' = [heap EXCEPT ![p].currentWeight = c]
      PROVE  /\ heap'[o].name = heap[o].name
             /\ heap'[o].healthy = heap[o].healthy
             /\ heap'[o].enabled = heap[o].enabled
             /\ heap'[o].effectiveWeight = heap[o].effectiveWeight
  <2>1. heap[o] \in Backend
    BY <1>1
  <2>2. heap'[o] = heap[o] \/ heap'[o] = [heap[o] EXCEPT !.currentWeight = c]
    BY <1>3, <1>5
  <2>3. CASE heap'[o] = heap[o]
    BY <2>3
  <2>4. CASE heap'[o] = [heap[o] EXCEPT !.currentWeight = c]
    <3>1. /\ [heap[o] EXCEPT !.currentWeight = c].name = heap[o].name
          /\ [heap[o] EXCEPT !.currentWeight = c].healthy = heap[o].healthy
          /\ [heap[o] EXCEPT !.currentWeight = c].enabled = heap[o].enabled
          /\ [heap[o] EXCEPT !.currentWeight = c].effectiveWeight = heap[o].effectiveWeight
      BY <2>1 DEF Backend
    <3> QED
      BY <2>4, <3>1
  <2> QED
    BY <2>2, <2>3, <2>4
<1> QED
  BY <1>2, <1>4, <1>5

\* Every step keeps the two indexes consistent.
LEMMA RegistryStep ==
  ASSUME Inv, [Next]_vars
  PROVE  RegistryConsistent'
<1> USE DEF Inv
<1>1. CASE AdminStep
  BY <1>1, RegistryOfAdminStep
<1>2. CASE CheckerStep
  BY <1>2, RegistryOfCheckerStep
<1>3. ASSUME NEW u \in URLs, Flip(u) PROVE RegistryConsistent'
  BY <1>3, RegistryKept DEF Flip
<1>4. ASSUME NEW r \in Requests, RequestStep(r) PROVE RegistryConsistent'
  <2>1. UNCHANGED managerVars
    BY <1>4 DEF RequestStep, BuildPool, Visit, LoadHealthy, LoadEnabled,
     LoadWeight, LoadCredit, Pass, Skip, Accrue, EndScan, Charge
  <2>2. \A o \in 1..used : o \in Objects
    BY RoutingAssumption DEF TypeOK
  <2>3. \A o \in 1..used : heap'[o].name = heap[o].name
    BY <1>4, <2>2, RequestWrites
  <2> QED
    BY <2>1, <2>3, RegistryKept
<1>5. CASE UNCHANGED vars
  BY <1>5 DEF vars, RegistryConsistent
<1> QED
  BY <1>1, <1>2, <1>3, <1>4, <1>5 DEF Next

-----------------------------------------------------------------------------
(* Health and weight agree.                                                *)

\* What the methods of Backend do to health and weight.
LEMMA HealthFields ==
  ASSUME NEW b \in Backend
  PROVE  /\ \A e \in BOOLEAN : /\ SetEnabled(b, e).healthy = b.healthy
                               /\ SetEnabled(b, e).effectiveWeight = b.effectiveWeight
         /\ \A u \in URLs, w \in Weight :
              /\ UpdateConfig(b, u, w, TRUE).healthy = b.healthy
              /\ UpdateConfig(b, u, w, TRUE).effectiveWeight > 0
              /\ UpdateConfig(b, u, w, FALSE).healthy = b.healthy
              /\ UpdateConfig(b, u, w, FALSE).effectiveWeight = b.effectiveWeight
         /\ Judged(b, "unbuilt") = b /\ ~Judged(b, "down").healthy
         /\ \A v \in {"unbuilt", "up", "down"} : Checked(b, v).healthy = b.healthy
         /\ Checked(b, "unbuilt").effectiveWeight = b.effectiveWeight
         /\ Checked(b, "up").effectiveWeight > 0
<1>1. \A e \in BOOLEAN : /\ SetEnabled(b, e).healthy = b.healthy
                         /\ SetEnabled(b, e).effectiveWeight = b.effectiveWeight
  BY DEF SetEnabled, Backend
<1>2. \A u \in URLs, w \in Weight :
        /\ UpdateConfig(b, u, w, TRUE).healthy = b.healthy
        /\ UpdateConfig(b, u, w, TRUE).effectiveWeight > 0
        /\ UpdateConfig(b, u, w, FALSE).healthy = b.healthy
        /\ UpdateConfig(b, u, w, FALSE).effectiveWeight = b.effectiveWeight
  BY DEF UpdateConfig, Backend
<1>3. Judged(b, "unbuilt") = b /\ ~Judged(b, "down").healthy
  BY DEF Judged, StoreHealth, Backend
<1>4. \A c \in Backend : /\ MarkFailure(c).healthy = c.healthy
                         /\ MarkFailure(c).effectiveWeight = c.effectiveWeight
                         /\ MarkSuccess(c).healthy = c.healthy
                         /\ MarkSuccess(c).effectiveWeight = c.effectiveWeight
  BY DEF MarkFailure, MarkSuccess, Backend
<1>5. \A h \in BOOLEAN : StoreWeight(b, h) \in Backend /\ StoreWeight(b, h).healthy = b.healthy
  BY BackendMethods DEF StoreWeight, Backend
<1>6. StoreWeight(b, TRUE).effectiveWeight > 0
  BY DEF StoreWeight, Backend
<1>7. /\ Checked(b, "unbuilt") = MarkFailure(b)
      /\ Checked(b, "up") = MarkSuccess(StoreWeight(b, TRUE))
      /\ Checked(b, "down") = MarkFailure(StoreWeight(b, FALSE))
  BY DEF Checked
<1>8. \A v \in {"unbuilt", "up", "down"} : Checked(b, v).healthy = b.healthy
  <2>1. Checked(b, "unbuilt").healthy = b.healthy
    BY <1>4, <1>7
  <2>2. Checked(b, "up").healthy = b.healthy
    BY <1>4, <1>5, <1>7
  <2>3. Checked(b, "down").healthy = b.healthy
    BY <1>4, <1>5, <1>7
  <2> QED
    BY <2>1, <2>2, <2>3
<1>9. /\ Checked(b, "unbuilt").effectiveWeight = b.effectiveWeight
      /\ Checked(b, "up").effectiveWeight > 0
  BY <1>4, <1>5, <1>6, <1>7
<1> QED
  BY <1>1, <1>2, <1>3, <1>8, <1>9

\* A step that leaves the probe alone keeps health and weight in agreement if it
\* does so for every object, and does not revive the one that is being marked.
LEMMA HealthKept ==
  ASSUME HealthCoherent, probe' = probe,
         \A o \in Objects : heap'[o].healthy => heap'[o].effectiveWeight > 0 \/ Recovering(o),
         probe.stored => heap'[probe.object].healthy = heap[probe.object].healthy
  PROVE  HealthCoherent'
BY DEF HealthCoherent, Recovering

\* An upsert gives a healthy backend its new weight, unless the checker is about
\* to.
LEMMA HealthOfUpsert ==
  ASSUME TypeOK, HealthCoherent,
         NEW n \in Names, NEW u \in URLs, NEW w \in InputWeights, UpsertBackend(n, u, w)
  PROVE  HealthCoherent'
<1>1. /\ heap \in [Objects -> Backend] /\ used \in 0..MaxObjects /\ MaxObjects \in Nat
      /\ byName \in [Names -> 0..used] /\ probe \in ProbeState /\ probe' = probe
      /\ ClampWeight(w) \in Weight
  BY NewBackends, RoutingAssumption DEF TypeOK, UpsertBackend, checkerVars
<1>2. probe.stored => probe.object \in 1..used
  BY <1>1 DEF ProbeState, NoProbe
<1>3. CASE byName[n] # Nil
  <2>1. byName[n] \in Objects
    BY <1>1, <1>3
  <2> DEFINE b == heap[byName[n]]
             up(h) == UpdateConfig(b, u, ClampWeight(w), h)
  <2>2. b \in Backend
    BY <1>1, <2>1
  <2>3. /\ up(TRUE) \in Backend /\ up(TRUE).healthy = b.healthy
        /\ up(TRUE).effectiveWeight > 0
        /\ up(FALSE) \in Backend /\ up(FALSE).healthy = b.healthy
        /\ up(FALSE).effectiveWeight = b.effectiveWeight
    <3> HIDE DEF b
    <3> QED
      BY <1>1, <2>2, BackendMethods, HealthFields
  <2>4. /\ SetEnabled(up(TRUE), TRUE).healthy = b.healthy
        /\ SetEnabled(up(TRUE), TRUE).effectiveWeight > 0
        /\ SetEnabled(up(FALSE), TRUE).healthy = b.healthy
        /\ SetEnabled(up(FALSE), TRUE).effectiveWeight = b.effectiveWeight
    <3> HIDE DEF up, b
    <3> QED
      BY <2>3, HealthFields
  <2>5. \/ heap' = [heap EXCEPT ![byName[n]] = SetEnabled(up(TRUE), TRUE)]
        \/ /\ ~b.healthy \/ Recovering(byName[n])
           /\ heap' = [heap EXCEPT ![byName[n]] = SetEnabled(up(FALSE), TRUE)]
    BY <1>3 DEF UpsertBackend, MaySee
  <2>6. PICK b2 : /\ heap' = [heap EXCEPT ![byName[n]] = b2]
                  /\ b2.healthy = b.healthy
                  /\ b2.healthy => b2.effectiveWeight > 0 \/ Recovering(byName[n])
    <3>1. CASE heap' = [heap EXCEPT ![byName[n]] = SetEnabled(up(TRUE), TRUE)]
      <4> HIDE DEF up, b
      <4> QED
        BY <2>4, <3>1
    <3>2. CASE /\ ~b.healthy \/ Recovering(byName[n])
               /\ heap' = [heap EXCEPT ![byName[n]] = SetEnabled(up(FALSE), TRUE)]
      <4> HIDE DEF up, b
      <4> QED
        BY <2>4, <3>2
    <3> QED
      BY <2>5, <3>1, <3>2
  <2>7. \A o \in Objects : heap'[o].healthy => heap'[o].effectiveWeight > 0 \/ Recovering(o)
    BY <1>1, <2>1, <2>6 DEF HealthCoherent
  <2>8. probe.stored => heap'[probe.object].healthy = heap[probe.object].healthy
    BY <1>1, <1>2, <2>1, <2>6
  <2> QED
    BY <1>1, <2>7, <2>8, HealthKept
<1>4. CASE byName[n] = Nil
  <2>1. heap' = [heap EXCEPT ![used + 1] = NewBackend(n, u, ClampWeight(w))]
    BY <1>4 DEF UpsertBackend
  <2>2. NewBackend(n, u, ClampWeight(w)).effectiveWeight > 0
    BY <1>1 DEF NewBackend
  <2>3. \A o \in Objects : heap'[o].healthy => heap'[o].effectiveWeight > 0 \/ Recovering(o)
    BY <1>1, <2>1, <2>2 DEF HealthCoherent
  <2>4. probe.stored => heap'[probe.object].healthy = heap[probe.object].healthy
    BY <1>1, <1>2, <2>1
  <2> QED
    BY <1>1, <2>3, <2>4, HealthKept
<1> QED
  BY <1>3, <1>4

\* The checker's two stores.
LEMMA HealthOfCheckerStep ==
  ASSUME TypeOK, HealthCoherent, CheckerStep
  PROVE  HealthCoherent'
<1>1. /\ heap \in [Objects -> Backend] /\ used \in 0..MaxObjects /\ MaxObjects \in Nat
      /\ probe \in ProbeState
  BY RoutingAssumption DEF TypeOK
<1>2. \/ probe = NoProbe
      \/ probe.object \in Objects /\ probe.verdict \in {"unbuilt", "up", "down"}
  BY <1>1 DEF ProbeState
<1>3. CASE StartCycle
  BY <1>3 DEF StartCycle, HealthCoherent, Recovering
<1>4. CASE Probe
  BY <1>4 DEF Probe, NoProbe, HealthCoherent, Recovering
<1>5. CASE ApplyHealth
  <2> DEFINE b == Judged(heap[probe.object], probe.verdict)
  <2>1. /\ heap' = [heap EXCEPT ![probe.object] = b]
        /\ probe' = [probe EXCEPT !.stored = TRUE] /\ ~probe.stored
        /\ probe.object \in Objects /\ probe.verdict \in {"unbuilt", "up", "down"}
    BY <1>2, <1>5 DEF ApplyHealth
  <2>2. /\ probe'.object = probe.object /\ probe'.verdict = probe.verdict /\ probe'.stored
    BY <1>1, <2>1 DEF ProbeState, NoProbe
  <2>3. \A o \in Objects : heap[o].healthy => heap[o].effectiveWeight > 0
    BY <2>1 DEF HealthCoherent, Recovering
  <2>4. b.healthy => b.effectiveWeight > 0 \/ probe.verdict = "up"
    <3>1. heap[probe.object] \in Backend
      BY <1>1, <2>1
    <3>2. CASE probe.verdict = "unbuilt"
      <4>1. b = heap[probe.object]
        BY <3>1, <3>2, HealthFields
      <4> HIDE DEF b
      <4> QED
        BY <2>1, <2>3, <4>1
    <3>3. CASE probe.verdict = "down"
      BY <3>1, <3>3, HealthFields
    <3> QED
      BY <2>1, <3>2, <3>3
  <2>5. probe.verdict = "down" => ~b.healthy
    BY <1>1, <2>1, HealthFields
  <2> HIDE DEF b
  <2> QED
    BY <1>1, <2>1, <2>2, <2>3, <2>4, <2>5 DEF HealthCoherent, Recovering
<1>6. CASE ApplyWeight
  <2> DEFINE b == Checked(heap[probe.object], probe.verdict)
  <2>1. /\ heap' = [heap EXCEPT ![probe.object] = b]
        /\ probe' = NoProbe /\ probe.stored
        /\ probe.object \in Objects /\ probe.verdict \in {"unbuilt", "up", "down"}
    BY <1>2, <1>6 DEF ApplyWeight, NoProbe
  <2>2. b.healthy => b.effectiveWeight > 0
    <3>0. heap[probe.object] \in Backend
      BY <1>1, <2>1
    <3>1. b.healthy = heap[probe.object].healthy
      <4> DEFINE a == heap[probe.object]
      <4> HIDE DEF a
      <4>1. \A v \in {"unbuilt", "up", "down"} : Checked(a, v).healthy = a.healthy
        BY <3>0, HealthFields DEF a
      <4> QED
        BY <2>1, <4>1 DEF a
    <3>2. CASE probe.verdict = "unbuilt"
      <4>1. b.effectiveWeight = heap[probe.object].effectiveWeight
        BY <3>0, <3>2, HealthFields
      <4> HIDE DEF b
      <4> QED
        BY <2>1, <3>1, <3>2, <4>1 DEF HealthCoherent, Recovering
    <3>3. CASE probe.verdict = "up"
      BY <3>0, <3>3, HealthFields
    <3>4. CASE probe.verdict = "down"
      <4> HIDE DEF b
      <4> QED
        BY <2>1, <3>1, <3>4 DEF HealthCoherent
    <3> QED
      BY <2>1, <3>2, <3>3, <3>4
  <2>3. \A o \in Objects \ {probe.object} : heap[o].healthy => heap[o].effectiveWeight > 0
    BY DEF HealthCoherent, Recovering
  <2> HIDE DEF b
  <2> QED
    BY <1>1, <2>1, <2>2, <2>3 DEF HealthCoherent, NoProbe
<1> QED
  BY <1>3, <1>4, <1>5, <1>6 DEF CheckerStep

\* Every step keeps health and weight in agreement.
LEMMA HealthStep ==
  ASSUME Inv, [Next]_vars
  PROVE  HealthCoherent'
<1>1. TypeOK /\ HealthCoherent /\ heap \in [Objects -> Backend] /\ probe \in ProbeState
      /\ used \in 0..MaxObjects /\ MaxObjects \in Nat
  BY RoutingAssumption DEF Inv, TypeOK
<1>2. probe.stored => probe.object \in Objects
  BY <1>1 DEF ProbeState, NoProbe
<1>3. ASSUME heap' = heap, probe' = probe PROVE HealthCoherent'
  BY <1>1, <1>3 DEF HealthCoherent, Recovering
<1>4. ASSUME NEW o \in Objects, NEW e \in BOOLEAN, SetBackendEnabled(o, e)
      PROVE  HealthCoherent'
  <2>1. /\ heap' = [heap EXCEPT ![o] = SetEnabled(heap[o], e)] /\ probe' = probe
    BY <1>4 DEF SetBackendEnabled, checkerVars
  <2>2. /\ SetEnabled(heap[o], e).healthy = heap[o].healthy
        /\ SetEnabled(heap[o], e).effectiveWeight = heap[o].effectiveWeight
    BY <1>1, HealthFields
  <2>3. \A p \in Objects : /\ heap'[p].healthy = heap[p].healthy
                           /\ heap'[p].effectiveWeight = heap[p].effectiveWeight
    BY <1>1, <2>1, <2>2
  <2> QED
    BY <1>1, <1>2, <2>1, <2>3, HealthKept DEF HealthCoherent
<1>5. ASSUME NEW n \in Names, RemoveBackend(n) PROVE HealthCoherent'
  BY <1>3, <1>5 DEF RemoveBackend, checkerVars
<1>6. ASSUME NEW u \in URLs, Flip(u) PROVE HealthCoherent'
  BY <1>3, <1>6 DEF Flip, checkerVars
<1>7. ASSUME NEW r \in Requests, RequestStep(r) PROVE HealthCoherent'
  <2>1. probe' = probe
    BY <1>7 DEF RequestStep, BuildPool, Visit, LoadHealthy, LoadEnabled,
     LoadWeight, LoadCredit, Pass, Skip, Accrue, EndScan, Charge, checkerVars
  <2>2. \A p \in Objects : /\ heap'[p].healthy = heap[p].healthy
                           /\ heap'[p].effectiveWeight = heap[p].effectiveWeight
    BY <1>1, <1>7, RequestWrites
  <2> QED
    BY <1>1, <1>2, <2>1, <2>2, HealthKept DEF HealthCoherent
<1>8. CASE UNCHANGED vars
  BY <1>3, <1>8 DEF vars, checkerVars
<1> QED
  BY <1>1, <1>4, <1>5, <1>6, <1>7, <1>8, HealthOfUpsert, HealthOfCheckerStep
  DEF Next, AdminStep

-----------------------------------------------------------------------------
(* What a selection knows.                                                 *)

\* How the histories of a request move, by where it is.
LEMMA WatchCases ==
  ASSUME NEW r \in Requests, Watch
  PROVE  /\ Resting(r) /\ Resting(r)' =>
              /\ everHealthy'[r] = everHealthy[r]
              /\ everOK'[r] = everOK[r] /\ alwaysOK'[r] = alwaysOK[r]
         /\ Resting(r) /\ ~Resting(r)' => alwaysOK'[r] = Steady(r)'
         /\ ~Resting(r) =>
              /\ everHealthy'[r] = everHealthy[r] \cup Healthy(r)'
              /\ everOK'[r] = everOK[r] \cup (everHealthy'[r] \cap Enabled(r)')
              /\ alwaysOK'[r] = alwaysOK[r] \cap Steady(r)'
  BY DEF Watch, Starts

\* A step that leaves a request's locals alone keeps what it knows: the set of
\* objects seen routable grows, the set of objects always routable shrinks.
LEMMA ScanKept ==
  ASSUME NEW r \in Requests, ScanOK(r), Watch, sel'[r] = sel[r]
  PROVE  ScanOK(r)'
<1>1. Resting(r)' = Resting(r) /\ PoolObjects(r)' = PoolObjects(r)
  BY DEF Resting, PoolObjects
<1>2. /\ everHealthy[r] \subseteq everHealthy'[r]
      /\ everOK[r] \subseteq everOK'[r] /\ alwaysOK'[r] \subseteq alwaysOK[r]
  BY <1>1, WatchCases
<1> QED
  BY <1>1, <1>2 DEF ScanOK

\* A selection that starts has passed no entry.
LEMMA ScanOfBuildPool ==
  ASSUME TypeOK, NEW r \in Requests, NEW m \in Models, BuildPool(r, m), ScanOK(r)
  PROVE  ScanOK(r)'
<1>1. sel \in [Requests -> SelState] /\ Watch
  BY DEF TypeOK, BuildPool
<1>2. CASE UnknownBackend(m)
  <2>1. sel'[r] = Locals("failed", m, <<>>)
    BY <1>1, <1>2 DEF BuildPool
  <2> QED
    BY <2>1 DEF Locals, ScanOK
<1>3. CASE ~UnknownBackend(m)
  <2>1. sel'[r] = Locals("scan", m, Entries(m))
    BY <1>1, <1>3 DEF BuildPool
  <2>2. Len(Entries(m)) \in Nat
    BY <1>3, PoolType
  <2>3. Resting(r) /\ ~Resting(r)'
    BY <2>1 DEF BuildPool, Locals, Resting
  <2>4. alwaysOK'[r] \subseteq PoolObjects(r)'
    BY <1>1, <2>3, WatchCases DEF Steady, Healthy
  <2> QED
    BY <2>1, <2>2, <2>4 DEF Locals, ScanOK
<1> QED
  BY <1>2, <1>3

\* What the type invariant says of one request's selection, field by field.
LEMMA SelectionTypes ==
  ASSUME TypeOK, NEW r \in Requests
  PROVE  /\ sel \in [Requests -> SelState] /\ heap \in [Objects -> Backend]
         /\ sel[r] \in SelState /\ sel[r].pool \in Seq(Entry)
         /\ sel[r].next \in Nat /\ sel[r].best \in Nat /\ sel[r].total \in Nat
         /\ Len(sel[r].pool) \in Nat
<1>1. sel \in [Requests -> SelState] /\ heap \in [Objects -> Backend]
  BY DEF TypeOK
<1>2. sel[r] \in SelState
  <2> HIDE DEF SelState
  <2> QED
    BY <1>1
<1>3. /\ sel[r].pool \in Seq(Entry)
      /\ sel[r].next \in Nat /\ sel[r].best \in Nat /\ sel[r].total \in Nat
  BY ONLY <1>2 DEF SelState
<1>4. Len(sel[r].pool) \in Nat
  BY ONLY <1>3
<1> QED
  BY <1>1, <1>2, <1>3, <1>4

\* The object an entry's tests are about, and what a request knows of it.
LEMMA EntryTested ==
  ASSUME TypeOK, NEW r \in Requests, ScanOK(r), sel[r].next <= Len(sel[r].pool)
  PROVE  /\ sel[r].next \in 1..Len(sel[r].pool)
         /\ Current(r).object \in Objects /\ Current(r).object = sel[r].pool[sel[r].next].object
         /\ Current(r).object \in PoolObjects(r)
<1>1. sel[r].next \in 1..Len(sel[r].pool)
  BY SelectionTypes DEF ScanOK
<1>2. sel[r].pool[sel[r].next] \in Entry
  BY <1>1, SelectionTypes, ElementOfSeq
<1> QED
  BY <1>1, <1>2 DEF Entry, Current, PoolObjects

\* A test that passes: the entry keeps its place, and what the load saw is known.
LEMMA ScanOfPass ==
  ASSUME TypeOK, NEW r \in Requests, ScanOK(r), Watch, ~Resting(r),
         NEW then \in {"enabled", "weight", "credit"},
         sel'[r] = [sel[r] EXCEPT !.pc = then],
         sel[r].pc \in Busy \ {"charge"}, sel[r].next <= Len(sel[r].pool),
         then = "enabled" => Current(r).object \in everHealthy'[r],
         then # "enabled" => Current(r).object \in everOK'[r]
  PROVE  ScanOK(r)'
<1> DEFINE s == sel[r]
<1>1. s \in SelState
  BY SelectionTypes
<1>2. /\ sel'[r].pc = then /\ sel'[r].pool = s.pool /\ sel'[r].next = s.next
      /\ sel'[r].best = s.best /\ sel'[r].total = s.total
  BY <1>1 DEF SelState
<1>3. PoolObjects(r)' = PoolObjects(r)
  BY <1>2 DEF PoolObjects
<1>4. /\ everHealthy[r] \subseteq everHealthy'[r]
      /\ everOK[r] \subseteq everOK'[r] /\ alwaysOK'[r] \subseteq alwaysOK[r]
  BY WatchCases
<1>5. s.pool[s.next].object = Current(r).object
  BY DEF Current
<1> HIDE DEF s
<1>6. /\ s.pc \in Busy /\ s.pc \in Busy \ {"charge"}
      /\ sel'[r].pc \in Busy \ {"charge"} /\ sel'[r].pc \notin {"charge", "chosen", "rejected", "scan"}
  BY <1>2 DEF Busy, s
<1> QED
  BY <1>2, <1>3, <1>4, <1>5, <1>6 DEF ScanOK, s

\* A test that fails: the entry is passed, and its object was not steady then.
LEMMA ScanOfSkip ==
  ASSUME TypeOK, NEW r \in Requests, ScanOK(r), Watch, ~Resting(r),
         sel'[r] = [sel[r] EXCEPT !.pc = "scan", !.next = sel[r].next + 1],
         sel[r].pc \in Busy \ {"charge"}, sel[r].next <= Len(sel[r].pool),
         Current(r).object \notin Steady(r)'
  PROVE  ScanOK(r)'
<1> DEFINE s == sel[r]
           o == Current(r).object
<1>1. /\ s \in SelState /\ s.next \in Nat /\ s.best \in Nat /\ Len(s.pool) \in Nat
      /\ s.next \in 1..Len(s.pool) /\ o = s.pool[s.next].object
  BY SelectionTypes, EntryTested
<1>2. /\ sel'[r].pc = "scan" /\ sel'[r].pool = s.pool /\ sel'[r].next = s.next + 1
      /\ sel'[r].best = s.best /\ sel'[r].total = s.total
  BY <1>1 DEF SelState
<1>3. PoolObjects(r)' = PoolObjects(r)
  BY <1>2 DEF PoolObjects
<1>4. /\ everOK[r] \subseteq everOK'[r] /\ alwaysOK'[r] \subseteq alwaysOK[r]
      /\ o \notin alwaysOK'[r]
  BY WatchCases
<1>5. \A i \in 1..(sel'[r].next - 1) : i \in 1..(s.next - 1) \/ i = s.next
  BY <1>1, <1>2
<1>6. s.next + 1 \in 1..(Len(s.pool) + 1) /\ s.best < s.next + 1
  BY <1>1 DEF ScanOK
<1>7. s.pc \in Busy /\ s.pc \in Busy \ {"charge"} /\ "scan" \in Busy \ {"charge"}
  BY DEF Busy
<1> HIDE DEF o, s
<1>8. s.best = 0 => \A i \in 1..(sel'[r].next - 1) : s.pool[i].object \notin alwaysOK'[r]
  BY <1>1, <1>4, <1>5, <1>7 DEF ScanOK, s
<1> QED
  BY <1>2, <1>3, <1>4, <1>6, <1>7, <1>8 DEF ScanOK, s

\* The four loads of an entry.  That a backend without a weight is not steady is
\* where the agreement of health and weight is needed.
LEMMA ScanOfVisit ==
  ASSUME TypeOK, HealthCoherent, NEW r \in Requests, Visit(r), ScanOK(r)
  PROVE  ScanOK(r)'
<1> DEFINE s == sel[r]
           o == Current(r).object
<1>1. sel \in [Requests -> SelState] /\ heap \in [Objects -> Backend] /\ s \in SelState
  BY SelectionTypes
<1>2. CASE LoadHealthy(r) \/ LoadEnabled(r) \/ LoadWeight(r)
  <2>1. /\ Watch /\ heap' = heap /\ probe' = probe /\ s.pc \in {"scan", "enabled", "weight"}
        /\ s.next <= Len(s.pool)
    BY <1>2, TestCases DEF Tested, Entered
  <2>2. ~Resting(r) /\ s.pc \in Busy \ {"charge"}
    BY <2>1 DEF Resting
  <2>3. o \in Objects /\ o = s.pool[s.next].object /\ o \in PoolObjects(r)
    BY <2>1, EntryTested
  <2>4. /\ \A p \in {"enabled", "weight", "credit"} :
              Pass(r, p) => sel'[r] = [s EXCEPT !.pc = p]
        /\ Skip(r) => sel'[r] = [s EXCEPT !.pc = "scan", !.next = s.next + 1]
    BY <1>1 DEF Pass, Skip
  <2>5. sel'[r].pool = s.pool
    <3>1. /\ \A p \in {"enabled", "weight", "credit"} : [s EXCEPT !.pc = p].pool = s.pool
          /\ [s EXCEPT !.pc = "scan", !.next = s.next + 1].pool = s.pool
      BY <1>1 DEF SelState
    <3> QED
      BY <1>2, <2>4, <3>1, TestCases
  <2>6. o \in PoolObjects(r)'
    BY <2>3, <2>5 DEF PoolObjects
  <2>7. /\ everHealthy'[r] = everHealthy[r] \cup Healthy(r)'
        /\ everOK'[r] = everOK[r] \cup (everHealthy'[r] \cap Enabled(r)')
    BY <2>1, <2>2, WatchCases
  <2> HIDE DEF o, s
  <2>8. CASE Tested(r, "scan") /\ heap[o].healthy /\ Pass(r, "enabled")
    <3>1. o \in everHealthy'[r]
      BY <2>1, <2>6, <2>7, <2>8 DEF Healthy
    <3> QED
      BY <2>1, <2>2, <2>4, <2>8, <3>1, ScanOfPass DEF o, s
  <2>9. CASE Tested(r, "enabled") /\ heap[o].enabled /\ Pass(r, "weight")
    <3>1. o \in everHealthy[r]
      BY <2>3, <2>9 DEF ScanOK, Tested, Entered, s
    <3>2. o \in everOK'[r]
      BY <2>1, <2>6, <2>7, <2>9, <3>1 DEF Enabled
    <3> QED
      BY <2>1, <2>2, <2>4, <2>9, <3>2, ScanOfPass DEF o, s
  <2>10. CASE Tested(r, "weight") /\ Pass(r, "credit")
    <3>1. o \in everOK[r]
      BY <2>3, <2>10 DEF ScanOK, Tested, Entered, s
    <3>2. o \in everOK'[r]
      BY <2>7, <3>1
    <3> QED
      BY <2>1, <2>2, <2>4, <2>10, <3>2, ScanOfPass DEF o, s
  <2>11. CASE /\ ~heap[o].healthy \/ ~heap[o].enabled \/ ~(heap[o].effectiveWeight > 0)
              /\ Skip(r)
    <3>1. o \notin Steady(r)'
      BY <2>1, <2>3, <2>11 DEF HealthCoherent, Recovering, Healthy, Enabled, Steady
    <3> QED
      BY <2>1, <2>2, <2>4, <2>11, <3>1, ScanOfSkip DEF o, s
  <2> QED
    BY <1>2, <2>8, <2>9, <2>10, <2>11, TestCases DEF o
<1>8. CASE LoadCredit(r)
  <2>1. Watch /\ s.pc = "credit" /\ sel' = [sel EXCEPT ![r].pc = "accrue",
                                                        ![r].reg = heap[o].currentWeight]
    BY <1>8 DEF LoadCredit
  <2>2. sel'[r] = [s EXCEPT !.pc = "accrue", !.reg = heap[o].currentWeight]
    BY <1>1, <2>1
  <2>3. /\ sel'[r].pc = "accrue" /\ sel'[r].pool = s.pool /\ sel'[r].next = s.next
        /\ sel'[r].best = s.best /\ sel'[r].total = s.total
    BY <1>1, <2>2 DEF SelState
  <2>4. PoolObjects(r)' = PoolObjects(r)
    BY <2>3 DEF PoolObjects
  <2>5. everOK[r] \subseteq everOK'[r] /\ alwaysOK'[r] \subseteq alwaysOK[r]
    BY <2>1, WatchCases DEF Resting
  <2> HIDE DEF o, s
  <2> QED
    BY <2>1, <2>3, <2>4, <2>5 DEF ScanOK, Busy, s
<1> QED
  BY <1>2, <1>8 DEF Visit

\* The entry that passed its tests may become the best.
LEMMA ScanOfAccrue ==
  ASSUME TypeOK, NEW r \in Requests, Accrue(r), ScanOK(r)
  PROVE  ScanOK(r)'
<1> DEFINE s == sel[r]
           raised == s.reg + Current(r).weight
<1>1. /\ sel \in [Requests -> SelState] /\ Watch
      /\ s \in SelState /\ s.pool \in Seq(Entry)
      /\ s.next \in Nat /\ s.best \in Nat /\ s.total \in Nat /\ Len(s.pool) \in Nat
      /\ s.pc = "accrue"
  <2>1. Watch /\ s.pc = "accrue"
    BY DEF Accrue
  <2> QED
    BY <2>1, SelectionTypes
<1>2. ~Resting(r) /\ s.next \in 1..Len(s.pool) /\ s.best < s.next
  BY <1>1 DEF Resting, ScanOK
<1>3. Current(r).weight \in Weight
  <2>1. s.pool[s.next] \in Entry
    BY <1>1, <1>2, ElementOfSeq
  <2> QED
    BY <2>1 DEF Entry, Current
<1>4. sel'[r] = [s EXCEPT !.pc = "scan", !.next = s.next + 1,
                          !.total = s.total + Current(r).weight,
                          !.best = IF Beats(s, raised) THEN s.next ELSE s.best,
                          !.bestWeight = IF Beats(s, raised) THEN raised ELSE s.bestWeight]
  BY <1>1 DEF Accrue
<1>5. /\ sel'[r].pc = "scan" /\ sel'[r].pool = s.pool /\ sel'[r].next = s.next + 1
      /\ sel'[r].total = s.total + Current(r).weight
      /\ sel'[r].best = s.next \/ (sel'[r].best = s.best /\ s.best # 0)
  <2> DEFINE g == IF Beats(s, raised) THEN s.next ELSE s.best
             w == IF Beats(s, raised) THEN raised ELSE s.bestWeight
             t == s.total + Current(r).weight
  <2>1. g = s.next \/ (g = s.best /\ s.best # 0)
    BY DEF Beats
  <2>2. sel'[r] = [s EXCEPT !.pc = "scan", !.next = s.next + 1, !.total = t,
                            !.best = g, !.bestWeight = w]
    BY <1>4
  <2> HIDE DEF g, w, t, s
  <2>3. /\ sel'[r].pc = "scan" /\ sel'[r].pool = s.pool
        /\ sel'[r].next = s.next + 1 /\ sel'[r].total = t /\ sel'[r].best = g
    BY <1>1, <2>2 DEF SelState
  <2> QED
    BY <2>1, <2>3 DEF t
<1>6. PoolObjects(r)' = PoolObjects(r)
  BY <1>5 DEF PoolObjects
<1>7. everOK[r] \subseteq everOK'[r] /\ alwaysOK'[r] \subseteq alwaysOK[r]
  BY <1>1, <1>2, WatchCases
<1>8. sel'[r].total > 0
  BY <1>1, <1>3, <1>5
<1>9. /\ s.pool[s.next].object \in everOK[r]
      /\ s.best # 0 => s.pool[s.best].object \in everOK[r]
      /\ alwaysOK[r] \subseteq PoolObjects(r)
  BY <1>1 DEF ScanOK
<1>10. /\ s.next + 1 \in 1..(Len(s.pool) + 1) /\ s.next # 0
       /\ sel'[r].best < s.next + 1 /\ sel'[r].best # 0
  BY <1>1, <1>2, <1>5
<1> HIDE DEF s, raised
<1> QED
  BY <1>5, <1>6, <1>7, <1>8, <1>9, <1>10 DEF ScanOK

\* A scan that ends without a best entry has passed every object of the pool.
LEMMA ScanOfEndScan ==
  ASSUME TypeOK, NEW r \in Requests, EndScan(r), ScanOK(r)
  PROVE  ScanOK(r)'
<1> DEFINE s == sel[r]
<1>1. /\ sel \in [Requests -> SelState] /\ Watch
      /\ s \in SelState /\ s.pool \in Seq(Entry)
      /\ s.next \in Nat /\ s.best \in Nat /\ s.total \in Nat /\ Len(s.pool) \in Nat
      /\ s.pc = "scan" /\ s.next > Len(s.pool)
  <2>1. Watch /\ s.pc = "scan" /\ s.next > Len(s.pool)
    BY DEF EndScan
  <2> QED
    BY <2>1, SelectionTypes
<1>2. ~Resting(r)
  BY <1>1 DEF Resting
<1>3. everOK[r] \subseteq everOK'[r] /\ alwaysOK'[r] \subseteq alwaysOK[r]
  BY <1>1, <1>2, WatchCases
<1>4. CASE s.best = 0 \/ s.total = 0
  <2>1. s.best = 0
    BY <1>1, <1>4 DEF ScanOK
  <2>2. alwaysOK[r] = {}
    <3>1. \A i \in 1..Len(s.pool) : s.pool[i].object \notin alwaysOK[r]
      BY <1>1, <2>1 DEF ScanOK
    <3>2. alwaysOK[r] \subseteq PoolObjects(r)
      BY <1>1 DEF ScanOK
    <3> QED
      BY <3>1, <3>2 DEF PoolObjects
  <2>3. sel'[r] = [s EXCEPT !.pc = "rejected"]
    BY <1>1, <1>4 DEF EndScan
  <2>4. /\ sel'[r].pc = "rejected" /\ sel'[r].pool = s.pool /\ sel'[r].next = s.next
        /\ sel'[r].total = s.total /\ sel'[r].best = s.best
    BY <1>1, <2>3 DEF SelState
  <2> QED
    BY <1>1, <1>3, <2>2, <2>4 DEF ScanOK
<1>5. CASE ~(s.best = 0 \/ s.total = 0)
  <2>1. PICK c : sel'[r] = [s EXCEPT !.pc = "charge", !.reg = c]
    BY <1>1, <1>5 DEF EndScan
  <2>2. /\ sel'[r].pc = "charge" /\ sel'[r].pool = s.pool /\ sel'[r].next = s.next
        /\ sel'[r].total = s.total /\ sel'[r].best = s.best
    BY <1>1, <2>1 DEF SelState
  <2>3. PoolObjects(r)' = PoolObjects(r)
    BY <2>2 DEF PoolObjects
  <2> QED
    BY <1>1, <1>3, <1>5, <2>2, <2>3 DEF ScanOK
<1> QED
  BY <1>4, <1>5

\* The backend that is charged is the best one, seen routable.
LEMMA ScanOfCharge ==
  ASSUME TypeOK, NEW r \in Requests, Charge(r), ScanOK(r)
  PROVE  ScanOK(r)'
<1> DEFINE s == sel[r]
<1>1. /\ sel \in [Requests -> SelState] /\ Watch /\ s \in SelState
      /\ s.pc = "charge" /\ sel' = [sel EXCEPT ![r].pc = "chosen"]
  <2>1. Watch /\ s.pc = "charge" /\ sel' = [sel EXCEPT ![r].pc = "chosen"]
    BY DEF Charge
  <2> QED
    BY <2>1, SelectionTypes
<1>2. ~Resting(r)
  BY <1>1 DEF Resting
<1>3. everOK[r] \subseteq everOK'[r]
  BY <1>1, <1>2, WatchCases
<1>4. sel'[r] = [s EXCEPT !.pc = "chosen"]
  BY <1>1
<1>5. /\ sel'[r].pc = "chosen" /\ sel'[r].pool = s.pool /\ sel'[r].next = s.next
      /\ sel'[r].total = s.total /\ sel'[r].best = s.best
  BY <1>1, <1>4 DEF SelState
<1> QED
  BY <1>1, <1>3, <1>5 DEF ScanOK

\* Every step keeps what every selection knows.
LEMMA ScanStep ==
  ASSUME Inv, [Next]_vars, NEW q \in Requests
  PROVE  ScanOK(q)'
<1> USE DEF Inv
<1>1. CASE AdminStep \/ CheckerStep \/ \E u \in URLs : Flip(u)
  <2>1. sel' = sel /\ Watch
    BY <1>1 DEF AdminStep, UpsertBackend, RemoveBackend, SetBackendEnabled,
                CheckerStep, StartCycle, Probe, ApplyHealth, ApplyWeight, Flip
  <2> QED
    BY <2>1, ScanKept
<1>2. ASSUME NEW r \in Requests, RequestStep(r) PROVE ScanOK(q)'
  <2>1. CASE q = r
    BY <1>2, <2>1, ScanOfBuildPool, ScanOfVisit, ScanOfAccrue, ScanOfEndScan, ScanOfCharge
    DEF RequestStep
  <2>2. CASE q # r
    <3>1. Watch /\ \E v : sel' = [sel EXCEPT ![r] = v]
      BY <1>2 DEF RequestStep, BuildPool, Visit, LoadHealthy, LoadEnabled,
     LoadWeight, LoadCredit, Pass, Skip, Accrue, EndScan, Charge
    <3>2. sel'[q] = sel[q]
      BY <2>2, <3>1 DEF TypeOK
    <3> QED
      BY <3>1, <3>2, ScanKept
  <2> QED
    BY <2>1, <2>2
<1>3. CASE UNCHANGED vars
  BY <1>3 DEF vars, ScanOK, PoolObjects
<1> QED
  BY <1>1, <1>2, <1>3 DEF Next

-----------------------------------------------------------------------------
(* The start.                                                              *)

\* The configured backends satisfy the invariant.
LEMMA InitInv == Init => Inv
<1> SUFFICES ASSUME Init PROVE Inv
  OBVIOUS
<1> DEFINE n == Len(StartBackends)
<1>1. /\ n \in Nat /\ n <= MaxObjects /\ MaxObjects \in Nat
      /\ \A i \in 1..n : StartBackends[i] \in [name : Names, url : URLs, weight : Weight]
      /\ \A i, j \in 1..n : StartBackends[i].name = StartBackends[j].name => i = j
  <2>1. StartBackends \in Seq([name : Names, url : URLs, weight : Weight])
    BY RoutingAssumption
  <2>2. n \in Nat
    BY <2>1
  <2>3. \A i \in 1..n : StartBackends[i] \in [name : Names, url : URLs, weight : Weight]
    <3> HIDE DEF Weight
    <3> QED
      BY <2>1, ElementOfSeq
  <2> QED
    BY <2>2, <2>3, RoutingAssumption
<1>2. /\ used = n /\ list = [i \in 1..n |-> i]
      /\ \A k \in Names : byName[k] = IF \E o \in 1..n : StartBackends[o].name = k
                                      THEN CHOOSE o \in 1..n : StartBackends[o].name = k
                                      ELSE Nil
      /\ byName = [k \in Names |-> byName[k]]
  BY DEF Init
<1>3. \A i \in 1..n : /\ i \in Objects
                      /\ heap[i] = NewBackend(StartBackends[i].name, StartBackends[i].url,
                                              StartBackends[i].weight)
                      /\ heap[i] \in Backend
                      /\ heap[i].name = StartBackends[i].name
                      /\ heap[i].effectiveWeight > 0
  <2> SUFFICES ASSUME NEW i \in 1..n
               PROVE  LET b == NewBackend(StartBackends[i].name, StartBackends[i].url,
                                          StartBackends[i].weight)
                      IN  /\ i \in Objects /\ heap[i] = b /\ b \in Backend
                          /\ b.name = StartBackends[i].name
                          /\ b.effectiveWeight > 0
    OBVIOUS
  <2>1. i \in Objects
    BY <1>1
  <2>2. heap[i] = NewBackend(StartBackends[i].name, StartBackends[i].url,
                             StartBackends[i].weight)
    BY <1>2, <2>1 DEF Init
  <2>3. /\ StartBackends[i].name \in Names /\ StartBackends[i].url \in URLs
        /\ StartBackends[i].weight \in Weight
    BY <1>1
  <2>4. NewBackend(StartBackends[i].name, StartBackends[i].url, StartBackends[i].weight)
          \in Backend
    BY <2>3, NewBackends
  <2> QED
    BY <2>1, <2>2, <2>3, <2>4 DEF NewBackend
<1>4. \A o \in Objects : o \notin 1..n => heap[o] = Blank
  BY <1>1, <1>2 DEF Init
<1>5. Blank \in Backend
  BY BackendsAssumption DEF Blank, Backend
<1>6. heap \in [Objects -> Backend]
  <2>1. \A o \in Objects : heap[o] \in Backend
    BY <1>3, <1>4, <1>5
  <2> QED
    BY <2>1 DEF Init
<1>7. \A k \in Names : /\ byName[k] \in 0..n
                       /\ byName[k] # Nil => StartBackends[byName[k]].name = k
                       /\ \A i \in 1..n : StartBackends[i].name = k => byName[k] = i
  <2> SUFFICES ASSUME NEW k \in Names
               PROVE  /\ byName[k] \in 0..n
                      /\ byName[k] # Nil => StartBackends[byName[k]].name = k
                      /\ \A i \in 1..n : StartBackends[i].name = k => byName[k] = i
    OBVIOUS
  <2>1. CASE \E o \in 1..n : StartBackends[o].name = k
    <3>1. byName[k] \in 1..n /\ StartBackends[byName[k]].name = k
      BY <1>2, <2>1
    <3> QED
      BY <1>1, <3>1
  <2>2. CASE ~\E o \in 1..n : StartBackends[o].name = k
    BY <1>1, <1>2, <2>2
  <2> QED
    BY <2>1, <2>2
<1>8. TypeOK
  <2>1. byName \in [Names -> 0..used]
    BY <1>2, <1>7
  <2>2. list \in Seq(1..used)
    BY <1>1, <1>2
  <2>3. Idle \in SelState
    <3>1. <<>> \in Seq(Entry)
      OBVIOUS
    <3> QED
      BY <3>1 DEF Idle, Locals, SelState
  <2>4. sel \in [Requests -> SelState]
    BY <2>3 DEF Init
  <2>5. <<>> \in Seq(1..used)
    OBVIOUS
  <2>6. used \in 0..MaxObjects
    BY <1>1, <1>2
  <2>7. served \in 0..MaxRequests /\ adminOps \in 0..MaxAdmin /\ flips \in 0..MaxFlips
    BY RoutingAssumption DEF Init
  <2>8. picks \in [Models -> [Names -> Nat]]
    BY DEF Init
  <2> QED
    BY <1>6, <2>1, <2>2, <2>4, <2>5, <2>6, <2>7, <2>8, RoutingAssumption
    DEF Init, ProbeState, TypeOK
<1>9. RegistryConsistent
  <2>1. Len(list) = n /\ \A i \in 1..n : list[i] = i
    BY <1>1, <1>2
  <2>2. \A i \in 1..n : StartBackends[i].name \in Names
    BY <1>1
  <2> HIDE DEF n
  <2> QED
    BY <1>1, <1>3, <1>7, <2>1, <2>2 DEF RegistryConsistent
<1>10. HealthCoherent
  <2>1. \A i \in 1..n : heap[i].effectiveWeight > 0
    BY <1>3
  <2>2. Blank.effectiveWeight > 0
    BY DEF Blank
  <2> QED
    BY <1>4, <2>1, <2>2 DEF Init, NoProbe, HealthCoherent
<1>11. \A r \in Requests : ScanOK(r)
  BY DEF Init, Idle, Locals, ScanOK
<1> QED
  BY <1>8, <1>9, <1>10, <1>11 DEF Inv

-----------------------------------------------------------------------------
(* The theorems.                                                           *)

\* The invariant holds in every reachable state.
THEOREM Invariance == Spec => []Inv
<1>1. Inv /\ [Next]_vars => Inv'
  BY TypeStep, RegistryStep, HealthStep, ScanStep DEF Inv
<1> QED
  BY <1>1, InitInv, PTL DEF Spec

\* Type correctness.
THEOREM TypeCorrect == Spec => []TypeOK
<1>1. Inv => TypeOK
  BY DEF Inv
<1> QED
  BY <1>1, Invariance, PTL

\* The manager's map and list agree, after any number of upserts and removals.
THEOREM RegistryIsConsistent == Spec => []RegistryConsistent
<1>1. Inv => RegistryConsistent
  BY DEF Inv
<1> QED
  BY <1>1, Invariance, PTL

\* A request goes only to a backend that was routable while it selected.
THEOREM RoutesToRoutable == Spec => []RoutedWhileRoutable
<1>1. Inv => RoutedWhileRoutable
  BY DEF Inv, ScanOK, RoutedWhileRoutable
<1> QED
  BY <1>1, Invariance, PTL

\* A request is refused only if no backend of its pool stayed routable.
THEOREM RejectsOnlyWithCause == Spec => []NoSpuriousRejection
<1>1. Inv => NoSpuriousRejection
  BY DEF Inv, ScanOK, NoSpuriousRejection
<1> QED
  BY <1>1, Invariance, PTL
=============================================================================
