------------------------ MODULE ConfigReload_proofs ------------------------
(***************************************************************************)
(* Proofs about ConfigReload: the types with the use of the mutex, the     *)
(* certificate a handshake finds, and what the reload status says.         *)
(***************************************************************************)
EXTENDS ConfigReload, TLAPS

InReload == {"backends", "cert", "key"}

\* The provider's manager is not cancelled, so its goroutine cannot end.
ActiveLives == mgr[active].live

\* A reload knows its configuration; until it has applied the backends the old
\* one runs, and afterwards the backends are the new one's or the table's.
ReloadKnows ==
  /\ HasRows => routed = Administered
  /\ lock # Free => next \in Contents
  /\ (lock = Free \/ at[lock] = "backends") /\ ~lastError => Applied(current)
  /\ lock # Free /\ at[lock] \in {"cert", "key"} /\ routed # Administered =>
       Config[routed].backends = Config[next].backends

IInv == TypeOK /\ ServesWholePairs /\ ActiveLives /\ ReloadKnows

USE DEF Managers

-----------------------------------------------------------------------------
(* The start.                                                              *)

\* Everything runs the configuration read at start.
LEMMA InitIInv == Init => IInv
<1> SUFFICES ASSUME Init PROVE IInv
  OBVIOUS
<1> DEFINE v0 == CHOOSE v \in Versions : TRUE
<1>1. v0 \in Versions
  BY TLSAssumption
<1>2. /\ certFile = [p \in Paths |-> v0] /\ keyFile = certFile
      /\ StartContent \in Contents /\ Config[StartContent] \in ConfigSet
      /\ Config[StartContent].path \in Paths
  BY ReloadAssumption DEF ConfigSet, Init, TLSInit
<1>3. /\ active = 1 /\ 1 \in 1..MaxManagers
      /\ mgr = [m \in 1..MaxManagers |->
                  IF m = 1 THEN Started(Config[StartContent].path, v0, v0) ELSE Ended]
  BY <1>2, TLSAssumption DEF Init, TLSInit
<1> HIDE DEF v0
<1>4. TLSTypeOK
  <2>1. Started(Config[StartContent].path, v0, v0) \in Manager
    BY <1>1, <1>2 DEF Manager, Started
  <2>2. Ended \in Manager
    BY TLSAssumption DEF Manager, Ended
  <2>3. mgr \in [Managers -> Manager]
    BY <1>3, <2>1, <2>2
  <2>4. writes = 0 /\ MaxWrites \in Nat
    BY TLSAssumption DEF Init, TLSInit
  <2>5. certFile \in [Paths -> Versions] /\ keyFile \in [Paths -> Versions]
    BY <1>1, <1>2
  <2> QED
    BY <1>3, <2>3, <2>4, <2>5 DEF TLSTypeOK
<1>5. TypeOK
  <2>1. at = [g \in Goroutines |-> "waiting"] /\ lock = Free
    BY DEF Init
  <2>2. \A g \in Goroutines : lock = g <=> at[g] \in {"backends", "cert", "key"}
    BY <2>1 DEF Goroutines, Free
  <2>3. token \in Int /\ routed \in Contents \cup {Administered}
    BY <1>2 DEF Init, ConfigSet
  <2>4. edits \in 0..MaxEdits /\ hups \in 0..MaxSignals
    BY ReloadAssumption DEF Init
  <2> QED
    BY <1>2, <1>4, <2>1, <2>2, <2>3, <2>4 DEF TypeOK, Init
<1>6. ServesWholePairs /\ ActiveLives
  <2>1. v0 # NoVersion
    BY <1>1, TLSAssumption
  <2>2. mgr[active] = Started(Config[StartContent].path, v0, v0)
    BY <1>3
  <2>3. \A m \in Managers : m # active => mgr[m].pc = "ended"
    BY <1>3 DEF Ended
  <2> QED
    BY <2>1, <2>2, <2>3 DEF ServesWholePairs, ActiveLives, Started
<1>7. ReloadKnows
  <2>1. mgr[active].path = Config[StartContent].path
    BY <1>3 DEF Started
  <2> QED
    BY <2>1 DEF ReloadKnows, Applied, Init
<1> QED
  BY <1>5, <1>6, <1>7 DEF IInv

-----------------------------------------------------------------------------
(* The certificate's part, whatever else happens.                          *)

\* A manager's goroutine or a renewal leaves the types of the certificate's part.
LEMMA TypeOfTLS ==
  ASSUME TLSTypeOK, TLSNext
  PROVE  TLSTypeOK'
<1>1. ASSUME NEW m \in Managers, ReadCert(m)
      PROVE  TLSTypeOK'
  BY ZenonT(60), <1>1 DEF TLSTypeOK, ReadCert, Manager
<1>2. ASSUME NEW m \in Managers, ReadKey(m)
      PROVE  TLSTypeOK'
  <2>1. mgr[m] \in Manager /\ keyFile[mgr[m].path] \in Versions
    BY DEF TLSTypeOK, Manager
  <2>2. Reloaded(mgr[m], keyFile[mgr[m].path]) \in Manager
    BY <2>1 DEF Reloaded, KeyFits, Manager
  <2>3. mgr'[m] \in Manager
    BY <1>2, <2>2 DEF ReadKey, TLSTypeOK, Manager
  <2> QED
    BY <1>2, <2>3 DEF TLSTypeOK, ReadKey
<1>3. ASSUME NEW m \in Managers, EndRun(m)
      PROVE  TLSTypeOK'
  <2>1. Ended \in Manager
    BY TLSAssumption DEF Ended, Manager
  <2> QED
    BY <1>3, <2>1 DEF TLSTypeOK, EndRun
<1>4. ASSUME NEW p \in Renewed, NEW v \in Versions, WriteCert(p, v) \/ WriteKey(p, v)
      PROVE  TLSTypeOK'
  BY <1>4, TLSAssumption DEF TLSTypeOK, WriteCert, WriteKey
<1> QED
  BY <1>1, <1>2, <1>3, <1>4 DEF TLSNext

\* What a handshake may find stays a whole pair: a torn one is not stored, and the
\* goroutine of the provider's manager does not end.
LEMMA PairsOfTLS ==
  ASSUME TLSTypeOK, ServesWholePairs, ActiveLives, TLSNext
  PROVE  /\ ServesWholePairs' /\ ActiveLives'
         /\ active' = active /\ mgr'[active].path = mgr[active].path
<1> USE DEF TLSTypeOK, ServesWholePairs, ActiveLives
<1>1. CASE \E m \in Managers : ReadCert(m)
  BY <1>1 DEF ReadCert, Manager
<1>2. CASE \E m \in Managers : ReadKey(m)
  <2> PICK m \in Managers : ReadKey(m)
    BY <1>2
  <2>1. mgr' = [mgr EXCEPT ![m] = mgr'[m]] /\ active' = active
    BY DEF ReadKey
  <2>2. /\ mgr'[m].pc = "waiting" /\ mgr'[m].live = mgr[m].live
        /\ mgr'[m].path = mgr[m].path
        /\ mgr'[m].cert # NoVersion /\ mgr'[m].cert = mgr'[m].key
    BY TLSAssumption DEF ReadKey, Reloaded, KeyFits, Manager
  <2> QED
    BY <2>1, <2>2
<1>3. CASE \E m \in Managers : EndRun(m)
  <2> PICK m \in Managers : EndRun(m)
    BY <1>3
  <2>1. m # active /\ active' = active
    BY DEF EndRun
  <2>2. mgr'[m].pc = "ended" /\ \A n \in Managers : n # m => mgr'[n] = mgr[n]
    BY DEF EndRun, Ended
  <2> QED
    BY <2>1, <2>2
<1>4. CASE \E p \in Renewed, v \in Versions : WriteCert(p, v) \/ WriteKey(p, v)
  BY <1>4 DEF WriteCert, WriteKey
<1> QED
  BY <1>1, <1>2, <1>3, <1>4 DEF TLSNext

\* The provider changes to a manager that has loaded a whole pair.
LEMMA PairsOfSetManager ==
  ASSUME TLSTypeOK, ServesWholePairs, ActiveLives,
         NEW p \in Paths, NEW c \in Versions, NEW k \in Versions,
         KeyFits(c, k), SetManager(p, c, k), UNCHANGED <<certFile, keyFile, writes>>
  PROVE  /\ TLSTypeOK' /\ ServesWholePairs' /\ ActiveLives'
         /\ mgr'[active'].path = p
<1> PICK m \in Managers : /\ mgr[m].pc = "ended"
                          /\ mgr' = [mgr EXCEPT ![active] = Cancelled(@),
                                                ![m] = Started(p, c, k)]
                          /\ active' = m
  BY DEF SetManager
<1>1. m # active /\ active \in Managers
  BY DEF ServesWholePairs, TLSTypeOK
<1>2. /\ mgr'[m] = Started(p, c, k)
      /\ mgr'[active] = Cancelled(mgr[active])
      /\ \A n \in Managers \ {m, active} : mgr'[n] = mgr[n]
  BY <1>1 DEF TLSTypeOK
<1>3. Started(p, c, k) \in Manager
  BY DEF Started, Manager
<1>4. Cancelled(mgr[active]) \in Manager
  BY ZenonT(60), <1>1 DEF Cancelled, Manager, TLSTypeOK
<1>5. TLSTypeOK'
  BY <1>1, <1>2, <1>3, <1>4 DEF TLSTypeOK
<1>6. ServesWholePairs'
  <2>1. c = k /\ c # NoVersion
    BY TLSAssumption DEF KeyFits
  <2>2. mgr'[m].pc # "ended" /\ mgr'[m].cert # NoVersion /\ mgr'[m].cert = mgr'[m].key
    BY <1>2, <2>1 DEF Started
  <2>3. /\ mgr'[active].cert = mgr[active].cert /\ mgr'[active].key = mgr[active].key
        /\ mgr[active].pc # "ended"
    BY <1>1, <1>2 DEF Cancelled, TLSTypeOK, Manager, ServesWholePairs
  <2> QED
    BY ZenonT(60), <1>1, <1>2, <2>2, <2>3 DEF ServesWholePairs
<1>7. ActiveLives' /\ mgr'[active'].path = p
  BY <1>2 DEF ActiveLives, Started
<1> QED
  BY <1>5, <1>6, <1>7

-----------------------------------------------------------------------------
(* The types, the mutex among them.                                        *)

\* Steps that leave the certificate's part alone.
Around ==
  \/ Poll \/ Debounce \/ Decide \/ Record
  \/ SendHup \/ TakeHup
  \/ \E c \in Contents : Edit(c)

\* What TypeOK says of the variables of ConfigReload.
ReloadTypeOK ==
  /\ {file, current, loaded} \subseteq Contents
  /\ {seen, last, pending, attempted, next} \subseteq Contents \cup {NoContent}
  /\ routed \in Contents \cup {Administered}
  /\ at \in [Goroutines ->
       {"waiting", "polled", "reload", "backends", "cert", "key", "record"}]
  /\ lock \in Goroutines \cup {Free}
  /\ \A g \in Goroutines : lock = g <=> at[g] \in InReload
  /\ certRead \in Versions \cup {NoVersion}
  /\ {ripe, lastError, queued} \subseteq BOOLEAN
  /\ token \in Int
  /\ edits \in 0..MaxEdits /\ hups \in 0..MaxSignals

\* The types of the certificate's part, and of the rest.
LEMMA TypeParts == TypeOK <=> TLSTypeOK /\ ReloadTypeOK
  BY DEF TypeOK, ReloadTypeOK, InReload

\* Polling, deciding, signals and edits keep the types, and hold the mutex only
\* for their own step.
LEMMA TypeOfAround ==
  ASSUME ReloadTypeOK, Around
  PROVE  ReloadTypeOK'
<1> USE DEF ReloadTypeOK
<1>1. CASE Poll
  BY <1>1 DEF Poll, Goroutines, InReload, Free, appliedVars, outsideVars
<1>2. CASE Debounce
  BY <1>2 DEF Debounce, appliedVars, outsideVars
<1>3. CASE Decide
  BY <1>3 DEF Decide, Baseline, Compare, AfterDecision, Goroutines, InReload, Free,
              appliedVars, outsideVars
<1>4. CASE Record
  BY <1>4 DEF Record, Goroutines, InReload, Free, appliedVars, outsideVars
<1>5. CASE SendHup
  BY <1>5, ReloadAssumption DEF SendHup, watcherVars, appliedVars
<1>6. CASE TakeHup
  BY <1>6 DEF TakeHup, Goroutines, InReload, Free, watcherVars, appliedVars
<1>7. CASE \E c \in Contents : Edit(c)
  BY <1>7, ReloadAssumption DEF Edit, watcherVars, appliedVars
<1> QED
  BY <1>1, <1>2, <1>3, <1>4, <1>5, <1>6, <1>7 DEF Around

\* The steps of a reload keep the types: its goroutine takes the mutex with the
\* configuration and lets go of it at every end.
LEMMA TypeOfReload ==
  ASSUME TypeOK, ReloadKnows, NEW g \in Goroutines, Reload(g)
  PROVE  ReloadTypeOK'
<1> USE TypeParts DEF ReloadTypeOK, InReload
<1>1. CASE LoadFile(g)
  BY <1>1 DEF LoadFile, Leave, Goroutines, Free, watcherVars, outsideVars
<1>2. CASE ApplyBackends(g)
  <2>1. next \in Contents
    BY <1>2 DEF ApplyBackends, ReloadKnows, Goroutines, Free
  <2> QED
    BY <1>2, <2>1 DEF ApplyBackends, Goroutines, Free, watcherVars, outsideVars
<1>3. CASE ApplyBackendsFails(g)
  BY <1>3 DEF ApplyBackendsFails, Fail, ErrorReported, Leave, Goroutines, Free, watcherVars,
              outsideVars
<1>4. CASE ReadNewCert(g)
  <2>1. next \in Contents
    BY <1>4 DEF ReadNewCert, ReloadKnows, Goroutines, Free
  <2>2. certFile[Config[next].path] \in Versions
    BY <2>1, ReloadAssumption DEF ConfigSet, TLSTypeOK
  <2> QED
    BY <1>4, <2>2 DEF ReadNewCert, Goroutines, Free, watcherVars, outsideVars, appliedVars
<1>5. CASE ReadNewKey(g)
  <2>1. next \in Contents
    BY <1>5 DEF ReadNewKey, ReloadKnows, Goroutines, Free
  <2>2. token' \in Int /\ current' \in Contents /\ lastError' \in BOOLEAN
    <3>1. CASE Commit(g)
      <4>1. Config[next].token \in Int
        BY <2>1, ReloadAssumption DEF ConfigSet
      <4> QED
        BY <2>1, <3>1, <4>1 DEF Commit
    <3>2. CASE Fail(g)
      BY <3>2 DEF Fail, ErrorReported
    <3> QED
      BY <1>5, <3>1, <3>2 DEF ReadNewKey
  <2>3. Leave(g) /\ next' = NoContent /\ certRead' = NoVersion
    BY <1>5 DEF ReadNewKey, Commit, Fail
  <2> QED
    BY <1>5, <2>2, <2>3 DEF ReadNewKey, Leave, Goroutines, Free, watcherVars, outsideVars
<1> QED
  BY <1>1, <1>2, <1>3, <1>4, <1>5 DEF Reload

-----------------------------------------------------------------------------
(* Each kind of step keeps the invariant.                                  *)

\* Polling, deciding, signals and edits change nothing that is applied.
LEMMA InvOfAround ==
  ASSUME IInv, Around
  PROVE  IInv'
<1>1. UNCHANGED <<tlsVars, next, current, lastError, token, routed>>
  BY DEF Around, Poll, Debounce, Decide, Record, SendHup, TakeHup, Edit, Baseline, Compare,
         watcherVars, appliedVars, outsideVars
<1>2. /\ ReloadTypeOK /\ TLSTypeOK /\ ReloadKnows
      /\ ServesWholePairs /\ ActiveLives
  BY TypeParts DEF IInv
<1>3. ReloadTypeOK'
  BY <1>2, TypeOfAround
<1>4. TLSTypeOK' /\ ServesWholePairs' /\ ActiveLives'
  BY <1>1, <1>2 DEF TLSTypeOK, ServesWholePairs, ActiveLives, tlsVars
<1>5. lock' = lock
  BY <1>2 DEF Around, Poll, Debounce, Decide, Record, SendHup, TakeHup, Edit, Baseline,
              Compare, AfterDecision, watcherVars
<1>6. lock # Free => at'[lock] = at[lock]
  <2> SUFFICES ASSUME lock # Free PROVE at'[lock] = at[lock]
    OBVIOUS
  <2>1. /\ lock \in Goroutines /\ at[lock] \in InReload
        /\ at \in [Goroutines -> {"waiting", "polled", "reload", "backends", "cert", "key",
                                 "record"}]
    BY <1>2 DEF ReloadTypeOK
  <2>2. \/ at' = at
        \/ \E g \in Goroutines, s \in {"waiting", "polled", "reload"} :
             at[g] \notin InReload /\ at' = [at EXCEPT ![g] = s]
    BY DEF InReload, Goroutines, Around, Poll, Debounce, Decide, Record, SendHup, TakeHup,
           Edit, Baseline, Compare
  <2> QED
    BY <2>1, <2>2
<1>7. Applied(current) => Applied(current)'
  BY <1>1 DEF Applied, tlsVars
<1>8. ReloadKnows'
  BY <1>1, <1>2, <1>5, <1>6, <1>7 DEF ReloadKnows
<1> QED
  BY <1>3, <1>4, <1>8, TypeParts DEF IInv, TypeOK, ReloadTypeOK, InReload

\* Managers and renewals change neither what is routed to nor the provider's paths.
LEMMA InvOfTLS ==
  ASSUME IInv, TLSNext, UNCHANGED reloadVars
  PROVE  IInv'
<1>1. /\ ReloadTypeOK /\ TLSTypeOK /\ ReloadKnows
      /\ ServesWholePairs /\ ActiveLives
  BY TypeParts DEF IInv
<1>2. /\ TLSTypeOK' /\ ServesWholePairs' /\ ActiveLives'
      /\ mgr'[active'].path = mgr[active].path
  BY <1>1, TypeOfTLS, PairsOfTLS
<1>3. UNCHANGED <<at, lock, seen, last, pending, ripe, attempted, next, certRead, current,
                  lastError, token, routed, loaded, file, queued, edits, hups>>
  BY DEF reloadVars, watcherVars, appliedVars, outsideVars
<1>4. ReloadTypeOK'
  BY <1>1, <1>3 DEF ReloadTypeOK
<1>5. ReloadKnows'
  BY <1>1, <1>2, <1>3 DEF ReloadKnows, Applied
<1> QED
  BY <1>2, <1>4, <1>5, TypeParts DEF IInv, TypeOK, ReloadTypeOK, InReload

\* A reload either commits with everything applied or leaves an error in the
\* status.
LEMMA InvOfReload ==
  ASSUME IInv, NEW g \in Goroutines, Reload(g)
  PROVE  IInv'
<1>1. /\ TypeOK /\ ReloadTypeOK /\ TLSTypeOK /\ ReloadKnows
      /\ ServesWholePairs /\ ActiveLives
  BY TypeParts DEF IInv
<1>2. ReloadTypeOK'
  BY <1>1, TypeOfReload
<1>3. g # Free /\ g \in Goroutines
  BY DEF Goroutines, Free
<1>4. at[g] \in InReload => lock = g /\ next \in Contents
  BY <1>1, <1>3 DEF ReloadTypeOK, ReloadKnows
<1>5. ASSUME UNCHANGED tlsVars
      PROVE  TLSTypeOK' /\ ServesWholePairs' /\ ActiveLives'
  BY <1>1, <1>5 DEF TLSTypeOK, ServesWholePairs, ActiveLives, tlsVars
<1>6. ASSUME Fail(g), routed' = routed
      PROVE  ReloadKnows'
  BY <1>1, <1>3, <1>6 DEF Fail, ErrorReported, Leave, ReloadKnows
<1>7. CASE LoadFile(g)
  <2>1. UNCHANGED <<tlsVars, current, token, routed>>
    BY <1>7 DEF LoadFile
  <2>2. ASSUME Rejected(file)
        PROVE  ReloadKnows'
    BY <1>1, <1>7, <2>1, <2>2 DEF LoadFile, Leave, ReloadKnows
  <2>3. ASSUME ~Rejected(file)
        PROVE  ReloadKnows'
    <3>1. /\ lock = Free /\ lock' = g /\ at'[g] = "backends"
          /\ next' \in Contents /\ lastError' = lastError
      BY <1>1, <1>7, <2>3 DEF LoadFile, ReloadTypeOK
    <3>2. Applied(current) => Applied(current)'
      BY <2>1 DEF Applied, tlsVars
    <3> QED
      BY <1>1, <1>3, <2>1, <3>1, <3>2 DEF ReloadKnows
  <2>4. ReloadKnows'
    BY <2>2, <2>3
  <2> QED
    BY <1>2, <1>5, <2>1, <2>4 DEF IInv, TypeOK, ReloadTypeOK, InReload
<1>8. CASE ApplyBackends(g)
  <2>1. /\ UNCHANGED <<tlsVars, lock, next, current, lastError, token>>
        /\ at[g] = "backends" /\ at'[g] = "cert"
        /\ routed' = IF HasRows THEN routed ELSE next
    BY <1>1, <1>8 DEF ApplyBackends, ReloadTypeOK
  <2>2. lock = g /\ next \in Contents
    BY <1>4, <2>1 DEF InReload
  <2>3. ReloadKnows'
    BY <1>1, <1>3, <2>1, <2>2 DEF ReloadKnows
  <2> QED
    BY <1>2, <1>5, <2>1, <2>3 DEF IInv, TypeOK, ReloadTypeOK, InReload
<1>9. CASE ApplyBackendsFails(g)
  <2>1. Fail(g) /\ routed' = routed /\ UNCHANGED tlsVars
    BY <1>9 DEF ApplyBackendsFails, Fail
  <2> QED
    BY <1>2, <1>5, <1>6, <2>1 DEF IInv, TypeOK, ReloadTypeOK, InReload
<1>10. CASE ReadNewCert(g)
  <2>1. /\ UNCHANGED <<tlsVars, lock, next, current, lastError, token, routed>>
        /\ at[g] = "cert" /\ at'[g] = "key"
    BY <1>1, <1>10 DEF ReadNewCert, appliedVars, ReloadTypeOK
  <2>2. lock = g /\ next \in Contents
    BY <1>4, <2>1 DEF InReload
  <2>3. ReloadKnows'
    BY <1>1, <1>3, <2>1, <2>2 DEF ReloadKnows
  <2> QED
    BY <1>2, <1>5, <2>1, <2>3 DEF IInv, TypeOK, ReloadTypeOK, InReload
<1>11. CASE ReadNewKey(g)
  <2> DEFINE p == Config[next].path
             k == keyFile[p]
  <2>1. at[g] = "key" /\ routed' = routed
    BY <1>11 DEF ReadNewKey
  <2>2. lock = g /\ next \in Contents
    BY <1>4, <2>1 DEF InReload
  <2>3. CASE Fail(g)
    BY <1>2, <1>5, <1>6, <2>1, <2>3 DEF IInv, TypeOK, ReloadTypeOK, InReload, Fail
  <2>4. CASE KeyFits(certRead, k) /\ Commit(g)
    <3>1. p \in Paths
      BY <2>2, ReloadAssumption DEF ConfigSet
    <3>2. k \in Versions /\ certRead \in Versions
      BY <1>1, <2>4, <3>1 DEF TLSTypeOK, KeyFits
    <3>3. SetManager(p, certRead, k) /\ UNCHANGED <<certFile, keyFile, writes>>
      BY <2>4 DEF Commit
    <3> HIDE DEF p, k
    <3>4. TLSTypeOK' /\ ServesWholePairs' /\ ActiveLives' /\ mgr'[active'].path = p
      BY <1>1, <2>4, <3>1, <3>2, <3>3, PairsOfSetManager
    <3>5. lock' = Free /\ current' = next /\ token' = Config[next].token
      BY <2>4 DEF Commit, Leave
    <3>6. routed # Administered => Config[routed].backends = Config[next].backends
      BY <1>1, <1>3, <2>1, <2>2 DEF ReloadKnows
    <3>7. Applied(current)'
      BY <2>1, <3>4, <3>5, <3>6 DEF Applied, p
    <3>8. ReloadKnows'
      BY <1>1, <2>1, <3>5, <3>7 DEF ReloadKnows
    <3> QED
      BY <1>2, <3>4, <3>8 DEF IInv, TypeOK, ReloadTypeOK, InReload
  <2> QED
    BY <1>11, <2>3, <2>4 DEF ReadNewKey
<1> QED
  BY <1>7, <1>8, <1>9, <1>10, <1>11 DEF Reload

\* The invariant holds always.
THEOREM Invariance == Spec => []IInv
<1>1. IInv /\ [Next]_vars => IInv'
  <2> SUFFICES ASSUME IInv, [Next]_vars PROVE IInv'
    OBVIOUS
  <2>1. CASE Next
    BY <2>1, InvOfAround, InvOfTLS, InvOfReload DEF Next, Around
  <2>2. CASE UNCHANGED vars
    BY <2>2 DEF vars, tlsVars, reloadVars, watcherVars, appliedVars, outsideVars, IInv, TypeOK,
                TLSTypeOK, ServesWholePairs, ActiveLives, ReloadKnows, Applied
  <2> QED
    BY <2>1, <2>2
<1> QED
  BY InitIInv, <1>1, PTL DEF Spec

-----------------------------------------------------------------------------
(* What follows from it.                                                   *)

\* The types, and the mutex: it is held exactly by the goroutine that applies a
\* configuration (reloader.go 143-193).
THEOREM ReloadTypes == Spec => []TypeOK
<1>1. IInv => TypeOK
  BY DEF IInv
<1> QED
  BY <1>1, Invariance, PTL

\* Whatever manager a handshake was given, it finds a certificate and the key that
\* fits it (manager.go 91-98, 124-158).
THEOREM HandshakesFindPairs == Spec => []ServesWholePairs
<1>1. IInv => ServesWholePairs
  BY DEF IInv
<1> QED
  BY <1>1, Invariance, PTL

\* Between reloads a status without an error means that what runs is the current
\* configuration (reloader.go 143-193).
THEOREM StatusIsTrue == Spec => []StatusTellsTheTruth
<1>1. IInv => StatusTellsTheTruth
  BY DEF IInv, ReloadKnows, StatusTellsTheTruth
<1> QED
  BY <1>1, Invariance, PTL
=============================================================================
