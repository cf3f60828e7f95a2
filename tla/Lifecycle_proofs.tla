-------------------------- MODULE Lifecycle_proofs --------------------------
(***************************************************************************)
(* Theorems about Lifecycle, for every number of handlers and records.     *)
(*                                                                         *)
(* The logger inside the process takes no step that the logger on its own  *)
(* could not take, except that the inserts which the closed database fails *)
(* are not counted; so its invariant and its refinement carry over.  What  *)
(* the process adds is an order: the server closes, the handlers return,   *)
(* and only then is the logger told to stop.                               *)
(***************************************************************************)
EXTENDS Lifecycle, UsageLogger_proofs

\* A caller inside Log is a handler that has not returned.
InsideHandlers == \A c \in Callers : caller[c] # "idle" => phase[c] = "logged"

\* The logger is told to stop when the server is closing; if that was in time, no
\* handler is left, and once the channel was found empty it stays so.
OrderlyShutdown ==
  /\ stopped <=> signal = "flushing"
  /\ signal # "waiting" => server = "closing"
  /\ signal = "flushing" /\ ~timedOut =>
       /\ HandlersReturned
       /\ runner = "done" \/ (runner = "insert" /\ resume = "done") => ch = <<>>
  /\ exited = "signal" => signal = "flushing" /\ (runner = "done" \/ timedOut)

ProcessInv == IInv /\ ProcessTypeOK /\ InsideHandlers /\ OrderlyShutdown

-----------------------------------------------------------------------------
\* The initial state satisfies the invariant.
LEMMA ProcessStarts == Init => ProcessInv
<1> SUFFICES ASSUME Init PROVE ProcessInv
  OBVIOUS
<1>1. IInv
  BY InitHolds DEF Init
<1>2. ProcessTypeOK /\ InsideHandlers /\ OrderlyShutdown
  BY <1>1 DEF Init, LoggerInit, IInv, ProcessTypeOK, InsideHandlers, OrderlyShutdown
<1> QED
  BY <1>1, <1>2 DEF ProcessInv

\* Every step of the process is one of the logger or leaves the logger alone.
LEMMA ProcessSteps ==
  ASSUME TypeOK, ProcessNext
  PROVE  (\E c \in Callers : LogStep(c)) \/ RunnerStep \/ UNCHANGED loggerVars
<1>1. ASSUME NEW c \in Callers, Arrive(c) \/ Finish(c) PROVE UNCHANGED loggerVars
  BY <1>1 DEF Arrive, Finish
<1>2. ASSUME NEW c \in Callers, CallLog(c) \/ ContinueLog(c) PROVE LogStep(c)
  BY <1>2 DEF CallLog, ContinueLog, LogStep
<1>3. ASSUME RunLogger PROVE RunnerStep
  <2>1. SomeInsertFails => BatchLost
    BY LoggerAssumption DEF SomeInsertFails, BatchLost, TypeOK
  <2>2. InsertFails /\ UNCHANGED failures => BatchLost
    BY DEF BatchLost, TypeOK
  <2> QED
    BY <1>3, <2>1, <2>2 DEF RunLogger, RunnerStep
<1>4. ASSUME ShutdownLogger PROVE RunnerStep
  BY <1>4 DEF ShutdownLogger, RunnerStep
<1>5. ASSUME ReceiveSignal \/ ShutdownTimeout \/ ExitBySignal \/ CloseDatabase \/ ExitByMain
      PROVE  UNCHANGED loggerVars
  BY <1>5 DEF ReceiveSignal, ShutdownTimeout, ExitBySignal, CloseDatabase, ExitByMain
<1> QED
  BY <1>1, <1>2, <1>3, <1>4, <1>5 DEF ProcessNext

\* The logger's invariant holds in the process.
LEMMA LoggerInProcess ==
  ASSUME IInv, ProcessNext
  PROVE  IInv'
  BY ProcessSteps, LoggerStepKeeps, LoggerAlone DEF IInv

\* The handlers' steps.
LEMMA HandlersKeep ==
  ASSUME ProcessInv, IInv', NEW c \in Callers,
         Arrive(c) \/ CallLog(c) \/ ContinueLog(c) \/ Finish(c)
  PROVE  ProcessTypeOK' /\ InsideHandlers' /\ OrderlyShutdown'
<1> USE DEF ProcessInv
<1>1. TypeOK' /\ TypeOK
  BY DEF IInv
<1>2. CASE Arrive(c)
  <2>1. UNCHANGED <<ch, caller, runner, resume, stopped>> /\ UNCHANGED processVars
    BY <1>2 DEF Arrive, loggerVars, logVars, runVars, stopVars
  <2>2. server = "open" /\ phase' = [phase EXCEPT ![c] = "active"] /\ phase[c] = "none"
    BY <1>2 DEF Arrive
  <2>3. signal = "waiting"
    BY <2>2 DEF OrderlyShutdown, ProcessTypeOK
  <2>4. ProcessTypeOK'
    BY <1>1, <2>1, <2>2 DEF ProcessTypeOK, processVars
  <2>5. InsideHandlers'
    BY <2>1, <2>2 DEF InsideHandlers, ProcessTypeOK
  <2>6. OrderlyShutdown'
    BY <2>1, <2>3 DEF OrderlyShutdown, processVars
  <2> QED
    BY <2>4, <2>5, <2>6
<1>3. CASE CallLog(c)
  <2>1. UNCHANGED <<runner, resume, stopped>> /\ UNCHANGED processVars
    BY <1>3 DEF CallLog, Enqueue, FindFull, runVars, stopVars
  <2>2. /\ phase[c] = "active" /\ phase' = [phase EXCEPT ![c] = "logged"]
        /\ \A d \in Callers : d # c => caller'[d] = caller[d]
    BY <1>1, <1>3 DEF CallLog, Enqueue, FindFull, TypeOK
  <2>3. ~(signal = "flushing" /\ ~timedOut)
    BY <2>2 DEF OrderlyShutdown, HandlersReturned
  <2>4. ProcessTypeOK'
    BY <1>1, <2>1, <2>2 DEF ProcessTypeOK, processVars
  <2>5. InsideHandlers'
    BY <2>2 DEF InsideHandlers, ProcessTypeOK
  <2>6. OrderlyShutdown'
    BY <2>1, <2>3 DEF OrderlyShutdown, processVars
  <2> QED
    BY <2>4, <2>5, <2>6
<1>4. CASE ContinueLog(c)
  <2>1. UNCHANGED <<runner, resume, stopped, phase>> /\ UNCHANGED processVars
    BY <1>4 DEF ContinueLog, Displace, Requeue, GiveUp, runVars, stopVars
  <2>2. /\ caller[c] # "idle"
        /\ \A d \in Callers : d # c => caller'[d] = caller[d]
    BY <1>1, <1>4 DEF ContinueLog, Displace, Requeue, GiveUp, TypeOK
  <2>3. phase[c] = "logged" /\ ~(signal = "flushing" /\ ~timedOut)
    BY <2>2 DEF InsideHandlers, OrderlyShutdown, HandlersReturned
  <2>4. ProcessTypeOK'
    BY <1>1, <2>1 DEF ProcessTypeOK, processVars
  <2>5. InsideHandlers'
    BY <2>1, <2>2, <2>3 DEF InsideHandlers
  <2>6. OrderlyShutdown'
    BY <2>1, <2>3 DEF OrderlyShutdown, processVars
  <2> QED
    BY <2>4, <2>5, <2>6
<1>5. CASE Finish(c)
  <2>1. UNCHANGED <<ch, caller, runner, resume, stopped>> /\ UNCHANGED processVars
    BY <1>5 DEF Finish, loggerVars, logVars, runVars, stopVars
  <2>2. phase' = [phase EXCEPT ![c] = "none"] /\ phase[c] # "none" /\ caller[c] = "idle"
    BY <1>5 DEF Finish
  <2>3. ProcessTypeOK'
    BY <1>1, <2>1, <2>2 DEF ProcessTypeOK, processVars
  <2>4. InsideHandlers'
    BY <2>1, <2>2 DEF InsideHandlers, ProcessTypeOK
  <2>5. OrderlyShutdown'
    <3>1. ~(signal = "flushing" /\ ~timedOut)
      BY <2>2 DEF OrderlyShutdown, HandlersReturned
    <3> QED
      BY <2>1, <3>1 DEF OrderlyShutdown, processVars
  <2> QED
    BY <2>3, <2>4, <2>5
<1> QED
  BY <1>2, <1>3, <1>4, <1>5

\* The logger's own steps: without callers the channel only empties, and the
\* drain ends when it has.
LEMMA RunnerKeeps ==
  ASSUME ProcessInv, IInv', RunLogger
  PROVE  ProcessTypeOK' /\ InsideHandlers' /\ OrderlyShutdown'
<1> USE DEF ProcessInv
<1>1. TypeOK' /\ TypeOK
  BY DEF IInv
<1>2. UNCHANGED <<caller, stopped, phase>> /\ UNCHANGED processVars /\ exited = "no"
  BY DEF RunLogger, Receive, Tick, SeeStop, TickFires, Leave, Insert, SomeInsertFails,
         InsertFails, logVars, stopVars, Running
<1>3. ProcessTypeOK'
  BY <1>1, <1>2 DEF ProcessTypeOK, processVars
<1>4. InsideHandlers'
  BY <1>2 DEF InsideHandlers
<1>5. ASSUME signal = "flushing", ~timedOut,
             runner' = "done" \/ (runner' = "insert" /\ resume' = "done")
      PROVE  ch' = <<>>
  <2>1. runner = "done" \/ (runner = "insert" /\ resume = "done") => ch = <<>>
    BY <1>5 DEF OrderlyShutdown
  <2>2. ASSUME NEW here \in {"select", "drain"}, Receive(here) PROVE FALSE
    BY <1>5, <2>1, <2>2 DEF Receive, Flush
  <2>3. ~Tick
    BY <1>5 DEF Tick, Flush
  <2>4. ~SeeStop
    BY <1>5 DEF SeeStop, Flush, AfterStop
  <2>5. CASE TickFires
    BY <1>5, <2>1, <2>5 DEF TickFires, logVars
  <2>6. CASE Leave
    BY <2>6 DEF Leave, logVars
  <2>7. CASE Insert \/ InsertFails
    BY <1>1, <1>5, <2>1, <2>7 DEF Insert, InsertFails, logVars, TypeOK
  <2> QED
    BY <2>2, <2>3, <2>4, <2>5, <2>6, <2>7 DEF RunLogger, SomeInsertFails
<1>6. OrderlyShutdown'
  BY <1>2, <1>5 DEF OrderlyShutdown, HandlersReturned, processVars
<1> QED
  BY <1>3, <1>4, <1>6

\* The steps of the signal goroutine and of the main goroutine.
LEMMA ShutdownKeeps ==
  ASSUME ProcessInv, IInv',
         \/ ReceiveSignal \/ ShutdownTimeout \/ ShutdownLogger \/ ExitBySignal
         \/ CloseDatabase \/ ExitByMain
  PROVE  ProcessTypeOK' /\ InsideHandlers' /\ OrderlyShutdown'
<1> USE DEF ProcessInv
<1>1. TypeOK' /\ TypeOK
  BY DEF IInv
<1>2. UNCHANGED <<ch, caller, runner, resume, phase>>
  BY DEF ReceiveSignal, ShutdownTimeout, ShutdownLogger, ExitBySignal, CloseDatabase,
         ExitByMain, Shutdown, loggerVars, logVars, runVars, stopVars
<1>3. ProcessTypeOK'
  BY <1>1, <1>2 DEF ProcessTypeOK, ReceiveSignal, ShutdownTimeout, ShutdownLogger,
                    ExitBySignal, CloseDatabase, ExitByMain
<1>4. InsideHandlers'
  BY <1>2 DEF InsideHandlers
<1>5. CASE ShutdownLogger
  <2>1. /\ Running /\ signal = "closing" /\ (HandlersReturned \/ timedOut)
        /\ signal' = "flushing" /\ stopped' /\ ~stopped
        /\ UNCHANGED <<server, timedOut, exited>>
    BY <1>5 DEF ShutdownLogger, Shutdown
  <2>2. runner \in {"select", "insert"} /\ resume = "select"
    BY <2>1 DEF IInv, Stopping
  <2>3. server = "closing" /\ exited = "no"
    BY <2>1 DEF OrderlyShutdown, Running
  <2>4. runner' \in {"select", "insert"} /\ resume' = "select" /\ server' = "closing"
        /\ exited' = "no"
    BY <1>2, <2>1, <2>2, <2>3
  <2>5. ~timedOut' => HandlersReturned'
    BY <1>2, <2>1 DEF HandlersReturned
  <2>6. OrderlyShutdown'
    BY <2>1, <2>4, <2>5 DEF OrderlyShutdown
  <2> QED
    BY <1>3, <1>4, <2>6
<1>6. CASE ~ShutdownLogger
  <2>1. OrderlyShutdown'
    BY <1>2, <1>6 DEF OrderlyShutdown, HandlersReturned, Running, ReceiveSignal,
       ShutdownTimeout, ExitBySignal, CloseDatabase, ExitByMain, loggerVars, stopVars
  <2> QED
    BY <1>3, <1>4, <2>1
<1> QED
  BY <1>5, <1>6

\* ProcessInv is inductive.
LEMMA ProcessInvariance == ProcessSpec => []ProcessInv
<1>1. Init => ProcessInv
  BY ProcessStarts
<1>2. ProcessInv /\ [ProcessNext]_vars => ProcessInv'
  <2> SUFFICES ASSUME ProcessInv, [ProcessNext]_vars PROVE ProcessInv'
    OBVIOUS
  <2>1. CASE ProcessNext
    <3>1. IInv'
      BY <2>1, LoggerInProcess DEF ProcessInv
    <3>2. ProcessTypeOK' /\ InsideHandlers' /\ OrderlyShutdown'
      BY <2>1, <3>1, HandlersKeep, RunnerKeeps, ShutdownKeeps DEF ProcessNext
    <3> QED
      BY <3>1, <3>2 DEF ProcessInv
  <2>2. CASE UNCHANGED vars
    <3>1. UNCHANGED loggerVars /\ UNCHANGED phase /\ UNCHANGED processVars
      BY <2>2 DEF vars
    <3>2. IInv'
      BY <3>1, LoggerAlone DEF ProcessInv
    <3>3. TypeOK'
      BY <3>2 DEF IInv
    <3>4. ProcessTypeOK' /\ InsideHandlers' /\ OrderlyShutdown'
      BY <3>1, <3>3 DEF ProcessInv, ProcessTypeOK, InsideHandlers, OrderlyShutdown,
         HandlersReturned, loggerVars, logVars, runVars, stopVars, processVars
    <3> QED
      BY <3>2, <3>4 DEF ProcessInv
  <2> QED
    BY <2>1, <2>2
<1> QED
  BY <1>1, <1>2, PTL DEF ProcessSpec

-----------------------------------------------------------------------------
(* The properties.                                                         *)

\* Every variable of the process keeps its type, the logger's capacities included.
THEOREM ProcessTypes == ProcessSpec => []ProcessTypeOK
<1>1. ProcessInv => ProcessTypeOK
  BY DEF ProcessInv
<1> QED
  BY <1>1, ProcessInvariance, PTL

\* Whatever the shutdown interrupts, and when the database closes, every record
\* logged is in exactly one place.
THEOREM ProcessRecordsOnce == ProcessSpec => []EveryRecordOnce
<1>1. ProcessInv => EveryRecordOnce
  BY OnceInOnePlace DEF ProcessInv
<1> QED
  BY <1>1, ProcessInvariance, PTL

\* If the signal goroutine ends the process in time, no request is in flight and
\* the logger holds no record.
THEOREM OrderlyExit == ProcessSpec => []OrderlyExitLeavesNothing
<1>1. ProcessInv => OrderlyExitLeavesNothing
  <2> SUFFICES ASSUME ProcessInv, exited = "signal", ~timedOut PROVE NothingInFlight
    BY DEF OrderlyExitLeavesNothing
  <2>1. signal = "flushing" /\ runner = "done" /\ HandlersReturned /\ ch = <<>>
    BY DEF ProcessInv, OrderlyShutdown
  <2>2. batch = <<>>
    BY <2>1 DEF ProcessInv, IInv, BatchFits
  <2>3. \A c \in Callers : phase[c] = "none" /\ caller[c] = "idle"
    BY <2>1 DEF ProcessInv, InsideHandlers, HandlersReturned
  <2> QED
    BY <2>1, <2>2, <2>3 DEF NothingInFlight
<1> QED
  BY <1>1, ProcessInvariance, PTL

\* Inside the process, with handlers that come and go and a database that closes
\* under it, the logger still implements the log of UsageLog.
THEOREM ProcessImplementsLog == ProcessSpec => ImplementsUsageLog
<1>1. Init => Log!Init
  <2>1. <<>> \o <<>> = <<>>
    OBVIOUS
  <2> QED
    BY <2>1 DEF Init, LoggerInit, Log!Init
<1>2. ProcessInv /\ [ProcessNext]_vars => [Log!Next]_(Log!vars)
  <2> SUFFICES ASSUME ProcessInv, [ProcessNext]_vars PROVE [Log!Next]_(Log!vars)
    OBVIOUS
  <2>1. CASE UNCHANGED loggerVars
    BY <2>1 DEF loggerVars, logVars, runVars, dbVars, Log!vars
  <2>2. CASE ProcessNext /\ ~UNCHANGED loggerVars
    BY <2>2, ProcessSteps, LogSteps, RunnerSteps DEF ProcessInv, IInv
  <2> QED
    BY <2>1, <2>2 DEF vars
<1> QED
  BY <1>1, <1>2, ProcessInvariance, PTL DEF ProcessSpec, ImplementsUsageLog, Log!Spec

=============================================================================
