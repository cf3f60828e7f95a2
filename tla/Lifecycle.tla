----------------------------- MODULE Lifecycle -----------------------------
(***************************************************************************)
(* The end of the gateway process, cmd/gateway/main.go, around the usage   *)
(* logger.  Three parties act: the request handlers, which log at most one *)
(* record each before they return (proxy/handler.go 43-108); the signal    *)
(* goroutine, which shuts the server down and then the logger; and the     *)
(* main goroutine, which leaves ListenAndServe as soon as the shutdown     *)
(* begins, runs its deferred dbStore.Close and returns.  Whoever reaches   *)
(* its end first ends the process.                                         *)
(***************************************************************************)
EXTENDS UsageLogger

VARIABLES
  phase,     \* phase[c]: "none", "active" in its handler, "logged" has called Log
  server,    \* "open", or "closing" once Shutdown was called
  signal,    \* where the signal goroutine is
  main,      \* where the main goroutine is
  dbOpen,    \* the database is open
  timedOut,  \* the 30 s of shutdownCtx are over
  exited     \* who ended the process: "no", "signal" or "main"

processVars == <<server, signal, main, dbOpen, timedOut, exited>>
vars == <<loggerVars, phase, processVars>>

Init ==
  /\ LoggerInit
  /\ phase = [c \in Callers |-> "none"]
  /\ server = "open" /\ signal = "waiting" /\ main = "serving"
  /\ dbOpen = TRUE /\ timedOut = FALSE /\ exited = "no"

Running == exited = "no"

-----------------------------------------------------------------------------
(* Request handlers.                                                       *)

Arrive(c) ==
  /\ Running
  /\ server = "open"
  /\ phase[c] = "none" /\ issued[c] < MaxRecords
  /\ phase' = [phase EXCEPT ![c] = "active"]
  /\ UNCHANGED <<loggerVars, processVars>>

CallLog(c) ==
  /\ Running
  /\ phase[c] = "active"
  /\ Enqueue(c) \/ FindFull(c)
  /\ phase' = [phase EXCEPT ![c] = "logged"]
  /\ UNCHANGED processVars

ContinueLog(c) ==
  /\ Running
  /\ Displace(c) \/ Requeue(c) \/ GiveUp(c)
  /\ UNCHANGED <<phase, processVars>>

\* The handler returns after its call of Log, or without one: the request was
\* refused, or its backend could not be reached.
Finish(c) ==
  /\ Running
  /\ phase[c] # "none" /\ caller[c] = "idle"
  /\ phase' = [phase EXCEPT ![c] = "none"]
  /\ UNCHANGED <<loggerVars, processVars>>

-----------------------------------------------------------------------------
(* The logger's goroutine.  A closed database fails every insert.          *)

RunLogger ==
  /\ Running
  /\ \/ Receive("select") \/ Tick \/ SeeStop \/ TickFires
     \/ Receive("drain") \/ Leave
     \/ dbOpen /\ (Insert \/ SomeInsertFails)
     \/ ~dbOpen /\ InsertFails /\ UNCHANGED failures
  /\ UNCHANGED <<phase, processVars>>

-----------------------------------------------------------------------------
(* The signal goroutine.                                                   *)

\* SIGTERM or SIGINT: srv.Shutdown closes the listeners.
ReceiveSignal ==
  /\ Running
  /\ signal = "waiting"
  /\ signal' = "closing"
  /\ server' = "closing"
  /\ UNCHANGED <<loggerVars, phase, main, dbOpen, timedOut, exited>>

ShutdownTimeout ==
  /\ Running
  /\ signal \in {"closing", "flushing"}
  /\ ~timedOut
  /\ timedOut' = TRUE
  /\ UNCHANGED <<loggerVars, phase, server, signal, main, dbOpen, exited>>

\* Fault: srv.Close instead of srv.Shutdown.
Closed == TRUE
HandlersReturned == \A c \in Callers : phase[c] = "none"

\* srv.Shutdown returns when the handlers have, or with the timeout; then
\* usageLogger.Shutdown is called.
ShutdownLogger ==
  /\ Running
  /\ signal = "closing"
  /\ HandlersReturned \/ timedOut
  /\ signal' = "flushing"
  /\ Shutdown
  /\ UNCHANGED <<phase, server, main, dbOpen, timedOut, exited>>

\* os.Exit(0), when the logger is done or with the timeout.
ExitBySignal ==
  /\ Running
  /\ signal = "flushing"
  /\ runner = "done" \/ timedOut
  /\ exited' = "signal"
  /\ UNCHANGED <<loggerVars, phase, server, signal, main, dbOpen, timedOut>>

-----------------------------------------------------------------------------
(* The main goroutine.                                                     *)

\* ListenAndServe returns ErrServerClosed at once; main runs its deferred
\* dbStore.Close.
CloseDatabase ==
  /\ Running
  /\ main = "serving" /\ server = "closing"
  /\ main' = "returning"
  /\ dbOpen' = FALSE
  /\ UNCHANGED <<loggerVars, phase, server, signal, timedOut, exited>>

ExitByMain ==
  /\ Running
  /\ main = "returning"
  /\ exited' = "main"
  /\ UNCHANGED <<loggerVars, phase, server, signal, main, dbOpen, timedOut>>

-----------------------------------------------------------------------------
ProcessNext ==
  \/ \E c \in Callers : Arrive(c) \/ CallLog(c) \/ ContinueLog(c) \/ Finish(c)
  \/ RunLogger
  \/ ReceiveSignal \/ ShutdownTimeout \/ ShutdownLogger \/ ExitBySignal
  \/ CloseDatabase \/ ExitByMain

ProcessSpec == Init /\ [][ProcessNext]_vars

-----------------------------------------------------------------------------
(* Properties.                                                             *)

ProcessTypeOK ==
  /\ TypeOK
  /\ phase \in [Callers -> {"none", "active", "logged"}]
  /\ server \in {"open", "closing"}
  /\ signal \in {"waiting", "closing", "flushing"}
  /\ main \in {"serving", "returning"}
  /\ dbOpen \in BOOLEAN /\ timedOut \in BOOLEAN
  /\ exited \in {"no", "signal", "main"}

NothingInFlight ==
  /\ \A c \in Callers : phase[c] = "none" /\ caller[c] = "idle"
  /\ ch = <<>> /\ batch = <<>>

\* The signal goroutine's own order is right: if it is what ends the process, and
\* in time, no request is in flight and the logger holds no record (main.go
\* 346-382).
OrderlyExitLeavesNothing ==
  exited = "signal" /\ ~timedOut => NothingInFlight

\* An exit within the timeout leaves no request in flight and no record queued
\* (main.go 320-321, "wait for active requests to complete (30s), then flush
\* usage logger"; docs/specs/05-usage-tracking-spec.md:337).
ExitLeavesNothing ==
  exited # "no" /\ ~timedOut => NothingInFlight
=============================================================================
