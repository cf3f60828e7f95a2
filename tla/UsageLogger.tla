---------------------------- MODULE UsageLogger ----------------------------
(***************************************************************************)
(* The asynchronous usage logger, internal/usage/logger.go, with the batch *)
(* insert of internal/usage/store.go.                                      *)
(*                                                                         *)
(* Request goroutines call Log, which never blocks: each of its channel    *)
(* operations is a step of its own, and between two of them other callers  *)
(* and the background goroutine go on.  The background goroutine selects   *)
(* among stop, a record and a tick, in any order when several are ready;   *)
(* while it inserts a batch the callers keep filling the channel.          *)
(***************************************************************************)
EXTENDS Integers, SequencesExt

CONSTANTS
  Callers,      \* request goroutines
  BufferSize,   \* capacity of the channel
  BatchSize,    \* records per insert
  MaxRecords,   \* bound: records logged by one caller
  MaxFailures   \* bound: inserts that fail

ASSUME LoggerAssumption ==
  /\ BufferSize \in Nat \ {0} /\ BatchSize \in Nat \ {0}
  /\ MaxRecords \in Nat /\ MaxFailures \in Nat

\* A caller's k-th record.
Record == Callers \X (1..MaxRecords)

VARIABLES
  ch,         \* the channel, oldest first
  issued,     \* issued[c], how many records c has logged, the current one included
  caller,     \* where c is inside Log
  batch,      \* the batch of the background goroutine
  runner,     \* where the background goroutine is
  resume,     \* where it goes when the insert is done
  tick,       \* the ticker's channel holds a tick
  stopped,    \* stopCh is closed
  db,         \* rows of usage_records, in insertion order
  displaced,  \* records discarded to make room
  refused,    \* records given up by their caller
  failed,     \* records of failed inserts
  failures,   \* how many inserts failed
  atStop      \* history: what the channel and the batch held when stop was requested

logVars == <<ch, issued, caller, displaced, refused>>
runVars == <<batch, runner, resume, tick>>
dbVars == <<db, failed, failures>>
stopVars == <<stopped, atStop>>
loggerVars == <<logVars, runVars, dbVars, stopVars>>

LoggerInit ==
  /\ ch = <<>>
  /\ issued = [c \in Callers |-> 0]
  /\ caller = [c \in Callers |-> "idle"]
  /\ batch = <<>> /\ runner = "select" /\ resume = "select" /\ tick = FALSE
  /\ stopped = FALSE /\ atStop = {}
  /\ db = <<>> /\ failures = 0
  /\ displaced = {} /\ refused = {} /\ failed = {}

In(s) == {s[i] : i \in 1..Len(s)}

-----------------------------------------------------------------------------
(* Log.                                                                    *)

\* Fault: one record too many.
HasRoomForOneMore == Len(ch) <= BufferSize
HasRoom == Len(ch) < BufferSize

Current(c) == <<c, issued[c]>>
Issue(c) ==
  /\ caller[c] = "idle"
  /\ issued[c] < MaxRecords
  /\ issued' = [issued EXCEPT ![c] = @ + 1]

\* The first send succeeds.
Enqueue(c) ==
  /\ Issue(c)
  /\ HasRoom
  /\ ch' = Append(ch, Current(c)')
  /\ UNCHANGED <<caller, displaced, refused, runVars, dbVars, stopVars>>

FindFull(c) ==
  /\ Issue(c)
  /\ ~HasRoom
  /\ caller' = [caller EXCEPT ![c] = "full"]
  /\ UNCHANGED <<ch, displaced, refused, runVars, dbVars, stopVars>>

\* Whoever drained the channel meanwhile, its oldest record goes.
Displace(c) ==
  /\ caller[c] = "full"
  /\ ch # <<>>
  /\ displaced' = displaced \cup {Head(ch)}
  /\ ch' = Tail(ch)
  /\ caller' = [caller EXCEPT ![c] = "freed"]
  /\ UNCHANGED <<issued, refused, runVars, dbVars, stopVars>>

Requeue(c) ==
  /\ caller[c] = "freed"
  /\ HasRoom
  /\ ch' = Append(ch, Current(c))
  /\ caller' = [caller EXCEPT ![c] = "idle"]
  /\ UNCHANGED <<issued, displaced, refused, runVars, dbVars, stopVars>>

\* Nothing to discard, or the room was taken by another caller.
GiveUp(c) ==
  /\ \/ caller[c] = "full" /\ ch = <<>>
     \/ caller[c] = "freed" /\ ~HasRoom
  /\ refused' = refused \cup {Current(c)}
  /\ caller' = [caller EXCEPT ![c] = "idle"]
  /\ UNCHANGED <<ch, issued, displaced, runVars, dbVars, stopVars>>

-----------------------------------------------------------------------------
(* run.                                                                    *)

\* Insert the batch, if there is one, and go on at "then".
Flush(then) ==
  IF batch' = <<>> THEN runner' = then /\ UNCHANGED resume
                   ELSE runner' = "insert" /\ resume' = then

\* Fault: the newest record goes first.
Prepended(b, r) == <<r>> \o b
Appended(b, r) == Append(b, r)

\* A record arrives at the select of "here".
Receive(here) ==
  /\ runner = here
  /\ ch # <<>>
  /\ batch' = Appended(batch, Head(ch))
  /\ ch' = Tail(ch)
  /\ IF Len(batch') >= BatchSize THEN Flush(here) ELSE UNCHANGED <<runner, resume>>
  /\ UNCHANGED <<issued, caller, displaced, refused, tick, dbVars, stopVars>>

TickFires ==
  /\ runner # "done"
  /\ ~tick
  /\ tick' = TRUE
  /\ UNCHANGED <<logVars, batch, runner, resume, dbVars, stopVars>>

\* Fault: a tick flushes nothing.
TickIgnored ==
  /\ runner = "select"
  /\ tick
  /\ tick' = FALSE
  /\ UNCHANGED <<logVars, batch, runner, resume, dbVars, stopVars>>

Tick ==
  /\ runner = "select"
  /\ tick
  /\ tick' = FALSE
  /\ UNCHANGED batch
  /\ Flush("select")
  /\ UNCHANGED <<logVars, dbVars, stopVars>>

\* Faults: the last batch is flushed, what the channel holds is not; the
\* goroutine goes back to its select.
AfterStopLeave == "done"
AfterStopSelect == "select"
AfterStop == "drain"

SeeStop ==
  /\ runner = "select"
  /\ stopped
  /\ UNCHANGED batch
  /\ Flush(AfterStop)
  /\ UNCHANGED <<logVars, tick, dbVars, stopVars>>

\* The drain finds the channel empty.
Leave ==
  /\ runner = "drain"
  /\ ch = <<>>
  /\ UNCHANGED batch
  /\ Flush("done")
  /\ UNCHANGED <<logVars, tick, dbVars, stopVars>>

\* BatchInsert commits.  Fault: the batch is not reset.
NotReset(b) == b
Reset(b) == <<>>

Insert ==
  /\ runner = "insert"
  /\ db' = db \o batch
  /\ batch' = Reset(batch)
  /\ runner' = resume
  /\ UNCHANGED <<logVars, resume, tick, failed, failures, stopVars>>

\* BatchInsert fails and rolls back.  Fault: the first row stays.
RowsKeptPartly == SubSeq(batch, 1, 1)
RowsKept == <<>>

InsertFails ==
  /\ runner = "insert"
  /\ db' = db \o RowsKept
  /\ failed' = failed \cup In(batch)
  /\ batch' = Reset(batch)
  /\ runner' = resume
  /\ UNCHANGED <<logVars, resume, tick, stopVars>>

\* Shutdown closes stopCh, once.
Shutdown ==
  /\ ~stopped
  /\ stopped' = TRUE
  /\ atStop' = In(ch) \cup In(batch)
  /\ UNCHANGED <<logVars, runVars, dbVars>>

-----------------------------------------------------------------------------
(* The logger on its own: callers log whenever they like, Shutdown comes at *)
(* any time, and a bounded number of inserts fail.                          *)

LogStep(c) == Enqueue(c) \/ FindFull(c) \/ Displace(c) \/ Requeue(c) \/ GiveUp(c)

SomeInsertFails ==
  /\ failures < MaxFailures
  /\ failures' = failures + 1
  /\ InsertFails

Next ==
  \/ \E c \in Callers : LogStep(c)
  \/ Receive("select") \/ Tick \/ SeeStop
  \/ Receive("drain") \/ Leave
  \/ Insert \/ SomeInsertFails
  \/ TickFires
  \/ Shutdown

Spec == LoggerInit /\ [][Next]_loggerVars

\* select chooses at random among the ready cases, so a case that is ready again
\* and again is chosen; the other steps of the goroutine, once enabled, stay so.
RunnerFairness ==
  /\ SF_loggerVars(Receive("select"))
  /\ SF_loggerVars(Tick)
  /\ SF_loggerVars(SeeStop)
  /\ WF_loggerVars(Receive("drain"))
  /\ WF_loggerVars(Leave)
  /\ WF_loggerVars(Insert \/ SomeInsertFails)
  /\ WF_loggerVars(TickFires)

FairSpec == Spec /\ RunnerFairness

-----------------------------------------------------------------------------
(* Properties.                                                             *)

\* Among the types: the channel and the batch keep their capacities.
TypeOK ==
  /\ ch \in Seq(Record) /\ Len(ch) <= BufferSize
  /\ issued \in [Callers -> 0..MaxRecords]
  /\ caller \in [Callers -> {"idle", "full", "freed"}]
  /\ batch \in Seq(Record) /\ Len(batch) <= BatchSize
  /\ runner \in {"select", "insert", "drain", "done"}
  /\ resume \in {"select", "drain", "done"}
  /\ tick \in BOOLEAN /\ stopped \in BOOLEAN
  /\ db \in Seq(Record)
  /\ displaced \subseteq Record /\ refused \subseteq Record /\ failed \subseteq Record
  /\ failures \in 0..MaxFailures
  /\ atStop \subseteq Record

InHand == {Current(c) : c \in {d \in Callers : caller[d] # "idle"}}
Issued == {r \in Record : r[2] <= issued[r[1]]}
NoRepeats(s) == \A i, j \in 1..Len(s) : s[i] = s[j] => i = j

\* Whatever callers, ticks, failures and the shutdown do, every record logged is
\* in exactly one place: its caller's hand, the channel, the batch, the table, or
\* one of the three ways to lose it.  None is inserted twice, and none
\* disappears without a message (logger.go 72-110).
EveryRecordOnce ==
  LET places == <<InHand, In(ch), In(batch), In(db), displaced, refused, failed>>
  IN  /\ \A i, j \in 1..Len(places) : i # j => places[i] \cap places[j] = {}
      /\ UNION In(places) = Issued
      /\ NoRepeats(ch) /\ NoRepeats(batch) /\ NoRepeats(db)

\* One caller's records reach the table in the order it logged them, across
\* batches, displacements and retries of the send.
CallerOrderKept ==
  LET pipe == db \o batch \o ch
  IN  \A i, j \in 1..Len(pipe) :
        i < j /\ pipe[i][1] = pipe[j][1] => pipe[i][2] < pipe[j][2]

\* When run has returned, nothing that the logger held when the shutdown was
\* requested is left behind (logger_test.go:94,
\* TestUsageLogger_ShutdownDrainsBufferedRecords).
ShutdownDrains ==
  runner = "done" => atStop \cap (In(ch) \cup In(batch)) = {}

\* A queued record does not wait for ever: it is stored or counted as lost,
\* unless the logger has stopped.
QueuedRecordsSettle ==
  \A r \in Record : r \in In(ch) ~> (r \notin In(ch) \cup In(batch) \/ runner = "done")

\* Shutdown returns: once requested, the drain ends, even if calls of Log that
\* were late for the shutdown still add records.
ShutdownEnds == stopped ~> runner = "done"

Log == INSTANCE UsageLog WITH
         Records <- Record,
         accepted <- batch \o ch,
         stored <- db,
         lost <- displaced \cup refused \cup failed

\* The logger implements the lossy, ordered, exactly-once log of UsageLog.
ImplementsUsageLog == Log!Spec
=============================================================================
