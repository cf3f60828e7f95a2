---------------------------- MODULE ConfigReload ----------------------------
(***************************************************************************)
(* Reloading the configuration file: internal/config reloader.go and       *)
(* runtime_policy.go, with the callbacks of cmd/gateway/main.go.           *)
(*                                                                         *)
(* Two goroutines reload: the watcher, which polls the file, waits for it  *)
(* to rest and decides by comparing hashes; and the signal goroutine, on   *)
(* SIGHUP.  Each holds Reloader.mu throughout its reload, but the watcher  *)
(* reads the file before it takes the lock to decide, and lets go of it    *)
(* between deciding and reloading, when the file is read again.  A reload  *)
(* applies the backends, the certificate and the admin token in this       *)
(* order, and stops at the first that fails.                               *)
(*                                                                         *)
(* A content of the file stands for its hash; the file can always be read. *)
(* The gateway serves TLS; if it does not, the certificate's part of a     *)
(* reload does nothing.                                                    *)
(***************************************************************************)
EXTENDS TLSRuntime

CONSTANTS
  Contents,      \* contents the file can have
  StartContent,  \* the content read at start
  Config,        \* Config[c], what Load makes of c
  MaxEdits,      \* bound: edits of the file
  HasRows,       \* the table backend_configs has rows
  MaxSignals     \* bound: SIGHUPs sent

Goroutines == {"watcher", "signal"}
Free == "free"
NoContent == "none"
Administered == "administered"

\* "fixed" stands for the fields that need a restart, whether TLS is enabled
\* among them.
ConfigSet ==
  [valid : BOOLEAN, fixed : Int, token : Int, path : Paths, backends : Int]

ASSUME ReloadAssumption ==
  /\ NoContent \notin Contents /\ StartContent \in Contents
  /\ Config \in [Contents -> ConfigSet]
  /\ Config[StartContent].valid
  /\ HasRows \in BOOLEAN
  /\ MaxEdits \in Nat /\ MaxSignals \in Nat
  /\ MaxManagers >= 1 + MaxEdits + MaxSignals

VARIABLES
  file,       \* the content of the file
  at,         \* at[g], where goroutine g is
  lock,       \* who holds Reloader.mu
  seen,       \* what the watcher's poll has read, until it has decided
  last,       \* lastHash, NoContent before hasHash
  pending,    \* pendingHash while pending, else NoContent
  ripe,       \* the debounce time since pendingSince is over
  attempted,  \* attemptedHash, NoContent before hasAttemptedHash
  next,       \* the configuration being applied, if one is
  certRead,   \* the certificate UpdatePaths has read, its key not yet
  current,    \* Reloader.current
  lastError,  \* status.LastError is not empty
  token,      \* the admin token in use
  routed,     \* whose backends are routed to: a content's, or Administered
  loaded,     \* history: what the last reload has read
  queued,     \* a SIGHUP waits in sigCh
  edits, hups

watcherVars == <<seen, last, pending, ripe, attempted>>
appliedVars == <<current, lastError, token, routed>>
outsideVars == <<file, queued, edits, hups>>
reloadVars == <<at, lock, watcherVars, next, certRead, appliedVars, loaded, outsideVars>>
vars == <<tlsVars, reloadVars>>

Init ==
  /\ TLSInit(Config[StartContent].path)
  /\ file = StartContent
  /\ at = [g \in Goroutines |-> "waiting"] /\ lock = Free
  /\ seen = NoContent /\ last = NoContent /\ pending = NoContent
  /\ ripe = FALSE /\ attempted = NoContent
  /\ next = NoContent /\ certRead = NoVersion
  /\ current = StartContent /\ lastError = FALSE
  /\ token = Config[StartContent].token
  /\ routed = IF HasRows THEN Administered ELSE StartContent
  /\ loaded = StartContent
  /\ queued = FALSE /\ edits = 0 /\ hups = 0

-----------------------------------------------------------------------------
(* The watcher: pollAndMaybeReload.                                        *)

Poll ==
  /\ at["watcher"] = "waiting"
  /\ at' = [at EXCEPT !["watcher"] = "polled"]
  /\ seen' = file
  /\ UNCHANGED <<tlsVars, lock, last, pending, ripe, attempted, next, certRead,
                 appliedVars, loaded, outsideVars>>

\* A poll takes the time when it has read the file.
Debounce ==
  /\ at["watcher"] = "waiting"
  /\ pending # NoContent /\ ~ripe
  /\ ripe' = TRUE
  /\ UNCHANGED <<tlsVars, at, lock, seen, last, pending, attempted, next, certRead,
                 appliedVars, loaded, outsideVars>>

\* Fault: the decision keeps the lock.
KeepsLock == "watcher"
AfterDecision == Free

\* Fault: a content that was the baseline once counts as attempted.
AttemptedOrBaseline(c) == attempted # NoContent
AlreadyAttempted(c) == attempted = c

Baseline ==
  /\ last = NoContent
  /\ last' = seen
  /\ at' = [at EXCEPT !["watcher"] = "waiting"]
  /\ UNCHANGED <<lock, pending, ripe>>

Compare ==
  /\ last # NoContent
  /\ last' = seen
  /\ pending' = IF seen # last THEN seen ELSE pending
  /\ ripe' = (ripe /\ seen = last)
  /\ IF pending' # NoContent /\ ripe' /\ ~AlreadyAttempted(pending')
     THEN at' = [at EXCEPT !["watcher"] = "reload"] /\ lock' = AfterDecision
     ELSE at' = [at EXCEPT !["watcher"] = "waiting"] /\ UNCHANGED lock

Decide ==
  /\ at["watcher"] = "polled"
  /\ lock = Free
  /\ Baseline \/ Compare
  /\ seen' = NoContent
  /\ UNCHANGED <<tlsVars, attempted, next, certRead, appliedVars, loaded, outsideVars>>

\* Whatever came of the reload, its content is not tried again.
Record ==
  /\ at["watcher"] = "record"
  /\ lock = Free
  /\ attempted' = pending
  /\ pending' = NoContent
  /\ ripe' = FALSE
  /\ at' = [at EXCEPT !["watcher"] = "waiting"]
  /\ UNCHANGED <<tlsVars, lock, seen, last, next, certRead, appliedVars, loaded,
                 outsideVars>>

-----------------------------------------------------------------------------
(* The signal goroutine; sigCh has room for one signal.                    *)

SendHup ==
  /\ hups < MaxSignals /\ hups' = hups + 1
  /\ queued' = TRUE
  /\ UNCHANGED <<tlsVars, at, lock, watcherVars, next, certRead, appliedVars, loaded,
                 file, edits>>

TakeHup ==
  /\ at["signal"] = "waiting" /\ queued
  /\ queued' = FALSE
  /\ at' = [at EXCEPT !["signal"] = "reload"]
  /\ UNCHANGED <<tlsVars, lock, watcherVars, next, certRead, appliedVars, loaded,
                 file, edits, hups>>

-----------------------------------------------------------------------------
(* reload, by goroutine g.                                                 *)

Rejected(c) == ~Config[c].valid \/ Config[c].fixed # Config[current].fixed

Leave(g) ==
  /\ lock' = Free
  /\ at' = [at EXCEPT ![g] = IF g = "watcher" THEN "record" ELSE "waiting"]

\* Load and ValidateRuntimeChange.
LoadFile(g) ==
  /\ at[g] = "reload"
  /\ lock = Free
  /\ loaded' = file
  /\ IF Rejected(file)
     THEN Leave(g) /\ lastError' = TRUE /\ UNCHANGED next
     ELSE /\ lock' = g
          /\ at' = [at EXCEPT ![g] = "backends"]
          /\ next' = file
          /\ UNCHANGED lastError
  /\ UNCHANGED <<tlsVars, watcherVars, certRead, current, token, routed, outsideVars>>

\* Fault: the error is logged and forgotten.
NoErrorReported == FALSE
ErrorReported == TRUE

\* Any callback's error ends the reload; what was applied before stays.
Fail(g) ==
  /\ lastError' = ErrorReported
  /\ next' = NoContent
  /\ Leave(g)
  /\ UNCHANGED <<tlsVars, current, token>>

\* applyReloadBackends: the table, if it has rows, is authoritative.  None of its upserts
\* fails: an address that does not parse was refused when the file was loaded
\* (config.go:287).  A removal would only fail if the dashboard had just removed the same
\* backend; the dashboard is in Administration.
ApplyBackends(g) ==
  /\ at[g] = "backends"
  /\ routed' = IF HasRows THEN routed ELSE next
  /\ at' = [at EXCEPT ![g] = "cert"]
  /\ UNCHANGED <<tlsVars, lock, watcherVars, next, certRead, current, lastError, token,
                 loaded, outsideVars>>

\* The table cannot be read.
ApplyBackendsFails(g) ==
  /\ at[g] = "backends"
  /\ Fail(g)
  /\ UNCHANGED <<watcherVars, certRead, routed, loaded, outsideVars>>

\* ApplyTLSPaths: a new manager's LoadInitial.
ReadNewCert(g) ==
  /\ at[g] = "cert"
  /\ certRead' = certFile[Config[next].path]
  /\ at' = [at EXCEPT ![g] = "key"]
  /\ UNCHANGED <<tlsVars, lock, watcherVars, next, appliedVars, loaded, outsideVars>>

\* SetManager, then ApplyAdminTokenHash and the new current configuration.
Commit(g) ==
  /\ SetManager(Config[next].path, certRead, keyFile[Config[next].path])
  /\ UNCHANGED <<certFile, keyFile, writes>>
  /\ token' = Config[next].token
  /\ current' = next
  /\ lastError' = FALSE
  /\ next' = NoContent
  /\ Leave(g)

ReadNewKey(g) ==
  /\ at[g] = "key"
  /\ IF KeyFits(certRead, keyFile[Config[next].path]) THEN Commit(g) ELSE Fail(g)
  /\ certRead' = NoVersion
  /\ UNCHANGED <<watcherVars, routed, loaded, outsideVars>>

-----------------------------------------------------------------------------
(* Outside: the file is edited; certificates are renewed and watched.      *)

Edit(c) ==
  /\ edits < MaxEdits /\ edits' = edits + 1
  /\ c # file
  /\ file' = c
  /\ UNCHANGED <<tlsVars, at, lock, watcherVars, next, certRead, appliedVars, loaded,
                 queued, hups>>

Reload(g) ==
  \/ LoadFile(g)
  \/ ApplyBackends(g) \/ ApplyBackendsFails(g)
  \/ ReadNewCert(g) \/ ReadNewKey(g)

Next ==
  \/ Poll \/ Debounce \/ Decide \/ Record
  \/ SendHup \/ TakeHup
  \/ \E g \in Goroutines : Reload(g)
  \/ \E c \in Contents : Edit(c)
  \/ TLSNext /\ UNCHANGED reloadVars

Spec == Init /\ [][Next]_vars

\* The tickers go on, the time of the debounce passes, reads return and the
\* mutex is handed on; a cancelled goroutine's select takes the cancellation
\* sooner or later.
Fairness ==
  /\ WF_vars(Poll) /\ WF_vars(Decide) /\ WF_vars(Record)
  /\ SF_vars(Debounce)
  /\ WF_vars(TakeHup)
  /\ \A g \in Goroutines : WF_vars(Reload(g))
  /\ \A m \in Managers :
       /\ WF_vars((ReadCert(m) \/ ReadKey(m)) /\ UNCHANGED reloadVars)
       /\ SF_vars(EndRun(m) /\ UNCHANGED reloadVars)

FairSpec == Spec /\ Fairness

-----------------------------------------------------------------------------
(* Properties.                                                             *)

\* Among the types: the mutex is held by the goroutine that is applying a
\* configuration, and by nobody else.
TypeOK ==
  /\ TLSTypeOK
  /\ {file, current, loaded} \subseteq Contents
  /\ {seen, last, pending, attempted, next} \subseteq Contents \cup {NoContent}
  /\ routed \in Contents \cup {Administered}
  /\ at \in [Goroutines ->
       {"waiting", "polled", "reload", "backends", "cert", "key", "record"}]
  /\ lock \in Goroutines \cup {Free}
  /\ \A g \in Goroutines : lock = g <=> at[g] \in {"backends", "cert", "key"}
  /\ certRead \in Versions \cup {NoVersion}
  /\ {ripe, lastError, queued} \subseteq BOOLEAN
  /\ token \in Int
  /\ edits \in 0..MaxEdits /\ hups \in 0..MaxSignals

Applied(c) ==
  /\ token = Config[c].token
  /\ mgr[active].path = Config[c].path
  /\ routed # Administered => Config[routed].backends = Config[c].backends

\* Between reloads, if the status shows no error, what runs is the current
\* configuration, whatever was applied partly before (reloader.go 143-193 and the
\* dashboard's reload status card).
StatusTellsTheTruth ==
  lock = Free /\ ~lastError => Applied(current)

\* After a SIGHUP the file is read, and what it holds for good is loaded, however
\* the watcher's own reload is under way (main.go 328-350).
HupLoadsTheFile == queued ~> loaded = file

\* A lasting edit is loaded by the watcher if its content is neither the last
\* polled nor the last attempted, whatever reloads and edits come in between
\* (reloader.go 96-141).
LastingEditIsLoaded ==
  \A c \in Contents :
    (last \notin {NoContent, c} /\ attempted # c /\ file = c) ~> (loaded = c \/ file # c)

=============================================================================
