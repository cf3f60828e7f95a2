----------------------------- MODULE TLSRuntime -----------------------------
(***************************************************************************)
(* The server's certificate: internal/tlsruntime manager.go, provider.go.  *)
(*                                                                         *)
(* A Manager watches one pair of paths with a goroutine of its own.  The   *)
(* provider hands its handshakes to one manager and replaces it when the   *)
(* configuration is reloaded; the old one's goroutine is cancelled, not    *)
(* waited for.  The certificate and its key are two files, read one after  *)
(* the other while somebody replaces them.  A slot of mgr whose goroutine  *)
(* has ended is used again.                                                *)
(***************************************************************************)
EXTENDS Integers

CONSTANTS
  Paths,        \* pairs of paths, tls_cert_path with tls_key_path
  Versions,     \* certificates, each with the key that fits it
  NoVersion,    \* nothing read or loaded
  Renewed,      \* bound: the pairs of paths whose files are replaced
  MaxManagers,  \* bound: managers with a goroutine at one time
  MaxWrites     \* bound: writes of a certificate or key file

Managers == 1..MaxManagers

ASSUME TLSAssumption ==
  /\ Paths # {} /\ Renewed \subseteq Paths /\ Versions # {}
  /\ NoVersion \notin Versions
  /\ MaxManagers \in Nat \ {0} /\ MaxWrites \in Nat

VARIABLES
  certFile,  \* certFile[p], whose certificate the file at p holds
  keyFile,   \* keyFile[p], whose key
  mgr,       \* mgr[m], a Manager and its goroutine
  active,    \* CertificateProvider.manager
  writes     \* writes made

tlsVars == <<certFile, keyFile, mgr, active, writes>>

\* "cert" and "key" are loaded, and are what the fingerprint is of; "read" is a
\* certificate read whose key is not read yet; "live" until it is cancelled.
Manager ==
  [path : Paths,
   cert : Versions \cup {NoVersion},
   key  : Versions \cup {NoVersion},
   pc   : {"ended", "waiting", "reading"},
   read : Versions \cup {NoVersion},
   live : BOOLEAN]

\* The check of tls.X509KeyPair.  Fault: any two files will do.
AnyKeyFits(c, k) == TRUE
KeyFits(c, k) == c = k

\* Fault: the context given to a new manager is cancelled already.
StartedCancelled(p, c, k) ==
  [path |-> p, cert |-> c, key |-> k, pc |-> "waiting", read |-> NoVersion,
   live |-> FALSE]

\* A manager after LoadInitial, with its goroutine started.
Started(p, c, k) ==
  [path |-> p, cert |-> c, key |-> k, pc |-> "waiting", read |-> NoVersion,
   live |-> TRUE]

Ended == [path |-> CHOOSE p \in Paths : TRUE, cert |-> NoVersion, key |-> NoVersion,
          pc |-> "ended", read |-> NoVersion, live |-> FALSE]

\* All files hold a pair, and the manager made at start has loaded it.
TLSInit(path) ==
  /\ certFile = [p \in Paths |-> CHOOSE v \in Versions : TRUE]
  /\ keyFile = certFile
  /\ mgr = [m \in Managers |->
       IF m = 1 THEN Started(path, certFile[path], keyFile[path]) ELSE Ended]
  /\ active = 1
  /\ writes = 0

-----------------------------------------------------------------------------
(* Manager.Run and reloadIfChanged.                                        *)

\* A tick.  A cancelled goroutine may still take one: select chooses at random.
ReadCert(m) ==
  /\ mgr[m].pc = "waiting"
  /\ mgr' = [mgr EXCEPT ![m].pc = "reading", ![m].read = certFile[mgr[m].path]]
  /\ UNCHANGED <<certFile, keyFile, active, writes>>

\* A pair that does not fit leaves what was loaded before.
Reloaded(b, k) ==
  IF KeyFits(b.read, k) THEN [b EXCEPT !.cert = b.read, !.key = k] ELSE b

ReadKey(m) ==
  /\ mgr[m].pc = "reading"
  /\ mgr' = [mgr EXCEPT ![m] =
       [Reloaded(@, keyFile[mgr[m].path]) EXCEPT !.pc = "waiting", !.read = NoVersion]]
  /\ UNCHANGED <<certFile, keyFile, active, writes>>

EndRun(m) ==
  /\ mgr[m].pc = "waiting" /\ ~mgr[m].live
  /\ mgr' = [mgr EXCEPT ![m] = Ended]
  /\ UNCHANGED <<certFile, keyFile, active, writes>>

-----------------------------------------------------------------------------
(* CertificateProvider.SetManager: the old goroutine is cancelled.         *)

\* Fault: the old goroutine is not cancelled.
NotCancelled(b) == b
Cancelled(b) == [b EXCEPT !.live = FALSE]

SetManager(p, c, k) ==
  \E m \in Managers :
    /\ mgr[m].pc = "ended"
    /\ \A n \in 1..(m - 1) : mgr[n].pc # "ended"
    /\ mgr' = [mgr EXCEPT ![active] = Cancelled(@), ![m] = Started(p, c, k)]
    /\ active' = m

-----------------------------------------------------------------------------
(* Whoever renews the certificate writes the two files in either order.    *)

WriteCert(p, v) ==
  /\ writes < MaxWrites /\ writes' = writes + 1
  /\ certFile[p] # v
  /\ certFile' = [certFile EXCEPT ![p] = v]
  /\ UNCHANGED <<keyFile, mgr, active>>

WriteKey(p, v) ==
  /\ writes < MaxWrites /\ writes' = writes + 1
  /\ keyFile[p] # v
  /\ keyFile' = [keyFile EXCEPT ![p] = v]
  /\ UNCHANGED <<certFile, mgr, active>>

TLSNext ==
  \/ \E m \in Managers : ReadCert(m) \/ ReadKey(m) \/ EndRun(m)
  \/ \E p \in Renewed, v \in Versions : WriteCert(p, v) \/ WriteKey(p, v)

-----------------------------------------------------------------------------
(* Properties.                                                             *)

TLSTypeOK ==
  /\ certFile \in [Paths -> Versions] /\ keyFile \in [Paths -> Versions]
  /\ mgr \in [Managers -> Manager]
  /\ active \in Managers
  /\ writes \in 0..MaxWrites

\* Whatever handshake holds whatever manager, it finds a certificate with the key
\* that fits it, though the files are replaced one after the other and reload
\* builds managers meanwhile (manager.go 91-98, 124-158).
ServesWholePairs ==
  /\ mgr[active].pc # "ended"
  /\ \A m \in Managers : mgr[m].pc # "ended" =>
       mgr[m].cert # NoVersion /\ mgr[m].cert = mgr[m].key

\* Once the files rest, handshakes use what they hold if it is a whole pair, on
\* whatever paths the last reload left ("New TLS handshakes use updated
\* certificates after the files change", README.md:199).
CertificateFollowsFiles ==
  <>[](LET p == mgr[active].path
       IN  KeyFits(certFile[p], keyFile[p]) =>
             mgr[active].cert = certFile[p] /\ mgr[active].key = keyFile[p])

\* Once the reloads are over, only the goroutine of the provider's manager is
\* left (provider.go 89-101).
OldWatchersEnd ==
  <>[](\A m \in Managers \ {active} : mgr[m].pc = "ended")
=============================================================================
