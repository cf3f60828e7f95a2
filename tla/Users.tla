------------------------------- MODULE Users -------------------------------
(***************************************************************************)
(* The users of the gateway (internal/auth/store.go): rows of the table    *)
(* api_users, and the users section of the configuration file behind them. *)
(* Every operation is one SQL statement, except UpdateUser, which reads    *)
(* the row and writes it back in a second statement.  A key and its hash   *)
(* are one value; of a user's settings the model keeps the rate limit,     *)
(* which stands for the model lists and aliases stored with it.            *)
(***************************************************************************)
EXTENDS Naturals

CONSTANTS
  UserIds,      \* user names
  Keys,         \* API keys: those of the configuration files and fresh ones
  Yamls,        \* users sections the file may hold when the gateway starts
  Limits,       \* rate limits that can be given to a user
  Admins,       \* dashboard handlers that run UpdateUser at the same time
  MaxEdits,     \* bound on administrative changes
  MaxRestarts,  \* bound on restarts
  NoRow, NoLimit, NoEdit, Nobody, NoUser  \* model values outside the sets above

\* The settings of a user, in the file or in a row.
UserConfig == [key : Keys, limit : Limits \cup {NoLimit}]

\* A row; active stands for disabled_at IS NULL.
Row == [key : Keys, limit : Limits \cup {NoLimit}, active : BOOLEAN]

Edit == [user : UserIds, key : Keys, limit : Limits \cup {NoLimit}]

\* A users section gives settings to some of the users.
Section == UNION {[S -> UserConfig] : S \in SUBSET UserIds}

\* Whoever writes the file gives every user a key of his own, and keeps giving
\* it to the same user.
ASSUME UsersAssumption ==
  /\ Yamls \subseteq Section /\ Yamls # {}
  /\ \A y, z \in Yamls : \A u \in DOMAIN y, v \in DOMAIN z : y[u].key = z[v].key => u = v
  /\ NoRow \notin Row /\ NoEdit \notin Edit
  /\ Nobody \notin UserIds /\ NoUser \notin UserConfig /\ NoLimit \notin Limits
  /\ MaxEdits \in Nat /\ MaxRestarts \in Nat

VARIABLES
  rows,      \* the table, by user
  config,    \* the users section read at start
  editing,   \* UpdateUser between its two statements, by handler
  owner,     \* history: whom a key was issued to
  edits, restarts  \* counters for the bounds

usersVars == <<rows, config, editing, owner, edits, restarts>>

Known(u) == rows[u] # NoRow
Active(u) == Known(u) /\ rows[u].active

\* LookupAPIKey: the users a key may be resolved to, none when it is refused.
\* The file is asked only when no active row has the key.
\* Fault: the query does not look at disabled_at.
StoredEvenDisabled(k) == {u \in UserIds : Known(u) /\ rows[u].key = k}
StoredAs(k) == {u \in UserIds : Active(u) /\ rows[u].key = k}
ConfiguredAs(k) == {u \in DOMAIN config : config[u].key = k}
LookupAPIKey(k) == IF StoredAs(k) # {} THEN StoredAs(k) ELSE ConfiguredAs(k)

\* GetUserConfig: the active row, else the file's entry.
GetUserConfig(u) ==
  IF Active(u) THEN [key |-> rows[u].key, limit |-> rows[u].limit]
  ELSE IF u \in DOMAIN config THEN config[u]
  ELSE NoUser

\* bootstrapUsersFromConfig: the rows of the users in S.
SeededRows(yaml, S) ==
  [u \in UserIds |-> IF u \in S THEN [key    |-> yaml[u].key,
                                      limit  |-> yaml[u].limit,
                                      active |-> TRUE]
                                ELSE NoRow]

\* Validate: the first start seeds the empty table, user by user.  A crash in
\* between leaves some of them, and no later start seeds again.  Without any
\* user the gateway does not start.
UsersInit ==
  /\ config \in Yamls
  /\ \E y \in Yamls : \E S \in SUBSET DOMAIN y : S # {} /\ rows = SeededRows(y, S)
  /\ editing = [a \in Admins |-> NoEdit]
  /\ owner = [k \in Keys |-> IF \E y \in Yamls : \E u \in DOMAIN y : y[u].key = k
                             THEN CHOOSE u \in UserIds :
                                    \E y \in Yamls : u \in DOMAIN y /\ y[u].key = k
                             ELSE Nobody]
  /\ edits = 0 /\ restarts = 0

\* A generated key is new.
Issue(k, u) == owner[k] = Nobody /\ owner' = [owner EXCEPT ![k] = u]

CountEdit == edits < MaxEdits /\ edits' = edits + 1

\* CreateUser: the INSERT succeeds only if the user has no row, active or not.
Vacant(u) == ~Known(u)
CreateUser(u, k, l) ==
  /\ Vacant(u) /\ Issue(k, u) /\ CountEdit
  /\ rows' = [rows EXCEPT ![u] = [key |-> k, limit |-> l, active |-> TRUE]]
  /\ UNCHANGED <<config, editing, restarts>>

\* UpdateUser, first statement: the present settings are read, for their key.
BeginUpdate(a, u, l) ==
  /\ editing[a] = NoEdit /\ GetUserConfig(u) # NoUser /\ CountEdit
  /\ editing' = [editing EXCEPT ![a] = [user |-> u, key |-> GetUserConfig(u).key, limit |-> l]]
  /\ UNCHANGED <<rows, config, owner, restarts>>

\* UpdateUser, second statement: limit and key are written, whether the row has
\* been disabled meanwhile or not.  Without a row the update is refused.
\* Fault: the UPDATE has no WHERE.
WrittenEverywhere(e) == {u \in UserIds : Known(u)}
Written(e) == {u \in UserIds : Known(u) /\ u = e.user}
FinishUpdate(a) ==
  /\ editing[a] # NoEdit
  /\ LET e == editing[a]
     IN rows' = [u \in UserIds |-> IF u \in Written(e)
                                   THEN [rows[u] EXCEPT !.key = e.key, !.limit = e.limit]
                                   ELSE rows[u]]
  /\ editing' = [editing EXCEPT ![a] = NoEdit]
  /\ UNCHANGED <<config, owner, edits, restarts>>

\* RotateUserKey: one UPDATE of an active row.
RotateUserKey(u, k) ==
  /\ Active(u) /\ Issue(k, u) /\ CountEdit
  /\ rows' = [rows EXCEPT ![u].key = k]
  /\ UNCHANGED <<config, editing, restarts>>

\* DeactivateUser: one UPDATE of an active row.
DeactivateUser(u) ==
  /\ Active(u) /\ CountEdit
  /\ rows' = [rows EXCEPT ![u].active = FALSE]
  /\ UNCHANGED <<config, editing, owner, restarts>>

\* The process ends, with handlers in the middle of an update, and is started
\* again on a file that may have changed.  The table has rows: it is not seeded.
RestartUsers ==
  /\ restarts < MaxRestarts /\ restarts' = restarts + 1
  /\ config' \in Yamls
  /\ editing' = [a \in Admins |-> NoEdit]
  /\ UNCHANGED <<rows, owner, edits>>

\* A request of the users page.
UserAction ==
  \/ \E u \in UserIds, k \in Keys, l \in Limits \cup {NoLimit} : CreateUser(u, k, l)
  \/ \E u \in UserIds, k \in Keys : RotateUserKey(u, k)
  \/ \E u \in UserIds : DeactivateUser(u)
  \/ \E a \in Admins, u \in UserIds, l \in Limits \cup {NoLimit} : BeginUpdate(a, u, l)
  \/ \E a \in Admins : FinishUpdate(a)

UsersTypeOK ==
  /\ rows \in [UserIds -> Row \cup {NoRow}]
  /\ config \in Yamls
  /\ editing \in [Admins -> Edit \cup {NoEdit}]
  /\ owner \in [Keys -> UserIds \cup {Nobody}]
  /\ edits \in 0..MaxEdits /\ restarts \in 0..MaxRestarts

=============================================================================
