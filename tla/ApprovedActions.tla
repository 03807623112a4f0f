---------------------------- MODULE ApprovedActions ----------------------------
(***************************************************************************)
(* The approved actions of a vault (internal/vault/store.go): their rows   *)
(* in encrypted_objects, the goroutines that configure them (PutAction)    *)
(* and those that look one up in order to run it (GetAction).              *)
(*                                                                         *)
(* Both operations read the id and the revision of a row in one query and  *)
(* its ciphertext in another, and PutAction writes the row in a third      *)
(* step, a transaction that has no condition on the revision it read.      *)
(* Other requests commit between these steps.                              *)
(*                                                                         *)
(* A (project, environment, name) triple is a member of Actions: its       *)
(* lookup token is unique, and no operation deletes a row.  The encryption *)
(* of a row is kept as the revision its associated data was sealed with,   *)
(* a time as the number of approvals of the action before it.  ListActions *)
(* reads everything in one query and changes nothing.                      *)
(***************************************************************************)
EXTENDS Naturals

CONSTANTS
    Actions,        \* (project, environment, name) triples
    Configs,        \* what a user may approve: command, secrets, output policy
    Users,          \* goroutines that serve action.configure
    Readers,        \* goroutines that look an action up
    NoAction,       \* the action of a goroutine that serves nothing
    NoConfig,       \* no configuration
    MaxPuts         \* bound of the model: approvals of one action

VARIABLES
    rows,           \* rows[a]: the row of a in encrypted_objects
    configured,     \* configured[a]: action.configure events about a in the log
    unlocked,       \* Store.keys # nil
    user,           \* user[u]: what goroutine u is configuring
    reader          \* reader[r]: what goroutine r is looking up

vars == <<rows, configured, unlocked, user, reader>>

\* revision is the column, sealed the revision in the associated data, config
\* and created what the ciphertext holds.
Row == [revision : Nat, sealed : Nat, config : Configs \cup {NoConfig}, created : Nat]
NoRow == [revision |-> 0, sealed |-> 0, config |-> NoConfig, created |-> 0]

Exists(a) == rows[a].revision # 0

\* getActionByID: the ciphertext read now opens with the revision read before.
Opens(a, revision) == rows[a].sealed = revision

IdleUser == [pc |-> "idle", action |-> NoAction, config |-> NoConfig,
             revision |-> 0, created |-> 0]

\* seen is a history variable: what the action stood for since the request.
IdleReader == [pc |-> "idle", action |-> NoAction, revision |-> 0,
               config |-> NoConfig, seen |-> {}]

TypeOK ==
    /\ rows \in [Actions -> Row]
    /\ configured \in [Actions -> Nat]
    /\ unlocked \in BOOLEAN
    /\ user \in [Users ->
         [pc : {"idle", "find", "current", "commit"}, action : Actions \cup {NoAction},
          config : Configs \cup {NoConfig}, revision : Nat, created : Nat]]
    /\ reader \in [Readers ->
         [pc : {"idle", "find", "open", "got"}, action : Actions \cup {NoAction},
          revision : Nat, config : Configs \cup {NoConfig},
          seen : SUBSET (Configs \cup {NoConfig})]]

Init ==
    /\ rows = [a \in Actions |-> NoRow]
    /\ configured = [a \in Actions |-> 0]
    /\ unlocked = FALSE
    /\ user = [u \in Users |-> IdleUser]
    /\ reader = [r \in Readers |-> IdleReader]

-----------------------------------------------------------------------------
(***************************************************************************)
(* PutAction.                                                              *)
(***************************************************************************)

\* The password was verified and copyKeys succeeds; the time is taken.
BeginConfigure(u, a, c) ==
    /\ user[u].pc = "idle"
    /\ unlocked
    /\ user' = [user EXCEPT ![u] = [pc |-> "find", action |-> a, config |-> c,
                                    revision |-> 0, created |-> configured[a]]]
    /\ UNCHANGED <<rows, configured, unlocked, reader>>

EndConfigure(u) == user' = [user EXCEPT ![u] = IdleUser]

\* The revision, or 0 when there is no row.
FindRow(u) ==
    LET a == user[u].action IN
    /\ user[u].pc = "find"
    /\ user' = [user EXCEPT ![u].pc = IF Exists(a) THEN "current" ELSE "commit",
                            ![u].revision = rows[a].revision]
    /\ UNCHANGED <<rows, configured, unlocked, reader>>

\* The time of creation is that of the current configuration.  The seeded
\* fault keeps the time of the request.
ReadCurrentForgetful(u) ==
    /\ user[u].pc = "current"
    /\ Opens(user[u].action, user[u].revision)
    /\ user' = [user EXCEPT ![u].pc = "commit"]
    /\ UNCHANGED <<rows, configured, unlocked, reader>>
ReadCurrent(u) ==
    LET a == user[u].action IN
    /\ user[u].pc = "current"
    /\ Opens(a, user[u].revision)
    /\ user' = [user EXCEPT ![u].pc = "commit", ![u].created = rows[a].created]
    /\ UNCHANGED <<rows, configured, unlocked, reader>>

\* Another configuration was committed since: the ciphertext does not open.
ReadCurrentFails(u) ==
    /\ user[u].pc = "current"
    /\ ~Opens(user[u].action, user[u].revision)
    /\ EndConfigure(u)
    /\ UNCHANGED <<rows, configured, unlocked, reader>>

\* The row sealed from what the request read.  The seeded fault seals with the
\* revision that was read.
PutRowStale(put) ==
    [revision |-> put.revision + 1, sealed |-> put.revision,
     config |-> put.config, created |-> put.created]
PutRow(put) ==
    [revision |-> put.revision + 1, sealed |-> put.revision + 1,
     config |-> put.config, created |-> put.created]

\* INSERT when the query found no row and there still is none, else UPDATE of
\* the row, whatever its revision is by now; the audit event in the same
\* transaction.  Lookups in flight have seen the new configuration.
CommitPut(u) ==
    LET a == user[u].action IN
    /\ user[u].pc = "commit"
    /\ Exists(a) <=> user[u].revision # 0
    /\ configured[a] < MaxPuts
    /\ rows' = [rows EXCEPT ![a] = PutRow(user[u])]
    /\ configured' = [configured EXCEPT ![a] = configured[a] + 1]
    /\ EndConfigure(u)
    /\ reader' = [r \in Readers |->
                    IF reader[r].action = a
                    THEN [reader[r] EXCEPT !.seen = @ \cup {user[u].config}]
                    ELSE reader[r]]
    /\ UNCHANGED unlocked

\* UNIQUE(object_type, lookup_token): another request was first.
InsertConflicts(u) ==
    /\ user[u].pc = "commit"
    /\ user[u].revision = 0
    /\ Exists(user[u].action)
    /\ EndConfigure(u)
    /\ UNCHANGED <<rows, configured, unlocked, reader>>

\* The random source, the encryption or the database returns an error.
ConfigureFault(u) ==
    /\ user[u].pc # "idle"
    /\ EndConfigure(u)
    /\ UNCHANGED <<rows, configured, unlocked, reader>>

-----------------------------------------------------------------------------
(***************************************************************************)
(* GetAction.                                                              *)
(***************************************************************************)

BeginGet(r, a) ==
    /\ reader[r].pc = "idle"
    /\ unlocked
    /\ reader' = [reader EXCEPT ![r] = [pc |-> "find", action |-> a, revision |-> 0,
                                        config |-> NoConfig, seen |-> {rows[a].config}]]
    /\ UNCHANGED <<rows, configured, unlocked, user>>

GetFind(r) ==
    LET a == reader[r].action IN
    /\ reader[r].pc = "find"
    /\ Exists(a)
    /\ reader' = [reader EXCEPT ![r].pc = "open", ![r].revision = rows[a].revision]
    /\ UNCHANGED <<rows, configured, unlocked, user>>

\* The configuration is returned.  The seeded fault drops the error of
\* getActionByID and returns what it returns with it, an empty action.
GetOpenUnchecked(r) ==
    LET a == reader[r].action IN
    /\ reader[r].pc = "open"
    /\ reader' = [reader EXCEPT ![r].pc = "got",
                    ![r].config = IF Opens(a, reader[r].revision) THEN rows[a].config
                                                                  ELSE NoConfig]
    /\ UNCHANGED <<rows, configured, unlocked, user>>
GetOpen(r) ==
    LET a == reader[r].action IN
    /\ reader[r].pc = "open"
    /\ Opens(a, reader[r].revision)
    /\ reader' = [reader EXCEPT ![r].pc = "got", ![r].config = rows[a].config]
    /\ UNCHANGED <<rows, configured, unlocked, user>>

EndGet(r) == reader' = [reader EXCEPT ![r] = IdleReader]

\* There is no such action, the row changed between the two queries, or a
\* query failed.
GetFails(r) ==
    /\ reader[r].pc \in {"find", "open"}
    /\ EndGet(r)
    /\ UNCHANGED <<rows, configured, unlocked, user>>

\* The caller is done with the configuration.
Forget(r) ==
    /\ reader[r].pc = "got"
    /\ EndGet(r)
    /\ UNCHANGED <<rows, configured, unlocked, user>>

-----------------------------------------------------------------------------

\* Store.Unlock and Store.Lock: a request keeps the keys it copied.
SetLock ==
    /\ unlocked' = ~unlocked
    /\ UNCHANGED <<rows, configured, user, reader>>

\* The broker ends and another one starts on the same vault.
Restart ==
    /\ unlocked' = FALSE
    /\ user' = [u \in Users |-> IdleUser]
    /\ reader' = [r \in Readers |-> IdleReader]
    /\ UNCHANGED <<rows, configured>>

UserNext(u) ==
    \/ \E a \in Actions, c \in Configs : BeginConfigure(u, a, c)
    \/ FindRow(u)
    \/ ReadCurrent(u)
    \/ ReadCurrentFails(u)
    \/ CommitPut(u)
    \/ InsertConflicts(u)
    \/ ConfigureFault(u)

ReaderNext(r) ==
    \/ \E a \in Actions : BeginGet(r, a)
    \/ GetFind(r)
    \/ GetOpen(r)
    \/ GetFails(r)
    \/ Forget(r)

Next ==
    \/ SetLock
    \/ Restart
    \/ \E u \in Users : UserNext(u)
    \/ \E r \in Readers : ReaderNext(r)

Spec == Init /\ [][Next]_vars

-----------------------------------------------------------------------------
(***************************************************************************)
(* Properties.                                                             *)
(***************************************************************************)

\* However configurations race, though a late one sets the revision of a row
\* back, the ciphertext of every row is sealed with the revision beside it:
\* no action becomes unreadable (GetAction, ListActions, PutAction).
ActionsOpen == \A a \in Actions : Exists(a) => Opens(a, rows[a].revision)

\* A lookup returns a configuration that was the approved one at some moment
\* since it began, though it reads the revision and the ciphertext apart:
\* never one that had been replaced before, and never none.
GetsApproved ==
    \A r \in Readers :
        reader[r].pc = "got" => reader[r].config \in reader[r].seen \ {NoConfig}

Register ==
    INSTANCE ActionRegister WITH
        approved <- [a \in Actions |-> rows[a].config],
        born <- [a \in Actions |-> rows[a].created]

\* Configurations take effect one at a time, at their commit: the last one
\* stands, and none changes when the action was created.
ImplementsRegister == Register!Spec
=============================================================================
