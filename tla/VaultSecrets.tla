---------------------------- MODULE VaultSecrets ----------------------------
(***************************************************************************)
(* The secrets of a vault (internal/vault/store.go): the tables            *)
(* encrypted_objects and secret_versions, the audit events their updates   *)
(* append, and the goroutines of the broker that create, rotate, revoke    *)
(* and resolve secrets concurrently.                                       *)
(*                                                                         *)
(* The store opens its database with one connection, so each query and     *)
(* each transaction is one atomic step; a transaction that returns early   *)
(* is rolled back by its deferred Rollback and changes nothing.  What is   *)
(* not atomic is a whole operation: RotateSecret and RevokeSecret read the *)
(* row in a query of its own and write it in a later transaction, and      *)
(* ResolveSecrets makes one query per environment variable.                *)
(*                                                                         *)
(* Abstractions.  A (project, environment, name) triple is a member of     *)
(* Names, because its keyed lookup token identifies it; a secret is        *)
(* identified with its triple, because the UNIQUE constraint allows one    *)
(* row per triple and no operation deletes a row.  A value is identified   *)
(* with its secret and its version number.  The encryption of a row is     *)
(* kept as the revision its associated data was sealed with.               *)
(***************************************************************************)
EXTENDS Naturals, Sequences, FiniteSets

CONSTANTS
    Names,          \* (project, environment, name) triples
    Writers,        \* goroutines that serve create, rotate and revoke requests
    Runners,        \* goroutines that resolve the secrets of an action
    EnvNames,       \* environment variables of an action
    Operations,     \* the operations callers send to the writers
    NoName,         \* the name of a writer that serves nothing, and of the
                    \* secret of a variable an action does not set
    MaxVersion,     \* bound of the model: values issued for one secret
    MaxEvents       \* bound of the model: committed transactions

AllOperations == {"secret.create", "secret.rotate", "secret.revoke"}

ASSUME NoNameAssumption == NoName \notin Names
ASSUME OperationsAssumption == Operations \subseteq AllOperations
ASSUME MaxVersionAssumption == MaxVersion \in Nat \ {0}
ASSUME MaxEventsAssumption == MaxEvents \in Nat

VARIABLES
    objects,        \* objects[n]: the row of n in encrypted_objects
    versions,       \* versions[n][v]: the state of value v in secret_versions
    audit,          \* the audit events, in the order they were committed
    unlocked,       \* Store.keys # nil
    writer,         \* writer[w]: what goroutine w is doing
    runner          \* runner[r]: what goroutine r is resolving

tables == <<objects, versions, audit>>
vars == <<objects, versions, audit, unlocked, writer, runner>>

Versions == 1..MaxVersion

\* A value is inserted as "pending" and promoted to "active" in the same
\* transaction, so no query ever sees that state.
VersionState == {"absent", "active", "retired", "revoked"}

\* revision is the column, sealed the revision in the associated data of the
\* metadata ciphertext, version and state two fields of the metadata in it.
Row == [revision : Nat, sealed : Nat, version : Nat,
        state : {"none", "active", "revoked"}]

NoRow == [revision |-> 0, sealed |-> 0, version |-> 0, state |-> "none"]

Exists(n) == objects[n].revision # 0

\* securecrypto.Open succeeds on a row read with its own revision column.
Opens(row) == row.sealed = row.revision

IdleWriter == [pc |-> "idle", op |-> "none", name |-> NoName, row |-> NoRow]

\* A value is known by its secret and its number.
NoValue == [secret |-> NoName, number |-> 0]

\* dead is a history variable: the values that were retired or revoked when
\* the resolution began.
IdleRunner ==
    [pc |-> "idle", todo |-> {}, mapping |-> [e \in EnvNames |-> NoName],
     got |-> [e \in EnvNames |-> NoValue], dead |-> [n \in Names |-> {}]]

Event == [op : AllOperations, secret : Names]

WriterState ==
    [pc : {"idle", "find", "commit"}, op : AllOperations \cup {"none"},
     name : Names \cup {NoName}, row : Row]

\* The secrets of the variables an action sets; it may set none.
Mappings == [EnvNames -> Names \cup {NoName}]
Mapped(mapping) == {e \in EnvNames : mapping[e] # NoName}

Value == [secret : Names \cup {NoName}, number : Nat]

RunnerState ==
    [pc : {"idle", "resolve", "done"}, todo : SUBSET EnvNames, mapping : Mappings,
     got : [EnvNames -> Value], dead : [Names -> SUBSET Versions]]

\* Every variable ranges over its type: in particular revisions and value
\* numbers are counted from 1 and a committed value is never "pending".
TypeOK ==
    /\ objects \in [Names -> Row]
    /\ versions \in [Names -> [Versions -> VersionState]]
    /\ audit \in Seq(Event)
    /\ unlocked \in BOOLEAN
    /\ writer \in [Writers -> WriterState]
    /\ runner \in [Runners -> RunnerState]

Init ==
    /\ objects = [n \in Names |-> NoRow]
    /\ versions = [n \in Names |-> [v \in Versions |-> "absent"]]
    /\ audit = <<>>
    /\ unlocked = FALSE
    /\ writer = [w \in Writers |-> IdleWriter]
    /\ runner = [r \in Runners |-> IdleRunner]

-----------------------------------------------------------------------------
(***************************************************************************)
(* What the transactions write.                                            *)
(***************************************************************************)

\* The value number a rotation assigns: one more than the number in the
\* metadata it read.  The seeded fault counts from the row's revision.
NewVersionFromRevision(row) == row.revision + 1
NewVersion(row) == row.version + 1

\* The seeded fault reseals the metadata and forgets the revision column.
RevokedRowKeepingRevision(row) ==
    [row EXCEPT !.sealed = row.revision + 1, !.state = "revoked"]
RevokedRow(row) ==
    [revision |-> row.revision + 1, sealed |-> row.revision + 1,
     version |-> row.version, state |-> "revoked"]

\* The seeded faults leave the version, or the state, in the metadata as it was
\* read.
RotatedRowKeepingState(row) ==
    [revision |-> row.revision + 1, sealed |-> row.revision + 1,
     version |-> NewVersion(row), state |-> row.state]
RotatedRowKeepingVersion(row) ==
    [revision |-> row.revision + 1, sealed |-> row.revision + 1,
     version |-> row.version, state |-> "active"]
RotatedRow(row) ==
    [revision |-> row.revision + 1, sealed |-> row.revision + 1,
     version |-> NewVersion(row), state |-> "active"]

\* Retires the active value and promotes v.  The seeded faults leave v pending,
\* and leave the old value active.
RotatedUnpromoted(vs, v) ==
    [x \in Versions |-> CASE x = v -> "pending"
                          [] x # v /\ vs[x] = "active" -> "retired"
                          [] OTHER -> vs[x]]
RotatedKeepingOld(vs, v) == [vs EXCEPT ![v] = "active"]
Rotated(vs, v) ==
    [x \in Versions |-> CASE x = v -> "active"
                          [] x # v /\ vs[x] = "active" -> "retired"
                          [] OTHER -> vs[x]]

\* Revokes the active value.  The seeded fault drops AND state='active'.
RevokedEveryValue(vs) ==
    [x \in Versions |-> IF vs[x] = "absent" THEN "absent" ELSE "revoked"]
Revoked(vs) ==
    [x \in Versions |-> IF vs[x] = "active" THEN "revoked" ELSE vs[x]]

\* appendAudit inside the transaction.  The seeded fault records a revocation
\* only when it revoked a value.
RecordedOnChange(op, n) ==
    /\ Len(audit) < MaxEvents
    /\ audit' = IF op = "secret.revoke" /\ objects[n].state = "revoked"
                THEN audit
                ELSE Append(audit, [op |-> op, secret |-> n])
Recorded(op, n) ==
    /\ Len(audit) < MaxEvents
    /\ audit' = Append(audit, [op |-> op, secret |-> n])

-----------------------------------------------------------------------------
(***************************************************************************)
(* The key set in memory.                                                  *)
(***************************************************************************)

\* Unlock with the right password; with a wrong one, or when the vault is
\* already unlocked, it changes nothing.
Unlock ==
    /\ ~unlocked
    /\ unlocked' = TRUE
    /\ UNCHANGED <<tables, writer, runner>>

\* Goroutines that copied the keys keep their copies.
Lock ==
    /\ unlocked
    /\ unlocked' = FALSE
    /\ UNCHANGED <<tables, writer, runner>>

\* The broker exits or crashes, and another one starts on the same vault:
\* what was committed is kept, the goroutines and the keys are gone.
Restart ==
    /\ unlocked' = FALSE
    /\ writer' = [w \in Writers |-> IdleWriter]
    /\ runner' = [r \in Runners |-> IdleRunner]
    /\ UNCHANGED tables

-----------------------------------------------------------------------------
(***************************************************************************)
(* Create, rotate and revoke.                                              *)
(***************************************************************************)

\* copyKeys succeeds.  A creation goes straight to its transaction, the other
\* two read the row first.
Begin(w, op, n) ==
    /\ writer[w].pc = "idle"
    /\ unlocked
    /\ writer' = [writer EXCEPT ![w] =
                    [pc |-> IF op = "secret.create" THEN "commit" ELSE "find",
                     op |-> op, name |-> n, row |-> NoRow]]
    /\ UNCHANGED <<tables, unlocked, runner>>

Finished(w) == writer' = [writer EXCEPT ![w] = IdleWriter]

\* findSecretMetadata returns the row and its metadata.
Find(w) ==
    /\ writer[w].pc = "find"
    /\ Exists(writer[w].name)
    /\ Opens(objects[writer[w].name])
    /\ writer' = [writer EXCEPT ![w].pc = "commit",
                                ![w].row = objects[writer[w].name]]
    /\ UNCHANGED <<tables, unlocked, runner>>

\* There is no such secret, or its metadata does not open.
FindFails(w) ==
    /\ writer[w].pc = "find"
    /\ ~Exists(writer[w].name) \/ ~Opens(objects[writer[w].name])
    /\ Finished(w)
    /\ UNCHANGED <<tables, unlocked, runner>>

Committing(w, op) == writer[w].pc = "commit" /\ writer[w].op = op

CommitCreate(w) ==
    LET n == writer[w].name IN
    /\ Committing(w, "secret.create")
    /\ ~Exists(n)
    /\ objects' = [objects EXCEPT ![n] =
                     [revision |-> 1, sealed |-> 1, version |-> 1, state |-> "active"]]
    /\ versions' = [versions EXCEPT ![n] = Rotated(versions[n], 1)]
    /\ Recorded("secret.create", n)
    /\ Finished(w)
    /\ UNCHANGED <<unlocked, runner>>

\* UNIQUE(secret_id, version_number), and the row that WHERE revision=? looks
\* for.  The seeded fault replaces a value whose number is taken.
RotateConflictsByRevision(n, row) == objects[n].revision # row.revision
RotateConflicts(n, row) ==
    \/ versions[n][NewVersion(row)] # "absent"
    \/ objects[n].revision # row.revision

CommitRotate(w) ==
    LET n == writer[w].name
        row == writer[w].row IN
    /\ Committing(w, "secret.rotate")
    /\ NewVersion(row) \in Versions
    /\ ~RotateConflicts(n, row)
    /\ objects' = [objects EXCEPT ![n] = RotatedRow(row)]
    /\ versions' = [versions EXCEPT ![n] = Rotated(versions[n], NewVersion(row))]
    /\ Recorded("secret.rotate", n)
    /\ Finished(w)
    /\ UNCHANGED <<unlocked, runner>>

\* The update of the row has no condition on its revision.
CommitRevoke(w) ==
    LET n == writer[w].name IN
    /\ Committing(w, "secret.revoke")
    /\ objects' = [objects EXCEPT ![n] = RevokedRow(writer[w].row)]
    /\ versions' = [versions EXCEPT ![n] = Revoked(versions[n])]
    /\ Recorded("secret.revoke", n)
    /\ Finished(w)
    /\ UNCHANGED <<unlocked, runner>>

\* ErrAlreadyExists, a value number already taken, "secret changed
\* concurrently": the transaction is rolled back.
CommitConflicts(w) ==
    LET n == writer[w].name
        row == writer[w].row IN
    /\ \/ Committing(w, "secret.create") /\ Exists(n)
       \/ /\ Committing(w, "secret.rotate")
          /\ NewVersion(row) \in Versions
          /\ RotateConflicts(n, row)
    /\ Finished(w)
    /\ UNCHANGED <<tables, unlocked, runner>>

\* The random source, the encryption or the database returns an error.
Fault(w) ==
    /\ writer[w].pc # "idle"
    /\ Finished(w)
    /\ UNCHANGED <<tables, unlocked, runner>>

-----------------------------------------------------------------------------
(***************************************************************************)
(* Resolving the secrets of an action.                                     *)
(***************************************************************************)

Ended(n) == {v \in Versions : versions[n][v] \in {"retired", "revoked"}}

\* copyKeys succeeds.  Nothing is left to do for an action without secrets.
BeginResolve(r, mapping) ==
    /\ runner[r].pc = "idle"
    /\ unlocked
    /\ runner' = [runner EXCEPT ![r] =
                    [pc |-> IF Mapped(mapping) = {} THEN "done" ELSE "resolve",
                     todo |-> Mapped(mapping), mapping |-> mapping,
                     got |-> [e \in EnvNames |-> NoValue],
                     dead |-> [n \in Names |-> Ended(n)]]]
    /\ UNCHANGED <<tables, unlocked, writer>>

\* The values the query of secret_versions may return.  The seeded fault has
\* no condition on the state.
IssuedValues(n) == {v \in Versions : versions[n][v] # "absent"}
UsableValues(n) == {v \in Versions : versions[n][v] = "active"}

Obtained(run, e, v) ==
    [run EXCEPT !.todo = @ \ {e},
                !.got = [@ EXCEPT ![e] = [secret |-> run.mapping[e], number |-> v]],
                !.pc = IF run.todo = {e} THEN "done" ELSE "resolve"]

\* The two queries for one environment variable: the secret, whose row is
\* never deleted, then its newest usable value.
ResolveOne(r, e) ==
    LET usable == UsableValues(runner[r].mapping[e]) IN
    /\ runner[r].pc = "resolve"
    /\ e \in runner[r].todo
    /\ \E v \in usable :
         /\ \A x \in usable : x <= v
         /\ runner' = [runner EXCEPT ![r] = Obtained(runner[r], e, v)]
    /\ UNCHANGED <<tables, unlocked, writer>>

\* There is no such secret or no usable value: the values resolved so far are
\* zeroed and the run ends.
ResolveFails(r, e) ==
    /\ runner[r].pc = "resolve"
    /\ e \in runner[r].todo
    /\ UsableValues(runner[r].mapping[e]) = {}
    /\ runner' = [runner EXCEPT ![r] = IdleRunner]
    /\ UNCHANGED <<tables, unlocked, writer>>

\* The action has run, or a query failed; the values are zeroed.
Release(r) ==
    /\ runner[r].pc # "idle"
    /\ runner' = [runner EXCEPT ![r] = IdleRunner]
    /\ UNCHANGED <<tables, unlocked, writer>>

-----------------------------------------------------------------------------

WriterNext(w) ==
    \/ \E op \in Operations, n \in Names : Begin(w, op, n)
    \/ Find(w)
    \/ FindFails(w)
    \/ CommitCreate(w)
    \/ CommitRotate(w)
    \/ CommitRevoke(w)
    \/ CommitConflicts(w)
    \/ Fault(w)

RunnerNext(r) ==
    \/ \E mapping \in Mappings : BeginResolve(r, mapping)
    \/ \E e \in EnvNames : ResolveOne(r, e)
    \/ \E e \in EnvNames : ResolveFails(r, e)
    \/ Release(r)

Next ==
    \/ Unlock
    \/ Lock
    \/ Restart
    \/ \E w \in Writers : WriterNext(w)
    \/ \E r \in Runners : RunnerNext(r)

Spec == Init /\ [][Next]_vars

-----------------------------------------------------------------------------
(***************************************************************************)
(* What holds of every interleaving.                                       *)
(***************************************************************************)

Issued(n, v) == versions[n][v] # "absent"
IsActive(n, v) == versions[n][v] = "active"

\* Whatever rotations and revocations raced, the metadata of every row opens:
\* the ciphertext of a row is sealed with the revision written beside it, so
\* no race makes a secret unreadable (findSecretMetadata, ListSecrets).
MetadataOpens == \A n \in Names : Exists(n) => Opens(objects[n])

\* The state shown in the metadata and the states of the values agree, though
\* RotateSecret and RevokeSecret write them from a row read earlier: a secret
\* shown as active has exactly one usable value, the one its metadata names,
\* and a secret shown as revoked has none.
StateAgrees ==
    \A n \in Names, v \in Versions :
        IsActive(n, v) <=> objects[n].state = "active" /\ v = objects[n].version

\* The values of a secret are numbered 1, 2, ... k: racing rotations neither
\* skip nor reuse a number, and a secret has a row when it has a value.
HistoryGapFree ==
    \A n \in Names :
        \E k \in 0..MaxVersion :
            /\ \A v \in Versions : v <= k <=> Issued(n, v)
            /\ k > 0 <=> Exists(n)

EventsAbout(n) == {i \in 1..Len(audit) : audit[i].secret = n}

\* The audit log alone tells the state of every secret: its last event about
\* a secret is a revocation exactly when the secret is revoked.
AuditTellsState ==
    \A n \in Names :
        /\ Exists(n) <=> EventsAbout(n) # {}
        /\ \A i \in EventsAbout(n) :
             (\A j \in EventsAbout(n) : j <= i) =>
                (audit[i].op = "secret.revoke" <=> objects[n].state = "revoked")

\* The values a resolution has obtained were not retired or revoked when the
\* resolution began, although each of its queries runs on its own and
\* rotations and revocations commit between them.
ResolvesLive ==
    \A r \in Runners, e \in EnvNames :
        LET value == runner[r].got[e] IN
        value # NoValue => value.number \notin runner[r].dead[value.secret]

\* Once retired or revoked, a value keeps that state: no race between a
\* rotation and a revocation brings it back or relabels it.
EndedValueIsKept ==
    \A n \in Names, v \in Versions :
        versions[n][v] \in {"retired", "revoked"} => versions'[n][v] = versions[n][v]
EndedStaysEnded == [][EndedValueIsKept]_vars

\* What "secret changed concurrently" (store.go:481) leaves of its promise, when a
\* stale revocation may bring a revision back: a rotation whose commit is not
\* refused read the row it replaces, or replaces that of a revocation.  It never
\* replaces what another rotation wrote, whatever revisions and numbers the rows
\* have taken in between.
UnseenIsRevoked ==
    \A w \in Writers :
        LET n == writer[w].name
            row == writer[w].row IN
        Committing(w, "secret.rotate") /\ NewVersion(row) \in Versions =>
            row = objects[n] \/ objects[n].state = "revoked" \/ RotateConflicts(n, row)

\* How many values a history vs has, and its usable one (or 0).
CountOf(vs) == CHOOSE k \in 0..MaxVersion : \A v \in Versions : v <= k <=> vs[v] # "absent"
LiveOf(vs) ==
    IF \E v \in Versions : vs[v] = "active"
    THEN CHOOSE v \in Versions : vs[v] = "active"
    ELSE 0

Lifecycle ==
    INSTANCE SecretLifecycle WITH
        issued <- [n \in Names |-> CountOf(versions[n])],
        live <- [n \in Names |-> LiveOf(versions[n])],
        log <- audit

\* The store implements the atomic lifecycle: whatever overlaps, each
\* operation takes effect in one step, at its commit, as if it ran alone, and
\* leaves its audit event in the same step.
ImplementsLifecycle == Lifecycle!Spec

-----------------------------------------------------------------------------
(***************************************************************************)
(* What holds when requests come one at a time, the case of the tests.     *)
(***************************************************************************)

\* The metadata names the newest value, revoked or not.
MetadataIsLatest ==
    \A n \in Names : \A v \in Versions : Issued(n, v) <=> v <= objects[n].version

\* The revision of a row counts the updates the audit log has of it.
RevisionCountsUpdates ==
    \A n \in Names : objects[n].revision = Cardinality(EventsAbout(n))

-----------------------------------------------------------------------------
(***************************************************************************)
(* What the repository says and concurrent requests break.                 *)
(***************************************************************************)

\* "The AI can create, rotate, check, and use named secrets" (README.md:3): a
\* secret that exists can be rotated, its next value number is not taken.
RotatePossible ==
    \A n \in Names :
        Exists(n) /\ NewVersion(objects[n]) \in Versions
            => ~Issued(n, NewVersion(objects[n]))
=============================================================================
