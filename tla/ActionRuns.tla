------------------------------- MODULE ActionRuns -------------------------------
(***************************************************************************)
(* Running an approved action (broker.go: runAction; runner.go; main.go:   *)
(* runCommand), while users configure actions, secrets are created,        *)
(* rotated and revoked, and the vault is locked.                           *)
(*                                                                         *)
(* One goroutine serves a run: it looks the action up, resolves the        *)
(* secrets of the configuration it got, runs the child with them, records  *)
(* the outcome and answers.  The lookup and the resolution are those of    *)
(* ApprovedActions and VaultSecrets, whose readers and runners are the     *)
(* same goroutines here and whose vault is one vault.  The keys are copied *)
(* three times, by the lookup, the resolution and the record.              *)
(***************************************************************************)
EXTENDS Naturals, Sequences, FiniteSets

CONSTANTS
    Names, Writers, Runners, EnvNames, Operations, NoName, MaxVersion, MaxEvents,
    Actions, Configs, Users, NoAction, NoConfig, MaxPuts,
    Mapping,        \* Mapping[c]: the secrets of configuration c, NoName for none
    Redacted,       \* the configurations whose output is sent to the client
    MaxChanges,     \* bound of the model: commits about one action and all secrets
    MaxBusy         \* bound of the model: writers and users at work at once

ASSUME SecretsAssumption ==
    /\ NoName \notin Names
    /\ Operations \subseteq {"secret.create", "secret.rotate", "secret.revoke"}
    /\ MaxVersion \in Nat \ {0} /\ MaxEvents \in Nat
ASSUME NoConfigAssumption == NoAction \notin Actions /\ NoConfig \notin Configs
ASSUME MappingAssumption == Mapping \in [Configs -> [EnvNames -> Names \cup {NoName}]]
ASSUME RedactedAssumption == Redacted \subseteq Configs
ASSUME BoundsAssumption == MaxPuts \in Nat /\ MaxChanges \in Nat /\ MaxBusy \in Nat

VARIABLES
    objects, versions, audit, writer, runner,       \* VaultSecrets
    rows, configured, user, reader,                 \* ApprovedActions
    unlocked,       \* Store.keys # nil
    run             \* run[r]: where goroutine r is in runAction, and its client

Secrets == INSTANCE VaultSecrets
Approved == INSTANCE ApprovedActions WITH Readers <- Runners

tables == <<objects, versions, audit>>
secretVars == <<tables, writer, runner>>
actionVars == <<rows, configured, user, reader>>
vars == <<secretVars, actionVars, unlocked, run>>

\* code is what runner.Run returned: 0, an error of the child or of its output
\* (1), or the broker's context cancelled by a signal (130).  The rest is
\* history: how the child ended, what was recorded, whether the record has an
\* excuse, and the values that had ended when the request came.
Run ==
    [pc : {"idle", "asking", "child", "ended", "recorded", "told"},
     client : BOOLEAN, code : {0, 1, 130}, exit : {0, 1, 130},
     child : {"none", "zero", "nonzero"}, record : {"none", "success", "failure"},
     excused : BOOLEAN, dead : [Names -> SUBSET Secrets!Versions]]

IdleRun ==
    [pc |-> "idle", client |-> TRUE, code |-> 1, exit |-> 1, child |-> "none",
     record |-> "none", excused |-> FALSE, dead |-> [n \in Names |-> {}]]

TypeOK ==
    /\ Secrets!TypeOK
    /\ Approved!TypeOK
    /\ run \in [Runners -> Run]

Init ==
    /\ Secrets!Init
    /\ Approved!Init
    /\ run = [r \in Runners |-> IdleRun]

-----------------------------------------------------------------------------
(***************************************************************************)
(* The client, vcsm run.                                                   *)
(***************************************************************************)

\* What the command exits with when the final response carries an error and no
\* result ("error"), a result ("done"), or never comes ("cut").  An error
\* without a result reads as code 0, and is made 1.  The seeded fault returns
\* the code as it was read.
ExitAsRead(answer, code) ==
    CASE answer = "cut" -> 1 [] answer = "error" -> 0 [] answer = "done" -> code
ExitOf(answer, code) ==
    IF answer = "error" THEN 1 ELSE IF answer = "done" THEN code ELSE 1

Told(x, answer) ==
    IF x.client THEN [x EXCEPT !.pc = "told", !.exit = ExitOf(answer, x.code)] ELSE IdleRun
Tell(r, answer) == run' = [run EXCEPT ![r] = Told(run[r], answer)]

\* The client is interrupted: the broker's writes to it fail from now on.
Hangup(r) ==
    /\ run[r].pc \notin {"idle", "told"}
    /\ run' = [run EXCEPT ![r].client = FALSE]
    /\ UNCHANGED <<secretVars, actionVars, unlocked>>

\* The command has exited.
Leave(r) ==
    /\ run[r].pc = "told"
    /\ run' = [run EXCEPT ![r] = IdleRun]
    /\ UNCHANGED <<secretVars, actionVars, unlocked>>

-----------------------------------------------------------------------------
(***************************************************************************)
(* runAction.                                                              *)
(***************************************************************************)
Asked == [IdleRun EXCEPT !.pc = "asking",
                         !.dead = [n \in Names |-> Secrets!Ended(n)]]

Request(r, a) ==
    /\ run[r].pc = "idle"
    /\ Approved!BeginGet(r, a)
    /\ run' = [run EXCEPT ![r] = Asked]
    /\ UNCHANGED secretVars

RequestLocked(r) ==
    /\ run[r].pc = "idle"
    /\ ~unlocked
    /\ run' = [run EXCEPT ![r] = Told(Asked, "error")]
    /\ UNCHANGED <<secretVars, actionVars, unlocked>>

Lookup(r) ==
    /\ Approved!GetFind(r) \/ Approved!GetOpen(r)
    /\ UNCHANGED <<secretVars, run>>

LookupFails(r) ==
    /\ Approved!GetFails(r)
    /\ Tell(r, "error")
    /\ UNCHANGED secretVars

\* ResolveSecrets copies the keys again, and wants the secrets of the
\* configuration that was found.  The seeded fault wants those of the
\* configuration in the table by now.
ResolveAnew(r) ==
    /\ reader[r].pc = "got"
    /\ Secrets!BeginResolve(r, Mapping[rows[reader[r].action].config])
    /\ UNCHANGED <<actionVars, run>>
Resolve(r) ==
    /\ reader[r].pc = "got"
    /\ Secrets!BeginResolve(r, Mapping[reader[r].config])
    /\ UNCHANGED <<actionVars, run>>

ResolveLocked(r) ==
    /\ reader[r].pc = "got"
    /\ runner[r].pc = "idle"
    /\ ~unlocked
    /\ Approved!Forget(r)
    /\ Tell(r, "error")
    /\ UNCHANGED secretVars

ResolveNext(r) ==
    /\ \E e \in EnvNames : Secrets!ResolveOne(r, e)
    /\ UNCHANGED <<actionVars, run>>

\* A secret has no usable value, or a query fails.
ResolveFails(r) ==
    /\ runner[r].pc = "resolve"
    /\ (\E e \in EnvNames : Secrets!ResolveFails(r, e)) \/ Secrets!Release(r)
    /\ Approved!Forget(r)
    /\ Tell(r, "error")

StartChild(r) ==
    /\ run[r].pc = "asking"
    /\ runner[r].pc = "done"
    /\ run' = [run EXCEPT ![r].pc = "child"]
    /\ UNCHANGED <<secretVars, actionVars, unlocked>>

\* A child that did not start, exited with another code or was killed is
\* "nonzero".  Output that a client that is gone did not take is an error of
\* the run, whatever the child did, and so is a context that was cancelled
\* while it ran.
ChildEnds(r) ==
    /\ run[r].pc = "child"
    /\ \E child \in {"zero", "nonzero"}, code \in {0, 1, 130} :
         /\ child = "nonzero" => code # 0
         /\ child = "zero" /\ code = 1 => ~run[r].client /\ reader[r].config \in Redacted
         /\ run' = [run EXCEPT ![r].pc = "ended", ![r].child = child, ![r].code = code]
    /\ UNCHANGED <<secretVars, actionVars, unlocked>>

\* RecordAudit copies the keys a third time; its error is dropped.  An error of
\* the database, or a context that a signal has cancelled, in which no
\* transaction begins, excuses the record.
Record(r) ==
    /\ run[r].pc = "ended"
    /\ \/ /\ unlocked
          /\ run[r].code # 130
          /\ run' = [run EXCEPT ![r].pc = "recorded",
                       ![r].record = IF run[r].code = 0 THEN "success" ELSE "failure"]
       \/ /\ ~unlocked
          /\ run' = [run EXCEPT ![r].pc = "recorded"]
       \/ run' = [run EXCEPT ![r].pc = "recorded", ![r].excused = TRUE]
    /\ UNCHANGED <<secretVars, actionVars, unlocked>>

\* The result, whether or not the run failed; then the values are zeroed.  The
\* seeded fault answers as soon as the child has ended.
AnswerEarly(r) ==
    /\ run[r].pc \in {"ended", "recorded"}
    /\ Tell(r, "done")
    /\ Secrets!Release(r)
    /\ Approved!Forget(r)
Answer(r) ==
    /\ run[r].pc = "recorded"
    /\ Tell(r, "done")
    /\ Secrets!Release(r)
    /\ Approved!Forget(r)

-----------------------------------------------------------------------------
(***************************************************************************)
(* The vault and the process.                                              *)
(***************************************************************************)

\* History: a run in flight is excused from its record from now on.
ExcuseRuns == run' = [r \in Runners |-> IF run[r].pc \in {"idle", "told"} THEN run[r]
                                        ELSE [run[r] EXCEPT !.excused = TRUE]]

SetLock ==
    /\ Approved!SetLock
    /\ IF unlocked THEN Secrets!Lock /\ ExcuseRuns ELSE Secrets!Unlock /\ UNCHANGED run

\* The process ends, cleanly or not, and the next one starts; clients that wait
\* see the end of the stream.
Restart ==
    /\ Secrets!Restart
    /\ Approved!Restart
    /\ run' = [r \in Runners |-> IF run[r].pc \in {"idle", "told"} THEN run[r]
                                 ELSE Told(run[r], "cut")]

Busy == {w \in Writers : writer[w].pc # "idle"} \cup {u \in Users : user[u].pc # "idle"}

WriterStep(w) ==
    /\ Secrets!WriterNext(w)
    /\ UNCHANGED <<actionVars, run>>

UserStep(u) ==
    /\ Approved!UserNext(u)
    /\ UNCHANGED <<secretVars, run>>

OtherStep ==
    /\ (\E w \in Writers : WriterStep(w)) \/ (\E u \in Users : UserStep(u))
    /\ Cardinality(Busy') <= MaxBusy
    /\ \A a \in Actions : Len(audit') + configured'[a] <= MaxChanges

RunNext(r) ==
    \/ \E a \in Actions : Request(r, a)
    \/ RequestLocked(r)
    \/ Lookup(r)
    \/ LookupFails(r)
    \/ Resolve(r)
    \/ ResolveLocked(r)
    \/ ResolveNext(r)
    \/ ResolveFails(r)
    \/ StartChild(r)
    \/ ChildEnds(r)
    \/ Record(r)
    \/ Answer(r)
    \/ Hangup(r)
    \/ Leave(r)

Next ==
    \/ SetLock
    \/ Restart
    \/ OtherStep
    \/ \E r \in Runners : RunNext(r)

Spec == Init /\ [][Next]_vars

-----------------------------------------------------------------------------
(***************************************************************************)
(* Properties of a run.                                                    *)
(***************************************************************************)

\* A child runs with the secrets of one configuration, which was the approved
\* one at some moment since the request: each variable it sets has a value of
\* the secret it names, one that had not been retired or revoked when the
\* request came, and no other variable has any, though configurations,
\* rotations and revocations commit between all steps of the run.
IsFor(value, n, dead) ==
    IF n = NoName
    THEN value = Secrets!NoValue
    ELSE value.secret = n /\ value.number \in Secrets!Versions \ dead[n]
ChildIsSound ==
    \A r \in Runners :
        run[r].pc \in {"child", "ended", "recorded"} =>
            LET c == reader[r].config IN
            /\ c \in reader[r].seen \ {NoConfig}
            /\ \A e \in EnvNames : IsFor(runner[r].got[e], Mapping[c][e], run[r].dead)

\* vcsm run exits with 0 only when the child ran and exited with 0: not after
\* a lookup or a resolution that failed, a broker that ended, or lost output.
ZeroExitIsSuccess ==
    \A r \in Runners : run[r].pc = "told" /\ run[r].exit = 0 => run[r].child = "zero"

\* A recorded success is one; a recorded failure is one, or the client was gone
\* before the end of the output; and a success that the client was told of is
\* in the log, unless the vault was locked during the run, the broker was
\* signalled or the database failed.
RecordTellsRun ==
    \A r \in Runners :
        LET x == run[r] IN
        /\ x.record = "success" => x.child = "zero"
        /\ x.record = "failure" => x.child = "nonzero" \/ ~x.client
        /\ x.pc = "told" /\ x.exit = 0 /\ x.record = "none" => x.excused

(***************************************************************************)
(* What VaultSecrets and ApprovedActions say, here of runs.                *)
(***************************************************************************)

\* The metadata names the newest value (with one writer).
MetadataIsLatest == Secrets!MetadataIsLatest

\* The revision of a row counts its updates (with one writer).
RevisionCountsUpdates == Secrets!RevisionCountsUpdates

\* However configurations race, every action can be read.
ActionsOpen == Approved!ActionsOpen

\* A lookup returns what was approved at some moment since it began.
GetsApproved == Approved!GetsApproved

Register ==
    INSTANCE ActionRegister WITH
        approved <- [a \in Actions |-> rows[a].config],
        born <- [a \in Actions |-> rows[a].created]

\* Configurations take effect one at a time, at their commit, and none changes
\* when the action was created.
ImplementsRegister == Register!Spec
=============================================================================
