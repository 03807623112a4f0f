# A verification of VCSM, the local secret broker

This directory holds TLA+ models of the parts of VCSM where the order of events
decides what is right, TLC configurations that check them on small instances,
and TLAPS proofs of what matters most for every value of the constants. Every
definition is translated from the source; PROJECT.json maps each to its lines.

Run TLC with `tlc -config X.cfg M` where PROJECT.json pairs each configuration
`X.cfg` with its module `M`, and the proofs with `tlapm MProofs.tla`.

## 1. The system

| Part | State | Operations | What makes it hard |
|---|---|---|---|
| Vault secrets (`internal/vault/store.go`) | `encrypted_objects`, `secret_versions` | create, rotate, revoke, list, resolve | operations read a row in one query and write it in a later transaction, while others commit in between |
| Audit chain (same file) | `audit_events` | append inside a transaction, list with a chain check | the order is that of a timestamp's text, the clock is the wall clock, a failed check is permanent |
| Session and power hold (`internal/broker`, `internal/power`, `Store.Unlock`, `Store.Lock`) | keys in memory, `power.Manager`, the inhibitor process | unlock, lock, status, exit | keys and inhibitor have a lock each and none in common; goroutines are not waited for at the exit; three mutexes |
| Output redaction (`internal/redaction`) | the pending tail of a stream | write a piece, close | a value may be split at any byte over any number of writes, values overlap, the destination fails |
| Approved actions in the vault (`PutAction`, `GetAction`, `ListActions`) | `encrypted_objects` | configure, get, list | two queries per read, an update without a revision condition |
| Running an action (`Broker.runAction`, `internal/runner`, `vcsm run`) | a child process, two output streams | look up, resolve, run, record, answer | keys are copied three times; the action, its secrets and the lock change in between; the client hangs up, the broker ends |
| IPC endpoint (`internal/ipc`) | socket file, connections | listen, accept, call, close | probing, removing and binding the socket are separate steps of two processes, and removals go by path |
| Vault creation and opening (`Initialize`, `Open`, `broker.New`, `getStore`) | the database file | init, open, clean up | a crash, a broker or another init between the steps |
| Generator, cryptography, paths, CLI, wire types, validation | none that lasts | pure functions | numeric edges only |

The parts meet in `broker.New` and `Broker.Handle`. The accept loop (`ipc.Serve`) starts one
goroutine per connection, and each runs `Handle` for one request. A handler
obtains the store (`getStore`), which copies the key set under `Store.mu` at the
start of every operation, so a lock does not stop an operation already begun.
The store has one database connection: every query and every transaction is
atomic, and the audit event of an update is part of its transaction. Unlock and
lock call the store and then the power manager. A run resolves secrets, passes
them to a child, and puts two redacting writers in front of the connection.

What makes each part correct:

* secrets: whatever requests race, rows stay readable, the state shown and the
  states of the values agree, values are numbered without gaps, an ended value
  never returns, each operation is atomic with its audit event, an action gets
  no value that had ended before it started, a secret can always be rotated;
* audit: an untampered log can be listed, and a listing shows the newest events;
* session: a lock locks, no inhibitor is lost or doubled, none outlives the
  broker, the machine does not sleep while the vault is unlocked, nobody waits
  for ever;
* redaction: the output does not depend on where the pieces end;
* actions: every row stays readable, a lookup returns what was approved, and
  approvals take effect one at a time without changing when the action was created;
* runs: a child gets live values of the secrets of one approved configuration; the exit code of
  `vcsm run` and the audit event say what the child did;
* start: a broker works with complete vaults only, an init that fails leaves
  nothing and one that was reported stays, a broker can claim its socket and keeps it.

## 2. Modules

| Module | What it is |
|---|---|
| `SecretLifecycle` | what the vault promises: atomic create, rotate, revoke, and a log |
| `VaultSecrets` | the store's tables and the goroutines that work on them |
| `VaultSecretsProofs` | its theorems |
| `AuditChain` | the audit log over the text order of its timestamps |
| `AuditChainProofs` | its theorems |
| `BrokerSession` | unlock, lock, status, inhibitor and exit |
| `BrokerSessionProofs` | its theorems |
| `Redaction` | `Redact` and the redacting writer |
| `RedactionProofs` | its theorems, and the theory of texts they need |
| `ActionRegister` | what the actions of a vault promise: a register per action |
| `ApprovedActions` | the rows of actions, `PutAction` and `GetAction` |
| `ApprovedActionsProofs` | its theorems |
| `ActionRuns` | a run from its request to its answer: composes `VaultSecrets` and `ApprovedActions` |
| `ActionRunsProofs` | its theorems |
| `VaultFile` | the database file: `Initialize` and `Open` |
| `VaultFileProofs` | its theorems |
| `Endpoint` | the socket file: `listen` and the end of `Serve` |
| `Startup` | the life of a broker process: composes `VaultFile` and `Endpoint` |
| `StartupProofs` | its theorems and those of `Endpoint` |
| `MC...` | small instances for TLC |

### VaultSecrets

`objects` and `versions` are the rows of the two tables, `audit` the events in
commit order, `unlocked` whether there are keys, `writer` and `runner` the
goroutines. One action stands for one query or transaction: `Begin` is `copyKeys`,
`Find` and `FindFails` are `findSecretMetadata`, `CommitCreate`, `CommitRotate`
and `CommitRevoke` are the transactions with everything they write, and
`CommitConflicts` their conflicts (the unique constraints, the compare-and-swap).
`Fault` stands for every other error return: each rolls the transaction back.
`Restart` is the end of the broker at any moment and the next start.

A ciphertext is kept as the revision in its associated data: `Opens` is what
XChaCha20-Poly1305 checks. A value is its secret and its version number, so that a
resolution which mixed up two secrets would show. A secret is its
(project, environment, name), which the lookup token and `UNIQUE(object_type,
lookup_token)` make a key; rows are never deleted. An action maps some of the variables
to secrets, or none (`NoName`), and then its resolution is done as soon as the keys are
copied. `dead` is a history variable: what had ended when a resolution began.

`ImplementsLifecycle` instantiates `SecretLifecycle` with `issued` = the number of
values, `live` = the active one, `log` = the events. The point of linearisation is
the commit; all other steps are stutters.

### AuditChain

An instant is a number; `TextRank` is the place of its RFC3339Nano text among all
texts. The format drops trailing zeros and ends in `Z`, which sorts after digits
and the point, so `.3Z` comes after `.39Z`. Two digits of base `Base` stand for the
nine decimal ones: dropping zeros needs no more. `AppendAudit` chains to any row
whose text is last (`ORDER BY created_at DESC LIMIT 1` leaves ties open), and
`ListAudit` may get the rows in any order of `Orders`. `Clock` says how the wall
clock may move between appends. The table is only touched by this code, so the
second check of `ListAudit`, the row's own HMAC, always succeeds; HMACs are ideal. A reply keeps
the limit the caller gave, negative ones too, and not the one `EffectiveLimit` made of it.

### BrokerSession

`conn[c].pc` is where the goroutine of a connection is; one step lies between any
two operations on shared state. "derive" is the time `Store.mu` is held for the key
derivation, "state" the time `status` holds `Broker.mu` for reading and wants
`Store.mu`. `handle` and `active` are the fields of `power.Manager`; `Start` and
`Stop` are one step each because the manager's mutex covers them. Only the steps
of the three requests that change the session are here: other requests take the
same two mutexes for a moment and change nothing of this state. `Outcomes` are the
three results of `acquire`: an inhibitor, none on this system, an error. On Windows
the inhibitor is a thread of the broker and ends with it; `NoOrphans` is about
Linux and macOS, where it is a child process.

### Redaction

`Replaced` is `ReplaceAll`, written as a recursive function; `Redact` applies it for
each value in turn, `PartialSuffixLength` and `Write` are the Go functions. `input`
is a history variable, all that was written. A failed destination stays failed
(`json.Encoder` keeps its error) and the copying goroutine of `os/exec` stops at it,
so only `Close` follows. The marker is one symbol outside of the alphabet, so a value
that has text in common with `[REDACTED]`, such as `RED` or `]ab`, is outside the model and the
theorems. Values of less than three bytes are dropped by the folds `Eligible` and `Redact` where the loops of
`NewWriter` and `Redact` skip them. `Apart` is a premise and no code: of the
values that count, none ends, before its own end or another's, with the start of one.

### ApprovedActions

`PutAction` is `BeginConfigure`, `FindRow`, `ReadCurrent` (or `ReadCurrentFails`) and
`CommitPut` (or `InsertConflicts`): one query each for the id and the revision and for
the ciphertext, then the transaction, which has no condition on the revision. `GetAction`
is `BeginGet`, `GetFind` and `GetOpen`. A row keeps the revision it was sealed with, as
in `VaultSecrets`. Time is the number of approvals before it, which is all `created_at`
and `updated_at` can tell; `configured` counts the `action.configure` events. `seen`, a history
variable, is what the action stood for since a lookup began.

`ImplementsRegister` instantiates `ActionRegister` with `approved` = what a row holds and
`born` = its time of creation. The point of linearisation is the commit: a configuration
that read an older row still replaces the whole configuration, so nothing is half old.

### ActionRuns

One goroutine is a `Reader` of `ApprovedActions`, a `Runner` of `VaultSecrets`, and
holds the state `run[r]` of `runAction` and of its client. `Request`, `Lookup`, `Resolve`,
`ResolveNext` are steps of those modules; each failure answers in the same step.
`StartChild` and `ChildEnds` are `runner.Run`: a child that exited with 0 can still
be an error of the run, when the client was gone before its output had been sent or the context was
cancelled (code 130, after which no record is made). `Record` is the
dropped error of `RecordAudit`: the event is there, or the vault was locked, or the database or
a cancelled context refused it. `Told` is what `ipc.Call` makes of the answer and `ExitOf` what `vcsm run`
exits with. `Hangup` is a client that goes away, `Restart` the end of the broker in any
state. `excused` is a history variable: the vault was locked during the run, or the record failed.

### VaultFile, Endpoint and Startup

`VaultFile` keeps the file at the path and how far each file is: `empty` (SQLite made
it), `schema` (`createSchema` committed), `vault` (schema version and key wrapper committed).
A process that has a file open goes on with it after its name is removed. `InitFaults` is every
error return of `Initialize`; with the clean-up in place it leads to `Cleanup`, which
removes whatever is at the path by then. `Crash` removes nothing; it also stands for an
`openDatabase` that fails after SQLite made the file. `Opened` lets SQLite make a new file
when the path has become free between `os.Stat` and the opening.

`Endpoint` has one action for each system call of `listen` (`Stat`, `Dial`, `Remove`, `Bind`,
`ListenOn`, `SecureSocket`) and of the end of `Serve`: `Unlink` is Go's
`UnixListener.Close`, `RemoveAgain` the `os.Remove` of `cleanupListener.Close`, which two calls
make, and `Exit` may come before the second. `Kill` leaves the socket stale. `Fault` is an error of
`os.MkdirAll`, `os.Remove`, `net.Listen` or `os.Chmod` that no other broker caused. `listen` takes
every error of dialling for a stale socket, so `Dial` may fail although somebody listens (a full
backlog, no descriptor left). `crowd` is a history variable: which brokers were alive during a
broker's start, and which dials it left unanswered.

`Startup` says which step of one goes with which of the other: `broker.New` opens the vault before
`ipc.Serve`, takes no vault for an answer but no other error, handlers open it later (`getStore`)
while the broker serves or ends, and a process that ends takes both with it.

## 3. What is checked

| Run | Question | Instance |
|---|---|---|
| `VaultRace` | do races, faults, locks and restarts keep the tables consistent and the operations atomic, and does a resolution get live values only? | 1 secret, 3 requests at a time, 1 action, 4 values, 5 commits |
| `VaultStuckRotation` | can every secret be rotated? No | 1 secret, 2 requests |
| `ActionRuns` | what does a child get, and what do the client and the log hear of it? Do racing configurations leave a register? Is everything exact with one writer of secrets? | 1 run, 1 action with 2 configurations, 2 variables and 2 secrets, 2 users, 1 writer, 2 values, 3 changes |
| `AuditAnyClock` | what holds of the log and its listing whatever the clock does and whatever limit is asked for? | 4 instants over two seconds, 4 events, limits -1, 0, 1, 3 and 4 with a largest limit of 3 and a default of 2 |
| `AuditTrimmedText` | can an untampered log be listed under a good clock? No | 3 events |
| `Session` | is the inhibitor ever doubled, lost or stopped twice? Does everything end? | 2 connections, every outcome of `acquire`, signals and kills, fair |
| `SessionUnlockedIdle` | is the machine kept awake while unlocked? Not always | 2 connections |
| `SessionOrphan` | does the inhibitor end with the broker? Not always | 1 connection and a signal |
| `RedactApart` | does the split show for values that do not overlap? | all 36 pairs and single values of length 3 and 4 over two symbols that qualify, and no value at all, output of 8 in pieces of up to 3 |
| `RedactBordered` | and for a value that ends as it starts? Yes | one value |
| `Startup` | do brokers and inits that start, fail and crash in any order leave a usable vault and a reachable broker? Who can take the socket of a broker that serves? | 2 inits, 2 brokers, 2 files |
| `VaultHalfMade` | can the vault be initialised whenever the broker says so? Not after an interrupted init | 1 init, 1 broker, 1 file |

Bounds. A race of the vault needs at most three requests: two whose reads are old
and one that commits in between; four values and five commits let a second race
start from the damage of the first. One secret suffices for `VaultRace` because no
query or update touches two secrets; only the log is shared, which `ActionRuns` and
the proofs cover with more. `ActionRuns` has two users, since `PutAction` has one read to
be stale in, two configurations of two variables, and one run, because runs share nothing but
the vault: several at once are in the proofs. The first configuration sets one variable and not the other, the
second sets both and gives the first variable another secret: a value of the wrong secret, or
a variable of the wrong configuration, shows at the first version number. Three changes
(`MaxChanges`) are the creation of a secret, a configuration and then a new one, or a rotation or a
revocation; `MaxBusy` lets two writers or users overlap. The audit runs need
three events for a wrong order to be noticed and a fourth for a list that is cut; the limits are
one on each side of both ends of the range, and both ends. Two
connections are a lock around an unlock or the reverse; more are in the proofs. Two
inits and two brokers are one beside another at every step, and two files are one that was removed
and the next. The output of eight symbols holds two values of four. `MaxVersion`, `MaxEvents`,
`MaxPuts`, `MaxChanges`, `MaxBusy`, `MaxFiles`, `MaxInput`, `MaxChunk` and `MaxOrphans` bound the models
only: a run stops appending, issuing, approving, creating or starting there.
Interchangeable goroutines and processes use symmetry where the run has no
liveness property.

`CHECK_DEADLOCK FALSE` stands in the redaction configurations only, because a
writer is closed once and then nothing follows. Everywhere else a state without a
successor would be reported.

Fairness. `Session` assumes of each handler that it moves if it can again and
again (`SF`), and of the exit the same for the step that needs mutexes. Go's
scheduler runs every runnable goroutine, and `sync.Mutex` and `RWMutex` hand
themselves to a waiter that has waited for a millisecond, so a goroutine is not
overtaken for ever. No client is assumed to send anything, and no signal to come. The
other specifications state no fairness and have safety properties only.

### Disagreements found

1. `VaultStuckRotation`: `RevokeSecret` updates its row without the revision condition
   `RotateSecret` has (store.go:519). A revocation that read before a rotation
   committed writes the old version number back, and every later rotation of that
   secret asks for a number that is taken. All other properties survive the race: no
   value is shown as usable that is not, none is lost. The same write sets the
   revision back, so a rotation that has read another row of that revision passes its
   compare-and-swap (store.go:476) over the revocation and makes the secret active again
   without having seen that it was revoked. `ImplementsLifecycle` allows this (a rotation
   after a revocation); `UnseenIsRevoked` says how far it goes: what is replaced unseen is
   a revocation and never another rotation, by the revision and the number together.
2. `AuditTrimmedText`: an event at .10 of a second sorts after one at .11, the next is
   chained to the wrong one, and `ListAudit` fails on an untampered log; by
   `DamageNeverHeals` it does so for ever. A clock set back has the same effect.
3. `SessionUnlockedIdle`: an unlock between the two steps of a lock ends with an
   unlocked vault and no inhibitor. So does an unlock whose inhibitor cannot be started: it
   answers with the error and leaves the keys installed (broker.go:85-92). With "error"
   among the outcomes TLC finds that first, so the run leaves it out to show the race.
4. `SessionOrphan`: an unlock in flight when the broker is signalled starts an
   inhibitor after the manager was stopped for the last time.
5. `RedactBordered`: of a value such as `aba` at the end of a write, the writer holds
   back the last `a` as a possible beginning and passes `ab` on, so the value comes out
   in full. `RedactApart` shows the writer right when no value ends with the beginning
   of one, which a generated value does with a probability near 1/60.
6. `VaultHalfMade`: an init that is interrupted after it created the file, for example by
   ctrl-C while Argon2id runs, leaves a file that the broker refuses with the advice
   to run `vcsm init`, and that `vcsm init` refuses because it exists. By
   `HalfMadeByCrash` an error that Initialize notices does not do this.

### What is less than one might expect

* Of two configurations of an action at once, the one that commits last stands,
  also when it was begun first, and the revision of the row may go back. `ActionsOpen`
  and `ImplementsRegister` show that nothing else is lost.
* An init that found no file may remove the vault another one created and reported
  since (`Cleanup` removes by path). `ReportedIsKept` says that only such a rival can.
* Two brokers that start at once may both bind the path, the second after removing
  the first's socket. `ServesAtPath` is about brokers whose start overlapped no other and that answered
  every dial (`crowd[b] = {}`). For all others `OnlyCrowdTakes` says by whom the path can be
  lost: by a broker that was alive during the start or one whose dial was not answered. A restart
  is such a case: a broker that ends removes the path twice, the next one may bind it after the first
  removal, and the second takes the new socket away. It then serves, and no client finds it.
* The event of a run is missing when the vault was locked while the child ran: `RecordTellsRun`
  makes that, a cancelled context (then the answer is code 130) and a failed insert the only excuses.
* `ipc.Call` takes the end of the stream for a success. `vcsm run` starts from exit code 1
  and is right all the same; the other commands exit with 0 when the broker ends on them.

## 4. What is proved

The theorems hold for any sets of secrets, requests, actions, connections and
instants and any bounds. They rest on the named assumptions on constants, which
TLC evaluates on every run, and on nothing else; where a theorem has a premise of
its own it is in its statement.

`VaultSecretsProofs`: type correctness, the other invariants of `VaultRace`,
`EndedStaysEnded`, and that the store implements `SecretLifecycle`. `StateAgrees` and
`MetadataOpens` are preserved by each commit alone; `HistoryGapFree` is not, because a rotation counts
from a row its request read earlier. The strengthening adds that the metadata of a row names a value that was issued
(`RowNamesIssued`; not the newest, finding 1), that a row held by a request about to commit, stale
as it may be, names one too (`ReadWasReal`), and that requests work on names
(`WriterNamed`). That is enough: a held row's next number is at most one more than the
number of values, so a rotation whose number is free takes the next one, one whose number is
taken changes nothing, and a revocation can set the metadata back only while it says
"revoked". `SoundWrite` states what the three transactions have in common, `CommitWrites` that each
does it, and the invariants follow from `SoundWrite` alone. `OnlyRevocationsAreUnseen` rests on
`ChangesShow`: after a change that a rotation in flight has not seen, the secret is revoked or the
number that rotation would give is taken. `DeadHasEnded` connects
`ResolvesLive` to `EndedStaysEnded`. With `OneWriter` (any two writers are the same one) as a premise two more
theorems cover `MetadataIsLatest` and `RevisionCountsUpdates`, which races break (finding 1).

`AuditChainProofs`: the inductive invariant is that every event is chained to an
earlier one (`PrevBefore`) and to the one just before it if its predecessors had
increasing texts (`ChainedInOrder`). `VerifiedOrder` is the central lemma: an order that
verifies is the order of insertion. From it follow `ListingsAreNewestFirst`, for every limit, and
`ListableWhenStraight`: a log can be listed exactly when it is chained in insertion order and texts do
not decrease. An append never restores that, which is `DamageNeverHeals`. No theorem has a premise about
the clock.

`BrokerSessionProofs`: type correctness and `OneInhibitor`. The invariant is that the
manager's fields are in one of three combinations, and that orphans are bounded
by broker starts.

`ApprovedActionsProofs`: a row says by itself which revision it was sealed with, whatever it
replaces (`RowsInv`); so no race makes it unreadable, and an old read of a revision opens nothing new. A request that
found no row and still finds none at its commit is older than every approval, so the
time of the first one is never lost (`UsersInv`). `ReadersInv` follows a lookup: what the action
stands for now is always among what was seen. `RegisterStep` maps every step to an approval or a stutter.

`ActionRunsProofs`: `ActionRuns` implements both modules it composes (`RunsImplementActions`,
`RunsImplementSecrets`), by a step of a run being a step of each or leaving its variables alone; the second
needs the invariant of the first, because a run resolves the mapping of the configuration it looked
up. `INSTANCE` of the two proof modules then carries their theorems over. On top, `RunInv` keeps a
goroutine in step with its lookup and resolution (`InStep`: it resolves the mapping of the configuration it
looked up), says that what had ended at the request had ended when the resolution began and that each
variable already resolved has a value of its own secret, or none when it names none
(`Resolved`, `HasValueOf`, from `EndedValueIsKept`), and follows the outcome of the child to the log and the client (`Reports`, `Records`). From it
follow `ChildIsSound`, `ZeroExitIsSuccess` and `RecordTellsRun`, for any number of concurrent runs.

`VaultFileProofs`: while nothing has spoiled it, a half-made file at the path is in the care of an
init that completes or removes it (`CaresFor`); all inits at work beside a file are its rivals
(`OnlyRivals`), because an init begins only where there is none. `StartupProofs` has the theorems of
`Endpoint` first. An outsider is a broker that is not in the crowd of another: none is alive while that
one starts (`StartsAlone`), so a broker without a crowd runs alone and what it read of the path still
holds (`KnowsPath`); and while a broker serves at the path, outsiders get no further than its answer or an
error of their own (`KeepsOthersOut`). The last is about every broker, also one with a crowd, and
gives `PathIsTakenByCrowd`. Then it composes file and socket as `ActionRunsProofs` does.

`RedactionProofs`: all four invariants of the writer, for texts, pieces and values of any length
and number. `TypeOK` and `HeldStartsValue` hold for any values. `SplitIsInvisible` and
`NothingSlips` have a premise, `AllApart`: every configuration is `Apart`. `RedactApart` checks the same
premise on the configurations that satisfy it, and `RedactBordered` (finding 5) shows that it cannot be
dropped. The argument has three layers.

* `Replaced` alone. `ReplacedSplits`: where a value does not stand across two texts, replacing it
  in both is replacing it in each. `ReplacedKeeps`: whatever stands in the result stood in the
  text, and was not replaced; the marker is in no value, so removing one value makes no other one appear.
* `Redact` for any values. `RedactCleans` is its promise: no value of three bytes or more is left,
  though values overlap, contain each other and are removed one after the other. `RedactSplits`: what
  stands across two results stood across the texts (`StraddlesBefore`), so texts that no value stands
  across can be redacted one by one.
* The writer. `SplitInv` says that what is pending is the rest of the input, what has been passed on is
  `Redact` of the part before, and no value stands, *or can come to stand* with what is still to
  be written, across the place between (`NoneCutInTwo`). The last part is what makes it
  inductive. `Boundary` proves it for a write: a value that begins before the place the writer
  stops at, and ends after it, either reaches the end of the text, and then a longer end would have been held
  back; or ends inside what is held back, and then it ends with the start of another
  value, which `Apart` excludes. `RedactAt` then joins the parts.

The meaning of the recursive `Replaced` and of the folds needs induction, which the library
states with an operator as a parameter, and the provers cannot instantiate that. `SetInduction` states it
with a set instead (0 is in it, and with every number the next one, hence every number)
and is proved from the well-foundedness of `<`. `Downward`, the
same from the end of a text to its start, `ScanDefined` and `FoldExists`, which say that the recursive
definitions have a solution, and `FoldSteps` follow from it. To be open to this, `Eligible` and `Redact` are folds
with a named step each.

`ApprovedActions`, `VaultFile` and `Endpoint` are instantiated and state no assumptions
of their own: what their theorems need of the constants is a premise (`NoConfig
\notin Configs`, `MaxFiles \in Nat`) or, for `Endpoint`, `PathAssumption`, and an assumption of the
module that composes them, which TLC evaluates.

Only model-checked: the liveness properties `LockTakesEffect`, `RequestsEnd` and `SignalEnds` (fairness
and ENABLED are out of the prover's reach), and the six violations, which are
counterexamples. Every invariant and every other action property or refinement a passing run checks
is a theorem.

## 5. What is not modelled, and what is left

Not modelled: the encryption itself (ideal), the file system and SQLite below a
transaction (in particular the journal files of a database that was removed), tampering with the
database, the named pipe of Windows, the size limit of a frame, the regular expressions of request
validation, path handling, printing, the generator and the installers. PROJECT.json lists every part
with its reason.

What could follow:

1. `Generator`: rejection sampling as an operator against a reference definition. It
   has no state and no other actor.
2. The session and the runs in one module: today `ActionRuns` takes the lock as a
   variable anyone may flip, which is more than the broker does.
