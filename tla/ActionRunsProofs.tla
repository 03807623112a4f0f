-------------------------- MODULE ActionRunsProofs --------------------------
(***************************************************************************)
(* Runs implement both VaultSecrets and ApprovedActions, so what is proved *)
(* of each holds of runs; and what a run tells its client and the log, for *)
(* any number of runs, writers, users, actions and secrets.                *)
(***************************************************************************)
EXTENDS ActionRuns, TLAPS

SecretFacts == INSTANCE VaultSecretsProofs
ActionFacts == INSTANCE ApprovedActionsProofs WITH Readers <- Runners

(***************************************************************************)
(* ActionFacts repeats the definitions of Approved, and SecretFacts those  *)
(* of Secrets: every step of one is the same step of the other.            *)
(***************************************************************************)
LEMMA SameUserStep ==
  ASSUME NEW u \in Users, Approved!UserNext(u)
  PROVE  ActionFacts!UserNext(u)
  BY DEF Approved!UserNext, ActionFacts!UserNext, Approved!BeginConfigure,
         ActionFacts!BeginConfigure, Approved!FindRow, ActionFacts!FindRow,
         Approved!ReadCurrent, ActionFacts!ReadCurrent, Approved!ReadCurrentFails,
         ActionFacts!ReadCurrentFails, Approved!CommitPut, ActionFacts!CommitPut,
         Approved!InsertConflicts, ActionFacts!InsertConflicts, Approved!ConfigureFault,
         ActionFacts!ConfigureFault, Approved!EndConfigure, ActionFacts!EndConfigure,
         Approved!Exists, ActionFacts!Exists, Approved!Opens, ActionFacts!Opens,
         Approved!IdleUser, ActionFacts!IdleUser, Approved!PutRow, ActionFacts!PutRow

LEMMA SameReaderStep ==
  ASSUME NEW r \in Runners, Approved!ReaderNext(r)
  PROVE  ActionFacts!ReaderNext(r)
  BY DEF Approved!ReaderNext, ActionFacts!ReaderNext, Approved!BeginGet,
         ActionFacts!BeginGet, Approved!GetFind, ActionFacts!GetFind, Approved!GetOpen,
         ActionFacts!GetOpen, Approved!GetFails, ActionFacts!GetFails, Approved!Forget,
         ActionFacts!Forget, Approved!EndGet, ActionFacts!EndGet, Approved!Exists,
         ActionFacts!Exists, Approved!Opens, ActionFacts!Opens, Approved!IdleReader,
         ActionFacts!IdleReader

LEMMA SameWriterStep ==
  ASSUME NEW w \in Writers, Secrets!WriterNext(w)
  PROVE  SecretFacts!WriterNext(w)
  BY DEF Secrets!WriterNext, SecretFacts!WriterNext, Secrets!Begin, SecretFacts!Begin,
         Secrets!Find, SecretFacts!Find, Secrets!FindFails, SecretFacts!FindFails,
         Secrets!CommitCreate, SecretFacts!CommitCreate, Secrets!CommitRotate,
         SecretFacts!CommitRotate, Secrets!CommitRevoke, SecretFacts!CommitRevoke,
         Secrets!CommitConflicts, SecretFacts!CommitConflicts, Secrets!Fault,
         SecretFacts!Fault, Secrets!Finished, SecretFacts!Finished, Secrets!Committing,
         SecretFacts!Committing, Secrets!Exists, SecretFacts!Exists, Secrets!Opens,
         SecretFacts!Opens, Secrets!IdleWriter, SecretFacts!IdleWriter, Secrets!NoRow,
         SecretFacts!NoRow, Secrets!NewVersion, SecretFacts!NewVersion,
         Secrets!RotateConflicts, SecretFacts!RotateConflicts, Secrets!Rotated,
         SecretFacts!Rotated, Secrets!Revoked, SecretFacts!Revoked, Secrets!RotatedRow,
         SecretFacts!RotatedRow, Secrets!RevokedRow, SecretFacts!RevokedRow,
         Secrets!Recorded, SecretFacts!Recorded, Secrets!Versions, SecretFacts!Versions,
         Secrets!tables, SecretFacts!tables

LEMMA SameRunnerStep ==
  ASSUME NEW r \in Runners, Secrets!RunnerNext(r)
  PROVE  SecretFacts!RunnerNext(r)
  BY DEF Secrets!RunnerNext, SecretFacts!RunnerNext, Secrets!BeginResolve,
         SecretFacts!BeginResolve, Secrets!ResolveOne, SecretFacts!ResolveOne,
         Secrets!ResolveFails, SecretFacts!ResolveFails, Secrets!Release,
         SecretFacts!Release, Secrets!Ended, SecretFacts!Ended, Secrets!UsableValues,
         SecretFacts!UsableValues, Secrets!Obtained, SecretFacts!Obtained,
         Secrets!IdleRunner, SecretFacts!IdleRunner, Secrets!NoValue,
         SecretFacts!NoValue, Secrets!Mappings, SecretFacts!Mappings, Secrets!Mapped,
         SecretFacts!Mapped, Secrets!Versions, SecretFacts!Versions, Secrets!tables,
         SecretFacts!tables

LEMMA SameVaultStep ==
  ASSUME Secrets!Unlock \/ Secrets!Lock \/ Secrets!Restart
  PROVE  SecretFacts!Unlock \/ SecretFacts!Lock \/ SecretFacts!Restart
  BY DEF Secrets!Unlock, SecretFacts!Unlock, Secrets!Lock, SecretFacts!Lock,
         Secrets!Restart, SecretFacts!Restart, Secrets!IdleWriter, SecretFacts!IdleWriter,
         Secrets!IdleRunner, SecretFacts!IdleRunner, Secrets!NoValue, SecretFacts!NoValue,
         Secrets!NoRow, SecretFacts!NoRow, Secrets!tables, SecretFacts!tables

-----------------------------------------------------------------------------
(***************************************************************************)
(* To the actions of the vault, a run is a lookup.                         *)
(***************************************************************************)
LEMMA ActionsStep ==
  ASSUME [Next]_vars
  PROVE  [ActionFacts!Next]_(ActionFacts!vars)
<1> SUFFICES ActionFacts!Next \/ UNCHANGED <<actionVars, unlocked>>
  BY DEF actionVars, ActionFacts!vars
<1>1. CASE UNCHANGED vars
  BY <1>1 DEF vars
<1>2. CASE SetLock
  BY <1>2 DEF SetLock, Approved!SetLock, ActionFacts!SetLock, ActionFacts!Next
<1>3. CASE Restart
  BY <1>3 DEF Restart, Approved!Restart, ActionFacts!Restart, ActionFacts!Next,
              Approved!IdleUser, ActionFacts!IdleUser, Approved!IdleReader, ActionFacts!IdleReader
<1>4. ASSUME NEW w \in Writers, WriterStep(w) PROVE UNCHANGED <<actionVars, unlocked>>
  BY <1>4
  DEF WriterStep, Secrets!WriterNext, Secrets!Begin, Secrets!Find, Secrets!FindFails,
      Secrets!CommitCreate, Secrets!CommitRotate, Secrets!CommitRevoke, Secrets!CommitConflicts,
      Secrets!Fault
<1>5. ASSUME NEW u \in Users, UserStep(u) PROVE ActionFacts!Next
  BY <1>5, SameUserStep DEF UserStep, ActionFacts!Next
<1>6. ASSUME NEW r \in Runners, RunNext(r)
      PROVE  ActionFacts!Next \/ UNCHANGED <<actionVars, unlocked>>
  <2>1. \/ Approved!ReaderNext(r)
        \/ UNCHANGED <<actionVars, unlocked>>
    <3>1. CASE \E a \in Actions : Request(r, a)
      BY <3>1 DEF Request, Approved!ReaderNext
    <3>2. CASE Lookup(r) \/ LookupFails(r) \/ ResolveLocked(r) \/ ResolveFails(r) \/ Answer(r)
      BY <3>2 DEF Lookup, LookupFails, ResolveLocked, ResolveFails, Answer, Approved!ReaderNext
    <3>3. CASE Resolve(r) \/ ResolveNext(r)
      BY <3>3 DEF Resolve, ResolveNext, Secrets!BeginResolve, Secrets!ResolveOne
    <3> QED
      BY <1>6, <3>1, <3>2, <3>3
      DEF RunNext, RequestLocked, StartChild, ChildEnds, Record, Hangup, Leave
  <2> QED
    BY <2>1, SameReaderStep DEF ActionFacts!Next
<1> QED
  BY <1>1, <1>2, <1>3, <1>4, <1>5, <1>6 DEF Next, OtherStep

LEMMA ActionsInit == Init => ActionFacts!Init
  BY DEF Init, Approved!Init, ActionFacts!Init, Approved!NoRow, ActionFacts!NoRow,
         Approved!IdleUser, ActionFacts!IdleUser, Approved!IdleReader, ActionFacts!IdleReader

\* Beside users who configure actions, a run looks one up as ApprovedActions
\* says, and does nothing else to them (broker.go:249-294).
THEOREM RunsImplementActions == Spec => ActionFacts!Spec
<1>1. [Next]_vars => [ActionFacts!Next]_(ActionFacts!vars)
  BY ActionsStep
<1> QED
  BY <1>1, ActionsInit, PTL DEF Spec, ActionFacts!Spec

(***************************************************************************)
(* To its secrets, a run is a resolution: of the variables of a            *)
(* configuration that was approved, which has been proved of lookups.      *)
(***************************************************************************)
LEMMA SecretsStep ==
  ASSUME ActionFacts!IInv, [Next]_vars
  PROVE  [SecretFacts!Next]_(SecretFacts!vars)
<1> SUFFICES SecretFacts!Next \/ UNCHANGED <<secretVars, unlocked>>
  BY DEF secretVars, tables, SecretFacts!vars
<1>1. CASE UNCHANGED vars
  BY <1>1 DEF vars
<1>2. CASE SetLock \/ Restart
  BY <1>2, SameVaultStep DEF SetLock, Restart, SecretFacts!Next
<1>3. ASSUME NEW w \in Writers, WriterStep(w) PROVE SecretFacts!Next
  BY <1>3, SameWriterStep DEF WriterStep, SecretFacts!Next
<1>4. ASSUME NEW u \in Users, UserStep(u) PROVE UNCHANGED <<secretVars, unlocked>>
  BY <1>4
  DEF UserStep, Approved!UserNext, Approved!BeginConfigure, Approved!FindRow,
      Approved!ReadCurrent, Approved!ReadCurrentFails, Approved!CommitPut,
      Approved!InsertConflicts, Approved!ConfigureFault
<1>5. ASSUME NEW r \in Runners, RunNext(r)
      PROVE  SecretFacts!Next \/ UNCHANGED <<secretVars, unlocked>>
  <2>1. CASE Resolve(r)
    <3>1. reader[r].config \in Configs
      BY <2>1 DEF Resolve, ActionFacts!IInv, ActionFacts!ReadersInv
    <3>2. Mapping[reader[r].config] \in Secrets!Mappings
      BY <3>1, MappingAssumption DEF Secrets!Mappings
    <3> QED
      BY <2>1, <3>2, SameRunnerStep DEF Resolve, Secrets!RunnerNext, SecretFacts!Next
  <2>2. CASE ResolveNext(r) \/ ResolveFails(r) \/ Answer(r)
    BY <2>2, SameRunnerStep
    DEF ResolveNext, ResolveFails, Answer, Secrets!RunnerNext, SecretFacts!Next
  <2>3. CASE (\E a \in Actions : Request(r, a)) \/ Lookup(r) \/ LookupFails(r) \/ ResolveLocked(r)
    BY <2>3
    DEF Request, Lookup, LookupFails, ResolveLocked, Approved!BeginGet, Approved!GetFind,
        Approved!GetOpen, Approved!GetFails, Approved!Forget
  <2> QED
    BY <1>5, <2>1, <2>2, <2>3
    DEF RunNext, RequestLocked, StartChild, ChildEnds, Record, Hangup, Leave
<1> QED
  BY <1>1, <1>2, <1>3, <1>4, <1>5 DEF Next, OtherStep

\* What VaultSecrets assumes of its constants.
LEMMA SecretsAssumed ==
  /\ SecretFacts!NoNameAssumption
  /\ SecretFacts!OperationsAssumption
  /\ SecretFacts!MaxVersionAssumption
  /\ SecretFacts!MaxEventsAssumption
  BY SecretsAssumption
  DEF SecretFacts!NoNameAssumption, SecretFacts!OperationsAssumption,
      SecretFacts!MaxVersionAssumption, SecretFacts!MaxEventsAssumption,
      SecretFacts!AllOperations

LEMMA SecretsInit == Init => SecretFacts!Init
  BY DEF Init, Secrets!Init, SecretFacts!Init, Secrets!NoRow, SecretFacts!NoRow,
         Secrets!Versions, SecretFacts!Versions, Secrets!IdleWriter, SecretFacts!IdleWriter,
         Secrets!IdleRunner, SecretFacts!IdleRunner, Secrets!NoValue, SecretFacts!NoValue

\* Beside writers of secrets, a run resolves them as VaultSecrets says, and does
\* nothing else to them (broker.go:249-294).
THEOREM RunsImplementSecrets == Spec => SecretFacts!Spec
<1>1. ActionFacts!IInv /\ [Next]_vars => [SecretFacts!Next]_(SecretFacts!vars)
  BY SecretsStep
<1> QED
  BY <1>1, SecretsInit, RunsImplementActions, ActionFacts!IInvHolds, PTL DEF Spec, SecretFacts!Spec

-----------------------------------------------------------------------------
(***************************************************************************)
(* What follows for runs.                                                  *)
(***************************************************************************)

\* However configurations race beside runs, every action stays readable
\* (store.go:603-666).
THEOREM RunsKeepActionsOpen == Spec => []ActionsOpen
<1>1. ActionFacts!ActionsOpen => ActionsOpen
  BY DEF ActionFacts!ActionsOpen, ActionsOpen, Approved!ActionsOpen, ActionFacts!Exists,
         Approved!Exists, ActionFacts!Opens, Approved!Opens
<1> QED
  BY <1>1, RunsImplementActions, ActionFacts!ActionsStayReadable, PTL

\* A run gets a configuration that was approved at some moment since its
\* request (store.go:668-685).
THEOREM RunsGetApproved == Spec => []GetsApproved
<1>1. ActionFacts!GetsApproved => GetsApproved
  BY DEF ActionFacts!GetsApproved, GetsApproved, Approved!GetsApproved
<1> QED
  BY <1>1, NoConfigAssumption, RunsImplementActions, ActionFacts!LookupsAreApproved, PTL

\* Beside runs, too, configurations take effect one at a time.
THEOREM RunsImplementRegister == Spec => ImplementsRegister
<1>1. Init => Register!Init
  BY DEF Init, Approved!Init, Register!Init, Approved!NoRow
<1>2. ActionFacts!IInv /\ ActionFacts!IInv' /\ [Next]_vars => [Register!Next]_(Register!vars)
  BY ActionsStep, ActionFacts!RegisterStep DEF Register!vars, Register!Next, Register!Approve
<1> QED
  BY <1>1, <1>2, RunsImplementActions, ActionFacts!IInvHolds, PTL
  DEF Spec, ImplementsRegister, Register!Spec

\* With one writer, the metadata of a secret names its newest value, whatever
\* runs beside it (store.go:423-529).
THEOREM RunsMetadataIsLatest ==
  ASSUME \A x, y \in Writers : x = y PROVE Spec => []MetadataIsLatest
<1>1. SecretFacts!MetadataIsLatest => MetadataIsLatest
  BY DEF SecretFacts!MetadataIsLatest, MetadataIsLatest, Secrets!MetadataIsLatest,
         SecretFacts!Exists, Secrets!Exists, SecretFacts!Issued, Secrets!Issued,
         SecretFacts!Versions, Secrets!Versions
<1>2. SecretFacts!OneWriter
  BY DEF SecretFacts!OneWriter
<1> QED
  BY <1>1, <1>2, SecretsAssumed, RunsImplementSecrets, SecretFacts!SerialMetadataIsLatest, PTL

\* With one writer, the revision of a row counts its updates.
THEOREM RunsRevisionCounts ==
  ASSUME \A x, y \in Writers : x = y PROVE Spec => []RevisionCountsUpdates
<1>1. SecretFacts!RevisionCountsUpdates => RevisionCountsUpdates
  BY DEF SecretFacts!RevisionCountsUpdates, RevisionCountsUpdates,
         Secrets!RevisionCountsUpdates, SecretFacts!EventsAbout, Secrets!EventsAbout,
         SecretFacts!Cardinality, Secrets!Cardinality
<1>2. SecretFacts!OneWriter
  BY DEF SecretFacts!OneWriter
<1> QED
  BY <1>1, <1>2, SecretsAssumed, RunsImplementSecrets, SecretFacts!SerialRevisionCounts, PTL

-----------------------------------------------------------------------------
(***************************************************************************)
(* What a run does with what it got.  The inductive invariant keeps the    *)
(* goroutine of a run in step with its lookup and its resolution, and      *)
(* follows the outcome of the child to the log and to the client.          *)
(***************************************************************************)
InStep(r) ==
    /\ run[r].pc \in {"idle", "told"} <=> reader[r].pc = "idle"
    /\ run[r].pc \in {"child", "ended", "recorded"} => runner[r].pc = "done"
    /\ runner[r].pc # "idle" =>
         reader[r].pc = "got" /\ runner[r].mapping = Mapping[reader[r].config]

\* The variable has the value it should: of the secret it is mapped to, or none.
HasValueOf(value, n) ==
    IF n = NoName
    THEN value = Secrets!NoValue
    ELSE value.secret = n /\ value.number \in Secrets!Versions

\* What had ended at the request had ended when the resolution began, and the
\* variables that are done have values of their secrets.
Resolved(r) ==
    /\ \A n \in Names : run[r].dead[n] \subseteq Secrets!Ended(n)
    /\ runner[r].pc # "idle" =>
         /\ \A n \in Names : run[r].dead[n] \subseteq runner[r].dead[n]
         /\ \A e \in EnvNames \ runner[r].todo :
              HasValueOf(runner[r].got[e], runner[r].mapping[e])
    /\ runner[r].pc = "done" => runner[r].todo = {}

Reports(r) ==
    /\ run[r].pc \in {"ended", "recorded"} /\ run[r].code = 0 => run[r].child = "zero"
    /\ run[r].pc = "ended" /\ run[r].code \notin {0, 130} =>
         run[r].child = "nonzero" \/ ~run[r].client
    /\ run[r].pc = "told" /\ run[r].exit = 0 => run[r].child = "zero"

Records(r) ==
    /\ run[r].pc \in {"asking", "child", "ended"} => run[r].record = "none"
    /\ run[r].record = "success" => run[r].child = "zero"
    /\ run[r].record = "failure" => run[r].child = "nonzero" \/ ~run[r].client
    /\ run[r].pc = "recorded" \/ (run[r].pc = "told" /\ run[r].exit = 0) =>
         run[r].record # "none" \/ run[r].excused
    /\ run[r].pc \notin {"idle", "told"} /\ ~unlocked => run[r].excused

RunInv(r) == InStep(r) /\ Resolved(r) /\ Reports(r) /\ Records(r)

RunsInv == run \in [Runners -> Run] /\ \A r \in Runners : RunInv(r)

\* What has been proved of lookups and of resolutions.
Facts == ActionFacts!IInv /\ SecretFacts!TablesInv /\ SecretFacts!RunnersInv

LEMMA Typed ==
  Facts => /\ reader \in [Runners -> ActionFacts!ReaderState]
           /\ runner \in [Runners -> SecretFacts!RunnerState]
           /\ unlocked \in BOOLEAN
  BY ActionFacts!TypeFolds
  DEF Facts, ActionFacts!IInv, SecretFacts!TablesInv, SecretFacts!TypeOK

LEMMA EndedGrows ==
  ASSUME Facts, [Next]_vars
  PROVE  \A n \in Names : Secrets!Ended(n) \subseteq Secrets!Ended(n)'
<1>1. SecretFacts!EndedValueIsKept
  BY SecretsAssumed, SecretsStep, SecretFacts!SecretsStep DEF Facts
<1> QED
  BY <1>1 DEF SecretFacts!EndedValueIsKept, Secrets!Ended, Secrets!Versions,
              SecretFacts!Versions

\* A run that a step leaves where it is.
LEMMA RunStays ==
  ASSUME NEW x \in Runners, RunInv(x),
         \A n \in Names : Secrets!Ended(n) \subseteq Secrets!Ended(n)',
         run'[x] = run[x], runner'[x] = runner[x],
         reader'[x].pc = reader[x].pc, reader'[x].config = reader[x].config,
         unlocked => unlocked'
  PROVE  RunInv(x)'
<1>1. InStep(x)'
  BY DEF RunInv, InStep
<1>2. Resolved(x)'
  BY DEF RunInv, Resolved, HasValueOf, Secrets!Versions
<1>3. Reports(x)' /\ Records(x)'
  BY DEF RunInv, Reports, Records
<1> QED
  BY <1>1, <1>2, <1>3 DEF RunInv

\* A step of one run leaves the others where they are.
LEMMA OthersStay ==
  ASSUME Facts, RunsInv, NEW r \in Runners, RunNext(r), NEW x \in Runners, x # r
  PROVE  run'[x] = run[x] /\ reader'[x] = reader[x] /\ runner'[x] = runner[x]
<1>1. run \in [Runners -> Run]
  BY DEF RunsInv
<1>2. run'[x] = run[x]
  BY <1>1
  DEF RunNext, Request, RequestLocked, Lookup, LookupFails, Resolve, ResolveLocked, ResolveNext,
      ResolveFails, StartChild, ChildEnds, Record, Answer, Hangup, Leave, Tell
<1>3. reader'[x] = reader[x]
  BY Typed
  DEF RunNext, Request, RequestLocked, Lookup, LookupFails, Resolve, ResolveLocked, ResolveNext,
      ResolveFails, StartChild, ChildEnds, Record, Answer, Hangup, Leave, actionVars,
      Approved!BeginGet, Approved!GetFind, Approved!GetOpen, Approved!GetFails, Approved!Forget,
      Approved!EndGet
<1>4. runner'[x] = runner[x]
  BY Typed
  DEF RunNext, Request, RequestLocked, Lookup, LookupFails, Resolve, ResolveLocked, ResolveNext,
      ResolveFails, StartChild, ChildEnds, Record, Answer, Hangup, Leave, secretVars,
      Secrets!BeginResolve, Secrets!ResolveOne, Secrets!ResolveFails, Secrets!Release
<1> QED
  BY <1>2, <1>3, <1>4

LEMMA ToldTyped ==
  ASSUME NEW x \in Run, NEW answer \in {"error", "done", "cut"}
  PROVE  /\ IdleRun \in Run
         /\ Told(x, answer) \in Run
         /\ Told(x, answer).pc \in {"idle", "told"}
<1>1. IdleRun \in Run
  BY DEF IdleRun, Run
<1>2. ExitOf(answer, x.code) \in {0, 1, 130}
  BY DEF ExitOf, Run
<1>3. [x EXCEPT !.pc = "told", !.exit = ExitOf(answer, x.code)] \in Run
  BY <1>2 DEF Run
<1> QED
  BY <1>1, <1>3 DEF Told, IdleRun, Run

(***************************************************************************)
(* The steps of one run.                                                   *)
(***************************************************************************)

\* A run that answers: "done" only after the record.
LEMMA RunEnds ==
  ASSUME NEW r \in Runners, NEW x \in Run, NEW answer \in {"error", "done", "cut"},
         run'[r] = Told(x, answer), reader'[r].pc = "idle", runner'[r].pc = "idle",
         \A n \in Names : x.dead[n] \subseteq Secrets!Ended(n)',
         x.record = "success" => x.child = "zero",
         x.record = "failure" => x.child = "nonzero" \/ ~x.client,
         answer = "done" /\ x.code = 0 =>
            x.child = "zero" /\ (x.record # "none" \/ x.excused)
  PROVE  RunInv(r)'
<1>1. x.client => /\ Told(x, answer).pc = "told"
                   /\ Told(x, answer).exit = ExitOf(answer, x.code)
                   /\ Told(x, answer).record = x.record
                   /\ Told(x, answer).child = x.child
                   /\ Told(x, answer).client = x.client
                   /\ Told(x, answer).excused = x.excused
                   /\ Told(x, answer).dead = x.dead
  BY DEF Told, Run
<1>2. /\ IdleRun.pc = "idle"
      /\ IdleRun.record = "none"
      /\ \A n \in Names : IdleRun.dead[n] = {}
      /\ ~x.client => Told(x, answer) = IdleRun
  BY DEF IdleRun, Told
<1>3. ExitOf(answer, x.code) = 0 => answer = "done" /\ x.code = 0
  BY DEF ExitOf
<1>4. InStep(r)'
  BY <1>1, <1>2 DEF InStep
<1>5. Resolved(r)'
  BY <1>1, <1>2 DEF Resolved
<1>6. Reports(r)'
  BY <1>1, <1>2, <1>3 DEF Reports
<1>7. Records(r)'
  BY <1>1, <1>2, <1>3 DEF Records
<1> QED
  BY <1>4, <1>5, <1>6, <1>7 DEF RunInv

LEMMA AskedTyped ==
  /\ Asked \in Run
  /\ Asked.pc = "asking" /\ Asked.record = "none" /\ Asked.code = 1
  /\ \A n \in Names : Asked.dead[n] = Secrets!Ended(n)
<1> DEFINE dead == [n \in Names |-> Secrets!Ended(n)]
<1>1. dead \in [Names -> SUBSET Secrets!Versions]
  BY DEF Secrets!Ended
<1>2. \A n \in Names : dead[n] = Secrets!Ended(n)
  OBVIOUS
<1>3. IdleRun \in Run /\ IdleRun.record = "none" /\ IdleRun.code = 1
  BY DEF IdleRun, Run
<1>4. Asked = [IdleRun EXCEPT !.pc = "asking", !.dead = dead]
  BY DEF Asked
<1> HIDE DEF dead
<1>5. /\ Asked \in Run
      /\ Asked.pc = "asking" /\ Asked.record = "none" /\ Asked.code = 1
      /\ Asked.dead = dead
  BY <1>1, <1>3, <1>4 DEF Run
<1> QED
  BY <1>2, <1>5

LEMMA RunStep ==
  ASSUME Facts, RunsInv, NEW r \in Runners, RunNext(r),
         \A n \in Names : Secrets!Ended(n) \subseteq Secrets!Ended(n)'
  PROVE  RunInv(r)' /\ run'[r] \in Run
<1>1. /\ run \in [Runners -> Run]
      /\ run[r] \in Run
      /\ reader \in [Runners -> ActionFacts!ReaderState]
      /\ runner \in [Runners -> SecretFacts!RunnerState]
      /\ reader[r] \in ActionFacts!ReaderState
      /\ runner[r] \in SecretFacts!RunnerState
  BY Typed DEF RunsInv
<1>2. InStep(r) /\ Resolved(r) /\ Reports(r) /\ Records(r)
  BY DEF RunsInv, RunInv
<1>3. \A n \in Names : run[r].dead[n] \subseteq Secrets!Ended(n)'
  BY <1>2 DEF Resolved
<1>4. reader[r].pc \in {"idle", "find", "open", "got"}
  BY <1>1 DEF ActionFacts!ReaderState
\* An answer that is not about a record.
<1>5. ASSUME run' = [run EXCEPT ![r] = Told(run[r], "error")], run[r].record = "none",
             reader'[r].pc = "idle", runner'[r].pc = "idle"
      PROVE  RunInv(r)' /\ run'[r] \in Run
  <2>1. run'[r] = Told(run[r], "error") /\ Told(run[r], "error") \in Run
    BY <1>1, <1>5, ToldTyped
  <2> QED
    BY <1>1, <1>3, <1>5, <2>1, RunEnds
<1>6. run[r].pc \notin {"idle", "told"} /\ runner[r].pc # "done" =>
        run[r].pc = "asking" /\ run[r].record = "none"
  BY <1>1, <1>2 DEF InStep, Records, Run
<1>7. ASSUME NEW a \in Actions, Request(r, a) PROVE RunInv(r)' /\ run'[r] \in Run
  <2>1. run'[r] = Asked /\ runner' = runner /\ runner[r].pc = "idle" /\ unlocked'
    BY <1>1, <1>2, <1>7 DEF Request, Approved!BeginGet, secretVars, InStep
  <2>2. reader'[r].pc = "find"
    BY <1>1, <1>7 DEF Request, Approved!BeginGet
  <2>3. InStep(r)' /\ Reports(r)' /\ Records(r)'
    BY <2>1, <2>2, AskedTyped DEF InStep, Reports, Records
  <2>4. Resolved(r)'
    <3>1. \A n \in Names : run'[r].dead[n] \subseteq Secrets!Ended(n)'
      BY <2>1, AskedTyped
    <3> QED
      BY <2>1, <3>1 DEF Resolved
  <2> QED
    BY <2>1, <2>3, <2>4, AskedTyped DEF RunInv
<1>8. CASE RequestLocked(r)
  <2>1. /\ run'[r] = Told(Asked, "error")
        /\ reader'[r].pc = "idle"
        /\ runner'[r].pc = "idle"
    BY <1>1, <1>2, <1>8 DEF RequestLocked, secretVars, actionVars, InStep
  <2>2. \A n \in Names : Asked.dead[n] \subseteq Secrets!Ended(n)'
    BY AskedTyped
  <2> QED
    BY <2>1, <2>2, AskedTyped, ToldTyped, RunEnds
<1>9. CASE Lookup(r)
  <2>1. /\ run' = run /\ runner' = runner /\ unlocked' = unlocked
        /\ reader[r].pc \in {"find", "open"}
        /\ reader'[r].pc \in {"open", "got"}
    <3>1. CASE Approved!GetFind(r)
      BY <1>1, <1>9, <3>1
      DEF Lookup, Approved!GetFind, secretVars, ActionFacts!ReaderState
    <3>2. CASE Approved!GetOpen(r)
      BY <1>1, <1>9, <3>2
      DEF Lookup, Approved!GetOpen, secretVars, ActionFacts!ReaderState
    <3> QED
      BY <1>9, <3>1, <3>2 DEF Lookup
  <2>2. runner[r].pc = "idle"
    BY <1>2, <2>1 DEF InStep
  <2>3. InStep(r)' /\ Reports(r)' /\ Records(r)'
    BY <1>2, <2>1, <2>2 DEF InStep, Reports, Records
  <2>4. Resolved(r)'
    BY <1>3, <2>1, <2>2 DEF Resolved
  <2> QED
    BY <1>1, <2>1, <2>3, <2>4 DEF RunInv
<1>10. CASE LookupFails(r)
  <2>1. /\ run' = [run EXCEPT ![r] = Told(run[r], "error")]
        /\ runner' = runner
        /\ reader[r].pc \in {"find", "open"}
        /\ reader'[r] = Approved!IdleReader
    BY <1>1, <1>10
    DEF LookupFails, Tell, Approved!GetFails, Approved!EndGet, secretVars
  <2>2. runner[r].pc = "idle" /\ run[r].pc \notin {"idle", "told"}
    BY <1>2, <2>1 DEF InStep
  <2>3. reader'[r].pc = "idle"
    BY <2>1 DEF Approved!IdleReader
  <2> QED
    BY <1>5, <1>6, <2>1, <2>2, <2>3
<1>11. CASE ResolveLocked(r)
  <2>1. /\ run' = [run EXCEPT ![r] = Told(run[r], "error")]
        /\ runner' = runner
        /\ reader[r].pc = "got"
        /\ runner[r].pc = "idle"
        /\ reader'[r] = Approved!IdleReader
    BY <1>1, <1>11
    DEF ResolveLocked, Tell, Approved!Forget, Approved!EndGet, secretVars
  <2>2. run[r].pc \notin {"idle", "told"}
    BY <1>2, <2>1 DEF InStep
  <2>3. reader'[r].pc = "idle"
    BY <2>1 DEF Approved!IdleReader
  <2> QED
    BY <1>5, <1>6, <2>1, <2>2, <2>3
<1>12. CASE ResolveFails(r)
  <2>1. /\ run' = [run EXCEPT ![r] = Told(run[r], "error")]
        /\ runner[r].pc = "resolve"
        /\ runner'[r] = Secrets!IdleRunner
        /\ reader'[r] = Approved!IdleReader
        /\ reader[r].pc = "got"
    BY <1>1, <1>12
    DEF ResolveFails, Tell, Approved!Forget, Approved!EndGet, Secrets!ResolveFails, Secrets!Release
  <2>2. run[r].pc \notin {"idle", "told"}
    BY <1>2, <2>1 DEF InStep
  <2>3. reader'[r].pc = "idle" /\ runner'[r].pc = "idle"
    BY <2>1 DEF Approved!IdleReader, Secrets!IdleRunner
  <2> QED
    BY <1>5, <1>6, <2>1, <2>2, <2>3
<1>13. CASE Resolve(r)
  <2>1. /\ run' = run /\ reader' = reader /\ unlocked' /\ unlocked' = unlocked
        /\ reader[r].pc = "got"
        /\ runner[r].pc = "idle"
        /\ runner'[r].pc \in {"resolve", "done"}
        /\ runner'[r].pc = "done" => runner'[r].todo = {}
        /\ runner'[r].todo = Secrets!Mapped(Mapping[reader[r].config])
        /\ runner'[r].mapping = Mapping[reader[r].config]
        /\ \A e \in EnvNames : runner'[r].got[e] = Secrets!NoValue
        /\ \A n \in Names : runner'[r].dead[n] = Secrets!Ended(n)
    BY <1>1, <1>13 DEF Resolve, Secrets!BeginResolve, actionVars
  <2>2. \A e \in EnvNames \ runner'[r].todo :
           HasValueOf(runner'[r].got[e], runner'[r].mapping[e])
    BY <2>1 DEF Secrets!Mapped, HasValueOf
  <2>3. run[r].pc \notin {"idle", "told", "child", "ended", "recorded"}
    BY <1>2, <2>1 DEF InStep
  <2>4. InStep(r)' /\ Reports(r)' /\ Records(r)'
    BY <1>2, <2>1, <2>2, <2>3 DEF InStep, Reports, Records
  <2>5. Resolved(r)'
    BY <1>2, <1>3, <2>1, <2>2 DEF Resolved, HasValueOf, Secrets!Versions
  <2> QED
    BY <1>1, <2>1, <2>4, <2>5 DEF RunInv
<1>14. CASE ResolveNext(r)
  <2>1. PICK e \in EnvNames : Secrets!ResolveOne(r, e)
    BY <1>14 DEF ResolveNext
  <2>2. PICK v \in Secrets!Versions : runner'[r] = Secrets!Obtained(runner[r], e, v)
    BY <1>1, <2>1 DEF Secrets!ResolveOne, Secrets!UsableValues
  <2>3. /\ run' = run /\ reader' = reader /\ unlocked' = unlocked
        /\ runner[r].pc = "resolve" /\ e \in runner[r].todo
    BY <1>14, <2>1 DEF ResolveNext, Secrets!ResolveOne, actionVars
  <2>4. /\ runner'[r].pc \in {"resolve", "done"}
        /\ runner'[r].pc = "done" => runner[r].todo = {e}
        /\ runner'[r].todo = runner[r].todo \ {e}
        /\ runner'[r].mapping = runner[r].mapping
        /\ runner'[r].dead = runner[r].dead
        /\ runner'[r].got =
             [runner[r].got EXCEPT ![e] = [secret |-> runner[r].mapping[e], number |-> v]]
    BY <1>1, <2>2 DEF Secrets!Obtained, SecretFacts!RunnerState
  <2>5. DOMAIN runner[r].got = EnvNames /\ runner[r].mapping[e] # NoName
    <3>1. DOMAIN runner[r].got = EnvNames
      BY <1>1 DEF SecretFacts!RunnerState
    <3>2. runner[r].mapping[e] \in Names
      BY <2>3 DEF Facts, SecretFacts!RunnersInv, SecretFacts!ResolvesNames
    <3> QED
      BY <3>1, <3>2, SecretsAssumption
  <2>6. InStep(r)' /\ Reports(r)' /\ Records(r)'
    BY <1>2, <2>3, <2>4 DEF InStep, Reports, Records
  <2>7. \A x \in EnvNames \ runner'[r].todo :
           HasValueOf(runner'[r].got[x], runner'[r].mapping[x])
    <3> SUFFICES ASSUME NEW x \in EnvNames \ runner'[r].todo
                 PROVE  HasValueOf(runner'[r].got[x], runner'[r].mapping[x])
      OBVIOUS
    <3>1. CASE x = e
      BY <2>2, <2>4, <2>5, <3>1 DEF HasValueOf
    <3>2. CASE x # e
      BY <1>2, <2>3, <2>4, <2>5, <3>2 DEF Resolved
    <3> QED
      BY <3>1, <3>2
  <2>8. Resolved(r)'
    BY <1>2, <1>3, <2>3, <2>4, <2>7 DEF Resolved, HasValueOf, Secrets!Versions
  <2> QED
    BY <1>1, <2>3, <2>6, <2>8 DEF RunInv
<1>15. CASE Answer(r)
  <2>1. /\ run[r].pc = "recorded"
        /\ run' = [run EXCEPT ![r] = Told(run[r], "done")]
        /\ runner'[r] = Secrets!IdleRunner
        /\ reader'[r] = Approved!IdleReader
    BY <1>1, <1>15
    DEF Answer, Tell, Approved!Forget, Approved!EndGet, Secrets!Release
  <2>2. reader'[r].pc = "idle" /\ runner'[r].pc = "idle"
    BY <2>1 DEF Approved!IdleReader, Secrets!IdleRunner
  <2>3. run'[r] = Told(run[r], "done") /\ run'[r] \in Run
    BY <1>1, <2>1, ToldTyped
  <2>4. /\ run[r].record = "success" => run[r].child = "zero"
        /\ run[r].record = "failure" => run[r].child = "nonzero" \/ ~run[r].client
        /\ run[r].record # "none" \/ run[r].excused
        /\ run[r].code = 0 => run[r].child = "zero"
    BY <1>2, <2>1 DEF Records, Reports
  <2> QED
    BY <1>1, <1>3, <2>2, <2>3, <2>4, RunEnds
\* The other steps move neither the lookup nor the resolution.
<1>16. ASSUME reader' = reader, runner' = runner, unlocked' = unlocked,
              run[r].pc = "idle" \/ run'[r].dead = run[r].dead,
              run'[r].pc \in {"idle", "told"} <=> run[r].pc \in {"idle", "told"},
              run'[r].pc \in {"child", "ended", "recorded"} => runner[r].pc = "done",
              \A n \in Names : run'[r].dead[n] \subseteq Secrets!Ended(n)'
       PROVE  InStep(r)' /\ Resolved(r)'
  <2>1. InStep(r)'
    BY <1>2, <1>16 DEF InStep
  <2>2. runner[r].pc # "idle" => run[r].pc # "idle"
    BY <1>2 DEF InStep
  <2>3. Resolved(r)'
    BY <1>2, <1>16, <2>2 DEF Resolved, HasValueOf, Secrets!Versions
  <2> QED
    BY <2>1, <2>3
<1>17. CASE StartChild(r)
  <2>1. /\ run[r].pc = "asking" /\ runner[r].pc = "done"
        /\ run'[r] = [run[r] EXCEPT !.pc = "child"]
        /\ reader' = reader /\ runner' = runner /\ unlocked' = unlocked
    BY <1>1, <1>17 DEF StartChild, secretVars, actionVars
  <2>2. /\ run'[r] \in Run /\ run'[r].pc = "child" /\ run'[r].dead = run[r].dead
        /\ run'[r].record = run[r].record /\ run'[r].excused = run[r].excused
    BY <1>1, <2>1 DEF Run
  <2>3. InStep(r)' /\ Resolved(r)'
    BY <1>3, <1>16, <2>1, <2>2
  <2>4. Reports(r)' /\ Records(r)'
    BY <1>2, <2>1, <2>2 DEF Reports, Records
  <2> QED
    BY <2>2, <2>3, <2>4 DEF RunInv
<1>18. CASE ChildEnds(r)
  <2>1. /\ run[r].pc = "child"
        /\ reader' = reader /\ runner' = runner /\ unlocked' = unlocked
    BY <1>1, <1>18 DEF ChildEnds, secretVars, actionVars
  <2>2. PICK child \in {"zero", "nonzero"}, code \in {0, 1, 130} :
           /\ child = "nonzero" => code # 0
           /\ child = "zero" /\ code = 1 => ~run[r].client
           /\ run' = [run EXCEPT ![r].pc = "ended", ![r].child = child, ![r].code = code]
    BY <1>18 DEF ChildEnds
  <2>3. run'[r] = [run[r] EXCEPT !.pc = "ended", !.child = child, !.code = code]
    BY <1>1, <2>2
  <2>4. /\ run'[r] \in Run /\ run'[r].pc = "ended" /\ run'[r].dead = run[r].dead
        /\ run'[r].child = child /\ run'[r].code = code /\ run'[r].client = run[r].client
        /\ run'[r].record = run[r].record /\ run'[r].excused = run[r].excused
    BY <1>1, <2>3 DEF Run
  <2>5. InStep(r)' /\ Resolved(r)'
    BY <1>2, <1>3, <1>16, <2>1, <2>4 DEF InStep
  <2>6. Reports(r)' /\ Records(r)'
    BY <1>2, <2>1, <2>2, <2>4 DEF Reports, Records
  <2> QED
    BY <2>4, <2>5, <2>6 DEF RunInv
<1>19. CASE Record(r)
  <2>1. /\ run[r].pc = "ended"
        /\ reader' = reader /\ runner' = runner /\ unlocked' = unlocked
    BY <1>1, <1>19 DEF Record, secretVars, actionVars
  <2>2. run[r].record = "none"
    BY <1>2, <2>1 DEF Records
  <2>3. /\ run'[r] \in Run /\ run'[r].pc = "recorded" /\ run'[r].dead = run[r].dead
        /\ run'[r].child = run[r].child /\ run'[r].code = run[r].code
        /\ run'[r].client = run[r].client
        /\ run[r].excused => run'[r].excused
        /\ run'[r].record = "success" => run[r].code = 0
        /\ run'[r].record = "failure" => run[r].code \notin {0, 130}
        /\ run'[r].record # "none" \/ run'[r].excused
    <3>1. CASE unlocked /\ run[r].code # 130 /\ run' = [run EXCEPT ![r].pc = "recorded",
                 ![r].record = IF run[r].code = 0 THEN "success" ELSE "failure"]
      BY <1>1, <2>2, <3>1 DEF Run
    <3>2. CASE run' = [run EXCEPT ![r].pc = "recorded"] /\ ~unlocked
      BY <1>1, <1>2, <2>1, <2>2, <3>2 DEF Run, Records
    <3>3. CASE run' = [run EXCEPT ![r].pc = "recorded", ![r].excused = TRUE]
      BY <1>1, <2>2, <3>3 DEF Run
    <3> QED
      BY <1>19, <3>1, <3>2, <3>3 DEF Record
  <2>4. InStep(r)' /\ Resolved(r)'
    BY <1>2, <1>3, <1>16, <2>1, <2>3 DEF InStep
  <2>5. Reports(r)' /\ Records(r)'
    BY <1>2, <2>1, <2>3 DEF Reports, Records
  <2> QED
    BY <2>3, <2>4, <2>5 DEF RunInv
<1>20. CASE Hangup(r)
  <2>1. /\ run[r].pc \notin {"idle", "told"}
        /\ run'[r] = [run[r] EXCEPT !.client = FALSE]
        /\ reader' = reader /\ runner' = runner /\ unlocked' = unlocked
    BY <1>1, <1>20 DEF Hangup, secretVars, actionVars
  <2>2. /\ run'[r] \in Run /\ ~run'[r].client /\ run'[r].pc = run[r].pc
        /\ run'[r].dead = run[r].dead /\ run'[r].child = run[r].child
        /\ run'[r].code = run[r].code /\ run'[r].exit = run[r].exit
        /\ run'[r].record = run[r].record /\ run'[r].excused = run[r].excused
    BY <1>1, <2>1 DEF Run
  <2>3. InStep(r)' /\ Resolved(r)'
    BY <1>2, <1>3, <1>16, <2>1, <2>2 DEF InStep
  <2>4. Reports(r)' /\ Records(r)'
    BY <1>2, <2>1, <2>2 DEF Reports, Records
  <2> QED
    BY <2>2, <2>3, <2>4 DEF RunInv
<1>21. CASE Leave(r)
  <2>1. /\ run[r].pc = "told" /\ run'[r] = IdleRun /\ IdleRun \in Run
        /\ reader' = reader /\ runner' = runner
    BY <1>1, <1>21, ToldTyped DEF Leave, secretVars, actionVars
  <2>2. /\ IdleRun.pc = "idle" /\ IdleRun.record = "none"
        /\ \A n \in Names : IdleRun.dead[n] = {}
    BY DEF IdleRun
  <2>3. runner[r].pc = "idle" /\ reader[r].pc = "idle"
    BY <1>2, <2>1 DEF InStep
  <2>4. InStep(r)' /\ Reports(r)' /\ Records(r)'
    BY <2>1, <2>2, <2>3 DEF InStep, Reports, Records
  <2>5. Resolved(r)'
    BY <2>1, <2>2, <2>3 DEF Resolved
  <2> QED
    BY <2>1, <2>4, <2>5 DEF RunInv
<1> QED
  BY <1>7, <1>8, <1>9, <1>10, <1>11, <1>12, <1>13, <1>14, <1>15, <1>17, <1>18, <1>19, <1>20, <1>21
  DEF RunNext

(***************************************************************************)
(* The steps of the vault and of the process, and the invariant.           *)
(***************************************************************************)
LEMMA LockStep ==
  ASSUME Facts, RunsInv, SetLock, NEW x \in Runners,
         \A n \in Names : Secrets!Ended(n) \subseteq Secrets!Ended(n)'
  PROVE  RunInv(x)' /\ run'[x] \in Run
<1>1. run \in [Runners -> Run] /\ run[x] \in Run /\ RunInv(x)
  BY DEF RunsInv
<1>2. reader' = reader
  BY DEF SetLock, Approved!SetLock
<1>3. CASE ~unlocked
  <2>1. run' = run /\ runner' = runner
    BY <1>3 DEF SetLock, Secrets!Unlock
  <2> QED
    BY <1>1, <1>2, <1>3, <2>1, RunStays
<1>4. CASE unlocked
  <2>1. runner' = runner /\ ExcuseRuns
    BY <1>4 DEF SetLock, Secrets!Lock
  <2>2. \/ run[x].pc \in {"idle", "told"} /\ run'[x] = run[x]
        \/ run'[x] = [run[x] EXCEPT !.excused = TRUE]
    BY <2>1 DEF ExcuseRuns
  <2>3. /\ run'[x] \in Run /\ run'[x].pc = run[x].pc /\ run'[x].dead = run[x].dead
        /\ run'[x].child = run[x].child /\ run'[x].code = run[x].code
        /\ run'[x].exit = run[x].exit /\ run'[x].client = run[x].client
        /\ run'[x].record = run[x].record
        /\ run'[x].excused = run[x].excused \/ run'[x].excused
        /\ run[x].pc \notin {"idle", "told"} => run'[x].excused
    BY <1>1, <2>2 DEF Run
  <2>4. InStep(x)'
    BY <1>1, <1>2, <2>1, <2>3 DEF RunInv, InStep
  <2>5. Resolved(x)'
    BY <1>1, <2>1, <2>3 DEF RunInv, Resolved, HasValueOf, Secrets!Versions
  <2>6. Reports(x)' /\ Records(x)'
    BY <1>1, <2>3 DEF RunInv, Reports, Records
  <2> QED
    BY <2>3, <2>4, <2>5, <2>6 DEF RunInv
<1> QED
  BY <1>3, <1>4

LEMMA RestartStep ==
  ASSUME Facts, RunsInv, Restart, NEW x \in Runners,
         \A n \in Names : Secrets!Ended(n) \subseteq Secrets!Ended(n)'
  PROVE  RunInv(x)' /\ run'[x] \in Run
<1>1. run[x] \in Run /\ InStep(x) /\ Resolved(x) /\ Reports(x) /\ Records(x)
  BY DEF RunsInv, RunInv
<1>2. reader'[x].pc = "idle" /\ runner'[x].pc = "idle"
  BY DEF Restart, Approved!Restart, Approved!IdleReader, Secrets!Restart, Secrets!IdleRunner
<1>3. \A n \in Names : run[x].dead[n] \subseteq Secrets!Ended(n)'
  BY <1>1 DEF Resolved
<1>4. CASE run[x].pc \in {"idle", "told"}
  <2>1. run'[x] = run[x]
    BY <1>4 DEF Restart
  <2>2. InStep(x)' /\ Reports(x)' /\ Records(x)'
    BY <1>1, <1>2, <1>4, <2>1 DEF InStep, Reports, Records
  <2>3. Resolved(x)'
    BY <1>2, <1>3, <2>1 DEF Resolved
  <2> QED
    BY <1>1, <2>1, <2>2, <2>3 DEF RunInv
<1>5. CASE run[x].pc \notin {"idle", "told"}
  <2>1. run'[x] = Told(run[x], "cut")
    BY <1>5 DEF Restart
  <2>2. /\ run[x].record = "success" => run[x].child = "zero"
        /\ run[x].record = "failure" => run[x].child = "nonzero" \/ ~run[x].client
    BY <1>1 DEF Records
  <2> QED
    BY <1>1, <1>2, <1>3, <2>1, <2>2, RunEnds, ToldTyped
<1> QED
  BY <1>4, <1>5

\* A request of another goroutine commits a configuration or a value: the
\* lookups and the resolutions stay where they are.
LEMMA RequestStep ==
  ASSUME Facts, RunsInv, OtherStep, NEW x \in Runners,
         \A n \in Names : Secrets!Ended(n) \subseteq Secrets!Ended(n)'
  PROVE  RunInv(x)' /\ run'[x] \in Run
<1>1. run[x] \in Run /\ RunInv(x) /\ reader[x] \in ActionFacts!ReaderState
  BY Typed DEF RunsInv
<1>2. ASSUME NEW w \in Writers, WriterStep(w)
      PROVE  run' = run /\ runner' = runner /\ reader' = reader /\ unlocked' = unlocked
  BY <1>2
  DEF WriterStep, actionVars, Secrets!WriterNext, Secrets!Begin, Secrets!Find,
      Secrets!FindFails, Secrets!CommitCreate, Secrets!CommitRotate, Secrets!CommitRevoke,
      Secrets!CommitConflicts, Secrets!Fault
<1>3. ASSUME NEW u \in Users, UserStep(u)
      PROVE  /\ run' = run /\ runner' = runner /\ unlocked' = unlocked
             /\ reader'[x].pc = reader[x].pc /\ reader'[x].config = reader[x].config
  <2>1. run' = run /\ runner' = runner
    BY <1>3 DEF UserStep, secretVars
  <2>2. unlocked' = unlocked /\ (reader' = reader \/ Approved!CommitPut(u))
    BY <1>3
    DEF UserStep, Approved!UserNext, Approved!BeginConfigure, Approved!FindRow,
        Approved!ReadCurrent, Approved!ReadCurrentFails, Approved!CommitPut,
        Approved!InsertConflicts, Approved!ConfigureFault
  <2>3. CASE Approved!CommitPut(u)
    <3>1. \/ reader'[x] = reader[x]
          \/ reader'[x] = [reader[x] EXCEPT !.seen = @ \cup {user[u].config}]
      BY <2>3 DEF Approved!CommitPut
    <3> QED
      BY <1>1, <2>1, <2>2, <3>1 DEF ActionFacts!ReaderState
  <2> QED
    BY <2>1, <2>2, <2>3
<1> QED
  BY <1>1, <1>2, <1>3, RunStays DEF OtherStep

LEMMA RunsInvStep == ASSUME Facts, RunsInv, [Next]_vars PROVE RunsInv'
<1>1. \A n \in Names : Secrets!Ended(n) \subseteq Secrets!Ended(n)'
  BY EndedGrows
<1>2. ASSUME NEW x \in Runners PROVE RunInv(x)' /\ run'[x] \in Run
  <2>1. RunInv(x) /\ run[x] \in Run
    BY DEF RunsInv
  <2>2. CASE UNCHANGED vars
    BY <1>1, <2>1, <2>2, RunStays DEF vars, secretVars, actionVars
  <2>3. ASSUME NEW r \in Runners, RunNext(r) PROVE RunInv(x)' /\ run'[x] \in Run
    <3>1. CASE x = r
      BY <1>1, <2>3, <3>1, RunStep
    <3>2. CASE x # r
      <4>1. run'[x] = run[x] /\ reader'[x] = reader[x] /\ runner'[x] = runner[x]
        BY <2>3, <3>2, OthersStay
      <4>2. unlocked' = unlocked
        BY <2>3
        DEF RunNext, Request, RequestLocked, Lookup, LookupFails, Resolve, ResolveLocked,
            ResolveNext, ResolveFails, StartChild, ChildEnds, Record, Answer, Hangup, Leave,
            Approved!BeginGet, Approved!GetFind, Approved!GetOpen, Approved!GetFails,
            Approved!Forget, Secrets!BeginResolve, Secrets!ResolveOne
      <4> QED
        BY <1>1, <2>1, <4>1, <4>2, RunStays
    <3> QED
      BY <3>1, <3>2
  <2> QED
    BY <1>1, <2>2, <2>3, LockStep, RestartStep, RequestStep DEF Next
<1>3. run' \in [Runners -> Run]
  <2>1. run \in [Runners -> Run]
    BY DEF RunsInv
  <2>2. DOMAIN run' = Runners /\ run' = [x \in Runners |-> run'[x]]
    <3>1. CASE SetLock \/ Restart \/ OtherStep \/ UNCHANGED vars
      BY <2>1, <3>1, Zenon
      DEF vars, SetLock, ExcuseRuns, Restart, OtherStep, WriterStep, UserStep
    <3>2. ASSUME NEW r \in Runners,
                 \/ \E a \in Actions : Request(r, a)
                 \/ RequestLocked(r) \/ Lookup(r) \/ LookupFails(r) \/ Resolve(r)
                 \/ ResolveLocked(r) \/ ResolveNext(r) \/ ResolveFails(r)
          PROVE  DOMAIN run' = Runners /\ run' = [x \in Runners |-> run'[x]]
      BY <2>1, <3>2, Zenon
      DEF Request, RequestLocked, Lookup, LookupFails, Resolve, ResolveLocked, ResolveNext,
          ResolveFails, Tell
    <3>3. ASSUME NEW r \in Runners,
                 StartChild(r) \/ Answer(r) \/ Hangup(r) \/ Leave(r)
          PROVE  DOMAIN run' = Runners /\ run' = [x \in Runners |-> run'[x]]
      BY <2>1, <3>3, Zenon DEF StartChild, Answer, Hangup, Leave, Tell
    <3>4. ASSUME NEW r \in Runners, ChildEnds(r)
          PROVE  DOMAIN run' = Runners /\ run' = [x \in Runners |-> run'[x]]
      <4>1. PICK child \in {"zero", "nonzero"}, code \in {0, 1, 130} :
               run' = [run EXCEPT ![r].pc = "ended", ![r].child = child, ![r].code = code]
        BY <3>4 DEF ChildEnds
      <4> QED
        BY <2>1, <4>1, Zenon
    <3>5. ASSUME NEW r \in Runners, Record(r)
          PROVE  DOMAIN run' = Runners /\ run' = [x \in Runners |-> run'[x]]
      BY <2>1, <3>5, Zenon DEF Record
    <3> QED
      BY <3>1, <3>2, <3>3, <3>4, <3>5 DEF Next, RunNext
  <2> QED
    BY <1>2, <2>2
<1> QED
  BY <1>2, <1>3 DEF RunsInv

LEMMA RunsInvInit == Init => RunsInv
<1> SUFFICES ASSUME Init, NEW x \in Runners PROVE RunInv(x) /\ IdleRun \in Run
  BY DEF Init, RunsInv
<1>1. /\ IdleRun \in Run /\ IdleRun.pc = "idle" /\ IdleRun.record = "none"
      /\ \A n \in Names : IdleRun.dead[n] = {}
  BY DEF IdleRun, Run
<1>2. run[x] = IdleRun /\ reader[x].pc = "idle" /\ runner[x].pc = "idle"
  BY DEF Init, Approved!Init, Approved!IdleReader, Secrets!Init, Secrets!IdleRunner
<1> QED
  BY <1>1, <1>2 DEF RunInv, InStep, Resolved, Reports, Records

LEMMA RunsInvHolds == Spec => [](Facts /\ RunsInv)
<1>1. Spec => []SecretFacts!TablesInv
  BY SecretsAssumed, RunsImplementSecrets, SecretFacts!TablesInvariant, PTL
<1>2. SecretFacts!TablesInv /\ SecretFacts!RunnersInv /\ [SecretFacts!Next]_(SecretFacts!vars)
        => SecretFacts!RunnersInv'
  BY SecretsAssumed, SecretFacts!RunnersInvStep
<1>3. Spec => []SecretFacts!RunnersInv
  BY <1>1, <1>2, SecretsAssumed, RunsImplementSecrets, SecretFacts!RunnersInvInit, PTL
  DEF SecretFacts!Spec
<1>4. Spec => []Facts
  BY <1>1, <1>3, RunsImplementActions, ActionFacts!IInvHolds, PTL DEF Facts
<1>5. Facts /\ RunsInv /\ [Next]_vars => RunsInv'
  BY RunsInvStep
<1> QED
  BY <1>4, <1>5, RunsInvInit, PTL DEF Spec

\* A child runs with the secrets of one configuration, approved at some moment
\* since the request: each variable it sets has a value of the secret it names,
\* one that had not been retired or revoked when the request came, and no other
\* variable has any (broker.go:249-294, store.go:532-600).
THEOREM ChildrenAreSound == Spec => []ChildIsSound
<1>1. Facts /\ RunsInv => ChildIsSound
  <2> SUFFICES ASSUME Facts, RunsInv, NEW r \in Runners,
                      run[r].pc \in {"child", "ended", "recorded"}
               PROVE  /\ reader[r].config \in reader[r].seen \ {NoConfig}
                      /\ \A e \in EnvNames :
                           IsFor(runner[r].got[e], Mapping[reader[r].config][e], run[r].dead)
    BY DEF ChildIsSound
  <2>1. /\ runner[r].pc = "done" /\ runner[r].todo = {}
        /\ reader[r].pc = "got"
        /\ runner[r].mapping = Mapping[reader[r].config]
        /\ \A n \in Names : run[r].dead[n] \subseteq runner[r].dead[n]
        /\ \A e \in EnvNames : HasValueOf(runner[r].got[e], runner[r].mapping[e])
    BY DEF RunsInv, RunInv, InStep, Resolved
  <2>2. reader[r].config \in reader[r].seen \cap Configs
    BY <2>1 DEF Facts, ActionFacts!IInv, ActionFacts!ReadersInv
  <2>3. ASSUME NEW e \in EnvNames
        PROVE  IsFor(runner[r].got[e], Mapping[reader[r].config][e], run[r].dead)
    <3>1. CASE Mapping[reader[r].config][e] = NoName
      BY <2>1, <3>1 DEF HasValueOf, IsFor
    <3>2. CASE Mapping[reader[r].config][e] # NoName
      <4>1. Mapping[reader[r].config][e] \in Names
        BY <2>2, <3>2, MappingAssumption
      <4>2. /\ runner[r].got[e].secret = Mapping[reader[r].config][e]
            /\ runner[r].got[e].number \in Secrets!Versions
        BY <2>1, <3>2 DEF HasValueOf
      <4>3. runner[r].got[e] # SecretFacts!NoValue
        BY <4>2, <3>2 DEF SecretFacts!NoValue
      <4>4. runner[r].got[e].number \notin runner[r].dead[runner[r].got[e].secret]
        BY <4>3 DEF Facts, SecretFacts!RunnersInv, SecretFacts!ResolvesLive
      <4> QED
        BY <2>1, <3>2, <4>1, <4>2, <4>4 DEF IsFor
    <3> QED
      BY <3>1, <3>2
  <2> QED
    BY <2>2, <2>3, NoConfigAssumption
<1> QED
  BY <1>1, RunsInvHolds, PTL

\* vcsm run exits with 0 only for a child that did (main.go:203-240,
\* broker.go:249-294).
THEOREM ZeroExitsAreSuccesses == Spec => []ZeroExitIsSuccess
<1>1. RunsInv => ZeroExitIsSuccess
  BY DEF RunsInv, RunInv, Reports, ZeroExitIsSuccess
<1> QED
  BY <1>1, RunsInvHolds, PTL

\* What is in the log of a run is what its child did, and a success that the
\* client was told of is in the log or has an excuse (broker.go:249-294).
THEOREM RecordsTellRuns == Spec => []RecordTellsRun
<1>1. RunsInv => RecordTellsRun
  BY DEF RunsInv, RunInv, Records, RecordTellsRun
<1> QED
  BY <1>1, RunsInvHolds, PTL

\* Every variable of a run, and of the vault beside it, ranges over its type.
THEOREM RunsTypeCorrect == Spec => []TypeOK
<1>1. SecretFacts!TypeOK => Secrets!TypeOK
  BY DEF SecretFacts!TypeOK, Secrets!TypeOK, SecretFacts!Row, Secrets!Row,
         SecretFacts!Versions, Secrets!Versions, SecretFacts!VersionState, Secrets!VersionState,
         SecretFacts!Event, Secrets!Event, SecretFacts!AllOperations, Secrets!AllOperations,
         SecretFacts!WriterState, Secrets!WriterState, SecretFacts!RunnerState,
         Secrets!RunnerState, SecretFacts!Mappings, Secrets!Mappings, SecretFacts!Value,
         Secrets!Value
<1>2. ActionFacts!TypeOK => Approved!TypeOK
  BY DEF ActionFacts!TypeOK, Approved!TypeOK, ActionFacts!Row, Approved!Row
<1>3. Facts /\ RunsInv => TypeOK
  BY <1>1, <1>2 DEF Facts, ActionFacts!IInv, SecretFacts!TablesInv, RunsInv, TypeOK
<1> QED
  BY <1>3, RunsInvHolds, PTL
=============================================================================
