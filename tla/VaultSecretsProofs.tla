------------------------- MODULE VaultSecretsProofs -------------------------
(***************************************************************************)
(* Theorems about VaultSecrets, for every set of names, writers, runners   *)
(* and environment variables and for every bound.                          *)
(***************************************************************************)
EXTENDS VaultSecrets, FiniteSetTheorems, TLAPS

\* A writer that is not idle works on a name of Names.
WriterNamed == \A w \in Writers : writer[w].pc # "idle" => writer[w].name \in Names

\* The metadata of a row names a value that was issued.
RowNamesIssued ==
    \A n \in Names :
        Exists(n) => objects[n].version \in Versions /\ Issued(n, objects[n].version)

\* What a writer about to commit read, and may be stale by now, still bears
\* on a row that exists and on a value that was issued.
ReadWasReal ==
    \A w \in Writers :
        writer[w].pc = "commit" /\ writer[w].op \in {"secret.rotate", "secret.revoke"} =>
            /\ Exists(writer[w].name)
            /\ writer[w].row.version \in Versions
            /\ Issued(writer[w].name, writer[w].row.version)

\* A value that had ended when a resolution began has ended now.
DeadHasEnded ==
    \A r \in Runners, n \in Names : runner[r].dead[n] \subseteq Ended(n)

\* What a resolution reads it reads of names.
ResolvesNames ==
    \A r \in Runners :
        runner[r].pc # "idle" => \A e \in runner[r].todo : runner[r].mapping[e] \in Names

(***************************************************************************)
(* The inductive invariant.  StateAgrees and MetadataOpens are preserved   *)
(* by each commit alone; HistoryGapFree is not, because a rotation counts  *)
(* from a row it read earlier: RowNamesIssued and ReadWasReal say why the  *)
(* UNIQUE constraint makes that count right.                               *)
(***************************************************************************)
TablesInv ==
    /\ TypeOK
    /\ WriterNamed
    /\ MetadataOpens
    /\ StateAgrees
    /\ HistoryGapFree
    /\ RowNamesIssued
    /\ ReadWasReal

IInv ==
    /\ TablesInv
    /\ AuditTellsState
    /\ DeadHasEnded
    /\ ResolvesNames
    /\ ResolvesLive

-----------------------------------------------------------------------------
(***************************************************************************)
(* Type correctness.                                                       *)
(***************************************************************************)

LEMMA IdleTyped == IdleWriter \in WriterState /\ IdleRunner \in RunnerState
  BY DEF IdleWriter, IdleRunner, WriterState, RunnerState, NoRow, Row, NoValue, Value, Mappings

\* What the transactions write is well typed.
LEMMA WrittenTyped ==
  /\ NoRow \in Row
  /\ \A row \in Row : RotatedRow(row) \in Row /\ RevokedRow(row) \in Row
  /\ \A vs \in [Versions -> VersionState], v \in Versions :
       /\ Rotated(vs, v) \in [Versions -> VersionState]
       /\ Revoked(vs) \in [Versions -> VersionState]
  /\ TypeOK => \A op \in AllOperations, n \in Names : Recorded(op, n) => audit' \in Seq(Event)
<1>1. NoRow \in Row
  BY DEF NoRow, Row
<1>2. \A row \in Row : RotatedRow(row) \in Row /\ RevokedRow(row) \in Row
  BY DEF Row, RotatedRow, RevokedRow, NewVersion
<1>3. ASSUME NEW vs \in [Versions -> VersionState], NEW v \in Versions
      PROVE  /\ Rotated(vs, v) \in [Versions -> VersionState]
             /\ Revoked(vs) \in [Versions -> VersionState]
  BY <1>3 DEF Rotated, Revoked, VersionState
<1>4. ASSUME TypeOK, NEW op \in AllOperations, NEW n \in Names, Recorded(op, n)
      PROVE  audit' \in Seq(Event)
  BY <1>4 DEF Recorded, Event, TypeOK
<1> QED
  BY <1>1, <1>2, <1>3, <1>4

LEMMA InitTypeOK == Init => TypeOK
<1> SUFFICES ASSUME Init PROVE TypeOK
  OBVIOUS
<1>1. objects \in [Names -> Row]
  BY DEF Init, NoRow, Row
<1>2. versions \in [Names -> [Versions -> VersionState]]
  BY DEF Init, VersionState
<1>3. audit \in Seq(Event)
  BY DEF Init
<1>4. writer \in [Writers -> WriterState] /\ runner \in [Runners -> RunnerState]
  BY IdleTyped DEF Init
<1> QED
  BY <1>1, <1>2, <1>3, <1>4 DEF Init, TypeOK

LEMMA InitWriterNamed == Init => WriterNamed
  BY DEF Init, WriterNamed, IdleWriter

\* Every step keeps the types.
LEMMA TypeOKStep == TypeOK /\ WriterNamed /\ [Next]_vars => TypeOK' /\ WriterNamed'
<1> SUFFICES ASSUME TypeOK, WriterNamed, [Next]_vars PROVE TypeOK' /\ WriterNamed'
  OBVIOUS
<1> USE DEF tables
<1>1. CASE Unlock
  BY <1>1 DEF Unlock, TypeOK, WriterNamed
<1>2. CASE Lock
  BY <1>2 DEF Lock, TypeOK, WriterNamed
<1>3. CASE Restart
  BY <1>3, IdleTyped DEF Restart, TypeOK, WriterNamed, IdleWriter
<1>4. ASSUME NEW w \in Writers, WriterNext(w) PROVE TypeOK' /\ WriterNamed'
  <2>1. /\ writer[w] \in WriterState
        /\ writer[w].row \in Row
        /\ writer[w].pc # "idle" => writer[w].name \in Names
    BY DEF TypeOK, WriterState, WriterNamed
  <2>2. Finished(w) => WriterNamed' /\ writer' \in [Writers -> WriterState]
    BY IdleTyped DEF Finished, WriterNamed, IdleWriter, TypeOK
  <2>3. ASSUME NEW op \in Operations, NEW n \in Names, Begin(w, op, n)
        PROVE  TypeOK' /\ WriterNamed'
    <3>1. [pc |-> IF op = "secret.create" THEN "commit" ELSE "find",
           op |-> op, name |-> n, row |-> NoRow] \in WriterState
      BY WrittenTyped, OperationsAssumption DEF WriterState
    <3> QED
      BY <2>3, <3>1 DEF Begin, TypeOK, WriterNamed
  <2>4. CASE Find(w)
    <3>1. objects[writer[w].name] \in Row
      BY <2>1, <2>4 DEF Find, TypeOK
    <3>2. [writer[w] EXCEPT !.pc = "commit", !.row = objects[writer[w].name]] \in WriterState
      BY <2>1, <3>1 DEF WriterState
    <3>3. writer' = [writer EXCEPT ![w] = [writer[w] EXCEPT !.pc = "commit",
                                                   !.row = objects[writer[w].name]]]
      BY <2>1, <2>4 DEF Find, TypeOK, WriterState
    <3> QED
      BY <2>1, <2>4, <3>2, <3>3 DEF Find, TypeOK, WriterNamed, WriterState
  <2>5. CASE FindFails(w) \/ CommitConflicts(w) \/ Fault(w)
    BY <2>2, <2>5 DEF FindFails, CommitConflicts, Fault, TypeOK
  <2>6. CASE CommitCreate(w)
    <3> DEFINE n == writer[w].name
    <3>1. n \in Names /\ 1 \in Versions
      BY <2>1, <2>6, MaxVersionAssumption DEF CommitCreate, Committing, Versions
    <3>2. [revision |-> 1, sealed |-> 1, version |-> 1, state |-> "active"] \in Row
      BY DEF Row
    <3>3. Rotated(versions[n], 1) \in [Versions -> VersionState]
      BY <3>1, WrittenTyped DEF TypeOK
    <3>4. audit' \in Seq(Event)
      BY <2>6, <3>1, WrittenTyped DEF CommitCreate, AllOperations
    <3> QED
      BY <2>2, <2>6, <3>1, <3>2, <3>3, <3>4 DEF CommitCreate, TypeOK
  <2>7. CASE CommitRotate(w)
    <3> DEFINE n == writer[w].name
    <3>1. n \in Names
      BY <2>1, <2>7 DEF CommitRotate, Committing
    <3>2. RotatedRow(writer[w].row) \in Row
      BY <2>1, WrittenTyped
    <3>3. Rotated(versions[n], NewVersion(writer[w].row)) \in [Versions -> VersionState]
      BY <2>7, <3>1, WrittenTyped DEF TypeOK, CommitRotate
    <3>4. audit' \in Seq(Event)
      BY <2>7, <3>1, WrittenTyped DEF CommitRotate, AllOperations
    <3> QED
      BY <2>2, <2>7, <3>1, <3>2, <3>3, <3>4 DEF CommitRotate, TypeOK
  <2>8. CASE CommitRevoke(w)
    <3> DEFINE n == writer[w].name
    <3>1. n \in Names /\ 1 \in Versions
      BY <2>1, <2>8, MaxVersionAssumption DEF CommitRevoke, Committing, Versions
    <3>2. RevokedRow(writer[w].row) \in Row
      BY <2>1, WrittenTyped
    <3>3. Revoked(versions[n]) \in [Versions -> VersionState]
      BY <3>1, WrittenTyped DEF TypeOK
    <3>4. audit' \in Seq(Event)
      BY <2>8, <3>1, WrittenTyped DEF CommitRevoke, AllOperations
    <3> QED
      BY <2>2, <2>8, <3>1, <3>2, <3>3, <3>4 DEF CommitRevoke, TypeOK
  <2> QED
    BY <1>4, <2>3, <2>4, <2>5, <2>6, <2>7, <2>8 DEF WriterNext
<1>5. ASSUME NEW r \in Runners, RunnerNext(r) PROVE TypeOK' /\ WriterNamed'
  <2>1. ASSUME NEW mapping \in Mappings, BeginResolve(r, mapping) PROVE TypeOK'
    <3>1. Mapped(mapping) \in SUBSET EnvNames /\ NoValue \in Value
      BY DEF Mapped, NoValue, Value
    <3>2. [pc |-> IF Mapped(mapping) = {} THEN "done" ELSE "resolve",
           todo |-> Mapped(mapping), mapping |-> mapping,
           got |-> [e \in EnvNames |-> NoValue],
           dead |-> [n \in Names |-> Ended(n)]] \in RunnerState
      BY <3>1 DEF RunnerState, Ended
    <3> QED
      BY <2>1, <3>2 DEF BeginResolve, TypeOK
  <2>2. ASSUME NEW e \in EnvNames, ResolveOne(r, e) PROVE TypeOK'
    <3>1. PICK v \in UsableValues(runner[r].mapping[e]) :
            runner' = [runner EXCEPT ![r] = Obtained(runner[r], e, v)]
      BY <2>2 DEF ResolveOne
    <3>2. v \in Nat
      BY <3>1 DEF UsableValues, Versions
    <3>3. Obtained(runner[r], e, v) \in RunnerState
      <4>1. runner[r] \in RunnerState
        BY DEF TypeOK
      <4>2. [secret |-> runner[r].mapping[e], number |-> v] \in Value
        BY <3>2, <4>1 DEF RunnerState, Mappings, Value
      <4>3. [runner[r].got EXCEPT ![e] = [secret |-> runner[r].mapping[e], number |-> v]]
              \in [EnvNames -> Value]
        BY <4>1, <4>2 DEF RunnerState
      <4> QED
        BY <4>1, <4>3 DEF RunnerState, Obtained
    <3> QED
      BY <2>2, <3>1, <3>3 DEF ResolveOne, TypeOK
  <2>3. ASSUME Release(r) \/ \E e \in EnvNames : ResolveFails(r, e) PROVE TypeOK'
    <3>1. /\ runner' = [runner EXCEPT ![r] = IdleRunner]
          /\ UNCHANGED <<objects, versions, audit, unlocked, writer>>
      BY <2>3 DEF Release, ResolveFails
    <3> QED
      BY <3>1, IdleTyped DEF TypeOK
  <2>4. UNCHANGED writer
    BY <1>5 DEF RunnerNext, BeginResolve, ResolveOne, ResolveFails, Release
  <2> QED
    BY <1>5, <2>1, <2>2, <2>3, <2>4 DEF RunnerNext, WriterNamed
<1>6. CASE UNCHANGED vars
  BY <1>6 DEF vars, TypeOK, WriterNamed
<1> QED
  BY <1>1, <1>2, <1>3, <1>4, <1>5, <1>6 DEF Next

\* The tables, the audit log and what the goroutines hold keep their types
\* (internal/vault/store.go).
THEOREM TypeCorrect == Spec => []TypeOK
<1>1. Init => TypeOK /\ WriterNamed
  BY InitTypeOK, InitWriterNamed
<1> QED
  BY <1>1, TypeOKStep, PTL DEF Spec

-----------------------------------------------------------------------------
(***************************************************************************)
(* What a step does to the tables.                                         *)
(***************************************************************************)

Commit(w) == CommitCreate(w) \/ CommitRotate(w) \/ CommitRevoke(w)

\* Only a commit changes the tables.
LEMMA OnlyCommitsWrite ==
  ASSUME [Next]_vars PROVE UNCHANGED tables \/ \E w \in Writers : Commit(w)
<1>1. ASSUME NEW w \in Writers, WriterNext(w) PROVE UNCHANGED tables \/ Commit(w)
  BY <1>1 DEF WriterNext, Commit, Begin, Find, FindFails, CommitConflicts, Fault
<1>2. ASSUME NEW r \in Runners, RunnerNext(r) PROVE UNCHANGED tables
  BY <1>2 DEF RunnerNext, BeginResolve, ResolveOne, ResolveFails, Release
<1> QED
  BY <1>1, <1>2 DEF Next, vars, tables, Unlock, Lock, Restart

\* A sound write: row and vs replace the row and the history of n, which goes
\* from k values to j.
SoundWrite(n, row, vs, k, j) ==
    /\ row.revision # 0
    /\ row.sealed = row.revision
    /\ row.version \in Versions
    /\ \A v \in Versions : vs[v] = "active" <=> row.state = "active" /\ v = row.version
    /\ vs[row.version] # "absent"
    /\ \A v \in Versions : Issued(n, v) => vs[v] # "absent"
    /\ \A v \in Versions :
         versions[n][v] \in {"retired", "revoked"} => vs[v] = versions[n][v]
    /\ \A v \in Versions : v <= k <=> Issued(n, v)
    /\ \A v \in Versions : v <= j <=> vs[v] # "absent"

\* Which commit of w makes it.
Kind(w, row, k, j) ==
    \/ CommitCreate(w) /\ k = 0 /\ j = 1 /\ row.state = "active" /\ row.version = 1
    \/ CommitRotate(w) /\ k > 0 /\ j = k + 1 /\ row.state = "active" /\ row.version = j
    \/ CommitRevoke(w) /\ k > 0 /\ j = k /\ row.state = "revoked"

\* A commit makes one sound write.
LEMMA CommitWrites ==
  ASSUME TablesInv, NEW w \in Writers, Commit(w)
  PROVE  \E n \in Names, row \in Row, vs \in [Versions -> VersionState],
            k \in 0..MaxVersion, j \in 1..MaxVersion :
           /\ n = writer[w].name
           /\ objects' = [objects EXCEPT ![n] = row]
           /\ versions' = [versions EXCEPT ![n] = vs]
           /\ SoundWrite(n, row, vs, k, j)
           /\ Kind(w, row, k, j)
<1> DEFINE n == writer[w].name
           read == writer[w].row
<1>1. n \in Names /\ read \in Row
  BY DEF Commit, CommitCreate, CommitRotate, CommitRevoke, Committing, TablesInv, TypeOK,
         WriterNamed, WriterState
<1>2. PICK k \in 0..MaxVersion : /\ \A v \in Versions : v <= k <=> Issued(n, v)
                                 /\ k > 0 <=> Exists(n)
  BY <1>1 DEF TablesInv, HistoryGapFree
<1>3. versions[n] \in [Versions -> VersionState]
  BY <1>1 DEF TablesInv, TypeOK
<1>4. CASE CommitCreate(w)
  <2> DEFINE row == [revision |-> 1, sealed |-> 1, version |-> 1, state |-> "active"]
             vs == Rotated(versions[n], 1)
  <2>1. objects' = [objects EXCEPT ![n] = row] /\ versions' = [versions EXCEPT ![n] = vs]
    BY <1>4 DEF CommitCreate
  <2>2. k = 0 /\ 1 \in Versions /\ 1 \in 1..MaxVersion
    BY <1>2, <1>4, MaxVersionAssumption DEF CommitCreate, Versions
  <2>3. \A v \in Versions : versions[n][v] = "absent"
    BY <1>2, <2>2 DEF Versions, Issued
  <2>4. /\ vs \in [Versions -> VersionState]
        /\ \A v \in Versions : vs[v] = IF v = 1 THEN "active" ELSE "absent"
    BY <2>2, <2>3, <1>3 DEF Rotated, VersionState
  <2>5. row \in Row
    BY DEF Row
  <2>6. \A v \in Versions : v <= 1 <=> vs[v] # "absent"
    BY <2>4 DEF Versions
  <2>7. SoundWrite(n, row, vs, k, 1)
    BY <1>2, <2>2, <2>3, <2>4, <2>6 DEF SoundWrite, Issued
  <2>8. Kind(w, row, k, 1)
    BY <1>4, <2>2 DEF Kind
  <2> HIDE DEF vs, row
  <2> QED
    BY <1>1, <2>1, <2>2, <2>4, <2>5, <2>7, <2>8
<1>5. CASE CommitRotate(w)
  <2> DEFINE row == RotatedRow(read)
             vs == Rotated(versions[n], NewVersion(read))
  <2>1. objects' = [objects EXCEPT ![n] = row] /\ versions' = [versions EXCEPT ![n] = vs]
    BY <1>5 DEF CommitRotate
  <2>2. /\ read.version \in Versions
        /\ Issued(n, read.version)
        /\ NewVersion(read) \in Versions
        /\ ~Issued(n, NewVersion(read))
    BY <1>5 DEF CommitRotate, Committing, RotateConflicts, TablesInv, ReadWasReal, Issued
  <2>3. k = read.version /\ k + 1 \in 1..MaxVersion /\ NewVersion(read) = k + 1
    BY <1>2, <2>2, MaxVersionAssumption DEF Versions, NewVersion
  <2>4. /\ row \in Row
        /\ row.revision # 0
        /\ row.sealed = row.revision
        /\ row.version = k + 1
        /\ row.state = "active"
    BY <1>1, <2>3 DEF RotatedRow, Row, NewVersion
  <2>5. vs \in [Versions -> VersionState]
    BY <1>3, <2>2, WrittenTyped
  <2>6. \A v \in Versions : vs[v] = CASE v = k + 1 -> "active"
                                    [] v # k + 1 /\ versions[n][v] = "active" -> "retired"
                                    [] OTHER -> versions[n][v]
    BY <2>3 DEF Rotated
  <2>7. \A v \in Versions : v <= k + 1 <=> vs[v] # "absent"
    BY <1>2, <2>6 DEF Versions, Issued
  <2>8. \A v \in Versions : versions[n][v] \in {"retired", "revoked"} => vs[v] = versions[n][v]
    BY <2>2, <2>3, <2>6 DEF Issued
  <2> HIDE DEF vs, row
  <2>9. SoundWrite(n, row, vs, k, k + 1)
    <3>1. \A v \in Versions : vs[v] = "active" <=> v = k + 1
      BY <2>6
    <3>2. row.version \in Versions
      BY <2>2, <2>3, <2>4
    <3> QED
      BY <1>2, <2>3, <2>4, <2>6, <2>7, <2>8, <3>1, <3>2 DEF Issued, SoundWrite
  <2>10. Kind(w, row, k, k + 1)
    BY <1>5, <2>2, <2>3, <2>4 DEF Kind, Versions
  <2> QED
    BY <1>1, <2>1, <2>3, <2>4, <2>5, <2>9, <2>10
<1>6. CASE CommitRevoke(w)
  <2> DEFINE row == RevokedRow(read)
             vs == Revoked(versions[n])
  <2>1. objects' = [objects EXCEPT ![n] = row] /\ versions' = [versions EXCEPT ![n] = vs]
    BY <1>6 DEF CommitRevoke
  <2>2. read.version \in Versions /\ Issued(n, read.version) /\ Exists(n)
    BY <1>6 DEF CommitRevoke, Committing, TablesInv, ReadWasReal
  <2>3. k \in 1..MaxVersion
    BY <1>2, <2>2, MaxVersionAssumption
  <2>4. /\ row \in Row
        /\ row.revision # 0
        /\ row.sealed = row.revision
        /\ row.version = read.version
        /\ row.state = "revoked"
    BY <1>1 DEF RevokedRow, Row
  <2>5. /\ vs \in [Versions -> VersionState]
        /\ \A v \in Versions :
             vs[v] = IF versions[n][v] = "active" THEN "revoked" ELSE versions[n][v]
    BY <1>3, WrittenTyped, <2>2 DEF Revoked
  <2> HIDE DEF vs, row
  <2>6. SoundWrite(n, row, vs, k, k)
    <3>1. \A v \in Versions : vs[v] # "active" /\ (vs[v] # "absent" <=> Issued(n, v))
      BY <2>5 DEF Issued
    <3> QED
      BY <1>2, <2>2, <2>3, <2>4, <2>5, <3>1 DEF SoundWrite
  <2>7. Kind(w, row, k, k)
    BY <1>6, <2>3, <2>4 DEF Kind
  <2> QED
    BY <1>1, <2>1, <2>3, <2>4, <2>5, <2>6, <2>7
<1> QED
  BY <1>4, <1>5, <1>6 DEF Commit

\* A value that was issued stays issued, and a row is never deleted.
NothingForgotten ==
    \A n \in Names :
        /\ Exists(n) => Exists(n)'
        /\ \A v \in Versions : Issued(n, v) => Issued(n, v)'

LEMMA SecretsStep ==
  ASSUME TablesInv, [Next]_vars
  PROVE  /\ MetadataOpens'
         /\ StateAgrees'
         /\ HistoryGapFree'
         /\ RowNamesIssued'
         /\ NothingForgotten
         /\ EndedValueIsKept
<1>1. CASE UNCHANGED tables
  BY <1>1
  DEF TablesInv, tables, MetadataOpens, StateAgrees, HistoryGapFree, RowNamesIssued,
      NothingForgotten, EndedValueIsKept, Exists, Issued, IsActive, Opens
<1>2. ASSUME NEW w \in Writers, Commit(w)
      PROVE  /\ MetadataOpens'
             /\ StateAgrees'
             /\ HistoryGapFree'
             /\ RowNamesIssued'
             /\ NothingForgotten
             /\ EndedValueIsKept
  <2>1. PICK n \in Names, row \in Row, vs \in [Versions -> VersionState],
             k \in 0..MaxVersion, j \in 1..MaxVersion :
          /\ objects' = [objects EXCEPT ![n] = row]
          /\ versions' = [versions EXCEPT ![n] = vs]
          /\ SoundWrite(n, row, vs, k, j)
    BY <1>2, CommitWrites
  <2>2. /\ objects'[n] = row
        /\ versions'[n] = vs
        /\ \A m \in Names \ {n} : objects'[m] = objects[m] /\ versions'[m] = versions[m]
    BY <2>1 DEF TablesInv, TypeOK
  <2>3. MetadataOpens'
    BY <2>1, <2>2 DEF TablesInv, MetadataOpens, SoundWrite, Exists, Opens
  <2>4. StateAgrees'
    BY <2>1, <2>2 DEF TablesInv, StateAgrees, SoundWrite, IsActive
  <2>5. HistoryGapFree'
    <3>1. \E last \in 0..MaxVersion :
            /\ \A v \in Versions : v <= last <=> versions'[n][v] # "absent"
            /\ last > 0 <=> objects'[n].revision # 0
      BY <2>1, <2>2, MaxVersionAssumption DEF SoundWrite
    <3> QED
      BY <2>2, <3>1 DEF TablesInv, HistoryGapFree, Exists, Issued
  <2>6. RowNamesIssued'
    BY <2>1, <2>2 DEF TablesInv, RowNamesIssued, SoundWrite, Exists, Issued
  <2>7. NothingForgotten
    BY <2>1, <2>2 DEF NothingForgotten, SoundWrite, Exists, Issued
  <2>8. EndedValueIsKept
    BY <2>1, <2>2 DEF EndedValueIsKept, SoundWrite
  <2> QED
    BY <2>3, <2>4, <2>5, <2>6, <2>7, <2>8
<1> QED
  BY <1>1, <1>2, OnlyCommitsWrite

\* A writer stays as it is, ends, reads its row, or begins.
LEMMA WriterSteps ==
  ASSUME TablesInv, [Next]_vars, NEW x \in Writers
  PROVE  \/ writer'[x] = writer[x]
         \/ writer'[x] = IdleWriter
         \/ Find(x)
         \/ \E op \in Operations, n \in Names : Begin(x, op, n)
<1>1. ASSUME NEW w \in Writers, WriterNext(w)
      PROVE  \/ writer'[x] = writer[x]
             \/ writer'[x] = IdleWriter
             \/ Find(x)
             \/ \E op \in Operations, n \in Names : Begin(x, op, n)
  BY <1>1
  DEF WriterNext, Begin, Find, FindFails, CommitCreate, CommitRotate, CommitRevoke,
      CommitConflicts, Fault, Finished, TablesInv, TypeOK
<1>2. ASSUME NEW r \in Runners, RunnerNext(r) PROVE writer' = writer
  BY <1>2 DEF RunnerNext, BeginResolve, ResolveOne, ResolveFails, Release
<1>3. Unlock \/ Lock \/ UNCHANGED vars => writer' = writer
  BY DEF Unlock, Lock, vars
<1>4. Restart => writer'[x] = IdleWriter
  BY DEF Restart
<1> QED
  BY <1>1, <1>2, <1>3, <1>4 DEF Next

\* A writer reaches its transaction with a row it has just read, or creating.
LEMMA ReadWasRealStep ==
  ASSUME TablesInv, [Next]_vars, NothingForgotten PROVE ReadWasReal'
<1> SUFFICES ASSUME NEW x \in Writers,
                    writer'[x].pc = "commit",
                    writer'[x].op \in {"secret.rotate", "secret.revoke"}
             PROVE  /\ Exists(writer[x].name)'
                    /\ writer'[x].row.version \in Versions
                    /\ Issued(writer[x].name, writer[x].row.version)'
  BY DEF ReadWasReal
<1>1. CASE writer'[x] = writer[x]
  BY <1>1 DEF TablesInv, ReadWasReal, NothingForgotten, WriterNamed, Exists, Issued
<1>2. CASE Find(x)
  <2>1. /\ writer[x].name \in Names
        /\ Exists(writer[x].name)
        /\ writer'[x].name = writer[x].name
        /\ writer'[x].row = objects[writer[x].name]
    BY <1>2 DEF Find, TablesInv, WriterNamed, TypeOK, WriterState
  <2> QED
    BY <2>1 DEF TablesInv, RowNamesIssued, NothingForgotten, Exists, Issued
<1>3. CASE \E op \in Operations, n \in Names : Begin(x, op, n)
  BY <1>3 DEF Begin, TablesInv, TypeOK, AllOperations
<1>4. CASE writer'[x] = IdleWriter
  BY <1>4 DEF IdleWriter
<1> QED
  BY <1>1, <1>2, <1>3, <1>4, WriterSteps

LEMMA TablesInvInit == Init => TablesInv
<1> SUFFICES ASSUME Init PROVE TablesInv
  OBVIOUS
<1>1. TypeOK /\ WriterNamed
  BY InitTypeOK, InitWriterNamed
<1>2. /\ \A n \in Names : ~Exists(n) /\ objects[n].state = "none"
      /\ \A n \in Names, v \in Versions : ~Issued(n, v) /\ ~IsActive(n, v)
  BY DEF Init, Exists, Issued, IsActive, NoRow
<1>3. HistoryGapFree
  <2>1. 0 \in 0..MaxVersion /\ \A v \in Versions : ~(v <= 0)
    BY MaxVersionAssumption DEF Versions
  <2> QED
    BY <1>2, <2>1 DEF HistoryGapFree
<1>4. ReadWasReal
  BY DEF Init, ReadWasReal, IdleWriter
<1> QED
  BY <1>1, <1>2, <1>3, <1>4 DEF TablesInv, MetadataOpens, StateAgrees, RowNamesIssued

LEMMA TablesInvStep == TablesInv /\ [Next]_vars => TablesInv'
  BY TypeOKStep, SecretsStep, ReadWasRealStep DEF TablesInv

LEMMA TablesInvariant == Spec => []TablesInv
  BY TablesInvInit, TablesInvStep, PTL DEF Spec

\* Rotations and revocations that race leave every row readable
\* (findSecretMetadata, store.go:790-813).
THEOREM MetadataAlwaysOpens == Spec => []MetadataOpens
<1>1. TablesInv => MetadataOpens
  BY DEF TablesInv
<1> QED
  BY <1>1, TablesInvariant, PTL

\* The metadata row and the states of the values never disagree
\* (RotateSecret, RevokeSecret).
THEOREM StateAlwaysAgrees == Spec => []StateAgrees
<1>1. TablesInv => StateAgrees
  BY DEF TablesInv
<1> QED
  BY <1>1, TablesInvariant, PTL

\* Values are numbered without gaps, though each rotation takes its number
\* from a row that may be stale (UNIQUE(secret_id, version_number)).
THEOREM HistoryIsGapFree == Spec => []HistoryGapFree
<1>1. TablesInv => HistoryGapFree
  BY DEF TablesInv
<1> QED
  BY <1>1, TablesInvariant, PTL

\* No race brings a retired or revoked value back.
THEOREM EndedIsForEver == Spec => EndedStaysEnded
<1>1. TablesInv /\ [Next]_vars => [EndedValueIsKept]_vars
  BY SecretsStep
<1> QED
  BY <1>1, TablesInvariant, PTL DEF Spec, EndedStaysEnded

-----------------------------------------------------------------------------
(***************************************************************************)
(* What a rotation replaces.                                               *)
(***************************************************************************)

\* After any change that a rotation in flight has not seen, the secret is
\* revoked or the number that rotation would give is taken.  The revision does
\* not matter: it alone would not do, since revocations bring it back.
ChangesShow ==
    \A w \in Writers :
        Committing(w, "secret.rotate") =>
            \/ writer[w].row = objects[writer[w].name]
            \/ objects[writer[w].name].state = "revoked"
            \/ NewVersion(writer[w].row) \in Versions
                 => Issued(writer[w].name, NewVersion(writer[w].row))

\* A commit about the secret of a rotation in flight revokes it or takes the
\* next number, and no number a request has read is beyond the last one issued.
LEMMA CommitShows ==
  ASSUME TablesInv, NEW w \in Writers, Commit(w),
         NEW n \in Names, NEW v \in Versions, Issued(n, v)
  PROVE  \/ objects'[n] = objects[n]
         \/ objects'[n].state = "revoked"
         \/ v + 1 \in Versions => Issued(n, v + 1)'
<1>1. PICK m \in Names, row \in Row, vs \in [Versions -> VersionState],
           k \in 0..MaxVersion, j \in 1..MaxVersion :
        /\ objects' = [objects EXCEPT ![m] = row]
        /\ versions' = [versions EXCEPT ![m] = vs]
        /\ SoundWrite(m, row, vs, k, j)
        /\ Kind(w, row, k, j)
  BY CommitWrites
<1>2. CASE m # n
  BY <1>1, <1>2 DEF TablesInv, TypeOK
<1>3. CASE m = n
  <2>1. objects'[n] = row /\ versions'[n] = vs
    BY <1>1, <1>3 DEF TablesInv, TypeOK
  <2>2. v <= k /\ \A x \in Versions : x <= j => vs[x] # "absent"
    BY <1>1, <1>3 DEF SoundWrite
  <2>3. row.state = "revoked" \/ j = k + 1
    BY <1>1 DEF Kind
  <2>4. v \in Nat /\ k \in Nat
    BY MaxVersionAssumption DEF Versions
  <2> QED
    BY <2>1, <2>2, <2>3, <2>4 DEF Issued
<1> QED
  BY <1>2, <1>3

LEMMA ChangesShowStep == ASSUME TablesInv, ChangesShow, [Next]_vars PROVE ChangesShow'
<1> SUFFICES ASSUME NEW x \in Writers, Committing(x, "secret.rotate")'
             PROVE  \/ writer'[x].row = objects'[writer'[x].name]
                    \/ objects'[writer'[x].name].state = "revoked"
                    \/ NewVersion(writer'[x].row) \in Versions
                         => versions'[writer'[x].name][NewVersion(writer'[x].row)] # "absent"
  BY DEF ChangesShow, Issued
<1> DEFINE n == writer[x].name
           row == writer[x].row
<1>1. CASE writer'[x] = writer[x]
  <2>1. /\ n \in Names
        /\ row.version \in Versions
        /\ Issued(n, row.version)
    BY <1>1 DEF Committing, TablesInv, WriterNamed, ReadWasReal
  <2>2. \/ row = objects[n]
        \/ objects[n].state = "revoked"
        \/ NewVersion(row) \in Versions => Issued(n, NewVersion(row))
    BY <1>1 DEF Committing, ChangesShow
  <2>3. NothingForgotten
    BY SecretsStep
  <2>4. CASE objects'[n] = objects[n]
    BY <1>1, <2>1, <2>2, <2>3, <2>4 DEF NothingForgotten, Issued
  <2>5. ASSUME NEW w \in Writers, Commit(w), objects'[n] # objects[n]
        PROVE  \/ objects'[n].state = "revoked"
               \/ NewVersion(row) \in Versions => versions'[n][NewVersion(row)] # "absent"
    BY <2>1, <2>5, CommitShows DEF NewVersion, Issued
  <2>6. UNCHANGED tables => objects'[n] = objects[n]
    BY DEF tables
  <2> QED
    BY <1>1, <2>4, <2>5, <2>6, OnlyCommitsWrite DEF Issued
<1>2. CASE Find(x)
  BY <1>2 DEF Find, TablesInv, TypeOK, WriterState, tables
<1>3. CASE \E op \in Operations, m \in Names : Begin(x, op, m)
  BY <1>3 DEF Begin, Committing, TablesInv, TypeOK, AllOperations
<1>4. CASE writer'[x] = IdleWriter
  BY <1>4 DEF IdleWriter, Committing
<1> QED
  BY <1>1, <1>2, <1>3, <1>4, WriterSteps

\* No rotation replaces the row of another rotation it has not seen
\* (RotateSecret's condition on the revision and UNIQUE together).
THEOREM OnlyRevocationsAreUnseen == Spec => []UnseenIsRevoked
<1>1. Init => ChangesShow
  BY DEF Init, ChangesShow, Committing, IdleWriter
<1>2. TablesInv /\ ChangesShow /\ [Next]_vars => ChangesShow'
  BY ChangesShowStep
<1>3. ChangesShow => UnseenIsRevoked
  BY DEF ChangesShow, UnseenIsRevoked, RotateConflicts, Issued
<1> QED
  BY <1>1, <1>2, <1>3, TablesInvariant, PTL DEF Spec

-----------------------------------------------------------------------------
(***************************************************************************)
(* What a resolution obtains.                                              *)
(***************************************************************************)

RunnersInv == DeadHasEnded /\ ResolvesNames /\ ResolvesLive

LEMMA RunnersInvInit == Init => RunnersInv
  BY DEF Init, RunnersInv, DeadHasEnded, ResolvesNames, ResolvesLive, IdleRunner

LEMMA RunnersInvStep == TablesInv /\ RunnersInv /\ [Next]_vars => RunnersInv'
<1> SUFFICES ASSUME TablesInv, RunnersInv, [Next]_vars, NEW r \in Runners
             PROVE  /\ \A n \in Names : runner'[r].dead[n] \subseteq Ended(n)'
                    /\ runner'[r].pc # "idle" =>
                         \A e \in runner'[r].todo : runner'[r].mapping[e] \in Names
                    /\ \A e \in EnvNames :
                         runner'[r].got[e] # NoValue =>
                            runner'[r].got[e].number
                              \notin runner'[r].dead[runner'[r].got[e].secret]
  BY DEF RunnersInv, DeadHasEnded, ResolvesNames, ResolvesLive
<1> DEFINE Same(x) == runner'[x] = runner[x]
<1>1. \A n \in Names : Ended(n) \subseteq Ended(n)'
  BY SecretsStep DEF EndedValueIsKept, Ended
<1>2. CASE Same(r)
  BY <1>1, <1>2 DEF RunnersInv, DeadHasEnded, ResolvesNames, ResolvesLive
<1>3. CASE runner'[r] = IdleRunner
  BY <1>3 DEF IdleRunner
<1>4. ASSUME NEW mapping \in Mappings, BeginResolve(r, mapping)
      PROVE  /\ \A n \in Names : runner'[r].dead[n] \subseteq Ended(n)'
             /\ \A e \in runner'[r].todo : runner'[r].mapping[e] \in Names
             /\ \A e \in EnvNames : runner'[r].got[e] = NoValue
  <2>1. /\ runner'[r].dead = [n \in Names |-> Ended(n)]
        /\ runner'[r].todo = Mapped(mapping) /\ runner'[r].mapping = mapping
        /\ runner'[r].got = [e \in EnvNames |-> NoValue]
    BY <1>4 DEF BeginResolve, TablesInv, TypeOK
  <2>2. \A e \in Mapped(mapping) : mapping[e] \in Names
    BY DEF Mapped, Mappings
  <2> QED
    BY <1>1, <2>1, <2>2
<1>5. ASSUME NEW e \in EnvNames, ResolveOne(r, e)
      PROVE  /\ \A n \in Names : runner'[r].dead[n] \subseteq Ended(n)'
             /\ \A x \in runner'[r].todo : runner'[r].mapping[x] \in Names
             /\ \A x \in EnvNames :
                  runner'[r].got[x] # NoValue =>
                     runner'[r].got[x].number \notin runner'[r].dead[runner'[r].got[x].secret]
  <2>1. PICK v \in UsableValues(runner[r].mapping[e]) : runner'[r] = Obtained(runner[r], e, v)
    BY <1>5 DEF ResolveOne, TablesInv, TypeOK
  <2> DEFINE value == [secret |-> runner[r].mapping[e], number |-> v]
  <2>2. /\ runner'[r].dead = runner[r].dead
        /\ runner'[r].mapping = runner[r].mapping
        /\ runner'[r].todo = runner[r].todo \ {e}
        /\ runner'[r].got = [runner[r].got EXCEPT ![e] = value]
    BY <2>1 DEF Obtained, TablesInv, TypeOK, RunnerState
  <2>3. runner[r].got \in [EnvNames -> Value]
    BY DEF TablesInv, TypeOK, RunnerState
  <2>4. \A x \in runner[r].todo : runner[r].mapping[x] \in Names
    BY <1>5 DEF ResolveOne, RunnersInv, ResolvesNames
  <2>5. runner[r].mapping[e] \in Names
    BY <1>5, <2>4 DEF ResolveOne
  <2>6. value.number \notin runner[r].dead[value.secret]
    BY <2>5 DEF RunnersInv, DeadHasEnded, UsableValues, Ended
  <2>7. ASSUME NEW x \in EnvNames, runner'[r].got[x] # NoValue
        PROVE  runner'[r].got[x].number \notin runner'[r].dead[runner'[r].got[x].secret]
    <3>1. runner'[r].got[x] = IF x = e THEN value ELSE runner[r].got[x]
      BY <2>2, <2>3
    <3> HIDE DEF value
    <3> QED
      BY <2>2, <2>6, <2>7, <3>1 DEF RunnersInv, ResolvesLive
  <2> QED
    BY <1>1, <2>2, <2>4, <2>7 DEF RunnersInv, DeadHasEnded
<1>6. ASSUME NEW x \in Runners, RunnerNext(x)
      PROVE  \/ Same(r)
             \/ runner'[r] = IdleRunner
             \/ \E mapping \in Mappings : BeginResolve(r, mapping)
             \/ \E e \in EnvNames : ResolveOne(r, e)
  BY <1>6 DEF RunnerNext, BeginResolve, ResolveOne, ResolveFails, Release, TablesInv, TypeOK
<1>7. ASSUME NEW w \in Writers, WriterNext(w) PROVE Same(r)
  BY <1>7
  DEF WriterNext, Begin, Find, FindFails, CommitCreate, CommitRotate, CommitRevoke,
      CommitConflicts, Fault
<1>8. Unlock \/ Lock \/ UNCHANGED vars => Same(r)
  BY DEF Unlock, Lock, vars
<1>9. Restart => runner'[r] = IdleRunner
  BY DEF Restart
<1> HIDE DEF Same
<1> QED
  BY <1>2, <1>3, <1>4, <1>5, <1>6, <1>7, <1>8, <1>9 DEF Next

\* A resolution never obtains a value that was retired or revoked before it
\* began (ResolveSecrets, store.go:568-601).
THEOREM ResolvesAreLive == Spec => []ResolvesLive
<1>1. RunnersInv => ResolvesLive
  BY DEF RunnersInv
<1> QED
  BY <1>1, TablesInvariant, RunnersInvInit, RunnersInvStep, PTL DEF Spec

-----------------------------------------------------------------------------
(***************************************************************************)
(* The audit log.                                                          *)
(***************************************************************************)

\* A commit appends one event, about the name it wrote.
LEMMA CommitLogs ==
  ASSUME TablesInv, NEW w \in Writers, Commit(w)
  PROVE  \E op \in AllOperations :
           /\ audit' = Append(audit, [op |-> op, secret |-> writer[w].name])
           /\ op = "secret.revoke" <=> CommitRevoke(w)
<1>1. CASE CommitCreate(w)
  BY <1>1 DEF CommitCreate, CommitRevoke, Committing, Recorded, AllOperations
<1>2. CASE CommitRotate(w)
  BY <1>2 DEF CommitRotate, CommitRevoke, Committing, Recorded, AllOperations
<1>3. CASE CommitRevoke(w)
  BY <1>3 DEF CommitRevoke, Committing, Recorded, AllOperations
<1> QED
  BY <1>1, <1>2, <1>3 DEF Commit

LEMMA AuditTellsStateStep ==
  ASSUME TablesInv, AuditTellsState, [Next]_vars PROVE AuditTellsState'
<1>1. CASE UNCHANGED tables
  BY <1>1 DEF tables, AuditTellsState, EventsAbout, Exists
<1>2. ASSUME NEW w \in Writers, Commit(w) PROVE AuditTellsState'
  <2>1. PICK n \in Names, row \in Row, vs \in [Versions -> VersionState],
             k \in 0..MaxVersion, j \in 1..MaxVersion :
          /\ n = writer[w].name
          /\ objects' = [objects EXCEPT ![n] = row]
          /\ SoundWrite(n, row, vs, k, j)
          /\ Kind(w, row, k, j)
    BY <1>2, CommitWrites
  <2>2. PICK op \in AllOperations :
          /\ audit' = Append(audit, [op |-> op, secret |-> n])
          /\ op = "secret.revoke" <=> CommitRevoke(w)
    BY <1>2, <2>1, CommitLogs
  <2> DEFINE L == Len(audit)
  <2>3. /\ L \in Nat
        /\ Len(audit') = L + 1
        /\ \A i \in 1..L : audit'[i] = audit[i]
        /\ audit'[L + 1] = [op |-> op, secret |-> n]
    BY <2>2 DEF TablesInv, TypeOK
  <2>4. /\ objects'[n] = row
        /\ row.revision # 0
        /\ \A m \in Names \ {n} : objects'[m] = objects[m]
    BY <2>1 DEF TablesInv, TypeOK, SoundWrite
  <2>5. op = "secret.revoke" <=> row.state = "revoked"
    BY <2>1, <2>2 DEF Kind, CommitCreate, CommitRotate, CommitRevoke, Committing
  <2>6. ASSUME NEW m \in Names
        PROVE EventsAbout(m)' = IF m = n THEN EventsAbout(m) \cup {L + 1} ELSE EventsAbout(m)
    BY <2>3 DEF EventsAbout
  <2>7. \A m \in Names : EventsAbout(m) \subseteq 1..L
    BY DEF EventsAbout
  <2>8. ASSUME NEW m \in Names
        PROVE  /\ Exists(m)' <=> EventsAbout(m)' # {}
               /\ \A i \in EventsAbout(m)' :
                    (\A x \in EventsAbout(m)' : x <= i) =>
                       (audit'[i].op = "secret.revoke" <=> objects'[m].state = "revoked")
    <3>1. CASE m = n
      <4>1. \A i \in EventsAbout(m)' : (\A x \in EventsAbout(m)' : x <= i) => i = L + 1
        BY <2>3, <2>6, <2>7, <3>1
      <4>2. Exists(m)' /\ EventsAbout(m)' # {}
        BY <2>4, <2>6, <3>1 DEF Exists
      <4>3. audit'[L + 1].op = op /\ objects'[m].state = row.state
        BY <2>3, <2>4, <3>1
      <4> QED
        BY <2>5, <4>1, <4>2, <4>3
    <3>2. CASE m # n
      <4>1. EventsAbout(m)' = EventsAbout(m) /\ objects'[m] = objects[m]
        BY <2>4, <2>6, <3>2
      <4>2. \A i \in EventsAbout(m) : audit'[i] = audit[i]
        BY <2>3, <2>7
      <4> QED
        BY <4>1, <4>2 DEF AuditTellsState, Exists
    <3> QED
      BY <3>1, <3>2
  <2> QED
    BY <2>8 DEF AuditTellsState
<1> QED
  BY <1>1, <1>2, OnlyCommitsWrite

\* The last audit event about a secret tells whether it is revoked
\* (appendAudit runs in the transaction of each operation).
THEOREM AuditAlwaysTellsState == Spec => []AuditTellsState
<1>1. Init => AuditTellsState
  BY DEF Init, AuditTellsState, EventsAbout, Exists, NoRow
<1>2. TablesInv /\ AuditTellsState /\ [Next]_vars => AuditTellsState'
  BY AuditTellsStateStep
<1> QED
  BY <1>1, <1>2, TablesInvariant, PTL DEF Spec

-----------------------------------------------------------------------------
(***************************************************************************)
(* The store implements the lifecycle.                                     *)
(***************************************************************************)

\* CountOf finds the only number there is.
LEMMA CountOfIs ==
  ASSUME NEW vs, NEW k \in 0..MaxVersion, \A v \in Versions : v <= k <=> vs[v] # "absent"
  PROVE  CountOf(vs) = k
<1> DEFINE Counts(x) == \A v \in Versions : v <= x <=> vs[v] # "absent"
<1>1. ASSUME NEW x \in 0..MaxVersion, Counts(x) PROVE x = k
  <2>1. x \in Nat /\ k \in Nat /\ (x > 0 => x \in Versions) /\ (k > 0 => k \in Versions)
    BY MaxVersionAssumption DEF Versions
  <2>2. ~(x < k)
    BY <1>1, <2>1
  <2>3. ~(k < x)
    BY <1>1, <2>1
  <2> QED
    BY <2>1, <2>2, <2>3
<1>2. CountOf(vs) \in 0..MaxVersion /\ Counts(CountOf(vs))
  BY DEF CountOf
<1> QED
  BY <1>1, <1>2

\* LiveOf finds the only active value.
LEMMA LiveOfIs ==
  ASSUME NEW vs
  PROVE  /\ (\A v \in Versions : vs[v] # "active") => LiveOf(vs) = 0
         /\ \A x \in Versions :
              (\A v \in Versions : vs[v] = "active" <=> v = x) => LiveOf(vs) = x
  BY DEF LiveOf

\* Every step of the store is a step of the lifecycle, or changes nothing of it.
LEMMA LifecycleStep ==
  ASSUME TablesInv, [Next]_vars PROVE [Lifecycle!Next]_(Lifecycle!vars)
<1>1. CASE UNCHANGED tables
  BY <1>1 DEF tables, Lifecycle!vars
<1>2. ASSUME NEW w \in Writers, Commit(w) PROVE Lifecycle!Next
  <2>1. PICK n \in Names, row \in Row, vs \in [Versions -> VersionState],
             k \in 0..MaxVersion, j \in 1..MaxVersion :
          /\ n = writer[w].name
          /\ versions' = [versions EXCEPT ![n] = vs]
          /\ SoundWrite(n, row, vs, k, j)
          /\ Kind(w, row, k, j)
    BY <1>2, CommitWrites
  <2> DEFINE issued == [m \in Names |-> CountOf(versions[m])]
             live == [m \in Names |-> LiveOf(versions[m])]
  <2>2. versions'[n] = vs /\ \A m \in Names \ {n} : versions'[m] = versions[m]
    BY <2>1 DEF TablesInv, TypeOK
  <2>3. CountOf(versions[n]) = k /\ CountOf(vs) = j
    BY <2>1, CountOfIs DEF SoundWrite, Issued
  <2>4. issued[n] = k /\ issued' = [issued EXCEPT ![n] = j]
    BY <2>2, <2>3
  <2>5. ASSUME NEW x, LiveOf(vs) = x PROVE live' = [live EXCEPT ![n] = x]
    BY <2>2, <2>5
  <2>6. row.state = "active" => LiveOf(vs) = row.version
    BY <2>1, LiveOfIs DEF SoundWrite
  <2>7. row.state = "revoked" => LiveOf(vs) = 0
    BY <2>1, LiveOfIs DEF SoundWrite
  <2> HIDE DEF issued, live
  <2>8. CASE CommitCreate(w)
    <3>1. k = 0 /\ j = 1 /\ row.state = "active" /\ row.version = 1
      BY <2>1, <2>8 DEF Kind, CommitCreate, CommitRotate, CommitRevoke, Committing
    <3>2. audit' = Append(audit, [op |-> "secret.create", secret |-> n])
      BY <2>1, <2>8 DEF CommitCreate, Recorded
    <3>3. issued' = [issued EXCEPT ![n] = issued[n] + 1] /\ live' = [live EXCEPT ![n] = issued[n] + 1]
      BY <2>4, <2>5, <2>6, <3>1
    <3>4. Lifecycle!Create(n)
      BY <2>4, <3>1, <3>2, <3>3 DEF Lifecycle!Create, Lifecycle!Issue, Lifecycle!Logged, issued, live
    <3> QED
      BY <3>4 DEF Lifecycle!Next
  <2>9. CASE CommitRotate(w)
    <3>1. k > 0 /\ j = k + 1 /\ row.state = "active" /\ row.version = k + 1
      BY <2>1, <2>9 DEF Kind, CommitCreate, CommitRotate, CommitRevoke, Committing
    <3>2. audit' = Append(audit, [op |-> "secret.rotate", secret |-> n])
      BY <2>1, <2>9 DEF CommitRotate, Recorded
    <3>3. issued' = [issued EXCEPT ![n] = issued[n] + 1] /\ live' = [live EXCEPT ![n] = issued[n] + 1]
      BY <2>4, <2>5, <2>6, <3>1
    <3>4. Lifecycle!Rotate(n)
      BY <2>4, <3>1, <3>2, <3>3 DEF Lifecycle!Rotate, Lifecycle!Issue, Lifecycle!Logged, issued, live
    <3> QED
      BY <3>4 DEF Lifecycle!Next
  <2>10. CASE CommitRevoke(w)
    <3>1. k > 0 /\ j = k /\ row.state = "revoked"
      BY <2>1, <2>10 DEF Kind, CommitCreate, CommitRotate, CommitRevoke, Committing
    <3>2. audit' = Append(audit, [op |-> "secret.revoke", secret |-> n])
      BY <2>1, <2>10 DEF CommitRevoke, Recorded
    <3>3. issued' = issued
      BY <2>4, <3>1 DEF issued
    <3>4. live' = [live EXCEPT ![n] = 0]
      BY <2>5, <2>7, <3>1
    <3>5. Lifecycle!Revoke(n)
      BY <2>4, <3>1, <3>2, <3>3, <3>4 DEF Lifecycle!Revoke, Lifecycle!Logged, issued, live
    <3> QED
      BY <3>5 DEF Lifecycle!Next
  <2> QED
    BY <1>2, <2>8, <2>9, <2>10 DEF Commit
<1> QED
  BY <1>1, <1>2, OnlyCommitsWrite

\* Overlapping creations, rotations and revocations take effect as if each
\* ran alone at its commit, whatever rows they had read before it.
THEOREM StoreImplementsLifecycle == Spec => ImplementsLifecycle
<1>1. Init => Lifecycle!Init
  <2> SUFFICES ASSUME Init PROVE Lifecycle!Init
    OBVIOUS
  <2>1. ASSUME NEW n \in Names PROVE CountOf(versions[n]) = 0 /\ LiveOf(versions[n]) = 0
    <3>1. \A v \in Versions : versions[n][v] = "absent"
      BY DEF Init
    <3>2. 0 \in 0..MaxVersion /\ \A v \in Versions : ~(v <= 0)
      BY MaxVersionAssumption DEF Versions
    <3> QED
      BY <3>1, <3>2, CountOfIs, LiveOfIs
  <2> QED
    BY <2>1 DEF Init, Lifecycle!Init
<1>2. TablesInv /\ [Next]_vars => [Lifecycle!Next]_(Lifecycle!vars)
  BY LifecycleStep
<1> QED
  BY <1>1, <1>2, TablesInvariant, PTL DEF Spec, ImplementsLifecycle, Lifecycle!Spec

-----------------------------------------------------------------------------
(***************************************************************************)
(* One writer at a time.                                                   *)
(***************************************************************************)

\* The row a writer is about to replace is the one it read.
ReadIsCurrent ==
    \A w \in Writers :
        writer[w].pc = "commit" /\ writer[w].op \in {"secret.rotate", "secret.revoke"} =>
            writer[w].row = objects[writer[w].name]

SerialInv == ReadIsCurrent /\ MetadataIsLatest /\ RevisionCountsUpdates

\* At most one request writes at a time.
OneWriter == \A x, y \in Writers : x = y

LEMMA SerialInvInit == Init => SerialInv
<1> SUFFICES ASSUME Init PROVE SerialInv
  OBVIOUS
<1>1. ReadIsCurrent
  BY DEF Init, ReadIsCurrent, IdleWriter
<1>2. MetadataIsLatest
  BY DEF Init, MetadataIsLatest, Issued, NoRow, Versions
<1>3. RevisionCountsUpdates
  BY FS_EmptySet DEF Init, RevisionCountsUpdates, EventsAbout, NoRow
<1> QED
  BY <1>1, <1>2, <1>3 DEF SerialInv

LEMMA SerialInvStep ==
  ASSUME \A x, y \in Writers : x = y, TablesInv, SerialInv, [Next]_vars PROVE SerialInv'
<1>1. ReadIsCurrent'
  <2> SUFFICES ASSUME NEW x \in Writers,
                      writer'[x].pc = "commit",
                      writer'[x].op \in {"secret.rotate", "secret.revoke"}
               PROVE  writer'[x].row = objects'[writer'[x].name]
    BY DEF ReadIsCurrent
  <2>1. CASE Find(x)
    BY <2>1 DEF Find, TablesInv, TypeOK, WriterState, tables
  <2>2. ASSUME ~Find(x), WriterNext(x)
        PROVE  \/ writer'[x] = IdleWriter
               \/ \E op \in Operations, n \in Names : Begin(x, op, n)
    BY <2>2
    DEF WriterNext, FindFails, CommitCreate, CommitRotate, CommitRevoke, CommitConflicts,
        Fault, Finished, TablesInv, TypeOK
  <2>3. CASE \E op \in Operations, n \in Names : Begin(x, op, n)
    BY <2>3 DEF Begin, TablesInv, TypeOK, AllOperations
  <2>4. CASE writer'[x] = IdleWriter
    BY <2>4 DEF IdleWriter
  <2>5. CASE UNCHANGED <<writer, objects>>
    BY <2>5 DEF SerialInv, ReadIsCurrent
  <2>6. ASSUME NEW r \in Runners, RunnerNext(r) PROVE UNCHANGED <<writer, objects>>
    BY <2>6 DEF RunnerNext, BeginResolve, ResolveOne, ResolveFails, Release, tables
  <2>7. Unlock \/ Lock \/ UNCHANGED vars => UNCHANGED <<writer, objects>>
    BY DEF Unlock, Lock, vars, tables
  <2>8. Restart => writer'[x] = IdleWriter
    BY DEF Restart
  <2>9. \A w \in Writers : WriterNext(w) => WriterNext(x)
    <3>1. \A w \in Writers : w = x
      OBVIOUS
    <3> QED
      BY <3>1
  <2> QED
    BY <2>1, <2>2, <2>3, <2>4, <2>5, <2>6, <2>7, <2>8, <2>9 DEF Next
<1>2. CASE UNCHANGED tables
  BY <1>1, <1>2
  DEF SerialInv, tables, MetadataIsLatest, RevisionCountsUpdates, Issued, EventsAbout
<1>3. ASSUME NEW w \in Writers, Commit(w) PROVE MetadataIsLatest' /\ RevisionCountsUpdates'
  <2>1. PICK n \in Names, row \in Row, vs \in [Versions -> VersionState],
             k \in 0..MaxVersion, j \in 1..MaxVersion :
          /\ n = writer[w].name
          /\ objects' = [objects EXCEPT ![n] = row]
          /\ versions' = [versions EXCEPT ![n] = vs]
          /\ SoundWrite(n, row, vs, k, j)
          /\ Kind(w, row, k, j)
    BY <1>3, CommitWrites
  <2>2. /\ objects'[n] = row
        /\ versions'[n] = vs
        /\ \A m \in Names \ {n} : objects'[m] = objects[m] /\ versions'[m] = versions[m]
    BY <2>1 DEF TablesInv, TypeOK
  <2>3. objects[n] \in Row /\ objects[n].revision \in Nat /\ objects[n].version \in Nat
    BY DEF TablesInv, TypeOK, Row
  <2>4. row.revision = objects[n].revision + 1
    <3>1. CASE CommitCreate(w)
      BY <2>1, <2>2, <2>3, <3>1 DEF CommitCreate, Exists, TablesInv, TypeOK
    <3>2. CASE CommitRotate(w)
      BY <2>1, <2>2, <3>2
      DEF CommitRotate, Committing, RotatedRow, SerialInv, ReadIsCurrent, TablesInv, TypeOK
    <3>3. CASE CommitRevoke(w)
      BY <2>1, <2>2, <3>3
      DEF CommitRevoke, Committing, RevokedRow, SerialInv, ReadIsCurrent, TablesInv, TypeOK
    <3> QED
      BY <1>3, <3>1, <3>2, <3>3 DEF Commit
  <2>5. row.version = j
    <3>1. CASE CommitRevoke(w)
      <4>1. row.version = objects[n].version /\ j = k /\ k > 0
        BY <2>1, <2>2, <3>1
        DEF CommitCreate, CommitRotate, CommitRevoke, Committing, RevokedRow, SerialInv,
            ReadIsCurrent, TablesInv, TypeOK, Kind
      <4>2. \A v \in Versions : v <= k <=> v <= objects[n].version
        BY <2>1 DEF SoundWrite, SerialInv, MetadataIsLatest
      <4>3. k \in Versions /\ row.version \in Versions
        BY <2>1, <4>1, MaxVersionAssumption DEF SoundWrite, Versions
      <4>4. k <= objects[n].version /\ objects[n].version <= k
        BY <4>1, <4>2, <4>3 DEF Versions
      <4> QED
        BY <2>3, <4>1, <4>3, <4>4 DEF Versions
    <3> QED
      BY <2>1, <3>1 DEF Kind
  <2>6. MetadataIsLatest'
    BY <2>1, <2>2, <2>5 DEF SoundWrite, SerialInv, MetadataIsLatest, Issued
  <2>7. RevisionCountsUpdates'
    <3>1. PICK op \in AllOperations : audit' = Append(audit, [op |-> op, secret |-> n])
      BY <1>3, <2>1, CommitLogs
    <3> DEFINE L == Len(audit)
    <3>2. /\ L \in Nat
          /\ Len(audit') = L + 1
          /\ \A i \in 1..L : audit'[i] = audit[i]
          /\ audit'[L + 1] = [op |-> op, secret |-> n]
      BY <3>1 DEF TablesInv, TypeOK
    <3>3. ASSUME NEW m \in Names
          PROVE EventsAbout(m)' = IF m = n THEN EventsAbout(m) \cup {L + 1} ELSE EventsAbout(m)
      BY <3>2 DEF EventsAbout
    <3>4. IsFiniteSet(EventsAbout(n)) /\ L + 1 \notin EventsAbout(n)
      <4>1. EventsAbout(n) \subseteq 1..L
        BY DEF EventsAbout
      <4>2. IsFiniteSet(1..L)
        BY <3>2, FS_Interval
      <4>3. IsFiniteSet(EventsAbout(n))
        BY <4>1, <4>2, FS_Subset
      <4>4. L + 1 \notin EventsAbout(n)
        BY <3>2, <4>1
      <4> QED
        BY <4>3, <4>4
    <3>5. Cardinality(EventsAbout(n) \cup {L + 1}) = Cardinality(EventsAbout(n)) + 1
      BY <3>4, FS_AddElement
    <3> QED
      BY <2>2, <2>4, <3>3, <3>5 DEF SerialInv, RevisionCountsUpdates
  <2> QED
    BY <2>6, <2>7
<1> QED
  BY <1>1, <1>2, <1>3, OnlyCommitsWrite DEF SerialInv

\* With at most one request at a time, the metadata of a secret names its
\* newest value, revoked or not; with two it may not (RotatePossible).
THEOREM SerialMetadataIsLatest ==
  ASSUME OneWriter PROVE Spec => []MetadataIsLatest
<1>1. TablesInv /\ SerialInv /\ [Next]_vars => SerialInv'
  BY SerialInvStep DEF OneWriter
<1>2. SerialInv => MetadataIsLatest
  BY DEF SerialInv
<1> QED
  BY <1>1, <1>2, SerialInvInit, TablesInvariant, PTL DEF Spec

\* With at most one request at a time, the revision of a row is the number of
\* audit events about it, so a stale revision is always recognised.
THEOREM SerialRevisionCounts ==
  ASSUME OneWriter PROVE Spec => []RevisionCountsUpdates
<1>1. TablesInv /\ SerialInv /\ [Next]_vars => SerialInv'
  BY SerialInvStep DEF OneWriter
<1>2. SerialInv => RevisionCountsUpdates
  BY DEF SerialInv
<1> QED
  BY <1>1, <1>2, SerialInvInit, TablesInvariant, PTL DEF Spec
=============================================================================
