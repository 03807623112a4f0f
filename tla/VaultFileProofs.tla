--------------------------- MODULE VaultFileProofs ---------------------------
(***************************************************************************)
(* No broker works with a half-made vault, a reported vault is kept, and   *)
(* an init that fails cleans up, for any number of processes and files.    *)
(*                                                                         *)
(* VaultFile is instantiated by Startup, and states no assumption of its   *)
(* own: that its bound is a number is a premise here.                      *)
(***************************************************************************)
EXTENDS VaultFile, TLAPS

\* A process that is past openDatabase has a file.
HasFile ==
    /\ path # 0 => content[path] # "none"
    /\ \A i \in Inits : init[i].pc \in {"schema", "keys", "mode"} =>
         init[i].file # 0 /\ content[init[i].file] # "none"
    /\ \A b \in Brokers : opener[b].pc = "query" =>
         opener[b].file # 0 /\ content[opener[b].file] # "none"

(***************************************************************************)
(* While nothing has spoiled it, a half-made file at the path is in the    *)
(* care of an init: the one that makes it, or one about to remove it.      *)
(***************************************************************************)
CaresFor(i) ==
    \/ init[i].pc = "cleanup"
    \/ init[i].pc \in {"schema", "keys"} /\ init[i].file = path

Cared ==
    ~spoiled /\ path # 0 /\ content[path] # "vault" => \E i \in Inits : CaresFor(i)

\* An init only begins where there is no file, so those at work beside a file
\* have been since before it.
OnlyRivals == path # 0 => AtWork \subseteq rivals

IInv ==
    /\ TypeOK
    /\ HasFile
    /\ StoreIsVault
    /\ Cared
    /\ OnlyRivals
    /\ reported => path # 0

LEMMA RecordsTyped == ASSUME MaxFiles \in Nat PROVE NoInit \in InitState /\ NoOpen \in OpenState
  BY DEF NoInit, NoOpen, InitState, OpenState

LEMMA IInvInit == ASSUME MaxFiles \in Nat, Init PROVE IInv
<1>1. content \in [Files -> Contents]
  BY DEF Init, Contents
<1>2. init \in [Inits -> InitState]
  BY RecordsTyped DEF Init
<1>3. opener \in [Brokers -> OpenState] /\ store \in [Brokers -> 0..MaxFiles]
  BY RecordsTyped DEF Init
<1>4. path \in 0..MaxFiles /\ rivals \in SUBSET Inits
  BY DEF Init
<1>5. TypeOK
  <2>1. reported \in BOOLEAN /\ spoiled \in BOOLEAN
    BY DEF Init
  <2> QED
    BY <1>1, <1>2, <1>3, <1>4, <2>1 DEF TypeOK
<1>6. HasFile /\ StoreIsVault
  BY DEF Init, HasFile, StoreIsVault, NoInit, NoOpen
<1>7. Cared /\ OnlyRivals /\ (reported => path # 0)
  BY DEF Init, Cared, OnlyRivals
<1> QED
  BY <1>5, <1>6, <1>7 DEF IInv

(***************************************************************************)
(* Opening the database keeps what the files hold, and leaves no init at   *)
(* work that is not a rival.                                               *)
(***************************************************************************)
LEMMA OpenedKeeps ==
  ASSUME MaxFiles \in Nat, IInv, NEW f \in Files, Opened(f)
  PROVE  /\ path' = f /\ f # 0 /\ f \in 0..MaxFiles
         /\ content' \in [Files -> Contents]
         /\ content'[f] # "none"
         /\ \A g \in Files : content[g] # "none" => content'[g] = content[g]
         /\ reported' \in BOOLEAN
         /\ rivals' \in SUBSET Inits
         /\ AtWork \subseteq rivals'
         /\ path # 0 => UNCHANGED <<path, content>>
<1>1. /\ path \in 0..MaxFiles /\ (path # 0 => content[path] # "none")
      /\ content \in [Files -> Contents]
      /\ reported \in BOOLEAN /\ rivals \in SUBSET Inits
      /\ path # 0 => AtWork \subseteq rivals
      /\ f # 0 /\ f \in 0..MaxFiles /\ AtWork \subseteq Inits
  BY DEF IInv, TypeOK, HasFile, OnlyRivals, Files, AtWork
<1>2. CASE path = f /\ UNCHANGED <<path, content, reported, rivals>>
  BY <1>1, <1>2
<1>3. CASE path = 0 /\ content[f] = "none" /\ path' = f /\ reported' = FALSE
           /\ content' = [content EXCEPT ![f] = "empty"] /\ rivals' = AtWork
  <2>1. content' \in [Files -> Contents]
    BY <1>1, <1>3 DEF Contents
  <2>2. content'[f] # "none" /\ \A g \in Files : content[g] # "none" => content'[g] = content[g]
    BY <1>1, <1>3
  <2> QED
    BY <1>1, <1>3, <2>1, <2>2
<1> QED
  BY <1>2, <1>3 DEF Opened

(***************************************************************************)
(* A step of an init.  First what it leaves of the files: none loses what  *)
(* it holds, but for the two steps that make a vault of it.                *)
(***************************************************************************)
LEMMA InitFiles ==
  ASSUME MaxFiles \in Nat, IInv, NEW i \in Inits, InitNext(i)
  PROVE  /\ path' \in 0..MaxFiles
         /\ path' # 0 => content'[path'] # "none"
         /\ content' \in [Files -> Contents]
         /\ \A f \in Files : content[f] # "none" => content'[f] # "none"
         /\ \A f \in Files : content[f] = "vault" => content'[f] = "vault"
         /\ UNCHANGED <<opener, store>>
<1>1. /\ path \in 0..MaxFiles /\ (path # 0 => content[path] # "none")
      /\ content \in [Files -> Contents]
      /\ path # 0 => path \in Files
  BY DEF IInv, TypeOK, HasFile, Files
<1>2. CASE OpenFile(i)
  BY <1>1, <1>2, OpenedKeeps DEF OpenFile
<1>3. CASE CreateSchema(i) \/ CommitKeys(i)
  <2>1. init[i].file \in Files /\ content[init[i].file] # "none"
    BY <1>3 DEF CreateSchema, CommitKeys, IInv, TypeOK, HasFile, InitState, Files
  <2>2. CASE content' = [content EXCEPT ![init[i].file] = "schema"]
             /\ content[init[i].file] = "empty"
    BY <1>1, <1>3, <2>1, <2>2 DEF CreateSchema, CommitKeys, Contents
  <2>3. CASE content' = [content EXCEPT ![init[i].file] = "vault"]
    BY <1>1, <1>3, <2>1, <2>3 DEF CreateSchema, CommitKeys, Contents
  <2>4. CASE UNCHANGED content
    BY <1>1, <1>3, <2>4 DEF CreateSchema, CommitKeys
  <2> QED
    BY <1>3, <2>2, <2>3, <2>4 DEF CreateSchema, CommitKeys
<1>4. CASE Cleanup(i)
  BY <1>1, <1>4 DEF Cleanup
<1>5. CASE UNCHANGED <<path, content, opener, store>>
  BY <1>1, <1>5
<1> QED
  BY <1>2, <1>3, <1>4, <1>5 DEF InitNext, BeginInit, SecureFile, InitFaults, Crash

LEMMA InitTypes ==
  ASSUME MaxFiles \in Nat, IInv, NEW i \in Inits, InitNext(i)
  PROVE  TypeOK' /\ HasFile'
<1>1. /\ init \in [Inits -> InitState] /\ init[i] \in InitState
      /\ opener \in [Brokers -> OpenState] /\ store \in [Brokers -> 0..MaxFiles]
      /\ reported \in BOOLEAN /\ rivals \in SUBSET Inits /\ spoiled \in BOOLEAN
  BY DEF IInv, TypeOK
<1>2. \E f \in 0..MaxFiles, pc \in {"off", "open", "schema", "keys", "mode", "cleanup"} :
        /\ init' = [init EXCEPT ![i] = [pc |-> pc, file |-> f]]
        /\ pc \in {"schema", "keys", "mode"} => f # 0 /\ content'[f] # "none"
  <2>1. \A pc : InitGoes(i, pc) => init' = [init EXCEPT ![i] = [pc |-> pc, file |-> init[i].file]]
    BY <1>1 DEF InitGoes, InitState
  <2>2. init[i].file \in 0..MaxFiles
    BY <1>1 DEF InitState
  <2>3. CASE BeginInit(i)
    BY <2>1, <2>2, <2>3 DEF BeginInit
  <2>4. CASE OpenFile(i)
    BY <2>4, OpenedKeeps DEF OpenFile
  <2>5. CASE CreateSchema(i) \/ CommitKeys(i)
    <3>1. init[i].file # 0 /\ content[init[i].file] # "none" /\ init[i].file \in Files
      BY <2>2, <2>5 DEF CreateSchema, CommitKeys, IInv, HasFile, Files
    <3>2. content'[init[i].file] # "none"
      BY <3>1, InitFiles
    <3>3. PICK pc \in {"keys", "mode", "cleanup"} : InitGoes(i, pc)
      BY <2>5 DEF CreateSchema, CommitKeys
    <3>4. init' = [init EXCEPT ![i] = [pc |-> pc, file |-> init[i].file]]
      BY <2>1, <3>3
    <3> QED
      BY <2>2, <3>1, <3>2, <3>4
  <2>6. CASE InitEnds(i)
    <3>1. init' = [init EXCEPT ![i] = [pc |-> "off", file |-> 0]] /\ 0 \in 0..MaxFiles
      BY <2>6 DEF InitEnds, NoInit
    <3> QED
      BY <3>1
  <2>7. CASE InitGoes(i, "cleanup")
    BY <2>1, <2>2, <2>7
  <2> QED
    BY <2>3, <2>4, <2>5, <2>6, <2>7 DEF InitNext, SecureFile, InitFaults, Cleanup, Crash
<1>3. PICK f \in 0..MaxFiles, pc \in {"off", "open", "schema", "keys", "mode", "cleanup"} :
        /\ init' = [init EXCEPT ![i] = [pc |-> pc, file |-> f]]
        /\ pc \in {"schema", "keys", "mode"} => f # 0 /\ content'[f] # "none"
  BY <1>2
<1>4. [pc |-> pc, file |-> f] \in InitState
  BY DEF InitState
<1>5. init' \in [Inits -> InitState]
  BY <1>1, <1>3, <1>4
<1>6. reported' \in BOOLEAN /\ rivals' \in SUBSET Inits /\ spoiled' \in BOOLEAN
  <2>1. CASE OpenFile(i)
    BY <1>1, <2>1, OpenedKeeps DEF OpenFile
  <2> QED
    BY <1>1, <2>1
    DEF InitNext, BeginInit, CreateSchema, CommitKeys, SecureFile, InitFaults, Cleanup, Crash,
        InitEnds
<1>7. TypeOK'
  BY <1>1, <1>5, <1>6, InitFiles DEF TypeOK
<1>8. ASSUME NEW j \in Inits, init'[j].pc \in {"schema", "keys", "mode"}
      PROVE  init'[j].file # 0 /\ content'[init'[j].file] # "none"
  <2>1. CASE j = i
    BY <1>1, <1>3, <1>8, <2>1
  <2>2. CASE j # i
    <3>1. init'[j] = init[j]
      BY <1>1, <1>3, <2>2
    <3>2. init[j].file \in Files /\ content[init[j].file] # "none"
      BY <1>1, <1>8, <3>1 DEF IInv, HasFile, InitState, Files
    <3> QED
      BY <3>1, <3>2, InitFiles DEF Files
  <2> QED
    BY <2>1, <2>2
<1>9. ASSUME NEW b \in Brokers, opener'[b].pc = "query"
      PROVE  opener'[b].file # 0 /\ content'[opener'[b].file] # "none"
  <2>1. opener' = opener
    BY InitFiles
  <2>2. opener[b].file \in Files /\ content[opener[b].file] # "none"
    BY <1>1, <1>9, <2>1 DEF IInv, HasFile, OpenState, Files
  <2> QED
    BY <2>1, <2>2, InitFiles DEF Files
<1> QED
  BY <1>7, <1>8, <1>9, InitFiles DEF HasFile

LEMMA InitCares ==
  ASSUME MaxFiles \in Nat, IInv, NEW i \in Inits, InitNext(i)
  PROVE  Cared'
<1>1. init \in [Inits -> InitState] /\ content \in [Files -> Contents] /\ Cared
  BY DEF IInv, TypeOK
<1>2. init[i].pc \in {"schema", "keys"} => init[i].file \in Files
  BY DEF IInv, TypeOK, HasFile, InitState, Files
<1>3. CASE Cleanup(i) \/ Crash(i)
  BY <1>3 DEF Cleanup, Crash, Cared
<1>4. CASE OpenFile(i)
  <2>1. CaresFor(i)'
    BY <1>1, <1>4, OpenedKeeps DEF OpenFile, CaresFor
  <2> QED
    BY <2>1 DEF Cared
<1>5. CASE InitGoes(i, "cleanup")
  <2>1. CaresFor(i)'
    BY <1>1, <1>5 DEF InitGoes, CaresFor, InitState
  <2> QED
    BY <2>1 DEF Cared
<1> SUFFICES ASSUME ~spoiled', path' # 0, content'[path'] # "vault",
                    ~Cleanup(i), ~Crash(i), ~OpenFile(i), ~InitGoes(i, "cleanup")
             PROVE  \E j \in Inits : CaresFor(j)'
  BY <1>3, <1>4, <1>5 DEF Cared
<1>6. UNCHANGED <<path, spoiled>>
  BY DEF InitNext, BeginInit, CreateSchema, CommitKeys, SecureFile, InitFaults
<1>7. content[path] # "vault"
  <2>1. path \in Files
    BY <1>6 DEF IInv, TypeOK, Files
  <2> QED
    BY <1>6, <2>1, InitFiles
<1>8. PICK j \in Inits : CaresFor(j)
  BY <1>1, <1>6, <1>7 DEF Cared
<1>9. CASE j # i
  <2>1. init'[j] = init[j]
    BY <1>1, <1>9
    DEF InitNext, BeginInit, CreateSchema, CommitKeys, SecureFile, InitFaults, InitGoes, InitEnds
  <2> QED
    BY <1>6, <1>8, <2>1 DEF CaresFor
<1>10. CASE j = i
  <2>1. init[i].pc \in {"schema", "keys"} /\ init[i].file = path
    BY <1>8, <1>10
    DEF CaresFor, InitNext, BeginInit, CreateSchema, CommitKeys, SecureFile, InitFaults
  <2>2. CreateSchema(i)
    BY <1>1, <1>2, <1>6, <2>1
    DEF InitNext, BeginInit, CommitKeys, SecureFile, InitFaults
  <2>3. CaresFor(i)'
    BY <1>1, <1>6, <2>1, <2>2 DEF CreateSchema, InitGoes, CaresFor, InitState
  <2> QED
    BY <2>3
<1> QED
  BY <1>9, <1>10

LEMMA InitStep ==
  ASSUME MaxFiles \in Nat, IInv, NEW i \in Inits, InitNext(i)
  PROVE  IInv'
<1>1. init \in [Inits -> InitState] /\ rivals \in SUBSET Inits
  BY DEF IInv, TypeOK
<1>2. StoreIsVault'
  <2>1. UNCHANGED store /\ \A b \in Brokers : store[b] # 0 => store[b] \in Files
    BY InitFiles DEF IInv, TypeOK, Files
  <2> QED
    BY <2>1, InitFiles DEF IInv, StoreIsVault
<1>3. OnlyRivals'
  <2>1. CASE OpenFile(i)
    <3>1. AtWork' \subseteq AtWork
      BY <1>1, <2>1 DEF OpenFile, AtWork
    <3> QED
      BY <2>1, <3>1, OpenedKeeps DEF OpenFile, OnlyRivals
  <2>2. CASE path' = 0
    BY <2>2 DEF OnlyRivals
  <2>3. CASE init[i].pc # "off" /\ path' = path /\ \E pc : InitGoes(i, pc) /\ UNCHANGED rivals
    <3>1. AtWork' \subseteq AtWork
      BY <1>1, <2>3 DEF InitGoes, AtWork, InitState
    <3> QED
      BY <2>3, <3>1 DEF OnlyRivals, IInv
  <2>4. CASE path' = path /\ InitEnds(i)
    <3>1. AtWork' \subseteq AtWork \ {i}
      BY <1>1, <2>4 DEF InitEnds, NoInit, AtWork
    <3> QED
      BY <2>4, <3>1 DEF OnlyRivals, IInv, InitEnds
  <2> QED
    BY <2>1, <2>2, <2>3, <2>4
    DEF InitNext, BeginInit, CreateSchema, CommitKeys, SecureFile, InitFaults, Cleanup, Crash
<1>4. (reported => path # 0)'
  <2>1. CASE OpenFile(i)
    BY <2>1, OpenedKeeps DEF OpenFile
  <2> QED
    BY <2>1
    DEF IInv, InitNext, BeginInit, CreateSchema, CommitKeys, SecureFile, InitFaults, Cleanup,
        Crash
<1> QED
  BY <1>2, <1>3, <1>4, InitTypes, InitCares DEF IInv

(***************************************************************************)
(* A step of a broker.                                                     *)
(***************************************************************************)
LEMMA OpenStoreStep ==
  ASSUME MaxFiles \in Nat, IInv, NEW b \in Brokers, OpenStore(b)
  PROVE  IInv'
<1>1. PICK f \in Files :
        Opened(f) /\ opener' = [opener EXCEPT ![b] = [pc |-> "query", file |-> f]]
  BY DEF OpenStore
<1>2. UNCHANGED <<init, store>> /\ spoiled' = (spoiled \/ path = 0)
  BY DEF OpenStore
<1>3. /\ init \in [Inits -> InitState] /\ opener \in [Brokers -> OpenState]
      /\ store \in [Brokers -> 0..MaxFiles] /\ spoiled \in BOOLEAN
  BY DEF IInv, TypeOK
<1>4. [pc |-> "query", file |-> f] \in OpenState
  BY <1>1, OpenedKeeps DEF OpenState
<1>5. opener' \in [Brokers -> OpenState]
  BY <1>1, <1>3, <1>4
<1>6. TypeOK'
  BY <1>1, <1>2, <1>3, <1>5, OpenedKeeps DEF TypeOK
<1>7. HasFile'
  <2>1. ASSUME NEW i \in Inits, init[i].pc \in {"schema", "keys", "mode"}
        PROVE  init[i].file # 0 /\ content'[init[i].file] # "none"
    <3>1. init[i].file \in Files /\ content[init[i].file] # "none"
      BY <1>3, <2>1 DEF IInv, HasFile, InitState, Files
    <3> QED
      BY <1>1, <3>1, OpenedKeeps DEF Files
  <2>2. ASSUME NEW c \in Brokers, opener'[c].pc = "query"
        PROVE  opener'[c].file # 0 /\ content'[opener'[c].file] # "none"
    <3>1. CASE c = b
      BY <1>1, <1>3, <3>1, OpenedKeeps
    <3>2. CASE c # b
      <4>1. opener'[c] = opener[c]
        BY <1>1, <1>3, <3>2
      <4>2. opener[c].file \in Files /\ content[opener[c].file] # "none"
        BY <1>3, <2>2, <4>1 DEF IInv, HasFile, OpenState, Files
      <4> QED
        BY <1>1, <4>1, <4>2, OpenedKeeps DEF Files
    <3> QED
      BY <3>1, <3>2
  <2> QED
    BY <1>1, <1>2, <2>1, <2>2, OpenedKeeps DEF HasFile
<1>8. StoreIsVault'
  BY <1>1, <1>2, <1>3, OpenedKeeps DEF IInv, StoreIsVault, Files
<1>9. Cared'
  BY <1>1, <1>2, OpenedKeeps DEF IInv, Cared, CaresFor
<1>10. OnlyRivals' /\ (reported => path # 0)'
  BY <1>1, <1>2, OpenedKeeps DEF OnlyRivals, AtWork
<1> QED
  BY <1>6, <1>7, <1>8, <1>9, <1>10 DEF IInv

LEMMA BrokerStep ==
  ASSUME MaxFiles \in Nat, IInv, NEW b \in Brokers,
         BeginOpen(b) \/ OpenNext(b) \/ Settle(b) \/ EndBroker(b), ~OpenStore(b)
  PROVE  IInv'
<1>1. UNCHANGED <<path, content, init, reported, rivals, spoiled>>
  BY DEF BeginOpen, OpenNext, QueryStore, OpenFaults, Settle, EndBroker
<1>2. Cared' /\ OnlyRivals' /\ (reported => path # 0)'
  BY <1>1 DEF IInv, Cared, CaresFor, OnlyRivals, AtWork
<1>3. opener \in [Brokers -> OpenState] /\ store \in [Brokers -> 0..MaxFiles]
  BY DEF IInv, TypeOK
<1>4. \E o \in OpenState :
        o.pc # "query" /\ opener' = [opener EXCEPT ![b] = o]
  <2>1. NoOpen \in OpenState /\ NoOpen.pc # "query"
    BY RecordsTyped DEF NoOpen
  <2>2. \A pc \in {"absent", "open", "refused"} : [pc |-> pc, file |-> 0] \in OpenState
    BY DEF OpenState
  <2>3. CASE BeginOpen(b)
    <3>1. /\ [opener[b] EXCEPT !.pc = "absent"] \in OpenState
          /\ [opener[b] EXCEPT !.pc = "open"] \in OpenState
      BY <1>3 DEF OpenState
    <3>2. \E pc \in {"absent", "open"} : opener' = [opener EXCEPT ![b].pc = pc]
      BY <2>3 DEF BeginOpen
    <3> QED
      BY <1>3, <3>1, <3>2 DEF OpenState
  <2> QED
    BY <2>1, <2>2, <2>3 DEF OpenNext, QueryStore, OpenFaults, Settle, EndBroker
<1>5. opener' \in [Brokers -> OpenState]
  BY <1>3, <1>4
<1>6. \/ UNCHANGED store
      \/ store' = [store EXCEPT ![b] = 0]
      \/ /\ store' = [store EXCEPT ![b] = opener[b].file]
         /\ content[opener[b].file] = "vault"
         /\ opener[b].file \in 0..MaxFiles
  <2>1. opener[b].file \in 0..MaxFiles
    BY <1>3 DEF OpenState
  <2> QED
    BY <2>1 DEF BeginOpen, OpenNext, QueryStore, HoldsVault, OpenFaults, Settle, EndBroker
<1>7. store' \in [Brokers -> 0..MaxFiles] /\ StoreIsVault'
  BY <1>1, <1>3, <1>6 DEF IInv, StoreIsVault
<1>8. TypeOK'
  BY <1>1, <1>5, <1>7 DEF IInv, TypeOK
<1>9. HasFile'
  BY <1>1, <1>3, <1>4 DEF IInv, HasFile
<1> QED
  BY <1>2, <1>7, <1>8, <1>9 DEF IInv

LEMMA IInvStep == ASSUME MaxFiles \in Nat, IInv, [Next]_vars PROVE IInv'
<1>1. CASE UNCHANGED vars
  BY <1>1 DEF vars, IInv, TypeOK, HasFile, StoreIsVault, Cared, CaresFor, OnlyRivals, AtWork
<1> QED
  BY <1>1, InitStep, OpenStoreStep, BrokerStep DEF Next

LEMMA IInvHolds == ASSUME MaxFiles \in Nat PROVE Spec => []IInv
<1>1. Init => IInv
  BY IInvInit
<1>2. IInv /\ [Next]_vars => IInv'
  BY IInvStep
<1> QED
  BY <1>1, <1>2, PTL DEF Spec

\* The files and the processes are well typed.
THEOREM FileTypeCorrect == ASSUME MaxFiles \in Nat PROVE Spec => []TypeOK
<1>1. IInv => TypeOK
  BY DEF IInv
<1> QED
  BY <1>1, IInvHolds, PTL

\* No broker ever works with a half-made vault, between whichever steps of an
\* initialisation, and after whichever crash, it opens the file
\* (store.go:151-175).
THEOREM OpenedIsVault == ASSUME MaxFiles \in Nat PROVE Spec => []StoreIsVault
<1>1. IInv => StoreIsVault
  BY DEF IInv
<1> QED
  BY <1>1, IInvHolds, PTL

\* An init that fails, rather than crashes, leaves no half-made file behind,
\* whatever ran beside it (store.go:73-80).
THEOREM FailedInitCleansUp == ASSUME MaxFiles \in Nat PROVE Spec => []HalfMadeByCrash
<1>1. IInv => HalfMadeByCrash
  BY DEF IInv, Cared, CaresFor, HalfMadeByCrash, AtWork
<1> QED
  BY <1>1, IInvHolds, PTL

\* A reported vault is only ever removed by the clean-up of an init that had
\* begun before its file existed (store.go:57-80).
THEOREM ReportedVaultIsKept == ASSUME MaxFiles \in Nat PROVE Spec => ReportedIsKept
<1>1. IInv /\ [Next]_vars => [RemovedByRival]_vars
  <2> SUFFICES ASSUME IInv, Next, reported, path' # path PROVE RemovedByRival
    BY DEF RemovedByRival
  <2>1. path # 0
    BY DEF IInv
  <2>2. \A f \in Files : Opened(f) => UNCHANGED path
    BY <2>1 DEF Opened
  <2>3. ASSUME NEW i \in Inits, InitNext(i) PROVE Cleanup(i)
    BY <2>2, <2>3 DEF InitNext, BeginInit, OpenFile, CreateSchema, CommitKeys, SecureFile,
                      InitFaults, Crash
  <2>4. ASSUME NEW i \in Inits, Cleanup(i) PROVE i \in rivals /\ init[i].pc = "cleanup"
    BY <2>1, <2>4 DEF Cleanup, IInv, OnlyRivals, AtWork
  <2>5. ASSUME NEW b \in Brokers, BeginOpen(b) \/ OpenNext(b) \/ Settle(b) \/ EndBroker(b)
        PROVE  UNCHANGED path
    BY <2>2, <2>5 DEF BeginOpen, OpenNext, OpenStore, QueryStore, OpenFaults, Settle, EndBroker
  <2> QED
    BY <2>3, <2>4, <2>5 DEF Next, RemovedByRival
<1> QED
  BY <1>1, IInvHolds, PTL DEF Spec, ReportedIsKept
=============================================================================
