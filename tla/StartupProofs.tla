---------------------------- MODULE StartupProofs ----------------------------
(***************************************************************************)
(* The life of a broker implements both its parts, VaultFile and Endpoint, *)
(* so what is proved of each holds of it, for any number of processes.     *)
(* What is proved of VaultFile comes from VaultFileProofs; what holds of   *)
(* Endpoint is proved here.                                                *)
(***************************************************************************)
EXTENDS Startup, TLAPS

FileFacts == INSTANCE VaultFileProofs

-----------------------------------------------------------------------------
(***************************************************************************)
(* Endpoint: who may take the path of a broker, and that a broker which    *)
(* shares its start with no other one has it.                              *)
(***************************************************************************)

\* Every broker that is not of the crowd of b is at one of steps.
OutsidersAt(b, steps) == \A c \in Brokers : c \notin crowd[b] \cup {b} => pc[c] \in steps

(***************************************************************************)
(* The inductive invariant.  No outsider is alive while a broker starts;   *)
(* so a broker without a crowd runs alone, and what it read of the path    *)
(* still holds.  And an outsider that comes once the broker listens gets   *)
(* no further than its answer.                                             *)
(***************************************************************************)
StartsAlone == \A b \in Brokers : pc[b] \in Socket!Starting => OutsidersAt(b, {"off"})

KnowsPath ==
    \A b \in Brokers : crowd[b] = {} =>
        /\ pc[b] \in {"dial", "remove"} => socket # NoSocket
        /\ pc[b] = "bind" => socket = NoSocket
        /\ pc[b] \in {"bound", "mode", "serve"} => socket = b
        /\ pc[b] \notin {"giveup", "failed"}

KeepsOthersOut ==
    \A b \in Brokers : pc[b] \in {"mode", "serve"} /\ socket = b =>
        OutsidersAt(b, {"off", "stat", "dial", "failed", "broken"})

SocketInv == Socket!TypeOK /\ StartsAlone /\ KnowsPath /\ KeepsOthersOut

LEMMA SocketInvInit == Socket!Init => SocketInv
  BY PathAssumption
  DEF Socket!Init, SocketInv, Socket!TypeOK, StartsAlone, KnowsPath, KeepsOthersOut,
      OutsidersAt, Socket!Starting, Socket!Listening, Socket!Ending

LEMMA SocketTypeStep ==
  ASSUME Socket!TypeOK, [Socket!Next]_(Socket!vars)
  PROVE  Socket!TypeOK'
<1> USE PathAssumption
    DEF Socket!TypeOK, Socket!Starting, Socket!Listening, Socket!Ending, Socket!Goes
<1>1. ASSUME NEW b \in Brokers, Socket!Start(b) PROVE Socket!TypeOK'
  <2>1. crowd' \in [Brokers -> SUBSET Brokers]
    BY <1>1 DEF Socket!Start, Socket!OthersAlive
  <2> QED
    BY <1>1, <2>1 DEF Socket!Start
<1>2. ASSUME NEW b \in Brokers, Socket!BrokerNext(b) PROVE Socket!TypeOK'
  <2>1. CASE \/ Socket!Stat(b) \/ Socket!Dial(b) \/ Socket!ListenOn(b)
             \/ Socket!SecureSocket(b) \/ Socket!Signal(b) \/ Socket!Exit(b)
    BY <2>1 DEF Socket!Stat, Socket!Dial, Socket!Unanswered, Socket!ListenOn,
                Socket!SecureSocket, Socket!Signal, Socket!Exit
  <2>2. CASE \/ Socket!Remove(b) \/ Socket!Bind(b) \/ Socket!Fault(b) \/ Socket!Unlink(b)
             \/ Socket!RemoveAgain(b) \/ Socket!Kill(b)
    BY <2>2 DEF Socket!Remove, Socket!Bind, Socket!Fault, Socket!Unlink, Socket!AfterClose,
                Socket!RemoveAgain, Socket!Kill
  <2> QED
    BY <1>2, <2>1, <2>2 DEF Socket!BrokerNext
<1> QED
  BY <1>1, <1>2 DEF Socket!Next, Socket!vars

LEMMA SocketInvStep == ASSUME SocketInv, [Socket!Next]_(Socket!vars) PROVE SocketInv'
<1> USE DEF SocketInv
<1>1. Socket!TypeOK'
  BY SocketTypeStep
<1> USE PathAssumption
    DEF Socket!TypeOK, Socket!Starting, Socket!Listening, Socket!Goes, StartsAlone, KnowsPath,
        KeepsOthersOut, OutsidersAt
<1>2. ASSUME NEW b \in Brokers, Socket!Start(b) PROVE SocketInv'
  BY <1>1, <1>2 DEF Socket!Start, Socket!OthersAlive
<1>3. ASSUME NEW b \in Brokers, Socket!BrokerNext(b) PROVE SocketInv'
  <2>1. CASE Socket!Stat(b)
    BY <1>1, <2>1 DEF Socket!Stat
  <2>2. CASE Socket!Dial(b)
    BY <1>1, <2>2 DEF Socket!Dial, Socket!Answers, Socket!Unanswered
  <2>3. CASE Socket!Remove(b)
    BY <1>1, <2>3 DEF Socket!Remove
  <2>4. CASE Socket!Bind(b)
    BY <1>1, <2>4 DEF Socket!Bind
  <2>5. CASE Socket!ListenOn(b)
    BY <1>1, <2>5 DEF Socket!ListenOn
  <2>6. CASE Socket!SecureSocket(b)
    BY <1>1, <2>6 DEF Socket!SecureSocket
  <2>7. CASE Socket!Signal(b)
    BY <1>1, <2>7 DEF Socket!Signal
  <2>8. CASE Socket!Unlink(b)
    BY <1>1, <2>8 DEF Socket!Unlink, Socket!AfterClose
  <2>9. CASE Socket!RemoveAgain(b)
    BY <1>1, <2>9 DEF Socket!RemoveAgain
  <2>10. CASE Socket!Exit(b)
    BY <1>1, <2>10 DEF Socket!Exit
  <2>11. CASE Socket!Kill(b)
    BY <1>1, <2>11 DEF Socket!Kill
  <2>12. CASE Socket!Fault(b)
    BY <1>1, <2>12 DEF Socket!Fault
  <2> QED
    BY <1>3, <2>1, <2>2, <2>3, <2>4, <2>5, <2>6, <2>7, <2>8, <2>9, <2>10, <2>11, <2>12
    DEF Socket!BrokerNext
<1>4. CASE UNCHANGED Socket!vars
  BY <1>1, <1>4 DEF Socket!vars
<1> QED
  BY <1>2, <1>3, <1>4 DEF Socket!Next

LEMMA SocketInvImplies == SocketInv => Socket!ServesAtPath /\ Socket!FailsBesideOthers
  BY DEF SocketInv, KnowsPath, Socket!ServesAtPath, Socket!FailsBesideOthers

LEMMA SocketInvHolds == Socket!Spec => []SocketInv
<1>1. Socket!Init => SocketInv
  BY SocketInvInit
<1>2. SocketInv /\ [Socket!Next]_(Socket!vars) => SocketInv'
  BY SocketInvStep
<1> QED
  BY <1>1, <1>2, PTL DEF Socket!Spec

\* The brokers and the path are well typed, and a socket at the path that is
\* not stale belongs to a broker that still holds it: no exit but a kill leaves
\* one behind (transport_unix.go:43-47).
THEOREM SocketTypeCorrect == Socket!Spec => []Socket!TypeOK
<1>1. SocketInv => Socket!TypeOK
  BY DEF SocketInv
<1> QED
  BY <1>1, SocketInvHolds, PTL

\* A broker that shared its start with no other one and left no dial unanswered
\* has the path for as long as it serves, whatever brokers come and go later
\* (transport_unix.go:13-41).
THEOREM ServerIsReachable == Socket!Spec => []Socket!ServesAtPath
  BY SocketInvHolds, SocketInvImplies, PTL

\* A start fails only beside another broker, or for a fault of the system: what
\* a killed broker left at the path never stops the next one
\* (transport_unix.go:17-26).
THEOREM StaleSocketIsCleared == Socket!Spec => []Socket!FailsBesideOthers
  BY SocketInvHolds, SocketInvImplies, PTL

\* Outsiders do not touch the path of a broker that serves.
LEMMA TakenStep ==
  ASSUME SocketInv, [Socket!Next]_(Socket!vars)
  PROVE  Socket!TakenByCrowd
<1> SUFFICES ASSUME NEW b \in Brokers, socket = b, pc[b] \in {"mode", "serve"}, socket' # b,
                    pc'[b] # "off"
             PROVE  \E c \in crowd[b] : pc'[c] # pc[c]
  BY DEF Socket!TakenByCrowd
<1> USE PathAssumption DEF Socket!TypeOK, Socket!Goes
<1>1. \A c \in Brokers : Socket!Start(c) => socket' = socket
  BY DEF Socket!Start
<1>2. PICK c \in Brokers : Socket!BrokerNext(c)
  BY <1>1 DEF Socket!Next, Socket!vars
<1>3. pc \in [Brokers -> {"off"} \cup Socket!Starting \cup Socket!Listening \cup Socket!Ending]
  BY DEF SocketInv
<1>4. /\ c # b
      /\ pc[c] \in {"remove", "unlink", "giveup", "undo", "removals", "lastremoval"}
      /\ pc'[c] # pc[c]
  <2>1. CASE \/ Socket!Stat(c) \/ Socket!Dial(c) \/ Socket!ListenOn(c)
             \/ Socket!SecureSocket(c) \/ Socket!Signal(c) \/ Socket!Exit(c)
    BY <2>1 DEF Socket!Stat, Socket!Dial, Socket!ListenOn, Socket!SecureSocket, Socket!Signal,
                Socket!Exit
  <2>2. CASE Socket!Bind(c) \/ Socket!Fault(c) \/ Socket!Kill(c)
    BY <1>3, <2>2 DEF Socket!Bind, Socket!Fault, Socket!Kill
  <2>3. CASE Socket!Remove(c) \/ Socket!Unlink(c) \/ Socket!RemoveAgain(c)
    BY <1>3, <2>3 DEF Socket!Remove, Socket!Unlink, Socket!AfterClose, Socket!RemoveAgain
  <2> QED
    BY <1>2, <2>1, <2>2, <2>3 DEF Socket!BrokerNext
<1>5. c \in crowd[b]
  BY <1>4 DEF SocketInv, KeepsOthersOut, OutsidersAt
<1> QED
  BY <1>4, <1>5

\* The path of a broker that serves is taken by its own death, or by a step of a
\* broker that was alive while it started or whose dial it left unanswered; by
\* nobody else, whatever comes, fails and ends later (transport_unix.go:13-47,
\* ipc.go:22-41).
THEOREM PathIsTakenByCrowd == Socket!Spec => Socket!OnlyCrowdTakes
<1>1. SocketInv /\ [Socket!Next]_(Socket!vars) => [Socket!TakenByCrowd]_(Socket!vars)
  BY TakenStep
<1> QED
  BY <1>1, SocketInvHolds, PTL DEF Socket!Spec, Socket!OnlyCrowdTakes

-----------------------------------------------------------------------------
(***************************************************************************)
(* The composition.  FileFacts repeats the definitions of File: every step *)
(* of one is the same step of the other.                                   *)
(***************************************************************************)
LEMMA SameInitStep ==
  ASSUME NEW i \in Inits, File!InitNext(i)
  PROVE  FileFacts!InitNext(i)
  BY DEF File!InitNext, FileFacts!InitNext, File!BeginInit, FileFacts!BeginInit,
         File!OpenFile, FileFacts!OpenFile, File!CreateSchema, FileFacts!CreateSchema,
         File!CommitKeys, FileFacts!CommitKeys, File!SecureFile, FileFacts!SecureFile,
         File!InitFaults, FileFacts!InitFaults, File!Cleanup, FileFacts!Cleanup,
         File!Crash, FileFacts!Crash, File!Opened, FileFacts!Opened, File!Files, FileFacts!Files,
         File!InitGoes, FileFacts!InitGoes, File!InitEnds, FileFacts!InitEnds,
         File!NoInit, FileFacts!NoInit, File!AtWork, FileFacts!AtWork

LEMMA SameBrokerStep ==
  ASSUME NEW b \in Brokers,
         File!BeginOpen(b) \/ File!OpenNext(b) \/ File!Settle(b) \/ File!EndBroker(b)
  PROVE  \/ FileFacts!BeginOpen(b) \/ FileFacts!OpenNext(b)
         \/ FileFacts!Settle(b) \/ FileFacts!EndBroker(b)
  BY DEF File!BeginOpen, FileFacts!BeginOpen, File!OpenNext, FileFacts!OpenNext,
         File!Settle, FileFacts!Settle, File!EndBroker, FileFacts!EndBroker,
         File!OpenStore, FileFacts!OpenStore, File!QueryStore, FileFacts!QueryStore,
         File!OpenFaults, FileFacts!OpenFaults, File!HoldsVault, FileFacts!HoldsVault,
         File!Opened, FileFacts!Opened, File!Files, FileFacts!Files,
         File!NoOpen, FileFacts!NoOpen, File!AtWork, FileFacts!AtWork

\* To the socket, the life of a broker is one of Endpoint, whatever happens to
\* the vault (transport_unix.go:13-47).
THEOREM StartupImplementsEndpoint == Spec => Socket!Spec
<1>1. Init => Socket!Init
  BY DEF Init
<1>2. [Next]_vars => [Socket!Next]_(Socket!vars)
  <2> SUFFICES ASSUME [Next]_vars PROVE Socket!Next \/ UNCHANGED socketVars
    BY DEF socketVars, Socket!vars
  <2>1. CASE UNCHANGED vars
    BY <2>1 DEF vars
  <2>2. CASE \E b \in Brokers : Serve(b) \/ SocketStep(b)
    BY <2>2 DEF Serve, SocketStep, Socket!Next
  <2> QED
    BY <2>1, <2>2
    DEF Next, InitStep, BeginNew, BeginGetStore, OpenStep, NewFails, GetStoreFails, KillEarly
<1> QED
  BY <1>1, <1>2, PTL DEF Spec, Socket!Spec

\* To the file, it is one of VaultFile: brokers only open (broker.go:37-48,
\* broker.go:309-320).
THEOREM StartupImplementsFile == Spec => FileFacts!Spec
<1>1. Init => FileFacts!Init
  BY DEF Init, File!Init, FileFacts!Init, File!Files, FileFacts!Files, File!NoInit,
         FileFacts!NoInit, File!NoOpen, FileFacts!NoOpen
<1>2. [Next]_vars => [FileFacts!Next]_(FileFacts!vars)
  <2> SUFFICES ASSUME [Next]_vars PROVE FileFacts!Next \/ UNCHANGED fileVars
    BY DEF fileVars, FileFacts!vars
  <2>1. CASE UNCHANGED vars
    BY <2>1 DEF vars
  <2>2. ASSUME NEW i \in Inits, InitStep(i) PROVE FileFacts!Next
    BY <2>2, SameInitStep DEF InitStep, FileFacts!Next
  <2>3. ASSUME NEW b \in Brokers,
               \/ BeginNew(b) \/ BeginGetStore(b) \/ OpenStep(b) \/ NewFails(b)
               \/ GetStoreFails(b) \/ Serve(b) \/ SocketStep(b) \/ KillEarly(b)
        PROVE  FileFacts!Next \/ UNCHANGED fileVars
    <3>1. \/ File!BeginOpen(b) \/ File!OpenNext(b) \/ File!Settle(b) \/ File!EndBroker(b)
          \/ UNCHANGED fileVars
      BY <2>3 DEF BeginNew, BeginGetStore, OpenStep, NewFails, GetStoreFails, Serve, SocketStep,
                  KillEarly
    <3> QED
      BY <3>1, SameBrokerStep DEF FileFacts!Next
  <2> QED
    BY <2>1, <2>2, <2>3 DEF Next
<1> QED
  BY <1>1, <1>2, PTL DEF Spec, FileFacts!Spec

\* The vault file, the socket and the processes are well typed, and a socket
\* that is not stale belongs to a broker that still holds it.
THEOREM StartupTypeCorrect == Spec => []TypeOK
<1>1. FileFacts!TypeOK => File!TypeOK
  BY DEF FileFacts!TypeOK, File!TypeOK, File!Files, FileFacts!Files,
         File!Contents, FileFacts!Contents, File!InitState, FileFacts!InitState,
         File!OpenState, FileFacts!OpenState
<1>2. File!TypeOK /\ Socket!TypeOK => TypeOK
  BY DEF TypeOK
<1> QED
  BY <1>1, <1>2, MaxFilesAssumption, StartupImplementsFile, StartupImplementsEndpoint,
     FileFacts!FileTypeCorrect, SocketTypeCorrect, PTL

\* No broker ever works with a half-made vault: not in New, and not in a
\* handler that found one since (store.go:151-175, broker.go:309-320).
THEOREM BrokerHasVault == Spec => []StoreIsVault
<1>1. FileFacts!StoreIsVault => StoreIsVault
  BY DEF FileFacts!StoreIsVault, StoreIsVault, File!StoreIsVault
<1> QED
  BY <1>1, MaxFilesAssumption, StartupImplementsFile, FileFacts!OpenedIsVault, PTL

\* An init that fails, rather than crashes, leaves no half-made file behind,
\* whatever brokers opened meanwhile (store.go:73-80).
THEOREM InitLeavesNothing == Spec => []HalfMadeByCrash
<1>1. FileFacts!HalfMadeByCrash => HalfMadeByCrash
  BY DEF FileFacts!HalfMadeByCrash, HalfMadeByCrash, File!HalfMadeByCrash, File!AtWork,
         FileFacts!AtWork
<1> QED
  BY <1>1, MaxFilesAssumption, StartupImplementsFile, FileFacts!FailedInitCleansUp, PTL

\* No broker, and no later init, removes a vault whose creation was reported
\* (store.go:57-80).
THEOREM ReportedVaultStays == Spec => ReportedIsKept
<1>1. [FileFacts!RemovedByRival]_(FileFacts!vars) => [File!RemovedByRival]_(File!vars)
  BY DEF FileFacts!RemovedByRival, File!RemovedByRival, FileFacts!vars, File!vars
<1> QED
  BY <1>1, MaxFilesAssumption, StartupImplementsFile, FileFacts!ReportedVaultIsKept, PTL
  DEF FileFacts!ReportedIsKept, ReportedIsKept, File!ReportedIsKept

\* A broker that shared its start with no other one, and left no dial
\* unanswered, stays reachable at its socket, whatever it does with the vault meanwhile (transport_unix.go:13-47).
THEOREM BrokerIsReachable == Spec => []ServesAtPath
<1>1. Socket!ServesAtPath => ServesAtPath
  BY DEF ServesAtPath
<1> QED
  BY <1>1, StartupImplementsEndpoint, ServerIsReachable, PTL

\* A broker fails to claim the socket only beside another one, or for a fault of
\* the system (transport_unix.go:17-26).
THEOREM BrokerCanStart == Spec => []FailsBesideOthers
<1>1. Socket!FailsBesideOthers => FailsBesideOthers
  BY DEF FailsBesideOthers
<1> QED
  BY <1>1, StartupImplementsEndpoint, StaleSocketIsCleared, PTL

\* Whatever a broker and the vault do, the path of one that serves is taken only
\* by its own death or by a broker of its crowd (transport_unix.go:13-47).
THEOREM BrokerPathIsTakenByCrowd == Spec => OnlyCrowdTakes
<1>1. Socket!OnlyCrowdTakes => OnlyCrowdTakes
  BY DEF OnlyCrowdTakes
<1> QED
  BY <1>1, StartupImplementsEndpoint, PathIsTakenByCrowd, PTL
=============================================================================
