-------------------------------- MODULE Startup --------------------------------
(***************************************************************************)
(* The life of a broker process (cmd/vcsm-broker/main.go): broker.New      *)
(* opens the vault, ipc.Serve claims the socket, and while it serves a     *)
(* broker without a vault tries to open one at every request (getStore).   *)
(* Users run "vcsm init" meanwhile, and brokers are started, signalled and *)
(* killed.                                                                 *)
(*                                                                         *)
(* The database file is that of VaultFile, the socket that of Endpoint;    *)
(* this module says which step of one goes with which step of the other.   *)
(***************************************************************************)
EXTENDS Naturals

CONSTANTS Inits, Brokers, MaxFiles, NoSocket, Stale

ASSUME MaxFilesAssumption == MaxFiles \in Nat
ASSUME PathAssumption == NoSocket \notin Brokers /\ Stale \notin Brokers /\ NoSocket # Stale

VARIABLES path, content, init, opener, store, reported, rivals, spoiled,
          socket, pc, crowd

File == INSTANCE VaultFile
Socket == INSTANCE Endpoint

fileVars == <<path, content, init, opener, store, reported, rivals, spoiled>>
socketVars == <<socket, pc, crowd>>
vars == <<fileVars, socketVars>>

TypeOK == File!TypeOK /\ Socket!TypeOK

Init == File!Init /\ Socket!Init

-----------------------------------------------------------------------------

Off(b) == pc[b] = "off"
Handling(b) == pc[b] \in {"serve", "unlink", "removals", "lastremoval"}

InitStep(i) ==
    /\ File!InitNext(i)
    /\ UNCHANGED socketVars

\* broker.New calls vault.Open.
BeginNew(b) ==
    /\ Off(b)
    /\ File!BeginOpen(b)
    /\ UNCHANGED socketVars

\* getStore in a handler, under Broker.mu, when there is no store yet.
BeginGetStore(b) ==
    /\ Handling(b)
    /\ File!BeginOpen(b)
    /\ UNCHANGED socketVars

OpenStep(b) ==
    /\ File!OpenNext(b)
    /\ UNCHANGED socketVars

\* New returns an error other than ErrNotExist: the process exits.
NewFails(b) ==
    /\ Off(b)
    /\ opener[b].pc = "refused"
    /\ File!Settle(b)
    /\ UNCHANGED socketVars

\* The handler answers that there is no vault.  The next request tries again.
GetStoreFails(b) ==
    /\ Handling(b)
    /\ File!Settle(b)
    /\ UNCHANGED socketVars

\* New has a store, or there is no vault yet: ipc.Serve.
Serve(b) ==
    /\ Socket!Start(b)
    /\ \/ store[b] # 0 /\ UNCHANGED fileVars
       \/ opener[b].pc = "absent" /\ File!Settle(b)

\* The process that ends takes its store with it.
SocketStep(b) ==
    /\ Socket!BrokerNext(b)
    /\ IF pc'[b] = "off" THEN File!EndBroker(b) ELSE UNCHANGED fileVars

\* It is killed before it has called Serve.
KillEarly(b) ==
    /\ Off(b)
    /\ File!EndBroker(b)
    /\ UNCHANGED socketVars

Next ==
    \/ \E i \in Inits : InitStep(i)
    \/ \E b \in Brokers :
         \/ BeginNew(b)
         \/ BeginGetStore(b)
         \/ OpenStep(b)
         \/ NewFails(b)
         \/ GetStoreFails(b)
         \/ Serve(b)
         \/ SocketStep(b)
         \/ KillEarly(b)

Spec == Init /\ [][Next]_vars

-----------------------------------------------------------------------------
(***************************************************************************)
(* What VaultFile and Endpoint say of a broker's life, here of a whole one.*)
(***************************************************************************)

\* No broker works with a half-made vault.
StoreIsVault == File!StoreIsVault

\* A reported vault is only removed by an init that began before it existed.
ReportedIsKept == File!ReportedIsKept

\* An init that fails, rather than crashes, leaves nothing behind.
HalfMadeByCrash == File!HalfMadeByCrash

\* A broker that shared its start with no other, and left no dial unanswered,
\* stays reachable.
ServesAtPath == Socket!ServesAtPath

\* A start fails to claim the socket only beside another broker, or for a fault
\* of the system.
FailsBesideOthers == Socket!FailsBesideOthers

\* The path of a broker that serves is taken by its own death, or by a broker of
\* its start or that it did not answer.
OnlyCrowdTakes == Socket!OnlyCrowdTakes
=============================================================================
