------------------------------- MODULE VaultFile -------------------------------
(***************************************************************************)
(* The database file of a vault (internal/vault/store.go): processes that  *)
(* run "vcsm init" (Initialize) and brokers that open what is there (Open, *)
(* by broker.New and by getStore), over one path of the file system.       *)
(*                                                                         *)
(* Initialize checks that there is no file, opens the database, which      *)
(* creates one, commits the schema in one transaction and the key wrapper, *)
(* with the schema version, in another.  An error removes whatever is at   *)
(* the path by then; a crash removes nothing.                              *)
(*                                                                         *)
(* A file keeps its content after its name is removed: processes that have *)
(* it open go on with it.  The journal files beside it are part of it.     *)
(***************************************************************************)
EXTENDS Naturals

CONSTANTS
    Inits,          \* processes that run vcsm init
    Brokers,        \* broker processes
    MaxFiles        \* bound of the model: files created at the path

VARIABLES
    path,           \* the file at the path, 0 when there is none
    content,        \* content[f]: how far file f is
    init,           \* init[i]: where process i is in Initialize
    opener,         \* opener[b]: where broker b is in Open
    store,          \* store[b]: the file of Broker.store, 0 when it is nil
    reported,       \* history: a successful init has reported the file at path
    rivals,         \* history: inits at work since before that file existed
    spoiled         \* history: Crash has happened, or Open created a file

vars == <<path, content, init, opener, store, reported, rivals, spoiled>>

Files == 1..MaxFiles
AtWork == {i \in Inits : init[i].pc # "off"}

Contents == {"none", "empty", "schema", "vault"}
InitState == [pc : {"off", "open", "schema", "keys", "mode", "cleanup"}, file : 0..MaxFiles]
OpenState == [pc : {"idle", "open", "query", "absent", "refused"}, file : 0..MaxFiles]

TypeOK ==
    /\ path \in 0..MaxFiles
    /\ content \in [Files -> Contents]
    /\ init \in [Inits -> InitState]
    /\ opener \in [Brokers -> OpenState]
    /\ store \in [Brokers -> 0..MaxFiles]
    /\ reported \in BOOLEAN
    /\ rivals \in SUBSET Inits
    /\ spoiled \in BOOLEAN

NoInit == [pc |-> "off", file |-> 0]
NoOpen == [pc |-> "idle", file |-> 0]

Init ==
    /\ path = 0
    /\ content = [f \in Files |-> "none"]
    /\ init = [i \in Inits |-> NoInit]
    /\ opener = [b \in Brokers |-> NoOpen]
    /\ store = [b \in Brokers |-> 0]
    /\ reported = FALSE
    /\ rivals = {}
    /\ spoiled = FALSE

-----------------------------------------------------------------------------

\* openDatabase gives file f: the one at the path, or a new one.
Opened(f) ==
    \/ path = f /\ UNCHANGED <<path, content, reported, rivals>>
    \/ /\ path = 0
       /\ content[f] = "none"
       /\ \A g \in Files : content[g] = "none" => f <= g
       /\ path' = f
       /\ content' = [content EXCEPT ![f] = "empty"]
       /\ reported' = FALSE
       /\ rivals' = AtWork

(***************************************************************************)
(* Initialize.                                                             *)
(***************************************************************************)
InitGoes(i, pc) == init' = [init EXCEPT ![i].pc = pc]
InitEnds(i) ==
    /\ init' = [init EXCEPT ![i] = NoInit]
    /\ rivals' = rivals \ {i}

\* There is no file; with one, "vault already exists" and nothing happens.
\* The seeded fault asks nothing.
BeginInitUnasked(i) ==
    /\ init[i].pc = "off"
    /\ InitGoes(i, "open")
    /\ UNCHANGED <<path, content, opener, store, reported, rivals, spoiled>>
BeginInit(i) ==
    /\ init[i].pc = "off"
    /\ path = 0
    /\ InitGoes(i, "open")
    /\ UNCHANGED <<path, content, opener, store, reported, rivals, spoiled>>

OpenFile(i) ==
    /\ init[i].pc = "open"
    /\ \E f \in Files : /\ Opened(f)
                        /\ init' = [init EXCEPT ![i] = [pc |-> "schema", file |-> f]]
    /\ UNCHANGED <<opener, store, spoiled>>

\* The five tables; CREATE TABLE fails when they are there.
CreateSchema(i) ==
    LET f == init[i].file IN
    /\ init[i].pc = "schema"
    /\ IF content[f] = "empty"
       THEN content' = [content EXCEPT ![f] = "schema"] /\ InitGoes(i, "keys")
       ELSE UNCHANGED content /\ InitGoes(i, "cleanup")
    /\ UNCHANGED <<path, opener, store, reported, rivals, spoiled>>

\* The schema version, the id of the vault and its key wrapper.
CommitKeys(i) ==
    /\ init[i].pc = "keys"
    /\ content' = [content EXCEPT ![init[i].file] = "vault"]
    /\ InitGoes(i, "mode")
    /\ UNCHANGED <<path, opener, store, reported, rivals, spoiled>>

\* os.Chmod of the path; then the success is reported.
SecureFile(i) ==
    /\ init[i].pc = "mode"
    /\ IF path # 0
       THEN reported' = (reported \/ path = init[i].file) /\ InitEnds(i)
       ELSE UNCHANGED <<reported, rivals>> /\ InitGoes(i, "cleanup")
    /\ UNCHANGED <<path, content, opener, store, spoiled>>

\* The database, the random source or the file system returns an error; one
\* of openDatabase comes before the clean-up is in place.  The seeded fault
\* sets removeOnError after the schema.
InitFaultsEarly(i) ==
    /\ init[i].pc \in {"open", "schema", "keys", "mode"}
    /\ IF init[i].pc \in {"open", "schema"}
       THEN InitEnds(i)
       ELSE InitGoes(i, "cleanup") /\ UNCHANGED rivals
    /\ UNCHANGED <<path, content, opener, store, reported, spoiled>>
InitFaults(i) ==
    /\ init[i].pc \in {"open", "schema", "keys", "mode"}
    /\ IF init[i].pc = "open"
       THEN InitEnds(i)
       ELSE InitGoes(i, "cleanup") /\ UNCHANGED rivals
    /\ UNCHANGED <<path, content, opener, store, reported, spoiled>>

\* removeOnError: os.Remove of the path.
Cleanup(i) ==
    /\ init[i].pc = "cleanup"
    /\ path' = 0
    /\ reported' = FALSE
    /\ InitEnds(i)
    /\ UNCHANGED <<content, opener, store, spoiled>>

\* The process is killed or interrupted; or openDatabase fails after SQLite made
\* the file, which it returns before the clean-up is in place.
Crash(i) ==
    /\ init[i].pc # "off"
    /\ spoiled' = TRUE
    /\ InitEnds(i)
    /\ UNCHANGED <<path, content, opener, store, reported>>

-----------------------------------------------------------------------------
(***************************************************************************)
(* Open.  It ends with the store, with ErrNotExist ("absent") or with      *)
(* another error ("refused").                                              *)
(***************************************************************************)
BeginOpen(b) ==
    /\ opener[b].pc = "idle"
    /\ store[b] = 0
    /\ opener' = [opener EXCEPT ![b].pc = IF path = 0 THEN "absent" ELSE "open"]
    /\ UNCHANGED <<path, content, init, store, reported, rivals, spoiled>>

OpenStore(b) ==
    /\ opener[b].pc = "open"
    /\ \E f \in Files : /\ Opened(f)
                        /\ opener' = [opener EXCEPT ![b] = [pc |-> "query", file |-> f]]
    /\ spoiled' = (spoiled \/ path = 0)
    /\ UNCHANGED <<init, store>>

\* The schema version and the id are there.  The seeded fault takes an empty
\* table for a first version.
HoldsVaultOrTables(f) == content[f] \in {"schema", "vault"}
HoldsVault(f) == content[f] = "vault"

QueryStore(b) ==
    LET f == opener[b].file IN
    /\ opener[b].pc = "query"
    /\ IF HoldsVault(f)
       THEN /\ store' = [store EXCEPT ![b] = f]
            /\ opener' = [opener EXCEPT ![b] = NoOpen]
       ELSE /\ opener' = [opener EXCEPT ![b] = [pc |-> "refused", file |-> 0]]
            /\ UNCHANGED store
    /\ UNCHANGED <<path, content, init, reported, rivals, spoiled>>

\* The database returns an error, or the five seconds are over.
OpenFaults(b) ==
    /\ opener[b].pc \in {"open", "query"}
    /\ opener' = [opener EXCEPT ![b] = [pc |-> "refused", file |-> 0]]
    /\ UNCHANGED <<path, content, init, store, reported, rivals, spoiled>>

\* The caller has the error.
Settle(b) ==
    /\ opener[b].pc \in {"absent", "refused"}
    /\ opener' = [opener EXCEPT ![b] = NoOpen]
    /\ UNCHANGED <<path, content, init, store, reported, rivals, spoiled>>

\* The broker process ends.
EndBroker(b) ==
    /\ opener' = [opener EXCEPT ![b] = NoOpen]
    /\ store' = [store EXCEPT ![b] = 0]
    /\ UNCHANGED <<path, content, init, reported, rivals, spoiled>>

-----------------------------------------------------------------------------

InitNext(i) ==
    \/ BeginInit(i)
    \/ OpenFile(i)
    \/ CreateSchema(i)
    \/ CommitKeys(i)
    \/ SecureFile(i)
    \/ InitFaults(i)
    \/ Cleanup(i)
    \/ Crash(i)

OpenNext(b) ==
    \/ OpenStore(b)
    \/ QueryStore(b)
    \/ OpenFaults(b)

Next ==
    \/ \E i \in Inits : InitNext(i)
    \/ \E b \in Brokers : BeginOpen(b) \/ OpenNext(b) \/ Settle(b) \/ EndBroker(b)

Spec == Init /\ [][Next]_vars

-----------------------------------------------------------------------------
(***************************************************************************)
(* Properties.                                                             *)
(***************************************************************************)

\* A broker never works with a half-made vault, though it may open the file
\* between any two steps of an initialisation and at any time after a crash.
StoreIsVault == \A b \in Brokers : store[b] # 0 => content[store[b]] = "vault"

\* A vault whose creation was reported is only ever removed by the clean-up of
\* an init that had found no file before this one existed: no later init, and
\* no broker, touches it.
RemovedByRival ==
    reported /\ path' # path => \E i \in rivals : init[i].pc = "cleanup"
ReportedIsKept == [][RemovedByRival]_vars

\* When no init is at work, a file that is not a vault was left by a crash, or
\* made by a broker's Open just after its file was removed: an init whose
\* clean-up is in place leaves nothing behind, whatever ran beside it.
HalfMadeByCrash ==
    AtWork = {} /\ path # 0 /\ content[path] # "vault" => spoiled

\* "vault is not initialized; run vcsm init" (broker.go:315): when a broker is
\* about to say so of the file it opened, and no init is at work, init can run.
InitCanRun ==
    \A b \in Brokers :
        opener[b].pc = "query" /\ ~HoldsVault(opener[b].file) /\ AtWork = {} => path = 0
=============================================================================
