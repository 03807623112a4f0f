---------------------------- MODULE BrokerSession ----------------------------
(***************************************************************************)
(* The unlock, lock and status requests of a broker, its idle-sleep        *)
(* inhibitor and its exit (internal/broker/broker.go, internal/power,      *)
(* cmd/vcsm-broker/main.go).                                               *)
(*                                                                         *)
(* Every connection is served by a goroutine of its own.  Unlock holds     *)
(* Store.mu while it derives the key; status holds Broker.mu for reading   *)
(* while it waits for Store.mu.  The inhibitor has a mutex of its own,     *)
(* held for one step.  Nothing guards the keys and the inhibitor together, *)
(* so the steps of different requests interleave between them.             *)
(*                                                                         *)
(* An inhibitor is a process or thread of the operating system.  On Linux  *)
(* and macOS it is a child process, which survives a broker that exits     *)
(* without stopping it.                                                    *)
(***************************************************************************)
EXTENDS Naturals

CONSTANTS
    Conns,          \* connections of clients
    Operations,     \* what they ask for
    Outcomes,       \* what acquire() may return
    Exits,          \* how the broker may end
    MaxOrphans      \* bound of the model: inhibitors left by brokers that ended

AllOperations == {"status", "unlock", "unlock.wrong", "lock"}

\* "hold": an inhibitor runs; "nohold": this system has none
\* (power_linux.go:9-11); "error": it could not be started.
ASSUME OutcomesAssumption == Outcomes \subseteq {"hold", "nohold", "error"}
ASSUME OperationsAssumption == Operations \subseteq AllOperations
ASSUME ExitsAssumption == Exits \subseteq {"signal", "killed"}
ASSUME MaxOrphansAssumption == MaxOrphans \in Nat

VARIABLES
    created,        \* the vault file exists
    broker,         \* "up", "stopping", "closing", "closed" or "down"
    opened,         \* Broker.store # nil
    unlocked,       \* Store.keys # nil
    active,         \* power.Manager.active
    handle,         \* power.Manager.stop: "nil", "noop" or "stops"
    inhibitors,     \* inhibitors this broker started that still run
    orphans,        \* inhibitors of ended brokers that still run
    conn            \* conn[c]: what the goroutine of c is doing

power == <<active, handle, inhibitors>>
vars == <<created, broker, opened, unlocked, power, orphans, conn>>

\* What a request answers is not kept.
IdleConn == [pc |-> "idle", op |-> "none"]

\* Every variable ranges over its type: in particular the broker stops no
\* inhibitor twice and leaves no more orphans than it had inhibitors.
TypeOK ==
    /\ created \in BOOLEAN
    /\ broker \in {"up", "stopping", "closing", "closed", "down"}
    /\ opened \in BOOLEAN
    /\ unlocked \in BOOLEAN
    /\ active \in BOOLEAN
    /\ handle \in {"nil", "noop", "stops"}
    /\ inhibitors \in Nat
    /\ orphans \in 0..MaxOrphans
    /\ conn \in [Conns -> [pc : {"idle", "store", "keys", "derive", "power",
                                 "status", "hold", "state"},
                           op : AllOperations \cup {"none"}]]

Init ==
    /\ created = FALSE
    /\ broker = "down"
    /\ opened = FALSE
    /\ unlocked = FALSE
    /\ active = FALSE /\ handle = "nil" /\ inhibitors = 0
    /\ orphans = 0
    /\ conn = [c \in Conns |-> IdleConn]

-----------------------------------------------------------------------------
(***************************************************************************)
(* The inhibitor.                                                          *)
(***************************************************************************)

\* Start when no inhibitor is active: what acquire() returned is kept, and
\* an error leaves the manager as it was.
Acquired(outcome) ==
    CASE outcome = "hold" -> /\ active' = TRUE
                             /\ handle' = "stops"
                             /\ inhibitors' = inhibitors + 1
      [] outcome = "nohold" -> /\ active' = FALSE
                               /\ handle' = "noop"
                               /\ UNCHANGED inhibitors
      [] outcome = "error" -> UNCHANGED power

\* Start.  The seeded fault forgets "if m.active { return nil }".
StartAgain(outcome) == Acquired(outcome)
Start(outcome) == IF active THEN UNCHANGED power ELSE Acquired(outcome)

\* Stop.  The seeded fault forgets m.stop = nil.
StopKeepingHandle ==
    /\ inhibitors' = IF handle = "stops" THEN inhibitors - 1 ELSE inhibitors
    /\ active' = FALSE
    /\ UNCHANGED handle
Stop ==
    /\ inhibitors' = IF handle = "stops" THEN inhibitors - 1 ELSE inhibitors
    /\ handle' = "nil"
    /\ active' = FALSE

-----------------------------------------------------------------------------
(***************************************************************************)
(* Requests.                                                               *)
(***************************************************************************)

At(c, pc) == conn[c].pc = pc
GoTo(c, pc) == conn' = [conn EXCEPT ![c].pc = pc]
Answer(c) == conn' = [conn EXCEPT ![c] = IdleConn]

\* A goroutine runs as long as the process does.
Running == broker # "down"

\* Nobody holds Store.mu, nobody holds Broker.mu for reading.
KeysFree == \A d \in Conns : ~At(d, "derive")
NoReader == \A d \in Conns : ~At(d, "state")

\* The listener accepts until the signal closes it.
Request(c, op) ==
    /\ broker = "up"
    /\ At(c, "idle")
    /\ conn' = [conn EXCEPT ![c] =
                  [pc |-> IF op = "status" THEN "status" ELSE "store", op |-> op]]
    /\ UNCHANGED <<created, broker, opened, unlocked, power, orphans>>

\* getStore opens the vault when it can, else the request fails.
GetStore(c) ==
    /\ Running
    /\ At(c, "store")
    /\ NoReader
    /\ opened' = (opened \/ created)
    /\ IF opened \/ created THEN GoTo(c, "keys") ELSE Answer(c)
    /\ UNCHANGED <<created, broker, unlocked, power, orphans>>

\* Store.Unlock takes the mutex.  When the keys are there nothing is left to
\* do, whatever the password; else it reads the wrapper, unless the signal has
\* cancelled the context, and derives the key.
BeginUnlock(c) ==
    /\ Running
    /\ At(c, "keys")
    /\ conn[c].op \in {"unlock", "unlock.wrong"}
    /\ KeysFree
    /\ \/ unlocked /\ GoTo(c, "power")
       \/ ~unlocked /\ broker = "up" /\ GoTo(c, "derive")
       \/ ~unlocked /\ broker # "up" /\ Answer(c)
    /\ UNCHANGED <<created, broker, opened, unlocked, power, orphans>>

\* The password opens the wrapper or not; the mutex is released.  The seeded
\* fault does not release it on the error path.
FinishUnlockKeepingMutex(c) ==
    /\ Running
    /\ At(c, "derive")
    /\ conn[c].op = "unlock"
    /\ unlocked' = TRUE
    /\ GoTo(c, "power")
    /\ UNCHANGED <<created, broker, opened, power, orphans>>
FinishUnlock(c) ==
    /\ Running
    /\ At(c, "derive")
    /\ unlocked' = (conn[c].op = "unlock")
    /\ IF conn[c].op = "unlock" THEN GoTo(c, "power") ELSE Answer(c)
    /\ UNCHANGED <<created, broker, opened, power, orphans>>

\* power.Start after a successful unlock; when it fails the keys stay.
StartPower(c, outcome) ==
    /\ Running
    /\ At(c, "power")
    /\ conn[c].op # "lock"
    /\ Start(outcome)
    /\ IF ~active /\ outcome = "error" THEN Answer(c) ELSE GoTo(c, "status")
    /\ UNCHANGED <<created, broker, opened, unlocked, orphans>>

\* Store.Lock.  The seeded fault keeps the keys when no inhibitor is active.
LockKeysOnlyIfHeld(c) ==
    /\ Running
    /\ At(c, "keys")
    /\ conn[c].op = "lock"
    /\ KeysFree
    /\ unlocked' = (unlocked /\ ~active)
    /\ GoTo(c, "power")
    /\ UNCHANGED <<created, broker, opened, power, orphans>>
LockKeys(c) ==
    /\ Running
    /\ At(c, "keys")
    /\ conn[c].op = "lock"
    /\ KeysFree
    /\ unlocked' = FALSE
    /\ GoTo(c, "power")
    /\ UNCHANGED <<created, broker, opened, power, orphans>>

StopPower(c) ==
    /\ Running
    /\ At(c, "power")
    /\ conn[c].op = "lock"
    /\ Stop
    /\ GoTo(c, "status")
    /\ UNCHANGED <<created, broker, opened, unlocked, orphans>>

\* status opens the vault if it can, then reads the state of the inhibitor and
\* then, once Store.mu is free, that of the keys, holding Broker.mu for reading
\* in between.
RefreshStore(c) ==
    /\ Running
    /\ At(c, "status")
    /\ NoReader
    /\ opened' = (opened \/ created)
    /\ GoTo(c, "hold")
    /\ UNCHANGED <<created, broker, unlocked, power, orphans>>

ReadHold(c) ==
    /\ Running
    /\ At(c, "hold")
    /\ GoTo(c, "state")
    /\ UNCHANGED <<created, broker, opened, unlocked, power, orphans>>

ReadState(c) ==
    /\ Running
    /\ At(c, "state")
    /\ KeysFree
    /\ Answer(c)
    /\ UNCHANGED <<created, broker, opened, unlocked, power, orphans>>

-----------------------------------------------------------------------------
(***************************************************************************)
(* The life of the broker.                                                 *)
(***************************************************************************)

\* vcsm init, a process of its own, creates the vault.
CreateVault ==
    /\ ~created
    /\ created' = TRUE
    /\ UNCHANGED <<broker, opened, unlocked, power, orphans, conn>>

StartBroker ==
    /\ broker = "down"
    /\ orphans < MaxOrphans
    /\ broker' = "up"
    /\ opened' = created
    /\ UNCHANGED <<created, unlocked, power, orphans, conn>>

\* SIGINT or SIGTERM closes the listener; Serve returns and main runs its
\* deferred Close.  Goroutines are not waited for.
Signal ==
    /\ broker = "up"
    /\ "signal" \in Exits
    /\ broker' = "stopping"
    /\ UNCHANGED <<created, opened, unlocked, power, orphans, conn>>

CloseStopsPower ==
    /\ broker = "stopping"
    /\ broker' = "closing"
    /\ Stop
    /\ UNCHANGED <<created, opened, unlocked, orphans, conn>>

CloseStore ==
    /\ broker = "closing"
    /\ KeysFree /\ NoReader
    /\ broker' = "closed"
    /\ unlocked' = FALSE
    /\ UNCHANGED <<created, opened, power, orphans, conn>>

\* The process ends, its goroutines with it, and its inhibitors are orphans.
Ended ==
    /\ broker' = "down"
    /\ opened' = FALSE
    /\ unlocked' = FALSE
    /\ active' = FALSE /\ handle' = "nil" /\ inhibitors' = 0
    /\ orphans' = orphans + inhibitors
    /\ conn' = [c \in Conns |-> IdleConn]
    /\ UNCHANGED created

Exit == broker = "closed" /\ Ended

\* SIGKILL, a crash, or the os.Exit(1) of main after an accept error, which
\* skips the deferred Close.
Killed == Running /\ "killed" \in Exits /\ Ended

\* The machine restarts, and orphans end.
Reboot ==
    /\ broker = "down"
    /\ orphans > 0
    /\ orphans' = 0
    /\ UNCHANGED <<created, broker, opened, unlocked, power, conn>>

Handle(c) ==
    \/ GetStore(c)
    \/ BeginUnlock(c)
    \/ FinishUnlock(c)
    \/ \E outcome \in Outcomes : StartPower(c, outcome)
    \/ LockKeys(c)
    \/ StopPower(c)
    \/ RefreshStore(c)
    \/ ReadHold(c)
    \/ ReadState(c)

Next ==
    \/ \E c \in Conns, op \in Operations : Request(c, op)
    \/ \E c \in Conns : Handle(c)
    \/ CreateVault
    \/ StartBroker
    \/ Signal
    \/ CloseStopsPower
    \/ CloseStore
    \/ Exit
    \/ Killed
    \/ Reboot

Spec == Init /\ [][Next]_vars

\* The Go scheduler runs every goroutine that can run, main's too, and a
\* mutex of package sync hands itself to a waiter that has waited long: a
\* goroutine that can take it again and again does take it.
Fairness ==
    /\ \A c \in Conns : SF_vars(Handle(c))
    /\ WF_vars(CloseStopsPower) /\ SF_vars(CloseStore) /\ WF_vars(Exit)

FairSpec == Spec /\ Fairness

-----------------------------------------------------------------------------
(***************************************************************************)
(* Properties.                                                             *)
(***************************************************************************)

\* However unlocks, locks and the exit interleave, at most one inhibitor runs
\* for a broker, it is the one the manager can still stop, and Active tells
\* whether it runs: none is started twice, lost or stopped twice.
OneInhibitor ==
    /\ inhibitors = IF handle = "stops" THEN 1 ELSE 0
    /\ active <=> handle = "stops"

Quiet == broker = "up" /\ \A c \in Conns : At(c, "idle")

\* A lock request that found the vault locks it, though unlocks may hold the
\* mutex or take it first.
LockTakesEffect ==
    \A c \in Conns : (At(c, "keys") /\ conn[c].op = "lock") ~> ~unlocked

\* Every request is answered, or ends with the broker: no goroutine waits for
\* ever for a mutex another one kept.
RequestsEnd == \A c \in Conns : (conn[c].pc # "idle") ~> At(c, "idle")

\* A broker told to stop ends, whatever its goroutines hold at that moment.
SignalEnds == (broker = "stopping") ~> (broker = "down")

\* "The display may sleep, but idle system sleep is inhibited while unlocked."
\* (docs/threat-model.md:28).  Two ways lead to the contrary: an unlock between the
\* two steps of a lock, and an inhibitor that cannot be started.
UnlockedIsHeld == Quiet /\ unlocked => active

\* "--why=VCSM broker is unlocked" (power_linux.go:12): no inhibitor runs for a
\* broker that has ended.
NoOrphans == orphans = 0
=============================================================================
