------------------------ MODULE BrokerSessionProofs -------------------------
(***************************************************************************)
(* The power manager never loses an inhibitor, for any number of           *)
(* connections.                                                            *)
(***************************************************************************)
EXTENDS BrokerSession, TLAPS

ConnState ==
    [pc : {"idle", "store", "keys", "derive", "power", "status", "hold", "state"},
     op : AllOperations \cup {"none"}]

\* The part of the state the handlers and the exit do not touch through the
\* power manager.
Types ==
    /\ created \in BOOLEAN
    /\ broker \in {"up", "stopping", "closing", "closed", "down"}
    /\ opened \in BOOLEAN
    /\ unlocked \in BOOLEAN
    /\ conn \in [Conns -> ConnState]

\* The manager's three variables are always in one of three combinations.
Power ==
    \/ active = FALSE /\ handle = "nil" /\ inhibitors = 0
    \/ active = FALSE /\ handle = "noop" /\ inhibitors = 0
    \/ active = TRUE /\ handle = "stops" /\ inhibitors = 1

(***************************************************************************)
(* The inductive invariant: Power, and that a broker is only started below *)
(* the bound on orphans, of which it can leave one.                        *)
(***************************************************************************)
Orphans ==
    /\ orphans \in 0..MaxOrphans
    /\ Running => orphans < MaxOrphans
    /\ ~Running => inhibitors = 0

IInv == Types /\ Power /\ Orphans

LEMMA IInvImplies == IInv => TypeOK /\ OneInhibitor
<1> SUFFICES ASSUME IInv PROVE TypeOK /\ OneInhibitor
  OBVIOUS
<1>1. CASE active = FALSE /\ handle = "nil" /\ inhibitors = 0
  BY <1>1 DEF IInv, Types, Orphans, TypeOK, OneInhibitor, ConnState
<1>2. CASE active = FALSE /\ handle = "noop" /\ inhibitors = 0
  BY <1>2 DEF IInv, Types, Orphans, TypeOK, OneInhibitor, ConnState
<1>3. CASE active = TRUE /\ handle = "stops" /\ inhibitors = 1
  BY <1>3 DEF IInv, Types, Orphans, TypeOK, OneInhibitor, ConnState
<1> QED
  BY <1>1, <1>2, <1>3 DEF IInv, Power

LEMMA IdleConnTyped == IdleConn \in ConnState
  BY DEF IdleConn, ConnState

LEMMA IInvInit == Init => IInv
<1> SUFFICES ASSUME Init PROVE IInv
  OBVIOUS
<1>1. Types
  BY IdleConnTyped DEF Init, Types
<1>2. Power
  BY DEF Init, Power
<1>3. Orphans
  BY MaxOrphansAssumption DEF Init, Orphans, Running
<1> QED
  BY <1>1, <1>2, <1>3 DEF IInv

LEMMA StartKeepsPower == ASSUME Power, NEW outcome \in Outcomes, Start(outcome) PROVE Power'
<1>1. CASE UNCHANGED power
  BY <1>1 DEF Power, power
<1>2. CASE outcome = "hold" /\ ~active /\ Acquired(outcome)
  BY <1>2 DEF Power, Acquired
<1>3. CASE outcome = "nohold" /\ ~active /\ Acquired(outcome)
  BY <1>3 DEF Power, Acquired
<1>4. CASE outcome = "error" /\ Acquired(outcome)
  BY <1>1, <1>4 DEF Acquired
<1> QED
  BY <1>1, <1>2, <1>3, <1>4, OutcomesAssumption DEF Start

LEMMA StopKeepsPower == ASSUME Power, Stop PROVE Power'
  BY DEF Power, Stop

\* What a handler writes to its connection is well typed.
LEMMA ConnTyped ==
  ASSUME Types, NEW c \in Conns
  PROVE  /\ \A pc \in {"idle", "store", "keys", "derive", "power", "status", "hold", "state"} :
              GoTo(c, pc) => conn' \in [Conns -> ConnState]
         /\ Answer(c) => conn' \in [Conns -> ConnState]
<1>1. ASSUME NEW pc \in {"idle", "store", "keys", "derive", "power", "status", "hold", "state"},
             GoTo(c, pc)
      PROVE  conn' \in [Conns -> ConnState]
  <2>1. [conn[c] EXCEPT !.pc = pc] \in ConnState
    BY DEF Types, ConnState
  <2> QED
    BY <1>1, <2>1 DEF GoTo, Types
<1>2. Answer(c) => conn' \in [Conns -> ConnState]
  BY IdleConnTyped DEF Answer, Types
<1> QED
  BY <1>1, <1>2

\* A step of a handler.
LEMMA HandleStep == ASSUME IInv, NEW c \in Conns, Handle(c) PROVE IInv'
<1>1. Running /\ UNCHANGED <<created, broker, orphans>>
  BY DEF Handle, GetStore, BeginUnlock, FinishUnlock, StartPower, LockKeys, StopPower,
         RefreshStore, ReadHold, ReadState
<1>2. Types /\ Power /\ Orphans
  BY DEF IInv
<1>3. Power'
  <2>1. CASE UNCHANGED power
    BY <1>2, <2>1 DEF Power, power
  <2>2. CASE \E outcome \in Outcomes : StartPower(c, outcome)
    BY <1>2, <2>2, StartKeepsPower DEF StartPower
  <2>3. CASE StopPower(c)
    BY <1>2, <2>3, StopKeepsPower DEF StopPower
  <2> QED
    BY <2>1, <2>2, <2>3
    DEF Handle, GetStore, BeginUnlock, FinishUnlock, LockKeys, RefreshStore, ReadHold, ReadState
<1>4. opened' \in BOOLEAN /\ unlocked' \in BOOLEAN
  BY <1>2
  DEF Types, Handle, GetStore, BeginUnlock, FinishUnlock, StartPower, LockKeys, StopPower,
      RefreshStore, ReadHold, ReadState
<1>5. conn' \in [Conns -> ConnState]
  <2>1. CASE GetStore(c) \/ BeginUnlock(c) \/ FinishUnlock(c)
    BY <1>2, <2>1, ConnTyped DEF GetStore, BeginUnlock, FinishUnlock
  <2>2. CASE LockKeys(c) \/ StopPower(c) \/ RefreshStore(c)
    BY <1>2, <2>2, ConnTyped DEF LockKeys, StopPower, RefreshStore
  <2>3. CASE \E outcome \in Outcomes : StartPower(c, outcome)
    BY <1>2, <2>3, ConnTyped DEF StartPower
  <2>4. CASE ReadHold(c) \/ ReadState(c)
    BY <1>2, <2>4, ConnTyped DEF ReadHold, ReadState
  <2> QED
    BY <2>1, <2>2, <2>3, <2>4 DEF Handle
<1>6. Types'
  BY <1>1, <1>2, <1>4, <1>5 DEF Types
<1>7. Orphans'
  BY <1>1, <1>2 DEF Orphans, Running
<1> QED
  BY <1>3, <1>6, <1>7 DEF IInv

LEMMA IInvStep == IInv /\ [Next]_vars => IInv'
<1> SUFFICES ASSUME IInv, [Next]_vars PROVE IInv'
  OBVIOUS
<1> USE DEF IInv
<1>1. ASSUME NEW c \in Conns, NEW op \in Operations, Request(c, op) PROVE IInv'
  <2>1. [pc |-> IF op = "status" THEN "status" ELSE "store", op |-> op] \in ConnState
    BY OperationsAssumption DEF ConnState
  <2> QED
    BY <1>1, <2>1 DEF Request, Types, Power, Orphans, Running, power
<1>2. ASSUME NEW c \in Conns, Handle(c) PROVE IInv'
  BY <1>2, HandleStep
<1>3. CASE CreateVault \/ StartBroker \/ Signal \/ Reboot
  <2>1. Types'
    BY <1>3 DEF CreateVault, StartBroker, Signal, Reboot, Types, power
  <2>2. Power'
    BY <1>3 DEF CreateVault, StartBroker, Signal, Reboot, Power, power
  <2>3. CASE CreateVault \/ StartBroker \/ Signal
    BY <2>1, <2>2, <2>3 DEF CreateVault, StartBroker, Signal, Orphans, Running, power
  <2>4. CASE Reboot
    BY <2>1, <2>2, <2>4, MaxOrphansAssumption DEF Reboot, Orphans, Running, power
  <2> QED
    BY <1>3, <2>3, <2>4
<1>4. CASE CloseStopsPower
  <2>1. Power'
    BY <1>4, StopKeepsPower DEF CloseStopsPower
  <2> QED
    BY <1>4, <2>1 DEF CloseStopsPower, Types, Orphans, Running
<1>5. CASE CloseStore
  BY <1>5 DEF CloseStore, Types, Power, Orphans, Running, power
<1>6. CASE Exit \/ Killed
  <2>1. Running /\ Ended
    BY <1>6 DEF Exit, Killed, Running
  <2>2. Types' /\ Power'
    BY <2>1, IdleConnTyped DEF Ended, Types, Power
  <2>3. orphans + inhibitors \in 0..MaxOrphans
    BY <2>1, MaxOrphansAssumption DEF Orphans, Power
  <2> QED
    BY <2>1, <2>2, <2>3 DEF Ended, Orphans, Running
<1>7. CASE UNCHANGED vars
  BY <1>7 DEF vars, power, Types, Power, Orphans, Running
<1> QED
  BY <1>1, <1>2, <1>3, <1>4, <1>5, <1>6, <1>7 DEF Next

\* The state of the broker, its power manager and its handlers is well typed.
THEOREM SessionTypeCorrect == Spec => []TypeOK
  BY IInvInit, IInvStep, IInvImplies, PTL DEF Spec

\* However unlocks, locks and the exit interleave, no inhibitor of a broker is
\* started twice or lost by its manager (power.go:11-34).
THEOREM NoInhibitorIsLost == Spec => []OneInhibitor
  BY IInvInit, IInvStep, IInvImplies, PTL DEF Spec
=============================================================================
