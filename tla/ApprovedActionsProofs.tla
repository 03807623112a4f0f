------------------------ MODULE ApprovedActionsProofs ------------------------
(***************************************************************************)
(* Approved actions stay readable, are looked up as they were approved,    *)
(* and implement ActionRegister, for any number of actions, configurations *)
(* and goroutines.                                                         *)
(*                                                                         *)
(* ApprovedActions is instantiated by ActionRuns, and states no assumption *)
(* of its own: the one on its constants is a premise where it is needed.   *)
(***************************************************************************)
EXTENDS ApprovedActions, TLAPS

UserState ==
    [pc : {"idle", "find", "current", "commit"}, action : Actions \cup {NoAction},
     config : Configs \cup {NoConfig}, revision : Nat, created : Nat]
ReaderState ==
    [pc : {"idle", "find", "open", "got"}, action : Actions \cup {NoAction},
     revision : Nat, config : Configs \cup {NoConfig},
     seen : SUBSET (Configs \cup {NoConfig})]

(***************************************************************************)
(* The inductive invariant.  A row says by itself which revision it was    *)
(* sealed with, whatever revision it replaced; a request that found no row *)
(* and still finds none is older than every approval, so the moment of the *)
(* first approval is never one that another approval preceded.             *)
(***************************************************************************)
RowsInv ==
    \A a \in Actions :
        /\ rows[a].sealed = rows[a].revision
        /\ rows[a].created = 0
        /\ Exists(a) <=> configured[a] # 0
        /\ Exists(a) => rows[a].config \in Configs

UsersInv ==
    \A u \in Users : user[u].pc # "idle" =>
        /\ user[u].action \in Actions
        /\ user[u].config \in Configs
        /\ user[u].pc \in {"find", "commit"} /\ user[u].revision = 0 =>
              user[u].created <= configured[user[u].action]
        /\ user[u].pc = "find" => user[u].revision = 0
        /\ user[u].pc = "current" => user[u].revision # 0
        /\ user[u].pc = "commit" /\ user[u].revision # 0 => user[u].created = 0

ReadersInv ==
    \A r \in Readers : reader[r].pc # "idle" =>
        /\ reader[r].action \in Actions
        /\ rows[reader[r].action].config \in reader[r].seen
        /\ reader[r].pc = "open" => reader[r].revision # 0
        /\ reader[r].pc = "got" => reader[r].config \in reader[r].seen \cap Configs

IInv == TypeOK /\ RowsInv /\ UsersInv /\ ReadersInv

LEMMA TypeFolds ==
  TypeOK <=> /\ rows \in [Actions -> Row]
             /\ configured \in [Actions -> Nat]
             /\ unlocked \in BOOLEAN
             /\ user \in [Users -> UserState]
             /\ reader \in [Readers -> ReaderState]
  BY DEF TypeOK, UserState, ReaderState

LEMMA IdleTyped == IdleUser \in UserState /\ IdleReader \in ReaderState
  BY DEF IdleUser, IdleReader, UserState, ReaderState

LEMMA IInvInit == Init => IInv
<1> SUFFICES ASSUME Init PROVE IInv
  OBVIOUS
<1>1. NoRow \in Row
  BY DEF NoRow, Row
<1>2. TypeOK
  BY <1>1, IdleTyped, TypeFolds DEF Init
<1>3. RowsInv
  BY DEF Init, RowsInv, NoRow, Exists
<1>4. UsersInv /\ ReadersInv
  BY DEF Init, UsersInv, ReadersInv, IdleUser, IdleReader
<1> QED
  BY <1>2, <1>3, <1>4 DEF IInv

\* A commit writes a row of its own revision, and the first one its birth.
LEMMA CommitStep == ASSUME IInv, NEW u \in Users, CommitPut(u) PROVE IInv'
<1> DEFINE a == user[u].action
           put == user[u]
<1>1. /\ put \in UserState
      /\ a \in Actions
      /\ put.config \in Configs
      /\ put.pc = "commit"
      /\ Exists(a) <=> put.revision # 0
  BY TypeFolds DEF IInv, UsersInv, CommitPut
<1>2. put.created = 0
  <2>1. CASE put.revision # 0
    BY <1>1, <2>1 DEF IInv, UsersInv
  <2>2. CASE put.revision = 0
    <3>1. put.created <= configured[a] /\ configured[a] = 0
      BY <1>1, <2>2, TypeFolds DEF IInv, UsersInv, RowsInv
    <3> QED
      BY <1>1, <3>1 DEF UserState
  <2> QED
    BY <2>1, <2>2
<1>3. /\ PutRow(put) \in Row
      /\ PutRow(put).sealed = PutRow(put).revision
      /\ PutRow(put).revision # 0
      /\ PutRow(put).created = 0
      /\ PutRow(put).config = put.config
  BY <1>1, <1>2 DEF PutRow, Row, UserState
<1>4. /\ rows' = [rows EXCEPT ![a] = PutRow(put)]
      /\ configured' = [configured EXCEPT ![a] = configured[a] + 1]
      /\ user' = [user EXCEPT ![u] = IdleUser]
      /\ reader' = [r \in Readers |->
                      IF reader[r].action = a
                      THEN [reader[r] EXCEPT !.seen = @ \cup {put.config}]
                      ELSE reader[r]]
      /\ unlocked' = unlocked
  BY DEF CommitPut, EndConfigure
<1> HIDE DEF a, put
<1>5. /\ rows \in [Actions -> Row]
      /\ configured \in [Actions -> Nat]
      /\ unlocked \in BOOLEAN
      /\ user \in [Users -> UserState]
      /\ reader \in [Readers -> ReaderState]
  BY TypeFolds DEF IInv
<1>6. ASSUME NEW r \in Readers
      PROVE  reader'[r] \in ReaderState
  BY <1>1, <1>4, <1>5 DEF ReaderState
<1>7. TypeOK'
  <2>1. reader' \in [Readers -> ReaderState]
    BY <1>4, <1>6
  <2> QED
    BY <1>1, <1>3, <1>4, <1>5, <2>1, IdleTyped DEF TypeOK, UserState, ReaderState
<1>8. RowsInv'
  BY <1>1, <1>3, <1>4, <1>5 DEF IInv, RowsInv, Exists
<1>9. UsersInv'
  <2> SUFFICES ASSUME NEW x \in Users, user'[x].pc # "idle"
               PROVE  UsersInv!(x)'
    BY DEF UsersInv
  <2>1. x # u /\ user'[x] = user[x]
    BY <1>4, <1>5 DEF IdleUser
  <2>2. user[x].action \in Actions
    BY <2>1 DEF IInv, UsersInv
  <2>3. configured[user[x].action] <= configured'[user[x].action]
    BY <1>1, <1>4, <1>5, <2>2
  <2>4. user[x].created \in Nat
    BY <1>5 DEF UserState
  <2> QED
    BY <1>4, <1>5, <2>1, <2>2, <2>3, <2>4 DEF IInv, UsersInv
<1>10. ReadersInv'
  BY <1>1, <1>3, <1>4, <1>5 DEF IInv, ReadersInv, ReaderState
<1> QED
  BY <1>7, <1>8, <1>9, <1>10 DEF IInv

\* A goroutine that configures changes nothing else before its commit.
LEMMA UserStep ==
  ASSUME IInv, NEW u \in Users, UserNext(u), ~CommitPut(u)
  PROVE  IInv' /\ UNCHANGED <<rows, configured>>
<1>1. UNCHANGED <<rows, configured, unlocked, reader>>
  BY DEF UserNext, BeginConfigure, FindRow, ReadCurrent, ReadCurrentFails, InsertConflicts,
         ConfigureFault
<1>2. /\ rows \in [Actions -> Row]
      /\ configured \in [Actions -> Nat]
      /\ user \in [Users -> UserState]
      /\ RowsInv /\ UsersInv
  BY TypeFolds DEF IInv
<1>3. user' \in [Users -> UserState] /\ UsersInv'
  <2>1. CASE \E a \in Actions, c \in Configs : BeginConfigure(u, a, c)
    <3>1. PICK a \in Actions, c \in Configs : BeginConfigure(u, a, c)
      BY <2>1
    <3> QED
      BY <1>1, <1>2, <3>1 DEF BeginConfigure, UsersInv, UserState
  <2>2. CASE FindRow(u)
    BY <1>1, <1>2, <2>2 DEF FindRow, UsersInv, UserState, Exists, Row
  <2>3. CASE ReadCurrent(u)
    BY <1>1, <1>2, <2>3 DEF ReadCurrent, UsersInv, RowsInv, UserState, Row
  <2>4. CASE EndConfigure(u)
    BY <1>1, <1>2, <2>4, IdleTyped DEF EndConfigure, UsersInv, IdleUser
  <2> QED
    BY <2>1, <2>2, <2>3, <2>4 DEF UserNext, ReadCurrentFails, InsertConflicts, ConfigureFault
<1> QED
  BY <1>1, <1>3, TypeFolds DEF IInv, TypeOK, UserState, RowsInv, ReadersInv, Exists

LEMMA ReaderStep ==
  ASSUME IInv, NEW r \in Readers, ReaderNext(r)
  PROVE  IInv' /\ UNCHANGED <<rows, configured>>
<1>1. UNCHANGED <<rows, configured, unlocked, user>>
  BY DEF ReaderNext, BeginGet, GetFind, GetOpen, GetFails, Forget
<1>2. /\ rows \in [Actions -> Row]
      /\ reader \in [Readers -> ReaderState]
      /\ RowsInv /\ ReadersInv
  BY TypeFolds DEF IInv
<1>3. reader' \in [Readers -> ReaderState] /\ ReadersInv'
  <2>1. CASE \E a \in Actions : BeginGet(r, a)
    <3>1. PICK a \in Actions : BeginGet(r, a)
      BY <2>1
    <3> QED
      BY <1>1, <1>2, <3>1 DEF BeginGet, ReadersInv, ReaderState, Row
  <2>2. CASE GetFind(r)
    BY <1>1, <1>2, <2>2 DEF GetFind, ReadersInv, ReaderState, Exists, Row
  <2>3. CASE GetOpen(r)
    <3>1. rows[reader[r].action].config \in Configs
      BY <1>2, <2>3 DEF GetOpen, Opens, RowsInv, ReadersInv, Exists
    <3> QED
      BY <1>1, <1>2, <2>3, <3>1 DEF GetOpen, ReadersInv, ReaderState, Row
  <2>4. CASE EndGet(r)
    BY <1>1, <1>2, <2>4, IdleTyped DEF EndGet, ReadersInv, IdleReader
  <2> QED
    BY <2>1, <2>2, <2>3, <2>4 DEF ReaderNext, GetFails, Forget
<1> QED
  BY <1>1, <1>3, TypeFolds DEF IInv, TypeOK, ReaderState, RowsInv, UsersInv, Exists

LEMMA OtherStep ==
  ASSUME IInv, SetLock \/ Restart \/ UNCHANGED vars
  PROVE  IInv' /\ UNCHANGED <<rows, configured>>
<1>1. CASE SetLock \/ UNCHANGED vars
  BY <1>1 DEF SetLock, vars, IInv, TypeOK, RowsInv, UsersInv, ReadersInv, Exists
<1>2. CASE Restart
  <2>1. TypeOK'
    BY <1>2, IdleTyped, TypeFolds DEF Restart, IInv, TypeOK, UserState, ReaderState
  <2> QED
    BY <1>2, <2>1 DEF Restart, IInv, RowsInv, UsersInv, ReadersInv, Exists, IdleUser, IdleReader
<1> QED
  BY <1>1, <1>2

LEMMA IInvStep == ASSUME IInv, [Next]_vars PROVE IInv'
  BY CommitStep, UserStep, ReaderStep, OtherStep DEF Next

LEMMA IInvHolds == Spec => []IInv
<1>1. IInv /\ [Next]_vars => IInv'
  BY IInvStep
<1> QED
  BY <1>1, IInvInit, PTL DEF Spec

\* The rows, the approvals and the goroutines are well typed.
THEOREM ActionsTypeCorrect == Spec => []TypeOK
<1>1. IInv => TypeOK
  BY DEF IInv
<1> QED
  BY <1>1, IInvHolds, PTL

\* However configurations race, the ciphertext of every row opens with the
\* revision beside it: no action becomes unreadable (store.go:603-666).
THEOREM ActionsStayReadable == Spec => []ActionsOpen
<1>1. IInv => ActionsOpen
  BY DEF IInv, RowsInv, ActionsOpen, Opens
<1> QED
  BY <1>1, IInvHolds, PTL

\* A lookup returns what was approved at some moment since it began, though it
\* reads the revision and the ciphertext apart (store.go:668-685).
THEOREM LookupsAreApproved == ASSUME NoConfig \notin Configs PROVE Spec => []GetsApproved
<1>1. IInv => GetsApproved
  BY DEF IInv, ReadersInv, GetsApproved
<1> QED
  BY <1>1, IInvHolds, PTL

\* What a step does to the configurations and the births of the actions: the
\* first, and every, approval leaves the births alone.
LEMMA RegisterStep ==
  ASSUME IInv, IInv', [Next]_vars
  PROVE  \/ UNCHANGED <<rows, configured>>
         \/ \E a \in Actions, c \in Configs :
              /\ [x \in Actions |-> rows'[x].config]
                    = [[x \in Actions |-> rows[x].config] EXCEPT ![a] = c]
              /\ configured' = [configured EXCEPT ![a] = configured[a] + 1]
              /\ [x \in Actions |-> rows'[x].created] = [x \in Actions |-> rows[x].created]
<1>1. ASSUME NEW u \in Users, CommitPut(u)
      PROVE  \E a \in Actions, c \in Configs :
               /\ [x \in Actions |-> rows'[x].config]
                     = [[x \in Actions |-> rows[x].config] EXCEPT ![a] = c]
               /\ configured' = [configured EXCEPT ![a] = configured[a] + 1]
               /\ [x \in Actions |-> rows'[x].created] = [x \in Actions |-> rows[x].created]
  <2> DEFINE a == user[u].action
             c == user[u].config
  <2>1. a \in Actions /\ c \in Configs
    BY <1>1 DEF IInv, UsersInv, CommitPut
  <2>2. /\ rows' = [rows EXCEPT ![a] = PutRow(user[u])]
        /\ configured' = [configured EXCEPT ![a] = configured[a] + 1]
    BY <1>1 DEF CommitPut
  <2>3. PutRow(user[u]).config = c
    BY DEF PutRow
  <2>4. [x \in Actions |-> rows'[x].config]
            = [[x \in Actions |-> rows[x].config] EXCEPT ![a] = c]
    BY <2>1, <2>2, <2>3, TypeFolds DEF IInv
  <2>5. [x \in Actions |-> rows'[x].created] = [x \in Actions |-> rows[x].created]
    BY DEF IInv, RowsInv
  <2> QED
    BY <2>1, <2>2, <2>4, <2>5
<1> QED
  BY <1>1, UserStep, ReaderStep, OtherStep DEF Next

\* Configurations take effect one at a time, the last one stands, and none
\* changes when its action was created (store.go:603-666).
THEOREM ActionsImplementRegister == Spec => ImplementsRegister
<1>1. Init => Register!Init
  BY DEF Init, Register!Init, NoRow
<1>2. IInv /\ IInv' /\ [Next]_vars => [Register!Next]_(Register!vars)
  BY RegisterStep DEF Register!vars, Register!Next, Register!Approve
<1> QED
  BY <1>1, <1>2, IInvHolds, PTL DEF Spec, ImplementsRegister, Register!Spec
=============================================================================
