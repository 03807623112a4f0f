-------------------------- MODULE AuditChainProofs --------------------------
(***************************************************************************)
(* When the audit log can be listed, and what a listing shows, for any     *)
(* clock, any number of events and every order the database may return     *)
(* them in.                                                                *)
(***************************************************************************)
EXTENDS AuditChain, WellFoundedInduction, TLAPS

RowsTyped == rows \in Seq(AuditRow)

\* An event is chained to one that was there before it, or to none.
PrevBefore == \A i \in 1..Len(rows) : rows[i].prev \in 0..(i - 1)

(***************************************************************************)
(* The inductive invariant: an event whose predecessors had increasing     *)
(* texts is chained to the one just before it.                             *)
(***************************************************************************)
ChainedInOrder == \A i \in 1..Len(rows) : Increasing(i - 1) => rows[i].prev = i - 1

IInv == RowsTyped /\ PrevBefore /\ ChainedInOrder

-----------------------------------------------------------------------------
(***************************************************************************)
(* Ranks are numbers, and a set of numbers has a least one.                *)
(***************************************************************************)

LEMMA TextRankNat == \A t \in Nat : TextRank(t) \in Nat
<1> SUFFICES ASSUME NEW t \in Nat PROVE TextRank(t) \in Nat
  OBVIOUS
<1>1. Base * Base \in Nat \ {0}
  BY BaseAssumption
<1>2. /\ t \div (Base * Base) \in Nat
      /\ (t \div Base) % Base \in Nat
      /\ t % Base \in Nat
  BY <1>1, BaseAssumption
<1>3. \A d1, d2 \in Nat : FractionRank(d1, d2) \in Nat
  BY BaseAssumption DEF FractionRank
<1> DEFINE second == (t \div (Base * Base)) * (Base + 1) * (Base + 1)
           fraction == FractionRank((t \div Base) % Base, t % Base)
<1>4. second \in Nat /\ fraction \in Nat
  <2>1. \A s \in Nat : s * (Base + 1) * (Base + 1) \in Nat
    BY BaseAssumption
  <2>2. second \in Nat
    BY <1>2, <2>1
  <2> QED
    BY <1>2, <1>3, <2>2
<1>5. TextRank(t) = second + fraction
  BY DEF TextRank
<1> HIDE DEF second, fraction
<1> QED
  BY <1>4, <1>5

LEMMA RanksNat == ASSUME RowsTyped, NEW i \in 1..Len(rows) PROVE Rank(i) \in Nat
<1>1. rows[i] \in AuditRow
  BY DEF RowsTyped
<1>2. rows[i].time \in Nat
  BY <1>1 DEF AuditRow
<1> QED
  BY <1>2, TextRankNat DEF Rank

LEMMA LeastOf ==
  ASSUME NEW S \in SUBSET Nat, S # {} PROVE \E i \in S : \A k \in S : i <= k
<1>1. S \subseteq Nat
  OBVIOUS
<1>2. PICK i \in S : \A k \in S : <<k, i>> \notin OpToRel(<, Nat)
  BY <1>1, WFMin, NatLessThanWellFounded
<1>3. \A k \in S : ~(k < i)
  BY <1>1, <1>2 DEF OpToRel
<1> QED
  BY <1>1, <1>3

-----------------------------------------------------------------------------
(***************************************************************************)
(* Which orders verify.                                                    *)
(***************************************************************************)

\* An order that verifies is the order of insertion: at the first place that
\* differs stands a later row, and the row missing there would have to follow
\* one of those before that place, which all have their successors already.
LEMMA VerifiedOrder ==
  ASSUME RowsTyped, PrevBefore, NEW q \in Orders, Verifies(q)
  PROVE  \A k \in 1..Len(rows) : q[k] = k
<1> DEFINE L == Len(rows)
           Wrong == {k \in 1..L : q[k] # k}
<1>1. L \in Nat
  BY DEF RowsTyped
<1>2. ASSUME Wrong # {} PROVE FALSE
  <2>1. Wrong \in SUBSET Nat
    BY <1>1
  <2>2. PICK i \in Wrong : \A k \in Wrong : i <= k
    BY <1>2, <2>1, LeastOf
  <2>3. i \in 1..L /\ q[i] # i /\ q[i] \in 1..L
    BY <2>2 DEF Orders
  <2>4. \A k \in 1..L : k < i => q[k] = k
    BY <1>1, <2>2, <2>3
  <2>5. \A k, m \in 1..L : k < m => q[k] # q[m]
    BY DEF Orders
  <2>6. PICK m \in 1..L : q[m] = i
    BY <2>3 DEF Orders
  <2>7. i < m
    BY <1>1, <2>3, <2>4, <2>6
  <2>8. rows[i].prev = q[m - 1] /\ q[m - 1] \in 1..L /\ m - 1 \in 1..L
    <3>1. m # 1 /\ m - 1 \in 1..L
      BY <1>1, <2>3, <2>6, <2>7
    <3>2. rows[q[m]].prev = q[m - 1]
      BY <2>6, <3>1 DEF Verifies
    <3>3. q[m - 1] \in 1..L
      BY <3>1 DEF Orders
    <3> QED
      BY <2>6, <3>1, <3>2, <3>3
  <2>9. q[m - 1] < i
    BY <1>1, <2>3, <2>8 DEF PrevBefore
  <2> DEFINE j == q[m - 1]
  <2>10. j \in 1..L /\ q[j] = j /\ j < m - 1
    BY <1>1, <2>3, <2>4, <2>7, <2>8, <2>9
  <2> QED
    BY <2>5, <2>8, <2>10
<1> QED
  BY <1>2

\* Rows whose texts increase strictly are returned in the order of insertion:
\* the first place that differs would hold a later row before an earlier one.
LEMMA IncreasingOrder ==
  ASSUME RowsTyped, Increasing(Len(rows)), NEW q \in Orders
  PROVE  \A k \in 1..Len(rows) : q[k] = k
<1> DEFINE L == Len(rows)
           Wrong == {k \in 1..L : q[k] # k}
<1>1. L \in Nat
  BY DEF RowsTyped
<1>2. ASSUME Wrong # {} PROVE FALSE
  <2>1. Wrong \in SUBSET Nat
    BY <1>1
  <2>2. PICK i \in Wrong : \A k \in Wrong : i <= k
    BY <1>2, <2>1, LeastOf
  <2>3. i \in 1..L /\ q[i] # i /\ q[i] \in 1..L
    BY <2>2 DEF Orders
  <2>4. \A k \in 1..L : k < i => q[k] = k
    BY <1>1, <2>2, <2>3
  <2>5. \A k, m \in 1..L : k < m => q[k] # q[m] /\ Rank(q[k]) <= Rank(q[m])
    BY DEF Orders
  <2>6. i < q[i]
    <3>1. ~(q[i] < i)
      BY <1>1, <2>3, <2>4, <2>5
    <3> QED
      BY <1>1, <2>3, <3>1
  <2>7. PICK m \in 1..L : q[m] = i
    BY <2>3 DEF Orders
  <2>8. i < m
    BY <1>1, <2>3, <2>4, <2>7
  <2>9. Rank(q[i]) <= Rank(i)
    BY <2>3, <2>5, <2>7, <2>8
  <2>10. Rank(i) < Rank(q[i])
    BY <1>1, <2>3, <2>6 DEF Increasing
  <2> QED
    BY <2>3, <2>9, <2>10, RanksNat
<1> QED
  BY <1>2

-----------------------------------------------------------------------------
(***************************************************************************)
(* What an append does.                                                    *)
(***************************************************************************)

\* The row an append adds, and the rows it leaves alone.
LEMMA Appended ==
  ASSUME RowsTyped, NEW t \in Instants, AppendAudit(t)
  PROVE  \E p \in 0..Len(rows) :
           /\ rows' = Append(rows, [time |-> t, prev |-> p])
           /\ rows' \in Seq(AuditRow)
           /\ Len(rows') = Len(rows) + 1
           /\ \A i \in 1..Len(rows) : rows'[i] = rows[i]
           /\ rows'[Len(rows) + 1] = [time |-> t, prev |-> p]
           /\ rows = <<>> => p = 0
           /\ rows # <<>> => p \in LastTexts
<1>1. PICK p \in IF rows = <<>> THEN {0} ELSE LastTexts :
        rows' = Append(rows, [time |-> t, prev |-> p])
  BY DEF AppendAudit
<1>2. Len(rows) \in Nat /\ t \in Nat
  BY InstantsAssumption DEF RowsTyped
<1>3. p \in 0..Len(rows)
  BY <1>1, <1>2 DEF LastTexts
<1>4. [time |-> t, prev |-> p] \in AuditRow
  BY <1>2, <1>3 DEF AuditRow
<1> QED
  BY <1>1, <1>2, <1>3, <1>4 DEF RowsTyped

\* An append leaves the ranks of the rows before it alone, and with them what
\* Increasing says of a part of the log.
LEMMA RanksKept ==
  ASSUME RowsTyped, NEW t \in Instants, AppendAudit(t), NEW n \in 0..Len(rows)
  PROVE  Increasing(n)' <=> Increasing(n)
<1>1. \A i \in 1..Len(rows) : TextRank(rows'[i].time) = Rank(i)
  BY Appended DEF Rank
<1>2. Len(rows) \in Nat
  BY DEF RowsTyped
<1>3. \A k \in 1..n : k \in 1..Len(rows) /\ \A j \in 1..(k - 1) : j \in 1..Len(rows)
  BY <1>2
<1> QED
  BY <1>1, <1>3 DEF Increasing, Rank

LEMMA IInvInit == Init => IInv
  BY DEF Init, IInv, RowsTyped, PrevBefore, ChainedInOrder

LEMMA IInvStep == IInv /\ [Next]_vars => IInv'
<1> SUFFICES ASSUME IInv, [Next]_vars PROVE IInv'
  OBVIOUS
<1>1. CASE UNCHANGED rows
  BY <1>1 DEF IInv, RowsTyped, PrevBefore, ChainedInOrder, Increasing, Rank
<1>2. ASSUME NEW t \in Instants, AppendAudit(t) PROVE IInv'
  <2> DEFINE L == Len(rows)
  <2>1. RowsTyped /\ L \in Nat
    BY DEF IInv, RowsTyped
  <2>2. PICK p \in 0..L :
          /\ rows' \in Seq(AuditRow)
          /\ Len(rows') = L + 1
          /\ \A i \in 1..L : rows'[i] = rows[i]
          /\ rows'[L + 1] = [time |-> t, prev |-> p]
          /\ rows = <<>> => p = 0
          /\ rows # <<>> => p \in LastTexts
    BY <1>2, <2>1, Appended
  <2>3. PrevBefore'
    BY <2>1, <2>2 DEF IInv, PrevBefore
  <2>4. Increasing(L) => p = L
    <3>1. CASE rows = <<>>
      BY <2>2, <3>1
    <3>2. ASSUME rows # <<>>, Increasing(L) PROVE p = L
      <4>1. L \in 1..L /\ p \in 1..L /\ \A j \in 1..L : Rank(j) <= Rank(p)
        BY <2>1, <2>2, <3>2 DEF LastTexts, RowsTyped
      <4>2. Rank(p) \in Nat /\ Rank(L) \in Nat /\ Rank(L) <= Rank(p)
        BY <2>1, <4>1, RanksNat
      <4>3. p < L => Rank(p) < Rank(L)
        BY <2>1, <3>2, <4>1 DEF Increasing
      <4> QED
        BY <2>1, <4>1, <4>2, <4>3
    <3> QED
      BY <3>1, <3>2
  <2>5. ChainedInOrder'
    <3> SUFFICES ASSUME NEW i \in 1..(L + 1), Increasing(i - 1)'
                 PROVE  rows'[i].prev = i - 1
      BY <2>2 DEF ChainedInOrder
    <3>1. i - 1 \in 0..L
      BY <2>1
    <3>2. Increasing(i - 1)
      BY <1>2, <2>1, <3>1, RanksKept
    <3>3. CASE i = L + 1
      BY <2>1, <2>2, <2>4, <3>2, <3>3
    <3>4. CASE i # L + 1
      BY <2>1, <2>2, <3>2, <3>4 DEF IInv, ChainedInOrder
    <3> QED
      BY <3>3, <3>4
  <2> QED
    BY <2>2, <2>3, <2>5 DEF IInv, RowsTyped
<1> QED
  BY <1>1, <1>2 DEF Next, ListAudit, vars

-----------------------------------------------------------------------------
(***************************************************************************)
(* The chain check.                                                        *)
(***************************************************************************)

LEMMA IncreasingVerifies == IInv => OrderedChainVerifies
<1> SUFFICES ASSUME IInv, Increasing(Len(rows)), NEW q \in Orders, NEW k \in 1..Len(rows)
             PROVE  rows[q[k]].prev = IF k = 1 THEN 0 ELSE q[k - 1]
  BY DEF OrderedChainVerifies, ChainVerifies, Verifies
<1>1. RowsTyped /\ Len(rows) \in Nat
  BY DEF IInv, RowsTyped
<1>2. Increasing(k - 1)
  BY <1>1 DEF Increasing
<1>3. rows[q[k]].prev = k - 1
  BY <1>1, <1>2, IncreasingOrder DEF IInv, ChainedInOrder
<1>4. k # 1 => q[k - 1] = k - 1
  BY <1>1, IncreasingOrder
<1> QED
  BY <1>1, <1>3, <1>4

\* Whatever the clock does, a log whose events were appended in the strict
\* order of their timestamps' texts passes the check of ListAudit.
THEOREM OrderedChainAlwaysVerifies == Spec => []OrderedChainVerifies
  BY IInvInit, IInvStep, IncreasingVerifies, PTL DEF Spec

-----------------------------------------------------------------------------
(***************************************************************************)
(* Listings.                                                               *)
(***************************************************************************)

\* The order of insertion is the only one that can verify, and a straight log
\* is one where it may be returned and does.
LEMMA ListableIsStraight == IInv => (Listable <=> Straight)
<1> SUFFICES ASSUME IInv PROVE Listable <=> Straight
  OBVIOUS
<1>1. RowsTyped /\ PrevBefore /\ Len(rows) \in Nat
  BY DEF IInv, RowsTyped
<1>2. ASSUME NEW q \in Orders, Verifies(q) PROVE Straight
  <2>1. \A k \in 1..Len(rows) : q[k] = k
    BY <1>1, <1>2, VerifiedOrder
  <2>2. ASSUME NEW i \in 1..Len(rows) PROVE rows[i].prev = i - 1
    <3>1. i # 1 => i - 1 \in 1..Len(rows)
      BY <1>1
    <3> QED
      BY <1>1, <1>2, <2>1, <3>1 DEF Verifies
  <2>3. ASSUME NEW k \in 1..Len(rows), NEW j \in 1..(k - 1) PROVE Rank(j) <= Rank(k)
    <3>1. j \in 1..Len(rows) /\ j < k
      BY <1>1
    <3> QED
      BY <2>1, <3>1 DEF Orders
  <2> QED
    BY <2>2, <2>3 DEF Straight
<1>3. ASSUME Straight PROVE Listable
  <2> DEFINE q == [k \in 1..Len(rows) |-> k]
  <2>1. q \in Orders
    <3>1. q \in [1..Len(rows) -> 1..Len(rows)]
      OBVIOUS
    <3>2. \A i \in 1..Len(rows) : \E k \in 1..Len(rows) : q[k] = i
      OBVIOUS
    <3>3. ASSUME NEW k \in 1..Len(rows), NEW m \in 1..Len(rows), k < m
          PROVE  q[k] # q[m] /\ Rank(q[k]) <= Rank(q[m])
      <4>1. k \in 1..(m - 1)
        BY <1>1, <3>3
      <4> QED
        BY <1>1, <1>3, <3>3, <4>1 DEF Straight
    <3> QED
      BY <3>1, <3>2, <3>3 DEF Orders
  <2>2. Verifies(q)
    BY <1>1, <1>3 DEF Verifies, Straight
  <2> QED
    BY <2>1, <2>2 DEF Listable
<1> QED
  BY <1>2, <1>3 DEF Listable

\* Whatever the clock does, the log can be listed, in some order of equal texts,
\* exactly when every event is chained to the one inserted just before it and no
\* text comes before that of an earlier event (store.go:725-770, 836-858): one
\* text that sorts before an earlier one, from a clock set back or a trimmed
\* fraction, and every listing fails.
THEOREM ListableWhenStraight == Spec => []ListableExactly
<1>1. IInv => ListableExactly
  BY ListableIsStraight DEF ListableExactly
<1> QED
  BY <1>1, IInvInit, IInvStep, PTL DEF Spec

LEMMA StraightBefore ==
  ASSUME IInv, NEW t \in Instants, AppendAudit(t), Straight' PROVE Straight
<1>1. RowsTyped
  BY DEF IInv
<1>2. PICK n \in Nat : n = Len(rows)
  BY <1>1 DEF RowsTyped
<1>3. Len(rows') = n + 1 /\ \A i \in 1..n : rows'[i] = rows[i]
  BY <1>1, <1>2, Appended
<1>4. \A i \in 1..n : i \in 1..(n + 1) /\ \A j \in 1..(i - 1) : j \in 1..n
  BY <1>2
<1> QED
  BY <1>2, <1>3, <1>4 DEF Straight, Rank

\* Once the check of ListAudit fails for every order of the rows, it fails for
\* good: no event appended later repairs the chain.
THEOREM DamageNeverHeals == Spec => DamageIsForGood
<1>1. IInv /\ IInv' /\ [Next]_vars => [DamageStays]_vars
  <2> SUFFICES ASSUME IInv, IInv', [Next]_vars, ~Listable, Listable' PROVE FALSE
    BY DEF DamageStays
  <2>1. ~Straight
    BY ListableIsStraight
  <2>2. IInv' => (Listable' <=> Straight')
    BY ListableIsStraight, PTL
  <2>3. ASSUME NEW t \in Instants, AppendAudit(t) PROVE FALSE
    BY <2>1, <2>2, <2>3, StraightBefore
  <2>4. CASE UNCHANGED rows
    BY <2>1, <2>2, <2>4 DEF Straight, Rank
  <2> QED
    BY <2>3, <2>4 DEF Next, ListAudit, vars
<1> QED
  BY <1>1, IInvInit, IInvStep, PTL DEF Spec, DamageIsForGood

\* A reply is well typed.
ReplyTyped == reply \in Reply /\ Len(reply.events) <= LargestLimit

LEMMA ListStep ==
  ASSUME IInv, NEW limit \in Limits, ListAudit(limit)
  PROVE  ReplyTyped' /\ ListsNewestFirst'
<1> DEFINE wanted == EffectiveLimit(limit)
           shown == Shown(wanted)
<1>1. RowsTyped /\ PrevBefore /\ Len(rows) \in Nat
  BY DEF IInv, RowsTyped
<1>2. wanted \in 1..LargestLimit /\ wanted = Wanted(limit) /\ limit \in Int
  BY LimitsAssumption DEF EffectiveLimit, Wanted
<1>3. PICK q \in Orders :
        reply' = [ok |-> Verifies(q), total |-> Len(rows), asked |-> limit,
                  events |-> IF Verifies(q) THEN NewestOf(q, wanted) ELSE <<>>]
  BY DEF ListAudit
<1> HIDE DEF wanted
<1>4. shown \in Nat /\ shown <= Len(rows) /\ shown <= LargestLimit
  BY <1>1, <1>2, LimitsAssumption DEF Shown
<1>5. \A k \in 1..shown : Len(rows) + 1 - k \in 1..Len(rows)
  BY <1>1, <1>4
<1>6. NewestOf(q, wanted) \in Seq(Nat) /\ Len(NewestOf(q, wanted)) = shown
  <2> HIDE DEF shown
  <2>1. \A k \in 1..shown : q[Len(rows) + 1 - k] \in Nat
    <3>1. \A i \in 1..Len(rows) : q[i] \in Nat
      BY <1>1 DEF Orders
    <3> QED
      BY <1>5, <3>1
  <2> USE DEF shown
  <2>2. NewestOf(q, wanted) \in [1..shown -> Nat]
    BY <2>1 DEF NewestOf
  <2> QED
    BY <1>4, <2>2
<1>7. Verifies(q) \in BOOLEAN
  BY DEF Verifies
<1>8. ReplyTyped'
  <2>1. CASE Verifies(q)
    BY <1>1, <1>2, <1>3, <1>4, <1>6, <1>7, <2>1 DEF ReplyTyped, Reply
  <2>2. CASE ~Verifies(q)
    BY <1>1, <1>2, <1>3, <1>7, <2>2, LimitsAssumption DEF ReplyTyped, Reply
  <2> QED
    BY <2>1, <2>2
<1>9. ListsNewestFirst'
  <2> SUFFICES ASSUME reply'.ok
               PROVE  LET w == Wanted(reply'.asked)
                          n == IF reply'.total < w THEN reply'.total ELSE w
                      IN  reply'.events = [k \in 1..n |-> reply'.total + 1 - k]
    BY DEF ListsNewestFirst
  <2>1. Verifies(q)
    BY <1>3
  <2>2. \A k \in 1..Len(rows) : q[k] = k
    BY <1>1, <2>1, VerifiedOrder
  <2>3. reply'.events = [k \in 1..shown |-> q[Len(rows) + 1 - k]]
    BY <1>3, <2>1 DEF NewestOf
  <2>4. \A k \in 1..shown : q[Len(rows) + 1 - k] = Len(rows) + 1 - k
    BY <1>5, <2>2
  <2>5. reply'.total = Len(rows) /\ Wanted(reply'.asked) = wanted
    BY <1>2, <1>3
  <2>6. shown = IF reply'.total < wanted THEN reply'.total ELSE wanted
    BY <2>5 DEF Shown
  <2> HIDE DEF shown
  <2> QED
    BY <2>3, <2>4, <2>5, <2>6
<1> QED
  BY <1>8, <1>9

LEMMA ReplyStep ==
  IInv /\ ReplyTyped /\ ListsNewestFirst /\ [Next]_vars => ReplyTyped' /\ ListsNewestFirst'
<1> SUFFICES ASSUME IInv, ReplyTyped, ListsNewestFirst, [Next]_vars
             PROVE  ReplyTyped' /\ ListsNewestFirst'
  OBVIOUS
<1>1. CASE UNCHANGED reply
  BY <1>1 DEF ReplyTyped, ListsNewestFirst
<1>2. CASE \E limit \in Limits : ListAudit(limit)
  BY <1>2, ListStep
<1> QED
  BY <1>1, <1>2 DEF Next, AppendAudit, vars

LEMMA ReplyInit == Init => ReplyTyped /\ ListsNewestFirst
  BY LimitsAssumption DEF Init, NoReply, Reply, ReplyTyped, ListsNewestFirst

\* The log and every listing are well formed: no listing is longer than the
\* largest limit, whatever limit a caller asked for (store.go:725-770).
THEOREM AuditTypeCorrect == Spec => []TypeOK
<1>1. IInv /\ ReplyTyped => TypeOK
  BY DEF IInv, RowsTyped, ReplyTyped, TypeOK
<1> QED
  BY <1>1, IInvInit, IInvStep, ReplyInit, ReplyStep, PTL DEF Spec

\* Whatever the clock does, a listing that succeeds shows the newest events,
\* newest first: as many as were asked for from 1 to the largest limit, else the
\* default number (store.go:725-770).
THEOREM ListingsAreNewestFirst == Spec => []ListsNewestFirst
  BY IInvInit, IInvStep, ReplyInit, ReplyStep, PTL DEF Spec
=============================================================================
