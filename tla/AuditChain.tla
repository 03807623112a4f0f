----------------------------- MODULE AuditChain -----------------------------
(***************************************************************************)
(* The HMAC-chained audit log of a vault (appendAudit, RecordAudit and     *)
(* ListAudit in internal/vault/store.go).                                  *)
(*                                                                         *)
(* Every event is inserted by a transaction on the one connection of the   *)
(* store, so appends do not overlap and each reads the clock inside its    *)
(* own transaction.  A listing is one query that holds that connection     *)
(* while it reads, so it sees the table at one moment.                     *)
(*                                                                         *)
(* What decides which event comes before which is the column created_at,   *)
(* a text: the time in Go's RFC3339Nano format, which drops the trailing   *)
(* zeros of the fraction and ends in Z.  An instant is a number of ticks;  *)
(* a second has Base^2 of them, so its fraction has two digits of base     *)
(* Base, which stand for the nine decimal digits of the format.            *)
(*                                                                         *)
(* The HMAC of a row is identified with the row: two rows have different   *)
(* ones, and every row was written by this code, so the second check of    *)
(* ListAudit, of the row's own HMAC, succeeds.                             *)
(***************************************************************************)
EXTENDS Integers, Sequences

CONSTANTS
    Instants,       \* the instants an append may read from the clock
    Base,           \* digits of a fraction
    Clock,          \* how the clock may move between two appends
    Limits,         \* limits callers ask for
    DefaultLimit,   \* the limit used in place of one out of range (100)
    LargestLimit,   \* the largest limit in range (1000)
    MaxEvents       \* bound of the model: events appended

ASSUME InstantsAssumption == Instants \subseteq Nat
ASSUME BaseAssumption == Base \in Nat \ {0}
ASSUME ClockAssumption == Clock \subseteq {"forward", "still", "back"}
ASSUME LimitsAssumption ==
    /\ Limits \subseteq Int
    /\ LargestLimit \in Nat \ {0}
    /\ DefaultLimit \in 1..LargestLimit
ASSUME MaxEventsAssumption == MaxEvents \in Nat

VARIABLES
    rows,           \* audit_events in the order of insertion
    reply           \* what the last listing returned

vars == <<rows, reply>>

\* time is the instant created_at shows, prev the row whose HMAC is in
\* previous_hmac, 0 for NULL.
AuditRow == [time : Nat, prev : Nat]

\* asked is the limit the caller gave.
Reply == [ok : BOOLEAN, total : Nat, asked : Int, events : Seq(Nat)]
NoReply == [ok |-> FALSE, total |-> 0, asked |-> 0, events |-> <<>>]

\* Rows and replies are well formed, and no reply is longer than the largest
\* limit, whatever limit was asked for.
TypeOK ==
    /\ rows \in Seq(AuditRow)
    /\ reply \in Reply
    /\ Len(reply.events) <= LargestLimit

Init == rows = <<>> /\ reply = NoReply

-----------------------------------------------------------------------------
(***************************************************************************)
(* The text of an instant and its order.                                   *)
(***************************************************************************)

\* The place of a fraction of digits d1, d2 among the texts of one second.
\* "Z" follows the last digit that is not 0 and sorts after every digit and
\* after the point, so ".3Z" comes after ".39Z" and "Z" after all others.
FractionRank(d1, d2) ==
    IF d2 # 0 THEN d1 * (Base + 1) + d2
    ELSE IF d1 # 0 THEN d1 * (Base + 1) + Base
    ELSE Base * (Base + 1) + Base

\* The place of the text of t among all texts.
TextRank(t) ==
    (t \div (Base * Base)) * (Base + 1) * (Base + 1)
        + FractionRank((t \div Base) % Base, t % Base)

Rank(i) == TextRank(rows[i].time)

-----------------------------------------------------------------------------
(***************************************************************************)
(* Append.                                                                 *)
(***************************************************************************)

\* How the clock went from instant s to instant t.
Moved(s, t) == IF s < t THEN "forward" ELSE IF s = t THEN "still" ELSE "back"

\* ORDER BY created_at DESC LIMIT 1: any of the rows whose text is last.  The
\* seeded fault forgets DESC.
FirstTexts == {i \in 1..Len(rows) : \A j \in 1..Len(rows) : Rank(i) <= Rank(j)}
LastTexts == {i \in 1..Len(rows) : \A j \in 1..Len(rows) : Rank(j) <= Rank(i)}

AppendAudit(t) ==
    /\ Len(rows) < MaxEvents
    /\ rows # <<>> => Moved(rows[Len(rows)].time, t) \in Clock
    /\ \E prev \in IF rows = <<>> THEN {0} ELSE LastTexts :
           rows' = Append(rows, [time |-> t, prev |-> prev])
    /\ UNCHANGED reply

-----------------------------------------------------------------------------
(***************************************************************************)
(* ListAudit.                                                              *)
(***************************************************************************)

\* The orders in which ORDER BY created_at ASC may return the rows: rows with
\* the same text come in any order.
Orders ==
    {q \in [1..Len(rows) -> 1..Len(rows)] :
        /\ \A i \in 1..Len(rows) : \E k \in 1..Len(rows) : q[k] = i
        /\ \A k, m \in 1..Len(rows) : k < m => q[k] # q[m] /\ Rank(q[k]) <= Rank(q[m])}

\* The check of every row against the one before it.  The seeded fault checks
\* only the last rows, those a caller asked for.
LastRowsVerify(q) ==
    \A k \in {i \in 2..Len(rows) : i >= Len(rows)} : rows[q[k]].prev = q[k - 1]
Verifies(q) ==
    \A k \in 1..Len(rows) : rows[q[k]].prev = IF k = 1 THEN 0 ELSE q[k - 1]

\* The limit that is applied: the caller's, or the default in place of one
\* that is not positive or too large.  The seeded faults forget the upper end of
\* the range, and take the largest limit for one out of range.
UncappedLimit(limit) == IF limit <= 0 THEN DefaultLimit ELSE limit
LimitBelowLargest(limit) ==
    IF limit <= 0 \/ limit >= LargestLimit THEN DefaultLimit ELSE limit
EffectiveLimit(limit) ==
    IF limit <= 0 \/ limit > LargestLimit THEN DefaultLimit ELSE limit

Shown(limit) == IF Len(rows) < limit THEN Len(rows) ELSE limit

\* The last events of the order, newest first.
NewestOf(q, limit) == [k \in 1..Shown(limit) |-> q[Len(rows) + 1 - k]]

ListAudit(limit) ==
    /\ \E q \in Orders :
         reply' = [ok |-> Verifies(q), total |-> Len(rows), asked |-> limit,
                   events |-> IF Verifies(q) THEN NewestOf(q, EffectiveLimit(limit)) ELSE <<>>]
    /\ UNCHANGED rows

Next ==
    \/ \E t \in Instants : AppendAudit(t)
    \/ \E limit \in Limits : ListAudit(limit)

Spec == Init /\ [][Next]_vars

-----------------------------------------------------------------------------
(***************************************************************************)
(* Properties.                                                             *)
(***************************************************************************)

\* An untampered log passes the chain check, in whatever order the database
\* returns rows of the same text ("valid audit chain failed" is the failure
\* of store_test.go:99).
ChainVerifies == \A q \in Orders : Verifies(q)

\* The rows were appended in the strict order of their texts.
Increasing(n) == \A k \in 1..n : \A j \in 1..(k - 1) : Rank(j) < Rank(k)

\* Whatever the clock did, as long as every event got a later text than all
\* before it the log passes the check: appendAudit then chains each event to
\* the one before it and ListAudit returns them in that order.
OrderedChainVerifies == Increasing(Len(rows)) => ChainVerifies

\* Whatever the clock does, a listing that succeeds shows the newest events,
\* newest first: as many as were asked for when that is a number from 1 to the
\* largest limit, else as many as the default, or all when there are fewer.
Wanted(asked) == IF asked \in 1..LargestLimit THEN asked ELSE DefaultLimit
ListsNewestFirst ==
    reply.ok =>
        LET wanted == Wanted(reply.asked)
            shown == IF reply.total < wanted THEN reply.total ELSE wanted
        IN  reply.events = [k \in 1..shown |-> reply.total + 1 - k]

\* The log can be listed, if the database orders equal texts luckily.
Listable == \E q \in Orders : Verifies(q)

\* Every event is chained to the one inserted just before it, and its text is
\* not before that of an earlier one.
Straight ==
    /\ \A i \in 1..Len(rows) : rows[i].prev = i - 1
    /\ \A i \in 1..Len(rows) : \A j \in 1..(i - 1) : Rank(j) <= Rank(i)

\* Whatever the clock does, the check of ListAudit passes, in some order of equal
\* texts, exactly when the log is straight: one text out of order, or one event
\* chained past a row with the same text, and no listing succeeds.
ListableExactly == Listable <=> Straight

\* A log that can no longer be listed never can be again: no later append
\* repairs the chain, so one bad clock reading loses the listing for good.
DamageStays == ~Listable => ~Listable'
DamageIsForGood == [][DamageStays]_vars
=============================================================================
