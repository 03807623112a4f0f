--------------------------- MODULE RedactionProofs ---------------------------
(***************************************************************************)
(* What Redact and Writer promise, for texts, pieces and values of any     *)
(* length and number.                                                      *)
(*                                                                         *)
(* Replaced is recursive and Redact a fold, so much of this is induction.  *)
(* It is done with sets: SetInduction, from the well-foundedness of the    *)
(* order of the numbers, says that a set with 0, and with the next number  *)
(* of each of its numbers, has them all; the set is then the numbers for   *)
(* which the claim holds.                                                  *)
(*                                                                         *)
(* The argument.  ReplacedKeeps: what is in a text after a value was       *)
(* replaced was there before.  Hence RedactCleans, and StraddlesBefore:    *)
(* a value that stands across two results stood across the two texts.      *)
(* Hence RedactSplits.  Boundary: after a write no value stands, or can    *)
(* come to stand, across the place the writer has reached, when the values *)
(* are apart.  With both, SplitInv is inductive.                           *)
(***************************************************************************)
EXTENDS Redaction, SequenceTheorems, WellFoundedInduction, TLAPS

-----------------------------------------------------------------------------
(***************************************************************************)
(* Texts.                                                                  *)
(***************************************************************************)

\* What Redact works on: a text may already have markers.
Texts == Seq(Symbols \cup {Marker})

\* value stands in text from at on.
OccursAt(text, value, at) ==
    /\ at + Len(value) <= Len(text) + 1
    /\ \A j \in 1..Len(value) : text[at + j - 1] = value[j]

\* Induction: a set that has 0, and with every number the next one, has them all.
LEMMA SetInduction ==
  ASSUME NEW S, 0 \in S, \A n \in Nat : n \in S => n + 1 \in S
  PROVE  \A n \in Nat : n \in S
<1> DEFINE T == Nat \ S
<1> SUFFICES ASSUME T # {} PROVE FALSE
  OBVIOUS
<1>1. PICK x \in T : \A y \in T : <<y, x>> \notin OpToRel(<, Nat)
  <2> HIDE DEF T
  <2>1. T \subseteq Nat
    BY DEF T
  <2> QED
  BY <2>1, NatLessThanWellFounded, WFMin
<1>2. x - 1 \in T
  OBVIOUS
<1>3. <<x - 1, x>> \in OpToRel(<, Nat)
  BY <1>2 DEF OpToRel
<1> QED
  BY <1>1, <1>2, <1>3

Bytes == Symbols \cup {Marker}

\* The places of a text are 1..Len, and a byte stands at each.
LEMMA TextShape ==
  ASSUME NEW text \in Texts
  PROVE  /\ Len(text) \in Nat
         /\ \A i \in 1..Len(text) : text[i] \in Bytes
         /\ DOMAIN text = 1..Len(text)
  BY LenProperties, ElementOfSeq DEF Texts, Bytes

\* The empty text.
LEMMA EmptyShape == <<>> \in Texts /\ Len(<<>>) = 0
  BY EmptySeq DEF Texts

\* One text, or one byte, before another.
Join(a, b) == a \o b
Prepend(x, b) == <<x>> \o b

\* What stands where in two texts, one after the other.
LEMMA JoinShape ==
  ASSUME NEW a \in Texts, NEW b \in Texts
  PROVE  /\ Join(a, b) \in Texts
         /\ Len(Join(a, b)) = Len(a) + Len(b)
         /\ \A i \in 1..(Len(a) + Len(b)) :
               Join(a, b)[i] = IF i <= Len(a) THEN a[i] ELSE b[i - Len(a)]
  BY ConcatProperties DEF Texts, Join

\* Nothing before a text leaves it as it is.
LEMMA JoinEmpty ==
  ASSUME NEW b \in Texts
  PROVE  Join(<<>>, b) = b
  BY ConcatEmptySeq DEF Texts, Join

\* A byte before two texts is a byte before the first.
LEMMA JoinCons ==
  ASSUME NEW x \in Bytes, NEW t \in Texts, NEW b \in Texts
  PROVE  Prepend(x, Join(t, b)) = Join(Prepend(x, t), b)
<1> DEFINE s == <<x>>
<1>1. s \in Texts
  BY DEF Texts, Bytes
<1> HIDE DEF s
<1>2. s \o (t \o b) = (s \o t) \o b
  BY <1>1, ConcatAssociative DEF Texts
<1> QED
  BY <1>2 DEF s, Prepend, Join

\* What stands where in a text with a byte before it.
LEMMA PrependShape ==
  ASSUME NEW x \in Bytes, NEW b \in Texts
  PROVE  /\ Prepend(x, b) \in Texts
         /\ Len(Prepend(x, b)) = Len(b) + 1
         /\ \A i \in 1..(Len(b) + 1) : Prepend(x, b)[i] = IF i = 1 THEN x ELSE b[i - 1]
<1> DEFINE a == <<x>>
<1>1. a \in Texts /\ Len(a) = 1 /\ a[1] = x
  <2>1. a \in Seq(Bytes) /\ Len(a) = 1 /\ a[1] = x
    OBVIOUS
  <2> QED
    BY <2>1 DEF Texts, Bytes
<1>2. Len(b) \in Nat
  BY TextShape
<1> HIDE DEF a
<1> DEFINE c == Join(a, b)
<1>3. /\ c \in Texts
      /\ Len(c) = Len(a) + Len(b)
      /\ \A i \in 1..(Len(a) + Len(b)) : c[i] = IF i <= Len(a) THEN a[i] ELSE b[i - Len(a)]
  BY <1>1, JoinShape
<1> HIDE DEF c
<1>4. /\ Len(c) = Len(b) + 1
      /\ \A i \in 1..(Len(b) + 1) : c[i] = IF i = 1 THEN x ELSE b[i - 1]
  BY <1>1, <1>2, <1>3
<1> QED
  BY <1>3, <1>4 DEF a, c, Prepend, Join

\* What stands where in a part of a text.
LEMMA CutShape ==
  ASSUME NEW text \in Texts, NEW m \in 1..(Len(text) + 1), NEW n \in (m - 1)..Len(text)
  PROVE  /\ SubSeq(text, m, n) \in Texts
         /\ Len(SubSeq(text, m, n)) = n - m + 1
         /\ \A i \in 1..(n - m + 1) : SubSeq(text, m, n)[i] = text[m + i - 1]
<1>1. Len(text) \in Nat /\ \A i \in m..n : text[i] \in Bytes
  BY TextShape
<1> QED
  BY <1>1, SubSeqProperties DEF Texts, Bytes

\* From the end of a text to its start.
LEMMA Downward ==
  ASSUME NEW n \in Nat, NEW S, n + 1 \in S,
         \A i \in 1..n : (\A j \in (i + 1)..(n + 1) : j \in S) => i \in S
  PROVE  \A i \in 1..(n + 1) : i \in S
<1> DEFINE T == {k \in Nat : k <= n => \A j \in (n + 1 - k)..(n + 1) : j \in S}
<1>1. 0 \in T
  OBVIOUS
<1>2. \A k \in Nat : k \in T => k + 1 \in T
  <2> SUFFICES ASSUME NEW k \in Nat, k \in T, k + 1 <= n
               PROVE  \A j \in (n - k)..(n + 1) : j \in S
    OBVIOUS
  <2>1. \A j \in (n + 1 - k)..(n + 1) : j \in S
    OBVIOUS
  <2>2. n - k \in S
    BY <2>1
  <2> QED
    BY <2>1, <2>2
<1>3. n \in T
  <2> HIDE DEF T
  <2> QED
    BY <1>1, <1>2, SetInduction
<1> QED
  BY <1>3

\* What Replaced computes from each place of a text on.
IsScan(f, text, value) ==
    /\ f \in [1..(Len(text) + 1) -> Texts]
    /\ f[Len(text) + 1] = <<>>
    /\ \A i \in 1..Len(text) :
          f[i] = IF OccursAt(text, value, i) THEN Prepend(Marker, f[i + Len(value)])
                 ELSE Prepend(text[i], f[i + 1])

\* The recursive definition in Replaced.
ScanBody(g, i, text, value) ==
    CASE i > Len(text) -> <<>>
      [] i + Len(value) <= Len(text) + 1 /\ SubSeq(text, i, i + Len(value) - 1) = value ->
           Prepend(Marker, g[i + Len(value)])
      [] OTHER -> Prepend(text[i], g[i + 1])

\* The definition looks only at what is computed for later places.
LEMMA ScanBodyLocal ==
  ASSUME NEW text \in Texts, NEW value \in Seq(Symbols), Len(value) >= 1,
         NEW k \in 1..Len(text), NEW g, NEW h,
         \A i \in (k + 1)..(Len(text) + 1) : g[i] = h[i]
  PROVE  \A i \in k..(Len(text) + 1) : ScanBody(g, i, text, value) = ScanBody(h, i, text, value)
<1>1. Len(text) \in Nat /\ Len(value) \in Nat
  BY TextShape
<1> TAKE i \in k..(Len(text) + 1)
<1>2. i <= Len(text) => i + 1 \in (k + 1)..(Len(text) + 1)
  BY <1>1
<1>3. i + Len(value) <= Len(text) + 1 => i + Len(value) \in (k + 1)..(Len(text) + 1)
  BY <1>1
<1> QED
  BY <1>1, <1>2, <1>3 DEF ScanBody

\* The definition in terms of OccursAt.
LEMMA ScanBodyStep ==
  ASSUME NEW text \in Texts, NEW value \in Seq(Symbols), NEW g, NEW i \in 1..Len(text)
  PROVE  ScanBody(g, i, text, value) =
             IF OccursAt(text, value, i) THEN Prepend(Marker, g[i + Len(value)])
             ELSE Prepend(text[i], g[i + 1])
<1>1. Len(text) \in Nat /\ Len(value) \in Nat
  BY TextShape
<1>2. ASSUME i + Len(value) <= Len(text) + 1
      PROVE  SubSeq(text, i, i + Len(value) - 1) = value
                 <=> \A j \in 1..Len(value) : text[i + j - 1] = value[j]
  <2> DEFINE sub == SubSeq(text, i, i + Len(value) - 1)
  <2>1. /\ sub \in Texts /\ Len(sub) = Len(value)
        /\ \A j \in 1..Len(value) : sub[j] = text[i + j - 1]
    BY <1>1, <1>2, CutShape
  <2>3. value \in Texts
    BY DEF Texts
  <2> HIDE DEF sub
  <2>4. sub = value <=> \A j \in 1..Len(value) : text[i + j - 1] = value[j]
    BY <2>1, <2>3, SeqEqual DEF Texts
  <2> QED
    BY <2>4 DEF sub
<1> QED
  BY <1>1, <1>2 DEF ScanBody, OccursAt

\* The recursive definition has a solution: the values for the last k places, for
\* every k.
LEMMA ScanDefined ==
  ASSUME NEW text \in Texts, NEW value \in Seq(Symbols), Len(value) >= 1
  PROVE  \E g : g = [i \in 1..(Len(text) + 1) |-> ScanBody(g, i, text, value)]
<1> DEFINE last == Len(text) + 1
           Partial(k) == \E g : g = [i \in (last - k)..last |-> ScanBody(g, i, text, value)]
           S == {k \in Nat : k < last => Partial(k)}
<1>1. Len(text) \in Nat /\ last \in Nat
  BY DEF Texts
<1>2. 0 \in S
  <2> DEFINE g == [i \in last..last |-> <<>>]
  <2>1. \A i \in last..last : ScanBody(g, i, text, value) = <<>>
    BY <1>1 DEF ScanBody
  <2>2. g = [i \in last..last |-> ScanBody(g, i, text, value)]
    BY <2>1
  <2> HIDE DEF g, last
  <2>3. Partial(0)
    <3>1. last - 0 = last
      BY <1>1
    <3> QED
      BY <2>2, <3>1
  <2> QED
    BY <2>3, <1>1
<1>3. ASSUME NEW k \in Nat, k \in S PROVE k + 1 \in S
  <2> SUFFICES ASSUME k + 1 < last PROVE Partial(k + 1)
    BY <1>1
  <2>1. PICK g : g = [i \in (last - k)..last |-> ScanBody(g, i, text, value)]
    BY <1>3, <1>1
  <2> DEFINE from == last - (k + 1)
             h == [i \in from..last |-> ScanBody(g, i, text, value)]
  <2>2. from \in 1..Len(text) /\ from + 1 = last - k
    BY <1>1
  <2>3. \A i \in (from + 1)..last : h[i] = g[i]
    <3> SUFFICES ASSUME NEW i \in (from + 1)..last PROVE h[i] = g[i]
      OBVIOUS
    <3>1. g[i] = ScanBody(g, i, text, value)
      BY <2>1, <2>2, <1>1
    <3>2. i \in from..last
      BY <2>2, <1>1
    <3>3. h[i] = ScanBody(g, i, text, value)
      BY <3>2
    <3> QED
      BY <3>1, <3>3
  <2> HIDE DEF from, last
  <2>4. \A i \in from..last : ScanBody(g, i, text, value) = ScanBody(h, i, text, value)
    <3> HIDE DEF h
    <3> QED
      BY <2>2, <2>3, ScanBodyLocal DEF last
  <2>5. h = [i \in from..last |-> ScanBody(h, i, text, value)]
    BY <2>4
  <2> QED
    BY <2>5 DEF from
<1>4. \A k \in Nat : k \in S
  <2> HIDE DEF S
  <2> QED
    BY <1>2, <1>3, SetInduction
<1>5. Partial(last - 1)
  BY <1>4, <1>1
<1> QED
  BY <1>5, <1>1

\* Replaced is the scan of a text from its first place on.
LEMMA ScanExists ==
  ASSUME NEW text \in Texts, NEW value \in Seq(Symbols), Len(value) >= 1
  PROVE  \E f : IsScan(f, text, value) /\ Replaced(text, value) = f[1]
<1> DEFINE last == Len(text) + 1
           f == CHOOSE g : g = [i \in 1..last |-> ScanBody(g, i, text, value)]
<1>1. f = [i \in 1..last |-> ScanBody(f, i, text, value)]
  BY ScanDefined
<1>2. Replaced(text, value) = f[1]
  BY DEF Replaced, ScanBody, Prepend
<1>3. Len(text) \in Nat /\ last \in Nat /\ Len(value) \in Nat
  BY DEF Texts
<1> HIDE DEF f
<1>4. \A i \in 1..last : f[i] = ScanBody(f, i, text, value)
  BY <1>1
<1>5. \A i \in 1..Len(text) :
        f[i] = IF OccursAt(text, value, i) THEN Prepend(Marker, f[i + Len(value)])
               ELSE Prepend(text[i], f[i + 1])
  <2> TAKE i \in 1..Len(text)
  <2>1. f[i] = ScanBody(f, i, text, value)
    BY <1>3, <1>4
  <2> QED
    BY <2>1, ScanBodyStep
<1>6. f[last] = <<>>
  <2>1. f[last] = ScanBody(f, last, text, value)
    BY <1>3, <1>4
  <2> QED
    BY <1>3, <2>1 DEF ScanBody
<1> DEFINE T == {j \in 1..last : f[j] \in Texts}
<1>7. last \in T
  BY <1>3, <1>6, EmptyShape
<1>8. ASSUME NEW i \in 1..Len(text), \A j \in (i + 1)..last : j \in T PROVE i \in T
  <2>1. CASE OccursAt(text, value, i)
    <3>1. f[i + Len(value)] \in Texts
      BY <1>3, <1>8, <2>1 DEF OccursAt
    <3>2. f[i] = Prepend(Marker, f[i + Len(value)])
      BY <1>5, <2>1
    <3>3. Prepend(Marker, f[i + Len(value)]) \in Texts
      BY <3>1, PrependShape DEF Bytes
    <3>4. f[i] \in Texts
      BY <3>2, <3>3
    <3> QED
      BY <1>3, <3>4
  <2>2. CASE ~OccursAt(text, value, i)
    <3>1. f[i + 1] \in Texts
      BY <1>3, <1>8
    <3>2. f[i] = Prepend(text[i], f[i + 1])
      BY <1>5, <2>2
    <3>3. text[i] \in Bytes
      BY TextShape
    <3>4. Prepend(text[i], f[i + 1]) \in Texts
      BY <3>1, <3>3, PrependShape
    <3>5. f[i] \in Texts
      BY <3>2, <3>4
    <3> QED
      BY <1>3, <3>5
  <2> QED
    BY <2>1, <2>2
<1>9. \A i \in 1..last : i \in T
  <2> HIDE DEF T
  <2> QED
    BY <1>3, <1>7, <1>8, Downward
<1>10. f \in [1..last -> Texts]
  <2>1. DOMAIN f = 1..last /\ f = [i \in 1..last |-> f[i]]
    BY <1>1
  <2> QED
    BY <2>1, <1>9
<1> QED
  BY <1>2, <1>5, <1>6, <1>10 DEF IsScan

-----------------------------------------------------------------------------
(***************************************************************************)
(* Replacing a value in two texts.                                         *)
(***************************************************************************)

\* value stands across the place where a ends and b begins.
Straddles(a, b, value) ==
    \E at \in 1..Len(a) : OccursAt(Join(a, b), value, at) /\ at + Len(value) > Len(a) + 1

\* A value stands in the second text where it stands in both, one after the other.
LEMMA OccursInSecond ==
  ASSUME NEW a \in Texts, NEW b \in Texts, NEW value \in Seq(Symbols), NEW at \in 1..Len(b)
  PROVE  OccursAt(Join(a, b), value, Len(a) + at) <=> OccursAt(b, value, at)
<1> DEFINE c == Join(a, b)
<1>1. Len(a) \in Nat /\ Len(b) \in Nat /\ Len(value) \in Nat
  BY TextShape
<1>2. /\ Len(c) = Len(a) + Len(b)
      /\ \A i \in 1..(Len(a) + Len(b)) : c[i] = IF i <= Len(a) THEN a[i] ELSE b[i - Len(a)]
  BY JoinShape
<1> HIDE DEF c
<1>3. ASSUME at + Len(value) <= Len(b) + 1, NEW j \in 1..Len(value)
      PROVE  c[Len(a) + at + j - 1] = b[at + j - 1]
  <2>1. Len(a) + at + j - 1 \in 1..(Len(a) + Len(b)) /\ ~(Len(a) + at + j - 1 <= Len(a))
    BY <1>1, <1>3
  <2>2. Len(a) + at + j - 1 - Len(a) = at + j - 1
    BY <1>1
  <2> QED
    BY <1>2, <2>1, <2>2
<1>4. Len(a) + at + Len(value) <= Len(c) + 1 <=> at + Len(value) <= Len(b) + 1
  BY <1>1, <1>2
<1>5. OccursAt(c, value, Len(a) + at) <=> OccursAt(b, value, at)
  BY <1>3, <1>4 DEF OccursAt
<1> QED
  BY <1>5 DEF c

\* So does one in the first text, when it does not stand across.
LEMMA OccursInFirst ==
  ASSUME NEW a \in Texts, NEW b \in Texts, NEW value \in Seq(Symbols), NEW at \in 1..Len(a),
         ~Straddles(a, b, value)
  PROVE  OccursAt(Join(a, b), value, at) <=> OccursAt(a, value, at)
<1> DEFINE c == Join(a, b)
<1>1. Len(a) \in Nat /\ Len(b) \in Nat /\ Len(value) \in Nat
  BY TextShape
<1>2. /\ Len(c) = Len(a) + Len(b)
      /\ \A i \in 1..(Len(a) + Len(b)) : c[i] = IF i <= Len(a) THEN a[i] ELSE b[i - Len(a)]
  BY JoinShape
<1>3. OccursAt(c, value, at) => at + Len(value) <= Len(a) + 1
  BY <1>1 DEF Straddles
<1> HIDE DEF c
<1>4. ASSUME at + Len(value) <= Len(a) + 1, NEW j \in 1..Len(value)
      PROVE  c[at + j - 1] = a[at + j - 1]
  <2>1. at + j - 1 \in 1..(Len(a) + Len(b)) /\ at + j - 1 <= Len(a)
    BY <1>1, <1>4
  <2> QED
    BY <1>2, <2>1
<1>5. at + Len(value) <= Len(a) + 1 => at + Len(value) <= Len(c) + 1
  BY <1>1, <1>2
<1>6. OccursAt(c, value, at) <=> OccursAt(a, value, at)
  BY <1>3, <1>4, <1>5 DEF OccursAt
<1> QED
  BY <1>6 DEF c

\* A scan consists of texts.
LEMMA ScanTyped ==
  ASSUME NEW text \in Texts, NEW value, NEW f, IsScan(f, text, value)
  PROVE  f[1] \in Texts /\ \A i \in 1..(Len(text) + 1) : f[i] \in Texts
<1>1. Len(text) \in Nat /\ f \in [1..(Len(text) + 1) -> Texts]
  BY TextShape DEF IsScan
<1> QED
  BY <1>1

\* Past the end of a, the scan of Join(a, b) is the scan of b.
LEMMA ScanOfSecond ==
  ASSUME NEW a \in Texts, NEW b \in Texts, NEW value \in Seq(Symbols), Len(value) >= 1,
         NEW fb, IsScan(fb, b, value), NEW fc, IsScan(fc, Join(a, b), value)
  PROVE  fc[Len(a) + 1] = fb[1]
<1> DEFINE S == {i \in 1..(Len(b) + 1) : fc[Len(a) + i] = fb[i]}
<1>1. Len(a) \in Nat /\ Len(b) \in Nat /\ Len(value) \in Nat /\ Len(Join(a, b)) = Len(a) + Len(b)
  BY TextShape, JoinShape
<1>2. Len(b) + 1 \in S
  <2>1. Len(a) + (Len(b) + 1) = Len(Join(a, b)) + 1
    BY <1>1
  <2>2. fc[Len(Join(a, b)) + 1] = <<>> /\ fb[Len(b) + 1] = <<>>
    BY DEF IsScan
  <2> QED
    BY <1>1, <2>1, <2>2
<1>3. ASSUME NEW i \in 1..Len(b), \A j \in (i + 1)..(Len(b) + 1) : j \in S PROVE i \in S
  <2>1. OccursAt(Join(a, b), value, Len(a) + i) <=> OccursAt(b, value, i)
    BY OccursInSecond
  <2>2. Join(a, b)[Len(a) + i] = b[i]
    <3> DEFINE k == Len(a) + i
    <3>1. k \in 1..(Len(a) + Len(b)) /\ ~(k <= Len(a)) /\ k - Len(a) = i
      BY <1>1
    <3> HIDE DEF k
    <3>2. Join(a, b)[k] = b[i]
      BY <3>1, JoinShape
    <3> QED
      BY <3>2 DEF k
  <2>3. fc[Len(a) + i] = IF OccursAt(Join(a, b), value, Len(a) + i)
                         THEN Prepend(Marker, fc[Len(a) + i + Len(value)])
                         ELSE Prepend(Join(a, b)[Len(a) + i], fc[Len(a) + i + 1])
    <3>1. Len(a) + i \in 1..Len(Join(a, b))
      BY <1>1
    <3> QED
      BY <3>1 DEF IsScan
  <2>4. fb[i] = IF OccursAt(b, value, i) THEN Prepend(Marker, fb[i + Len(value)])
                ELSE Prepend(b[i], fb[i + 1])
    BY DEF IsScan
  <2>5. CASE OccursAt(b, value, i)
    <3>1. i + Len(value) \in S
      BY <1>1, <1>3, <2>5 DEF OccursAt
    <3>2. fc[Len(a) + i + Len(value)] = fb[i + Len(value)]
      <4>1. Len(a) + i + Len(value) = Len(a) + (i + Len(value))
        BY <1>1
      <4> QED
        BY <3>1, <4>1
    <3>3. fc[Len(a) + i] = fb[i]
      BY <2>1, <2>3, <2>4, <2>5, <3>2
    <3> QED
      BY <1>1, <3>3
  <2>6. CASE ~OccursAt(b, value, i)
    <3>1. i + 1 \in S
      BY <1>1, <1>3
    <3>2. fc[Len(a) + i + 1] = fb[i + 1]
      <4>1. Len(a) + i + 1 = Len(a) + (i + 1)
        BY <1>1
      <4> QED
        BY <3>1, <4>1
    <3>3. fc[Len(a) + i] = fb[i]
      BY <2>1, <2>2, <2>3, <2>4, <2>6, <3>2
    <3> QED
      BY <1>1, <3>3
  <2> QED
    BY <2>5, <2>6
<1>4. \A i \in 1..(Len(b) + 1) : i \in S
  <2> HIDE DEF S
  <2> QED
    BY <1>1, <1>2, <1>3, Downward
<1>5. 1 \in S
  <2> HIDE DEF S
  <2> QED
    BY <1>1, <1>4
<1> QED
  BY <1>5

\* Up to there, it is the scan of a and all of that of b.
LEMMA ScanOfFirst ==
  ASSUME NEW a \in Texts, NEW b \in Texts, NEW value \in Seq(Symbols), Len(value) >= 1,
         ~Straddles(a, b, value), NEW fa, IsScan(fa, a, value),
         NEW fb, IsScan(fb, b, value), NEW fc, IsScan(fc, Join(a, b), value)
  PROVE  fc[1] = Join(fa[1], fb[1])
<1> DEFINE Same(i) == fc[i] = Join(fa[i], fb[1])
<1>1. Len(a) \in Nat /\ Len(b) \in Nat /\ Len(value) \in Nat /\ Len(Join(a, b)) = Len(a) + Len(b)
  BY TextShape, JoinShape
<1>2. fb[1] \in Texts /\ \A i \in 1..(Len(a) + 1) : fa[i] \in Texts
  BY ScanTyped
<1>3. Same(Len(a) + 1)
  <2>1. fa[Len(a) + 1] = <<>>
    BY DEF IsScan
  <2>2. Join(<<>>, fb[1]) = fb[1]
    BY <1>2, JoinEmpty
  <2>3. fc[Len(a) + 1] = fb[1]
    BY ScanOfSecond
  <2> QED
    BY <2>1, <2>2, <2>3, Zenon
<1>4. ASSUME NEW i \in 1..Len(a), \A j \in (i + 1)..(Len(a) + 1) : Same(j)
      PROVE  Same(i)
  <2>1. OccursAt(Join(a, b), value, i) <=> OccursAt(a, value, i)
    BY OccursInFirst
  <2>2. Join(a, b)[i] = a[i] /\ a[i] \in Bytes
    <3>1. i \in 1..(Len(a) + Len(b)) /\ i <= Len(a)
      BY <1>1
    <3> QED
      BY <3>1, JoinShape, TextShape
  <2>3. fc[i] = IF OccursAt(Join(a, b), value, i) THEN Prepend(Marker, fc[i + Len(value)])
                ELSE Prepend(Join(a, b)[i], fc[i + 1])
    <3>1. i \in 1..Len(Join(a, b))
      BY <1>1
    <3> QED
      BY <3>1 DEF IsScan
  <2>4. fa[i] = IF OccursAt(a, value, i) THEN Prepend(Marker, fa[i + Len(value)])
                ELSE Prepend(a[i], fa[i + 1])
    BY DEF IsScan
  <2>6. CASE OccursAt(a, value, i)
    <3>1. i + Len(value) \in (i + 1)..(Len(a) + 1)
      BY <1>1, <2>6 DEF OccursAt
    <3>2. fc[i + Len(value)] = Join(fa[i + Len(value)], fb[1])
      BY <1>4, <3>1
    <3>3. fa[i + Len(value)] \in Texts
      BY <1>1, <1>2, <3>1
    <3>4. Prepend(Marker, Join(fa[i + Len(value)], fb[1]))
            = Join(Prepend(Marker, fa[i + Len(value)]), fb[1])
      BY <1>2, <3>3, JoinCons DEF Bytes
    <3> QED
      BY <2>1, <2>3, <2>4, <2>6, <3>2, <3>4, Zenon
  <2>7. CASE ~OccursAt(a, value, i)
    <3>1. i + 1 \in (i + 1)..(Len(a) + 1)
      BY <1>1
    <3>2. fc[i + 1] = Join(fa[i + 1], fb[1])
      BY <1>4, <3>1
    <3>3. fa[i + 1] \in Texts
      BY <1>1, <1>2, <3>1
    <3>4. Prepend(a[i], Join(fa[i + 1], fb[1])) = Join(Prepend(a[i], fa[i + 1]), fb[1])
      BY <1>2, <2>2, <3>3, JoinCons
    <3> QED
      BY <2>1, <2>2, <2>3, <2>4, <2>7, <3>2, <3>4, Zenon
  <2> QED
    BY <2>6, <2>7
<1> DEFINE S == {i \in 1..(Len(a) + 1) : Same(i)}
<1>5. \A i \in 1..(Len(a) + 1) : i \in S
  <2> HIDE DEF Same
  <2>1. Len(a) + 1 \in S
    BY <1>1, <1>3
  <2>2. \A i \in 1..Len(a) : (\A j \in (i + 1)..(Len(a) + 1) : j \in S) => i \in S
    BY <1>1, <1>4
  <2> HIDE DEF S
  <2> QED
    BY <1>1, <2>1, <2>2, Downward
<1>6. Same(1)
  <2> HIDE DEF Same
  <2> QED
    BY <1>1, <1>5
<1> QED
  BY <1>6

\* A value that does not stand across two texts is replaced in each of them alone
\* (redaction.go:98-104).
LEMMA ReplacedSplits ==
  ASSUME NEW a \in Texts, NEW b \in Texts, NEW value \in Seq(Symbols), Len(value) >= 1,
         ~Straddles(a, b, value)
  PROVE  Replaced(Join(a, b), value) = Join(Replaced(a, value), Replaced(b, value))
<1>1. Join(a, b) \in Texts
  BY JoinShape
<1>2. PICK fa : IsScan(fa, a, value) /\ Replaced(a, value) = fa[1]
  BY ScanExists
<1>3. PICK fb : IsScan(fb, b, value) /\ Replaced(b, value) = fb[1]
  BY ScanExists
<1>4. PICK fc : IsScan(fc, Join(a, b), value) /\ Replaced(Join(a, b), value) = fc[1]
  BY <1>1, ScanExists
<1>5. fc[1] = Join(fa[1], fb[1])
  <2>1. IsScan(fa, a, value) /\ IsScan(fb, b, value) /\ IsScan(fc, Join(a, b), value)
    BY <1>2, <1>3, <1>4
  <2> QED
    BY <2>1, ScanOfFirst
<1> QED
  BY <1>2, <1>3, <1>4, <1>5, Zenon

-----------------------------------------------------------------------------
(***************************************************************************)
(* What is left after a value is replaced.                                 *)
(***************************************************************************)

\* What stands in a text with a byte before it, and not at the start, stands in the
\* text.
LEMMA OccursInRest ==
  ASSUME NEW x \in Bytes, NEW t \in Texts, NEW w \in Seq(Symbols), NEW p \in 2..(Len(t) + 1)
  PROVE  OccursAt(Prepend(x, t), w, p) <=> OccursAt(t, w, p - 1)
<1> DEFINE c == Prepend(x, t)
<1>1. Len(t) \in Nat /\ Len(w) \in Nat
  BY TextShape
<1>2. /\ Len(c) = Len(t) + 1
      /\ \A i \in 1..(Len(t) + 1) : c[i] = IF i = 1 THEN x ELSE t[i - 1]
  BY PrependShape
<1> HIDE DEF c
<1>3. ASSUME p + Len(w) <= Len(t) + 2, NEW j \in 1..Len(w)
      PROVE  c[p + j - 1] = t[p - 1 + j - 1]
  <2>1. p + j - 1 \in 1..(Len(t) + 1) /\ p + j - 1 # 1 /\ p + j - 1 - 1 = p - 1 + j - 1
    BY <1>1, <1>3
  <2> QED
    BY <1>2, <2>1
<1>4. p + Len(w) <= Len(c) + 1 <=> p - 1 + Len(w) <= Len(t) + 1
  BY <1>1, <1>2
<1>5. OccursAt(c, w, p) <=> OccursAt(t, w, p - 1)
  <2>1. p + Len(w) <= Len(t) + 2 <=> p + Len(w) <= Len(c) + 1
    BY <1>1, <1>2
  <2>2. CASE ~(p + Len(w) <= Len(c) + 1)
    BY <1>4, <2>2 DEF OccursAt
  <2>3. CASE p + Len(w) <= Len(c) + 1
    <3>1. \A j \in 1..Len(w) : c[p + j - 1] = t[p - 1 + j - 1]
      BY <1>3, <2>1, <2>3
    <3> QED
      BY <1>4, <2>3, <3>1 DEF OccursAt
  <2> QED
    BY <2>2, <2>3
<1> QED
  BY <1>5 DEF c

\* What stands at the start of a text with a byte before it has that byte first, and
\* its tail stands in the text.
LEMMA OccursFirst ==
  ASSUME NEW x \in Bytes, NEW t \in Texts, NEW w \in Seq(Symbols), Len(w) >= 1,
         OccursAt(Prepend(x, t), w, 1)
  PROVE  /\ x = w[1]
         /\ Len(w) >= 2 => OccursAt(t, Tail(w), 1)
<1> DEFINE c == Prepend(x, t)
<1>1. Len(t) \in Nat /\ Len(w) \in Nat
  BY TextShape
<1>2. /\ Len(c) = Len(t) + 1
      /\ \A i \in 1..(Len(t) + 1) : c[i] = IF i = 1 THEN x ELSE t[i - 1]
  BY PrependShape
<1>3. OccursAt(c, w, 1)
  OBVIOUS
<1> HIDE DEF c
<1>4. Len(w) <= Len(t) + 1 /\ \A j \in 1..Len(w) : c[j] = w[j]
  BY <1>1, <1>2, <1>3 DEF OccursAt
<1>5. x = w[1]
  BY <1>1, <1>2, <1>4
<1>6. Len(Tail(w)) = Len(w) - 1 /\ \A j \in 1..Len(Tail(w)) : Tail(w)[j] = w[j + 1]
  BY HeadTailProperties, EmptySeq
<1>7. \A j \in 1..(Len(w) - 1) : t[j] = w[j + 1]
  <2> TAKE j \in 1..(Len(w) - 1)
  <2>1. j + 1 \in 1..Len(w) /\ j + 1 \in 1..(Len(t) + 1) /\ j + 1 # 1 /\ j + 1 - 1 = j
    BY <1>1, <1>4
  <2>2. c[j + 1] = w[j + 1] /\ c[j + 1] = t[j + 1 - 1]
    BY <1>2, <1>4, <2>1
  <2> QED
    BY <2>1, <2>2
<1>8. OccursAt(t, Tail(w), 1)
  BY <1>1, <1>4, <1>6, <1>7 DEF OccursAt
<1> QED
  BY <1>5, <1>8

\* The converse, in a text that is scanned.
LEMMA OccursFromTail ==
  ASSUME NEW text \in Texts, NEW w \in Seq(Symbols), NEW i \in 1..Len(text),
         text[i] = w[1], Len(w) >= 2, OccursAt(text, Tail(w), i + 1)
  PROVE  OccursAt(text, w, i)
<1>1. Len(text) \in Nat /\ Len(w) \in Nat
  BY TextShape
<1>2. Len(Tail(w)) = Len(w) - 1 /\ \A j \in 1..Len(Tail(w)) : Tail(w)[j] = w[j + 1]
  BY HeadTailProperties, EmptySeq
<1>3. /\ i + 1 + (Len(w) - 1) <= Len(text) + 1
      /\ \A j \in 1..(Len(w) - 1) : text[i + 1 + j - 1] = Tail(w)[j]
  BY <1>2 DEF OccursAt
<1>4. ASSUME NEW j \in 1..Len(w) PROVE text[i + j - 1] = w[j]
  <2>1. CASE j = 1
    <3>1. i + 1 - 1 = i
      OBVIOUS
    <3> QED
      BY <2>1, <3>1
  <2>2. CASE j # 1
    <3> DEFINE k == j - 1
    <3>1. k \in 1..(Len(w) - 1) /\ i + 1 + k - 1 = i + j - 1 /\ k + 1 = j
      BY <1>1, <2>2
    <3> HIDE DEF k
    <3> QED
      BY <1>2, <1>3, <3>1
  <2> QED
    BY <2>1, <2>2
<1> QED
  BY <1>1, <1>3, <1>4 DEF OccursAt

\* What w in the result r, at p, was in the text from i on: it stood there at
\* q, and nothing was replaced at q.
CameFrom(text, value, i, r, w, p, q) ==
    /\ OccursAt(text, w, q)
    /\ ~OccursAt(text, value, q)
    /\ p = 1 => q = i
    /\ p + Len(w) = Len(r) + 1 => q + Len(w) = Len(text) + 1

\* Every w in r came from text.
Comes(text, value, i, r) ==
    \A w \in Seq(Symbols) : \A p \in 1..Len(r) :
        Len(w) >= 1 /\ OccursAt(r, w, p) =>
            \E q \in i..Len(text) : CameFrom(text, value, i, r, w, p, q)

\* The marker is in no value: what stands after it came from after the value it
\* replaces.
LEMMA ComesAfterMarker ==
  ASSUME NEW text \in Texts, NEW value \in Seq(Symbols), Len(value) >= 1, NEW i \in 1..Len(text),
         NEW t \in Texts, i + Len(value) <= Len(text) + 1, Comes(text, value, i + Len(value), t)
  PROVE  Comes(text, value, i, Prepend(Marker, t))
<1> DEFINE r == Prepend(Marker, t)
<1> SUFFICES ASSUME NEW w \in Seq(Symbols), NEW p \in 1..Len(r), Len(w) >= 1, OccursAt(r, w, p)
             PROVE  \E q \in i..Len(text) : CameFrom(text, value, i, r, w, p, q)
  BY DEF Comes
<1>1. Len(text) \in Nat /\ Len(t) \in Nat /\ Len(w) \in Nat /\ Len(value) \in Nat
  BY TextShape
<1>2. Len(r) = Len(t) + 1
  BY PrependShape DEF Bytes
<1>3. p # 1
  <2> SUFFICES ASSUME p = 1 PROVE FALSE
    OBVIOUS
  <2>1. Marker = w[1]
    BY OccursFirst DEF Bytes
  <2>2. w[1] \in Symbols
    BY <1>1
  <2> QED
    BY <2>1, <2>2, SymbolsAssumption
<1>4. p \in 2..(Len(t) + 1)
  BY <1>1, <1>2, <1>3
<1>5. OccursAt(t, w, p - 1)
  BY <1>4, OccursInRest DEF Bytes
<1>6. PICK q \in (i + Len(value))..Len(text) :
         CameFrom(text, value, i + Len(value), t, w, p - 1, q)
  <2>1. p - 1 \in 1..Len(t)
    BY <1>1, <1>4
  <2> QED
    BY <1>5, <2>1 DEF Comes
<1>7. q \in i..Len(text)
  BY <1>1
<1> HIDE DEF r
<1>8. CameFrom(text, value, i, r, w, p, q)
  BY <1>1, <1>2, <1>3, <1>4, <1>6 DEF CameFrom
<1> QED
  BY <1>7, <1>8 DEF r

\* A byte that is kept keeps its place before what came from behind it.
LEMMA ComesAfterSymbol ==
  ASSUME NEW text \in Texts, NEW value \in Seq(Symbols), NEW i \in 1..Len(text),
         NEW t \in Texts, ~OccursAt(text, value, i), Comes(text, value, i + 1, t),
         t = <<>> => i = Len(text)
  PROVE  Comes(text, value, i, Prepend(text[i], t))
<1> DEFINE r == Prepend(text[i], t)
<1> SUFFICES ASSUME NEW w \in Seq(Symbols), NEW p \in 1..Len(r), Len(w) >= 1, OccursAt(r, w, p)
             PROVE  \E q \in i..Len(text) : CameFrom(text, value, i, r, w, p, q)
  BY DEF Comes
<1>1. Len(text) \in Nat /\ Len(t) \in Nat /\ Len(w) \in Nat /\ Len(value) \in Nat
  BY TextShape
<1>2. text[i] \in Bytes /\ Len(r) = Len(t) + 1
  BY TextShape, PrependShape
<1>3. CASE p = 1
  <2>1. text[i] = w[1] /\ (Len(w) >= 2 => OccursAt(t, Tail(w), 1))
    BY <1>2, <1>3, OccursFirst
  <2>2. CASE Len(w) = 1
    <3>1. OccursAt(text, w, i)
      BY <1>1, <2>1, <2>2 DEF OccursAt
    <3>2. p + Len(w) = Len(r) + 1 => i + Len(w) = Len(text) + 1
      <4> SUFFICES ASSUME p + Len(w) = Len(r) + 1 PROVE i = Len(text)
        BY <1>1, <2>2
      <4>1. Len(t) = 0
        BY <1>1, <1>2, <1>3, <2>2
      <4>2. t = <<>>
        BY <4>1, EmptySeq DEF Texts
      <4> QED
        BY <4>2
    <3>3. CameFrom(text, value, i, r, w, p, i)
      BY <3>1, <3>2 DEF CameFrom
    <3> QED
      BY <1>1, <3>3
  <2>3. CASE Len(w) >= 2
    <3>1. Tail(w) \in Seq(Symbols) /\ Len(Tail(w)) = Len(w) - 1
      BY <2>3, HeadTailProperties, EmptySeq
    <3>2. 1 \in 1..Len(t)
      BY <1>1, <2>1, <2>3, <3>1 DEF OccursAt
    <3>3. PICK q \in (i + 1)..Len(text) : CameFrom(text, value, i + 1, t, Tail(w), 1, q)
      <4> DEFINE u == Tail(w)
      <4>1. u \in Seq(Symbols) /\ Len(u) >= 1 /\ OccursAt(t, u, 1)
        BY <1>1, <2>1, <2>3, <3>1
      <4> HIDE DEF u
      <4>2. \E q \in (i + 1)..Len(text) : CameFrom(text, value, i + 1, t, u, 1, q)
        BY <3>2, <4>1 DEF Comes
      <4> QED
        BY <4>2 DEF u
    <3>4. q = i + 1 /\ OccursAt(text, Tail(w), i + 1)
      BY <3>3 DEF CameFrom
    <3>5. OccursAt(text, w, i)
      BY <2>1, <2>3, <3>4, OccursFromTail
    <3>6. p + Len(w) = Len(r) + 1 => i + Len(w) = Len(text) + 1
      <4> DEFINE u == Tail(w)
      <4>1. 1 + Len(u) = Len(t) + 1 => q + Len(u) = Len(text) + 1
        BY <3>3 DEF CameFrom
      <4>2. Len(u) = Len(w) - 1
        BY <3>1
      <4> HIDE DEF r, u
      <4> QED
        BY <1>1, <1>2, <1>3, <3>4, <4>1, <4>2
    <3>7. CameFrom(text, value, i, r, w, p, i)
      BY <3>5, <3>6 DEF CameFrom
    <3> QED
      BY <1>1, <3>7
  <2>4. Len(w) = 1 \/ Len(w) >= 2
    <3> DEFINE n == Len(w)
    <3>1. n \in Nat /\ n >= 1
      BY <1>1
    <3> HIDE DEF n
    <3>2. n = 1 \/ n >= 2
      BY <3>1
    <3> QED
      BY <3>2 DEF n
  <2> HIDE DEF r
  <2> QED
    BY <2>2, <2>3, <2>4
<1>4. CASE p # 1
  <2>1. p \in 2..(Len(t) + 1) /\ p - 1 \in 1..Len(t)
    BY <1>1, <1>2, <1>4
  <2>2. OccursAt(t, w, p - 1)
    BY <1>2, <2>1, OccursInRest
  <2>3. PICK q \in (i + 1)..Len(text) : CameFrom(text, value, i + 1, t, w, p - 1, q)
    BY <2>1, <2>2 DEF Comes
  <2>4. q \in i..Len(text)
    BY <1>1
  <2> HIDE DEF r
  <2>5. CameFrom(text, value, i, r, w, p, q)
    BY <1>1, <1>2, <1>4, <2>1, <2>3 DEF CameFrom
  <2> QED
    BY <2>4, <2>5 DEF r
<1> QED
  BY <1>3, <1>4

\* Every sequence of symbols in the result of Replaced stood in the text, and nothing
\* was replaced where it began: what is removed forms no value anew.
LEMMA ReplacedKeeps ==
  ASSUME NEW text \in Texts, NEW value \in Seq(Symbols), Len(value) >= 1
  PROVE  Comes(text, value, 1, Replaced(text, value))
<1>1. PICK f : IsScan(f, text, value) /\ Replaced(text, value) = f[1]
  BY ScanExists
<1>2. Len(text) \in Nat /\ Len(value) \in Nat
  BY TextShape
<1>3. \A i \in 1..(Len(text) + 1) : f[i] \in Texts
  BY <1>1, ScanTyped
<1>4. \A i \in 1..Len(text) :
        f[i] = IF OccursAt(text, value, i) THEN Prepend(Marker, f[i + Len(value)])
               ELSE Prepend(text[i], f[i + 1])
  BY <1>1 DEF IsScan
<1>5. f[Len(text) + 1] = <<>>
  BY <1>1 DEF IsScan
<1> DEFINE Good(i) == Comes(text, value, i, f[i]) /\ (f[i] = <<>> => i = Len(text) + 1)
<1>6. Good(Len(text) + 1)
  BY <1>5, EmptyShape DEF Comes
<1>7. ASSUME NEW i \in 1..Len(text), \A j \in (i + 1)..(Len(text) + 1) : Good(j)
      PROVE  Good(i)
  <2>1. CASE OccursAt(text, value, i)
    <3> DEFINE k == i + Len(value)
    <3>1. k \in (i + 1)..(Len(text) + 1) /\ i + Len(value) <= Len(text) + 1
      BY <1>2, <2>1 DEF OccursAt
    <3>2. f[k] \in Texts /\ Comes(text, value, k, f[k])
      BY <1>2, <1>3, <1>7, <3>1
    <3>3. Comes(text, value, i, Prepend(Marker, f[k]))
      BY <3>1, <3>2, ComesAfterMarker
    <3>4. Prepend(Marker, f[k]) # <<>>
      <4>1. Len(Prepend(Marker, f[k])) = Len(f[k]) + 1 /\ Len(f[k]) \in Nat
        BY <3>2, TextShape, PrependShape DEF Bytes
      <4> QED
        BY <4>1, EmptyShape
    <3> QED
      BY <1>4, <2>1, <3>3, <3>4
  <2>2. CASE ~OccursAt(text, value, i)
    <3>1. i + 1 \in (i + 1)..(Len(text) + 1)
      BY <1>2
    <3>2. f[i + 1] \in Texts /\ Good(i + 1)
      BY <1>2, <1>3, <1>7, <3>1
    <3>3. f[i + 1] = <<>> => i = Len(text)
      BY <1>2, <3>2
    <3>4. Comes(text, value, i, Prepend(text[i], f[i + 1]))
      BY <2>2, <3>2, <3>3, ComesAfterSymbol
    <3>5. Prepend(text[i], f[i + 1]) # <<>>
      BY <3>2, TextShape, PrependShape, EmptyShape
    <3> QED
      BY <1>4, <2>2, <3>4, <3>5
  <2> QED
    BY <2>1, <2>2
<1> DEFINE S == {i \in 1..(Len(text) + 1) : Good(i)}
<1>8. \A i \in 1..(Len(text) + 1) : i \in S
  <2> HIDE DEF Good
  <2>1. Len(text) + 1 \in S
    BY <1>2, <1>6
  <2>2. \A i \in 1..Len(text) : (\A j \in (i + 1)..(Len(text) + 1) : j \in S) => i \in S
    BY <1>2, <1>7
  <2> HIDE DEF S
  <2> QED
    BY <1>2, <2>1, <2>2, Downward
<1>9. Good(1)
  <2> HIDE DEF Good
  <2> QED
    BY <1>2, <1>8
<1> QED
  BY <1>1, <1>9

-----------------------------------------------------------------------------
(***************************************************************************)
(* Folds over a sequence, and Redact.                                      *)
(***************************************************************************)

\* A bounded set of numbers has a greatest one, and Max is it.
LEMMA MaxExists ==
  ASSUME NEW n \in Nat, NEW S \in SUBSET (0..n), S # {}
  PROVE  Max(S) \in S /\ \A y \in S : y <= Max(S)
<1> DEFINE Has(R) == \E x \in R : \A y \in R : x >= y
           T == {m \in Nat : \A R \in SUBSET (0..m) : R # {} => Has(R)}
<1>1. 0 \in T
  <2> SUFFICES ASSUME NEW R \in SUBSET (0..0), R # {} PROVE Has(R)
    OBVIOUS
  <2>1. PICK x \in R : TRUE
    OBVIOUS
  <2>2. \A y \in R : y = 0
    OBVIOUS
  <2>3. x \in R /\ \A y \in R : x >= y
    BY <2>1, <2>2
  <2> QED
    BY <2>3
<1>2. ASSUME NEW m \in Nat, m \in T PROVE m + 1 \in T
  <2> SUFFICES ASSUME NEW R \in SUBSET (0..(m + 1)), R # {} PROVE Has(R)
    OBVIOUS
  <2>1. CASE m + 1 \in R
    BY <2>1
  <2>2. CASE m + 1 \notin R
    <3>1. R \in SUBSET (0..m)
      BY <2>2
    <3> QED
      BY <1>2, <3>1
  <2> QED
    BY <2>1, <2>2
<1>3. n \in T
  <2> HIDE DEF T
  <2> QED
    BY <1>1, <1>2, SetInduction
<1>4. Has(S)
  BY <1>3
<1> QED
  BY <1>4 DEF Max

\* Taking the greatest number away leaves smaller ones.
LEMMA MaxOfSome ==
  ASSUME NEW k \in Nat, NEW s \in SUBSET (1..k), s # {}
  PROVE  Max(s) \in s /\ s \ {Max(s)} \in SUBSET (1..(k - 1))
<1>1. s \in SUBSET (0..k)
  OBVIOUS
<1>2. Max(s) \in s /\ \A y \in s : y <= Max(s)
  BY <1>1, MaxExists
<1>3. ASSUME NEW y \in s \ {Max(s)} PROVE y \in 1..(k - 1)
  <2>1. y \in 1..k /\ Max(s) \in 1..k /\ y <= Max(s) /\ y # Max(s)
    BY <1>2
  <2> QED
    BY <2>1
<1> QED
  BY <1>2, <1>3

\* The greatest number of 1..k is k.
LEMMA MaxOfSegment ==
  ASSUME NEW k \in Nat, k >= 1
  PROVE  1..k # {} /\ Max(1..k) = k /\ (1..k) \ {k} = 1..(k - 1)
<1>1. 1..k \in SUBSET (0..k) /\ k \in 1..k
  OBVIOUS
<1>2. Max(1..k) \in 1..k /\ k <= Max(1..k)
  BY <1>1, MaxExists
<1>3. Max(1..k) = k
  BY <1>2
<1>4. \A x : x \in (1..k) \ {k} <=> x \in 1..(k - 1)
  OBVIOUS
<1> QED
  BY <1>1, <1>3, <1>4

\* A fold over a sequence of length n is well defined: F is its step.
FoldBody(g, s, base, F) == IF s = {} THEN base ELSE F[<<g[s \ {Max(s)}], Max(s)>>]

\* The fold over the first k elements has a solution with values in V.
FoldTo(k, V, base, F) ==
    \E g \in [SUBSET (1..k) -> V] : \A s \in SUBSET (1..k) : g[s] = FoldBody(g, s, base, F)

\* What folds over k elements folds over one more.
LEMMA FoldOneMore ==
  ASSUME NEW V, NEW n \in Nat, NEW base \in V, NEW F \in [V \X (1..n) -> V],
         NEW k \in Nat, k + 1 <= n, FoldTo(k, V, base, F)
  PROVE  FoldTo(k + 1, V, base, F)
<1>1. PICK g \in [SUBSET (1..k) -> V] : \A s \in SUBSET (1..k) : g[s] = FoldBody(g, s, base, F)
  BY DEF FoldTo
<1> DEFINE h == [s \in SUBSET (1..(k + 1)) |-> FoldBody(g, s, base, F)]
<1>2. ASSUME NEW s \in SUBSET (1..(k + 1)), s # {}
      PROVE  s \ {Max(s)} \in SUBSET (1..k) /\ Max(s) \in 1..n
  <2>1. Max(s) \in s /\ s \ {Max(s)} \in SUBSET (1..(k + 1 - 1))
    <3> DEFINE m == k + 1
    <3>1. m \in Nat /\ s \in SUBSET (1..m)
      OBVIOUS
    <3> HIDE DEF m
    <3>2. Max(s) \in s /\ s \ {Max(s)} \in SUBSET (1..(m - 1))
      BY <1>2, <3>1, MaxOfSome
    <3> QED
      BY <3>2 DEF m
  <2>2. k + 1 - 1 = k /\ \A x \in 1..(k + 1) : x \in 1..n
    OBVIOUS
  <2> HIDE DEF h
  <2> QED
    BY <2>1, <2>2
<1>3. \A s \in SUBSET (1..(k + 1)) : FoldBody(g, s, base, F) \in V
  <2> TAKE s \in SUBSET (1..(k + 1))
  <2>1. CASE s = {}
    BY <2>1 DEF FoldBody
  <2>2. CASE s # {}
    <3>1. g[s \ {Max(s)}] \in V /\ Max(s) \in 1..n
      BY <1>1, <1>2, <2>2
    <3> QED
      BY <2>2, <3>1 DEF FoldBody
  <2> QED
    BY <2>1, <2>2
<1>4. h \in [SUBSET (1..(k + 1)) -> V]
  BY <1>3
<1>5. \A s \in SUBSET (1..(k + 1)) : h[s] = FoldBody(g, s, base, F)
  OBVIOUS
<1>6. \A s \in SUBSET (1..k) : h[s] = g[s]
  <2> TAKE s \in SUBSET (1..k)
  <2>1. s \in SUBSET (1..(k + 1))
    OBVIOUS
  <2> QED
    BY <1>1, <1>5, <2>1
<1> HIDE DEF h
<1>7. \A s \in SUBSET (1..(k + 1)) : FoldBody(h, s, base, F) = FoldBody(g, s, base, F)
  BY <1>2, <1>6 DEF FoldBody
<1> QED
  BY <1>4, <1>5, <1>7 DEF FoldTo

\* The recursive definition in MapThenFoldSet has a solution over any sequence.
LEMMA FoldExists ==
  ASSUME NEW V, NEW n \in Nat, NEW base \in V, NEW F \in [V \X (1..n) -> V]
  PROVE  FoldTo(n, V, base, F)
<1> DEFINE S == {k \in Nat : k <= n => FoldTo(k, V, base, F)}
<1>1. FoldTo(0, V, base, F)
  <2> DEFINE g == [s \in SUBSET (1..0) |-> base]
  <2>1. \A s \in SUBSET (1..0) : s = {}
    OBVIOUS
  <2>2. g \in [SUBSET (1..0) -> V] /\ \A s \in SUBSET (1..0) : g[s] = base
    OBVIOUS
  <2> HIDE DEF g
  <2>3. \A s \in SUBSET (1..0) : g[s] = FoldBody(g, s, base, F)
    BY <2>1, <2>2 DEF FoldBody
  <2> QED
    BY <2>2, <2>3 DEF FoldTo
<1>2. \A k \in Nat : k \in S
  <2>1. 0 \in S
    BY <1>1
  <2>2. ASSUME NEW k \in Nat, k \in S PROVE k + 1 \in S
    <3> SUFFICES ASSUME k + 1 <= n PROVE FoldTo(k + 1, V, base, F)
      OBVIOUS
    <3>1. FoldTo(k, V, base, F)
      BY <2>2
    <3> QED
      BY <3>1, FoldOneMore
  <2> HIDE DEF S
  <2> QED
    BY <2>1, <2>2, SetInduction
<1> QED
  BY <1>2

\* iter is a fold whose step, as long as it stays in V, is F.
IsFold(iter, n, V, base, F) ==
    /\ iter[{}] = base
    /\ \A s \in SUBSET (1..n) : s # {} /\ iter[s \ {Max(s)}] \in V =>
          iter[s] = F[<<iter[s \ {Max(s)}], Max(s)>>]

\* f is what the fold has after each element.
IsWalk(f, n, V, base, F) ==
    /\ f \in [0..n -> V]
    /\ f[0] = base
    /\ \A k \in 1..n : f[k] = F[<<f[k - 1], k>>]

\* The fold over all n elements is where such a walk ends.
HasWalk(iter, n, V, base, F) == \E f : IsWalk(f, n, V, base, F) /\ f[n] = iter[1..n]

\* Whatever satisfies the equation of the fold steps through the sequence.
LEMMA FoldSteps ==
  ASSUME NEW V, NEW n \in Nat, NEW base \in V, NEW F \in [V \X (1..n) -> V], NEW iter,
         IsFold(iter, n, V, base, F)
  PROVE  HasWalk(iter, n, V, base, F)
<1>0. /\ iter[{}] = base
      /\ \A s \in SUBSET (1..n) : s # {} /\ iter[s \ {Max(s)}] \in V =>
            iter[s] = F[<<iter[s \ {Max(s)}], Max(s)>>]
  BY DEF IsFold
<1> DEFINE f == [k \in 0..n |-> iter[1..k]]
<1>1. f[0] = base
  <2>1. 1..0 = {} /\ 0 \in 0..n
    OBVIOUS
  <2> QED
    BY <1>0, <2>1
<1>2. ASSUME NEW k \in 1..n, f[k - 1] \in V PROVE f[k] = F[<<f[k - 1], k>>]
  <2>1. 1..k # {} /\ Max(1..k) = k /\ (1..k) \ {k} = 1..(k - 1)
    <3>1. k \in Nat /\ k >= 1
      OBVIOUS
    <3> QED
      BY <3>1, MaxOfSegment
  <2>2. 1..k \in SUBSET (1..n) /\ k \in 0..n /\ k - 1 \in 0..n
    OBVIOUS
  <2>3. f[k] = iter[1..k] /\ f[k - 1] = iter[1..(k - 1)]
    BY <2>2
  <2> HIDE DEF f
  <2>4. iter[1..k] = F[<<iter[1..(k - 1)], k>>]
    BY <1>0, <1>2, <2>1, <2>2, <2>3
  <2> QED
    BY <2>3, <2>4
<1>3. f[n] = iter[1..n]
  OBVIOUS
<1> DEFINE S == {k \in Nat : k <= n => f[k] \in V}
<1> HIDE DEF f
<1>4. \A k \in Nat : k \in S
  <2>1. 0 \in S
    BY <1>1
  <2>2. ASSUME NEW k \in Nat, k \in S PROVE k + 1 \in S
    <3> SUFFICES ASSUME k + 1 <= n PROVE f[k + 1] \in V
      OBVIOUS
    <3> DEFINE m == k + 1
    <3>1. m \in 1..n /\ m - 1 = k /\ f[k] \in V
      BY <2>2
    <3> HIDE DEF m
    <3>2. f[m] = F[<<f[k], m>>]
      BY <1>2, <3>1
    <3>3. f[m] \in V
      BY <3>1, <3>2
    <3> QED
      BY <3>3 DEF m
  <2> HIDE DEF S
  <2> QED
    BY <2>1, <2>2, SetInduction
<1>5. \A k \in 0..n : f[k] \in V
  BY <1>4
<1>6. f \in [0..n -> V]
  BY <1>5 DEF f
<1>7. \A k \in 1..n : f[k] = F[<<f[k - 1], k>>]
  <2> TAKE k \in 1..n
  <2>1. k - 1 \in 0..n
    OBVIOUS
  <2> QED
    BY <1>2, <1>5, <2>1
<1>8. IsWalk(f, n, V, base, F)
  BY <1>1, <1>6, <1>7 DEF IsWalk
<1> QED
  BY <1>3, <1>8 DEF HasWalk

\* Removing a value from a text gives a text.
LEMMA RemovedTyped ==
  ASSUME NEW text \in Texts, NEW value \in Seq(Symbols)
  PROVE  Removed(text, value) \in Texts
<1>1. CASE Len(value) >= 1
  <2>1. PICK f : IsScan(f, text, value) /\ Replaced(text, value) = f[1]
    BY <1>1, ScanExists
  <2>2. Replaced(text, value) \in Texts
    BY <2>1, ScanTyped
  <2> QED
    BY <2>2 DEF Removed
<1>2. CASE ~(Len(value) >= 1)
  <2>1. Len(value) < 3
    BY <1>2, LenProperties
  <2> QED
    BY <2>1 DEF Removed
<1> QED
  BY <1>1, <1>2

\* The text after each value has been removed in turn.
IsChain(f, text, configured) ==
    /\ f \in [0..Len(configured) -> Texts]
    /\ f[0] = text
    /\ \A k \in 1..Len(configured) : f[k] = Removed(f[k - 1], configured[k])

\* Redact removes one value after the other.
LEMMA ChainExists ==
  ASSUME NEW text \in Texts, NEW configured \in Seq(Seq(Symbols))
  PROVE  \E f : IsChain(f, text, configured) /\ Redact(text, configured) = f[Len(configured)]
<1> DEFINE n == Len(configured)
           F == [vi \in Texts \X (1..n) |-> Removed(vi[1], configured[vi[2]])]
           Eqn(g) == g = [s \in SUBSET DOMAIN configured |->
                            IF s = {} THEN text
                            ELSE Removed(g[s \ {Max(s)}], configured[Max(s)])]
           iter == CHOOSE g : Eqn(g)
<1>1. n \in Nat /\ DOMAIN configured = 1..n /\ \A k \in 1..n : configured[k] \in Seq(Symbols)
  BY LenProperties, ElementOfSeq
<1>2. Redact(text, configured) = iter[DOMAIN configured]
  BY DEF Redact, FoldLeft, MapThenFoldSet
<1> HIDE DEF n
<1>3. F \in [Texts \X (1..n) -> Texts]
  BY <1>1, RemovedTyped
<1>4. \A v \in Texts, k \in 1..n : F[<<v, k>>] = Removed(v, configured[k])
  OBVIOUS
<1> HIDE DEF F
<1>5. \E g : Eqn(g)
  <2>1. PICK g \in [SUBSET (1..n) -> Texts] : \A s \in SUBSET (1..n) :
                g[s] = FoldBody(g, s, text, F)
    <3>1. FoldTo(n, Texts, text, F)
      BY <1>1, <1>3, FoldExists
    <3> QED
      BY <3>1 DEF FoldTo
  <2>2. ASSUME NEW s \in SUBSET (1..n)
        PROVE  g[s] = IF s = {} THEN text ELSE Removed(g[s \ {Max(s)}], configured[Max(s)])
    <3>1. CASE s = {}
      BY <2>1, <3>1 DEF FoldBody
    <3>2. CASE s # {}
      <4>1. Max(s) \in 1..n /\ s \ {Max(s)} \in SUBSET (1..n)
        BY <1>1, <3>2, MaxOfSome
      <4>2. g[s \ {Max(s)}] \in Texts
        BY <4>1
      <4> QED
        BY <1>4, <2>1, <3>2, <4>1, <4>2 DEF FoldBody
    <3> QED
      BY <3>1, <3>2
  <2>3. Eqn(g)
    BY <1>1, <2>2
  <2> QED
    BY <2>3
<1>6. Eqn(iter)
  BY <1>5
<1> HIDE DEF iter
<1>7. iter[{}] = text
  BY <1>1, <1>6
<1>8. ASSUME NEW s \in SUBSET (1..n), s # {}, iter[s \ {Max(s)}] \in Texts
      PROVE  iter[s] = F[<<iter[s \ {Max(s)}], Max(s)>>]
  <2>1. iter[s] = Removed(iter[s \ {Max(s)}], configured[Max(s)])
    BY <1>1, <1>6, <1>8
  <2>2. Max(s) \in 1..n
    BY <1>1, <1>8, MaxOfSome
  <2> QED
    BY <1>4, <1>8, <2>1, <2>2
<1> HIDE DEF Eqn
<1>9. IsFold(iter, n, Texts, text, F)
  BY <1>7, <1>8 DEF IsFold
<1>12. PICK f : IsWalk(f, n, Texts, text, F) /\ f[n] = iter[1..n]
  <2>1. HasWalk(iter, n, Texts, text, F)
    BY <1>1, <1>3, <1>9, FoldSteps
  <2> QED
    BY <2>1 DEF HasWalk
<1>10. \A k \in 1..n : f[k] = Removed(f[k - 1], configured[k])
  <2> TAKE k \in 1..n
  <2>1. k - 1 \in 0..n
    BY <1>1
  <2>2. f[k - 1] \in Texts
    BY <1>12, <2>1 DEF IsWalk
  <2> QED
    BY <1>4, <1>12, <2>2 DEF IsWalk
<1>11. Redact(text, configured) = f[n]
  BY <1>1, <1>2, <1>12
<1> QED
  BY <1>10, <1>11, <1>12 DEF IsChain, IsWalk, n

-----------------------------------------------------------------------------
(***************************************************************************)
(* Redact of two texts.                                                    *)
(***************************************************************************)

\* The two parts of a value cut at k.
LEMMA PartsOf ==
  ASSUME NEW w \in Seq(Symbols), NEW k \in 0..Len(w)
  PROVE  /\ SubSeq(w, 1, k) \in Seq(Symbols) /\ Len(SubSeq(w, 1, k)) = k
         /\ \A j \in 1..k : SubSeq(w, 1, k)[j] = w[j]
         /\ SubSeq(w, k + 1, Len(w)) \in Seq(Symbols) /\ Len(SubSeq(w, k + 1, Len(w))) = Len(w) - k
         /\ \A j \in 1..(Len(w) - k) : SubSeq(w, k + 1, Len(w))[j] = w[k + j]
<1>1. Len(w) \in Nat /\ \A i \in 1..Len(w) : w[i] \in Symbols
  BY LenProperties, ElementOfSeq
<1>2. /\ SubSeq(w, 1, k) \in Seq(Symbols) /\ Len(SubSeq(w, 1, k)) = k
      /\ \A j \in 1..k : SubSeq(w, 1, k)[j] = w[j]
  OBVIOUS
<1>3. SubSeq(w, k + 1, Len(w)) \in Seq(Symbols) /\ Len(SubSeq(w, k + 1, Len(w))) = Len(w) - k
  BY <1>1
<1>4. \A j \in 1..(Len(w) - k) : SubSeq(w, k + 1, Len(w))[j] = w[k + j]
  BY <1>1
<1> QED
  BY <1>2, <1>3, <1>4

\* What stands across two texts has its start at the end of the one and its rest at the
\* start of the other.
LEMMA OccursInParts ==
  ASSUME NEW a \in Texts, NEW b \in Texts, NEW w \in Seq(Symbols), NEW k \in 1..(Len(w) - 1),
         NEW at \in 1..Len(a), at + k = Len(a) + 1
  PROVE  OccursAt(Join(a, b), w, at)
             <=> /\ OccursAt(a, SubSeq(w, 1, k), at)
                 /\ OccursAt(b, SubSeq(w, k + 1, Len(w)), 1)
<1> DEFINE c == Join(a, b)
           u == SubSeq(w, 1, k)
           v == SubSeq(w, k + 1, Len(w))
<1>1. Len(a) \in Nat /\ Len(b) \in Nat /\ Len(w) \in Nat
  BY TextShape, LenProperties
<1>2. /\ Len(c) = Len(a) + Len(b)
      /\ \A i \in 1..(Len(a) + Len(b)) : c[i] = IF i <= Len(a) THEN a[i] ELSE b[i - Len(a)]
  BY JoinShape
<1>3. /\ Len(u) = k /\ \A j \in 1..k : u[j] = w[j]
      /\ Len(v) = Len(w) - k /\ \A j \in 1..(Len(w) - k) : v[j] = w[k + j]
  <2>1. k \in 0..Len(w)
    BY <1>1
  <2> QED
    BY <2>1, PartsOf
<1> HIDE DEF c, u, v
<1>4. ASSUME OccursAt(c, w, at) PROVE OccursAt(a, u, at) /\ OccursAt(b, v, 1)
  <2>1. at + Len(w) <= Len(c) + 1 /\ \A j \in 1..Len(w) : c[at + j - 1] = w[j]
    BY <1>4 DEF OccursAt
  <2>2. \A j \in 1..k : a[at + j - 1] = u[j]
    <3> TAKE j \in 1..k
    <3> DEFINE i == at + j - 1
    <3>1. i \in 1..(Len(a) + Len(b)) /\ i <= Len(a) /\ j \in 1..Len(w)
      BY <1>1
    <3>2. c[i] = w[j] /\ w[j] = u[j]
      BY <1>3, <2>1, <3>1
    <3> HIDE DEF i
    <3>3. a[i] = u[j]
      BY <1>2, <3>1, <3>2
    <3> QED
      BY <3>3 DEF i
  <2>3. \A j \in 1..(Len(w) - k) : b[j] = v[j]
    <3> TAKE j \in 1..(Len(w) - k)
    <3> DEFINE m == k + j
               i == at + m - 1
    <3>0. at + Len(w) <= Len(a) + Len(b) + 1
      BY <1>2, <2>1
    <3>1. m \in 1..Len(w) /\ i \in 1..(Len(a) + Len(b)) /\ ~(i <= Len(a)) /\ i - Len(a) = j
      BY <1>1, <3>0
    <3>2. v[j] = w[m]
      BY <1>3
    <3> HIDE DEF m
    <3>3. c[i] = w[m]
      BY <2>1, <3>1
    <3> HIDE DEF i
    <3> QED
      BY <1>2, <3>1, <3>2, <3>3
  <2>4. \A j \in 1..(Len(w) - k) : b[1 + j - 1] = v[j]
    BY <1>1, <2>3
  <2>5. 1 + Len(v) <= Len(b) + 1
    BY <1>1, <1>2, <1>3, <2>1
  <2> QED
    BY <1>1, <1>3, <2>2, <2>4, <2>5 DEF OccursAt
<1>5. ASSUME OccursAt(a, u, at), OccursAt(b, v, 1) PROVE OccursAt(c, w, at)
  <2>1. \A j \in 1..k : a[at + j - 1] = w[j]
    BY <1>3, <1>5 DEF OccursAt
  <2>2. Len(w) - k <= Len(b) /\ \A j \in 1..(Len(w) - k) : b[1 + j - 1] = v[j]
    BY <1>1, <1>3, <1>5 DEF OccursAt
  <2>3. \A j \in 1..(Len(w) - k) : b[j] = w[k + j]
    BY <1>1, <1>3, <2>2
  <2>4. ASSUME NEW j \in 1..Len(w) PROVE c[at + j - 1] = w[j]
    <3>1. CASE j <= k
      <4> DEFINE i == at + j - 1
      <4>1. i \in 1..(Len(a) + Len(b)) /\ i <= Len(a) /\ j \in 1..k
        BY <1>1, <3>1
      <4>2. a[i] = w[j]
        BY <2>1, <4>1
      <4> HIDE DEF i
      <4>3. c[i] = w[j]
        BY <1>2, <4>1, <4>2
      <4> QED
        BY <4>3 DEF i
    <3>2. CASE ~(j <= k)
      <4> DEFINE m == j - k
                 i == at + j - 1
      <4>0. Len(w) - k <= Len(b)
        BY <2>2
      <4>1. /\ m \in 1..(Len(w) - k) /\ k + m = j /\ i - Len(a) = m
            /\ i \in 1..(Len(a) + Len(b)) /\ ~(i <= Len(a))
        BY <1>1, <3>2, <4>0
      <4> HIDE DEF m, i
      <4>2. b[m] = w[k + m]
        BY <2>3, <4>1
      <4>3. c[i] = w[j]
        BY <1>2, <4>1, <4>2
      <4> QED
        BY <4>3 DEF i
    <3> QED
      BY <3>1, <3>2
  <2>5. at + Len(w) <= Len(c) + 1
    BY <1>1, <1>2, <2>2
  <2> QED
    BY <2>4, <2>5 DEF OccursAt
<1> QED
  BY <1>4, <1>5 DEF c, u, v

\* What stands across two results stood across the texts.
LEMMA StraddlesBefore ==
  ASSUME NEW a \in Texts, NEW b \in Texts, NEW value \in Seq(Symbols), Len(value) >= 1,
         NEW w \in Seq(Symbols), Straddles(Replaced(a, value), Replaced(b, value), w)
  PROVE  Straddles(a, b, w)
<1> DEFINE ra == Replaced(a, value)
           rb == Replaced(b, value)
<1>1. ra \in Texts /\ rb \in Texts
  BY ScanExists, ScanTyped
<1>2. Comes(a, value, 1, ra) /\ Comes(b, value, 1, rb)
  BY ReplacedKeeps
<1>3. PICK p \in 1..Len(ra) : OccursAt(Join(ra, rb), w, p) /\ p + Len(w) > Len(ra) + 1
  BY DEF Straddles
<1> HIDE DEF ra, rb
<1> DEFINE k == Len(ra) - p + 1
           u == SubSeq(w, 1, k)
           v == SubSeq(w, k + 1, Len(w))
<1>4. Len(a) \in Nat /\ Len(b) \in Nat /\ Len(ra) \in Nat /\ Len(rb) \in Nat /\ Len(w) \in Nat
  BY <1>1, TextShape, LenProperties
<1>5. k \in 1..(Len(w) - 1) /\ p + k = Len(ra) + 1 /\ k \in 0..Len(w)
  BY <1>3, <1>4
<1> HIDE DEF k
<1>6. OccursAt(ra, u, p) /\ OccursAt(rb, v, 1)
  BY <1>1, <1>3, <1>5, OccursInParts
<1>7. u \in Seq(Symbols) /\ Len(u) = k /\ v \in Seq(Symbols) /\ Len(v) = Len(w) - k
  BY <1>5, PartsOf
<1> HIDE DEF u, v
<1>8. PICK q \in 1..Len(a) : OccursAt(a, u, q) /\ q + k = Len(a) + 1
  <2>1. \E m \in 1..Len(a) : CameFrom(a, value, 1, ra, u, p, m)
    BY <1>2, <1>5, <1>6, <1>7 DEF Comes
  <2> QED
    BY <1>5, <1>7, <2>1 DEF CameFrom
<1>9. OccursAt(b, v, 1)
  <2>1. 1 \in 1..Len(rb) /\ Len(v) >= 1
    BY <1>4, <1>5, <1>6, <1>7 DEF OccursAt
  <2>2. \E m \in 1..Len(b) : CameFrom(b, value, 1, rb, v, 1, m)
    BY <1>2, <1>6, <1>7, <2>1 DEF Comes
  <2> QED
    BY <2>2 DEF CameFrom
<1>10. OccursAt(Join(a, b), w, q)
  BY <1>5, <1>8, <1>9, OccursInParts DEF u, v
<1>11. q + Len(w) > Len(a) + 1
  BY <1>4, <1>5, <1>8
<1> QED
  BY <1>8, <1>10, <1>11 DEF Straddles

\* Redact gives a text.
LEMMA RedactTyped ==
  ASSUME NEW text \in Texts, NEW configured \in Seq(Seq(Symbols))
  PROVE  Redact(text, configured) \in Texts
<1>1. PICK f : IsChain(f, text, configured) /\ Redact(text, configured) = f[Len(configured)]
  BY ChainExists
<1>2. Len(configured) \in 0..Len(configured)
  BY LenProperties
<1> QED
  BY <1>1, <1>2 DEF IsChain

\* No value that counts stands across a and b.
Clear(a, b, configured) ==
    \A i \in DOMAIN configured : Len(configured[i]) >= 3 => ~Straddles(a, b, configured[i])

\* Removing a value from two texts that no value stands across is removing it from
\* each, and leaves two such texts.
LEMMA ClearAfter ==
  ASSUME NEW a \in Texts, NEW b \in Texts, NEW configured \in Seq(Seq(Symbols)),
         Clear(a, b, configured), NEW k \in DOMAIN configured
  PROVE  /\ Removed(Join(a, b), configured[k])
              = Join(Removed(a, configured[k]), Removed(b, configured[k]))
         /\ Clear(Removed(a, configured[k]), Removed(b, configured[k]), configured)
<1> DEFINE value == configured[k]
<1>1. \A i \in DOMAIN configured : configured[i] \in Seq(Symbols) /\ Len(configured[i]) \in Nat
  BY LenProperties, ElementOfSeq
<1>2. value \in Seq(Symbols) /\ Len(value) \in Nat
  BY <1>1
<1>3. CASE Len(value) < 3
  BY <1>3 DEF Removed
<1>4. CASE ~(Len(value) < 3)
  <2>1. Len(value) >= 3 /\ Len(value) >= 1
    BY <1>2, <1>4
  <2>2. /\ Removed(Join(a, b), value) = Replaced(Join(a, b), value)
        /\ Removed(a, value) = Replaced(a, value)
        /\ Removed(b, value) = Replaced(b, value)
    BY <1>4 DEF Removed
  <2>3. ~Straddles(a, b, value)
    BY <2>1 DEF Clear
  <2>4. Removed(Join(a, b), value) = Join(Removed(a, value), Removed(b, value))
    BY <1>2, <2>1, <2>2, <2>3, ReplacedSplits
  <2>5. ASSUME NEW i \in DOMAIN configured, Len(configured[i]) >= 3,
               Straddles(Removed(a, value), Removed(b, value), configured[i])
        PROVE  FALSE
    <3>1. Straddles(a, b, configured[i])
      <4>1. Straddles(Replaced(a, value), Replaced(b, value), configured[i])
        BY <2>2, <2>5
      <4>2. configured[i] \in Seq(Symbols)
        BY <1>1
      <4> HIDE DEF value
      <4> QED
        BY <1>2, <2>1, <4>1, <4>2, StraddlesBefore
    <3> QED
      BY <2>5, <3>1 DEF Clear
  <2> HIDE DEF value
  <2>6. Clear(Removed(a, value), Removed(b, value), configured)
    BY <2>5 DEF Clear
  <2> QED
    BY <2>4, <2>6 DEF value
<1> QED
  BY <1>3, <1>4

\* When no value stands across two texts, both can be redacted one by one, for any values
\* (redaction.go:12-24).
THEOREM RedactSplits ==
  ASSUME NEW a \in Texts, NEW b \in Texts, NEW configured \in Seq(Seq(Symbols)),
         Clear(a, b, configured)
  PROVE  Redact(Join(a, b), configured) = Join(Redact(a, configured), Redact(b, configured))
<1> DEFINE n == Len(configured)
<1>1. n \in Nat /\ DOMAIN configured = 1..n
  BY LenProperties
<1>2. PICK fa : IsChain(fa, a, configured) /\ Redact(a, configured) = fa[n]
  BY ChainExists
<1>3. PICK fb : IsChain(fb, b, configured) /\ Redact(b, configured) = fb[n]
  BY ChainExists
<1>4. PICK fc : IsChain(fc, Join(a, b), configured) /\ Redact(Join(a, b), configured) = fc[n]
  BY ChainExists, JoinShape
<1> DEFINE Good(k) == fc[k] = Join(fa[k], fb[k]) /\ Clear(fa[k], fb[k], configured)
           S == {k \in Nat : k <= n => Good(k)}
<1>5. Good(0)
  BY <1>2, <1>3, <1>4 DEF IsChain
<1>6. ASSUME NEW k \in Nat, k + 1 <= n, Good(k) PROVE Good(k + 1)
  <2>1. k \in 0..n /\ k + 1 \in 1..n /\ k + 1 - 1 = k
    BY <1>1, <1>6
  <2>2. fa[k] \in Texts /\ fb[k] \in Texts
    BY <1>2, <1>3, <2>1 DEF IsChain
  <2>3. fa[k + 1] = Removed(fa[k], configured[k + 1])
    <3>1. fa[k + 1] = Removed(fa[k + 1 - 1], configured[k + 1])
      BY <1>2, <2>1 DEF IsChain
    <3> QED
      BY <2>1, <3>1
  <2>4. fb[k + 1] = Removed(fb[k], configured[k + 1])
    <3>1. fb[k + 1] = Removed(fb[k + 1 - 1], configured[k + 1])
      BY <1>3, <2>1 DEF IsChain
    <3> QED
      BY <2>1, <3>1
  <2>5. fc[k + 1] = Removed(Join(fa[k], fb[k]), configured[k + 1])
    <3>1. fc[k + 1] = Removed(fc[k + 1 - 1], configured[k + 1])
      BY <1>4, <2>1 DEF IsChain
    <3> QED
      BY <1>6, <2>1, <3>1
  <2>6. k + 1 \in DOMAIN configured
    BY <1>1, <2>1
  <2> QED
    BY <1>6, <2>2, <2>3, <2>4, <2>5, <2>6, ClearAfter
<1>7. n \in S
  <2> HIDE DEF n, Good
  <2>1. 0 \in S
    BY <1>5
  <2>2. \A k \in Nat : k \in S => k + 1 \in S
    BY <1>1, <1>6
  <2> HIDE DEF S
  <2> QED
    BY <1>1, <2>1, <2>2, SetInduction
<1>8. Good(n)
  <2> HIDE DEF n, Good
  <2> QED
    BY <1>1, <1>7
<1> QED
  BY <1>2, <1>3, <1>4, <1>8

\* There is nothing in nothing.
LEMMA RedactOfNothing ==
  ASSUME NEW configured \in Seq(Seq(Symbols))
  PROVE  Redact(<<>>, configured) = <<>>
<1> DEFINE r == Redact(<<>>, configured)
<1>1. <<>> \in Texts /\ Len(<<>>) = 0 /\ r \in Texts
  BY EmptyShape, RedactTyped
<1>2. Clear(<<>>, <<>>, configured)
  BY <1>1 DEF Clear, Straddles
<1>3. Join(<<>>, <<>>) = <<>>
  BY <1>1, JoinEmpty
<1>4. r = Join(r, r)
  BY <1>1, <1>2, <1>3, RedactSplits
<1> HIDE DEF r
<1>5. Len(r) = 0
  BY <1>1, <1>4, JoinShape, TextShape
<1>6. r = <<>>
  BY <1>1, <1>5, EmptySeq DEF Texts
<1> QED
  BY <1>6 DEF r

\* No value of three bytes or more is left in what Redact returns, for any values: removing
\* a later one does not make an earlier one appear (redaction.go:12-24).
THEOREM RedactCleans ==
  ASSUME NEW text \in Texts, NEW configured \in Seq(Seq(Symbols)),
         NEW i \in DOMAIN configured, Len(configured[i]) >= 3,
         NEW at \in 1..Len(Redact(text, configured))
  PROVE  ~OccursAt(Redact(text, configured), configured[i], at)
<1> DEFINE n == Len(configured)
           w == configured[i]
<1>1. /\ n \in Nat /\ DOMAIN configured = 1..n
      /\ w \in Seq(Symbols) /\ \A k \in 1..n : configured[k] \in Seq(Symbols)
  BY LenProperties, ElementOfSeq
<1>2. PICK f : IsChain(f, text, configured) /\ Redact(text, configured) = f[n]
  BY ChainExists
<1> DEFINE Good(k) == i <= k => \A p \in 1..Len(f[k]) : ~OccursAt(f[k], w, p)
           S == {k \in Nat : k <= n => Good(k)}
<1>3. ASSUME NEW k \in Nat, k + 1 <= n, Good(k) PROVE Good(k + 1)
  <2> DEFINE value == configured[k + 1]
  <2>1. k \in 0..n /\ k + 1 \in 1..n /\ k + 1 - 1 = k /\ value \in Seq(Symbols)
    BY <1>1, <1>3
  <2>2. f[k] \in Texts
    BY <1>2, <2>1 DEF IsChain
  <2>3. f[k + 1] = Removed(f[k], value)
    <3>1. f[k + 1] = Removed(f[k + 1 - 1], configured[k + 1])
      BY <1>2, <2>1 DEF IsChain
    <3> QED
      BY <2>1, <3>1
  <2>4. i = k + 1 => value = w
    OBVIOUS
  <2> HIDE DEF value, n
  <2>5. Len(w) >= 3 /\ Len(value) \in Nat
    BY <2>1, LenProperties
  <2> HIDE DEF w
  <2>6. ASSUME i <= k + 1, NEW p \in 1..Len(f[k + 1]), OccursAt(f[k + 1], w, p) PROVE FALSE
    <3>1. CASE Len(value) < 3
      <4>1. f[k + 1] = f[k] /\ i # k + 1
        BY <2>3, <2>4, <2>5, <3>1 DEF Removed
      <4>2. i <= k
        BY <1>1, <2>6, <4>1
      <4> QED
        BY <1>3, <2>6, <4>1, <4>2
    <3>2. CASE ~(Len(value) < 3)
      <4>1. f[k + 1] = Replaced(f[k], value) /\ Len(value) >= 1 /\ Len(w) >= 1
        BY <2>3, <2>5, <3>2 DEF Removed
      <4>2. Comes(f[k], value, 1, f[k + 1])
        BY <2>1, <2>2, <4>1, ReplacedKeeps
      <4>3. PICK q \in 1..Len(f[k]) : CameFrom(f[k], value, 1, f[k + 1], w, p, q)
        BY <1>1, <2>6, <4>1, <4>2 DEF Comes
      <4>4. OccursAt(f[k], w, q) /\ ~OccursAt(f[k], value, q)
        BY <4>3 DEF CameFrom
      <4>5. i # k + 1
        BY <2>4, <4>4
      <4>6. i <= k
        BY <1>1, <2>6, <4>5
      <4> QED
        BY <1>3, <4>4, <4>6
    <3> QED
      BY <3>1, <3>2
  <2> QED
    BY <2>6
<1>4. Good(0)
  <2>1. ~(i <= 0)
    BY <1>1
  <2> QED
    BY <2>1
<1>5. n \in S
  <2> HIDE DEF n, Good
  <2>1. 0 \in S
    BY <1>4
  <2>2. \A k \in Nat : k \in S => k + 1 \in S
    BY <1>1, <1>3
  <2> HIDE DEF S
  <2> QED
    BY <1>1, <2>1, <2>2, SetInduction
<1>6. Good(n) /\ i <= n
  <2> HIDE DEF n, Good
  <2> QED
    BY <1>1, <1>5
<1> QED
  BY <1>2, <1>6

-----------------------------------------------------------------------------
(***************************************************************************)
(* The values of a writer.                                                 *)
(***************************************************************************)

\* The sequences of values of configured that are long enough.
LongOnes(configured) ==
    {kept \in Seq(Seq(Symbols)) :
        \A i \in DOMAIN kept : /\ Len(kept[i]) >= 3
                               /\ \E j \in DOMAIN configured : kept[i] = configured[j]}

\* Keeping a value that is long enough.
LEMMA KeepTyped ==
  ASSUME NEW configured \in Seq(Seq(Symbols)), NEW kept \in LongOnes(configured),
         NEW j \in DOMAIN configured
  PROVE  Keep(kept, configured[j]) \in LongOnes(configured)
<1> DEFINE value == configured[j]
           more == Append(kept, value)
<1>1. value \in Seq(Symbols) /\ Len(value) \in Nat
  BY ElementOfSeq, LenProperties
<1>2. kept \in Seq(Seq(Symbols))
  BY DEF LongOnes
<1>3. CASE Len(value) < 3
  BY <1>3 DEF Keep
<1>4. CASE ~(Len(value) < 3)
  <2>1. Len(value) >= 3
    BY <1>1, <1>4
  <2>2. Len(kept) \in Nat /\ DOMAIN kept = 1..Len(kept)
    BY <1>2, LenProperties
  <2>3. /\ more \in Seq(Seq(Symbols))
        /\ Len(more) = Len(kept) + 1
        /\ \A i \in 1..Len(kept) : more[i] = kept[i]
        /\ more[Len(kept) + 1] = value
    BY <1>1, <1>2, AppendProperties
  <2>4. DOMAIN more = 1..Len(more)
    BY <2>3, LenProperties
  <2> HIDE DEF more
  <2>5. \A i \in DOMAIN more : /\ Len(more[i]) >= 3
                               /\ \E k \in DOMAIN configured : more[i] = configured[k]
    <3> TAKE i \in DOMAIN more
    <3>1. CASE i = Len(kept) + 1
      BY <2>1, <2>3, <3>1
    <3>2. CASE i # Len(kept) + 1
      <4>1. i \in DOMAIN kept
        BY <2>2, <2>3, <2>4, <3>2
      <4>2. more[i] = kept[i]
        BY <2>2, <2>3, <4>1
      <4> QED
        BY <4>1, <4>2 DEF LongOnes
    <3> QED
      BY <3>1, <3>2
  <2>6. more \in LongOnes(configured)
    BY <2>3, <2>5 DEF LongOnes
  <2> QED
    BY <1>4, <2>6 DEF Keep, more
<1> QED
  BY <1>3, <1>4

\* NewWriter takes values it was given, and only those that are long enough
\* (redaction.go:35-44).
LEMMA EligibleShape ==
  ASSUME NEW configured \in Seq(Seq(Symbols))
  PROVE  Eligible(configured) \in LongOnes(configured)
<1> DEFINE n == Len(configured)
           V == LongOnes(configured)
           F == [vi \in V \X (1..n) |-> Keep(vi[1], configured[vi[2]])]
           Eqn(g) == g = [s \in SUBSET DOMAIN configured |->
                            IF s = {} THEN <<>>
                            ELSE Keep(g[s \ {Max(s)}], configured[Max(s)])]
           iter == CHOOSE g : Eqn(g)
<1>1. n \in Nat /\ DOMAIN configured = 1..n
  BY LenProperties
<1>2. Eligible(configured) = iter[DOMAIN configured]
  BY DEF Eligible, FoldLeft, MapThenFoldSet
<1> HIDE DEF n, V
<1>3. F \in [V \X (1..n) -> V]
  BY <1>1, KeepTyped DEF V
<1>4. \A v \in V, k \in 1..n : F[<<v, k>>] = Keep(v, configured[k])
  OBVIOUS
<1>5. <<>> \in V
  BY DEF V, LongOnes
<1> HIDE DEF F
<1>6. \E g : Eqn(g)
  <2>1. PICK g \in [SUBSET (1..n) -> V] : \A s \in SUBSET (1..n) :
                g[s] = FoldBody(g, s, <<>>, F)
    <3>1. FoldTo(n, V, <<>>, F)
      BY <1>1, <1>3, <1>5, FoldExists
    <3> QED
      BY <3>1 DEF FoldTo
  <2>2. ASSUME NEW s \in SUBSET (1..n)
        PROVE  g[s] = IF s = {} THEN <<>> ELSE Keep(g[s \ {Max(s)}], configured[Max(s)])
    <3>1. CASE s = {}
      BY <2>1, <3>1 DEF FoldBody
    <3>2. CASE s # {}
      <4>1. Max(s) \in 1..n /\ s \ {Max(s)} \in SUBSET (1..n)
        BY <1>1, <3>2, MaxOfSome
      <4>2. g[s \ {Max(s)}] \in V
        BY <4>1
      <4> QED
        BY <1>4, <2>1, <3>2, <4>1, <4>2 DEF FoldBody
    <3> QED
      BY <3>1, <3>2
  <2>3. Eqn(g)
    BY <1>1, <2>2
  <2> QED
    BY <2>3
<1>7. Eqn(iter)
  BY <1>6
<1> HIDE DEF iter
<1>8. iter[{}] = <<>>
  BY <1>1, <1>7
<1>9. ASSUME NEW s \in SUBSET (1..n), s # {}, iter[s \ {Max(s)}] \in V
      PROVE  iter[s] = F[<<iter[s \ {Max(s)}], Max(s)>>]
  <2>1. iter[s] = Keep(iter[s \ {Max(s)}], configured[Max(s)])
    BY <1>1, <1>7, <1>9
  <2>2. Max(s) \in 1..n
    BY <1>1, <1>9, MaxOfSome
  <2> QED
    BY <1>4, <1>9, <2>1, <2>2
<1> HIDE DEF Eqn
<1>10. IsFold(iter, n, V, <<>>, F)
  BY <1>8, <1>9 DEF IsFold
<1>11. PICK f : IsWalk(f, n, V, <<>>, F) /\ f[n] = iter[1..n]
  <2>1. HasWalk(iter, n, V, <<>>, F)
    BY <1>1, <1>3, <1>5, <1>10, FoldSteps
  <2> QED
    BY <2>1 DEF HasWalk
<1>12. f[n] \in V
  <2>1. n \in 0..n
    BY <1>1
  <2> QED
    BY <1>11, <2>1 DEF IsWalk
<1> QED
  BY <1>1, <1>2, <1>11, <1>12 DEF V

-----------------------------------------------------------------------------
(***************************************************************************)
(* Texts without a marker.                                                 *)
(***************************************************************************)

\* The output of the child, its pieces and the values: no markers.
Plain == Seq(Symbols)

\* A text without a marker is a text.
LEMMA PlainShape ==
  ASSUME NEW text \in Plain
  PROVE  /\ text \in Texts
         /\ Len(text) \in Nat
         /\ DOMAIN text = 1..Len(text)
         /\ \A i \in 1..Len(text) : text[i] \in Symbols
<1>1. Len(text) \in Nat /\ DOMAIN text = 1..Len(text) /\ \A i \in 1..Len(text) : text[i] \in Symbols
  BY LenProperties, ElementOfSeq DEF Plain
<1>2. text \in Texts
  BY DEF Plain, Texts
<1> QED
  BY <1>1, <1>2

\* What stands where in a part of one.
LEMMA PlainCut ==
  ASSUME NEW text \in Plain, NEW m \in 1..(Len(text) + 1), NEW n \in (m - 1)..Len(text)
  PROVE  /\ SubSeq(text, m, n) \in Plain
         /\ Len(SubSeq(text, m, n)) = n - m + 1
         /\ \A i \in 1..(n - m + 1) : SubSeq(text, m, n)[i] = text[m + i - 1]
<1>1. Len(text) \in Nat /\ \A i \in m..n : text[i] \in Symbols
  BY PlainShape
<1> QED
  BY <1>1, SubSeqProperties DEF Plain

\* What stands where in two, one after the other.
LEMMA PlainJoin ==
  ASSUME NEW a \in Plain, NEW b \in Plain
  PROVE  /\ Join(a, b) \in Plain
         /\ Len(Join(a, b)) = Len(a) + Len(b)
         /\ \A i \in 1..(Len(a) + Len(b)) :
               Join(a, b)[i] = IF i <= Len(a) THEN a[i] ELSE b[i - Len(a)]
  BY ConcatProperties DEF Plain, Join

\* Two of them with the same at each place are the same.
LEMMA SamePlain ==
  ASSUME NEW a \in Plain, NEW b \in Plain, Len(a) = Len(b), \A i \in 1..Len(a) : a[i] = b[i]
  PROVE  a = b
  BY SeqEqual DEF Plain

\* The end of a text grows with it, its start does not change.
LEMMA GrownText ==
  ASSUME NEW text \in Plain, NEW chunk \in Plain, NEW p \in 0..Len(text)
  PROVE  /\ Join(SubSeq(text, p + 1, Len(text)), chunk)
              = SubSeq(Join(text, chunk), p + 1, Len(text) + Len(chunk))
         /\ SubSeq(Join(text, chunk), 1, p) = SubSeq(text, 1, p)
<1> DEFINE c == Join(text, chunk)
           r == SubSeq(text, p + 1, Len(text))
           left == Join(r, chunk)
           right == SubSeq(c, p + 1, Len(text) + Len(chunk))
           s == SubSeq(c, 1, p)
           t == SubSeq(text, 1, p)
<1>1. Len(text) \in Nat /\ Len(chunk) \in Nat
  BY PlainShape
<1>2. /\ c \in Plain
      /\ Len(c) = Len(text) + Len(chunk)
      /\ \A i \in 1..(Len(text) + Len(chunk)) :
            c[i] = IF i <= Len(text) THEN text[i] ELSE chunk[i - Len(text)]
  BY PlainJoin
<1>3. /\ r \in Plain
      /\ Len(r) = Len(text) - p
      /\ \A i \in 1..(Len(text) - p) : r[i] = text[p + i]
  <2> DEFINE m == p + 1
             n == Len(text)
  <2>1. m \in 1..(Len(text) + 1) /\ n \in (m - 1)..Len(text)
    BY <1>1
  <2>2. /\ SubSeq(text, m, n) \in Plain
        /\ Len(SubSeq(text, m, n)) = n - m + 1
        /\ \A i \in 1..(n - m + 1) : SubSeq(text, m, n)[i] = text[m + i - 1]
    BY <2>1, PlainCut
  <2>3. n - m + 1 = Len(text) - p
    BY <1>1
  <2>4. \A i \in 1..(Len(text) - p) : r[i] = text[p + i]
    <3> TAKE i \in 1..(Len(text) - p)
    <3>1. m + i - 1 = p + i /\ i \in 1..(n - m + 1)
      BY <1>1
    <3> HIDE DEF m, n
    <3>2. SubSeq(text, m, n)[i] = text[m + i - 1]
      BY <2>2, <3>1
    <3> QED
      BY <3>1, <3>2 DEF m, n
  <2> QED
    BY <2>2, <2>3, <2>4
<1> HIDE DEF c
<1>4. /\ right \in Plain
      /\ Len(right) = Len(text) - p + Len(chunk)
      /\ \A i \in 1..(Len(text) - p + Len(chunk)) : right[i] = c[p + i]
  <2> DEFINE m == p + 1
             n == Len(text) + Len(chunk)
  <2>1. m \in 1..(Len(c) + 1) /\ n \in (m - 1)..Len(c)
    BY <1>1, <1>2
  <2>2. /\ SubSeq(c, m, n) \in Plain
        /\ Len(SubSeq(c, m, n)) = n - m + 1
        /\ \A i \in 1..(n - m + 1) : SubSeq(c, m, n)[i] = c[m + i - 1]
    BY <1>2, <2>1, PlainCut
  <2>3. n - m + 1 = Len(text) - p + Len(chunk) /\ \A i \in Nat : m + i - 1 = p + i
    BY <1>1
  <2> QED
    BY <2>2, <2>3
<1>5. /\ s \in Plain /\ t \in Plain /\ Len(s) = p /\ Len(t) = p
      /\ \A i \in 1..p : s[i] = c[i] /\ t[i] = text[i]
  <2>1. 1 \in 1..(Len(c) + 1) /\ p \in (1 - 1)..Len(c) /\ 1 \in 1..(Len(text) + 1)
        /\ p \in (1 - 1)..Len(text)
    BY <1>1, <1>2
  <2>2. /\ s \in Plain /\ Len(s) = p - 1 + 1 /\ \A i \in 1..(p - 1 + 1) : s[i] = c[1 + i - 1]
    BY <1>2, <2>1, PlainCut
  <2>3. /\ t \in Plain /\ Len(t) = p - 1 + 1 /\ \A i \in 1..(p - 1 + 1) : t[i] = text[1 + i - 1]
    BY <2>1, PlainCut
  <2>4. p - 1 + 1 = p /\ \A i \in Nat : 1 + i - 1 = i
    BY <1>1
  <2> HIDE DEF s, t
  <2> QED
    BY <2>2, <2>3, <2>4
<1> HIDE DEF r
<1>6. /\ left \in Plain
      /\ Len(left) = Len(text) - p + Len(chunk)
      /\ \A i \in 1..(Len(r) + Len(chunk)) :
            left[i] = IF i <= Len(r) THEN r[i] ELSE chunk[i - Len(r)]
  BY <1>3, PlainJoin
<1> HIDE DEF left, right, s, t
<1>7. ASSUME NEW i \in 1..Len(left) PROVE left[i] = right[i]
  <2> DEFINE k == p + i
  <2>1. /\ i \in 1..(Len(r) + Len(chunk)) /\ i \in 1..(Len(text) - p + Len(chunk))
        /\ k \in 1..(Len(text) + Len(chunk))
        /\ i <= Len(r) <=> k <= Len(text)
        /\ i <= Len(r) => i \in 1..(Len(text) - p)
        /\ i - Len(r) = k - Len(text)
    BY <1>1, <1>3, <1>6
  <2>2. right[i] = c[k] /\ (i <= Len(r) => r[i] = text[k])
    BY <1>3, <1>4, <2>1
  <2> HIDE DEF k
  <2>3. c[k] = IF k <= Len(text) THEN text[k] ELSE chunk[k - Len(text)]
    BY <1>2, <2>1
  <2>4. left[i] = IF i <= Len(r) THEN r[i] ELSE chunk[i - Len(r)]
    BY <1>6, <2>1
  <2> QED
    BY <2>1, <2>2, <2>3, <2>4
<1>8. left = right
  BY <1>4, <1>6, <1>7, SamePlain
<1>9. ASSUME NEW i \in 1..p PROVE s[i] = t[i]
  <2>1. i \in 1..(Len(text) + Len(chunk)) /\ i <= Len(text)
    BY <1>1
  <2> QED
    BY <1>2, <1>5, <2>1
<1>10. s = t
  BY <1>5, <1>9, SamePlain
<1> QED
  BY <1>8, <1>10 DEF left, right, s, t, r, c

\* The parts of the end of a text are parts of the text.
LEMMA CutOfCut ==
  ASSUME NEW text \in Plain, NEW p \in 0..Len(text), NEW held,
         held = SubSeq(text, p + 1, Len(text)), NEW k \in 0..(Len(text) - p)
  PROVE  /\ held \in Plain /\ Len(held) = Len(text) - p
         /\ \A i \in 1..(Len(text) - p) : held[i] = text[p + i]
         /\ SubSeq(held, 1, k) = SubSeq(text, p + 1, p + k)
         /\ SubSeq(held, k + 1, Len(held)) = SubSeq(text, p + k + 1, Len(text))
<1>1. Len(text) \in Nat
  BY PlainShape
<1>2. ASSUME NEW m \in 1..(Len(text) + 1), NEW n \in (m - 1)..Len(text)
      PROVE  /\ SubSeq(text, m, n) \in Plain
             /\ Len(SubSeq(text, m, n)) = n - m + 1
             /\ \A i \in 1..(n - m + 1) : SubSeq(text, m, n)[i] = text[m - 1 + i]
  <2>1. \A i \in 1..(n - m + 1) : m + i - 1 = m - 1 + i
    BY <1>1
  <2> QED
    BY <2>1, PlainCut
<1>3. /\ held \in Plain /\ Len(held) = Len(text) - p
      /\ \A i \in 1..(Len(text) - p) : held[i] = text[p + i]
  <2> DEFINE m == p + 1
             n == Len(text)
  <2>1. m \in 1..(Len(text) + 1) /\ n \in (m - 1)..Len(text)
    BY <1>1
  <2>2. n - m + 1 = Len(text) - p /\ m - 1 = p
    BY <1>1
  <2>3. held = SubSeq(text, m, n)
    OBVIOUS
  <2> HIDE DEF m, n
  <2> QED
    BY <1>2, <2>1, <2>2, <2>3
<1>4. ASSUME NEW m \in 1..(Len(held) + 1), NEW n \in (m - 1)..Len(held)
      PROVE  SubSeq(held, m, n) = SubSeq(text, p + m, p + n)
  <2> DEFINE a == SubSeq(held, m, n)
             d == p + m
             e == p + n
             b == SubSeq(text, d, e)
  <2>1. d \in 1..(Len(text) + 1) /\ e \in (d - 1)..Len(text) /\ e - d + 1 = n - m + 1
    BY <1>1, <1>3
  <2>2. /\ b \in Plain /\ Len(b) = n - m + 1
        /\ \A i \in 1..(n - m + 1) : b[i] = text[d - 1 + i]
    <3> HIDE DEF d, e
    <3> QED
      BY <1>2, <2>1
  <2>3. /\ a \in Plain /\ Len(a) = n - m + 1
        /\ \A i \in 1..(n - m + 1) : a[i] = held[m + i - 1]
    BY <1>3, PlainCut
  <2> HIDE DEF a, b
  <2>4. ASSUME NEW i \in 1..(n - m + 1) PROVE a[i] = b[i]
    <3> DEFINE j == m + i - 1
    <3>1. j \in 1..(Len(text) - p) /\ p + j = d - 1 + i
      BY <1>1, <1>3
    <3>2. a[i] = held[j] /\ b[i] = text[d - 1 + i]
      BY <2>2, <2>3
    <3> HIDE DEF j
    <3>3. held[j] = text[p + j]
      BY <1>3, <3>1
    <3> QED
      BY <3>1, <3>2, <3>3
  <2>5. a = b
    BY <2>2, <2>3, <2>4, SamePlain
  <2> QED
    BY <2>5 DEF a, b
<1>5. SubSeq(held, 1, k) = SubSeq(text, p + 1, p + k)
  <2>1. 1 \in 1..(Len(held) + 1) /\ k \in (1 - 1)..Len(held)
    BY <1>1, <1>3
  <2> QED
    BY <1>4, <2>1
<1>6. SubSeq(held, k + 1, Len(held)) = SubSeq(text, p + k + 1, Len(text))
  <2> DEFINE m == k + 1
             n == Len(held)
  <2>1. m \in 1..(Len(held) + 1) /\ n \in (m - 1)..Len(held)
    BY <1>1, <1>3
  <2>2. SubSeq(held, m, n) = SubSeq(text, p + m, p + n)
    <3> HIDE DEF m, n
    <3> QED
      BY <1>4, <2>1
  <2>3. p + m = p + k + 1 /\ p + n = Len(text)
    BY <1>1, <1>3
  <2> QED
    BY <2>2, <2>3
<1> QED
  BY <1>3, <1>5, <1>6

-----------------------------------------------------------------------------
(***************************************************************************)
(* What is held back.                                                      *)
(***************************************************************************)

\* EndsWithStart, place by place.
LEMMA EndsShape ==
  ASSUME NEW text \in Plain, NEW value \in Plain, NEW length \in 1..Len(text),
         length <= Len(value)
  PROVE  EndsWithStart(text, value, length)
            <=> \A j \in 1..length : text[Len(text) - length + j] = value[j]
<1> DEFINE d == Len(text) - length
           m == d + 1
           a == SubSeq(text, m, Len(text))
           b == SubSeq(value, 1, length)
<1>1. Len(text) \in Nat /\ Len(value) \in Nat
  BY PlainShape
<1>2. /\ m \in 1..(Len(text) + 1) /\ Len(text) \in (m - 1)..Len(text) /\ d \in Nat
      /\ Len(text) - m + 1 = length
  BY <1>1
<1> HIDE DEF d
<1>3. /\ a \in Plain /\ Len(a) = length
      /\ \A j \in 1..length : a[j] = text[m + j - 1]
  <2> HIDE DEF m
  <2> QED
    BY <1>1, <1>2, PlainCut
<1>4. \A j \in 1..length : a[j] = text[d + j]
  <2> TAKE j \in 1..length
  <2>1. m + j - 1 = d + j
    BY <1>2
  <2> HIDE DEF m
  <2> QED
    BY <1>3, <2>1
<1>5. /\ b \in Plain /\ Len(b) = length
      /\ \A j \in 1..length : b[j] = value[j]
  <2>1. 1 \in 1..(Len(value) + 1) /\ length \in (1 - 1)..Len(value) /\ length - 1 + 1 = length
    BY <1>1
  <2>2. /\ b \in Plain /\ Len(b) = length - 1 + 1
        /\ \A j \in 1..(length - 1 + 1) : b[j] = value[1 + j - 1]
    BY <2>1, PlainCut
  <2>3. \A j \in 1..length : 1 + j - 1 = j
    BY <1>1
  <2> HIDE DEF b
  <2> QED
    BY <2>1, <2>2, <2>3
<1>6. EndsWithStart(text, value, length) <=> a = b
  BY DEF EndsWithStart, d
<1> HIDE DEF a, b
<1>7. a = b <=> \A j \in 1..length : a[j] = b[j]
  BY <1>3, <1>5, SamePlain
<1>8. EndsWithStart(text, value, length) <=> \A j \in 1..length : text[d + j] = value[j]
  BY <1>4, <1>5, <1>6, <1>7
<1> QED
  BY <1>8 DEF d

\* The number that is held back fits a value, and is the greatest that does
\* (redaction.go:61-77).
LEMMA PartialShape ==
  ASSUME values \in Seq(Plain), NEW text \in Plain
  PROVE  /\ PartialSuffixLength(text) \in 0..Len(text)
         /\ PartialSuffixLength(text) # 0 =>
               \E i \in DOMAIN values :
                  /\ PartialSuffixLength(text) <= Len(values[i]) - 1
                  /\ EndsWithStart(text, values[i], PartialSuffixLength(text))
         /\ \A i \in DOMAIN values, length \in 1..Len(text) :
               length <= Len(values[i]) - 1 /\ EndsWithStart(text, values[i], length) =>
                  length <= PartialSuffixLength(text)
<1> DEFINE Starts(length) == \E i \in DOMAIN values : /\ length <= Len(values[i]) - 1
                                                      /\ EndsWithStart(text, values[i], length)
           S == {0} \cup {length \in 1..Len(text) : Starts(length)}
<1>1. Len(text) \in Nat
  BY PlainShape
<1>2. S \in SUBSET (0..Len(text)) /\ S # {}
  BY <1>1
<1>3. PartialSuffixLength(text) = Max(S)
  BY DEF PartialSuffixLength, LongestStart
<1>4. Max(S) \in S /\ \A y \in S : y <= Max(S)
  <2> HIDE DEF S
  <2> QED
    BY <1>1, <1>2, MaxExists
<1> DEFINE n == PartialSuffixLength(text)
<1>5. n \in S /\ \A y \in S : y <= n
  BY <1>3, <1>4
<1> HIDE DEF n
<1>6. n \in 0..Len(text) /\ (n # 0 => Starts(n))
  BY <1>1, <1>5
<1>7. \A length \in 1..Len(text) : Starts(length) => length <= n
  BY <1>5
<1> QED
  BY <1>6, <1>7 DEF n

\* value may stand in what text is the start of, from at on.
FitsAt(text, value, at) ==
    \A j \in 1..Len(value) : at + j - 1 <= Len(text) => text[at + j - 1] = value[j]

\* However text goes on, no value stands across its place p.
NoneAcross(text, p, configured) ==
    \A i \in DOMAIN configured, at \in 1..p :
        at + Len(configured[i]) > p + 1 => ~FitsAt(text, configured[i], at)

\* What comes later does not make a value fit that did not.
LEMMA NoneAcrossGrows ==
  ASSUME NEW text \in Plain, NEW chunk \in Plain, NEW p \in 0..Len(text),
         NEW configured \in Seq(Plain), NoneAcross(text, p, configured)
  PROVE  NoneAcross(Join(text, chunk), p, configured)
<1> DEFINE c == Join(text, chunk)
<1>1. Len(text) \in Nat /\ Len(chunk) \in Nat
  BY PlainShape
<1>2. /\ Len(c) = Len(text) + Len(chunk)
      /\ \A i \in 1..(Len(text) + Len(chunk)) :
            c[i] = IF i <= Len(text) THEN text[i] ELSE chunk[i - Len(text)]
  BY PlainJoin
<1> HIDE DEF c
<1>3. ASSUME NEW i \in DOMAIN configured, NEW at \in 1..p,
             at + Len(configured[i]) > p + 1, FitsAt(c, configured[i], at)
      PROVE  FALSE
  <2> DEFINE v == configured[i]
  <2>1. v \in Plain /\ Len(v) \in Nat
    BY ElementOfSeq, PlainShape
  <2> HIDE DEF v
  <2>2. ASSUME NEW j \in 1..Len(v), at + j - 1 <= Len(text) PROVE text[at + j - 1] = v[j]
    <3> DEFINE k == at + j - 1
    <3>1. k \in 1..(Len(text) + Len(chunk)) /\ k <= Len(text) /\ k <= Len(c)
      BY <1>1, <1>2, <2>1, <2>2
    <3>2. c[k] = v[j]
      <4>1. k <= Len(c) => c[k] = v[j]
        BY <1>3 DEF FitsAt, v
      <4> QED
        BY <3>1, <4>1
    <3> HIDE DEF k
    <3>3. text[k] = v[j]
      BY <1>2, <3>1, <3>2
    <3> QED
      BY <3>3 DEF k
  <2>3. FitsAt(text, v, at)
    BY <2>2 DEF FitsAt
  <2> QED
    BY <1>3, <2>3 DEF NoneAcross, v
<1>4. NoneAcross(c, p, configured)
  BY <1>3 DEF NoneAcross
<1> QED
  BY <1>4 DEF c

\* When w starts where v has not ended, v ends with the start of w.
LEMMA StartInside ==
  ASSUME NEW text \in Plain, NEW p \in 0..Len(text), NEW held,
         held = SubSeq(text, p + 1, Len(text)),
         NEW v \in Plain, NEW w \in Plain,
         NEW n \in 1..(Len(text) - p), n <= Len(w), EndsWithStart(held, w, n),
         NEW q, q = Len(text) - n, NEW at \in 1..q, FitsAt(text, v, at),
         at + Len(v) > q + 1, at + Len(v) <= Len(text) + 1
  PROVE  EndsWithStart(v, w, at + Len(v) - 1 - q)
<1> DEFINE L == Len(v)
           l == at + L - 1 - q
           t == Len(text)
<1>1. t \in Nat /\ L \in Nat /\ Len(w) \in Nat
  BY PlainShape
<1>2. /\ held \in Plain /\ Len(held) = t - p
      /\ \A i \in 1..(t - p) : held[i] = text[p + i]
  <2>1. 0 \in 0..(Len(text) - p)
    BY <1>1
  <2> QED
    BY <2>1, CutOfCut
<1>3. \A j \in 1..L : at + j - 1 <= t => text[at + j - 1] = v[j]
  BY DEF FitsAt
<1>4. \A j \in 1..n : held[t - p - n + j] = w[j]
  <2>1. n \in 1..Len(held)
    BY <1>2
  <2>2. \A j \in 1..n : held[Len(held) - n + j] = w[j]
    BY <1>2, <2>1, EndsShape
  <2> QED
    BY <1>2, <2>2
<1>5. l \in 1..L /\ l <= n /\ l <= Len(w)
  BY <1>1
<1>6. \A j \in 1..l : v[L - l + j] = w[j]
  <2> TAKE j \in 1..l
  <2> DEFINE k == t - p - n + j
             m == L - l + j
  <2>1. j \in 1..n /\ k \in 1..(t - p) /\ p + k = at + m - 1 /\ m \in 1..L /\ at + m - 1 <= t
    BY <1>1
  <2>2. held[k] = w[j]
    BY <1>4, <2>1
  <2> HIDE DEF k
  <2>3. held[k] = text[p + k]
    BY <1>2, <2>1
  <2> HIDE DEF m
  <2>4. text[at + m - 1] = v[m]
    BY <1>3, <2>1
  <2>5. v[m] = w[j]
    BY <2>1, <2>2, <2>3, <2>4
  <2> QED
    BY <2>5 DEF m
<1> HIDE DEF l
<1>7. EndsWithStart(v, w, l)
  BY <1>5, <1>6, EndsShape
<1> QED
  BY <1>7 DEF l

\* What the writer keeps back is where a value can still begin.
LEMMA Boundary ==
  ASSUME values \in Seq(Plain), Apart(values), \A i \in DOMAIN values : Len(values[i]) >= 3,
         NEW text \in Plain, NEW p \in 0..Len(text), NoneAcross(text, p, values),
         NEW held, held = SubSeq(text, p + 1, Len(text)),
         NEW n, n = PartialSuffixLength(held)
  PROVE  /\ n \in 0..(Len(text) - p)
         /\ NoneAcross(text, Len(text) - n, values)
<1>1. Len(text) \in Nat
  BY PlainShape
<1>2. /\ held \in Plain /\ Len(held) = Len(text) - p
      /\ \A i \in 1..(Len(text) - p) : held[i] = text[p + i]
  <2>1. 0 \in 0..(Len(text) - p)
    BY <1>1
  <2> QED
    BY <2>1, CutOfCut
<1>3. /\ n \in 0..Len(held)
      /\ n # 0 => \E i \in DOMAIN values : /\ n <= Len(values[i]) - 1
                                           /\ EndsWithStart(held, values[i], n)
      /\ \A i \in DOMAIN values, length \in 1..Len(held) :
            length <= Len(values[i]) - 1 /\ EndsWithStart(held, values[i], length) => length <= n
  BY <1>2, PartialShape
<1>4. n \in 0..(Len(text) - p)
  BY <1>2, <1>3
<1>8. Len(text) \in Nat /\ Len(held) = Len(text) - p
  BY <1>1, <1>2
<1> DEFINE q == Len(text) - n
<1>5. q \in p..Len(text) /\ q + n = Len(text)
  BY <1>1, <1>4
<1> HIDE DEF q
<1>6. ASSUME NEW i \in DOMAIN values, NEW at \in 1..q,
             at + Len(values[i]) > q + 1, FitsAt(text, values[i], at)
      PROVE  FALSE
  <2> DEFINE v == values[i]
             L == Len(v)
  <2>1. v \in Plain /\ L \in Nat /\ L >= 3
    BY ElementOfSeq, PlainShape
  <2>2. \A j \in 1..L : at + j - 1 <= Len(text) => text[at + j - 1] = v[j]
    BY <1>6 DEF FitsAt
  <2>3. at + L > q + 1
    BY <1>6
  <2>4. CASE at <= p
    <3>1. at \in 1..p /\ at + Len(values[i]) > p + 1
      BY <1>1, <1>5, <2>1, <2>3, <2>4
    <3> QED
      BY <1>6, <3>1 DEF NoneAcross
  <2>5. CASE at > p /\ at + L > Len(text) + 1
    <3> DEFINE length == Len(text) - at + 1
    <3>1. length \in 1..Len(held) /\ length <= L - 1 /\ length <= L /\ ~(length <= n)
      BY <1>4, <1>5, <1>8, <2>1, <2>5
    <3>2. \A j \in 1..length : held[Len(held) - length + j] = v[j]
      <4> TAKE j \in 1..length
      <4> DEFINE k == Len(held) - length + j
                 m == at + j - 1
      <4>1. /\ k \in 1..(Len(text) - p) /\ p + k = m
            /\ j \in 1..L /\ m <= Len(text)
        BY <1>8, <2>1, <2>5, <3>1
      <4>2. text[m] = v[j]
        BY <2>2, <4>1
      <4> HIDE DEF k, m
      <4>3. held[k] = text[p + k]
        BY <1>2, <4>1
      <4>4. held[k] = v[j]
        BY <4>1, <4>2, <4>3
      <4> QED
        BY <4>4 DEF k
    <3> HIDE DEF length
    <3>3. EndsWithStart(held, v, length)
      BY <1>2, <2>1, <3>1, <3>2, EndsShape
    <3> QED
      BY <1>3, <3>1, <3>3
  <2>6. CASE at > p /\ ~(at + L > Len(text) + 1)
    <3>1. n # 0
      BY <1>1, <1>5, <2>1, <2>3, <2>6
    <3>2. PICK h \in DOMAIN values : n <= Len(values[h]) - 1 /\ EndsWithStart(held, values[h], n)
      BY <1>3, <3>1
    <3> DEFINE w == values[h]
               l == at + L - 1 - q
    <3>3. w \in Plain /\ Len(w) \in Nat /\ Len(w) >= 3
      BY ElementOfSeq, PlainShape
    <3>5. l \in 1..(L - 1) /\ l < Len(w)
      BY <1>1, <1>4, <1>5, <2>1, <2>3, <2>6, <3>2, <3>3
    <3>7. EndsWithStart(v, w, l)
      <4>1. /\ q = Len(text) - n /\ n \in 1..(Len(text) - p) /\ n <= Len(w)
            /\ at + L > q + 1 /\ at + L <= Len(text) + 1
        BY <1>4, <1>5, <1>8, <2>1, <2>3, <2>6, <3>1, <3>2, <3>3
      <4>2. FitsAt(text, v, at)
        BY <1>6
      <4>3. EndsWithStart(held, w, n)
        BY <3>2
      <4> HIDE DEF v, w
      <4> QED
        BY <2>1, <3>3, <4>1, <4>2, <4>3, StartInside
    <3> QED
      BY <2>1, <3>3, <3>5, <3>7 DEF Apart
  <2> QED
    <3>1. at <= p \/ at > p
      BY <1>1, <1>5
    <3> QED
      BY <2>4, <2>5, <2>6, <3>1
<1>7. NoneAcross(text, q, values)
  BY <1>6 DEF NoneAcross
<1> QED
  BY <1>4, <1>7 DEF q

-----------------------------------------------------------------------------
(***************************************************************************)
(* Redacting the parts of a text.                                          *)
(***************************************************************************)

\* The values of a configuration have no marker.
LEMMA PlainConfigured ==
  ASSUME NEW configured \in Seq(Plain)
  PROVE  configured \in Seq(Seq(Symbols)) /\ \A i \in DOMAIN configured : configured[i] \in Plain
<1>1. configured \in Seq(Seq(Symbols))
  BY DEF Plain
<1> QED
  BY <1>1, ElementOfSeq

\* Where no value stands across, the parts of a text can be redacted one by one.
LEMMA RedactAt ==
  ASSUME NEW text \in Plain, NEW configured \in Seq(Plain), NEW p \in 0..Len(text),
         NEW q \in p..Len(text), NoneAcross(text, p, configured)
  PROVE  Redact(SubSeq(text, 1, q), configured)
           = Join(Redact(SubSeq(text, 1, p), configured),
                  Redact(SubSeq(text, p + 1, q), configured))
<1> DEFINE a == SubSeq(text, 1, p)
           b == SubSeq(text, p + 1, q)
           c == SubSeq(text, 1, q)
           d == Join(a, b)
<1>1. Len(text) \in Nat
  BY PlainShape
<1>2. /\ a \in Plain /\ Len(a) = p /\ \A i \in 1..p : a[i] = text[i]
      /\ c \in Plain /\ Len(c) = q /\ \A i \in 1..q : c[i] = text[i]
  <2>1. ASSUME NEW r \in 0..Len(text)
        PROVE  /\ SubSeq(text, 1, r) \in Plain /\ Len(SubSeq(text, 1, r)) = r
               /\ \A i \in 1..r : SubSeq(text, 1, r)[i] = text[i]
    <3> DEFINE s == SubSeq(text, 1, r)
    <3>1. 1 \in 1..(Len(text) + 1) /\ r \in (1 - 1)..Len(text) /\ r - 1 + 1 = r
      BY <1>1
    <3>2. /\ s \in Plain /\ Len(s) = r - 1 + 1
          /\ \A i \in 1..(r - 1 + 1) : s[i] = text[1 + i - 1]
      BY <3>1, PlainCut
    <3>3. \A i \in 1..r : 1 + i - 1 = i
      OBVIOUS
    <3> HIDE DEF s
    <3>4. s \in Plain /\ Len(s) = r /\ \A i \in 1..r : s[i] = text[i]
      BY <3>1, <3>2, <3>3
    <3> QED
      BY <3>4 DEF s
  <2>2. p \in 0..Len(text) /\ q \in 0..Len(text)
    BY <1>1
  <2> QED
    BY <2>1, <2>2
<1>3. b \in Plain /\ Len(b) = q - p /\ \A i \in 1..(q - p) : b[i] = text[p + i]
  <2> DEFINE m == p + 1
  <2>1. m \in 1..(Len(text) + 1) /\ q \in (m - 1)..Len(text) /\ q - m + 1 = q - p
    BY <1>1
  <2>2. /\ b \in Plain /\ Len(b) = q - m + 1
        /\ \A i \in 1..(q - m + 1) : b[i] = text[m + i - 1]
    <3> HIDE DEF m
    <3>1. /\ SubSeq(text, m, q) \in Plain
          /\ Len(SubSeq(text, m, q)) = q - m + 1
          /\ \A i \in 1..(q - m + 1) : SubSeq(text, m, q)[i] = text[m + i - 1]
      BY <2>1, PlainCut
    <3> QED
      BY <3>1 DEF m
  <2> HIDE DEF b
  <2>3. \A i \in 1..(q - p) : b[i] = text[p + i]
    <3> TAKE i \in 1..(q - p)
    <3>1. i \in 1..(q - m + 1) /\ m + i - 1 = p + i
      BY <2>1
    <3> HIDE DEF m
    <3> QED
      BY <2>2, <3>1
  <2> QED
    BY <2>1, <2>2, <2>3
<1>4. /\ d \in Plain /\ Len(d) = p + (q - p)
      /\ \A i \in 1..(p + (q - p)) : d[i] = IF i <= p THEN a[i] ELSE b[i - p]
  <2> HIDE DEF a, b
  <2>1. /\ d \in Plain /\ Len(d) = Len(a) + Len(b)
        /\ \A i \in 1..(Len(a) + Len(b)) : d[i] = IF i <= Len(a) THEN a[i] ELSE b[i - Len(a)]
    BY <1>2, <1>3, PlainJoin
  <2> HIDE DEF d
  <2> QED
    BY <1>2, <1>3, <2>1
<1>5. p \in Nat /\ q \in Nat /\ p + (q - p) = q
  BY <1>1
<1> HIDE DEF a, b, c, d
<1>6. \A i \in 1..q : d[i] = text[i]
  <2> TAKE i \in 1..q
  <2>1. d[i] = IF i <= p THEN a[i] ELSE b[i - p]
    <3>1. i \in 1..(p + (q - p))
      BY <1>5
    <3> QED
      BY <1>4, <3>1
  <2>2. CASE i <= p
    <3>1. i \in 1..p
      BY <2>2, <1>5
    <3> QED
      BY <1>2, <2>1, <2>2, <3>1
  <2>3. CASE ~(i <= p)
    <3> DEFINE k == i - p
    <3>1. k \in 1..(q - p) /\ p + k = i
      BY <1>5, <2>3
    <3> HIDE DEF k
    <3>2. b[k] = text[p + k]
      BY <1>3, <3>1
    <3> QED
      BY <2>1, <2>3, <3>1, <3>2 DEF k
  <2> QED
    BY <2>2, <2>3
<1>7. c = d
  BY <1>2, <1>4, <1>5, <1>6, SamePlain
<1>8. Clear(a, b, configured)
  <2> SUFFICES ASSUME NEW i \in DOMAIN configured, Straddles(a, b, configured[i]) PROVE FALSE
    BY DEF Clear
  <2> DEFINE v == configured[i]
  <2>1. v \in Plain /\ Len(v) \in Nat
    BY PlainConfigured, PlainShape
  <2>2. PICK at \in 1..p : OccursAt(d, v, at) /\ at + Len(v) > p + 1
    BY <1>2 DEF Straddles, d
  <2> HIDE DEF v
  <2>3. at + Len(v) <= q + 1 /\ \A j \in 1..Len(v) : d[at + j - 1] = v[j]
    BY <1>4, <1>5, <2>2 DEF OccursAt
  <2>4. ASSUME NEW j \in 1..Len(v) PROVE text[at + j - 1] = v[j]
    <3> DEFINE k == at + j - 1
    <3>1. at + Len(v) <= q + 1
      BY <2>3
    <3>2. k \in 1..q
      BY <1>5, <2>1, <3>1
    <3>3. d[k] = v[j]
      BY <2>3
    <3> HIDE DEF k
    <3>4. text[k] = v[j]
      BY <1>6, <3>2, <3>3
    <3> QED
      BY <3>4 DEF k
  <2>5. FitsAt(text, v, at)
    BY <2>4 DEF FitsAt
  <2> QED
    BY <2>2, <2>5 DEF NoneAcross, v
<1>9. a \in Texts /\ b \in Texts
  BY <1>2, <1>3, PlainShape
<1>10. Redact(d, configured) = Join(Redact(a, configured), Redact(b, configured))
  BY <1>8, <1>9, PlainConfigured, RedactSplits DEF d
<1> QED
  BY <1>7, <1>10 DEF a, b, c

-----------------------------------------------------------------------------
(***************************************************************************)
(* The writer, for any values.                                             *)
(***************************************************************************)

\* All of a text, and what comes after it.
LEMMA WholeText ==
  ASSUME NEW text \in Plain
  PROVE  /\ SubSeq(text, 1, Len(text)) = text
         /\ SubSeq(text, Len(text) + 1, Len(text)) = <<>>
         /\ <<>> \in Plain /\ Len(<<>>) = 0
<1> DEFINE a == SubSeq(text, 1, Len(text))
           m == Len(text) + 1
           b == SubSeq(text, m, Len(text))
<1>1. Len(text) \in Nat /\ \A i \in Nat : 1 + i - 1 = i
  BY PlainShape
<1>2. 1 \in 1..(Len(text) + 1) /\ Len(text) \in (1 - 1)..Len(text) /\ Len(text) - 1 + 1 = Len(text)
  BY <1>1
<1>3. /\ a \in Plain /\ Len(a) = Len(text) - 1 + 1
      /\ \A i \in 1..(Len(text) - 1 + 1) : a[i] = text[1 + i - 1]
  BY <1>2, PlainCut
<1> HIDE DEF a
<1>4. Len(a) = Len(text) /\ \A i \in 1..Len(text) : a[i] = text[i]
  BY <1>1, <1>2, <1>3
<1>5. a = text
  BY <1>3, <1>4, SamePlain
<1>6. m \in 1..(Len(text) + 1) /\ Len(text) \in (m - 1)..Len(text) /\ Len(text) - m + 1 = 0
  BY <1>1
<1> HIDE DEF m
<1>7. b \in Plain /\ Len(b) = 0
  BY <1>6, PlainCut
<1> HIDE DEF b
<1>8. b = <<>>
  BY <1>7, EmptySeq DEF Plain
<1> QED
  BY <1>5, <1>7, <1>8 DEF a, b, m

\* What a write keeps is the start of a value, and not all of it.
LEMMA KeptStart ==
  ASSUME values \in Seq(Plain), NEW held \in Plain, NEW n, n = PartialSuffixLength(held)
  PROVE  LET kept == SubSeq(held, Len(held) - n + 1, Len(held)) IN
         /\ n \in 0..Len(held)
         /\ kept \in Plain /\ Len(kept) = n
         /\ kept = <<>> \/ \E i \in DOMAIN values : /\ Len(kept) < Len(values[i])
                                                    /\ IsPrefix(kept, values[i])
<1> DEFINE m == Len(held) - n + 1
           kept == SubSeq(held, m, Len(held))
<1>1. Len(held) \in Nat
  BY PlainShape
<1>2. /\ n \in 0..Len(held)
      /\ n # 0 => \E i \in DOMAIN values : /\ n <= Len(values[i]) - 1
                                           /\ EndsWithStart(held, values[i], n)
  BY PartialShape
<1>3. m \in 1..(Len(held) + 1) /\ Len(held) \in (m - 1)..Len(held) /\ Len(held) - m + 1 = n
  BY <1>1, <1>2
<1>4. kept \in Plain /\ Len(kept) = n
  <2> HIDE DEF m
  <2> QED
    BY <1>3, PlainCut
<1>5. CASE n = 0
  <2> HIDE DEF kept
  <2>1. kept = <<>>
    BY <1>4, <1>5, EmptySeq DEF Plain
  <2> QED
    BY <1>2, <1>4, <2>1 DEF kept
<1>6. CASE n # 0
  <2>1. PICK i \in DOMAIN values : n <= Len(values[i]) - 1 /\ EndsWithStart(held, values[i], n)
    BY <1>2, <1>6
  <2> DEFINE v == values[i]
  <2>2. v \in Plain /\ Len(v) \in Nat
    BY PlainConfigured, PlainShape
  <2>3. kept = SubSeq(v, 1, n)
    BY <2>1 DEF EndsWithStart
  <2> HIDE DEF kept, v
  <2>4. SubSeq(kept, 1, Len(kept)) = kept
    BY <1>4, WholeText
  <2>5. Len(kept) < Len(v) /\ Len(kept) <= Len(v)
    BY <1>2, <1>4, <2>1, <2>2 DEF v
  <2>6. IsPrefix(kept, v)
    BY <1>4, <2>3, <2>4, <2>5 DEF IsPrefix
  <2> QED
    BY <1>2, <1>4, <2>5, <2>6 DEF kept, v
<1> QED
  BY <1>5, <1>6

\* Inductive as it stands: neither part is without the other.
KeepsStarts == TypeOK /\ HeldStartsValue

\* The types, in the names used here.
LEMMA TypedParts ==
  ASSUME TypeOK
  PROVE  /\ values \in Seq(Plain) /\ out \in Texts /\ input \in Plain /\ pending \in Plain
         /\ values \in Seq(Seq(Symbols))
  BY DEF TypeOK, Plain, Texts

\* A piece is a text without a marker.
LEMMA ChunkPlain ==
  ASSUME NEW length \in 1..MaxChunk, NEW chunk \in [1..length -> Symbols]
  PROVE  chunk \in Plain
  BY DEF Plain

\* A new writer holds nothing back.
LEMMA StartsInit == Init => KeepsStarts
<1> SUFFICES ASSUME Init PROVE KeepsStarts
  OBVIOUS
<1>1. PICK configured \in Configurations : values = Eligible(configured)
  BY DEF Init
<1>2. values \in Seq(Seq(Symbols))
  BY <1>1, ConfigurationsAssumption, EligibleShape DEF LongOnes
<1>3. pending = <<>> /\ out = <<>> /\ input = <<>> /\ phase = "open"
  BY DEF Init
<1>4. TypeOK
  BY <1>2, <1>3 DEF TypeOK
<1>5. HeldStartsValue
  BY <1>3 DEF HeldStartsValue
<1> QED
  BY <1>4, <1>5 DEF KeepsStarts

\* The cases of a write.
LEMMA WriteCases ==
  ASSUME TypeOK, NEW chunk \in Plain, Write(chunk),
         NEW held, held = Join(pending, chunk), NEW n, n = PartialSuffixLength(held)
  PROVE  /\ held \in Plain /\ n \in 0..Len(held)
         /\ phase = "open" /\ values' = values /\ input' = Join(input, chunk)
         /\ \/ /\ out' = Join(out, Redact(SubSeq(held, 1, Len(held) - n), values))
               /\ pending' = SubSeq(held, Len(held) - n + 1, Len(held))
               /\ phase' = "open"
            \/ /\ n = Len(held) /\ pending' = held
               /\ pending' = SubSeq(held, Len(held) - n + 1, Len(held))
               /\ out' = out /\ phase' = "open"
            \/ pending' = held /\ out' = out /\ phase' = "failed"
<1>1. held \in Plain
  BY TypedParts, PlainJoin
<1>2. Len(held) \in Nat
  BY <1>1, PlainShape
<1>3. n \in 0..Len(held)
  BY <1>1, TypedParts, PartialShape
<1>4. pending \o chunk = held /\ input \o chunk = Join(input, chunk)
      /\ \A t : out \o t = Join(out, t)
  BY DEF Join
<1> DEFINE flush == Len(held) - n
<1>5. /\ phase = "open" /\ values' = values /\ input' = Join(input, chunk)
      /\ \/ /\ flush > 0
            /\ out' = Join(out, Redact(SubSeq(held, 1, flush), values))
            /\ pending' = SubSeq(held, flush + 1, Len(held))
            /\ phase' = phase
         \/ flush <= 0 /\ pending' = held /\ out' = out /\ phase' = phase
         \/ flush > 0 /\ pending' = held /\ phase' = "failed" /\ out' = out
  BY <1>4, Zenon DEF Write
<1>6. ASSUME flush <= 0
      PROVE  n = Len(held) /\ held = SubSeq(held, Len(held) - n + 1, Len(held))
  <2>1. n = Len(held) /\ Len(held) - n + 1 = 1
    BY <1>2, <1>3, <1>6
  <2>2. SubSeq(held, 1, Len(held)) = held
    BY <1>1, WholeText
  <2> QED
    BY <2>1, <2>2
<1> QED
  BY <1>1, <1>3, <1>5, <1>6

\* Every step keeps the types and holds back the start of a value or nothing.
LEMMA StartsStep == KeepsStarts /\ [Next]_vars => KeepsStarts'
<1> SUFFICES ASSUME KeepsStarts, [Next]_vars PROVE KeepsStarts'
  OBVIOUS
<1>0. TypeOK /\ HeldStartsValue
  BY DEF KeepsStarts
<1>1. /\ values \in Seq(Plain) /\ out \in Texts /\ input \in Plain /\ pending \in Plain
      /\ values \in Seq(Seq(Symbols))
  BY <1>0, TypedParts
<1>2. ASSUME NEW length \in 1..MaxChunk, NEW chunk \in [1..length -> Symbols], Write(chunk)
      PROVE  KeepsStarts'
  <2> DEFINE held == Join(pending, chunk)
             n == PartialSuffixLength(held)
             kept == SubSeq(held, Len(held) - n + 1, Len(held))
  <2>1. chunk \in Plain
    BY ChunkPlain
  <2>2. /\ held \in Plain /\ n \in 0..Len(held)
        /\ phase = "open" /\ values' = values /\ input' = Join(input, chunk)
        /\ \/ /\ out' = Join(out, Redact(SubSeq(held, 1, Len(held) - n), values))
              /\ pending' = kept
              /\ phase' = "open"
           \/ /\ n = Len(held) /\ pending' = held
              /\ pending' = kept
              /\ out' = out /\ phase' = "open"
           \/ pending' = held /\ out' = out /\ phase' = "failed"
    BY <1>0, <1>2, <2>1, WriteCases
  <2> HIDE DEF held
  <2>3. /\ kept \in Plain
        /\ kept = <<>> \/ \E i \in DOMAIN values : /\ Len(kept) < Len(values[i])
                                                   /\ IsPrefix(kept, values[i])
    BY <1>1, <2>2, KeptStart
  <2>4. Join(out, Redact(SubSeq(held, 1, Len(held) - n), values)) \in Texts
    <3> DEFINE k == Len(held) - n
    <3>1. 1 \in 1..(Len(held) + 1) /\ k \in (1 - 1)..Len(held)
      BY <2>2, PlainShape
    <3> HIDE DEF k
    <3>2. SubSeq(held, 1, k) \in Texts
      BY <2>2, <3>1, PlainCut, PlainShape
    <3>3. Redact(SubSeq(held, 1, k), values) \in Texts
      BY <1>1, <3>2, RedactTyped
    <3> QED
      BY <1>1, <3>3, JoinShape DEF k
  <2> HIDE DEF kept, n
  <2>5. out' \in Texts /\ input' \in Plain /\ pending' \in Plain /\ phase' \in {"open", "failed"}
    BY <1>1, <2>1, <2>2, <2>3, <2>4, PlainJoin
  <2>6. phase' = "open" => pending' = kept
    BY <2>2
  <2>7. TypeOK'
    BY <1>1, <2>2, <2>3, <2>5, <2>6 DEF TypeOK, Texts, Plain
  <2>8. HeldStartsValue'
    BY <2>2, <2>3, <2>6 DEF HeldStartsValue
  <2> QED
    BY <2>7, <2>8 DEF KeepsStarts
<1>3. CASE Close
  <2>1. /\ values' = values /\ input' = input /\ phase' \in {"closed", "ended"}
        /\ \/ out' = Join(out, Redact(pending, values)) /\ pending' = <<>>
           \/ out' = out /\ pending' = pending
    BY <1>3 DEF Close, Join
  <2>2. Join(out, Redact(pending, values)) \in Texts
    BY <1>1, PlainShape, RedactTyped, JoinShape
  <2>3. out' \in Texts /\ pending' \in Plain
    BY <1>1, <2>1, <2>2, WholeText
  <2>4. TypeOK'
    BY <1>1, <2>1, <2>3 DEF TypeOK, Texts, Plain
  <2>5. HeldStartsValue'
    BY <2>1 DEF HeldStartsValue
  <2> QED
    BY <2>4, <2>5 DEF KeepsStarts
<1>4. CASE UNCHANGED vars
  BY <1>0, <1>4 DEF vars, KeepsStarts, TypeOK, HeldStartsValue
<1> QED
  BY <1>2, <1>3, <1>4 DEF Next

\* What an open writer holds back is well typed and the start of a value, for any values
\* (redaction.go:46-59).
THEOREM StartsAlways == Spec => []KeepsStarts
<1> QED
  BY StartsInit, StartsStep, PTL DEF Spec

\* The writer is well typed, and an open one holds back less than a value, for any values
\* (redaction.go:46-96).
THEOREM RedactionTypeCorrect == Spec => []TypeOK
<1>1. KeepsStarts => TypeOK
  BY DEF KeepsStarts
<1> QED
  BY <1>1, StartsAlways, PTL

\* Nothing is held back without need: what an open writer holds back is the start of a
\* value, for any values (redaction.go:61-77).
THEOREM KeepsOnlyStarts == Spec => []HeldStartsValue
<1>1. KeepsStarts => HeldStartsValue
  BY DEF KeepsStarts
<1> QED
  BY <1>1, StartsAlways, PTL

-----------------------------------------------------------------------------
(***************************************************************************)
(* The writer, for values that are apart.                                  *)
(***************************************************************************)

\* How much of the output has been passed on.
Passed == Len(input) - Len(pending)

\* NewWriter has left out the short values.
AllLong == \A i \in DOMAIN values : Len(values[i]) >= 3

\* What is pending is the rest of the input.
PendingIsRest ==
    /\ Len(pending) <= Len(input)
    /\ pending = SubSeq(input, Passed + 1, Len(input))
    /\ phase = "closed" => pending = <<>>

\* What has been passed on is what Redact makes of it.
PassedIsRedacted == out = Redact(SubSeq(input, 1, Passed), values)

\* No value stands, or can come to stand, across the place that is reached.
NoneCutInTwo == phase # "closed" => NoneAcross(input, Passed, values)

\* The inductive invariant.
SplitInv ==
    /\ TypeOK
    /\ AllLong
    /\ Apart(values)
    /\ PendingIsRest
    /\ PassedIsRedacted
    /\ NoneCutInTwo

\* The premise: RedactBordered shows that without it a value can slip through in parts.
AllApart == \A configured \in Configurations : Apart(configured)

\* The values that are long enough are as far apart as all.
LEMMA ApartLifts ==
  ASSUME NEW configured \in Seq(Seq(Symbols)), Apart(configured), NEW kept \in LongOnes(configured)
  PROVE  Apart(kept)
<1>1. \A i \in DOMAIN kept : \E j \in DOMAIN configured : kept[i] = configured[j]
  BY DEF LongOnes
<1>2. SUFFICES ASSUME NEW i \in DOMAIN kept, NEW j \in DOMAIN kept,
                      Len(kept[i]) >= 3, Len(kept[j]) >= 3,
                      NEW length \in 1..(Len(kept[i]) - 1), length < Len(kept[j]),
                      EndsWithStart(kept[i], kept[j], length)
               PROVE  FALSE
  BY DEF Apart
<1>3. PICK a \in DOMAIN configured : kept[i] = configured[a]
  BY <1>1
<1>4. PICK b \in DOMAIN configured : kept[j] = configured[b]
  BY <1>1
<1> QED
  BY <1>2, <1>3, <1>4 DEF Apart

\* A new writer has passed on nothing of nothing.
LEMMA SplitInit ==
  ASSUME AllApart, Init
  PROVE  SplitInv
<1>1. PICK configured \in Configurations : values = Eligible(configured)
  BY DEF Init
<1>2. pending = <<>> /\ out = <<>> /\ input = <<>> /\ phase = "open"
  BY DEF Init
<1>3. configured \in Seq(Seq(Symbols)) /\ values \in LongOnes(configured)
  BY <1>1, ConfigurationsAssumption, EligibleShape
<1>4. TypeOK
  BY StartsInit DEF KeepsStarts
<1>5. AllLong
  BY <1>3 DEF AllLong, LongOnes
<1>6. Apart(values)
  BY <1>3, ApartLifts DEF AllApart
<1>7. Len(input) = 0 /\ Len(pending) = 0 /\ Passed = 0
  BY <1>2 DEF Passed
<1>8. SubSeq(<<>>, 1, 0) = <<>>
  BY WholeText
<1>9. PendingIsRest
  BY <1>2, <1>7, <1>8 DEF PendingIsRest
<1>10. PassedIsRedacted
  <2>1. Redact(<<>>, values) = <<>>
    BY <1>4, TypedParts, RedactOfNothing
  <2> QED
    BY <1>2, <1>7, <1>8, <2>1 DEF PassedIsRedacted
<1>11. NoneCutInTwo
  BY <1>7 DEF NoneCutInTwo, NoneAcross
<1> QED
  BY <1>4, <1>5, <1>6, <1>9, <1>10, <1>11 DEF SplitInv

\* A write goes on from the place that is reached, or stays there.
LEMMA SplitWrite ==
  ASSUME SplitInv, NEW chunk \in Plain, Write(chunk)
  PROVE  PendingIsRest' /\ PassedIsRedacted' /\ NoneCutInTwo'
<1> DEFINE p == Passed
           text == Join(input, chunk)
           held == Join(pending, chunk)
           n == PartialSuffixLength(held)
           k == Len(held) - n
           q == Len(text) - n
<1>1. /\ TypeOK /\ AllLong /\ Apart(values) /\ PendingIsRest /\ PassedIsRedacted /\ NoneCutInTwo
      /\ values \in Seq(Plain) /\ input \in Plain /\ pending \in Plain /\ out \in Texts
  BY TypedParts DEF SplitInv
<1>2. Len(input) \in Nat /\ Len(pending) \in Nat /\ Len(chunk) \in Nat
  BY <1>1, PlainShape
<1>3. p \in 0..Len(input) /\ Len(pending) = Len(input) - p
  BY <1>1, <1>2 DEF PendingIsRest, Passed
<1>4. pending = SubSeq(input, p + 1, Len(input)) /\ out = Redact(SubSeq(input, 1, p), values)
  BY <1>1 DEF PendingIsRest, PassedIsRedacted
<1>5. text \in Plain /\ Len(text) = Len(input) + Len(chunk)
  BY <1>1, PlainJoin
<1>6. p \in 0..Len(text)
  BY <1>2, <1>3, <1>5
<1>7. /\ held \in Plain /\ n \in 0..Len(held)
      /\ phase = "open" /\ values' = values /\ input' = text
      /\ \/ /\ out' = Join(out, Redact(SubSeq(held, 1, k), values))
            /\ pending' = SubSeq(held, k + 1, Len(held))
            /\ phase' = "open"
         \/ /\ n = Len(held) /\ pending' = held
            /\ pending' = SubSeq(held, k + 1, Len(held))
            /\ out' = out /\ phase' = "open"
         \/ pending' = held /\ out' = out /\ phase' = "failed"
  BY <1>1, WriteCases
<1> HIDE DEF p
<1>8. held = SubSeq(text, p + 1, Len(text)) /\ SubSeq(text, 1, p) = SubSeq(input, 1, p)
  <2> DEFINE part == SubSeq(input, p + 1, Len(input))
  <2>1. /\ Join(part, chunk) = SubSeq(text, p + 1, Len(input) + Len(chunk))
        /\ SubSeq(text, 1, p) = SubSeq(input, 1, p)
    BY <1>1, <1>3, GrownText
  <2>2. pending = part
    BY <1>4
  <2> HIDE DEF part
  <2> QED
    BY <1>5, <2>1, <2>2
<1>9. NoneAcross(input, p, values) /\ NoneAcross(text, p, values)
  <2>1. NoneAcross(input, p, values)
    BY <1>1, <1>7 DEF NoneCutInTwo, p
  <2> QED
    BY <1>1, <1>3, <2>1, NoneAcrossGrows
<1> HIDE DEF text, held
<1>10. Len(text) \in Nat /\ Len(held) = Len(text) - p
  <2>1. Len(text) \in Nat
    BY <1>5, PlainShape
  <2>2. 0 \in 0..(Len(text) - p)
    BY <1>6, <2>1
  <2>3. Len(held) = Len(text) - p
    BY <1>5, <1>6, <1>8, <2>2, CutOfCut
  <2> QED
    BY <2>1, <2>3
<1>11. n \in 0..(Len(text) - p) /\ NoneAcross(text, q, values)
  <2> HIDE DEF n
  <2>1. \A i \in DOMAIN values : Len(values[i]) >= 3
    BY <1>1 DEF AllLong
  <2>2. n = PartialSuffixLength(held)
    BY DEF n
  <2> QED
    BY <1>1, <1>5, <1>6, <1>8, <1>9, <2>1, <2>2, Boundary
<1> HIDE DEF n
<1>12. /\ k \in 0..(Len(text) - p) /\ q \in p..Len(text) /\ q \in 0..Len(text)
       /\ p + k = q /\ p + k + 1 = q + 1 /\ Len(text) - q = n
  BY <1>6, <1>10, <1>11
<1> HIDE DEF k, q
<1>13. CASE pending' = held /\ out' = out /\ phase' \in {"open", "failed"}
  <2>1. Passed' = p
    <3>1. Passed' = Len(input') - Len(pending')
      BY DEF Passed
    <3> QED
      BY <1>6, <1>7, <1>10, <1>13, <3>1
  <2>2. Len(held) <= Len(text)
    BY <1>6, <1>10
  <2>3. PendingIsRest'
    BY <1>7, <1>8, <1>13, <2>1, <2>2 DEF PendingIsRest
  <2>4. PassedIsRedacted'
    BY <1>4, <1>7, <1>8, <1>13, <2>1 DEF PassedIsRedacted
  <2>5. NoneCutInTwo'
    BY <1>7, <1>9, <2>1 DEF NoneCutInTwo
  <2> QED
    BY <2>3, <2>4, <2>5
<1>14. CASE /\ out' = Join(out, Redact(SubSeq(held, 1, k), values))
            /\ pending' = SubSeq(held, k + 1, Len(held))
            /\ phase' = "open"
  <2>1. /\ SubSeq(held, 1, k) = SubSeq(text, p + 1, p + k)
        /\ SubSeq(held, k + 1, Len(held)) = SubSeq(text, p + k + 1, Len(text))
    BY <1>5, <1>6, <1>8, <1>12, CutOfCut
  <2>2. pending' = SubSeq(text, q + 1, Len(text))
    BY <1>12, <1>14, <2>1
  <2>3. Len(pending') = n
    <3> DEFINE m == q + 1
    <3>1. /\ m \in 1..(Len(text) + 1) /\ Len(text) \in (m - 1)..Len(text)
          /\ Len(text) - m + 1 = n
      BY <1>10, <1>12
    <3>2. pending' = SubSeq(text, m, Len(text))
      BY <2>2
    <3> HIDE DEF m
    <3> QED
      BY <1>5, <3>1, <3>2, PlainCut
  <2>4. Passed' = q
    <3>1. Passed' = Len(input') - Len(pending')
      BY DEF Passed
    <3> QED
      BY <1>7, <1>10, <1>11, <1>12, <2>3, <3>1
  <2>5. out' = Redact(SubSeq(text, 1, q), values)
    <3>1. Redact(SubSeq(text, 1, q), values)
            = Join(Redact(SubSeq(text, 1, p), values), Redact(SubSeq(text, p + 1, q), values))
      BY <1>1, <1>5, <1>6, <1>9, <1>12, RedactAt
    <3> QED
      BY <1>4, <1>8, <1>12, <1>14, <2>1, <3>1
  <2>6. n <= Len(text)
    BY <1>6, <1>10, <1>11
  <2>7. PendingIsRest'
    BY <1>7, <1>14, <2>2, <2>3, <2>4, <2>6 DEF PendingIsRest
  <2>8. PassedIsRedacted'
    BY <1>7, <2>4, <2>5 DEF PassedIsRedacted
  <2>9. NoneCutInTwo'
    BY <1>7, <1>11, <2>4 DEF NoneCutInTwo, q
  <2> QED
    BY <2>7, <2>8, <2>9
<1> QED
  BY <1>7, <1>13, <1>14

\* What is pending is redacted as the rest of the text.
LEMMA RestRedacted ==
  ASSUME SplitInv, phase # "closed"
  PROVE  Join(out, Redact(pending, values)) = Redact(input, values)
<1> DEFINE p == Passed
<1>1. /\ TypeOK /\ PendingIsRest /\ PassedIsRedacted /\ NoneCutInTwo
      /\ values \in Seq(Plain) /\ input \in Plain /\ pending \in Plain
  BY TypedParts DEF SplitInv
<1>2. Len(input) \in Nat /\ Len(pending) \in Nat
  BY <1>1, PlainShape
<1>3. p \in 0..Len(input) /\ Len(input) \in p..Len(input)
  BY <1>1, <1>2 DEF PendingIsRest, Passed
<1>4. /\ pending = SubSeq(input, p + 1, Len(input))
      /\ out = Redact(SubSeq(input, 1, p), values)
      /\ NoneAcross(input, p, values)
  BY <1>1 DEF PendingIsRest, PassedIsRedacted, NoneCutInTwo
<1> HIDE DEF p
<1>5. Redact(SubSeq(input, 1, Len(input)), values) = Join(out, Redact(pending, values))
  BY <1>1, <1>3, <1>4, RedactAt
<1> QED
  BY <1>1, <1>5, WholeText

\* Close passes on the rest, or nothing more happens.
LEMMA SplitClose ==
  ASSUME SplitInv, Close
  PROVE  PendingIsRest' /\ PassedIsRedacted' /\ NoneCutInTwo'
<1>1. /\ TypeOK /\ PendingIsRest /\ PassedIsRedacted /\ NoneCutInTwo
      /\ values \in Seq(Plain) /\ input \in Plain /\ pending \in Plain
  BY TypedParts DEF SplitInv
<1>2. phase # "closed" /\ values' = values /\ input' = input
  BY DEF Close
<1>3. CASE out' = Join(out, Redact(pending, values)) /\ pending' = <<>> /\ phase' = "closed"
  <2>1. Len(input) \in Nat /\ Len(pending') = 0
    BY <1>1, <1>3, PlainShape, WholeText
  <2>2. Passed' = Len(input)
    <3>1. Passed' = Len(input') - Len(pending')
      BY DEF Passed
    <3> QED
      BY <1>2, <2>1, <3>1
  <2>3. out' = Redact(input, values)
    BY <1>2, <1>3, RestRedacted
  <2>4. PendingIsRest'
    BY <1>1, <1>2, <1>3, <2>1, <2>2, WholeText DEF PendingIsRest
  <2>5. PassedIsRedacted'
    BY <1>1, <1>2, <2>2, <2>3, WholeText DEF PassedIsRedacted
  <2>6. NoneCutInTwo'
    BY <1>3 DEF NoneCutInTwo
  <2> QED
    BY <2>4, <2>5, <2>6
<1>4. CASE pending' = pending /\ out' = out /\ phase' = "ended"
  <2>1. Passed' = Passed
    BY <1>2, <1>4 DEF Passed
  <2> QED
    BY <1>1, <1>2, <1>4, <2>1 DEF PendingIsRest, PassedIsRedacted, NoneCutInTwo
<1>5. \/ out' = Join(out, Redact(pending, values)) /\ pending' = <<>> /\ phase' = "closed"
      \/ pending' = pending /\ out' = out /\ phase' = "ended"
  BY DEF Close, Join
<1> QED
  BY <1>3, <1>4, <1>5

\* Every step keeps the invariant.
LEMMA SplitStep == SplitInv /\ KeepsStarts /\ [Next]_vars => SplitInv'
<1> SUFFICES ASSUME SplitInv, KeepsStarts, [Next]_vars PROVE SplitInv'
  OBVIOUS
<1>1. TypeOK'
  BY StartsStep DEF KeepsStarts
<1>2. values' = values
  BY DEF Next, Write, Close, vars
<1>3. AllLong' /\ Apart(values)'
  BY <1>2 DEF SplitInv, AllLong, Apart, EndsWithStart
<1>4. ASSUME NEW length \in 1..MaxChunk, NEW chunk \in [1..length -> Symbols], Write(chunk)
      PROVE  PendingIsRest' /\ PassedIsRedacted' /\ NoneCutInTwo'
  <2>1. chunk \in Plain
    BY ChunkPlain
  <2> QED
    BY <1>4, <2>1, SplitWrite
<1>5. ASSUME Close
      PROVE  PendingIsRest' /\ PassedIsRedacted' /\ NoneCutInTwo'
  BY <1>5, SplitClose
<1>6. ASSUME UNCHANGED vars
      PROVE  PendingIsRest' /\ PassedIsRedacted' /\ NoneCutInTwo'
  <2>1. Passed' = Passed
    BY <1>6 DEF vars, Passed
  <2> QED
    BY <1>6, <2>1 DEF vars, SplitInv, PendingIsRest, PassedIsRedacted, NoneCutInTwo
<1>7. PendingIsRest' /\ PassedIsRedacted' /\ NoneCutInTwo'
  BY <1>4, <1>5, <1>6 DEF Next
<1> QED
  BY <1>1, <1>3, <1>7 DEF SplitInv

\* The inductive invariant, for values that are apart (redaction.go:46-96).
THEOREM SplitAlways ==
  ASSUME AllApart
  PROVE  Spec => []SplitInv
<1>1. Init => SplitInv
  BY SplitInit
<1> QED
  BY <1>1, StartsAlways, SplitStep, PTL DEF Spec

\* Where the pieces of the output end does not show in what is passed on, for values that
\* are apart (redaction.go:46-96).
THEOREM SplitStaysInvisible ==
  ASSUME AllApart
  PROVE  Spec => []SplitIsInvisible
<1>1. SplitInv => SplitIsInvisible
  <2> SUFFICES ASSUME SplitInv PROVE Join(out, Redact(pending, values)) = Redact(input, values)
    BY DEF SplitIsInvisible, Join
  <2>1. CASE phase # "closed"
    BY <2>1, RestRedacted
  <2>2. CASE phase = "closed"
    <3>1. /\ PendingIsRest /\ PassedIsRedacted /\ pending = <<>>
          /\ values \in Seq(Plain) /\ values \in Seq(Seq(Symbols)) /\ input \in Plain
          /\ out \in Texts
      BY <2>2, TypedParts DEF SplitInv, PendingIsRest
    <3>2. Passed = Len(input)
      BY <3>1, PlainShape, WholeText DEF Passed
    <3>3. out = Redact(input, values)
      BY <3>1, <3>2, WholeText DEF PassedIsRedacted
    <3>4. Redact(pending, values) = <<>>
      BY <3>1, RedactOfNothing
    <3>5. Join(out, <<>>) = out
      BY <3>1, ConcatEmptySeq DEF Join, Texts
    <3> QED
      BY <3>3, <3>4, <3>5
  <2> QED
    BY <2>1, <2>2
<1> QED
  BY <1>1, SplitAlways, PTL

\* No value is ever passed on, not even in parts by different writes, for values that are
\* apart (redaction.go:46-96).
THEOREM NothingEverSlips ==
  ASSUME AllApart
  PROVE  Spec => []NothingSlips
<1>1. SplitInv => NothingSlips
  <2> SUFFICES ASSUME SplitInv, NEW i \in DOMAIN values, NEW at \in DOMAIN out,
                      at + Len(values[i]) - 1 <= Len(out),
                      SubSeq(out, at, at + Len(values[i]) - 1) = values[i]
               PROVE  FALSE
    BY DEF NothingSlips
  <2> DEFINE v == values[i]
             text == SubSeq(input, 1, Passed)
             e == at + Len(v) - 1
  <2>1. /\ AllLong /\ PendingIsRest /\ PassedIsRedacted
        /\ values \in Seq(Plain) /\ values \in Seq(Seq(Symbols)) /\ input \in Plain
        /\ pending \in Plain /\ out \in Texts
    BY TypedParts DEF SplitInv
  <2>2. text \in Texts
    <3> DEFINE p == Passed
    <3>1. 1 \in 1..(Len(input) + 1) /\ p \in (1 - 1)..Len(input)
      BY <2>1, PlainShape DEF PendingIsRest, Passed
    <3> HIDE DEF p
    <3>2. SubSeq(input, 1, p) \in Texts
      BY <2>1, <3>1, PlainCut, PlainShape
    <3> QED
      BY <3>2 DEF p
  <2>3. out = Redact(text, values)
    BY <2>1 DEF PassedIsRedacted
  <2>4. v \in Plain /\ Len(v) \in Nat /\ Len(v) >= 3
    BY <2>1, PlainConfigured, PlainShape DEF AllLong
  <2>5. at \in 1..Len(out) /\ Len(out) \in Nat
    BY <2>1, TextShape
  <2>6. OccursAt(out, v, at)
    <3>1. /\ at \in 1..(Len(out) + 1) /\ e \in (at - 1)..Len(out) /\ e - at + 1 = Len(v)
          /\ at + Len(v) <= Len(out) + 1
      BY <2>4, <2>5
    <3>2. SubSeq(out, at, e) = v
      OBVIOUS
    <3> HIDE DEF e, v
    <3>3. \A j \in 1..(e - at + 1) : SubSeq(out, at, e)[j] = out[at + j - 1]
      BY <2>1, <3>1, CutShape
    <3> QED
      BY <3>1, <3>2, <3>3 DEF OccursAt
  <2> QED
    BY <2>1, <2>2, <2>3, <2>4, <2>5, <2>6, RedactCleans
<1> QED
  BY <1>1, SplitAlways, PTL
=============================================================================
