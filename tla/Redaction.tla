------------------------------ MODULE Redaction ------------------------------
(***************************************************************************)
(* The removal of secret values from the output of an approved action      *)
(* (internal/redaction/redaction.go).                                      *)
(*                                                                         *)
(* Redact removes them from a text that is there in full.  Writer does it  *)
(* for a text that arrives in pieces: it keeps back the end of what it has *)
(* got when that may be the start of a value, and passes the rest on.  The *)
(* pieces are whatever the reads of a pipe return, so where they end must  *)
(* not show in what comes out.                                             *)
(*                                                                         *)
(* A byte is a symbol of a small alphabet; the marker is one symbol more,  *)
(* outside of it: text that looks like the marker is not modelled.         *)
(***************************************************************************)
EXTENDS Naturals, Sequences, SequencesExt, FiniteSetsExt

CONSTANTS
    Symbols,        \* the bytes of the output and of the values
    Configurations, \* the sequences of values a writer may be given
    MaxInput,       \* bound of the model: the length of the whole output
    MaxChunk        \* bound of the model: the length of one piece

Marker == "[REDACTED]"

ASSUME SymbolsAssumption == Marker \notin Symbols
ASSUME ConfigurationsAssumption == Configurations \subseteq Seq(Seq(Symbols))

VARIABLES
    values,         \* Writer.values
    pending,        \* Writer.pending
    out,            \* what dst has taken
    input,          \* history: all that was written
    phase           \* "open"; "failed" once dst has returned an error, after
                    \* which no piece follows; "closed"; "ended" without a flush

vars == <<values, pending, out, input, phase>>

-----------------------------------------------------------------------------
(***************************************************************************)
(* Removing values from a text.                                            *)
(***************************************************************************)

\* strings.ReplaceAll and bytes.ReplaceAll: from the left, the occurrences
\* that do not overlap one already replaced.
Replaced(text, value) ==
    LET n == Len(value)
        after[i \in 1..(Len(text) + 1)] ==
            CASE i > Len(text) -> <<>>
              [] i + n <= Len(text) + 1 /\ SubSeq(text, i, i + n - 1) = value ->
                   <<Marker>> \o after[i + n]
              [] OTHER -> <<text[i]>> \o after[i + 1]
    IN after[1]

\* Values of less than three bytes are left out.
Keep(kept, value) == IF Len(value) < 3 THEN kept ELSE Append(kept, value)
Eligible(configured) == FoldLeft(Keep, <<>>, configured)

\* One value after the other.  The seeded fault removes only the first.
Removed(text, value) == IF Len(value) < 3 THEN text ELSE Replaced(text, value)
RedactFirst(text, configured) ==
    IF configured = <<>> THEN text ELSE Removed(text, Head(configured))
Redact(text, configured) == FoldLeft(Removed, text, configured)

-----------------------------------------------------------------------------
(***************************************************************************)
(* The writer.                                                             *)
(***************************************************************************)

\* text ends with the first length symbols of value.
EndsWithStart(text, value, length) ==
    SubSeq(text, Len(text) - length + 1, Len(text)) = SubSeq(value, 1, length)

\* The longest end of text that is the start of a value and leaves out at
\* least its last few symbols.
LongestStart(text, few) ==
    Max({0} \cup {length \in 1..Len(text) :
                    \E i \in DOMAIN values : /\ length <= Len(values[i]) - few
                                             /\ EndsWithStart(text, values[i], length)})

\* The longest end of the pending text that starts a value without being all
\* of it.  The seeded faults look one symbol less far, count a whole value,
\* and do not compare.
PartialSuffixTooShort(text) == LongestStart(text, 2)
PartialSuffixTooLong(text) == LongestStart(text, 0)
PartialSuffixUnread(text) ==
    Max({0} \cup {Min({Len(text), Len(values[i]) - 1}) : i \in DOMAIN values})
PartialSuffixLength(text) == LongestStart(text, 1)

\* No value ends, before its own end or another's, with the start of a value:
\* the writer is right for these, and need not be for others.
Apart(configured) ==
    \A i, j \in DOMAIN configured :
        LET u == configured[i]
            v == configured[j]
        IN Len(u) >= 3 /\ Len(v) >= 3 =>
             \A length \in 1..(Len(u) - 1) : length < Len(v) => ~EndsWithStart(u, v, length)

\* NewWriter.
Init ==
    /\ \E configured \in Configurations : values = Eligible(configured)
    /\ pending = <<>>
    /\ out = <<>>
    /\ input = <<>>
    /\ phase = "open"

\* Write.  When dst fails the text stays pending, and the goroutine that
\* copies the output of the child stops.
Write(chunk) ==
    LET held == pending \o chunk
        flush == Len(held) - PartialSuffixLength(held)
        Passed == /\ flush > 0
                  /\ out' = out \o Redact(SubSeq(held, 1, flush), values)
                  /\ pending' = SubSeq(held, flush + 1, Len(held))
                  /\ UNCHANGED phase
        Kept == /\ flush <= 0
                /\ pending' = held
                /\ UNCHANGED <<out, phase>>
        Refused == /\ flush > 0
                   /\ pending' = held
                   /\ phase' = "failed"
                   /\ UNCHANGED out
    IN /\ phase = "open"
       /\ Len(input) + Len(chunk) <= MaxInput
       /\ input' = input \o chunk
       /\ Passed \/ Kept \/ Refused
       /\ UNCHANGED values

\* Close.  A connection that has failed fails again (json.Encoder keeps its
\* error), and one that has not may fail now.
Close ==
    /\ \/ /\ phase = "open" \/ pending = <<>>
          /\ out' = out \o Redact(pending, values)
          /\ pending' = <<>>
          /\ phase' = "closed"
       \/ /\ pending # <<>>
          /\ phase' = "ended"
          /\ UNCHANGED <<pending, out>>
    /\ phase \in {"open", "failed"}
    /\ UNCHANGED <<values, input>>

Next ==
    \/ \E length \in 1..MaxChunk : \E chunk \in [1..length -> Symbols] : Write(chunk)
    \/ Close

Spec == Init /\ [][Next]_vars

-----------------------------------------------------------------------------
(***************************************************************************)
(* Properties.                                                             *)
(***************************************************************************)

\* Every variable ranges over its type; what an open writer keeps back is
\* shorter than a value it looks for.
TypeOK ==
    /\ values \in Seq(Seq(Symbols))
    /\ out \in Seq(Symbols \cup {Marker})
    /\ input \in Seq(Symbols)
    /\ pending \in Seq(Symbols)
    /\ phase \in {"open", "failed", "closed", "ended"}
    /\ phase = "open" =>
          pending = <<>> \/ \E i \in DOMAIN values : Len(pending) < Len(values[i])

\* What the writer has passed on and what it would pass on now are together
\* what Redact makes of the whole output: where the pieces end does not show,
\* and a destination that fails loses and repeats nothing.
SplitIsInvisible == out \o Redact(pending, values) = Redact(input, values)

\* Nothing that has been passed on contains a value, not even one whose parts
\* were passed on by different writes.
NothingSlips ==
    \A i \in DOMAIN values, at \in DOMAIN out :
        LET end == at + Len(values[i]) - 1 IN
        end <= Len(out) => SubSeq(out, at, end) # values[i]

\* Nothing is kept back without need: what an open writer keeps is the start
\* of a value.
HeldStartsValue ==
    phase = "open" /\ pending # <<>> => \E i \in DOMAIN values : IsPrefix(pending, values[i])
=============================================================================
