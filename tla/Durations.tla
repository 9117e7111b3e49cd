----------------------------- MODULE Durations ------------------------------
(***************************************************************************)
(* parseDuration, parseAllowDurations and the deadline of a button, on the *)
(* integers of the machine: int64 arithmetic wraps around.                 *)
(*                                                                         *)
(* A setting is the number before its suffix and the length of the unit in *)
(* seconds; a bare number has the unit 1.  What does not parse, a negative *)
(* number among it, is the number -1.                                      *)
(*                                                                         *)
(* A definition headed "Mistake:" is used by no specification.             *)
(***************************************************************************)
EXTENDS Integers, Sequences, FiniteSets

CONSTANTS
    MaxInt,     \* the largest int64, 2^63 - 1
    Nanos       \* time.Second, 10^9 nanoseconds

ASSUME WidthAssumption == MaxInt \in Nat /\ Nanos \in Nat \ {0}

Units == {1, 60, 3600, 86400, 604800}

Setting == [label : STRING, n : -1 .. MaxInt, unit : Units]

\* What remains of a product in int64.
Int64(n) == ((n + MaxInt + 1) % (2 * (MaxInt + 1))) - (MaxInt + 1)

Parses(s) == s.n >= 0

ParseDuration(s) == Int64(s.n * s.unit)

\* The buttons: the indices of the first four settings that satisfy `valid'.
FirstFour(valid) == {i \in valid : Cardinality({j \in valid : j < i}) < 4}

\* Mistake: a duration of zero passes.
ParseAllowDurationsZero(settings) ==
    FirstFour({i \in DOMAIN settings :
                 Parses(settings[i]) /\ ParseDuration(settings[i]) >= 0})

ParseAllowDurations(settings) ==
    FirstFour({i \in DOMAIN settings :
                 Parses(settings[i]) /\ ParseDuration(settings[i]) > 0})

\* time.Now().Add(time.Duration(seconds) * time.Second): a product that wraps
\* to zero or below is a deadline already past.
Deadline(seconds) == IF Int64(seconds * Nanos) > 0 THEN "live" ELSE "lapsed"
=============================================================================
