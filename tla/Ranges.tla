------------------------------- MODULE Ranges -------------------------------
(***************************************************************************)
(* brace.go: {start..end..step}, for a range that is taken apart already.  *)
(* Its numbers are ints, which wrap around.                                *)
(***************************************************************************)
EXTENDS Subject, Sequences, SequencesExt, FiniteSetsExt

CONSTANT MaxInt   \* the greatest int: 2^63 - 1 in the code

ASSUME MaxIntAssumption == MaxInt \in Nat \ {0}

MinInt == -MaxInt - 1
Wraps(n) == ((n - MinInt) % (2 * (MaxInt + 1))) + MinInt

\* Mutant: a negative step of an ascending range is taken as it is.
DirectedDown(start, end, step) == IF start > end /\ step > 0 THEN Wraps(-step) ELSE step

\* The step with the sign the range needs; the negation of MinInt is MinInt.
Directed(start, end, step) ==
  IF (start > end /\ step > 0) \/ (start < end /\ step < 0) THEN Wraps(-step) ELSE step

\* The loop: its value after k passes, and the test that ends it.
Passes(start, step) ==
  LET value[k \in Nat] == IF k = 0 THEN start ELSE Wraps(value[k - 1] + step) IN value
Breaks(value, end, step) ==
  LET next == Wraps(value + step)
  IN \/ value = end
     \/ step > 0 /\ (next <= value \/ next > end)
     \/ step < 0 /\ (next >= value \/ next < end)

\* braceChoices of a range; a step of 0 is an error before it comes to this.
BraceRange(start, end, step) ==
  LET directed == Directed(start, end, step)
      value == Passes(start, directed)
      last == Min({k \in 0..(MaxInt - MinInt) : Breaks(value[k], end, directed)})
  IN [i \in 1..(last + 1) |-> value[i - 1]]

-----------------------------------------------------------------------------
RangeInit ==
  \E start, end, step \in MinInt..MaxInt :
    /\ step # 0
    /\ subject = [kind |-> "range", start |-> start, end |-> end, step |-> step]

\* Reference: the numbers of a range are those that differ from its start by a
\* multiple of the step and lie between its ends.
Between(n, a, b) == (a <= n /\ n <= b) \/ (b <= n /\ n <= a)
RangeNumbers(start, end, step) ==
  {n \in MinInt..MaxInt :
     Between(n, start, end) /\ (n - start) % (IF step < 0 THEN -step ELSE step) = 0}

\* A range stops at its end, also if the next number would wrap around, and
\* leaves out none before it.  The step that has no negation is an exception:
\* it may stop one number early.
RangeIsComplete ==
  subject.kind = "range" =>
    LET numbers == BraceRange(subject.start, subject.end, subject.step)
        expected == RangeNumbers(subject.start, subject.end, subject.step)
    IN /\ numbers[1] = subject.start /\ IsInjective(numbers)
       /\ ToSet(numbers) \subseteq expected
       /\ subject.step # MinInt => ToSet(numbers) = expected
       /\ \A i, j \in DOMAIN numbers :
            i < j => (numbers[i] < numbers[j]) = (subject.start < subject.end)
=============================================================================
