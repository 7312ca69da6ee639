------------------------------- MODULE Fields -------------------------------
(***************************************************************************)
(* expand.go: expandWord, which joins the parts of a word to fields, and   *)
(* splitFields.  A part has been evaluated: it is a literal or the result  *)
(* of an expansion, quoted or not, and has one value, or if it is a $@ any *)
(* number: with quotes it is multi, and without them expandParameter       *)
(* returns its values, too, but not multi.  Braces and globbing, which     *)
(* come afterwards, are left out.                                          *)
(***************************************************************************)
EXTENDS Subject, Sequences, SequencesExt, FiniteSetsExt

CONSTANT Separators   \* the characters of IFS, or white space if IFS is unset

\* strings.FieldsFunc: every separator and empty piece is dropped.
Pieces(value) ==
  LET pieces[i \in 0..Len(value)] ==
        IF i = 0 THEN << >>
        ELSE IF value[i] \in Separators THEN pieces[i - 1]
        ELSE IF i = 1 \/ value[i - 1] \in Separators THEN Append(pieces[i - 1], <<value[i]>>)
        ELSE [pieces[i - 1] EXCEPT ![Len(pieces[i - 1])] = Append(@, value[i])]
  IN pieces[Len(value)]

\* splitFields; with an empty IFS it returns the value as it is.
SplitFields(value) == IF Separators = {} THEN <<value>> ELSE Pieces(value)

FirstOf(values) == IF values = << >> THEN << >> ELSE values[1]

\* The first of the pieces goes on the last field.
Attached(fields, pieces) ==
  IF pieces = << >> THEN fields
  ELSE [fields EXCEPT ![Len(fields)] = @ \o pieces[1]] \o Tail(pieces)

\* Mutant: quoted values are split, too.
PiecesOfUnquoted(part, split) ==
  IF part.literal \/ ~ split THEN <<FirstOf(part.values)>> ELSE SplitFields(FirstOf(part.values))

PiecesOf(part, split) ==
  IF part.quoted
  THEN IF part.multi THEN part.values ELSE <<FirstOf(part.values)>>
  ELSE IF part.literal \/ ~ split THEN <<FirstOf(part.values)>>
  ELSE SplitFields(FirstOf(part.values))

ExpandWord(parts, split) ==
  LET fields[i \in 0..Len(parts)] ==
        IF i = 0 THEN << << >> >> ELSE Attached(fields[i - 1], PiecesOf(parts[i], split))
      preserveEmpty == \E i \in DOMAIN parts : parts[i].quoted
  IN IF /\ fields[Len(parts)] = << << >> >> /\ ~ preserveEmpty
        /\ parts # << >> /\ ~ parts[1].literal
     THEN << >> ELSE fields[Len(parts)]

-----------------------------------------------------------------------------
CONSTANTS
  Parts,    \* parts of words
  MaxParts  \* bound: parts of a word

ASSUME PartsAssumption ==
  /\ MaxParts \in Nat
  /\ \A part \in Parts :
       /\ part.quoted \in BOOLEAN /\ part.literal \in BOOLEAN /\ part.multi \in BOOLEAN
       /\ part.values \in Seq(Seq(STRING))
       /\ part.multi => part.quoted
       /\ part.literal \/ (part.quoted /\ ~ part.multi) => Len(part.values) <= 1

WordInit ==
  \E parts \in BoundedSeq(Parts, MaxParts) : subject = [kind |-> "word", parts |-> parts]

\* Reference: what values of a part add to the text of the fields.
WithoutSeparators(text) ==
  FlattenSeq([i \in DOMAIN text |-> IF text[i] \in Separators THEN << >> ELSE <<text[i]>>])
Contribution(part, values) ==
  IF part.quoted \/ part.literal THEN FlattenSeq(values)
  ELSE WithoutSeparators(FlattenSeq(values))

\* Of an unquoted $@ expandWord takes the first value and drops the others.
LosesRest(part) == ~ part.quoted /\ ~ part.literal /\ Len(part.values) > 1
KeptValues(part) == IF LosesRest(part) THEN <<part.values[1]>> ELSE part.values

\* The text of the fields is that of the parts in their order, without the
\* separators of unquoted expansions and without the values of an unquoted $@
\* after its first: splitting loses these two and nothing else.  And a quoted
\* value is never divided.
OnlyRestOfAtIsLost ==
  subject.kind = "word" =>
    LET parts == subject.parts
        fields == ExpandWord(parts, TRUE)
    IN /\ FlattenSeq(fields)
            = FlattenSeq([i \in DOMAIN parts |-> Contribution(parts[i], KeptValues(parts[i]))])
       /\ \A i \in DOMAIN parts :
            parts[i].quoted =>
              \A k \in DOMAIN parts[i].values :
                \E f \in DOMAIN fields : \E a, b \in 0..Len(fields[f]) :
                  SubSeq(fields[f], a + 1, b) = parts[i].values[k]
=============================================================================
