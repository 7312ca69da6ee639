----------------------------- MODULE Parameters -----------------------------
(***************************************************************************)
(* expand.go: expandParameter, parameterValue and expandOperand.  An       *)
(* expression is parsed already to uses of parameters, each the operand of *)
(* the one before it, and the text that is the operand of the last one.  A *)
(* use is a name, an operator ("none" for $x, "length" for ${#x}) and      *)
(* whether it stands in double quotes.  store is the part of shellState    *)
(* that they read and ${x=w} changes.  The names ?, $, -, _ and 0 differ   *)
(* from others in their value only and are left out, and so are / and //,  *)
(* whose two operands are Patterns' arguments.                             *)
(***************************************************************************)
EXTENDS Patterns, Fields, TLC

CONSTANTS
  VariableNames,  \* names of variables
  Joiner,         \* the first character of IFS, or a space
  Stores,         \* variables and arguments
  Expressions     \* sequences of expressions

Positionals == <<"1", "2">>

Number(n) == <<ToString(n)>>
JoinedBy(char, texts) ==
  FlattenSeq([i \in DOMAIN texts |-> IF i = 1 THEN texts[i] ELSE <<char>> \o texts[i]])

Value(value) == [value |-> value, set |-> TRUE]
NoValue == [value |-> << >>, set |-> FALSE]

ParameterValue(store, name) ==
  CASE name = "@" -> Value(JoinedBy(" ", store.position))
    [] name = "*" -> Value(JoinedBy(Joiner, store.position))
    [] name = "#" -> Value(Number(Len(store.position)))
    [] name \in ToSet(Positionals) ->
         LET i == CHOOSE i \in DOMAIN Positionals : Positionals[i] = name
         IN IF i \in DOMAIN store.position THEN Value(store.position[i]) ELSE NoValue
    [] OTHER -> IF name \in DOMAIN store.env THEN Value(store.env[name]) ELSE NoValue

Expanded(store, values, multi) ==
  [ok |-> TRUE, store |-> store, values |-> values, multi |-> multi]
One(store, value) == Expanded(store, <<value>>, FALSE)
Fails(store) == [ok |-> FALSE, store |-> store, values |-> << >>, multi |-> FALSE]

AssignVariable(store, name, value) ==
  [store EXCEPT !.env = (name :> value) @@ store.env]

\* Mutant: an empty value counts as unset without the colon, too.
TestUnsetAnyway(op, p) == ~ p.set \/ p.value = << >>

TestUnset(op, p) == ~ p.set \/ (op \in {":-", ":=", ":?", ":+"} /\ p.value = << >>)

\* The value is read before the operand is expanded; the operand of an operator
\* that does not need it is not expanded, so that operand counts only where it
\* is used.  expandOperand takes the first field of a word that is not split.
Expand(store, use, operand) ==
  LET p == ParameterValue(store, use.name)
      word == FirstOf(operand.values)
      Replaced(value) == IF operand.ok THEN One(operand.store, value) ELSE Fails(operand.store)
      kept == One(store, p.value)
      unset == TestUnset(use.op, p)
  IN CASE use.op = "none" /\ use.name = "@" -> Expanded(store, store.position, use.quoted)
       [] use.op = "none" /\ use.name # "@" ->
            IF ~ p.set /\ store.nounset THEN Fails(store) ELSE kept
       [] use.op = "length" -> One(store, Number(Len(p.value)))
       [] use.op \in {"#", "##", "%", "%%"} ->
            Replaced(RemoveParameterPattern(p.value, word, use.op))
       [] use.op \in {"-", ":-"} -> IF unset THEN Replaced(word) ELSE kept
       [] use.op \in {"+", ":+"} -> IF unset THEN One(store, << >>) ELSE Replaced(word)
       [] use.op \in {"?", ":?"} -> IF unset THEN Fails(operand.store) ELSE kept
       [] use.op \in {"=", ":="} ->
            IF ~ unset THEN kept
            ELSE IF use.name \notin VariableNames THEN Fails(store)
            ELSE IF ~ operand.ok \/ use.name \in operand.store.readonly THEN Fails(operand.store)
            ELSE One(AssignVariable(operand.store, use.name, word), word)

\* An operand is expanded before anything is assigned, that is, in store.
ExpandParameter(store, e) ==
  LET results[k \in 1..(Len(e.uses) + 1)] ==
        IF k > Len(e.uses) THEN One(store, e.text)
        ELSE Expand(store, e.uses[k], results[k + 1])
  IN results[1]

Effect(ok, store, value) == [ok |-> ok, store |-> store, value |-> value]

\* The parts of a word are evaluated from left to right up to the first error.
EvaluateParts(store, expressions) ==
  LET Then(before, r) ==
        IF r.ok THEN Effect(TRUE, r.store, Append(before.value, r.values))
        ELSE Effect(FALSE, r.store, << >>)
      done[i \in 0..Len(expressions)] ==
        IF i = 0 THEN Effect(TRUE, store, << >>)
        ELSE IF ~ done[i - 1].ok THEN done[i - 1]
        ELSE Then(done[i - 1], ExpandParameter(done[i - 1].store, expressions[i]))
  IN done[Len(expressions)]

-----------------------------------------------------------------------------
\* Reference: what each operator does with a parameter that has a value that is
\* not empty, has an empty one, or has none.
Row(set, empty, none) == [set |-> set, empty |-> empty, none |-> none]
Tested == {":-", "-", ":=", "=", ":?", "?", ":+", "+"}
Meanings ==
  [op \in Tested |->
     CASE op = ":-" -> Row("value", "word", "word")
       [] op = "-"  -> Row("value", "value", "word")
       [] op = ":=" -> Row("value", "assign", "assign")
       [] op = "="  -> Row("value", "value", "assign")
       [] op = ":?" -> Row("value", "error", "error")
       [] op = "?"  -> Row("value", "value", "error")
       [] op = ":+" -> Row("word", "nothing", "nothing")
       [] op = "+"  -> Row("word", "word", "nothing")]

Means(store, use) ==
  LET p == ParameterValue(store, use.name)
  IN IF use.op = "none" THEN IF p.set \/ ~ store.nounset THEN "value" ELSE "refused"
     ELSE IF ~ p.set THEN Meanings[use.op].none
     ELSE IF p.value = << >> THEN Meanings[use.op].empty
     ELSE Meanings[use.op].set

\* The value of a use and the store after it, also after an error; word is what
\* its operand means.
MeantBy(store, use, word) ==
  LET means == Means(store, use)
      assigned == use.name \in VariableNames /\ word.ok /\ use.name \notin word.store.readonly
  IN CASE means = "value" -> Effect(TRUE, store, ParameterValue(store, use.name).value)
       [] means = "nothing" -> Effect(TRUE, store, << >>)
       [] means = "word" -> word
       [] means = "refused" -> Effect(FALSE, store, << >>)
       [] means = "error" -> Effect(FALSE, word.store, << >>)
       [] means = "assign" /\ assigned ->
            Effect(TRUE, AssignVariable(word.store, use.name, word.value), word.value)
       [] means = "assign" /\ ~ assigned ->
            Effect(FALSE, IF use.name \in VariableNames THEN word.store ELSE store, << >>)

Meant(store, e) ==
  LET meant[k \in 1..(Len(e.uses) + 1)] ==
        IF k > Len(e.uses) THEN Effect(TRUE, store, e.text)
        ELSE MeantBy(store, e.uses[k], meant[k + 1])
  IN meant[1]

MeantByAll(store, expressions) ==
  LET Then(before, m) ==
        IF m.ok THEN Effect(TRUE, m.store, Append(before.value, <<m.value>>))
        ELSE Effect(FALSE, m.store, << >>)
      meant[i \in 0..Len(expressions)] ==
        IF i = 0 THEN Effect(TRUE, store, << >>)
        ELSE IF ~ meant[i - 1].ok THEN meant[i - 1]
        ELSE Then(meant[i - 1], Meant(meant[i - 1].store, expressions[i]))
  IN meant[Len(expressions)]

\* $@ stands for several values and is ExpandWord's.
ASSUME ExpressionsAssumption ==
  \A expressions \in Expressions :
    /\ expressions \in Seq(Range(expressions))
    /\ \A i \in DOMAIN expressions :
         /\ expressions[i].uses \in Seq(Range(expressions[i].uses))
         /\ \A k \in DOMAIN expressions[i].uses :
              LET use == expressions[i].uses[k]
              IN use.op \in Tested \/ (use.op = "none" /\ use.name # "@")

ParametersInit ==
  \E store \in Stores, expressions \in Expressions :
    subject = [kind |-> "parameters", store |-> store, expressions |-> expressions]

\* ${x-w} and its seven siblings, with and without set -u and nested in one
\* another, give what the operator means for a parameter that is set, empty or
\* unset; an operand that is not used is not expanded, so that an assignment or
\* an error in it has no effect; and an error keeps what was assigned before.
ParametersMeanTable ==
  subject.kind = "parameters" =>
    EvaluateParts(subject.store, subject.expressions)
      = MeantByAll(subject.store, subject.expressions)
=============================================================================
