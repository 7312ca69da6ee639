----------------------------- MODULE Arithmetic -----------------------------
(***************************************************************************)
(* arithmetic.go: evalArithmetic over a sequence of tokens, which are the  *)
(* operators that accept looks for and the operands of parsePrimary.       *)
(* Levels 1 to 5 are parseLogicalOr, parseLogicalAnd, parseComparison,     *)
(* parseAdd and parseMultiply.  Integers have Width bits and wrap around.  *)
(***************************************************************************)
EXTENDS Integers, Sequences

CONSTANTS
  Width,     \* bits of an integer: 64 in the code
  Operands   \* the value of each operand: a literal's or a variable's

ASSUME WidthAssumption == Width \in Nat \ {0}

Comparisons == {"==", "!=", "<=", ">=", "<", ">"}
Operators == << {"||"}, {"&&"}, Comparisons, {"+", "-"}, {"*", "/", "%"} >>

Wrapped(n) == ((n + 2^(Width - 1)) % 2^Width) - 2^(Width - 1)
Truth(b) == IF b THEN 1 ELSE 0

\* Go's / and % truncate towards zero.
Magnitude(n) == IF n < 0 THEN -n ELSE n
Quotient(a, b) ==
  LET q == Magnitude(a) \div Magnitude(b) IN IF (a < 0) = (b < 0) THEN q ELSE -q

Applied(op, a, b) ==
  CASE op = "||" -> Truth(a # 0 \/ b # 0)
    [] op = "&&" -> Truth(a # 0 /\ b # 0)
    [] op = "==" -> Truth(a = b)
    [] op = "!=" -> Truth(a # b)
    [] op = "<=" -> Truth(a <= b)
    [] op = ">=" -> Truth(a >= b)
    [] op = "<"  -> Truth(a < b)
    [] op = ">"  -> Truth(a > b)
    [] op = "+"  -> Wrapped(a + b)
    [] op = "-"  -> Wrapped(a - b)
    [] op = "*"  -> Wrapped(a * b)
    [] op = "/"  -> Wrapped(Quotient(a, b))
    [] op = "%"  -> a - b * Quotient(a, b)

AppliedUnary(op, a) ==
  CASE op = "+" -> a
    [] op = "-" -> Wrapped(-a)
    [] op = "!" -> Truth(a = 0)

\* What a parse function returns, and the offset it leaves behind.
Parsed(v, at) == [v |-> v, at |-> at, ok |-> TRUE]
NotParsed(at) == [v |-> 0, at |-> at, ok |-> FALSE]
TokenAt(tokens, at) == IF at <= Len(tokens) THEN tokens[at] ELSE "end"

\* Both operands are evaluated, also those of && and ||.
Joined(op, left, right) ==
  IF ~ right.ok \/ (op \in {"/", "%"} /\ right.v = 0) THEN NotParsed(right.at)
  ELSE Parsed(Applied(op, left.v, right.v), right.at)

RECURSIVE ParseLevel(_, _, _), MoreOf(_, _, _)

\* parseUnary and parsePrimary
RECURSIVE ParseUnary(_, _)
ParseUnary(tokens, at) ==
  LET token == TokenAt(tokens, at)
  IN IF token \in {"+", "-", "!"}
     THEN LET r == ParseUnary(tokens, at + 1)
          IN IF r.ok THEN Parsed(AppliedUnary(token, r.v), r.at) ELSE r
     ELSE IF token = "("
     THEN LET r == ParseLevel(1, tokens, at + 1)
          IN IF r.ok /\ TokenAt(tokens, r.at) = ")" THEN Parsed(r.v, r.at + 1)
             ELSE NotParsed(r.at)
     ELSE IF token \in DOMAIN Operands THEN Parsed(Operands[token], at + 1)
     ELSE NotParsed(at)

ParseLevel(level, tokens, at) ==
  IF level > 5 THEN ParseUnary(tokens, at)
  ELSE MoreOf(level, tokens, ParseLevel(level + 1, tokens, at))

\* Mutant: operators of one level are taken from right to left.
MoreOfFromRight(level, tokens, left) ==
  LET op == TokenAt(tokens, left.at)
  IN IF ~ left.ok \/ op \notin Operators[level] THEN left
     ELSE Joined(op, left, ParseLevel(level, tokens, left.at + 1))

\* Operators of one level are taken from left to right, a comparison once.
MoreOf(level, tokens, left) ==
  LET op == TokenAt(tokens, left.at)
  IN IF ~ left.ok \/ op \notin Operators[level] THEN left
     ELSE LET joined == Joined(op, left, ParseLevel(level + 1, tokens, left.at + 1))
          IN IF level = 3 THEN joined ELSE MoreOf(level, tokens, joined)

\* The value, or the error of a division by zero or of text that is left over.
EvalArithmetic(tokens) ==
  LET r == ParseLevel(1, tokens, 1)
  IN IF r.ok /\ r.at > Len(tokens) THEN [v |-> r.v, ok |-> TRUE] ELSE [v |-> 0, ok |-> FALSE]

-----------------------------------------------------------------------------
\* Reference: an operation's exact result, where a quotient leaves a remainder
\* that is smaller than the divisor and has the dividend's sign, and the integer
\* of Width bits that is congruent to it.
Congruent(n) ==
  CHOOSE v \in -(2^(Width - 1))..(2^(Width - 1) - 1) : (v - n) % 2^Width = 0
ExactQuotient(a, b) ==
  CHOOSE q \in -(2^(Width - 1))..2^(Width - 1) :
    LET r == a - q * b IN Magnitude(r) < Magnitude(b) /\ (r = 0 \/ (r < 0) = (a < 0))
Exact(op, a, b) ==
  CASE op = "+" -> a + b
    [] op = "-" -> a - b
    [] op = "*" -> a * b
    [] op = "/" -> ExactQuotient(a, b)
    [] op = "%" -> a - b * ExactQuotient(a, b)
Result(op, a, b) ==
  IF op \in Operators[4] \cup Operators[5] THEN Congruent(Exact(op, a, b)) ELSE Applied(op, a, b)

\* The value of an expression as a tree, where an error in any operand is an
\* error of the whole.
RECURSIVE TreeValue(_)
TreeValue(tree) ==
  CASE tree.arity = 0 -> [v |-> Operands[tree.op], ok |-> TRUE]
    [] tree.arity = 1 ->
         LET a == TreeValue(tree.a)
         IN IF ~ a.ok THEN a
            ELSE [a EXCEPT !.v = IF tree.op = "-" THEN Congruent(-a.v) ELSE AppliedUnary(tree.op, a.v)]
    [] tree.arity = 2 ->
         LET a == TreeValue(tree.a)
             b == TreeValue(tree.b)
         IN IF ~ a.ok \/ ~ b.ok \/ (tree.op \in {"/", "%"} /\ b.v = 0)
            THEN [v |-> 0, ok |-> FALSE]
            ELSE [v |-> Result(tree.op, a.v, b.v), ok |-> TRUE]

\* Its text with no more parentheses than C's precedences need, but those that
\* a comparison of a comparison needs here.
LevelOf(tree) ==
  CASE tree.arity = 0 -> 7
    [] tree.arity = 1 -> 6
    [] tree.arity = 2 -> CHOOSE level \in 1..5 : tree.op \in Operators[level]
RECURSIVE Written(_, _)
Written(tree, level) ==
  LET own == LevelOf(tree)
      text == CASE tree.arity = 0 -> <<tree.op>>
                [] tree.arity = 1 -> <<tree.op>> \o Written(tree.a, 6)
                [] tree.arity = 2 ->
                     Written(tree.a, IF own = 3 THEN 4 ELSE own)
                       \o <<tree.op>> \o Written(tree.b, own + 1)
  IN IF own < level THEN <<"(">> \o text \o <<")">> ELSE text

Leaf(name) == [arity |-> 0, op |-> name]
UnaryTrees(trees) == {[arity |-> 1, op |-> op, a |-> t] : op \in {"+", "-", "!"}, t \in trees}
BinaryTrees(left, right) ==
  {[arity |-> 2, op |-> op, a |-> l, b |-> r] :
     op \in UNION {Operators[i] : i \in 1..5}, l \in left, r \in right}
=============================================================================
