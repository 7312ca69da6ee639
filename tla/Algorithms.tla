----------------------------- MODULE Algorithms -----------------------------
(***************************************************************************)
(* The pure algorithms of the shell on every input of a bounded set:       *)
(* subject is the input, and each property compares what the code computes *)
(* from it with a reference definition.                                    *)
(***************************************************************************)
EXTENDS Arithmetic, Patterns, Braces, Ranges, Fields, Parameters, Parser, Scripts, Getopts

CONSTANTS
  Trees,        \* expressions
  BraceTrees,   \* words with braces
  Programs,     \* syntax trees
  Styles,       \* layouts of scripts
  Texts,        \* arguments of Join
  MaxArguments  \* bound: how many

Init ==
  \/ \E arguments \in BoundedSeq(Texts, MaxArguments) :
       /\ arguments # << >>
       /\ subject = [kind |-> "arguments", arguments |-> arguments]
  \/ \E tree \in Programs, style \in Styles :
       subject = [kind |-> "script", tree |-> tree, style |-> style]
  \/ \E tree \in Trees : subject = [kind |-> "arithmetic", tree |-> tree]
  \/ \E tree \in BraceTrees : subject = [kind |-> "braces", tree |-> tree]
  \/ RangeInit
  \/ WordInit
  \/ ParametersInit
  \/ OptionsInit
  \/ PatternInit

Spec == Init /\ [][Next]_subject

-----------------------------------------------------------------------------
\* Precedence, grouping, parentheses, wrapping and errors: $((...)) computes the
\* value of the expression that its text stands for.
ArithmeticMeansTree ==
  subject.kind = "arithmetic" =>
    EvalArithmetic(Written(subject.tree, 1)) = TreeValue(subject.tree)

\* Rewriting a word brace by brace gives every choice once and in order.
BracesGiveEveryChoice ==
  subject.kind = "braces" => ExpandBraceWord(BraceText(subject.tree)) = Expansions(subject.tree)

\* Parse gives back the tree that a script was written from, whatever its
\* quotes, comments, blank lines, heredocs and the words in it that look like
\* reserved ones; and a tree deeper than maxParserNesting is refused as such.
ScriptsParseBack ==
  subject.kind = "script" =>
    LET r == Parse(Script(subject.tree, subject.style))
    IN IF Nesting(subject.tree) <= MaxParserNesting THEN r.ok /\ r.value = subject.tree
       ELSE r = LimitError

\* "Quote returns one POSIX-shell-safe word", "Join quotes and joins arguments
\* into a shell command line" (api.go:145,165): that line is one command with
\* these words and nothing that is expanded.  A first word that is a reserved
\* one is an exception: Quote leaves it bare.
JoinedArgumentsReturn ==
  subject.kind = "arguments" =>
    LET r == Parse(Join(subject.arguments))
        command == r.value.items[1]
    IN \/ subject.arguments[1] \in {<<keyword>> : keyword \in Misplaced \cup Compound}
       \/ /\ r.ok /\ Len(r.value.items) = 1
          /\ command.kind = "simple" /\ command.redirs = << >>
          /\ \A k \in DOMAIN command.words : IsLiteral(command.words[k])
          /\ [k \in DOMAIN command.words |-> LiteralText(command.words[k])] = subject.arguments

\* "UTF-8-safe quotes and literal words" (README.md:14): a word of letters is
\* one argument of a command, and as a pattern, as in `case $x in word)`, it
\* matches the same word.
LiteralWordsSurvive ==
  LET pattern == subject.pattern
      bytes == FlattenSeq([i \in DOMAIN pattern |-> BytesOf(pattern[i])])
  IN subject.kind = "pattern" /\ pattern # << >>
       /\ ToSet(pattern) \cap {"*", "?", "[", "\\"} = {} =>
       /\ Parse(bytes) = Taken(2, ListNode(<<SimpleNode(<< <<Part("literal", bytes, FALSE)>> >>, << >>)>>))
       /\ ShellPatternMatch(pattern, pattern)
=============================================================================
