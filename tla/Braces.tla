------------------------------- MODULE Braces -------------------------------
(***************************************************************************)
(* brace.go: {a,b}.  The code expands the first pair of braces, writes     *)
(* each of its choices into the word and expands the words it gets.  A     *)
(* word is a sequence of characters.                                       *)
(***************************************************************************)
EXTENDS Integers, Sequences, SequencesExt, FiniteSetsExt

Opened(word, i, j) ==
  Cardinality({k \in i..j : word[k] = "{"}) - Cardinality({k \in i..j : word[k] = "}"})

\* bracePair: the first { that is closed, and its }; or <<0, 0>>.
BracePair(word) ==
  LET closes(i) == {j \in (i + 1)..Len(word) : Opened(word, i, j) = 0}
      opens == {i \in DOMAIN word : word[i] = "{" /\ closes(i) # {}}
  IN IF opens = {} THEN <<0, 0>> ELSE <<Min(opens), Min(closes(Min(opens)))>>

\* Mutant: the commas of inner braces count, too.
SplitBraceListFlat(body) ==
  LET cuts == <<0>> \o SetToSortSeq({i \in DOMAIN body : body[i] = ","}, <) \o <<Len(body) + 1>>
  IN [i \in 1..(Len(cuts) - 1) |-> SubSeq(body, cuts[i] + 1, cuts[i + 1] - 1)]

\* splitBraceList: the parts between the commas outside of inner braces.
SplitBraceList(body) ==
  LET commas == {i \in DOMAIN body : body[i] = "," /\ Opened(body, 1, i) = 0}
      cuts == <<0>> \o SetToSortSeq(commas, <) \o <<Len(body) + 1>>
  IN [i \in 1..(Len(cuts) - 1) |-> SubSeq(body, cuts[i] + 1, cuts[i + 1] - 1)]

\* expandBraceWordContext, without the limit
RECURSIVE ExpandBraceWord(_)
ExpandBraceWord(word) ==
  LET pair == BracePair(word)
      choices == SplitBraceList(SubSeq(word, pair[1] + 1, pair[2] - 1))
      chosen(choice) ==
        SubSeq(word, 1, pair[1] - 1) \o choice \o SubSeq(word, pair[2] + 1, Len(word))
  IN IF pair[1] = 0 \/ Len(choices) < 2 THEN <<word>>
     ELSE FlattenSeq([i \in DOMAIN choices |-> ExpandBraceWord(chosen(choices[i]))])

-----------------------------------------------------------------------------
\* Reference: a word as a sequence of letters and lists of alternatives; its
\* expansions are the choices of one alternative in each list, the last list
\* varying fastest.
RECURSIVE Expansions(_), ExpansionsOfAll(_)
Expansions(tree) ==
  IF tree = << >> THEN << << >> >>
  ELSE LET head == Head(tree)
           heads == IF head.kind = "letter" THEN << <<head.letter>> >>
                    ELSE ExpansionsOfAll(head.alternatives)
           tails == Expansions(Tail(tree))
       IN FlattenSeq([i \in DOMAIN heads |-> [j \in DOMAIN tails |-> heads[i] \o tails[j]]])
ExpansionsOfAll(trees) ==
  IF trees = << >> THEN << >> ELSE Expansions(Head(trees)) \o ExpansionsOfAll(Tail(trees))

RECURSIVE BraceText(_), BraceTexts(_)
BraceText(tree) ==
  IF tree = << >> THEN << >>
  ELSE (IF Head(tree).kind = "letter" THEN <<Head(tree).letter>>
        ELSE <<"{">> \o BraceTexts(Head(tree).alternatives) \o <<"}">>)
       \o BraceText(Tail(tree))
BraceTexts(trees) ==
  IF Len(trees) = 1 THEN BraceText(trees[1])
  ELSE BraceText(trees[1]) \o <<",">> \o BraceTexts(Tail(trees))

Letter(c) == [kind |-> "letter", letter |-> c]
Alternatives(trees) == [kind |-> "list", alternatives |-> trees]
=============================================================================
