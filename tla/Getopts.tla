------------------------------- MODULE Getopts -------------------------------
(***************************************************************************)
(* builtins_extra.go: builtinGetopts, which returns one option per call    *)
(* and keeps its place in shellState.  Words are sequences of characters;  *)
(* optind is the number in the variable OPTIND, or 0 if there is none.     *)
(***************************************************************************)
EXTENDS Subject, Sequences, SequencesExt, FiniteSetsExt

\* The place: getoptsIndex, getoptsOffset (counted from 0) and OPTIND.
AtStart == [index |-> 1, offset |-> 0, optind |-> 1]
Place(index, offset) == [index |-> index, offset |-> offset, optind |-> index]

\* What a call leaves: its status, the place, the letter in the variable and,
\* if OPTARG is set, its value.
Outcome(status, place, letter, optarg) ==
  [status |-> status, place |-> place, letter |-> letter, optarg |-> optarg]
NoOption(place) == Outcome(1, place, "none", << >>)
Panics(place) == Outcome(2, place, "none", << >>)

\* Mutant: an argument in the word after the option is not skipped.
AdvanceOne(index, offset, word, used) ==
  IF offset >= Len(word) THEN Place(index + 1, 0) ELSE Place(index, offset)

\* advanceGetopts, after used words that were arguments
AdvanceGetopts(index, offset, word, used) ==
  IF offset >= Len(word) THEN Place(index + used + 1, 0) ELSE Place(index, offset)

\* One letter of the word at index, which begins at offset.
TakeOption(options, silent, values, index, offset) ==
  LET word == values[index]
      option == word[offset + 1]
      known == option # ":" /\ option \in ToSet(options)
      position == CHOOSE i \in DOMAIN options :
                    options[i] = option /\ \A j \in 1..(i - 1) : options[j] # option
      wants == position < Len(options) /\ options[position + 1] = ":"
      rest == SubSeq(word, offset + 2, Len(word))
      next == AdvanceGetopts(index, offset + 1, word, 0)
  IN IF ~ known THEN Outcome(0, next, "?", <<option>>)
     ELSE IF ~ wants THEN Outcome(0, next, option, << >>)
     ELSE IF rest # << >> THEN Outcome(0, AdvanceGetopts(index, Len(word), word, 0), option, rest)
     ELSE IF index < Len(values)
     THEN Outcome(0, AdvanceGetopts(index, offset + 1, word, 1), option, values[index + 1])
     ELSE IF silent THEN Outcome(0, next, ":", <<option>>) ELSE Outcome(0, next, "?", << >>)

BuiltinGetopts(place, optstring, values) ==
  LET silent == optstring # << >> /\ optstring[1] = ":"
      options == IF silent THEN Tail(optstring) ELSE optstring
      moved == place.optind > 0 /\ place.optind # place.index
      index == IF moved THEN place.optind ELSE place.index
      offset == IF moved THEN 0 ELSE place.offset
      here == [index |-> index, offset |-> offset, optind |-> place.optind]
      word == values[index]
  IN IF index > Len(values) THEN NoOption([here EXCEPT !.optind = index])
     ELSE IF offset = 0 /\ word = <<"-", "-">> THEN NoOption(Place(index + 1, 0))
     ELSE IF offset = 0 /\ (Len(word) < 2 \/ word[1] # "-") THEN NoOption(here)
     ELSE IF offset >= Len(word) THEN Panics(here)
     ELSE TakeOption(options, silent, values, index, IF offset = 0 THEN 1 ELSE offset)

\* while getopts ...: the outcomes of all calls, the last one included.  No call
\* that goes on takes less than a character.
AllOptions(place, optstring, words) ==
  LET most == Len(FlattenSeq(words))
      calls[k \in 0..most] ==
        IF k = 0 THEN BuiltinGetopts(place, optstring, words)
        ELSE BuiltinGetopts(calls[k - 1].place, optstring, words)
      last == Min({k \in 0..most : calls[k].status # 0})
  IN [k \in 1..(last + 1) |-> calls[k - 1]]

-----------------------------------------------------------------------------
CONSTANTS
  OptStrings,    \* first arguments of getopts
  OptionWords,   \* words that getopts goes through
  MaxOptionWords \* bound: how many

ASSUME OptionsAssumption ==
  OptStrings \subseteq Seq(STRING) /\ OptionWords \subseteq Seq(STRING) /\ MaxOptionWords \in Nat

OptionsInit ==
  \E optstring \in OptStrings, words \in BoundedSeq(OptionWords, MaxOptionWords) :
    subject = [kind |-> "options", optstring |-> optstring, words |-> words]

\* Reference: the options a command line holds, from left to right.  The first
\* place of a letter in optstring says whether it takes an argument.
Takes(optstring, letter) ==
  \E i \in 1..(Len(optstring) - 1) :
    /\ optstring[i] = letter /\ optstring[i + 1] = ":"
    /\ \A j \in 1..(i - 1) : optstring[j] # letter

Option(letter, argument) == <<letter, argument>>
\* A list of options, and how many words they take.
Held(list, words) == [list |-> list, words |-> words]
OneMoreHeld(option, held) == Held(<<option>> \o held.list, held.words)

\* The options in word i from its character k on, up to the one that takes an
\* argument; behind are those from the next character on.
HeldFrom(optstring, words, i, k, behind) ==
  LET word == words[i]
      silent == optstring # << >> /\ optstring[1] = ":"
  IN IF k > Len(word) THEN Held(<< >>, 1)
     ELSE IF word[k] = ":" \/ word[k] \notin ToSet(optstring)
     THEN OneMoreHeld(Option("?", <<word[k]>>), behind)
     ELSE IF ~ Takes(optstring, word[k]) THEN OneMoreHeld(Option(word[k], << >>), behind)
     ELSE IF k < Len(word)
     THEN Held(<<Option(word[k], SubSeq(word, k + 1, Len(word)))>>, 1)
     ELSE IF i < Len(words) THEN Held(<<Option(word[k], words[i + 1])>>, 2)
     ELSE Held(<<IF silent THEN Option(":", <<word[k]>>) ELSE Option("?", << >>)>>, 1)

OptionsIn(optstring, words, i) ==
  LET from[k \in 2..(Len(words[i]) + 1)] == HeldFrom(optstring, words, i, k, from[k + 1])
  IN from[2]

\* Those of all words.
OptionsOf(optstring, words) ==
  LET from[i \in 1..(Len(words) + 1)] ==
        IF i > Len(words) \/ Len(words[i]) < 2 \/ words[i][1] # "-" THEN Held(<< >>, 0)
        ELSE IF words[i] = <<"-", "-">> THEN Held(<< >>, 1)
        ELSE LET here == OptionsIn(optstring, words, i)
                 others == from[i + here.words]
             IN Held(here.list \o others.list, here.words + others.words)
  IN from[1]

\* A loop over getopts sees every option of the words from left to right with
\* its argument, and leaves OPTIND at the first word that is none; setting
\* OPTIND to 1 starts again, unless the place is still in the first word.
OptionsComeInOrder ==
  subject.kind = "options" =>
    LET calls == AllOptions(AtStart, subject.optstring, subject.words)
        meant == OptionsOf(subject.optstring, subject.words)
        Again(place) == AllOptions([place EXCEPT !.optind = 1], subject.optstring, subject.words)
    IN /\ [k \in 1..(Len(calls) - 1) |-> Option(calls[k].letter, calls[k].optarg)] = meant.list
       /\ calls[Len(calls)].status = 1
       /\ calls[Len(calls)].place.index = 1 + meant.words
       /\ \A k \in DOMAIN calls : calls[k].place.index > 1 => Again(calls[k].place) = calls
=============================================================================
