------------------------------ MODULE Patterns ------------------------------
(***************************************************************************)
(* pattern.go: shell patterns, which the code turns into regular           *)
(* expressions, and the parameter expansions that use them.  Text is a     *)
(* sequence of characters.  A class that contains a backslash or a range   *)
(* means what regexp makes of it and is left out.                          *)
(***************************************************************************)
EXTENDS Subject, Sequences, SequencesExt, FiniteSetsExt

Newline == "newline"
CharAt(text, i) == IF i \in 1..Len(text) THEN text[i] ELSE "none"
From(text, i) == SubSeq(text, i, Len(text))
UpTo(text, i) == SubSeq(text, 1, i)

\* The pieces of the regular expression: .* and . (which match no newline), a
\* class, a character.
Many == [kind |-> "many"]
AnyChar == [kind |-> "any"]
Class(negated, chars) == [kind |-> "class", negated |-> negated, chars |-> chars]
Char(c) == [kind |-> "char", char |-> c]

\* A character outside of ASCII, the bytes of its UTF-8 encoding, and for each
\* of these the character with that number: string(pattern[index]) makes it of
\* the byte.
NonASCII == {"a grave"}
BytesOf(c) == IF c \in NonASCII THEN <<"byte C3", "byte A0">> ELSE <<c>>
OfBytes(c) == IF c \in NonASCII THEN <<"A tilde", "no-break space">> ELSE <<c>>
Quoted(c) == [i \in DOMAIN OfBytes(c) |-> Char(OfBytes(c)[i])]

Accepts(item, c) ==
  CASE item.kind = "any" -> c # Newline
    [] item.kind = "class" -> (c \in item.chars) # item.negated
    [] item.kind = "char" -> c = item.char

\* Mutant: the first ] ends a class wherever it stands.
ClassEndAtOnce(pattern, i) ==
  LET ends == {j \in (i + 1)..Len(pattern) : pattern[j] = "]"}
  IN IF ends = {} THEN 0 ELSE Min(ends)

\* Where the class that begins at i ends: a ] that comes first is in the class.
ClassEnd(pattern, i) ==
  LET skipped == IF CharAt(pattern, i + 1) \in {"!", "^"} THEN i + 2 ELSE i + 1
      first == IF CharAt(pattern, skipped) = "]" THEN skipped + 1 ELSE skipped
      ends == {j \in first..Len(pattern) : pattern[j] = "]"}
  IN IF ends = {} THEN 0 ELSE Min(ends)

\* What stands at index i, and the index after it.
Piece(pattern, i) ==
  LET c == pattern[i]
      end == ClassEnd(pattern, i)
      negated == CharAt(pattern, i + 1) \in {"!", "^"}
      inside == (IF negated THEN i + 2 ELSE i + 1)..(end - 1)
  IN CASE c = "*" -> [items |-> <<Many>>, next |-> i + 1]
       [] c = "?" -> [items |-> <<AnyChar>>, next |-> i + 1]
       [] c = "[" /\ end # 0 ->
            [items |-> <<Class(negated, {pattern[k] : k \in inside})>>, next |-> end + 1]
       [] c = "\\" /\ i < Len(pattern) -> [items |-> Quoted(pattern[i + 1]), next |-> i + 2]
       [] OTHER -> [items |-> Quoted(c), next |-> i + 1]

\* compileShellPattern: the items of what begins at each index
Compiled(pattern) ==
  LET items[i \in 1..(Len(pattern) + 1)] ==
        LET piece == Piece(pattern, i)
        IN IF i > Len(pattern) THEN << >> ELSE piece.items \o items[piece.next]
  IN items[1]

InOneLine(text, i, j) == \A k \in i..(j - 1) : text[k] # Newline

\* External: where regexp's match of the items ends that begins at start, or 0;
\* of the many, the first tries the longest text first.  An end is the index
\* after it.
MatchEnd(items, text, start) ==
  LET ends[k \in 1..(Len(items) + 1)] ==
        LET later == ends[k + 1]
            places == 1..(Len(text) + 1)
            reach(i) == {j \in i..(Len(text) + 1) : InOneLine(text, i, j) /\ later[j] # 0}
        IN IF k > Len(items) THEN [i \in places |-> i]
           ELSE IF items[k].kind = "many"
           THEN [i \in places |-> IF reach(i) = {} THEN 0 ELSE later[Max(reach(i))]]
           ELSE [i \in places |->
                   IF i <= Len(text) /\ Accepts(items[k], text[i]) THEN later[i + 1] ELSE 0]
  IN ends[1][start]

\* The places of text from which items match all up to end.
Starts(items, text, end) ==
  LET starts[k \in 1..(Len(items) + 1)] ==
        LET later == starts[k + 1]
        IN IF k > Len(items) THEN {end}
           ELSE IF items[k].kind = "many"
           THEN {i \in 1..end : \E j \in later : i <= j /\ InOneLine(text, i, j)}
           ELSE {i \in 1..(end - 1) : Accepts(items[k], text[i]) /\ i + 1 \in later}
  IN starts[1]

\* External: whether the items match the whole of text.
FullMatch(items, text) == 1 \in Starts(items, text, Len(text) + 1)

ShellPatternMatch(pattern, text) == \E items \in {Compiled(pattern)} : FullMatch(items, text)

\* removeParameterPattern: the boundaries are tried from one side.
RemoveParameterPattern(text, pattern, operator) ==
  LET heads == {i \in 0..Len(text) : ShellPatternMatch(pattern, UpTo(text, i))}
      tails == {i \in 0..Len(text) : ShellPatternMatch(pattern, From(text, i + 1))}
  IN CASE operator = "#"  -> IF heads = {} THEN text ELSE From(text, Min(heads) + 1)
       [] operator = "##" -> IF heads = {} THEN text ELSE From(text, Max(heads) + 1)
       [] operator = "%"  -> IF tails = {} THEN text ELSE UpTo(text, Max(tails))
       [] operator = "%%" -> IF tails = {} THEN text ELSE UpTo(text, Min(tails))

\* Mutant: the character after the match is lost.
ReplaceFirstEatsOne(text, pattern, replacement) ==
  LET items == Compiled(pattern)
      starts == {i \in 1..(Len(text) + 1) : MatchEnd(items, text, i) # 0}
  IN IF pattern = << >> \/ starts = {} THEN text
     ELSE UpTo(text, Min(starts) - 1) \o replacement
            \o From(text, MatchEnd(items, text, Min(starts)) + 1)

\* replaceParameterPattern for /: the leftmost match.
ReplaceFirst(text, pattern, replacement) ==
  LET items == Compiled(pattern)
      starts == {i \in 1..(Len(text) + 1) : MatchEnd(items, text, i) # 0}
  IN IF pattern = << >> \/ starts = {} THEN text
     ELSE UpTo(text, Min(starts) - 1) \o replacement
            \o From(text, MatchEnd(items, text, Min(starts)))

-----------------------------------------------------------------------------
(* The reference: what a pattern matches, read off the pattern itself.  *    *)
(* stands for any text in one line, all else for one character.            *)

Negates(pattern, i) == pattern[i + 1] \in {"!", "^"}

\* Where the bracket expression at i may end: a ] that comes first is no end.
Brackets(pattern, i) ==
  {j \in (i + 2)..Len(pattern) :
     /\ pattern[i] = "[" /\ pattern[j] = "]" /\ (Negates(pattern, i) => j > i + 2)
     /\ \A k \in (i + 2)..(j - 1) : pattern[k] = "]" => k = i + 2 /\ Negates(pattern, i)}

Bracketed(pattern, i) ==
  LET first == IF Negates(pattern, i) THEN i + 2 ELSE i + 1
  IN {pattern[k] : k \in first..(Min(Brackets(pattern, i)) - 1)}

Escapes(pattern, i) == pattern[i] = "\\" /\ i < Len(pattern)

StandsFor(pattern, i, c) ==
  IF Brackets(pattern, i) # {} THEN (c \in Bracketed(pattern, i)) # Negates(pattern, i)
  ELSE IF pattern[i] = "?" THEN c # Newline
  ELSE c = IF Escapes(pattern, i) THEN pattern[i + 1] ELSE pattern[i]

After(pattern, i) ==
  IF Brackets(pattern, i) # {} THEN Min(Brackets(pattern, i)) + 1
  ELSE IF Escapes(pattern, i) THEN i + 2 ELSE i + 1

Denotes(pattern, text) ==
  LET places[i \in 1..(Len(pattern) + 1)] ==
        IF i > Len(pattern) THEN {Len(text) + 1}
        ELSE IF pattern[i] = "*"
        THEN {j \in 1..(Len(text) + 1) :
                \E k \in places[i + 1] : j <= k /\ Newline \notin {text[l] : l \in j..(k - 1)}}
        ELSE {j \in DOMAIN text :
                StandsFor(pattern, i, text[j]) /\ j + 1 \in places[After(pattern, i)]}
  IN 1 \in places[1]

-----------------------------------------------------------------------------
CONSTANTS
  PatternChars, \* characters of patterns
  TextChars,    \* characters of texts
  MaxPattern,   \* bound: length of a pattern
  MaxText       \* bound: length of a text

ASSUME BoundsAssumption == MaxPattern \in Nat /\ MaxText \in Nat

\* A class of a pattern holds no backslash.
ClassesPlain(pattern) ==
  \A i, j \in DOMAIN pattern : i < j /\ pattern[i] = "[" => pattern[j] # "\\"

PatternInit ==
  \E pattern \in BoundedSeq(PatternChars, MaxPattern), text \in BoundedSeq(TextChars, MaxText) :
    /\ ClassesPlain(pattern)
    /\ subject = [kind |-> "pattern", pattern |-> pattern, text |-> text]

\* ${x#p} and ${x%p} remove the shortest prefix or suffix that p stands for,
\* ${x##p} and ${x%%p} the longest, and nothing else is removed; so they agree
\* with case on what p matches.
RemovalIsExtreme ==
  subject.kind = "pattern" =>
    LET text == subject.text
        p == subject.pattern
        n == Len(text)
        heads == {i \in 0..n : Denotes(p, UpTo(text, i))}
        tails == {i \in 0..n : Denotes(p, From(text, i + 1))}
        Result(op) == RemoveParameterPattern(text, p, op)
    IN /\ Result("#") = IF heads = {} THEN text ELSE From(text, Min(heads) + 1)
       /\ Result("##") = IF heads = {} THEN text ELSE From(text, Max(heads) + 1)
       /\ Result("%") = IF tails = {} THEN text ELSE UpTo(text, Max(tails))
       /\ Result("%%") = IF tails = {} THEN text ELSE UpTo(text, Min(tails))

\* ${x/p/r} replaces the leftmost match, and there the longest one, although
\* regexp takes the first match in its own order of preference.
ReplacesLeftmostLongest ==
  subject.kind = "pattern" /\ subject.pattern # << >> =>
    LET text == subject.text
        places == 1..(Len(text) + 1)
        matches == {m \in places \X places :
                      m[1] <= m[2] /\ Denotes(subject.pattern, SubSeq(text, m[1], m[2] - 1))}
        start == Min({m[1] : m \in matches})
        end == Max({m[2] : m \in {m \in matches : m[1] = start}})
    IN ReplaceFirst(text, subject.pattern, <<"R">>) =
         IF matches = {} THEN text
         ELSE UpTo(text, start - 1) \o <<"R">> \o From(text, end)
=============================================================================
