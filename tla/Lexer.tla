-------------------------------- MODULE Lexer --------------------------------
(***************************************************************************)
(* lexer.go: lex, and api.go: Quote and Join.  A source is a sequence of   *)
(* units: a character, a byte above 127, or a run of letters or of digits, *)
(* which the lexer never takes apart.  Peek gives "end" where the code     *)
(* gives a zero byte.  Positions and the text of errors are left out.      *)
(***************************************************************************)
EXTENDS Integers, Sequences, SequencesExt, FiniteSetsExt, TLC

CONSTANTS
  LetterRuns,   \* units that are runs of letters
  DigitRuns     \* units that are runs of digits, with their numbers

LineEnd == "\n"
Tab == "\t"
Backtick == "backtick"
Blanks == {" ", Tab, "\r"}

\* isWordBoundary hands single bytes to unicode.IsSpace, which takes 85 and A0
\* for the characters with these numbers.
Spaces == Blanks \cup {LineEnd, "vertical tab", "byte 85", "byte A0"}
Boundaries == Spaces \cup {"end", ";", "&", "|", "(", ")", "<", ">"}

NameStarts == LetterRuns \cup {"_"}
NameUnits == NameStarts \cup DOMAIN DigitRuns
OneDigit == {run \in DOMAIN DigitRuns : DigitRuns[run] < 10}
ValidName(name) ==
  /\ name # << >> /\ name[1] \in NameStarts
  /\ ToSet(name) \subseteq NameUnits

Taken(next, value) == [ok |-> TRUE, next |-> next, value |-> value]
Refused(error) == [ok |-> FALSE, error |-> error]
SyntaxError == Refused("syntax")
\* Goes on with what r has taken, unless it failed.
Bind(r, Continue(_)) == IF r.ok THEN Continue(r) ELSE r

Peek(source, i) == IF i \in DOMAIN source THEN source[i] ELSE "end"
\* The first place from i on that holds something else than these units, and
\* the first one that holds one of them, or the end.
PastUnits(source, i, units) ==
  CHOOSE j \in i..(Len(source) + 1) :
    Peek(source, j) \notin units /\ \A k \in i..(j - 1) : source[k] \in units
FirstOfUnits(source, i, units) ==
  CHOOSE j \in i..(Len(source) + 1) :
    Peek(source, j) \in units \cup {"end"} /\ \A k \in i..(j - 1) : source[k] \notin units
EndOfLine(source, i) == FirstOfUnits(source, i, {LineEnd})

Part(kind, value, quoted) == [kind |-> kind, value |-> value, quoted |-> quoted]

AddLiteral(parts, value, quoted) ==
  IF parts # << >> /\ Last(parts).kind = "literal" /\ Last(parts).quoted = quoted
  THEN Front(parts) \o <<[Last(parts) EXCEPT !.value = @ \o value]>>
  ELSE Append(parts, Part("literal", value, quoted))

\* word.literal and word.plain
IsLiteral(parts) == \A i \in DOMAIN parts : parts[i].kind = "literal"
IsPlain(parts) == IsLiteral(parts) /\ \A i \in DOMAIN parts : ~ parts[i].quoted
LiteralText(parts) == FlattenSeq([i \in DOMAIN parts |-> parts[i].value])

-----------------------------------------------------------------------------
\* Where the pair that was opened before i is closed, or 0: takeBalanced and
\* takeCommandSubstitution, which skip quoted and escaped units.
RECURSIVE ClosedAt(_, _, _, _, _)
ClosedAt(source, i, pair, depth, quote) ==
  LET c == Peek(source, i)
      goOn(d, q) == ClosedAt(source, i + 1, pair, d, q)
  IN IF c = "end" THEN 0
     ELSE IF c = "\\" /\ quote # "'" THEN ClosedAt(source, i + 2, pair, depth, quote)
     ELSE IF quote # "none" THEN goOn(depth, IF c = quote THEN "none" ELSE quote)
     ELSE IF c \in {"'", "\""} THEN goOn(depth, c)
     ELSE IF c = pair[2] /\ depth = 1 THEN i
     ELSE goOn(depth + (IF c = pair[1] THEN 1 ELSE IF c = pair[2] THEN -1 ELSE 0), quote)

\* takeArithmetic: where the )) is, or 0; quotes do not count, and a single )
\* that closes nothing is passed over.
RECURSIVE ArithmeticClosedAt(_, _, _)
ArithmeticClosedAt(source, i, depth) ==
  LET c == Peek(source, i)
  IN IF c = "end" THEN 0
     ELSE IF c = ")" /\ depth = 1 /\ Peek(source, i + 1) = ")" THEN i
     ELSE ArithmeticClosedAt(source, i + 1,
            IF c = "(" THEN depth + 1 ELSE IF c = ")" /\ depth > 1 THEN depth - 1 ELSE depth)

\* takeBacktick, after the opening one.
RECURSIVE TakeBacktick(_, _, _)
TakeBacktick(source, i, value) ==
  LET c == Peek(source, i)
      next == Peek(source, i + 1)
  IN IF c = "end" THEN SyntaxError
     ELSE IF c = Backtick THEN Taken(i + 1, value)
     ELSE IF c = "\\" /\ next # "end"
     THEN TakeBacktick(source, i + 2,
            value \o IF next \in {Backtick, "\\", "$"} THEN <<next>> ELSE <<c, next>>)
     ELSE TakeBacktick(source, i + 1, Append(value, c))

\* The text between from and the place where it is closed, as a part.
Enclosed(source, from, closedAt, width, kind, quoted) ==
  IF closedAt = 0 THEN SyntaxError
  ELSE Taken(closedAt + width, Part(kind, SubSeq(source, from, closedAt - 1), quoted))

\* takeExpansion: source[i] is the dollar.
TakeExpansion(source, i, quoted) ==
  LET c == Peek(source, i + 1)
      parens == IF c # "(" THEN 0 ELSE IF Peek(source, i + 2) = "(" THEN 2 ELSE 1
      nameEnd == PastUnits(source, i + 1, NameUnits)
  IN CASE c = "{" ->
            Enclosed(source, i + 2, ClosedAt(source, i + 2, <<"{", "}">>, 1, "none"), 1,
                     "parameter", quoted)
       [] parens = 2 ->
            Enclosed(source, i + 3, ArithmeticClosedAt(source, i + 3, 1), 2, "arithmetic", quoted)
       [] parens = 1 ->
            Enclosed(source, i + 2, ClosedAt(source, i + 2, <<"(", ")">>, 1, "none"), 1,
                     "command", quoted)
       [] c \in NameStarts ->
            Taken(nameEnd, Part("parameter", SubSeq(source, i + 1, nameEnd - 1), quoted))
       [] c \in {"?", "$", "#", "!", "*", "@", "-"} \cup OneDigit ->
            Taken(i + 2, Part("parameter", <<c>>, quoted))
       [] OTHER -> Taken(i + 1, Part("literal", <<"$">>, quoted))

\* What $ and ` add to a word, quoted or not.
TakePart(source, i, quoted) ==
  IF source[i] = "$" THEN TakeExpansion(source, i, quoted)
  ELSE Bind(TakeBacktick(source, i + 1, << >>), LAMBDA r :
         Taken(r.next, Part("command", r.value, quoted)))

\* takeDoubleQuoted, after the opening quote; added says whether the quotes
\* hold anything.
RECURSIVE TakeDoubleQuoted(_, _, _, _)
TakeDoubleQuoted(source, i, parts, added) ==
  LET c == Peek(source, i)
      next == Peek(source, i + 1)
      literal(value, width) ==
        TakeDoubleQuoted(source, i + width, AddLiteral(parts, value, TRUE), TRUE)
  IN IF c = "end" \/ (c = "\\" /\ next = "end") THEN SyntaxError
     ELSE IF c = "\"" THEN Taken(i + 1, IF added THEN parts ELSE AddLiteral(parts, << >>, TRUE))
     ELSE IF c \in {"$", Backtick}
     THEN Bind(TakePart(source, i, TRUE), LAMBDA part :
            TakeDoubleQuoted(source, part.next, Append(parts, part.value), TRUE))
     ELSE IF c # "\\" THEN literal(<<c>>, 1)
     ELSE IF next = LineEnd THEN TakeDoubleQuoted(source, i + 2, parts, added)
     ELSE IF next \in {"$", "\\", "\""} THEN literal(<<next>>, 2)
     ELSE literal(<<c>>, 1)

RECURSIVE TakeWord(_, _, _)
TakeWord(source, i, parts) ==
  LET c == Peek(source, i)
      next == Peek(source, i + 1)
      closing == FirstOfUnits(source, i + 1, {"'"})
  IN IF c \in Boundaries THEN IF parts = << >> THEN SyntaxError ELSE Taken(i, parts)
     ELSE CASE c = "\\" ->
                 IF next = "end" THEN SyntaxError
                 ELSE TakeWord(source, i + 2,
                        IF next = LineEnd THEN parts ELSE AddLiteral(parts, <<next>>, TRUE))
            [] c = "'" ->
                 IF closing > Len(source) THEN SyntaxError
                 ELSE TakeWord(source, closing + 1,
                        AddLiteral(parts, SubSeq(source, i + 1, closing - 1), TRUE))
            [] c = "\"" ->
                 Bind(TakeDoubleQuoted(source, i + 1, parts, FALSE), LAMBDA quoted :
                   TakeWord(source, quoted.next, quoted.value))
            [] c \in {"$", Backtick} ->
                 Bind(TakePart(source, i, FALSE), LAMBDA part :
                   TakeWord(source, part.next, Append(parts, part.value)))
            [] OTHER -> TakeWord(source, i + 1, AddLiteral(parts, <<c>>, FALSE))

-----------------------------------------------------------------------------
\* takeRedirect: where the operator that begins at i ends.
RedirectEnd(source, i) ==
  LET length ==
        IF SubSeq(source, i, i + 1) \in {<<"<", ">">>, <<">", "|">>} THEN 2
        ELSE IF SubSeq(source, i, i + 2) = <<"<", "<", "<">> THEN 3
        ELSE LET same == IF Peek(source, i + 1) = source[i] THEN 2 ELSE 1
             IN IF Peek(source, i + same) = "&" THEN same + 1 ELSE same
  IN i + length

\* ioNumber's value, which stops growing at 256.
IoNumber(run) == Min({DigitRuns[run], 256})

Token(kind) == [kind |-> kind]
WordToken(parts) == [kind |-> "word", word |-> parts]
RedirectToken(fd, op, parts, inline, expand) ==
  [kind |-> "redirect", fd |-> fd, op |-> op, word |-> parts, inline |-> inline, expand |-> expand]

\* A line of a heredoc as <<- wants it.
Stripped(line, strip) ==
  IF strip THEN SubSeq(line, PastUnits(line, 1, {Tab}), Len(line)) ELSE line

RECURSIVE HeredocBody(_, _, _, _, _)
HeredocBody(source, i, delimiter, strip, body) ==
  LET end == EndOfLine(source, i)
      line == Stripped(SubSeq(source, i, end - 1), strip)
  IN IF i > Len(source) THEN SyntaxError
     ELSE IF line = delimiter THEN Taken(Min({end + 1, Len(source) + 1}), body)
     ELSE HeredocBody(source, end + 1, delimiter, strip,
            body \o line \o (IF end <= Len(source) THEN <<LineEnd>> ELSE << >>))

\* takeHeredocRedirect: source[i] is the first <.  The heredoc is followed by
\* the newline that lex.next emits for it.
TakeHeredoc(source, i, fd) ==
  LET strip == Peek(source, i + 2) = "-"
      op == IF strip THEN <<"<", "<", "-">> ELSE <<"<", "<">>
      start == PastUnits(source, i + Len(op), {" ", Tab})
  IN IF Peek(source, start) \in {"end", LineEnd} THEN SyntaxError
     ELSE Bind(TakeWord(source, start, << >>), LAMBDA word :
            LET delimiter == LiteralText(word.value)
                end == PastUnits(source, word.next, {" ", Tab})
            IN IF \/ ~ IsLiteral(word.value) \/ delimiter = << >>
                  \/ Peek(source, end) # LineEnd
               THEN SyntaxError
               ELSE Bind(HeredocBody(source, end + 1, delimiter, strip, << >>), LAMBDA body :
                      Taken(body.next,
                        <<RedirectToken(fd, op, word.value, body.value, IsPlain(word.value)),
                          Token("newline")>>)))

TakeRedirect(source, i, fd) ==
  IF SubSeq(source, i, i + 1) = <<"<", "<">> /\ Peek(source, i + 2) # "<"
  THEN TakeHeredoc(source, i, fd)
  ELSE LET end == RedirectEnd(source, i)
       IN Taken(end, <<RedirectToken(fd, SubSeq(source, i, end - 1), << >>, << >>, FALSE)>>)

\* The operators; a unit alone and the same unit twice.
Doubled == ";" :> ";;" @@ "&" :> "&&" @@ "|" :> "||"
TakeOperator(source, i) ==
  LET c == source[i]
      next == Peek(source, i + 1)
  IN IF c \in DOMAIN Doubled /\ next = c THEN Taken(i + 2, <<Token(Doubled[c])>>)
     ELSE IF c = "&" \/ (c = "|" /\ next = "&") THEN SyntaxError
     ELSE Taken(i + 1, <<Token(IF c = LineEnd THEN "newline" ELSE c)>>)

\* Blanks and comments are passed over before a token only.
RECURSIVE SkipBlanks(_, _)
SkipBlanks(source, i) ==
  LET start == PastUnits(source, i, Blanks)
  IN IF Peek(source, start) = "#" THEN SkipBlanks(source, EndOfLine(source, start)) ELSE start

\* lexer.next: one token, or a heredoc and its newline.
NextTokens(source, i) ==
  LET c == source[i]
      next == Peek(source, i + 1)
  IN CASE c \in DOMAIN DigitRuns /\ next \in {"<", ">"} ->
            TakeRedirect(source, i + 1, IoNumber(c))
       [] c \in {"<", ">"} -> TakeRedirect(source, i, IF c = "<" THEN 0 ELSE 1)
       [] c \in {LineEnd, ";", "&", "|", "(", ")"} \/ (c \in {"!", "{", "}"} /\ next \in Boundaries) ->
            TakeOperator(source, i)
       [] OTHER ->
            Bind(TakeWord(source, i, << >>), LAMBDA word :
              Taken(word.next, <<WordToken(word.value)>>))

RECURSIVE LexFrom(_, _, _)
LexFrom(source, i, tokens) ==
  LET start == SkipBlanks(source, i)
  IN IF start > Len(source) THEN Taken(start, Append(tokens, Token("eof")))
     ELSE Bind(NextTokens(source, start), LAMBDA r : LexFrom(source, r.next, tokens \o r.value))

\* strings.ReplaceAll of CR LF
WithoutCR(source) ==
  FlattenSeq([i \in DOMAIN source |->
    IF source[i] = "\r" /\ Peek(source, i + 1) = LineEnd THEN << >> ELSE <<source[i]>>])

Lex(source) == LexFrom(WithoutCR(source), 1, << >>)

-----------------------------------------------------------------------------
\* Mutant: the quotes of a value are left as they are.
QuoteBare(value) == <<"'">> \o value \o <<"'">>

SafeUnits == NameUnits \cup {"-", ".", "/", ":"}
Quote(value) ==
  IF value # << >> /\ ToSet(value) \subseteq SafeUnits THEN value
  ELSE <<"'">> \o FlattenSeq([i \in DOMAIN value |->
                     IF value[i] = "'" THEN <<"'", "\\", "'", "'">> ELSE <<value[i]>>]) \o <<"'">>

Join(arguments) ==
  FlattenSeq([k \in DOMAIN arguments |->
    IF k = 1 THEN Quote(arguments[k]) ELSE <<" ">> \o Quote(arguments[k])])
=============================================================================
