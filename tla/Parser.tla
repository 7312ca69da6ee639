-------------------------------- MODULE Parser --------------------------------
(***************************************************************************)
(* parser.go: Parse, a recursive-descent parser over the tokens of lex,    *)
(* with the nodes of ast.go as records.  An operator takes the tokens, the *)
(* place i of the current one and, where it can nest, the depth of         *)
(* parseCommand; it returns the node and the place after it, or an error.  *)
(***************************************************************************)
EXTENDS Lexer

CONSTANT MaxParserNesting   \* maxParserNesting: 256 in the code

LimitError == Refused("limit")

\* parser.peek stays on the last token, which is the end of input.
Current(tokens, i) == tokens[Min({i, Len(tokens)})]
Kind(tokens, i) == Current(tokens, i).kind

IsSeparator(tokens, i) == Kind(tokens, i) \in {";", "newline"}
RECURSIVE Skip(_, _, _)
Skip(tokens, i, kinds) == IF Kind(tokens, i) \in kinds THEN Skip(tokens, i + 1, kinds) ELSE i
SkipSeparators(tokens, i) == Skip(tokens, i, {";", "newline"})
SkipNewlines(tokens, i) == Skip(tokens, i, {"newline"})

\* Mutant: quotes do not make a reserved word ordinary.
IsKeywordQuoted(tokens, i, keyword) ==
  /\ Kind(tokens, i) = "word" /\ IsLiteral(Current(tokens, i).word)
  /\ LiteralText(Current(tokens, i).word) = <<keyword>>

\* parser.keyword: a word that has nothing quoted or expanded.
IsKeyword(tokens, i, keyword) ==
  /\ Kind(tokens, i) = "word" /\ IsPlain(Current(tokens, i).word)
  /\ LiteralText(Current(tokens, i).word) = <<keyword>>
AnyKeyword(tokens, i, keywords) == \E k \in keywords : IsKeyword(tokens, i, k)
IsName(tokens, i) ==
  /\ Kind(tokens, i) = "word" /\ IsPlain(Current(tokens, i).word)
  /\ ValidName(LiteralText(Current(tokens, i).word))

ListNode(items) == [kind |-> "list", items |-> items]
AndOrNode(first, rest) == [kind |-> "and-or", first |-> first, rest |-> rest]
PipelineNode(negated, commands) == [kind |-> "pipeline", negated |-> negated, commands |-> commands]
SimpleNode(arguments, redirs) == [kind |-> "simple", words |-> arguments, redirs |-> redirs]
IfNode(branches, other) == [kind |-> "if", branches |-> branches, other |-> other]
WhileNode(condition, body, until) ==
  [kind |-> "while", condition |-> condition, body |-> body, until |-> until]
ForNode(name, arguments, body) == [kind |-> "for", name |-> name, words |-> arguments, body |-> body]
CaseNode(value, clauses) == [kind |-> "case", value |-> value, clauses |-> clauses]
GroupNode(body, subshell) == [kind |-> "group", body |-> body, subshell |-> subshell]
FunctionNode(name, body) == [kind |-> "function", name |-> name, body |-> body]
Redirect(token, target) ==
  [fd |-> token.fd, op |-> token.op, target |-> target, inline |-> token.inline,
   expand |-> token.expand]

-----------------------------------------------------------------------------
\* parseSimple, after some words and redirections
RECURSIVE ParseSimple(_, _, _, _)
ParseSimple(tokens, i, arguments, redirs) ==
  LET token == Current(tokens, i)
      inline == token.op \in {<<"<", "<">>, <<"<", "<", "-">>}
  IN CASE token.kind = "word" ->
            ParseSimple(tokens, i + 1, Append(arguments, token.word), redirs)
       [] token.kind = "redirect" ->
            IF inline
            THEN ParseSimple(tokens, i + 1, arguments, Append(redirs, Redirect(token, token.word)))
            ELSE IF Kind(tokens, i + 1) # "word" THEN SyntaxError
            ELSE ParseSimple(tokens, i + 2, arguments,
                   Append(redirs, Redirect(token, Current(tokens, i + 1).word)))
       [] OTHER ->
            IF arguments = << >> /\ redirs = << >> THEN SyntaxError
            ELSE Taken(i, SimpleNode(arguments, redirs))

RECURSIVE ParseList(_, _, _, _, _), ParseAndOr(_, _, _), ParseCommand(_, _, _)

\* parseList, after some items; stop holds the words and the kinds of tokens
\* that end it.
AtStop(tokens, i, stop) == Kind(tokens, i) \in stop.kinds \/ AnyKeyword(tokens, i, stop.words)
ParseList(tokens, i, depth, stop, items) ==
  LET start == SkipSeparators(tokens, i)
  IN IF AtStop(tokens, start, stop) THEN Taken(start, ListNode(items))
     ELSE Bind(ParseAndOr(tokens, start, depth), LAMBDA item :
            IF IsSeparator(tokens, item.next) \/ AtStop(tokens, item.next, stop)
            THEN ParseList(tokens, item.next, depth, stop, Append(items, item.value))
            ELSE SyntaxError)

\* A list up to one of the words, with and without the word after it.
Until(tokens, i, depth, keywords) ==
  ParseList(tokens, i, depth, [words |-> keywords, kinds |-> {"eof"}], << >>)
Through(tokens, i, depth, keyword) ==
  Bind(Until(tokens, i, depth, {keyword}), LAMBDA list :
    IF IsKeyword(tokens, list.next, keyword) THEN Taken(list.next + 1, list.value) ELSE SyntaxError)

\* parsePipeline, after some commands
RECURSIVE ParsePipeline(_, _, _, _, _)
ParsePipeline(tokens, i, depth, negated, commands) ==
  Bind(ParseCommand(tokens, i, depth), LAMBDA command :
    LET all == Append(commands, command.value)
    IN IF Kind(tokens, command.next) = "|"
       THEN ParsePipeline(tokens, SkipNewlines(tokens, command.next + 1), depth, negated, all)
       ELSE Taken(command.next,
              IF Len(all) = 1 /\ ~ negated THEN all[1] ELSE PipelineNode(negated, all)))
NegatedPipeline(tokens, i, depth) ==
  IF Kind(tokens, i) = "!"
  THEN ParsePipeline(tokens, SkipNewlines(tokens, i + 1), depth, TRUE, << >>)
  ELSE ParsePipeline(tokens, i, depth, FALSE, << >>)

\* parseAndOr, after the first pipeline and some parts
RECURSIVE ParseRest(_, _, _, _, _)
ParseRest(tokens, i, depth, first, rest) ==
  IF Kind(tokens, i) \in {"&&", "||"}
  THEN Bind(NegatedPipeline(tokens, SkipNewlines(tokens, i + 1), depth), LAMBDA next :
         ParseRest(tokens, next.next, depth, first,
                   Append(rest, [op |-> Kind(tokens, i), node |-> next.value])))
  ELSE Taken(i, IF rest = << >> THEN first ELSE AndOrNode(first, rest))
ParseAndOr(tokens, i, depth) ==
  Bind(NegatedPipeline(tokens, i, depth), LAMBDA first :
    ParseRest(tokens, first.next, depth, first.value, << >>))

\* The branches of an if from its condition on
RECURSIVE ParseBranches(_, _, _, _)
ParseBranches(tokens, i, depth, branches) ==
  Bind(Through(tokens, i, depth, "then"), LAMBDA condition :
    Bind(Until(tokens, condition.next, depth, {"elif", "else", "fi"}), LAMBDA body :
      LET all == Append(branches, [condition |-> condition.value, body |-> body.value])
          next == body.next
      IN IF IsKeyword(tokens, next, "elif") THEN ParseBranches(tokens, next + 1, depth, all)
         ELSE IF IsKeyword(tokens, next, "else")
         THEN Bind(Through(tokens, next + 1, depth, "fi"), LAMBDA other :
                Taken(other.next, IfNode(all, <<other.value>>)))
         ELSE IF IsKeyword(tokens, next, "fi") THEN Taken(next + 1, IfNode(all, << >>))
         ELSE SyntaxError))

ParseWhile(tokens, i, depth, until) ==
  Bind(Through(tokens, i, depth, "do"), LAMBDA condition :
    Bind(Through(tokens, condition.next, depth, "done"), LAMBDA body :
      Taken(body.next, WhileNode(condition.value, body.value, until))))

\* The words from i on
WordsFrom(tokens, i) ==
  LET end == CHOOSE j \in i..Len(tokens) :
               Kind(tokens, j) # "word" /\ \A k \in i..(j - 1) : Kind(tokens, k) = "word"
  IN Taken(end, [k \in 1..(end - i) |-> Current(tokens, i + k - 1).word])

ParseFor(tokens, i, depth) ==
  LET name == LiteralText(Current(tokens, i).word)
      list == IF IsKeyword(tokens, i + 1, "in") THEN WordsFrom(tokens, i + 2) ELSE Taken(i + 1, << >>)
      do == SkipSeparators(tokens, list.next)
  IN IF ~ IsName(tokens, i) \/ ~ IsSeparator(tokens, list.next) \/ ~ IsKeyword(tokens, do, "do")
     THEN SyntaxError
     ELSE Bind(Through(tokens, do + 1, depth, "done"), LAMBDA body :
            Taken(body.next, ForNode(name, list.value, body.value)))

\* The patterns of a clause, which | separates
RECURSIVE ParsePatterns(_, _, _)
ParsePatterns(tokens, i, patterns) ==
  LET all == Append(patterns, Current(tokens, i).word)
  IN IF Kind(tokens, i) # "word" THEN SyntaxError
     ELSE IF Kind(tokens, i + 1) = "|" THEN ParsePatterns(tokens, i + 2, all)
     ELSE IF Kind(tokens, i + 1) = ")" THEN Taken(i + 2, all) ELSE SyntaxError

RECURSIVE ParseClauses(_, _, _, _, _)
ParseClauses(tokens, i, depth, value, clauses) ==
  IF IsKeyword(tokens, i, "esac") THEN Taken(i + 1, CaseNode(value, clauses))
  ELSE Bind(ParsePatterns(tokens, IF Kind(tokens, i) = "(" THEN i + 1 ELSE i, << >>), LAMBDA patterns :
         Bind(ParseList(tokens, patterns.next, depth,
                        [words |-> {"esac"}, kinds |-> {";;", "eof"}], << >>), LAMBDA body :
           LET all == Append(clauses, [patterns |-> patterns.value, body |-> body.value])
           IN IF Kind(tokens, body.next) = ";;"
              THEN ParseClauses(tokens, SkipSeparators(tokens, body.next + 1), depth, value, all)
              ELSE IF IsKeyword(tokens, body.next, "esac")
              THEN Taken(body.next + 1, CaseNode(value, all))
              ELSE SyntaxError))
ParseCase(tokens, i, depth) ==
  LET in == SkipNewlines(tokens, i + 1)
  IN IF Kind(tokens, i) # "word" \/ ~ IsKeyword(tokens, in, "in") THEN SyntaxError
     ELSE ParseClauses(tokens, SkipSeparators(tokens, in + 1), depth, Current(tokens, i).word, << >>)

ParseGroup(tokens, i, depth, closing) ==
  Bind(ParseList(tokens, i, depth, [words |-> {}, kinds |-> {closing}], << >>), LAMBDA body :
    Taken(body.next + 1, GroupNode(body.value, closing = ")")))

\* parseFunction: i is the name; () may be left out after the word function.
ParseFunction(tokens, i, depth, keyword) ==
  LET parens == Kind(tokens, i + 1) = "(" /\ Kind(tokens, i + 2) = ")"
      body == SkipNewlines(tokens, IF parens THEN i + 3 ELSE i + 1)
  IN IF \/ ~ IsName(tokens, i)
        \/ ~ parens /\ (~ keyword \/ Kind(tokens, i + 1) = "(")
        \/ Kind(tokens, body) \notin {"{", "("}
     THEN SyntaxError
     ELSE Bind(ParseCommand(tokens, body, depth), LAMBDA group :
            Taken(group.next, FunctionNode(LiteralText(Current(tokens, i).word), group.value)))

LooksLikeFunction(tokens, i) ==
  IsName(tokens, i) /\ Kind(tokens, i + 1) = "(" /\ Kind(tokens, i + 2) = ")"

Misplaced == {"then", "elif", "else", "fi", "do", "done", "in", "esac"}
Compound == {"if", "while", "until", "for", "case", "function"}

\* parseCommand: depth is the number of commands around this one.
ParseCommand(tokens, i, depth) ==
  LET d == depth + 1
      is(keyword) == IsKeyword(tokens, i, keyword)
  IN IF d > MaxParserNesting THEN LimitError
     ELSE CASE Kind(tokens, i) = "{" -> ParseGroup(tokens, i + 1, d, "}")
            [] Kind(tokens, i) = "(" -> ParseGroup(tokens, i + 1, d, ")")
            [] is("if") -> ParseBranches(tokens, i + 1, d, << >>)
            [] is("while") -> ParseWhile(tokens, i + 1, d, FALSE)
            [] is("until") -> ParseWhile(tokens, i + 1, d, TRUE)
            [] is("for") -> ParseFor(tokens, i + 1, d)
            [] is("case") -> ParseCase(tokens, i + 1, d)
            [] is("function") -> ParseFunction(tokens, i + 1, d, TRUE)
            [] AnyKeyword(tokens, i, Misplaced) -> SyntaxError
            [] ~ AnyKeyword(tokens, i, Compound \cup Misplaced) /\ LooksLikeFunction(tokens, i) ->
                 ParseFunction(tokens, i, d, FALSE)
            [] OTHER -> ParseSimple(tokens, i, << >>, << >>)

\* Parse: the whole source is one list.
Parse(source) ==
  Bind(Lex(source), LAMBDA lexed :
    ParseList(lexed.value, 1, 0, [words |-> {}, kinds |-> {"eof"}], << >>))
=============================================================================
