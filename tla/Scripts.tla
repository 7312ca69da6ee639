------------------------------- MODULE Scripts -------------------------------
(***************************************************************************)
(* What scripts look like: the reference that Parse is compared with.  A   *)
(* tree is written as a sequence of lexemes, and these as units, in the    *)
(* layout that style describes:                                            *)
(*   quotes     how quoted text is written: "single", "double", "escape"   *)
(*   blank      whether there is a blank between all lexemes               *)
(*   separator  what ends a command                                        *)
(*   break      what stands where a newline is allowed                     *)
(*   keyword    whether functions are written with the word function       *)
(*   early      whether redirections come before the words                 *)
(***************************************************************************)
EXTENDS Lexer

\* A lexeme, and whether its front and its back would run into a word.
Lexeme(text, wordy) == [text |-> text, front |-> wordy, back |-> wordy]
Sign(unit) == <<Lexeme(<<unit>>, FALSE)>>
Word(unit) == <<Lexeme(<<unit>>, TRUE)>>

Surround(left, text, right) == left \o text \o right
Escape(text, units) ==
  FlattenSeq([i \in DOMAIN text |-> IF text[i] \in units THEN <<"\\", text[i]>> ELSE <<text[i]>>])

\* Quoted literal text; a backslash cannot quote a newline.
QuotedText(text, quotes) ==
  CASE quotes = "double" -> Surround(<<"\"">>, Escape(text, {"$", "\"", "\\"}), <<"\"">>)
    [] quotes = "escape" /\ text # << >> /\ LineEnd \notin ToSet(text) ->
         Escape(text, ToSet(text))
    [] OTHER -> Surround(<<"'">>, FlattenSeq([i \in DOMAIN text |->
                  IF text[i] = "'" THEN <<"'", "\\", "'", "'">> ELSE <<text[i]>>]), <<"'">>)

\* An expansion without the quotes around it.
ExpansionText(part, quotes) ==
  CASE part.kind = "parameter" /\ Len(part.value) = 1 /\ quotes = "single" -> <<"$">> \o part.value
    [] part.kind = "parameter" /\ ~ (Len(part.value) = 1 /\ quotes = "single") ->
         Surround(<<"$", "{">>, part.value, <<"}">>)
    [] part.kind = "command" /\ quotes = "escape" ->
         Surround(<<Backtick>>, Escape(part.value, {Backtick, "\\", "$"}), <<Backtick>>)
    [] part.kind = "command" /\ quotes # "escape" -> Surround(<<"$", "(">>, part.value, <<")">>)
    [] part.kind = "arithmetic" -> Surround(<<"$", "(", "(">>, part.value, <<")", ")">>)

PartText(part, quotes) ==
  IF part.kind = "literal"
  THEN IF part.quoted THEN QuotedText(part.value, quotes) ELSE part.value
  ELSE IF part.quoted THEN Surround(<<"\"">>, ExpansionText(part, quotes), <<"\"">>)
  ELSE ExpansionText(part, quotes)

\* $x takes the letters after it for its own.
WordText(parts, quotes) ==
  FlattenSeq([k \in DOMAIN parts |->
    PartText(parts[k],
      IF k < Len(parts) /\ parts[k + 1].kind = "literal" /\ ~ parts[k + 1].quoted
      THEN "double" ELSE quotes)])

-----------------------------------------------------------------------------
IsHeredoc(redir) == redir.op \in {<<"<", "<">>, <<"<", "<", "-">>}

\* A number is written unless it is the one the operator has by itself.
RedirLexeme(redir, style) ==
  LET own == IF redir.op[1] = "<" THEN 0 ELSE 1
      number == IF redir.fd = own THEN << >>
                ELSE <<CHOOSE run \in DOMAIN DigitRuns : IoNumber(run) = redir.fd>>
      target == WordText(redir.target, style.quotes)
      tabbed == IF Last(redir.op) # "-" THEN redir.inline
                ELSE FlattenSeq([i \in DOMAIN redir.inline |->
                       IF i = 1 \/ redir.inline[i - 1] = LineEnd
                       THEN <<Tab, redir.inline[i]>> ELSE <<redir.inline[i]>>])
      text == number \o redir.op \o (IF style.blank THEN <<" ">> ELSE << >>) \o target
  IN [text |-> IF ~ IsHeredoc(redir) THEN text
               ELSE text \o <<LineEnd>> \o tabbed \o LiteralText(redir.target) \o <<LineEnd>>,
      front |-> number # << >>, back |-> TRUE]

\* What ends a command; a heredoc has its own newline.
Ended(lexemes, style) ==
  IF Last(Last(lexemes).text) = LineEnd THEN lexemes
  ELSE Append(lexemes, Lexeme(style.separator, FALSE))
Break(style) == IF style.break = << >> THEN << >> ELSE <<Lexeme(style.break, FALSE)>>

Words(list, style) == [k \in DOMAIN list |-> Lexeme(WordText(list[k], style.quotes), TRUE)]

RECURSIVE Lexemes(_, _)

\* A list, with and without an end after its last command.
Body(list, style) ==
  FlattenSeq([k \in DOMAIN list.items |-> Ended(Lexemes(list.items[k], style), style)])
OpenBody(list, style) ==
  FlattenSeq([k \in DOMAIN list.items |->
    IF k < Len(list.items) THEN Ended(Lexemes(list.items[k], style), style)
    ELSE Lexemes(list.items[k], style)])

Clause(clause, last, style) ==
  (IF style.blank THEN Sign("(") ELSE << >>)
    \o FlattenSeq([k \in DOMAIN clause.patterns |->
         (IF k = 1 THEN << >> ELSE Sign("|")) \o Words(<<clause.patterns[k]>>, style)])
    \o Sign(")") \o Break(style)
    \o IF last /\ clause.body.items # << >> /\ ~ style.blank THEN Body(clause.body, style)
       ELSE OpenBody(clause.body, style) \o <<Lexeme(<<";", ";">>, FALSE)>> \o Break(style)

Lexemes(tree, style) ==
  CASE tree.kind = "list" -> Body(tree, style)
    [] tree.kind = "and-or" ->
         Lexemes(tree.first, style)
           \o FlattenSeq([k \in DOMAIN tree.rest |->
                LET op == IF tree.rest[k].op = "&&" THEN <<"&", "&">> ELSE <<"|", "|">>
                IN <<Lexeme(op, FALSE)>> \o Break(style) \o Lexemes(tree.rest[k].node, style)])
    [] tree.kind = "pipeline" ->
         (IF tree.negated THEN Word("!") \o Break(style) ELSE << >>)
           \o FlattenSeq([k \in DOMAIN tree.commands |->
                (IF k = 1 THEN << >> ELSE Sign("|") \o Break(style))
                  \o Lexemes(tree.commands[k], style)])
    [] tree.kind = "simple" ->
         LET redirs == [k \in DOMAIN tree.redirs |-> RedirLexeme(tree.redirs[k], style)]
         IN IF style.early /\ \A k \in DOMAIN tree.redirs : ~ IsHeredoc(tree.redirs[k])
            THEN redirs \o Words(tree.words, style) ELSE Words(tree.words, style) \o redirs
    [] tree.kind = "if" ->
         FlattenSeq([k \in DOMAIN tree.branches |->
           Word(IF k = 1 THEN "if" ELSE "elif") \o Break(style) \o Body(tree.branches[k].condition, style)
             \o Word("then") \o Break(style) \o Body(tree.branches[k].body, style)])
           \o (IF tree.other = << >> THEN << >> ELSE Word("else") \o Body(tree.other[1], style))
           \o Word("fi")
    [] tree.kind = "while" ->
         Word(IF tree.until THEN "until" ELSE "while") \o Body(tree.condition, style)
           \o Word("do") \o Break(style) \o Body(tree.body, style) \o Word("done")
    [] tree.kind = "for" ->
         Word("for") \o <<Lexeme(tree.name, TRUE)>>
           \o (IF tree.words = << >> THEN << >> ELSE Word("in") \o Words(tree.words, style))
           \o <<Lexeme(style.separator, FALSE)>> \o Word("do") \o Break(style)
           \o Body(tree.body, style) \o Word("done")
    [] tree.kind = "case" ->
         Word("case") \o Words(<<tree.value>>, style) \o Break(style) \o Word("in") \o Break(style)
           \o FlattenSeq([k \in DOMAIN tree.clauses |->
                Clause(tree.clauses[k], k = Len(tree.clauses), style)])
           \o Word("esac")
    [] tree.kind = "group" ->
         IF tree.subshell THEN Sign("(") \o OpenBody(tree.body, style) \o Sign(")")
         ELSE Word("{") \o Break(style) \o Body(tree.body, style) \o Word("}")
    [] tree.kind = "function" ->
         (IF style.keyword THEN Word("function") \o <<Lexeme(tree.name, TRUE)>>
          ELSE <<Lexeme(tree.name, TRUE)>> \o Sign("(") \o Sign(")"))
           \o Break(style) \o Lexemes(tree.body, style)

\* A number before a redirection belongs to it.
EndsInNumber(text) ==
  Last(text) \in DOMAIN DigitRuns /\ (Len(text) = 1 \/ text[Len(text) - 1] \notin NameUnits)

Script(tree, style) ==
  LET lexemes == Lexemes(tree, style)
      apart(left, right) ==
        style.blank \/ (left.back /\ right.front) \/ EndsInNumber(left.text)
  IN FlattenSeq([k \in DOMAIN lexemes |->
       IF k < Len(lexemes) /\ apart(lexemes[k], lexemes[k + 1]) /\ Last(lexemes[k].text) # LineEnd
       THEN Append(lexemes[k].text, " ") ELSE lexemes[k].text])

\* How deep commands stand in commands.
RECURSIVE Nesting(_)
Nesting(tree) ==
  LET deepest(trees) == Max({0} \cup {Nesting(t) : t \in trees})
  IN CASE tree.kind = "list" -> deepest(ToSet(tree.items))
       [] tree.kind = "and-or" -> deepest({tree.first} \cup {part.node : part \in ToSet(tree.rest)})
       [] tree.kind = "pipeline" -> deepest(ToSet(tree.commands))
       [] tree.kind = "simple" -> 1
       [] tree.kind = "if" ->
            1 + deepest(UNION {{b.condition, b.body} : b \in ToSet(tree.branches)} \cup ToSet(tree.other))
       [] tree.kind = "while" -> 1 + deepest({tree.condition, tree.body})
       [] tree.kind = "case" -> 1 + deepest({c.body : c \in ToSet(tree.clauses)})
       [] tree.kind \in {"for", "group", "function"} -> 1 + Nesting(tree.body)
=============================================================================
