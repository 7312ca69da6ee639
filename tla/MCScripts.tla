------------------------------ MODULE MCScripts ------------------------------
(* Scripts for TLC: words of up to two parts, and trees up to one level    *)
(* deeper than MaxParserNesting.                                           *)
EXTENDS Parser, Scripts

MCLetterRuns == Misplaced \cup Compound \cup {"a", "x", "E"}
MCDigitRuns == "0" :> 0 @@ "1" :> 1 @@ "2" :> 2 @@ "7" :> 7 @@ "300" :> 300

Style(quotes, blank, separator, break, other) ==
  [quotes |-> quotes, blank |-> blank, separator |-> separator, break |-> break,
   keyword |-> other, early |-> other]
\* As short as it can be; one command a line; with comments and blank lines.
MCStyles ==
  {Style("single", FALSE, <<";">>, << >>, FALSE),
   Style("escape", TRUE, <<LineEnd>>, <<LineEnd>>, TRUE),
   Style("double", TRUE, <<Tab, "#", "'", LineEnd, "\r", LineEnd>>, <<"#", "(", LineEnd>>, FALSE)}

Bare(units) == Part("literal", units, FALSE)
InQuotes(units) == Part("literal", units, TRUE)
Of(kind, units) == {Part(kind, units, FALSE), Part(kind, units, TRUE)}

\* Parts that are easily taken apart in the wrong place.
WordParts ==
  {Bare(<<"a">>), Bare(<<"done">>), Bare(<<"2">>), Bare(<<"a", "#", "{", "!", "2">>),
   InQuotes(<< >>), InQuotes(<<"if">>), InQuotes(<<" ", "'", ";">>),
   InQuotes(<<"\"", "$", "\\", LineEnd, "}">>)}
    \cup Of("parameter", <<"x">>) \cup Of("parameter", <<"x", "-", "'", "}", "'">>)
    \cup Of("command", <<"a", " ", "'", ")", "'", ";", "(", "a", ")">>)
    \cup Of("arithmetic", <<"2", "*", "(", "7", "+", "x", ")">>)

\* Neighbours that the lexer would join are one part.
Joins(p, q) == p.kind = "literal" /\ q.kind = "literal" /\ p.quoted = q.quoted
MCWords == {<<p>> : p \in WordParts} \cup {<<p, q>> : p, q \in WordParts}
Canonical(word) == Len(word) = 1 \/ ~ Joins(word[1], word[2])
Arguments == {w \in MCWords : Canonical(w)}

A == <<Bare(<<"a">>)>>
Arg(w) == SimpleNode(<<A, w>>, << >>)
Redir(op, fd, target) ==
  [op |-> op, fd |-> fd, target |-> target, inline |-> << >>, expand |-> FALSE]
Heredoc(op, target, body) ==
  [op |-> op, fd |-> 0, target |-> target, inline |-> body, expand |-> IsPlain(target)]

Targets == {A, <<Bare(<<"2">>)>>, <<InQuotes(<<">">>)>>}
Ops == {<<"<">>, <<">">>, <<">", ">">>, <<"<", ">">>, <<">", "|">>, <<"<", "&">>, <<">", "&">>, <<"<", "<", "<">>}
Redirs == {Redir(op, fd, t) : op \in Ops, fd \in {0, 1, 7, 256}, t \in Targets}
Bodies == {<< >>, <<"a", LineEnd>>, <<LineEnd, "$", "x", "'", LineEnd, "E", " ", LineEnd>>}
Heredocs ==
  {Heredoc(op, t, body) : op \in {<<"<", "<">>, <<"<", "<", "-">>},
                          t \in {<<Bare(<<"E">>)>>, <<InQuotes(<<"E">>)>>}, body \in Bodies}

OneItem(item) == ListNode(<<item>>)
SimpleTrees ==
  {OneItem(Arg(w)) : w \in Arguments} \cup {OneItem(SimpleNode(<<w, A>>, << >>)) : w \in {w \in Arguments : w[1] # Bare(<<"done">>)}}
    \cup {OneItem(SimpleNode(<<A, w>>, <<r>>)) : w \in {A, <<Bare(<<"2">>)>>}, r \in Redirs}
    \cup {OneItem(SimpleNode(<<A>>, <<r, q>>)) : r \in Redirs, q \in Heredocs \cup {Redir(<<"<">>, 0, A)}}
    \cup {OneItem(SimpleNode(<< >>, <<r>>)) : r \in Redirs \cup Heredocs}

\* Commands without and with a newline of their own, and every construct
\* around given lists.
Commands == {SimpleNode(<<A>>, << >>), SimpleNode(<< <<InQuotes(<<"if">>)>>, A>>, <<Redir(<<">">>, 1, A)>>)}
HereCommand ==
  SimpleNode(<<A>>, <<Heredoc(<<"<", "<", "-">>, <<Bare(<<"E">>)>>, <<"done", LineEnd>>)>>)
Name == <<"x">>
Done == <<Bare(<<"done">>)>>
ClauseOf(patterns, body) == [patterns |-> patterns, body |-> body]
Around(lists, others) ==
  UNION {{GroupNode(l, subshell), FunctionNode(Name, GroupNode(l, subshell)),
          ForNode(Name, IF subshell THEN << >> ELSE <<A, Done>>, l),
          CaseNode(A, <<ClauseOf(<<A, Done>>, l)>>),
          CaseNode(Done, <<ClauseOf(<<A>>, ListNode(<< >>)), ClauseOf(<<Done>>, l)>>)} :
           l \in lists, subshell \in BOOLEAN}
    \cup {WhileNode(l, m, until) : l \in lists, m \in others, until \in BOOLEAN}
    \cup {WhileNode(m, l, FALSE) : l \in lists, m \in others}
    \cup {IfNode(<<[condition |-> l, body |-> m]>>, << >>) : l \in lists, m \in others}
    \cup {IfNode(<<[condition |-> m, body |-> l], [condition |-> l, body |-> m]>>, <<l>>) :
            l \in lists, m \in others}
Piped(commands, last) ==
  {PipelineNode(TRUE, <<c>>) : c \in last}
    \cup {PipelineNode(negated, <<c, d>>) : negated \in BOOLEAN, c \in commands, d \in last}
Listed(first, last) ==
  {AndOrNode(p, <<[op |-> op, node |-> q]>>) : op \in {"&&", "||"}, p \in first, q \in last}
Pairs(items, others) ==
  {ListNode(<<p, q>>) : p \in items, q \in others} \cup {ListNode(<<q, p>>) : p \in items, q \in others}

Here == Commands \cup {HereCommand}
Others == {OneItem(HereCommand), ListNode(<<HereCommand, SimpleNode(<<A>>, << >>)>>)}
Level1 == Around({OneItem(c) : c \in Here}, Others)
Level2 == Around({OneItem(t) : t \in Around(Others, {OneItem(HereCommand)})}, {OneItem(HereCommand)})
MCScriptTrees ==
  SimpleTrees
    \cup {OneItem(t) : t \in Level1 \cup Piped(Commands \cup Level1, Here) \cup Level2
                  \cup Listed(Commands \cup Piped(Commands, Commands), Piped(Commands, Here))}
    \cup Pairs(Level1, Here)
    \cup {OneItem(GroupNode(OneItem(t), TRUE)) : t \in Level2}
=============================================================================
