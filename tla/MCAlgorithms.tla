---------------------------- MODULE MCAlgorithms ----------------------------
(* Inputs of the algorithms for TLC. *)
EXTENDS Algorithms, MCScripts

MCOperands == "0" :> 0 @@ "1" :> 1 @@ "3" :> 3 @@ "min" :> -4
MCLeaves == {Leaf(name) : name \in DOMAIN MCOperands}
Small == {Leaf("0"), Leaf("min")}
OneOperator == UnaryTrees(MCLeaves) \cup BinaryTrees(MCLeaves, MCLeaves)
MCTrees ==
  MCLeaves \cup OneOperator \cup UnaryTrees(OneOperator)
    \cup BinaryTrees(OneOperator, Small) \cup BinaryTrees(Small, OneOperator)

MCPatternChars == {"a", "*", "?", "[", "]", "!", "\\"}
MCAccented == {"a", "*", "a grave"}
MCTextChars == {"a", "b", "]", Newline}

\* Words of up to two letters and lists; lists of two or three words.
Letters == {Letter("a"), Letter("b")}
MCFlat == {<< >>} \cup {<<l>> : l \in Letters}
Lists(words) ==
  {Alternatives(<<u, v>>) : u, v \in words} \cup {Alternatives(<<u, v, <<Letter("b")>> >>) : u, v \in words}
Nested == MCFlat \cup {<<l, Letter("a")>> : l \in Lists(MCFlat)} \cup {<<l>> : l \in Lists(MCFlat)}
MCBraceTrees ==
  {<<x, y>> : x, y \in Lists(MCFlat) \cup Letters} \cup {<<Letter("a"), l>> : l \in Lists(Nested)}

MCSeparators == {" ", ","}
Values == {<< >>, <<"a">>, <<" ">>, <<" ", "a">>, <<"a", ",", "b">>, <<"b", " ">>}
OneValue(literal, quoted) ==
  {[literal |-> literal, quoted |-> quoted, multi |-> FALSE, values |-> <<v>>] : v \in Values}
MCParts ==
  UNION {OneValue(l, q) : l, q \in BOOLEAN}
    \cup {[literal |-> FALSE, quoted |-> q, multi |-> q, values |-> vs] : q \in BOOLEAN, vs \in
            {<< >>, << <<"a">> >>, << <<"a">>, <<" ">>, << >> >>, << << >>, <<"b", " ", "a">> >>}}

MCVariableNames == {"x", "y"}
MCStores ==
  [env : UNION {[names -> {<< >>, <<"b">>}] : names \in SUBSET MCVariableNames},
   readonly : {{}, {"y"}}, nounset : BOOLEAN, position : {<< >>, << <<"c">> >>}]
Use(names, ops) == [name : names, op : ops, quoted : {TRUE}]
Chain(uses) == [uses |-> uses, text |-> <<"a">>]
Plain == Use({"x", "y"}, {"none"})
Simple == Use({"x", "y", "1"}, Tested)
Outer == Use({"x", "y", "1", "@"}, Tested)
MCExpressions ==
  {<<Chain(<<u, v>>)>> : u \in Outer, v \in Simple \cup Plain}
    \cup {<<Chain(<<u>>), Chain(<<v>>)>> : u \in Simple, v \in Plain}

\* Join: what is safe, what is not, and what a lexer could take apart.
MCTexts ==
  {<< >>, <<"a">>, <<"done">>, <<"2">>, <<"x", "/", "2", "-", ".">>, <<" ">>, <<"a", LineEnd>>,
   <<"'">>, <<"a", "'", "'", "2">>, <<"\\">>, <<"\"", "$", "x">>, <<"#">>, <<"{">>, <<"!">>,
   <<";", "(", "&">>, <<">", "2">>, <<"x", "=">>, <<Backtick, "byte A0">>}

MCOptStrings ==
  {<< >>, <<"a">>, <<"a", "b">>, <<"a", ":">>, <<"a", "b", ":">>, <<"a", ":", "b">>, <<"a", "a", ":">>,
   <<":", "a">>, <<":", "a", ":">>, <<":", "a", ":", "b", ":">>}
MCOptionWords ==
  {<< >>, <<"a">>, <<"-">>, <<"-", "-">>, <<"-", "a">>, <<"-", "b">>, <<"-", "c">>, <<"-", ":">>,
   <<"-", "a", "b">>, <<"-", "b", "a">>, <<"-", "b", "a", "-">>, <<"-", "-", "a">>}
=============================================================================
