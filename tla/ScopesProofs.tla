---------------------------- MODULE ScopesProofs -----------------------------
(***************************************************************************)
(* The variables and scopes of one shellState, for any names, values and   *)
(* depth of calls: the depth counters agree with the stack, and one map of *)
(* variables with saved values is a stack of scopes (DynamicScope).        *)
(***************************************************************************)
EXTENDS Scopes, SequenceTheorems, FiniteSetTheorems, WellFoundedInduction, TLAPS

\* A function's locals lie directly on the prefix assignments of its call.
Paired(ls) ==
  \A l \in 1..Len(ls) :
    /\ ls[l].kind = "function" => l > 1 /\ ls[l - 1].kind = "prefix"
    /\ ls[l].kind = "prefix" =>
         /\ l < Len(ls) /\ ls[l + 1].kind = "function"
         /\ ls[l + 1].previous = ls[l].previous

LayersOK(ls) == ls \in Seq(Layer) /\ Paired(ls)

CountIn(ls, kind) == Cardinality({l \in 1..Len(ls) : ls[l].kind = kind})

DepthsOK(ls, functions, sources) ==
  /\ functions = CountIn(ls, "function") /\ functions = CountIn(ls, "prefix")
  /\ sources = CountIn(ls, "source")

VariablesOK ==
  /\ env \in [Names -> AllValues]
  /\ exported \subseteq Names /\ readonly \subseteq Names
  /\ position \in Arguments

IInv ==
  /\ VariablesOK
  /\ LayersOK(layers)
  /\ DepthsOK(layers, functionDepth, sourceDepth)
  /\ functionDepth <= MaxFunctionDepth /\ sourceDepth <= MaxSourceDepth

-----------------------------------------------------------------------------
\* The least and the greatest element of a set of positions.
LEMMA LeastOf ==
  ASSUME NEW n \in Nat, NEW S, S \subseteq 1..n, S # {}
  PROVE  \E i \in S : \A j \in S : i <= j
<1> DEFINE T == {1..i : i \in S}
<1>1. IsFiniteSet(1..n)
  BY FS_Interval
<1>2. T \subseteq FiniteSubsetsOf(1..n)
  <2> SUFFICES ASSUME NEW i \in S PROVE 1..i \in FiniteSubsetsOf(1..n)
    OBVIOUS
  <2>1. 1..i \in SUBSET (1..n)
    OBVIOUS
  <2> QED
    BY <1>1, <2>1, FS_Subset DEF FiniteSubsetsOf
<1>3. T # {}
  OBVIOUS
<1>4. PICK t \in T : \A u \in T : ~ (<<u, t>> \in StrictSubsetOrdering(1..n))
  <2> HIDE DEF T
  <2> QED
    BY <1>2, <1>3, FS_StrictSubsetOrderingWellFounded, WFMin
<1>5. PICK i \in S : t = 1..i
  BY <1>4
<1>6. \A j \in S : i <= j
  <2> SUFFICES ASSUME NEW j \in S, j < i PROVE FALSE
    OBVIOUS
  <2>1. 1..j \in SUBSET (1..n) /\ t \in SUBSET (1..n) /\ 1..j \in T
    BY <1>5
  <2>2. 1..j \subseteq t /\ 1..j # t
    <3>1. i \in t /\ i \notin 1..j
      BY <1>5
    <3> QED
      BY <1>5, <3>1
  <2> QED
    BY <1>4, <2>1, <2>2 DEF StrictSubsetOrdering
<1> QED
  BY <1>6

LEMMA GreatestOf ==
  ASSUME NEW n \in Nat, NEW S, S \subseteq 1..n, S # {}
  PROVE  \E i \in S : \A j \in S : j <= i
<1> DEFINE T == {n + 1 - i : i \in S}
<1>1. T \subseteq 1..n /\ T # {}
  <2>1. \A i \in 1..n : n + 1 - i \in 1..n
    OBVIOUS
  <2> QED
    BY <2>1
<1> HIDE DEF T
<1>2. PICK t \in T : \A u \in T : t <= u
  BY <1>1, LeastOf
<1>3. PICK i \in S : t = n + 1 - i
  BY <1>2 DEF T
<1>4. \A j \in S : j <= i
  <2> SUFFICES ASSUME NEW j \in S PROVE j <= i
    OBVIOUS
  <2>1. t <= n + 1 - j
    BY <1>2 DEF T
  <2> QED
    BY <1>3, <2>1
<1> QED
  BY <1>4

LEMMA FrontProperties ==
  ASSUME NEW S, NEW s \in Seq(S), s # << >>
  PROVE  /\ Front(s) \in Seq(S) /\ Len(Front(s)) = Len(s) - 1
         /\ \A i \in 1..(Len(s) - 1) : Front(s)[i] = s[i]
         /\ Len(s) \in Nat \ {0} /\ Last(s) = s[Len(s)] /\ Last(s) \in S
<1> DEFINE n == Len(s) - 1
<1>1. Len(s) \in Nat \ {0} /\ n \in Nat /\ \A i \in 1..Len(s) : s[i] \in S
  OBVIOUS
<1>2. Last(s) = s[Len(s)] /\ Last(s) \in S
  BY <1>1 DEF Last
<1>3. \A i \in 1..n : s[i] \in S
  BY <1>1
<1>4. Front(s) = SubSeq(s, 1, n)
  BY DEF Front
<1> HIDE DEF n
<1>5. /\ SubSeq(s, 1, n) \in Seq(S)
      /\ Len(SubSeq(s, 1, n)) = IF 1 <= n THEN n - 1 + 1 ELSE 0
      /\ \A i \in 1..(n - 1 + 1) : SubSeq(s, 1, n)[i] = s[1 + i - 1]
  BY <1>1, <1>3, SubSeqProperties
<1>6. /\ Front(s) \in Seq(S) /\ Len(Front(s)) = n
      /\ \A i \in 1..n : Front(s)[i] = s[i]
  BY <1>1, <1>4, <1>5
<1> QED
  BY <1>1, <1>2, <1>6 DEF n

LEMMA PartialIs ==
  ASSUME NEW S, NEW T, NEW f
  PROVE  f \in Partial(S, T) <=> DOMAIN f \subseteq S /\ f \in [DOMAIN f -> T]
  BY DEF Partial

-----------------------------------------------------------------------------
\* One layer more, on the same layers.
Grown(ls, more) ==
  /\ Len(ls) \in Nat /\ Len(more) = Len(ls) + 1
  /\ \A l \in 1..Len(ls) : more[l] = ls[l]

LEMMA CountGrown ==
  ASSUME NEW ls, NEW more, NEW kind, Grown(ls, more)
  PROVE  /\ CountIn(ls, kind) \in Nat
         /\ CountIn(more, kind) = CountIn(ls, kind)
                                   + IF more[Len(more)].kind = kind THEN 1 ELSE 0
<1> DEFINE n == Len(ls)
           S == {l \in 1..n : ls[l].kind = kind}
           T == {l \in 1..Len(more) : more[l].kind = kind}
<1>1. n \in Nat /\ Len(more) = n + 1 /\ \A l \in 1..n : more[l] = ls[l]
  BY DEF Grown
<1>2. IsFiniteSet(S) /\ Cardinality(S) \in Nat
  <2>1. IsFiniteSet(1..n) /\ S \subseteq 1..n
    BY <1>1, FS_Interval
  <2> QED
    BY <2>1, FS_Subset, FS_CardinalityType
<1>3. \A l \in 1..(n + 1) : l \in 1..n \/ l = n + 1
  BY <1>1
<1>4. n + 1 \notin S
  BY <1>1
<1>5. CountIn(ls, kind) = Cardinality(S) /\ CountIn(more, kind) = Cardinality(T)
  BY DEF CountIn
<1>6. CASE more[n + 1].kind = kind
  <2>1. T = S \cup {n + 1}
    BY <1>1, <1>3, <1>6
  <2> HIDE DEF S, T
  <2>2. Cardinality(T) = Cardinality(S) + 1
    BY <1>2, <1>4, <2>1, FS_AddElement
  <2> QED
    BY <1>1, <1>2, <1>5, <1>6, <2>2
<1>7. CASE more[n + 1].kind # kind
  <2>1. T = S
    BY <1>1, <1>3, <1>7
  <2> HIDE DEF S, T
  <2> QED
    BY <1>1, <1>2, <1>5, <1>7, <2>1
<1> QED
  BY <1>6, <1>7

\* The same kinds of layers.
LEMMA CountSame ==
  ASSUME NEW ls, NEW other, NEW kind, Len(other) = Len(ls),
         \A l \in 1..Len(ls) : other[l].kind = ls[l].kind
  PROVE  CountIn(other, kind) = CountIn(ls, kind)
<1>1. {l \in 1..Len(other) : other[l].kind = kind} = {l \in 1..Len(ls) : ls[l].kind = kind}
  OBVIOUS
<1> QED
  BY <1>1 DEF CountIn

LEMMA Appended ==
  ASSUME NEW ls \in Seq(Layer), NEW y \in Layer
  PROVE  /\ Append(ls, y) \in Seq(Layer) /\ Grown(ls, Append(ls, y))
         /\ Append(ls, y)[Len(ls) + 1] = y
  BY AppendProperties DEF Grown

LEMMA Popped ==
  ASSUME NEW ls \in Seq(Layer), ls # << >>
  PROVE  /\ Front(ls) \in Seq(Layer) /\ Grown(Front(ls), ls)
         /\ Last(ls) \in Layer /\ Last(ls) = ls[Len(ls)]
<1>1. /\ Front(ls) \in Seq(Layer) /\ Len(Front(ls)) = Len(ls) - 1
      /\ \A i \in 1..(Len(ls) - 1) : Front(ls)[i] = ls[i]
      /\ Len(ls) \in Nat \ {0} /\ Last(ls) = ls[Len(ls)] /\ Last(ls) \in Layer
  BY FrontProperties
<1> QED
  BY <1>1 DEF Grown

\* Fewer layers, as long as no prefix loses its function.
LEMMA PairedBelow ==
  ASSUME NEW ls \in Seq(Layer), NEW less \in Seq(Layer), Paired(ls),
         Len(less) < Len(ls), \A l \in 1..Len(less) : less[l] = ls[l],
         Len(less) > 0 => ls[Len(less)].kind # "prefix"
  PROVE  Paired(less)
<1> SUFFICES ASSUME NEW l \in 1..Len(less)
             PROVE  /\ less[l].kind = "function" => l > 1 /\ less[l - 1].kind = "prefix"
                    /\ less[l].kind = "prefix" =>
                         /\ l < Len(less) /\ less[l + 1].kind = "function"
                         /\ less[l + 1].previous = less[l].previous
  BY DEF Paired
<1>1. /\ Len(ls) \in Nat /\ Len(less) \in Nat /\ l \in 1..Len(ls) /\ less[l] = ls[l]
      /\ l > 1 => l - 1 \in 1..Len(less)
      /\ l < Len(less) => l + 1 \in 1..Len(less)
  OBVIOUS
<1>2. /\ ls[l].kind = "function" => l > 1 /\ ls[l - 1].kind = "prefix"
      /\ ls[l].kind = "prefix" =>
           /\ l < Len(ls) /\ ls[l + 1].kind = "function"
           /\ ls[l + 1].previous = ls[l].previous
  BY <1>1 DEF Paired
<1>3. ls[l].kind = "prefix" => l < Len(less)
  BY <1>1
<1> QED
  BY <1>1, <1>2, <1>3

-----------------------------------------------------------------------------
\* What is saved, and what restoring it gives.
LEMMA PushedIsLayer ==
  ASSUME VariablesOK, NEW kind \in LayerKind, NEW names \in SUBSET Names
  PROVE  /\ Pushed(kind, names) \in Layer
         /\ Pushed(kind, names).kind = kind /\ Pushed(kind, names).previous = position
         /\ Pushed(kind, names).saved = [n \in names |-> Current(n)]
<1>1. \A n \in names : Current(n) \in Saved
  BY DEF VariablesOK, Current, Saved
<1>2. [n \in names |-> Current(n)] \in Partial(Names, Saved)
  BY <1>1, PartialIs
<1> QED
  BY <1>2 DEF Pushed, Layer, VariablesOK

LEMMA SavedParts ==
  ASSUME NEW y \in Layer
  PROVE  /\ y.saved \in Partial(Names, Saved) /\ DOMAIN y.saved \subseteq Names
         /\ \A n \in DOMAIN y.saved : y.saved[n] \in Saved
         /\ y.previous \in Arguments /\ y.kind \in LayerKind
<1>1. y.saved \in Partial(Names, Saved) /\ y.previous \in Arguments /\ y.kind \in LayerKind
  BY DEF Layer
<1>2. DOMAIN y.saved \subseteq Names /\ y.saved \in [DOMAIN y.saved -> Saved]
  BY <1>1, PartialIs
<1> QED
  BY <1>1, <1>2

LEMMA RestoredTypes ==
  ASSUME NEW y \in Layer
  PROVE  /\ \A e \in [Names -> AllValues] : RestoredEnv(e, y.saved) \in [Names -> AllValues]
         /\ \A x \in SUBSET Names : /\ RestoredExported(x, y.saved) \subseteq Names
                                    /\ RestoredReadonly(x, y.saved) \subseteq Names
<1>1. /\ DOMAIN y.saved \subseteq Names
      /\ \A n \in DOMAIN y.saved : y.saved[n].value \in AllValues
  BY SavedParts DEF Saved
<1>2. \A e \in [Names -> AllValues] : RestoredEnv(e, y.saved) \in [Names -> AllValues]
  BY <1>1 DEF RestoredEnv
<1> QED
  BY <1>1, <1>2 DEF RestoredExported, RestoredReadonly

\* state.locals is not empty while a function runs.
LEMMA InnermostExists ==
  ASSUME LayersOK(layers), CountIn(layers, "function") > 0
  PROVE  /\ InnermostFrame \in 1..Len(layers) /\ layers[InnermostFrame].kind = "function"
         /\ \A j \in (InnermostFrame + 1)..Len(layers) : layers[j].kind # "function"
<1> DEFINE S == {l \in 1..Len(layers) : layers[l].kind = "function"}
<1>1. Len(layers) \in Nat /\ S \subseteq 1..Len(layers)
  BY DEF LayersOK
<1>2. S # {}
  BY FS_EmptySet DEF CountIn
<1>3. PICK f \in S : \A j \in S : j <= f
  <2> HIDE DEF S
  <2> QED
    BY <1>1, <1>2, GreatestOf
<1>4. f \in 1..Len(layers) /\ layers[f].kind = "function"
  OBVIOUS
<1>5. \A j \in (f + 1)..Len(layers) : layers[j].kind # "function"
  <2> SUFFICES ASSUME NEW j \in (f + 1)..Len(layers), layers[j].kind = "function" PROVE FALSE
    OBVIOUS
  <2>1. j \in S /\ j > f
    BY <1>1, <1>4
  <2> QED
    BY <1>1, <1>3, <2>1
<1> QED
  BY <1>4, <1>5 DEF InnermostFrame

-----------------------------------------------------------------------------
(* A builtin under prefix assignments. *)

LEMMA PrefixTypes ==
  ASSUME NEW prefix \in PrefixAssignments
  PROVE  DOMAIN prefix \in SUBSET Names /\ \A n \in DOMAIN prefix : prefix[n] \in AllValues
<1>1. DOMAIN prefix \subseteq Names /\ prefix \in [DOMAIN prefix -> PrefixValues]
  BY PartialIs DEF PrefixAssignments
<1> QED
  BY <1>1 DEF AllValues

LEMMA FoundTypes ==
  ASSUME VariablesOK, NEW prefix \in PrefixAssignments, NEW n \in Names
  PROVE  Found(prefix, n) \in Saved
<1>1. Current(n) \in Saved
  BY DEF VariablesOK, Current, Saved
<1>2. n \in DOMAIN prefix => prefix[n] \in AllValues
  BY PrefixTypes
<1> QED
  BY <1>1, <1>2 DEF Found, Saved

LEMMA OverlaidTypes ==
  ASSUME VariablesOK, NEW prefix \in PrefixAssignments
  PROVE  OverlaidEnv(prefix) \in [Names -> AllValues] /\ OverlaidExported(prefix) \subseteq Names
<1>1. DOMAIN prefix \in SUBSET Names /\ \A n \in DOMAIN prefix : prefix[n] \in AllValues
  BY PrefixTypes
<1> QED
  BY <1>1 DEF VariablesOK, OverlaidEnv, OverlaidExported

\* Outside the prefix, what the builtin leaves behind; inside, what was before.
LEMMA BuiltinLeaves ==
  ASSUME VariablesOK, NEW prefix \in PrefixAssignments,
         NEW e \in [Names -> AllValues], NEW x \in SUBSET Names, Restored(prefix, e, x)
  PROVE  /\ env' \in [Names -> AllValues] /\ exported' \subseteq Names
         /\ \A n \in Names : IF n \in DOMAIN prefix
                             THEN env'[n] = env[n] /\ (n \in exported' <=> n \in exported)
                             ELSE env'[n] = e[n] /\ (n \in exported' <=> n \in x)
<1> DEFINE old == [n \in DOMAIN prefix |-> Current(n)]
<1>1. DOMAIN prefix \subseteq Names
  BY PrefixTypes
<1>2. env' = RestoredEnv(e, old) /\ exported' = RestoredExported(x, old)
  BY DEF Restored
<1>3. /\ DOMAIN old = DOMAIN prefix
      /\ \A n \in DOMAIN prefix :
           old[n].value = env[n] /\ old[n].exported = (n \in exported)
  BY DEF Current
<1> HIDE DEF old
<1>4. env' = [n \in Names |-> IF n \in DOMAIN prefix THEN env[n] ELSE e[n]]
  BY <1>2, <1>3 DEF RestoredEnv
<1>5. exported' = (x \ DOMAIN prefix) \cup {n \in DOMAIN prefix : n \in exported}
  BY <1>2, <1>3 DEF RestoredExported
<1> QED
  BY <1>1, <1>4, <1>5 DEF VariablesOK

\* What a builtin does to one name n is all that it changes.
ChangesOnly(n) ==
  \A m \in Names \ {n} : env'[m] = env[m] /\ (m \in exported' <=> m \in exported)

LEMMA BuiltinChanges ==
  ASSUME VariablesOK, NEW prefix \in PrefixAssignments, NEW n \in Names,
         NEW e \in [Names -> AllValues], NEW x \in SUBSET Names, Restored(prefix, e, x),
         \A m \in Names \ {n} : /\ e[m] = OverlaidEnv(prefix)[m]
                                /\ m \in x <=> m \in OverlaidExported(prefix)
  PROVE  /\ env' \in [Names -> AllValues] /\ exported' \subseteq Names /\ ChangesOnly(n)
         /\ n \in DOMAIN prefix => env' = env /\ exported' = exported
<1>1. /\ env' \in [Names -> AllValues] /\ exported' \subseteq Names
      /\ \A m \in Names : IF m \in DOMAIN prefix
                          THEN env'[m] = env[m] /\ (m \in exported' <=> m \in exported)
                          ELSE env'[m] = e[m] /\ (m \in exported' <=> m \in x)
  BY BuiltinLeaves
<1>2. \A m \in Names \ DOMAIN prefix :
        /\ OverlaidEnv(prefix)[m] = env[m]
        /\ m \in OverlaidExported(prefix) <=> m \in exported
  BY DEF OverlaidEnv, OverlaidExported
<1>3. ChangesOnly(n)
  BY <1>1, <1>2 DEF ChangesOnly
<1>4. n \in DOMAIN prefix => env' = env /\ exported' = exported
  <2> SUFFICES ASSUME n \in DOMAIN prefix PROVE env' = env /\ exported' = exported
    OBVIOUS
  <2>1. \A m \in Names : env'[m] = env[m] /\ (m \in exported' <=> m \in exported)
    BY <1>1, <1>3 DEF ChangesOnly
  <2> QED
    BY <1>1, <2>1 DEF VariablesOK
<1> QED
  BY <1>1, <1>3, <1>4

LEMMA AssignChanges ==
  ASSUME VariablesOK, NEW prefix \in PrefixAssignments, NEW n \in Names, NEW v \in Values,
         Assign(prefix, n, v) \/ Local(prefix, n, v)
  PROVE  /\ env' \in [Names -> AllValues] /\ exported' \subseteq Names /\ ChangesOnly(n)
         /\ readonly' = readonly /\ position' = position
         /\ n \in DOMAIN prefix => env' = env /\ exported' = exported
<1>1. /\ OverlaidEnv(prefix) \in [Names -> AllValues]
      /\ OverlaidExported(prefix) \subseteq Names /\ v \in AllValues
  BY OverlaidTypes DEF AllValues
<1>2. PICK e : e = [OverlaidEnv(prefix) EXCEPT ![n] = v]
  OBVIOUS
<1>3. e \in [Names -> AllValues] /\ \A m \in Names \ {n} : e[m] = OverlaidEnv(prefix)[m]
  BY <1>1, <1>2
<1>4. CASE Assign(prefix, n, v)
  <2>1. Restored(prefix, e, OverlaidExported(prefix)) /\ UNCHANGED <<readonly, position>>
    BY <1>2, <1>4 DEF Assign
  <2> QED
    BY <1>1, <1>3, <2>1, BuiltinChanges
<1>5. CASE Local(prefix, n, v)
  <2>1. PICK x : x = OverlaidExported(prefix) \ {n}
    OBVIOUS
  <2>2. /\ x \subseteq Names
        /\ \A m \in Names \ {n} : m \in x <=> m \in OverlaidExported(prefix)
    BY <1>1, <2>1
  <2>3. Restored(prefix, e, x) /\ UNCHANGED <<readonly, position>>
    BY <1>2, <1>5, <2>1 DEF Local
  <2> QED
    BY <1>3, <2>2, <2>3, BuiltinChanges
<1> QED
  BY <1>4, <1>5

LEMMA UnsetChanges ==
  ASSUME VariablesOK, NEW prefix \in PrefixAssignments, NEW n \in Names,
         UnsetName(prefix, n) \/ Export(prefix, n)
  PROVE  /\ env' \in [Names -> AllValues] /\ exported' \subseteq Names /\ ChangesOnly(n)
         /\ readonly' = readonly /\ position' = position
<1>1. /\ OverlaidEnv(prefix) \in [Names -> AllValues]
      /\ OverlaidExported(prefix) \subseteq Names /\ Unset \in AllValues
  BY OverlaidTypes DEF AllValues
<1>2. CASE UnsetName(prefix, n)
  <2>1. PICK e : e = [OverlaidEnv(prefix) EXCEPT ![n] = Unset]
    OBVIOUS
  <2>2. PICK x : x = OverlaidExported(prefix) \ {n}
    OBVIOUS
  <2>3. /\ e \in [Names -> AllValues] /\ x \subseteq Names
        /\ \A m \in Names \ {n} : /\ e[m] = OverlaidEnv(prefix)[m]
                                  /\ m \in x <=> m \in OverlaidExported(prefix)
    BY <1>1, <2>1, <2>2
  <2>4. Restored(prefix, e, x) /\ UNCHANGED <<readonly, position>>
    BY <1>2, <2>1, <2>2 DEF UnsetName
  <2> QED
    BY <2>3, <2>4, BuiltinChanges
<1>3. CASE Export(prefix, n)
  <2>1. PICK x : x = OverlaidExported(prefix) \cup {n}
    OBVIOUS
  <2>2. x \subseteq Names /\ \A m \in Names \ {n} : m \in x <=> m \in OverlaidExported(prefix)
    BY <1>1, <2>1
  <2>3. Restored(prefix, OverlaidEnv(prefix), x) /\ UNCHANGED <<readonly, position>>
    BY <1>3, <2>1 DEF Export
  <2> QED
    BY <1>1, <2>2, <2>3, BuiltinChanges
<1> QED
  BY <1>2, <1>3

LEMMA ReadonlyChanges ==
  ASSUME VariablesOK, NEW prefix \in PrefixAssignments, NEW n \in Names, Readonly(prefix, n)
  PROVE  env' = env /\ exported' = exported /\ readonly' \subseteq Names /\ position' = position
<1>1. OverlaidEnv(prefix) \in [Names -> AllValues] /\ OverlaidExported(prefix) \in SUBSET Names
  BY OverlaidTypes
<1>2. /\ Restored(prefix, OverlaidEnv(prefix), OverlaidExported(prefix))
      /\ readonly' = readonly \cup {n} /\ position' = position
  BY DEF Readonly
<1>3. /\ env' \in [Names -> AllValues] /\ exported' \subseteq Names
      /\ \A m \in Names :
           IF m \in DOMAIN prefix
           THEN env'[m] = env[m] /\ (m \in exported' <=> m \in exported)
           ELSE /\ env'[m] = OverlaidEnv(prefix)[m]
                /\ m \in exported' <=> m \in OverlaidExported(prefix)
  BY <1>1, <1>2, BuiltinLeaves
<1>4. \A m \in Names : env'[m] = env[m] /\ (m \in exported' <=> m \in exported)
  BY <1>3 DEF OverlaidEnv, OverlaidExported
<1>5. env \in [Names -> AllValues] /\ exported \subseteq Names /\ readonly \subseteq Names
  BY DEF VariablesOK
<1> QED
  BY <1>2, <1>3, <1>4, <1>5

-----------------------------------------------------------------------------
\* A call pushes two layers, and a return pops them.
LEMMA TypesOfSteps ==
  ASSUME IInv, [Next]_vars
  PROVE  VariablesOK'
<1> USE DEF IInv
<1>1. ASSUME NEW prefix \in PrefixAssignments, NEW n \in Names, NEW v \in Values,
             Assign(prefix, n, v) \/ Local(prefix, n, v)
      PROVE  VariablesOK'
  <2>1. /\ env' \in [Names -> AllValues] /\ exported' \subseteq Names
        /\ readonly' = readonly /\ position' = position
    BY <1>1, AssignChanges
  <2> QED
    BY <2>1 DEF VariablesOK
<1>2. ASSUME NEW prefix \in PrefixAssignments, NEW n \in Names,
             UnsetName(prefix, n) \/ Export(prefix, n) \/ Readonly(prefix, n)
      PROVE  VariablesOK'
  <2>1. CASE Readonly(prefix, n)
    <3>1. env' = env /\ exported' = exported /\ readonly' \subseteq Names /\ position' = position
      BY <2>1, ReadonlyChanges
    <3> QED
      BY <3>1 DEF VariablesOK
  <2>2. CASE UnsetName(prefix, n) \/ Export(prefix, n)
    <3>1. /\ env' \in [Names -> AllValues] /\ exported' \subseteq Names
          /\ readonly' = readonly /\ position' = position
      BY <2>2, UnsetChanges
    <3> QED
      BY <3>1 DEF VariablesOK
  <2> QED
    BY <1>2, <2>1, <2>2
<1>3. ASSUME NEW args \in Arguments, SetPosition(args)
      PROVE  VariablesOK'
  BY <1>3 DEF SetPosition, VariablesOK, attributes
<1>4. ASSUME NEW args \in Arguments, NEW prefix \in PrefixAssignments,
             CallFunction(prefix, args) \/ Source(prefix, args)
      PROVE  VariablesOK'
  <2>1. Overlay(prefix) /\ position' \in Arguments /\ UNCHANGED readonly
    BY <1>4 DEF CallFunction, Source, VariablesOK
  <2> QED
    BY <2>1, OverlaidTypes DEF Overlay, VariablesOK
<1>5. CASE ReturnFunction
  <2>1. /\ Last(layers) \in Layer /\ Last(Front(layers)) \in Layer
    <3>1. /\ layers \in Seq(Layer) /\ layers # << >> /\ Paired(layers)
          /\ Last(layers) = layers[Len(layers)] /\ Last(layers).kind = "function"
      BY <1>5, Popped DEF ReturnFunction, LayersOK
    <3>2. Len(layers) > 1
      BY <3>1 DEF Paired
    <3>3. Front(layers) \in Seq(Layer) /\ Front(layers) # << >>
      BY <3>1, <3>2, Popped DEF Grown
    <3> QED
      BY <3>1, <3>3, Popped
  <2>2. /\ env' = RestoredEnv(RestoredEnv(env, Last(layers).saved), Last(Front(layers)).saved)
        /\ exported' = RestoredExported(RestoredExported(exported, Last(layers).saved),
                                        Last(Front(layers)).saved)
        /\ readonly' = RestoredReadonly(readonly, Last(layers).saved)
        /\ position' = Last(layers).previous
    BY <1>5 DEF ReturnFunction
  <2> QED
    BY <2>1, <2>2, RestoredTypes, SavedParts DEF VariablesOK
<1>6. CASE EndSource
  <2>1. Last(layers) \in Layer
    BY <1>6, Popped DEF EndSource, LayersOK
  <2>2. /\ env' = RestoredEnv(env, Last(layers).saved)
        /\ exported' = RestoredExported(exported, Last(layers).saved)
        /\ readonly' = readonly /\ position' = Last(layers).previous
    BY <1>6 DEF EndSource
  <2> QED
    BY <2>1, <2>2, RestoredTypes, SavedParts DEF VariablesOK
<1>7. CASE UNCHANGED vars
  BY <1>7 DEF vars, attributes, VariablesOK
<1> QED
  BY <1>1, <1>2, <1>3, <1>4, <1>5, <1>6, <1>7 DEF Next

\* What a function call leaves of the layers, and what it adds.
LEMMA CallLayers ==
  ASSUME IInv, NEW args \in Arguments, NEW prefix \in PrefixAssignments,
         CallFunction(prefix, args)
  PROVE  LayersOK(layers') /\ DepthsOK(layers', functionDepth', sourceDepth')
<1> DEFINE a == Pushed("prefix", DOMAIN prefix)
           b == Pushed("function", {})
           n == Len(layers)
           one == Append(layers, a)
<1>1. /\ layers' = layers \o <<a, b>>
      /\ functionDepth' = functionDepth + 1 /\ sourceDepth' = sourceDepth
  BY DEF CallFunction
<1>2. DOMAIN prefix \in SUBSET Names
  BY PartialIs DEF PrefixAssignments
<1>3. /\ a \in Layer /\ a.kind = "prefix" /\ a.previous = position
      /\ b \in Layer /\ b.kind = "function" /\ b.previous = position
  BY <1>2, PushedIsLayer DEF IInv, LayerKind
<1>4. layers \in Seq(Layer) /\ n \in Nat /\ Paired(layers)
  BY DEF IInv, LayersOK
<1> HIDE DEF a, b
<1>5. layers' = Append(one, b)
  BY <1>1, <1>3, <1>4
<1>6. one \in Seq(Layer) /\ Grown(layers, one) /\ one[n + 1] = a
  BY <1>3, <1>4, Appended
<1> HIDE DEF one
<1>7. layers' \in Seq(Layer) /\ Grown(one, layers') /\ layers'[Len(one) + 1] = b
  BY <1>3, <1>5, <1>6, Appended
<1>8. /\ Len(one) = n + 1 /\ Len(layers') = n + 2
      /\ layers'[n + 1] = a /\ layers'[n + 2] = b
      /\ \A l \in 1..n : layers'[l] = layers[l]
  BY <1>6, <1>7 DEF Grown
<1>9. Paired(layers')
  <2>1. \A l \in 1..(n + 2) : l \in 1..n \/ l = n + 1 \/ l = n + 2
    BY <1>4
  <2>2. \A l \in 1..n : layers[l].kind = "prefix" => l < n
    BY DEF IInv, LayersOK, Paired
  <2> QED
    BY <1>3, <1>4, <1>8, <2>1, <2>2 DEF Paired
<1>10. \A kind : CountIn(layers', kind) =
          CountIn(layers, kind) + (IF a.kind = kind THEN 1 ELSE 0)
                                + (IF b.kind = kind THEN 1 ELSE 0)
  BY <1>6, <1>7, <1>8, CountGrown
<1>11. DepthsOK(layers', functionDepth', sourceDepth')
  <2>1. CountIn(layers, "function") \in Nat /\ CountIn(layers, "source") \in Nat
    BY <1>6, CountGrown
  <2>2. /\ CountIn(layers', "function") = CountIn(layers, "function") + 1
        /\ CountIn(layers', "prefix") = CountIn(layers, "prefix") + 1
        /\ CountIn(layers', "source") = CountIn(layers, "source")
    <3>1. \A kind : CountIn(layers', kind) = CountIn(layers, kind)
             + (IF "prefix" = kind THEN 1 ELSE 0) + (IF "function" = kind THEN 1 ELSE 0)
      BY <1>3, <1>10
    <3>2. CountIn(layers, "prefix") \in Nat
      BY <1>6, CountGrown
    <3> QED
      BY <2>1, <3>1, <3>2
  <2> QED
    BY <1>1, <2>2 DEF IInv, DepthsOK
<1> QED
  BY <1>7, <1>9, <1>11 DEF LayersOK

LEMMA SourceLayers ==
  ASSUME IInv, NEW args \in Arguments, NEW prefix \in PrefixAssignments,
         Source(prefix, args)
  PROVE  LayersOK(layers') /\ DepthsOK(layers', functionDepth', sourceDepth')
<1> DEFINE a == Pushed("source", DOMAIN prefix)
           n == Len(layers)
<1>1. /\ layers' = Append(layers, a)
      /\ sourceDepth' = sourceDepth + 1 /\ functionDepth' = functionDepth
  BY DEF Source
<1>2. DOMAIN prefix \in SUBSET Names
  BY PartialIs DEF PrefixAssignments
<1>3. a \in Layer /\ a.kind = "source" /\ DOMAIN a.saved = DOMAIN prefix
  <2>1. "source" \in LayerKind /\ VariablesOK
    BY DEF IInv, LayerKind
  <2> HIDE DEF a
  <2>2. /\ a \in Layer /\ a.kind = "source"
        /\ a.saved = [m \in DOMAIN prefix |-> Current(m)]
    BY <1>2, <2>1, PushedIsLayer DEF a
  <2> QED
    BY <2>2
<1>4. layers \in Seq(Layer) /\ n \in Nat /\ Paired(layers)
  BY DEF IInv, LayersOK
<1> HIDE DEF a
<1>5. layers' \in Seq(Layer) /\ Grown(layers, layers') /\ layers'[n + 1] = a
  BY <1>1, <1>3, <1>4, Appended
<1>6. Len(layers') = n + 1 /\ \A l \in 1..n : layers'[l] = layers[l]
  BY <1>5 DEF Grown
<1>7. Paired(layers')
  <2>1. \A l \in 1..(n + 1) : l \in 1..n \/ l = n + 1
    BY <1>4
  <2>2. \A l \in 1..n : layers[l].kind = "prefix" => l < n
    BY DEF IInv, LayersOK, Paired
  <2> QED
    BY <1>3, <1>4, <1>5, <1>6, <2>1, <2>2 DEF Paired
<1>8. \A kind : CountIn(layers', kind) =
          CountIn(layers, kind) + (IF a.kind = kind THEN 1 ELSE 0)
  BY <1>5, <1>6, CountGrown
<1>9. DepthsOK(layers', functionDepth', sourceDepth')
  <2>1. CountIn(layers, "function") \in Nat /\ CountIn(layers, "source") \in Nat
    BY <1>5, CountGrown
  <2> QED
    BY <1>1, <1>3, <1>8, <2>1 DEF IInv, DepthsOK
<1> QED
  BY <1>5, <1>7, <1>9 DEF LayersOK

LEMMA ReturnLayers ==
  ASSUME IInv, ReturnFunction
  PROVE  /\ LayersOK(layers') /\ DepthsOK(layers', functionDepth', sourceDepth')
         /\ functionDepth >= 1
<1> DEFINE n == Len(layers)
           one == Front(layers)
<1>1. /\ layers # << >> /\ Last(layers).kind = "function"
      /\ layers' = Front(one)
      /\ functionDepth' = functionDepth - 1 /\ sourceDepth' = sourceDepth
  BY DEF ReturnFunction
<1>2. layers \in Seq(Layer) /\ n \in Nat /\ Paired(layers)
  BY DEF IInv, LayersOK
<1>3. one \in Seq(Layer) /\ Grown(one, layers) /\ Last(layers) = layers[n]
  BY <1>1, <1>2, Popped
<1>4. n > 1 /\ layers[n - 1].kind = "prefix" /\ layers[n].kind = "function"
  <2>1. n > 0
    BY <1>1, <1>2
  <2> QED
    BY <1>1, <1>2, <1>3, <2>1 DEF Paired
<1> HIDE DEF one
<1>5. Len(one) = n - 1 /\ one # << >> /\ \A l \in 1..(n - 1) : one[l] = layers[l]
  BY <1>3, <1>4 DEF Grown
<1>6. layers' \in Seq(Layer) /\ Grown(layers', one) /\ one[n - 1].kind = "prefix"
  BY <1>1, <1>2, <1>3, <1>4, <1>5, Popped
<1>7. Len(layers') = n - 2 /\ \A l \in 1..(n - 2) : layers'[l] = layers[l]
  BY <1>2, <1>5, <1>6 DEF Grown
<1>8. Paired(layers')
  <2>1. n - 2 > 0 => layers[n - 2].kind # "prefix"
    <3> SUFFICES ASSUME n - 2 > 0, layers[n - 2].kind = "prefix" PROVE FALSE
      OBVIOUS
    <3>1. n - 2 \in 1..n /\ n - 2 + 1 = n - 1
      BY <1>2
    <3>2. layers[n - 2 + 1].kind = "function"
      BY <1>2, <3>1 DEF Paired
    <3> QED
      BY <1>4, <3>1, <3>2
  <2> QED
    BY <1>2, <1>6, <1>7, <2>1, PairedBelow
<1>9. \A kind : /\ CountIn(layers', kind) \in Nat
                 /\ CountIn(layers, kind) = CountIn(layers', kind)
                      + (IF "prefix" = kind THEN 1 ELSE 0) + (IF "function" = kind THEN 1 ELSE 0)
  BY <1>3, <1>4, <1>5, <1>6, CountGrown
<1>10. DepthsOK(layers', functionDepth', sourceDepth') /\ functionDepth >= 1
  BY <1>1, <1>9 DEF IInv, DepthsOK
<1> QED
  BY <1>6, <1>8, <1>10 DEF LayersOK

LEMMA EndSourceLayers ==
  ASSUME IInv, EndSource
  PROVE  /\ LayersOK(layers') /\ DepthsOK(layers', functionDepth', sourceDepth')
         /\ sourceDepth >= 1
<1> DEFINE n == Len(layers)
<1>1. /\ layers # << >> /\ Last(layers).kind = "source" /\ layers' = Front(layers)
      /\ sourceDepth' = sourceDepth - 1 /\ functionDepth' = functionDepth
  BY DEF EndSource
<1>2. layers \in Seq(Layer) /\ n \in Nat /\ Paired(layers)
  BY DEF IInv, LayersOK
<1>3. layers' \in Seq(Layer) /\ Grown(layers', layers) /\ layers[n].kind = "source"
  BY <1>1, <1>2, Popped
<1>4. Len(layers') = n - 1 /\ n > 0 /\ \A l \in 1..(n - 1) : layers'[l] = layers[l]
  BY <1>2, <1>3 DEF Grown
<1>5. Paired(layers')
  <2>1. n - 1 > 0 => layers[n - 1].kind # "prefix"
    <3> SUFFICES ASSUME n - 1 > 0, layers[n - 1].kind = "prefix" PROVE FALSE
      OBVIOUS
    <3>1. n - 1 \in 1..n /\ n - 1 + 1 = n
      BY <1>2
    <3>2. layers[n - 1 + 1].kind = "function"
      BY <1>2, <3>1 DEF Paired
    <3> QED
      BY <1>3, <3>1, <3>2
  <2> QED
    BY <1>2, <1>3, <1>4, <2>1, PairedBelow
<1>6. \A kind : /\ CountIn(layers', kind) \in Nat
                 /\ CountIn(layers, kind) = CountIn(layers', kind)
                      + (IF "source" = kind THEN 1 ELSE 0)
  BY <1>3, CountGrown
<1>7. DepthsOK(layers', functionDepth', sourceDepth') /\ sourceDepth >= 1
  BY <1>1, <1>6 DEF IInv, DepthsOK
<1> QED
  BY <1>3, <1>5, <1>7 DEF LayersOK

\* local changes what one frame has saved, and neither kinds nor arguments.
LEMMA LocalLayers ==
  ASSUME IInv, NEW prefix \in PrefixAssignments, NEW n \in Names, NEW v \in Values,
         Local(prefix, n, v)
  PROVE  /\ LayersOK(layers') /\ DepthsOK(layers', functionDepth', sourceDepth')
         /\ InnermostFrame \in 1..Len(layers) /\ layers[InnermostFrame].kind = "function"
         /\ \A j \in (InnermostFrame + 1)..Len(layers) : layers[j].kind # "function"
         /\ layers' = [layers EXCEPT ![InnermostFrame].saved =
                        Remembered(layers[InnermostFrame].saved, n, Found(prefix, n))]
<1> DEFINE f == InnermostFrame
           s == Remembered(layers[f].saved, n, Found(prefix, n))
           y == [layers[f] EXCEPT !.saved = s]
<1>1. /\ functionDepth > 0 /\ layers' = [layers EXCEPT ![f].saved = s]
      /\ functionDepth' = functionDepth /\ sourceDepth' = sourceDepth
  BY DEF Local, depths
<1>2. layers \in Seq(Layer) /\ Len(layers) \in Nat /\ Paired(layers)
  BY DEF IInv, LayersOK
<1>3. /\ f \in 1..Len(layers) /\ layers[f].kind = "function"
      /\ \A j \in (f + 1)..Len(layers) : layers[j].kind # "function"
  BY <1>1, InnermostExists DEF IInv, DepthsOK
<1> HIDE DEF f
<1>4. layers[f] \in Layer
  BY <1>2, <1>3
<1>5. s \in Partial(Names, Saved)
  <2>1. DOMAIN layers[f].saved \subseteq Names /\ \A m \in DOMAIN layers[f].saved :
                                                    layers[f].saved[m] \in Saved
    BY <1>4, SavedParts
  <2>2. Found(prefix, n) \in Saved
    BY FoundTypes DEF IInv
  <2>3. CASE n \in DOMAIN layers[f].saved
    BY <1>4, <2>3, SavedParts DEF Remembered
  <2>4. CASE n \notin DOMAIN layers[f].saved
    <3>1. s = [m \in DOMAIN layers[f].saved \cup {n} |->
                 IF m = n THEN Found(prefix, n) ELSE layers[f].saved[m]]
      BY <2>4 DEF Remembered
    <3> QED
      BY <2>1, <2>2, <3>1, PartialIs
  <2> QED
    BY <2>3, <2>4
<1> HIDE DEF s
<1>6. y \in Layer /\ y.kind = layers[f].kind /\ y.previous = layers[f].previous
  BY <1>4, <1>5 DEF Layer
<1>7. layers' = [layers EXCEPT ![f] = y]
  BY <1>1, <1>2, <1>3
<1> HIDE DEF y
<1>8. /\ layers' \in Seq(Layer) /\ Len(layers') = Len(layers) /\ layers'[f] = y
      /\ \A l \in 1..Len(layers) : l # f => layers'[l] = layers[l]
  BY <1>2, <1>3, <1>6, <1>7, ExceptSeq
<1>9. \A l \in 1..Len(layers) : /\ layers'[l].kind = layers[l].kind
                                 /\ layers'[l].previous = layers[l].previous
  BY <1>3, <1>6, <1>8
<1>10. Paired(layers')
  <2> SUFFICES ASSUME NEW l \in 1..Len(layers')
      PROVE  /\ layers'[l].kind = "function" => l > 1 /\ layers'[l - 1].kind = "prefix"
             /\ layers'[l].kind = "prefix" =>
                  /\ l < Len(layers') /\ layers'[l + 1].kind = "function"
                  /\ layers'[l + 1].previous = layers'[l].previous
    BY DEF Paired
  <2>1. /\ l \in 1..Len(layers)
        /\ l > 1 => l - 1 \in 1..Len(layers)
        /\ l < Len(layers) => l + 1 \in 1..Len(layers)
    BY <1>2, <1>8
  <2>2. /\ layers[l].kind = "function" => l > 1 /\ layers[l - 1].kind = "prefix"
        /\ layers[l].kind = "prefix" =>
             /\ l < Len(layers) /\ layers[l + 1].kind = "function"
             /\ layers[l + 1].previous = layers[l].previous
    BY <1>2, <2>1 DEF Paired
  <2> QED
    BY <1>8, <1>9, <2>1, <2>2
<1>11. \A kind : CountIn(layers', kind) = CountIn(layers, kind)
  BY <1>8, <1>9, CountSame
<1> QED
  BY <1>1, <1>3, <1>8, <1>10, <1>11 DEF f, s, IInv, LayersOK, DepthsOK

-----------------------------------------------------------------------------
LEMMA InitInv == Init => IInv
<1> SUFFICES ASSUME Init PROVE IInv
  OBVIOUS
<1>1. VariablesOK
  BY DEF Init, VariablesOK, AllValues
<1>2. layers = << >> /\ Len(layers) = 0
  BY DEF Init
<1>3. LayersOK(layers)
  BY <1>2 DEF LayersOK, Paired
<1>4. \A kind : CountIn(layers, kind) = 0
  <2> SUFFICES ASSUME NEW kind PROVE CountIn(layers, kind) = 0
    OBVIOUS
  <2>1. {l \in 1..Len(layers) : layers[l].kind = kind} = {}
    BY <1>2
  <2> QED
    BY <2>1, FS_EmptySet DEF CountIn
<1> QED
  BY <1>1, <1>3, <1>4, DepthsAssumption DEF IInv, DepthsOK, Init

LEMMA NextInv == IInv /\ [Next]_vars => IInv'
<1> SUFFICES ASSUME IInv, [Next]_vars PROVE IInv'
  OBVIOUS
<1>1. VariablesOK'
  BY TypesOfSteps
<1> DEFINE Good == /\ LayersOK(layers') /\ DepthsOK(layers', functionDepth', sourceDepth')
                   /\ functionDepth' <= MaxFunctionDepth /\ sourceDepth' <= MaxSourceDepth
<1>2. functionDepth \in Nat /\ sourceDepth \in Nat
  <2>1. \A kind : CountIn(layers, kind) \in Nat
    <3> SUFFICES ASSUME NEW kind PROVE CountIn(layers, kind) \in Nat
      OBVIOUS
    <3>1. IsFiniteSet(1..Len(layers))
      BY FS_Interval DEF IInv, LayersOK
    <3> QED
      BY <3>1, FS_Subset, FS_CardinalityType DEF CountIn
  <2> QED
    BY <2>1 DEF IInv, DepthsOK
<1>3. CASE \E prefix \in PrefixAssignments : \E n \in Names : \E v \in Values :
             Local(prefix, n, v)
  <2>1. PICK prefix \in PrefixAssignments, n \in Names, v \in Values : Local(prefix, n, v)
    BY <1>3
  <2>2. functionDepth' = functionDepth /\ sourceDepth' = sourceDepth
    BY <2>1 DEF Local, depths
  <2>3. LayersOK(layers') /\ DepthsOK(layers', functionDepth', sourceDepth')
    BY <2>1, LocalLayers
  <2> QED
    BY <1>1, <2>2, <2>3 DEF IInv
<1>4. CASE \E args \in Arguments, prefix \in PrefixAssignments : CallFunction(prefix, args)
  <2>1. Good
    BY <1>2, <1>4, CallLayers, DepthsAssumption DEF IInv, CallFunction
  <2> QED
    BY <1>1, <2>1 DEF IInv
<1>5. CASE \E args \in Arguments, prefix \in PrefixAssignments : Source(prefix, args)
  <2>1. Good
    BY <1>2, <1>5, SourceLayers, DepthsAssumption DEF IInv, Source
  <2> QED
    BY <1>1, <2>1 DEF IInv
<1>6. CASE ReturnFunction
  <2>1. Good
    BY <1>2, <1>6, ReturnLayers, DepthsAssumption DEF IInv, ReturnFunction
  <2> QED
    BY <1>1, <2>1 DEF IInv
<1>7. CASE EndSource
  <2>1. Good
    BY <1>2, <1>7, EndSourceLayers, DepthsAssumption DEF IInv, EndSource
  <2> QED
    BY <1>1, <2>1 DEF IInv
<1>8. CASE UNCHANGED <<layers, depths>>
  BY <1>1, <1>8 DEF IInv, LayersOK, Paired, DepthsOK, CountIn, depths
<1>9. \/ \E prefix \in PrefixAssignments : \E n \in Names : \E v \in Values :
           Local(prefix, n, v)
      \/ \E args \in Arguments, prefix \in PrefixAssignments : CallFunction(prefix, args)
      \/ \E args \in Arguments, prefix \in PrefixAssignments : Source(prefix, args)
      \/ ReturnFunction \/ EndSource \/ UNCHANGED <<layers, depths>>
  BY DEF Next, vars, depths, Assign, UnsetName, Export, Readonly, SetPosition
<1> QED
  BY <1>1, <1>3, <1>4, <1>5, <1>6, <1>7, <1>8, <1>9

\* The inductive invariant: types, the pairing of the layers of a call, and the
\* depth counters as the numbers of layers.
THEOREM Invariance == Spec => []IInv
  BY InitInv, NextInv, PTL DEF Spec

\* However functions and sourced files are nested and left, the depth counters
\* that stop a recursion are the numbers of calls on the stack.
THEOREM TypeCorrect == Spec => []TypeOK
<1>1. IInv => TypeOK
  BY DEF IInv, TypeOK, VariablesOK, LayersOK, DepthsOK, CountIn, Count
<1> QED
  BY <1>1, Invariance, PTL

-----------------------------------------------------------------------------
(* The scopes, as a function of the layers ls, the values e, the exported   *)
(* names x and the arguments p, whether before or after a step.             *)

Above(ls, l, n) == {j \in (l + 1)..Len(ls) : n \in DOMAIN ls[j].saved}
CurrentBinding(e, x, n) == [value |-> e[n], exported |-> n \in x]
SavedBinding(saved, n) == [value |-> saved[n].value, exported |-> saved[n].exported]

BindingOf(ls, e, x, l, n) ==
  IF Above(ls, l, n) = {} THEN CurrentBinding(e, x, n)
  ELSE SavedBinding(ls[Min(Above(ls, l, n))].saved, n)

NamesOf(ls, l) == IF l = 0 THEN Names ELSE DOMAIN ls[l].saved
KindOf(ls, l) ==
  IF l = 0 THEN "global" ELSE IF ls[l].kind = "function" THEN "function" ELSE "prefix"
ArgumentsOf(ls, p, l) == IF l = Len(ls) THEN p ELSE ls[l + 1].previous

VariablesOf(ls, e, x, l) == [n \in NamesOf(ls, l) |-> BindingOf(ls, e, x, l, n)]
ScopeIn(ls, e, x, p, l) ==
  [kind |-> KindOf(ls, l), vars |-> VariablesOf(ls, e, x, l), args |-> ArgumentsOf(ls, p, l)]
View(ls, e, x, p) == [k \in 1..(Len(ls) + 1) |-> ScopeIn(ls, e, x, p, k - 1)]

LEMMA BindingIs ==
  ASSUME NEW l, NEW n
  PROVE  BindingIn(l, n) = BindingOf(layers, env, exported, l, n)
<1>1. CASE Above(layers, l, n) = {}
  BY <1>1 DEF BindingIn, BindingOf, Above, CurrentBinding, Current
<1>2. CASE Above(layers, l, n) # {}
  BY <1>2 DEF BindingIn, BindingOf, Above, SavedBinding
<1> QED
  BY <1>1, <1>2

LEMMA ScopesAreView ==
  ASSUME layers \in Seq(Layer)
  PROVE  ScopesOf = View(layers, env, exported, position)
<1> DEFINE N == Len(layers)
           V == View(layers, env, exported, position)
           g == ScopeOf("global", 0, Names)
           h == [l \in 1..N |->
                   ScopeOf(IF layers[l].kind = "function" THEN "function" ELSE "prefix", l,
                           DOMAIN layers[l].saved)]
           S == {V[k] : k \in 1..(N + 1)}
<1>1. N \in Nat
  OBVIOUS
<1>2. \A l : ArgumentsIn(l) = ArgumentsOf(layers, position, l)
  BY DEF ArgumentsIn, ArgumentsOf
<1>3. g = V[1]
  <2>1. g = ScopeIn(layers, env, exported, position, 0)
    BY <1>2, BindingIs DEF ScopeOf, ScopeIn, NamesOf, KindOf, VariablesOf
  <2> QED
    BY <1>1, <2>1 DEF View
<1>4. \A l \in 1..N : h[l] = V[l + 1]
  <2> SUFFICES ASSUME NEW l \in 1..N PROVE h[l] = V[l + 1]
    OBVIOUS
  <2>1. l # 0 /\ l + 1 \in 1..(N + 1) /\ l + 1 - 1 = l
    BY <1>1
  <2>2. h[l] = ScopeIn(layers, env, exported, position, l)
    BY <1>2, <2>1, BindingIs DEF ScopeOf, ScopeIn, NamesOf, KindOf, VariablesOf
  <2> QED
    BY <2>1, <2>2 DEF View
<1>5. ScopesOf = <<g>> \o h
  BY DEF ScopesOf
<1>6. Len(V) = N + 1 /\ V = [k \in 1..(N + 1) |-> V[k]] /\ V \in Seq(S)
  BY <1>1 DEF View
<1>7. g \in S /\ h \in [1..N -> S]
  <2>1. 1 \in 1..(N + 1) /\ \A l \in 1..N : l + 1 \in 1..(N + 1)
    BY <1>1
  <2>2. \A l \in 1..N : h[l] \in S
    BY <1>4, <2>1
  <2> QED
    BY <1>3, <2>1, <2>2
<1> HIDE DEF N, V, g, h, S
<1>8. <<g>> \in Seq(S) /\ h \in Seq(S) /\ Len(h) = N /\ Len(<<g>>) = 1
  BY <1>1, <1>7
<1>9. /\ <<g>> \o h \in Seq(S) /\ Len(<<g>> \o h) = N + 1
      /\ \A k \in 1..(N + 1) : (<<g>> \o h)[k] = IF k <= 1 THEN <<g>>[k] ELSE h[k - 1]
  BY <1>1, <1>8, ConcatProperties
<1>10. \A k \in 1..(N + 1) : (<<g>> \o h)[k] = V[k]
  <2> SUFFICES ASSUME NEW k \in 1..(N + 1) PROVE (<<g>> \o h)[k] = V[k]
    OBVIOUS
  <2>1. CASE k = 1
    <3>1. <<g>>[1] = g
      OBVIOUS
    <3>2. (<<g>> \o h)[1] = <<g>>[1]
      BY <1>9, <2>1
    <3> QED
      BY <1>3, <2>1, <3>1, <3>2
  <2>2. CASE k # 1
    BY <1>1, <1>4, <1>9, <2>2
  <2> QED
    BY <2>1, <2>2
<1>11. <<g>> \o h = V
  BY <1>1, <1>6, <1>9, <1>10, SeqEqual
<1> QED
  BY <1>5, <1>11 DEF V

\* A scope binds n to what the next layer with n has saved, or to the current
\* value when there is none.
IsFree(ls, l, n) == \A j \in (l + 1)..Len(ls) : n \notin DOMAIN ls[j].saved

IsNext(ls, l, n, j) ==
  /\ j \in (l + 1)..Len(ls) /\ n \in DOMAIN ls[j].saved
  /\ \A i \in (l + 1)..(j - 1) : n \notin DOMAIN ls[i].saved

LEMMA NoneAbove ==
  ASSUME NEW ls, NEW e, NEW x, NEW l, NEW n, IsFree(ls, l, n)
  PROVE  BindingOf(ls, e, x, l, n) = CurrentBinding(e, x, n)
  BY DEF BindingOf, Above, IsFree

LEMMA NextAbove ==
  ASSUME NEW ls, Len(ls) \in Nat, NEW e, NEW x, NEW l \in Nat, NEW n, NEW j, IsNext(ls, l, n, j)
  PROVE  BindingOf(ls, e, x, l, n) = SavedBinding(ls[j].saved, n)
<1> DEFINE S == Above(ls, l, n)
<1>1. j \in S /\ S \subseteq Nat
  BY DEF Above, IsNext
<1>2. \A i \in S : j <= i
  BY DEF Above, IsNext
<1> HIDE DEF S
<1>3. Min(S) = j
  <2>1. \E i \in S : \A k \in S : i =< k
    BY <1>1, <1>2
  <2>2. Min(S) \in S /\ \A i \in S : Min(S) <= i
    BY <2>1 DEF Min
  <2>3. j \in Nat /\ Min(S) \in Nat
    BY <1>1, <2>2
  <2>4. j <= Min(S) /\ Min(S) <= j
    BY <1>1, <1>2, <2>2
  <2> QED
    BY <2>3, <2>4
<1> QED
  BY <1>1, <1>3 DEF BindingOf, S

LEMMA NoneOrNext ==
  ASSUME NEW ls, Len(ls) \in Nat, NEW l \in Nat, NEW n
  PROVE  IsFree(ls, l, n) \/ \E j \in 1..Len(ls) : IsNext(ls, l, n, j)
<1> DEFINE S == Above(ls, l, n)
<1>1. S \subseteq 1..Len(ls) /\ \A j \in S : j \in (l + 1)..Len(ls) /\ n \in DOMAIN ls[j].saved
  BY DEF Above
<1>2. \A j \in (l + 1)..Len(ls) : n \in DOMAIN ls[j].saved => j \in S
  BY DEF Above
<1> HIDE DEF S
<1>3. CASE S = {}
  BY <1>2, <1>3 DEF IsFree
<1>4. CASE S # {}
  <2>1. PICK j \in S : \A i \in S : j <= i
    BY <1>1, <1>4, LeastOf
  <2>2. \A i \in (l + 1)..(j - 1) : i \in (l + 1)..Len(ls) /\ ~ (j <= i)
    BY <1>1
  <2>3. IsNext(ls, l, n, j)
    BY <1>1, <1>2, <2>1, <2>2 DEF IsNext
  <2> QED
    BY <1>1, <2>3
<1> QED
  BY <1>3, <1>4

LEMMA ViewIs ==
  ASSUME NEW ls \in Seq(Layer), NEW e, NEW x, NEW p
  PROVE  /\ Len(ls) \in Nat
         /\ View(ls, e, x, p) = [k \in 1..(Len(ls) + 1) |-> View(ls, e, x, p)[k]]
         /\ Len(View(ls, e, x, p)) = Len(ls) + 1
         /\ \A l \in 0..Len(ls) : View(ls, e, x, p)[l + 1] = ScopeIn(ls, e, x, p, l)
<1>1. Len(ls) \in Nat /\ \A l \in 0..Len(ls) : l + 1 \in 1..(Len(ls) + 1) /\ l + 1 - 1 = l
  OBVIOUS
<1> QED
  BY <1>1 DEF View

\* A scope equals another that has the same kind, bindings and arguments.
LEMMA SameScope ==
  ASSUME NEW ls, NEW e, NEW x, NEW p, NEW l, NEW ls2, NEW e2, NEW x2, NEW p2, NEW l2,
         KindOf(ls2, l2) = KindOf(ls, l), NamesOf(ls2, l2) = NamesOf(ls, l),
         ArgumentsOf(ls2, p2, l2) = ArgumentsOf(ls, p, l),
         \A n \in NamesOf(ls, l) : BindingOf(ls2, e2, x2, l2, n) = BindingOf(ls, e, x, l, n)
  PROVE  ScopeIn(ls2, e2, x2, p2, l2) = ScopeIn(ls, e, x, p, l)
<1>1. VariablesOf(ls2, e2, x2, l2) = VariablesOf(ls, e, x, l)
  BY DEF VariablesOf
<1> QED
  BY <1>1 DEF ScopeIn

-----------------------------------------------------------------------------
(* Steps, of the scopes. *)

\* The innermost scope that binds n: its layer, 0 for the global scope.
IsHolder(ls, n, h) ==
  /\ h \in 0..Len(ls) /\ n \in NamesOf(ls, h)
  /\ \A j \in (h + 1)..Len(ls) : n \notin DOMAIN ls[j].saved

LEMMA HolderExists ==
  ASSUME NEW ls \in Seq(Layer), NEW n \in Names
  PROVE  \E h \in 0..Len(ls) : IsHolder(ls, n, h)
<1> DEFINE S == {j \in 1..Len(ls) : n \in DOMAIN ls[j].saved}
<1>1. Len(ls) \in Nat /\ S \subseteq 1..Len(ls)
  OBVIOUS
<1>2. CASE S = {}
  BY <1>1, <1>2 DEF IsHolder, NamesOf
<1>3. CASE S # {}
  <2> HIDE DEF S
  <2>1. PICK h \in S : \A j \in S : j <= h
    BY <1>1, <1>3, GreatestOf
  <2>2. \A j \in (h + 1)..Len(ls) : j \in 1..Len(ls) /\ ~ (j <= h)
    BY <1>1
  <2>3. IsHolder(ls, n, h)
    BY <1>1, <2>1, <2>2 DEF IsHolder, NamesOf, S
  <2> QED
    BY <1>1, <2>3 DEF IsHolder
<1> QED
  BY <1>2, <1>3

LEMMA HolderInView ==
  ASSUME NEW ls \in Seq(Layer), NEW e, NEW x, NEW p, NEW n \in Names,
         NEW h, IsHolder(ls, n, h)
  PROVE  Abstract!Holder(View(ls, e, x, p), n) = h + 1
<1> DEFINE V == View(ls, e, x, p)
           N == Len(ls)
           Holds(k) == /\ n \in DOMAIN V[k].vars
                       /\ \A j \in (k + 1)..Len(V) : n \notin DOMAIN V[j].vars
<1>1. /\ N \in Nat /\ Len(V) = N + 1
      /\ \A l \in 0..N : V[l + 1] = ScopeIn(ls, e, x, p, l)
  BY ViewIs
<1> HIDE DEF V, N
<1>2. \A l \in 0..N : DOMAIN V[l + 1].vars = NamesOf(ls, l)
  <2>1. \A l : ScopeIn(ls, e, x, p, l).vars = VariablesOf(ls, e, x, l)
    BY DEF ScopeIn
  <2>2. \A l : DOMAIN VariablesOf(ls, e, x, l) = NamesOf(ls, l)
    BY DEF VariablesOf
  <2> QED
    BY <1>1, <2>1, <2>2
<1>3. /\ h \in 0..N /\ n \in NamesOf(ls, h)
      /\ \A l \in (h + 1)..N : n \notin NamesOf(ls, l)
  BY <1>1 DEF IsHolder, NamesOf, N
<1>4. h + 1 \in 1..Len(V) /\ Holds(h + 1)
  <2>1. \A j \in (h + 1 + 1)..Len(V) : j - 1 \in (h + 1)..N /\ j - 1 \in 0..N /\ j - 1 + 1 = j
    BY <1>1, <1>3
  <2>2. \A j \in (h + 1 + 1)..Len(V) : n \notin DOMAIN V[j].vars
    <3> SUFFICES ASSUME NEW j \in (h + 1 + 1)..Len(V) PROVE n \notin DOMAIN V[j].vars
      OBVIOUS
    <3>1. DOMAIN V[j].vars = NamesOf(ls, j - 1)
      BY <1>2, <2>1
    <3> QED
      BY <1>3, <2>1, <3>1
  <2>3. h + 1 \in 1..Len(V) /\ n \in DOMAIN V[h + 1].vars
    BY <1>1, <1>2, <1>3
  <2> QED
    BY <2>2, <2>3
<1>5. ASSUME NEW k \in 1..Len(V), Holds(k) PROVE k = h + 1
  <2>1. k - 1 \in 0..N /\ k - 1 + 1 = k
    BY <1>1
  <2>2. n \in NamesOf(ls, k - 1)
    BY <1>2, <1>5, <2>1
  <2>3. ~ (k - 1 > h)
    BY <1>1, <1>3, <2>1, <2>2
  <2>4. ~ (h + 1 \in (k + 1)..Len(V))
    BY <1>4, <1>5
  <2> QED
    BY <1>1, <1>3, <1>4, <2>1, <2>3, <2>4
<1>6. Abstract!Holder(V, n) = CHOOSE k \in 1..Len(V) : Holds(k)
  BY DEF Abstract!Holder
<1> HIDE DEF Holds
<1>7. (CHOOSE k \in 1..Len(V) : Holds(k)) = h + 1
  BY <1>4, <1>5
<1> QED
  BY <1>6, <1>7 DEF V

\* The scope at one place replaced.
LEMMA ViewReplaced ==
  ASSUME NEW n \in Nat, NEW f, NEW g, NEW k \in 1..n, NEW y,
         f = [i \in 1..n |-> f[i]], g = [i \in 1..n |-> g[i]], g[k] = y,
         \A i \in 1..n : i # k => g[i] = f[i]
  PROVE  g = [f EXCEPT ![k] = y]
<1> DEFINE h == [f EXCEPT ![k] = y]
<1>1. DOMAIN f = 1..n /\ h = [i \in 1..n |-> h[i]]
  OBVIOUS
<1>2. h[k] = y /\ \A i \in 1..n : i # k => h[i] = f[i]
  BY <1>1
<1> HIDE DEF h
<1>3. \A i \in 1..n : g[i] = h[i]
  BY <1>2
<1>4. g = h
  BY <1>1, <1>3
<1> QED
  BY <1>4 DEF h

\* x=v, unset x, export x: what n stands for changes, in the scope that binds it.
LEMMA CurrentChanges ==
  ASSUME NEW ls \in Seq(Layer), NEW e, NEW x, NEW p, NEW e2, NEW x2, NEW n \in Names,
         \A m \in Names \ {n} : e2[m] = e[m] /\ (m \in x2 <=> m \in x),
         CurrentBinding(e2, x2, n) \in [value : AllValues, exported : BOOLEAN]
  PROVE  Abstract!Assign(View(ls, e, x, p), View(ls, e2, x2, p), n)
<1> DEFINE V == View(ls, e, x, p)
           W == View(ls, e2, x2, p)
           N == Len(ls)
           b == CurrentBinding(e2, x2, n)
<1>1. PICK h \in 0..N : IsHolder(ls, n, h)
  BY HolderExists
<1>2. /\ N \in Nat /\ V = [k \in 1..(N + 1) |-> V[k]] /\ W = [k \in 1..(N + 1) |-> W[k]]
      /\ \A l \in 0..N : V[l + 1] = ScopeIn(ls, e, x, p, l) /\ W[l + 1] = ScopeIn(ls, e2, x2, p, l)
  BY ViewIs
<1>3. Abstract!Holder(V, n) = h + 1
  BY <1>1, HolderInView
<1>4. \A l \in 0..N : NamesOf(ls, l) \subseteq Names
  BY SavedParts DEF NamesOf
<1>5. ASSUME NEW l \in 0..N, NEW m \in NamesOf(ls, l), m # n \/ l # h
      PROVE  BindingOf(ls, e2, x2, l, m) = BindingOf(ls, e, x, l, m)
  <2>1. m \in Names
    BY <1>4
  <2>2. CASE Above(ls, l, m) # {}
    BY <2>2 DEF BindingOf
  <2>3. CASE m # n
    BY <2>1, <2>3 DEF BindingOf, CurrentBinding
  <2>4. CASE m = n /\ l # h
    <3>1. ~ (l > h)
      <4> SUFFICES ASSUME l > h PROVE FALSE
        OBVIOUS
      <4>1. l \in (h + 1)..N /\ NamesOf(ls, l) = DOMAIN ls[l].saved
        BY <1>2 DEF NamesOf
      <4> QED
        BY <1>1, <2>4, <4>1 DEF IsHolder
    <3>2. h \in (l + 1)..N /\ h # 0
      BY <1>2, <2>4, <3>1
    <3>3. h \in Above(ls, l, n)
      BY <1>1, <3>2 DEF Above, IsHolder, NamesOf
    <3> QED
      BY <2>2, <2>4, <3>3
  <2> QED
    BY <1>5, <2>3, <2>4
<1>6. BindingOf(ls, e2, x2, h, n) = b
  BY <1>1, NoneAbove DEF IsHolder, IsFree
<1>7. \A l \in 0..N : l # h => W[l + 1] = V[l + 1]
  <2> SUFFICES ASSUME NEW l \in 0..N, l # h PROVE W[l + 1] = V[l + 1]
    OBVIOUS
  <2>1. \A m \in NamesOf(ls, l) : BindingOf(ls, e2, x2, l, m) = BindingOf(ls, e, x, l, m)
    BY <1>5
  <2>2. ScopeIn(ls, e2, x2, p, l) = ScopeIn(ls, e, x, p, l)
    BY <2>1, SameScope
  <2> QED
    BY <1>2, <2>2
<1> HIDE DEF V, W, N, b
<1>8. W[h + 1] = [V[h + 1] EXCEPT !.vars[n] = b]
  <2>1. VariablesOf(ls, e2, x2, h) = [VariablesOf(ls, e, x, h) EXCEPT ![n] = b]
    <3>1. n \in NamesOf(ls, h)
      BY <1>1 DEF IsHolder
    <3>2. \A m \in NamesOf(ls, h) :
            BindingOf(ls, e2, x2, h, m) = IF m = n THEN b ELSE BindingOf(ls, e, x, h, m)
      BY <1>5, <1>6
    <3> QED
      BY <3>1, <3>2 DEF VariablesOf
  <2>2. /\ V[h + 1] = ScopeIn(ls, e, x, p, h) /\ W[h + 1] = ScopeIn(ls, e2, x2, p, h)
    BY <1>2
  <2> QED
    BY <2>1, <2>2 DEF ScopeIn
<1>9. W = [V EXCEPT ![h + 1] = W[h + 1]]
  <2>1. h + 1 \in 1..(N + 1) /\ N + 1 \in Nat
    BY <1>2
  <2>2. \A i \in 1..(N + 1) : i # h + 1 => W[i] = V[i]
    <3> SUFFICES ASSUME NEW i \in 1..(N + 1), i # h + 1 PROVE W[i] = V[i]
      OBVIOUS
    <3>1. i - 1 \in 0..N /\ i - 1 + 1 = i /\ i - 1 # h
      BY <1>2
    <3> QED
      BY <1>7, <3>1
  <2> QED
    BY <1>2, <2>1, <2>2, ViewReplaced
<1>10. W = [V EXCEPT ![h + 1].vars[n] = b]
  BY <1>2, <1>8, <1>9
<1>11. b \in [value : AllValues, exported : BOOLEAN]
  BY DEF b
<1> QED
  BY <1>3, <1>10, <1>11 DEF Abstract!Assign, V, W

\* set, shift: the innermost scope's arguments.
LEMMA ArgumentsChange ==
  ASSUME NEW ls \in Seq(Layer), NEW e, NEW x, NEW p, NEW p2 \in Arguments
  PROVE  Abstract!SetArguments(View(ls, e, x, p), View(ls, e, x, p2))
<1> DEFINE V == View(ls, e, x, p)
           W == View(ls, e, x, p2)
           N == Len(ls)
<1>1. /\ N \in Nat /\ V = [k \in 1..(N + 1) |-> V[k]] /\ W = [k \in 1..(N + 1) |-> W[k]]
      /\ Len(V) = N + 1
      /\ \A l \in 0..N : V[l + 1] = ScopeIn(ls, e, x, p, l) /\ W[l + 1] = ScopeIn(ls, e, x, p2, l)
  BY ViewIs
<1>2. \A l \in 0..N : l # N => W[l + 1] = V[l + 1]
  BY <1>1 DEF ScopeIn, ArgumentsOf
<1>3. ScopeIn(ls, e, x, p2, N) = [ScopeIn(ls, e, x, p, N) EXCEPT !.args = p2]
  BY DEF ScopeIn, ArgumentsOf
<1> HIDE DEF V, W, N
<1>4. \A i \in 1..(N + 1) : i # N + 1 => W[i] = V[i]
  <2> SUFFICES ASSUME NEW i \in 1..(N + 1), i # N + 1 PROVE W[i] = V[i]
    OBVIOUS
  <2>1. i - 1 \in 0..N /\ i - 1 + 1 = i /\ i - 1 # N
    BY <1>1
  <2> QED
    BY <1>2, <2>1
<1>5. N + 1 \in Nat /\ N + 1 \in 1..(N + 1)
  BY <1>1
<1>6. W = [V EXCEPT ![N + 1] = W[N + 1]]
  BY <1>1, <1>4, <1>5, ViewReplaced
<1>7. W[N + 1] = [V[N + 1] EXCEPT !.args = p2]
  <2>1. N \in 0..N
    BY <1>1
  <2> QED
    BY <1>1, <1>3, <2>1
<1>8. W = [V EXCEPT ![Len(V)].args = p2]
  BY <1>1, <1>6, <1>7
<1> QED
  BY <1>8 DEF Abstract!SetArguments, V, W

\* The function whose locals lie in the topmost layer f of functions.
LEMMA InnermostInView ==
  ASSUME NEW ls \in Seq(Layer), NEW e, NEW x, NEW p, NEW f \in 1..Len(ls),
         ls[f].kind = "function", \A l \in (f + 1)..Len(ls) : ls[l].kind # "function"
  PROVE  /\ Abstract!InnermostFunction(View(ls, e, x, p)) = f + 1
         /\ f + 1 \in 1..Len(View(ls, e, x, p))
         /\ View(ls, e, x, p)[f + 1].kind = "function"
<1> DEFINE V == View(ls, e, x, p)
           N == Len(ls)
<1>1. /\ N \in Nat /\ Len(V) = N + 1 /\ f \in 1..N
      /\ \A l \in 0..N : V[l + 1] = ScopeIn(ls, e, x, p, l)
  BY ViewIs
<1> HIDE DEF V, N
<1>2. \A l \in 0..N : V[l + 1].kind = KindOf(ls, l)
  <2>1. \A l : ScopeIn(ls, e, x, p, l).kind = KindOf(ls, l)
    BY DEF ScopeIn
  <2> QED
    BY <1>1, <2>1
<1>3. /\ f + 1 \in 1..Len(V) /\ V[f + 1].kind = "function"
      /\ \A j \in (f + 1 + 1)..Len(V) : V[j].kind # "function"
  <2>1. V[f + 1].kind = "function"
    BY <1>1, <1>2 DEF KindOf
  <2>2. ASSUME NEW j \in (f + 1 + 1)..Len(V) PROVE V[j].kind # "function"
    <3>1. j - 1 \in (f + 1)..N /\ j - 1 \in 0..N /\ j - 1 + 1 = j /\ j - 1 # 0
      BY <1>1
    <3>2. V[j].kind = KindOf(ls, j - 1)
      BY <1>2, <3>1
    <3> QED
      BY <3>1, <3>2 DEF KindOf, N
  <2> QED
    BY <1>1, <2>1, <2>2
<1>4. Abstract!InnermostFunction(V) = f + 1
  <2>1. ASSUME NEW k \in 1..Len(V), V[k].kind = "function",
               \A j \in (k + 1)..Len(V) : V[j].kind # "function"
        PROVE  k = f + 1
    <3>1. ~ (k \in (f + 1 + 1)..Len(V)) /\ ~ (f + 1 \in (k + 1)..Len(V))
      BY <1>3, <2>1
    <3>2. k \in Int /\ Len(V) \in Int /\ f + 1 \in Int /\ k <= Len(V) /\ f + 1 <= Len(V)
      BY <1>1
    <3> QED
      BY <3>1, <3>2
  <2> QED
    BY <1>3, <2>1 DEF Abstract!InnermostFunction
<1> QED
  BY <1>3, <1>4 DEF V

\* The frame in layer f, the innermost one, remembers n besides what it did.
FirstLocal(ls, ls2, f, n) ==
  /\ f \in 1..Len(ls) /\ Len(ls2) = Len(ls)
  /\ \A l \in 1..Len(ls) : l # f => ls2[l] = ls[l]
  /\ ls[f].kind = "function" /\ \A l \in (f + 1)..Len(ls) : ls[l].kind # "function"
  /\ ls2[f].kind = "function" /\ ls2[f].previous = ls[f].previous
  /\ n \notin DOMAIN ls[f].saved /\ DOMAIN ls2[f].saved = DOMAIN ls[f].saved \cup {n}
  /\ \A m \in DOMAIN ls[f].saved : ls2[f].saved[m] = ls[f].saved[m]

\* The scope of that layer binds n too; the kinds and arguments of the scopes and
\* the names that the others bind are the same.
OneNameMore(ls, ls2, p, f, n) ==
  \A l \in 0..Len(ls) :
    /\ KindOf(ls2, l) = KindOf(ls, l)
    /\ ArgumentsOf(ls2, p, l) = ArgumentsOf(ls, p, l)
    /\ NamesOf(ls2, l) = IF l = f THEN NamesOf(ls, l) \cup {n} ELSE NamesOf(ls, l)
    /\ NamesOf(ls, l) \subseteq Names

LEMMA FirstLocalScopes ==
  ASSUME NEW ls \in Seq(Layer), NEW ls2 \in Seq(Layer), NEW p, NEW f \in 1..Len(ls), NEW n,
         FirstLocal(ls, ls2, f, n)
  PROVE  OneNameMore(ls, ls2, p, f, n)
<1> SUFFICES ASSUME NEW l \in 0..Len(ls)
    PROVE  /\ KindOf(ls2, l) = KindOf(ls, l)
           /\ ArgumentsOf(ls2, p, l) = ArgumentsOf(ls, p, l)
           /\ NamesOf(ls2, l) = IF l = f THEN NamesOf(ls, l) \cup {n} ELSE NamesOf(ls, l)
           /\ NamesOf(ls, l) \subseteq Names
  BY DEF OneNameMore
<1>1. KindOf(ls2, l) = KindOf(ls, l)
  BY DEF KindOf, FirstLocal
<1>2. ArgumentsOf(ls2, p, l) = ArgumentsOf(ls, p, l)
  BY DEF ArgumentsOf, FirstLocal
<1>3. NamesOf(ls2, l) = IF l = f THEN NamesOf(ls, l) \cup {n} ELSE NamesOf(ls, l)
  <2>1. f # 0 /\ (l # 0 /\ l # f => ls2[l] = ls[l])
    BY DEF FirstLocal
  <2>2. CASE l = 0
    BY <2>1, <2>2 DEF NamesOf
  <2>3. CASE l = f
    BY <2>1, <2>3 DEF NamesOf, FirstLocal
  <2>4. CASE l # 0 /\ l # f
    BY <2>1, <2>4 DEF NamesOf
  <2> QED
    BY <2>2, <2>3, <2>4
<1>4. NamesOf(ls, l) \subseteq Names
  BY SavedParts DEF NamesOf
<1> QED
  BY <1>1, <1>2, <1>3, <1>4

\* Other names, and scopes above the frame, are bound as before.
LEMMA FirstLocalKeeps ==
  ASSUME NEW ls \in Seq(Layer), NEW ls2 \in Seq(Layer), NEW e, NEW x,
         NEW f \in 1..Len(ls), NEW n, FirstLocal(ls, ls2, f, n),
         NEW l \in 0..Len(ls), NEW m, m # n \/ l >= f
  PROVE  BindingOf(ls2, e, x, l, m) = BindingOf(ls, e, x, l, m)
<1>1. /\ Len(ls) \in Nat /\ Len(ls2) = Len(ls) /\ l \in Nat /\ f \in 1..Len(ls)
  BY DEF FirstLocal
<1>2. \A i \in (l + 1)..Len(ls) :
        /\ m \in DOMAIN ls2[i].saved <=> m \in DOMAIN ls[i].saved
        /\ m \in DOMAIN ls[i].saved => ls2[i].saved[m] = ls[i].saved[m]
  <2> SUFFICES ASSUME NEW i \in (l + 1)..Len(ls)
               PROVE  /\ m \in DOMAIN ls2[i].saved <=> m \in DOMAIN ls[i].saved
                      /\ m \in DOMAIN ls[i].saved => ls2[i].saved[m] = ls[i].saved[m]
    OBVIOUS
  <2>1. i \in 1..Len(ls) /\ (i = f => m # n)
    BY <1>1
  <2> QED
    BY <2>1 DEF FirstLocal
<1>3. CASE IsFree(ls, l, m)
  <2>1. IsFree(ls2, l, m)
    BY <1>1, <1>2, <1>3 DEF IsFree
  <2> QED
    BY <1>3, <2>1, NoneAbove
<1>4. ASSUME NEW j \in 1..Len(ls), IsNext(ls, l, m, j)
      PROVE  BindingOf(ls2, e, x, l, m) = BindingOf(ls, e, x, l, m)
  <2>1. j \in (l + 1)..Len(ls) /\ \A i \in (l + 1)..(j - 1) : i \in (l + 1)..Len(ls)
    BY <1>1, <1>4 DEF IsNext
  <2>2. IsNext(ls2, l, m, j)
    BY <1>1, <1>2, <1>4, <2>1 DEF IsNext
  <2>3. BindingOf(ls2, e, x, l, m) = SavedBinding(ls2[j].saved, m)
    BY <1>1, <2>2, NextAbove
  <2>4. BindingOf(ls, e, x, l, m) = SavedBinding(ls[j].saved, m)
    BY <1>1, <1>4, NextAbove
  <2>5. ls2[j].saved[m] = ls[j].saved[m]
    BY <1>2, <1>4, <2>1 DEF IsNext
  <2> QED
    BY <2>3, <2>4, <2>5 DEF SavedBinding
<1> QED
  BY <1>1, <1>3, <1>4, NoneOrNext

\* The first local n in the innermost function: its scope, which lies in layer f,
\* binds n from now on.
LEMMA LocalOpens ==
  ASSUME NEW ls \in Seq(Layer), NEW ls2 \in Seq(Layer), NEW e, NEW x, NEW e2, NEW x2, NEW p,
         NEW n \in Names, NEW f \in 1..Len(ls), FirstLocal(ls, ls2, f, n),
         \A l \in (f + 1)..Len(ls) : n \notin DOMAIN ls[l].saved,
         SavedBinding(ls2[f].saved, n) = CurrentBinding(e, x, n),
         \A m \in Names \ {n} : e2[m] = e[m] /\ (m \in x2 <=> m \in x),
         CurrentBinding(e2, x2, n) \in [value : AllValues, exported : BOOLEAN]
  PROVE  Abstract!Local(View(ls, e, x, p), View(ls2, e2, x2, p), n)
<1> DEFINE V == View(ls, e, x, p)
           W == View(ls2, e2, x2, p)
           N == Len(ls)
           b == CurrentBinding(e2, x2, n)
<1>0. /\ f \in 1..Len(ls) /\ Len(ls2) = Len(ls)
      /\ \A l \in 1..Len(ls) : l # f => ls2[l] = ls[l]
      /\ n \notin DOMAIN ls[f].saved /\ DOMAIN ls2[f].saved = DOMAIN ls[f].saved \cup {n}
      /\ \A m \in DOMAIN ls[f].saved : ls2[f].saved[m] = ls[f].saved[m]
      /\ \A l \in f..Len(ls) : n \notin DOMAIN ls[l].saved
  <2>1. /\ f \in 1..Len(ls) /\ Len(ls2) = Len(ls)
        /\ \A l \in 1..Len(ls) : l # f => ls2[l] = ls[l]
        /\ n \notin DOMAIN ls[f].saved /\ DOMAIN ls2[f].saved = DOMAIN ls[f].saved \cup {n}
        /\ \A m \in DOMAIN ls[f].saved : ls2[f].saved[m] = ls[f].saved[m]
    BY DEF FirstLocal
  <2>2. \A l \in f..Len(ls) : l = f \/ l \in (f + 1)..Len(ls)
    BY <2>1
  <2> QED
    BY <2>1, <2>2
<1>1. /\ N \in Nat /\ V = [k \in 1..(N + 1) |-> V[k]] /\ W = [k \in 1..(N + 1) |-> W[k]]
      /\ Len(V) = N + 1
      /\ \A l \in 0..N :
           V[l + 1] = ScopeIn(ls, e, x, p, l) /\ W[l + 1] = ScopeIn(ls2, e2, x2, p, l)
  BY <1>0, ViewIs
<1>2. \A l \in 0..N :
        /\ KindOf(ls2, l) = KindOf(ls, l)
        /\ ArgumentsOf(ls2, p, l) = ArgumentsOf(ls, p, l)
        /\ NamesOf(ls2, l) = IF l = f THEN NamesOf(ls, l) \cup {n} ELSE NamesOf(ls, l)
        /\ NamesOf(ls, l) \subseteq Names
  <2>1. OneNameMore(ls, ls2, p, f, n)
    BY FirstLocalScopes
  <2> QED
    BY <2>1 DEF OneNameMore
<1>3. \A l \in 1..Len(ls) : l < f => ls2[l] = ls[l]
  BY <1>0
<1>4. ASSUME NEW l \in 0..N, NEW m \in NamesOf(ls, l)
      PROVE  BindingOf(ls2, e2, x2, l, m) = BindingOf(ls, e, x, l, m)
  <2>1. m \in Names /\ l \in Nat
    BY <1>2
  <2>2. CASE m # n
    <3>1. BindingOf(ls2, e2, x2, l, m) = BindingOf(ls2, e, x, l, m)
      BY <2>1, <2>2 DEF BindingOf, CurrentBinding
    <3>2. BindingOf(ls2, e, x, l, m) = BindingOf(ls, e, x, l, m)
      BY <2>2, FirstLocalKeeps
    <3> QED
      BY <3>1, <3>2
  <2>3. CASE m = n
    <3>1. l < f
      <4> SUFFICES ASSUME ~ (l < f) PROVE FALSE
        OBVIOUS
      <4>1. l \in f..Len(ls) /\ NamesOf(ls, l) = DOMAIN ls[l].saved
        BY <1>0, <1>1 DEF NamesOf
      <4> QED
        BY <1>0, <2>3, <4>1
    <3>2. CASE IsFree(ls, l, n)
      <4>1. IsNext(ls2, l, n, f)
        <5>1. f \in (l + 1)..Len(ls2) /\ n \in DOMAIN ls2[f].saved
          BY <1>0, <1>1, <2>1, <3>1
        <5>2. \A i \in (l + 1)..(f - 1) : i \in (l + 1)..Len(ls) /\ i \in 1..Len(ls) /\ i < f
          BY <1>0, <1>1, <2>1, <3>1
        <5>3. \A i \in (l + 1)..(f - 1) : n \notin DOMAIN ls2[i].saved
          BY <1>3, <3>2, <5>2 DEF IsFree
        <5> QED
          BY <5>1, <5>3 DEF IsNext
      <4>2. BindingOf(ls2, e2, x2, l, n) = SavedBinding(ls2[f].saved, n)
        BY <1>0, <1>1, <2>1, <4>1, NextAbove
      <4>3. BindingOf(ls, e, x, l, n) = CurrentBinding(e, x, n)
        BY <3>2, NoneAbove
      <4> QED
        BY <2>3, <4>2, <4>3
    <3>3. ASSUME NEW j \in 1..Len(ls), IsNext(ls, l, n, j)
          PROVE  BindingOf(ls2, e2, x2, l, n) = BindingOf(ls, e, x, l, n)
      <4>1. j < f
        <5> SUFFICES ASSUME ~ (j < f) PROVE FALSE
          OBVIOUS
        <5>1. j \in f..Len(ls)
          BY <1>0, <1>1
        <5> QED
          BY <1>0, <3>3, <5>1 DEF IsNext
      <4>2. \A i \in (l + 1)..(j - 1) : i \in 1..Len(ls) /\ i < f
        BY <1>0, <1>1, <2>1, <4>1
      <4>3. ls2[j] = ls[j] /\ IsNext(ls2, l, n, j)
        BY <1>0, <1>3, <3>3, <4>1, <4>2 DEF IsNext
      <4>4. BindingOf(ls2, e2, x2, l, n) = SavedBinding(ls2[j].saved, n)
        BY <1>0, <1>1, <2>1, <4>3, NextAbove
      <4>5. BindingOf(ls, e, x, l, n) = SavedBinding(ls[j].saved, n)
        BY <1>1, <2>1, <3>3, NextAbove
      <4> QED
        BY <4>3, <4>4, <4>5
    <3> QED
      BY <1>1, <2>1, <2>3, <3>2, <3>3, NoneOrNext
  <2> QED
    BY <2>2, <2>3
<1>5. BindingOf(ls2, e2, x2, f, n) = b
  <2>1. \A i \in (f + 1)..Len(ls2) : i \in 1..Len(ls) /\ i # f /\ i \in f..Len(ls)
    BY <1>0, <1>1
  <2>2. IsFree(ls2, f, n)
    BY <1>0, <2>1 DEF IsFree
  <2> QED
    BY <2>2, NoneAbove
<1> HIDE DEF V, W, N, b
<1>6. \A l \in 0..N : l # f => W[l + 1] = V[l + 1]
  <2> SUFFICES ASSUME NEW l \in 0..N, l # f PROVE W[l + 1] = V[l + 1]
    OBVIOUS
  <2>1. \A m \in NamesOf(ls, l) : BindingOf(ls2, e2, x2, l, m) = BindingOf(ls, e, x, l, m)
    BY <1>4
  <2>2. /\ KindOf(ls2, l) = KindOf(ls, l) /\ NamesOf(ls2, l) = NamesOf(ls, l)
        /\ ArgumentsOf(ls2, p, l) = ArgumentsOf(ls, p, l)
    BY <1>2
  <2>3. ScopeIn(ls2, e2, x2, p, l) = ScopeIn(ls, e, x, p, l)
    BY <2>1, <2>2, SameScope
  <2> QED
    BY <1>1, <2>3
<1>7. f \in 0..N /\ f + 1 \in 1..(N + 1) /\ N + 1 \in Nat
  BY <1>0, <1>1 DEF N
<1>8. VariablesOf(ls2, e2, x2, f) = Abstract!Bind(VariablesOf(ls, e, x, f), n, b)
  <2>1. NamesOf(ls2, f) = NamesOf(ls, f) \cup {n} /\ n \notin NamesOf(ls, f)
    BY <1>0, <1>1, <1>2, <1>7 DEF NamesOf, N
  <2>2. \A m \in NamesOf(ls, f) : BindingOf(ls2, e2, x2, f, m) = BindingOf(ls, e, x, f, m)
    BY <1>4, <1>7
  <2> QED
    BY <1>5, <2>1, <2>2 DEF VariablesOf, Abstract!Bind
<1>9. /\ V[f + 1].vars = VariablesOf(ls, e, x, f)
      /\ W[f + 1] = [V[f + 1] EXCEPT !.vars = Abstract!Bind(@, n, b)]
  <2>1. /\ V[f + 1] = ScopeIn(ls, e, x, p, f) /\ W[f + 1] = ScopeIn(ls2, e2, x2, p, f)
        /\ KindOf(ls2, f) = KindOf(ls, f)
        /\ ArgumentsOf(ls2, p, f) = ArgumentsOf(ls, p, f)
    BY <1>1, <1>2, <1>7
  <2> QED
    BY <1>8, <2>1 DEF ScopeIn
<1>10. W = [V EXCEPT ![f + 1] = W[f + 1]]
  <2>1. \A i \in 1..(N + 1) : i # f + 1 => W[i] = V[i]
    <3> SUFFICES ASSUME NEW i \in 1..(N + 1), i # f + 1 PROVE W[i] = V[i]
      OBVIOUS
    <3>1. i - 1 \in 0..N /\ i - 1 + 1 = i /\ i - 1 # f
      BY <1>1, <1>7
    <3> QED
      BY <1>6, <3>1
  <2> QED
    BY <1>1, <1>7, <2>1, ViewReplaced
<1>11. W = [V EXCEPT ![f + 1].vars = Abstract!Bind(@, n, b)]
  BY <1>1, <1>9, <1>10
<1>12. Abstract!InnermostFunction(V) = f + 1 /\ f + 1 \in 1..Len(V) /\ V[f + 1].kind = "function"
  BY InnermostInView DEF V, FirstLocal
<1>13. n \notin DOMAIN V[f + 1].vars
  <2>1. DOMAIN VariablesOf(ls, e, x, f) = NamesOf(ls, f)
    BY DEF VariablesOf
  <2> QED
    BY <1>0, <1>1, <1>7, <1>9, <2>1 DEF NamesOf, N
<1>14. b \in [value : AllValues, exported : BOOLEAN]
  BY DEF b
<1> QED
  BY <1>11, <1>12, <1>13, <1>14 DEF Abstract!Local, V, W

\* The scope below the function in layer f that binds n: its layer, 0 for the
\* global scope.
IsCaller(ls, f, n, c) ==
  /\ c \in 0..(f - 1) /\ n \in NamesOf(ls, c)
  /\ \A j \in (c + 1)..(f - 1) : n \notin DOMAIN ls[j].saved

LEMMA CallerExists ==
  ASSUME NEW ls \in Seq(Layer), NEW n \in Names, NEW f \in 1..Len(ls)
  PROVE  \E c \in 0..(f - 1) : IsCaller(ls, f, n, c)
<1> DEFINE S == {j \in 1..(f - 1) : n \in DOMAIN ls[j].saved}
<1>1. f - 1 \in Nat /\ S \subseteq 1..(f - 1)
  OBVIOUS
<1>2. CASE S = {}
  BY <1>1, <1>2 DEF IsCaller, NamesOf
<1>3. CASE S # {}
  <2> HIDE DEF S
  <2>1. PICK c \in S : \A j \in S : j <= c
    BY <1>1, <1>3, GreatestOf
  <2>2. \A j \in (c + 1)..(f - 1) : j \in 1..(f - 1) /\ ~ (j <= c)
    BY <1>1
  <2>3. IsCaller(ls, f, n, c)
    BY <1>1, <2>1, <2>2 DEF IsCaller, NamesOf, S
  <2> QED
    BY <1>1, <2>3 DEF IsCaller
<1> QED
  BY <1>2, <1>3

LEMMA CallerInView ==
  ASSUME NEW ls \in Seq(Layer), NEW e, NEW x, NEW p, NEW n \in Names,
         NEW f \in 1..Len(ls), NEW c, IsCaller(ls, f, n, c)
  PROVE  Abstract!CallerHolder(View(ls, e, x, p), f + 1, n) = c + 1
<1> DEFINE V == View(ls, e, x, p)
           N == Len(ls)
           Holds(k) == /\ n \in DOMAIN V[k].vars
                       /\ \A j \in (k + 1)..(f + 1 - 1) : n \notin DOMAIN V[j].vars
<1>1. /\ N \in Nat /\ f \in 1..N /\ f + 1 - 1 = f
      /\ \A l \in 0..N : V[l + 1] = ScopeIn(ls, e, x, p, l)
  BY ViewIs
<1> HIDE DEF V, N
<1>2. \A l \in 0..N : DOMAIN V[l + 1].vars = NamesOf(ls, l)
  <2>1. \A l : ScopeIn(ls, e, x, p, l).vars = VariablesOf(ls, e, x, l)
    BY DEF ScopeIn
  <2>2. \A l : DOMAIN VariablesOf(ls, e, x, l) = NamesOf(ls, l)
    BY DEF VariablesOf
  <2> QED
    BY <1>1, <2>1, <2>2
<1>3. /\ c \in 0..(f - 1) /\ c \in 0..N /\ n \in NamesOf(ls, c)
      /\ \A l \in (c + 1)..(f - 1) : n \notin NamesOf(ls, l)
  BY <1>1 DEF IsCaller, NamesOf
<1>4. c + 1 \in 1..(f + 1 - 1) /\ Holds(c + 1)
  <2>1. \A j \in (c + 1 + 1)..f : j - 1 \in (c + 1)..(f - 1) /\ j - 1 \in 0..N /\ j - 1 + 1 = j
    BY <1>1, <1>3
  <2>2. \A j \in (c + 1 + 1)..f : n \notin DOMAIN V[j].vars
    <3> SUFFICES ASSUME NEW j \in (c + 1 + 1)..f PROVE n \notin DOMAIN V[j].vars
      OBVIOUS
    <3>1. DOMAIN V[j].vars = NamesOf(ls, j - 1)
      BY <1>2, <2>1
    <3> QED
      BY <1>3, <2>1, <3>1
  <2>3. c + 1 \in 1..f /\ n \in DOMAIN V[c + 1].vars
    BY <1>1, <1>2, <1>3
  <2> QED
    BY <1>1, <2>2, <2>3
<1>5. ASSUME NEW k \in 1..(f + 1 - 1), Holds(k) PROVE k = c + 1
  <2>1. k - 1 \in 0..N /\ k - 1 + 1 = k /\ k \in 1..f
    BY <1>1
  <2>2. n \in NamesOf(ls, k - 1)
    BY <1>2, <1>5, <2>1
  <2>3. ~ (k - 1 > c)
    BY <1>1, <1>3, <2>1, <2>2
  <2>4. ~ (c + 1 \in (k + 1)..f)
    BY <1>1, <1>4, <1>5
  <2> QED
    BY <1>1, <1>3, <2>1, <2>3, <2>4
<1>6. Abstract!CallerHolder(V, f + 1, n) = CHOOSE k \in 1..(f + 1 - 1) : Holds(k)
  BY DEF Abstract!CallerHolder
<1> HIDE DEF Holds
<1>7. (CHOOSE k \in 1..(f + 1 - 1) : Holds(k)) = c + 1
  BY <1>4, <1>5
<1> QED
  BY <1>6, <1>7 DEF V

\* The scopes in the layers ls bind in ls2 what they did, but for n in layer c.
OneBindingChanged(ls, ls2, e, x, c, n) ==
  \A l \in 0..Len(ls) : \A m \in NamesOf(ls, l) :
    m # n \/ l # c => BindingOf(ls2, e, x, l, m) = BindingOf(ls, e, x, l, m)

\* What the scopes bind when the frame in layer f remembers b as the caller's
\* binding of n, and the variable itself stays as it is.
LEMMA DisplacedBindings ==
  ASSUME NEW ls \in Seq(Layer), NEW ls2 \in Seq(Layer), NEW e, NEW x,
         NEW n \in Names, NEW f \in 1..Len(ls), FirstLocal(ls, ls2, f, n),
         NEW c \in 0..(f - 1), IsCaller(ls, f, n, c)
  PROVE  /\ BindingOf(ls2, e, x, c, n) = SavedBinding(ls2[f].saved, n)
         /\ BindingOf(ls2, e, x, f, n) = BindingOf(ls, e, x, c, n)
         /\ OneBindingChanged(ls, ls2, e, x, c, n)
<1>1. /\ Len(ls) \in Nat /\ Len(ls2) = Len(ls) /\ f \in 1..Len(ls)
      /\ \A l \in 1..Len(ls) : l # f => ls2[l] = ls[l]
      /\ n \notin DOMAIN ls[f].saved /\ n \in DOMAIN ls2[f].saved
  BY DEF FirstLocal
<1>2. /\ c \in 0..(f - 1) /\ c \in Nat /\ n \in NamesOf(ls, c)
      /\ \A j \in (c + 1)..(f - 1) : n \notin DOMAIN ls[j].saved
  BY <1>1 DEF IsCaller
<1>3. \A j \in (c + 1)..f : n \notin DOMAIN ls[j].saved
  <2>1. \A j \in (c + 1)..f : j = f \/ j \in (c + 1)..(f - 1)
    BY <1>1, <1>2
  <2> QED
    BY <1>1, <1>2, <2>1
<1>4. BindingOf(ls2, e, x, c, n) = SavedBinding(ls2[f].saved, n)
  <2>1. f \in (c + 1)..Len(ls2)
    BY <1>1, <1>2
  <2>2. \A j \in (c + 1)..(f - 1) : j \in 1..Len(ls) /\ j # f
    BY <1>1, <1>2
  <2>3. IsNext(ls2, c, n, f)
    BY <1>1, <1>2, <2>1, <2>2 DEF IsNext
  <2> QED
    BY <1>1, <1>2, <2>3, NextAbove
<1>5. BindingOf(ls, e, x, f, n) = BindingOf(ls, e, x, c, n)
  <2>1. CASE IsFree(ls, f, n)
    <3>1. \A j \in (c + 1)..Len(ls) : j \in (c + 1)..f \/ j \in (f + 1)..Len(ls)
      BY <1>1, <1>2
    <3>2. IsFree(ls, c, n)
      BY <1>3, <2>1, <3>1 DEF IsFree
    <3> QED
      BY <2>1, <3>2, NoneAbove
  <2>2. ASSUME NEW j \in 1..Len(ls), IsNext(ls, f, n, j)
        PROVE  BindingOf(ls, e, x, f, n) = BindingOf(ls, e, x, c, n)
    <3>1. /\ j \in (c + 1)..Len(ls)
          /\ \A i \in (c + 1)..(j - 1) : i \in (c + 1)..f \/ i \in (f + 1)..(j - 1)
      BY <1>1, <1>2, <2>2 DEF IsNext
    <3>2. IsNext(ls, c, n, j)
      BY <1>3, <2>2, <3>1 DEF IsNext
    <3>3. BindingOf(ls, e, x, f, n) = SavedBinding(ls[j].saved, n)
      BY <1>1, <2>2, NextAbove
    <3>4. BindingOf(ls, e, x, c, n) = SavedBinding(ls[j].saved, n)
      BY <1>1, <1>2, <3>2, NextAbove
    <3> QED
      BY <3>3, <3>4
  <2> QED
    BY <1>1, <2>1, <2>2, NoneOrNext
<1>6. BindingOf(ls2, e, x, f, n) = BindingOf(ls, e, x, f, n)
  <2>1. f \in 0..Len(ls) /\ f >= f
    BY <1>1
  <2> QED
    BY <2>1, FirstLocalKeeps
<1>7. ASSUME NEW l \in 0..Len(ls), NEW m \in NamesOf(ls, l), m # n \/ l # c
      PROVE  BindingOf(ls2, e, x, l, m) = BindingOf(ls, e, x, l, m)
  <2>1. CASE m # n \/ l >= f
    BY <2>1, FirstLocalKeeps
  <2>2. CASE m = n /\ l < f
    <3>1. ~ (l > c)
      <4> SUFFICES ASSUME l > c PROVE FALSE
        OBVIOUS
      <4>1. l \in (c + 1)..(f - 1) /\ NamesOf(ls, l) = DOMAIN ls[l].saved
        BY <1>1, <1>2, <2>2 DEF NamesOf
      <4> QED
        BY <1>2, <2>2, <4>1
    <3>2. l < c /\ l \in Nat /\ c \in (l + 1)..Len(ls) /\ n \in DOMAIN ls[c].saved
      BY <1>1, <1>2, <1>7, <2>2, <3>1 DEF NamesOf
    <3>3. PICK j \in 1..Len(ls) : IsNext(ls, l, n, j)
      BY <1>1, <3>2, NoneOrNext DEF IsFree
    <3>4. j \in (l + 1)..Len(ls) /\ j <= c
      <4>1. j \in (l + 1)..Len(ls) /\ ~ (c \in (l + 1)..(j - 1))
        BY <3>2, <3>3 DEF IsNext
      <4> QED
        BY <3>2, <4>1
    <3>5. j # f /\ \A i \in (l + 1)..(j - 1) : i \in 1..Len(ls) /\ i # f
      BY <1>1, <1>2, <3>2, <3>4
    <3>6. ls2[j] = ls[j] /\ IsNext(ls2, l, n, j)
      BY <1>1, <3>3, <3>5 DEF IsNext
    <3>7. BindingOf(ls2, e, x, l, n) = SavedBinding(ls2[j].saved, n)
      BY <1>1, <3>2, <3>6, NextAbove
    <3>8. BindingOf(ls, e, x, l, n) = SavedBinding(ls[j].saved, n)
      BY <1>1, <3>2, <3>3, NextAbove
    <3> QED
      BY <2>2, <3>6, <3>7, <3>8
  <2>3. l \in Int /\ f \in Int
    BY <1>1
  <2> QED
    BY <2>1, <2>2, <2>3
<1> QED
  BY <1>4, <1>5, <1>6, <1>7 DEF OneBindingChanged

\* The scopes at two places replaced.
LEMMA TwoReplaced ==
  ASSUME NEW n \in Nat, NEW f, NEW g, NEW j \in 1..n, NEW k \in 1..n, j # k, NEW y, NEW z,
         f = [i \in 1..n |-> f[i]], g = [i \in 1..n |-> g[i]], g[j] = y, g[k] = z,
         \A i \in 1..n : i # j /\ i # k => g[i] = f[i]
  PROVE  g = [f EXCEPT ![j] = y, ![k] = z]
<1> DEFINE h == [f EXCEPT ![j] = y, ![k] = z]
<1>1. DOMAIN f = 1..n /\ h = [i \in 1..n |-> h[i]]
  OBVIOUS
<1>2. h[j] = y /\ h[k] = z /\ \A i \in 1..n : i # j /\ i # k => h[i] = f[i]
  BY <1>1
<1> HIDE DEF h
<1>3. \A i \in 1..n : g[i] = h[i]
  BY <1>2
<1>4. g = h
  BY <1>1, <1>3
<1> QED
  BY <1>4 DEF h

\* A first local that finds the binding b of n, wherever it comes from: b becomes
\* the caller's, and the caller's becomes the function's.
LEMMA LocalDisplaces ==
  ASSUME NEW ls \in Seq(Layer), NEW ls2 \in Seq(Layer), NEW e, NEW x, NEW p,
         NEW n \in Names, NEW f \in 1..Len(ls), FirstLocal(ls, ls2, f, n),
         NEW b, SavedBinding(ls2[f].saved, n) = b
  PROVE  View(ls2, e, x, p) = Abstract!Displaced(View(ls, e, x, p), n, b)
<1> DEFINE V == View(ls, e, x, p)
           W == View(ls2, e, x, p)
           N == Len(ls)
<1>1. /\ f \in 1..N /\ Len(ls2) = N
      /\ ls[f].kind = "function" /\ \A l \in (f + 1)..N : ls[l].kind # "function"
      /\ n \notin DOMAIN ls[f].saved
  BY DEF FirstLocal
<1>2. PICK c \in 0..(f - 1) : IsCaller(ls, f, n, c)
  BY <1>1, CallerExists
<1>3. /\ N \in Nat /\ V = [k \in 1..(N + 1) |-> V[k]] /\ W = [k \in 1..(N + 1) |-> W[k]]
      /\ \A l \in 0..N :
           V[l + 1] = ScopeIn(ls, e, x, p, l) /\ W[l + 1] = ScopeIn(ls2, e, x, p, l)
  BY <1>1, ViewIs
<1>4. Abstract!InnermostFunction(V) = f + 1 /\ Abstract!CallerHolder(V, f + 1, n) = c + 1
  BY <1>1, <1>2, InnermostInView, CallerInView
<1>5. \A l \in 0..N :
        /\ KindOf(ls2, l) = KindOf(ls, l)
        /\ ArgumentsOf(ls2, p, l) = ArgumentsOf(ls, p, l)
        /\ NamesOf(ls2, l) = IF l = f THEN NamesOf(ls, l) \cup {n} ELSE NamesOf(ls, l)
  <2>1. OneNameMore(ls, ls2, p, f, n)
    BY FirstLocalScopes
  <2> QED
    BY <2>1 DEF OneNameMore
<1>6. /\ BindingOf(ls2, e, x, c, n) = b
      /\ BindingOf(ls2, e, x, f, n) = BindingOf(ls, e, x, c, n)
      /\ \A l \in 0..N : \A m \in NamesOf(ls, l) :
           m # n \/ l # c => BindingOf(ls2, e, x, l, m) = BindingOf(ls, e, x, l, m)
  <2>1. /\ BindingOf(ls2, e, x, c, n) = SavedBinding(ls2[f].saved, n)
        /\ BindingOf(ls2, e, x, f, n) = BindingOf(ls, e, x, c, n)
        /\ OneBindingChanged(ls, ls2, e, x, c, n)
    BY <1>2, DisplacedBindings
  <2> QED
    BY <2>1 DEF OneBindingChanged
<1>7. c \in 0..N /\ f \in 0..N /\ c # f
  BY <1>1, <1>3
<1> HIDE DEF V, W, N
<1>8. \A l \in 0..N : l # f /\ l # c => W[l + 1] = V[l + 1]
  <2> SUFFICES ASSUME NEW l \in 0..N, l # f, l # c PROVE W[l + 1] = V[l + 1]
    OBVIOUS
  <2>1. \A m \in NamesOf(ls, l) : BindingOf(ls2, e, x, l, m) = BindingOf(ls, e, x, l, m)
    BY <1>6
  <2>2. /\ KindOf(ls2, l) = KindOf(ls, l) /\ NamesOf(ls2, l) = NamesOf(ls, l)
        /\ ArgumentsOf(ls2, p, l) = ArgumentsOf(ls, p, l)
    BY <1>5
  <2>3. ScopeIn(ls2, e, x, p, l) = ScopeIn(ls, e, x, p, l)
    BY <2>1, <2>2, SameScope
  <2> QED
    BY <1>3, <2>3
<1>9. /\ V[c + 1].vars = VariablesOf(ls, e, x, c)
      /\ V[c + 1].vars[n] = BindingOf(ls, e, x, c, n)
      /\ W[c + 1] = [V[c + 1] EXCEPT !.vars[n] = b]
  <2>1. n \in NamesOf(ls, c)
    BY <1>2 DEF IsCaller
  <2>2. VariablesOf(ls2, e, x, c) = [VariablesOf(ls, e, x, c) EXCEPT ![n] = b]
    <3>1. NamesOf(ls2, c) = NamesOf(ls, c)
      BY <1>5, <1>7
    <3>2. \A m \in NamesOf(ls, c) :
            BindingOf(ls2, e, x, c, m) = IF m = n THEN b ELSE BindingOf(ls, e, x, c, m)
      BY <1>6, <1>7
    <3> QED
      BY <2>1, <3>1, <3>2 DEF VariablesOf
  <2>3. /\ V[c + 1] = ScopeIn(ls, e, x, p, c) /\ W[c + 1] = ScopeIn(ls2, e, x, p, c)
        /\ KindOf(ls2, c) = KindOf(ls, c)
        /\ ArgumentsOf(ls2, p, c) = ArgumentsOf(ls, p, c)
    BY <1>3, <1>5, <1>7
  <2>4. VariablesOf(ls, e, x, c)[n] = BindingOf(ls, e, x, c, n)
    BY <2>1 DEF VariablesOf
  <2> QED
    BY <2>2, <2>3, <2>4 DEF ScopeIn
<1>10. /\ V[f + 1].vars = VariablesOf(ls, e, x, f)
       /\ W[f + 1] = [V[f + 1] EXCEPT !.vars = Abstract!Bind(@, n, BindingOf(ls, e, x, c, n))]
  <2>1. NamesOf(ls2, f) = NamesOf(ls, f) \cup {n} /\ n \notin NamesOf(ls, f)
    <3>1. NamesOf(ls, f) = DOMAIN ls[f].saved
      BY <1>1, <1>3 DEF NamesOf
    <3> QED
      BY <1>1, <1>5, <1>7, <3>1
  <2>2. \A m \in NamesOf(ls, f) : BindingOf(ls2, e, x, f, m) = BindingOf(ls, e, x, f, m)
    BY <1>6, <1>7
  <2>3. VariablesOf(ls2, e, x, f)
          = Abstract!Bind(VariablesOf(ls, e, x, f), n, BindingOf(ls, e, x, c, n))
    BY <1>6, <2>1, <2>2 DEF VariablesOf, Abstract!Bind
  <2>4. /\ V[f + 1] = ScopeIn(ls, e, x, p, f) /\ W[f + 1] = ScopeIn(ls2, e, x, p, f)
        /\ KindOf(ls2, f) = KindOf(ls, f)
        /\ ArgumentsOf(ls2, p, f) = ArgumentsOf(ls, p, f)
    BY <1>3, <1>5, <1>7
  <2> QED
    BY <2>3, <2>4 DEF ScopeIn
<1>11. W = [V EXCEPT ![f + 1] = W[f + 1], ![c + 1] = W[c + 1]]
  <2>1. /\ N + 1 \in Nat /\ f + 1 \in 1..(N + 1) /\ c + 1 \in 1..(N + 1) /\ f + 1 # c + 1
    BY <1>3, <1>7
  <2>2. \A i \in 1..(N + 1) : i # f + 1 /\ i # c + 1 => W[i] = V[i]
    <3> SUFFICES ASSUME NEW i \in 1..(N + 1), i # f + 1, i # c + 1 PROVE W[i] = V[i]
      OBVIOUS
    <3>1. i - 1 \in 0..N /\ i - 1 + 1 = i /\ i - 1 # f /\ i - 1 # c
      BY <1>3, <1>7
    <3> QED
      BY <1>8, <3>1
  <2> QED
    BY <1>3, <2>1, <2>2, TwoReplaced
<1>12. Abstract!Displaced(V, n, b)
         = [V EXCEPT ![f + 1].vars = Abstract!Bind(@, n, V[c + 1].vars[n]),
                     ![c + 1].vars[n] = b]
  BY <1>4 DEF Abstract!Displaced
<1>13. Abstract!Displaced(V, n, b) = [V EXCEPT ![f + 1] = W[f + 1], ![c + 1] = W[c + 1]]
  <2>1. f + 1 \in 1..(N + 1) /\ c + 1 \in 1..(N + 1) /\ f + 1 # c + 1
    BY <1>3, <1>7
  <2> QED
    BY <1>3, <1>9, <1>10, <1>12, <2>1
<1> QED
  BY <1>11, <1>13 DEF V, W

\* One layer y on top of ls, which has saved what the variables were, or will be,
\* without it: the scopes below it are the same.
IsLid(y, e, x, p, e2, x2) ==
  /\ y.previous = p
  /\ \A n \in DOMAIN y.saved : SavedBinding(y.saved, n) = CurrentBinding(e, x, n)
  /\ \A n \in Names \ DOMAIN y.saved : CurrentBinding(e2, x2, n) = CurrentBinding(e, x, n)

\* A layer y, of a call or a source command, stands for this scope when it is the
\* topmost.
ScopeOn(y, e, x, p) ==
  [kind |-> IF y.kind = "function" THEN "function" ELSE "prefix",
   vars |-> [n \in DOMAIN y.saved |-> CurrentBinding(e, x, n)], args |-> p]

\* More scopes W, which are those of V and this one.
Topped(N, V, W, scope) ==
  /\ Len(V) = N + 1 /\ Len(W) = N + 2
  /\ \A k \in 1..(N + 1) : W[k] = V[k]
  /\ W[N + 2] = scope

LEMMA OneMore ==
  ASSUME NEW ls \in Seq(Layer), NEW ls2 \in Seq(Layer), Grown(ls, ls2),
         NEW e, NEW x, NEW p, NEW e2, NEW x2, NEW p2,
         NEW y, y = ls2[Len(ls2)], IsLid(y, e, x, p, e2, x2)
  PROVE  Topped(Len(ls), View(ls, e, x, p), View(ls2, e2, x2, p2), ScopeOn(y, e2, x2, p2))
<1> DEFINE V == View(ls, e, x, p)
           W == View(ls2, e2, x2, p2)
           N == Len(ls)
<1>1. /\ N \in Nat /\ Len(ls2) = N + 1 /\ \A l \in 1..N : ls2[l] = ls[l]
      /\ y = ls2[N + 1]
  BY DEF Grown
<1>2. /\ Len(V) = N + 1 /\ Len(W) = N + 2
      /\ \A l \in 0..N : V[l + 1] = ScopeIn(ls, e, x, p, l)
      /\ \A l \in 0..(N + 1) : W[l + 1] = ScopeIn(ls2, e2, x2, p2, l)
  BY <1>1, ViewIs
<1> HIDE DEF V, W, N
<1>3. \A l \in 0..N : /\ KindOf(ls2, l) = KindOf(ls, l) /\ NamesOf(ls2, l) = NamesOf(ls, l)
                      /\ ArgumentsOf(ls2, p2, l) = ArgumentsOf(ls, p, l)
                      /\ NamesOf(ls, l) \subseteq Names
  <2> SUFFICES ASSUME NEW l \in 0..N
      PROVE  /\ KindOf(ls2, l) = KindOf(ls, l) /\ NamesOf(ls2, l) = NamesOf(ls, l)
             /\ ArgumentsOf(ls2, p2, l) = ArgumentsOf(ls, p, l)
             /\ NamesOf(ls, l) \subseteq Names
    OBVIOUS
  <2>1. l # 0 => ls2[l] = ls[l]
    BY <1>1
  <2>2. KindOf(ls2, l) = KindOf(ls, l) /\ NamesOf(ls2, l) = NamesOf(ls, l)
    BY <2>1 DEF KindOf, NamesOf
  <2>3. ArgumentsOf(ls2, p2, l) = ArgumentsOf(ls, p, l)
    <3>1. CASE l = N
      <4>1. l # Len(ls2) /\ l = Len(ls) /\ ls2[l + 1] = y
        BY <1>1, <3>1 DEF N
      <4> QED
        BY <4>1 DEF ArgumentsOf, IsLid
    <3>2. CASE l # N
      <4>1. l # Len(ls2) /\ l # Len(ls) /\ ls2[l + 1] = ls[l + 1]
        BY <1>1, <3>2 DEF N
      <4> QED
        BY <4>1 DEF ArgumentsOf
    <3> QED
      BY <3>1, <3>2
  <2>4. NamesOf(ls, l) \subseteq Names
    <3>1. l # 0 => ls[l] \in Layer
      BY <1>1 DEF N
    <3> QED
      BY <3>1, SavedParts DEF NamesOf
  <2> QED
    BY <2>2, <2>3, <2>4
<1>4. ASSUME NEW l \in 0..N, NEW n \in Names
      PROVE  BindingOf(ls2, e2, x2, l, n) = BindingOf(ls, e, x, l, n)
  <2>1. l \in Nat /\ Len(ls) \in Nat /\ Len(ls2) \in Nat
    BY <1>1 DEF N
  <2>2. CASE IsFree(ls, l, n)
    <3>1. BindingOf(ls, e, x, l, n) = CurrentBinding(e, x, n)
      BY <2>2, NoneAbove
    <3>2. \A i \in (l + 1)..N : n \notin DOMAIN ls2[i].saved
      <4>1. \A i \in (l + 1)..N : i \in 1..N
        BY <1>1
      <4> QED
        BY <1>1, <2>2, <4>1 DEF IsFree, N
    <3>3. CASE n \in DOMAIN y.saved
      <4>1. IsNext(ls2, l, n, N + 1)
        <5>1. N + 1 \in (l + 1)..Len(ls2) /\ N + 1 - 1 = N
          BY <1>1
        <5> QED
          BY <1>1, <3>2, <3>3, <5>1 DEF IsNext
      <4>2. BindingOf(ls2, e2, x2, l, n) = SavedBinding(ls2[N + 1].saved, n)
        BY <2>1, <4>1, NextAbove
      <4> QED
        BY <1>1, <3>1, <3>3, <4>2 DEF IsLid
    <3>4. CASE n \notin DOMAIN y.saved
      <4>1. \A i \in (l + 1)..Len(ls2) : i \in (l + 1)..N \/ i = N + 1
        BY <1>1
      <4>2. IsFree(ls2, l, n)
        BY <1>1, <3>2, <3>4, <4>1 DEF IsFree
      <4>3. BindingOf(ls2, e2, x2, l, n) = CurrentBinding(e2, x2, n)
        BY <4>2, NoneAbove
      <4> QED
        BY <3>1, <3>4, <4>3 DEF IsLid
    <3> QED
      BY <3>3, <3>4
  <2>3. ASSUME NEW j \in 1..Len(ls), IsNext(ls, l, n, j)
        PROVE  BindingOf(ls2, e2, x2, l, n) = BindingOf(ls, e, x, l, n)
    <3>1. /\ j \in 1..N /\ j \in (l + 1)..Len(ls2) /\ ls2[j] = ls[j]
          /\ \A i \in (l + 1)..(j - 1) : i \in 1..N
      BY <1>1, <2>1, <2>3 DEF IsNext, N
    <3>2. IsNext(ls2, l, n, j)
      BY <1>1, <2>3, <3>1 DEF IsNext
    <3>3. BindingOf(ls2, e2, x2, l, n) = SavedBinding(ls2[j].saved, n)
      BY <2>1, <3>2, NextAbove
    <3>4. BindingOf(ls, e, x, l, n) = SavedBinding(ls[j].saved, n)
      BY <2>1, <2>3, NextAbove
    <3> QED
      BY <3>1, <3>3, <3>4
  <2> QED
    BY <2>1, <2>2, <2>3, NoneOrNext
<1>5. \A l \in 0..N : W[l + 1] = V[l + 1]
  <2> SUFFICES ASSUME NEW l \in 0..N PROVE W[l + 1] = V[l + 1]
    OBVIOUS
  <2>1. /\ KindOf(ls2, l) = KindOf(ls, l) /\ NamesOf(ls2, l) = NamesOf(ls, l)
        /\ ArgumentsOf(ls2, p2, l) = ArgumentsOf(ls, p, l)
    BY <1>3
  <2>2. \A n \in NamesOf(ls, l) : BindingOf(ls2, e2, x2, l, n) = BindingOf(ls, e, x, l, n)
    BY <1>3, <1>4
  <2>3. ScopeIn(ls2, e2, x2, p2, l) = ScopeIn(ls, e, x, p, l)
    BY <2>1, <2>2, SameScope
  <2>4. l \in 0..(N + 1)
    BY <1>1
  <2> QED
    BY <1>2, <2>3, <2>4
<1>6. \A k \in 1..(N + 1) : W[k] = V[k]
  <2> SUFFICES ASSUME NEW k \in 1..(N + 1) PROVE W[k] = V[k]
    OBVIOUS
  <2>1. k - 1 \in 0..N /\ k - 1 + 1 = k
    BY <1>1
  <2> QED
    BY <1>5, <2>1
<1>7. W[N + 2] = ScopeOn(y, e2, x2, p2)
  <2>1. W[N + 2] = ScopeIn(ls2, e2, x2, p2, N + 1)
    <3>1. N + 1 \in 0..(N + 1) /\ N + 1 + 1 = N + 2
      BY <1>1
    <3> QED
      BY <1>2, <3>1
  <2>2. /\ N + 1 # 0 /\ NamesOf(ls2, N + 1) = DOMAIN y.saved
        /\ KindOf(ls2, N + 1) = IF y.kind = "function" THEN "function" ELSE "prefix"
    BY <1>1 DEF NamesOf, KindOf
  <2>3. ArgumentsOf(ls2, p2, N + 1) = p2
    BY <1>1 DEF ArgumentsOf
  <2>4. \A n : BindingOf(ls2, e2, x2, N + 1, n) = CurrentBinding(e2, x2, n)
    <3>1. \A n : IsFree(ls2, N + 1, n)
      BY <1>1 DEF IsFree
    <3> QED
      BY <3>1, NoneAbove
  <2>5. VariablesOf(ls2, e2, x2, N + 1) = [n \in DOMAIN y.saved |-> CurrentBinding(e2, x2, n)]
    BY <2>2, <2>4 DEF VariablesOf
  <2> QED
    BY <2>1, <2>2, <2>3, <2>5 DEF ScopeIn, ScopeOn
<1> QED
  BY <1>2, <1>6, <1>7 DEF Topped, V, W, N

\* The first elements of a list.
IsList(n, f) == f = [i \in 1..n |-> f[i]]

LEMMA TakenFromList ==
  ASSUME NEW m \in Nat, NEW n \in Nat, NEW f, NEW g, m <= n,
         IsList(n, f), IsList(m, g), \A i \in 1..m : f[i] = g[i]
  PROVE  g = SubSeq(f, 1, m) /\ Len(f) = n /\ Len(g) = m
<1> DEFINE S == {f[i] : i \in 1..n}
           h == SubSeq(f, 1, m)
<1>1. f \in [1..n -> S] /\ g = [i \in 1..m |-> g[i]]
  BY DEF IsList
<1> HIDE DEF S
<1>2. f \in Seq(S) /\ Len(f) = n /\ Len(g) = m
  BY <1>1
<1>3. \A i \in 1..m : f[i] \in S
  BY <1>1, <1>2
<1>4. /\ h \in Seq(S) /\ Len(h) = IF 1 <= m THEN m - 1 + 1 ELSE 0
      /\ \A i \in 1..(m - 1 + 1) : h[i] = f[1 + i - 1]
  <2>1. m \in Int /\ 1 \in Int
    OBVIOUS
  <2>2. /\ SubSeq(f, 1, m) \in Seq(S)
        /\ Len(SubSeq(f, 1, m)) = IF 1 <= m THEN m - 1 + 1 ELSE 0
        /\ \A i \in 1..(m - 1 + 1) : SubSeq(f, 1, m)[i] = f[1 + i - 1]
    BY <1>3, <2>1, SubSeqProperties
  <2> QED
    BY <2>2
<1> HIDE DEF h
<1>5. Len(h) = m /\ \A i \in 1..m : h[i] = g[i]
  <2>1. m - 1 + 1 = m /\ (1 <= m \/ m = 0) /\ \A i \in 1..m : 1 + i - 1 = i
    OBVIOUS
  <2> QED
    BY <1>4, <2>1
<1>6. h = [i \in 1..m |-> h[i]]
  BY <1>4, <1>5
<1>7. g = h
  BY <1>1, <1>5, <1>6
<1> QED
  BY <1>2, <1>7 DEF h

LEMMA MappedInit == Init => Abstract!Init
<1> SUFFICES ASSUME Init PROVE Abstract!Init
  OBVIOUS
<1>1. IInv /\ layers = << >>
  BY InitInv DEF Init
<1>2. /\ layers \in Seq(Layer) /\ Len(layers) = 0 /\ env \in [Names -> AllValues]
      /\ position \in Arguments
  BY <1>1 DEF IInv, VariablesOK, LayersOK
<1>3. ScopesOf = View(layers, env, exported, position)
  BY <1>2, ScopesAreView
<1> DEFINE V == View(layers, env, exported, position)
           vs == [n \in Names |-> CurrentBinding(env, exported, n)]
<1>4. /\ V = [k \in 1..(Len(layers) + 1) |-> V[k]]
      /\ \A l \in 0..Len(layers) : V[l + 1] = ScopeIn(layers, env, exported, position, l)
  <2>1. layers \in Seq(Layer)
    BY <1>2
  <2> QED
    BY <2>1, ViewIs
<1>5. VariablesOf(layers, env, exported, 0) = vs
  <2>1. \A n : IsFree(layers, 0, n)
    BY <1>2 DEF IsFree
  <2>2. \A n : BindingOf(layers, env, exported, 0, n) = CurrentBinding(env, exported, n)
    BY <2>1, NoneAbove
  <2> QED
    BY <2>2 DEF VariablesOf, NamesOf
<1>6. ScopeIn(layers, env, exported, position, 0) =
        [kind |-> "global", vars |-> vs, args |-> position]
  BY <1>2, <1>5 DEF ScopeIn, KindOf, ArgumentsOf
<1>7. vs \in [Names -> [value : AllValues, exported : BOOLEAN]]
  <2>1. \A n \in Names : CurrentBinding(env, exported, n) \in [value : AllValues, exported : BOOLEAN]
    BY <1>2 DEF CurrentBinding
  <2> QED
    BY <2>1
<1> HIDE DEF vs, V
<1>8. V = <<V[1]>> /\ V[1] = ScopeIn(layers, env, exported, position, 0)
  <2>1. 0 \in 0..0 /\ 0 + 1 = 1
    OBVIOUS
  <2>2. V[1] = ScopeIn(layers, env, exported, position, 0)
    BY <1>2, <1>4, <2>1
  <2>3. V = [k \in 1..1 |-> V[k]]
    BY <1>2, <1>4, <2>1
  <2> QED
    BY <2>2, <2>3
<1> QED
  BY <1>2, <1>3, <1>6, <1>7, <1>8 DEF Abstract!Init, V

\* Restoring, as a lid taken off.
LEMMA RestoredIs ==
  ASSUME NEW e, NEW x, NEW saved, NEW n \in Names, DOMAIN saved \subseteq Names,
         \A m \in DOMAIN saved : saved[m] \in Saved
  PROVE  /\ n \in DOMAIN saved =>
              CurrentBinding(RestoredEnv(e, saved), RestoredExported(x, saved), n)
                = SavedBinding(saved, n)
         /\ n \notin DOMAIN saved =>
              CurrentBinding(RestoredEnv(e, saved), RestoredExported(x, saved), n)
                = CurrentBinding(e, x, n)
<1>1. CASE n \in DOMAIN saved
  <2>1. RestoredEnv(e, saved)[n] = saved[n].value
    BY <1>1 DEF RestoredEnv
  <2>2. saved[n].exported \in BOOLEAN
    BY <1>1 DEF Saved
  <2>3. n \in RestoredExported(x, saved) <=> saved[n].exported
    BY <1>1 DEF RestoredExported
  <2>4. (n \in RestoredExported(x, saved)) = saved[n].exported
    BY <2>2, <2>3
  <2> QED
    BY <1>1, <2>1, <2>4 DEF CurrentBinding, SavedBinding
<1>2. CASE n \notin DOMAIN saved
  <2>1. RestoredEnv(e, saved)[n] = e[n]
    BY <1>2 DEF RestoredEnv
  <2>2. n \in RestoredExported(x, saved) <=> n \in x
    BY <1>2 DEF RestoredExported
  <2> QED
    BY <1>2, <2>1, <2>2 DEF CurrentBinding
<1> QED
  BY <1>1, <1>2

LEMMA Uncovered ==
  ASSUME NEW y \in Layer, NEW e, NEW x, NEW e2, NEW x2, NEW p,
         e2 = RestoredEnv(e, y.saved), x2 = RestoredExported(x, y.saved), p = y.previous
  PROVE  IsLid(y, e2, x2, p, e, x)
<1>1. DOMAIN y.saved \subseteq Names /\ \A m \in DOMAIN y.saved : y.saved[m] \in Saved
  BY SavedParts
<1>2. \A n \in Names :
        /\ n \in DOMAIN y.saved => CurrentBinding(e2, x2, n) = SavedBinding(y.saved, n)
        /\ n \notin DOMAIN y.saved => CurrentBinding(e2, x2, n) = CurrentBinding(e, x, n)
  BY <1>1, RestoredIs
<1> QED
  BY <1>1, <1>2 DEF IsLid

\* One scope more: a sourced file.
WithScope(V, W, scope) ==
  /\ Len(W) = Len(V) + 1 /\ Len(V) \in Nat \ {0}
  /\ Abstract!Front(W) = V /\ Abstract!Last(W) = scope

LEMMA OneScope ==
  ASSUME NEW ls \in Seq(Layer), NEW ls2 \in Seq(Layer), Grown(ls, ls2),
         NEW e, NEW x, NEW p, NEW e2, NEW x2, NEW p2,
         NEW y, y = ls2[Len(ls2)], IsLid(y, e, x, p, e2, x2)
  PROVE  WithScope(View(ls, e, x, p), View(ls2, e2, x2, p2), ScopeOn(y, e2, x2, p2))
<1> DEFINE V == View(ls, e, x, p)
           W == View(ls2, e2, x2, p2)
           N == Len(ls)
<1>1. /\ Len(V) = N + 1 /\ Len(W) = N + 2
      /\ \A k \in 1..(N + 1) : W[k] = V[k]
      /\ W[N + 2] = ScopeOn(y, e2, x2, p2)
  <2>1. Topped(N, V, W, ScopeOn(y, e2, x2, p2))
    BY OneMore
  <2> QED
    BY <2>1 DEF Topped
<1>2. N \in Nat /\ Len(ls2) = N + 1
  BY DEF Grown
<1>3. IsList(N + 1, V) /\ IsList(N + 2, W)
  <2>1. IsList(Len(ls) + 1, V) /\ IsList(Len(ls2) + 1, W)
    BY ViewIs DEF IsList
  <2>2. Len(ls2) + 1 = N + 2
    BY <1>2
  <2> QED
    BY <2>1, <2>2
<1> HIDE DEF V, W, N
<1>4. V = SubSeq(W, 1, N + 1)
  <2>1. N + 1 \in Nat /\ N + 2 \in Nat /\ N + 1 <= N + 2
    BY <1>2
  <2> QED
    BY <1>1, <1>3, <2>1, TakenFromList
<1>5. Abstract!Front(W) = V
  <2>1. Len(W) - 1 = N + 1
    BY <1>1, <1>2
  <2> QED
    BY <1>4, <2>1 DEF Abstract!Front
<1>6. Abstract!Last(W) = W[N + 2]
  BY <1>1 DEF Abstract!Last
<1>7. Len(W) = Len(V) + 1 /\ Len(V) \in Nat \ {0}
  BY <1>1, <1>2
<1> QED
  BY <1>1, <1>5, <1>6, <1>7 DEF WithScope, V, W

\* Two scopes more: the prefix assignments and the locals of a call.
WithScopes(V, W, first, second) ==
  /\ Len(W) = Len(V) + 2 /\ Len(V) \in Nat \ {0}
  /\ SubSeq(W, 1, Len(V)) = V
  /\ W[Len(V) + 1] = first /\ Abstract!Last(W) = second

LEMMA TwoScopes ==
  ASSUME NEW ls \in Seq(Layer), NEW ls1 \in Seq(Layer), NEW ls2 \in Seq(Layer),
         Grown(ls, ls1), Grown(ls1, ls2),
         NEW e, NEW x, NEW p, NEW e1, NEW x1, NEW p1, NEW e2, NEW x2, NEW p2,
         NEW y, y = ls1[Len(ls1)], IsLid(y, e, x, p, e1, x1),
         NEW z, z = ls2[Len(ls2)], IsLid(z, e1, x1, p1, e2, x2)
  PROVE  WithScopes(View(ls, e, x, p), View(ls2, e2, x2, p2),
                    ScopeOn(y, e1, x1, p1), ScopeOn(z, e2, x2, p2))
<1> DEFINE V == View(ls, e, x, p)
           M == View(ls1, e1, x1, p1)
           W == View(ls2, e2, x2, p2)
           N == Len(ls)
<1>1. /\ Len(V) = N + 1 /\ \A k \in 1..(N + 1) : M[k] = V[k]
      /\ M[N + 2] = ScopeOn(y, e1, x1, p1)
  <2>1. Topped(N, V, M, ScopeOn(y, e1, x1, p1))
    BY OneMore
  <2> QED
    BY <2>1 DEF Topped
<1>2. N \in Nat /\ Len(ls1) = N + 1 /\ Len(ls2) = N + 2
  BY DEF Grown
<1>3. /\ Len(W) = N + 1 + 2 /\ \A k \in 1..(N + 1 + 1) : W[k] = M[k]
      /\ W[N + 1 + 2] = ScopeOn(z, e2, x2, p2)
  <2>1. Topped(Len(ls1), M, W, ScopeOn(z, e2, x2, p2))
    BY OneMore
  <2> HIDE DEF W, M, N
  <2> QED
    BY <1>2, <2>1 DEF Topped
<1>4. IsList(N + 1, V) /\ IsList(N + 3, W)
  <2>1. IsList(Len(ls) + 1, V) /\ IsList(Len(ls2) + 1, W)
    BY ViewIs DEF IsList
  <2>2. Len(ls2) + 1 = N + 3
    BY <1>2
  <2> QED
    BY <2>1, <2>2
<1> HIDE DEF V, M, W, N
<1>5. \A k \in 1..(N + 1) : W[k] = V[k]
  <2>1. \A k \in 1..(N + 1) : k \in 1..(N + 1 + 1)
    BY <1>2
  <2> QED
    BY <1>1, <1>3, <2>1
<1>6. V = SubSeq(W, 1, N + 1)
  <2>1. N + 1 \in Nat /\ N + 3 \in Nat /\ N + 1 <= N + 3
    BY <1>2
  <2> QED
    BY <1>4, <1>5, <2>1, TakenFromList
<1>7. W[N + 2] = ScopeOn(y, e1, x1, p1)
  <2>1. N + 2 \in 1..(N + 1 + 1)
    BY <1>2
  <2> QED
    BY <1>1, <1>3, <2>1
<1>8. Abstract!Last(W) = ScopeOn(z, e2, x2, p2)
  <2>1. Abstract!Last(W) = W[Len(W)]
    BY DEF Abstract!Last
  <2> QED
    BY <1>3, <2>1
<1>9. /\ Len(W) = Len(V) + 2 /\ Len(V) \in Nat \ {0}
      /\ Len(V) = N + 1 /\ Len(V) + 1 = N + 2
  BY <1>1, <1>2, <1>3
<1> QED
  BY <1>6, <1>7, <1>8, <1>9 DEF WithScopes, V, W

\* The end of a sourced file.
LEMMA EndSourceMapped ==
  ASSUME IInv, EndSource
  PROVE  Abstract!Leave(View(layers, env, exported, position),
                        View(layers', env', exported', position'))
<1> DEFINE W == View(layers, env, exported, position)
           V == View(layers', env', exported', position')
<1>1. PICK y : y = Last(layers)
  OBVIOUS
<1>2. /\ layers \in Seq(Layer) /\ layers # << >> /\ y.kind = "source" /\ layers' = Front(layers)
      /\ env' = RestoredEnv(env, y.saved) /\ exported' = RestoredExported(exported, y.saved)
      /\ position' = y.previous
  BY <1>1 DEF EndSource, IInv, LayersOK
<1>3. layers' \in Seq(Layer) /\ Grown(layers', layers) /\ y \in Layer /\ y = layers[Len(layers)]
  BY <1>1, <1>2, Popped
<1>4. IsLid(y, env', exported', position', env, exported)
  BY <1>2, <1>3, Uncovered
<1>5. y.kind # "function"
  BY <1>2
<1>6. /\ Len(W) = Len(V) + 1 /\ Len(V) \in Nat \ {0}
      /\ Abstract!Front(W) = V /\ Abstract!Last(W) = ScopeOn(y, env, exported, position)
  <2>1. WithScope(V, W, ScopeOn(y, env, exported, position))
    BY <1>2, <1>3, <1>4, OneScope
  <2> QED
    BY <2>1 DEF WithScope
<1> HIDE DEF V, W
<1>7. Abstract!Last(W).kind # "function" /\ Len(W) > 1
  BY <1>5, <1>6 DEF ScopeOn
<1> QED
  BY <1>6, <1>7 DEF Abstract!Leave, V, W

\* Saving, as a lid put on.
LEMMA Covered ==
  ASSUME VariablesOK, NEW kind \in LayerKind, NEW names \in SUBSET Names, NEW y,
         y = Pushed(kind, names), NEW e, NEW x,
         \A n \in Names \ names : e[n] = env[n] /\ (n \in x <=> n \in exported)
  PROVE  IsLid(y, env, exported, position, e, x)
<1>1. y.previous = position /\ y.saved = [n \in names |-> Current(n)]
  BY PushedIsLayer
<1>2. \A n \in names : SavedBinding(y.saved, n) = CurrentBinding(env, exported, n)
  BY <1>1 DEF SavedBinding, CurrentBinding, Current
<1>3. \A n \in Names \ names : CurrentBinding(e, x, n) = CurrentBinding(env, exported, n)
  <2> SUFFICES ASSUME NEW n \in Names \ names
      PROVE  CurrentBinding(e, x, n) = CurrentBinding(env, exported, n)
    OBVIOUS
  <2>1. e[n] = env[n] /\ (n \in x) = (n \in exported)
    OBVIOUS
  <2> QED
    BY <2>1 DEF CurrentBinding
<1>4. DOMAIN y.saved = names
  BY <1>1
<1> QED
  BY <1>1, <1>2, <1>3, <1>4 DEF IsLid

LEMMA OverlayKeepsOthers ==
  ASSUME NEW prefix \in PrefixAssignments, Overlay(prefix)
  PROVE  /\ DOMAIN prefix \in SUBSET Names
         /\ \A n \in Names \ DOMAIN prefix :
              env'[n] = env[n] /\ (n \in exported' <=> n \in exported)
  BY PartialIs DEF PrefixAssignments, Overlay, OverlaidEnv, OverlaidExported

LEMMA VariablesOfTop ==
  ASSUME NEW y \in Layer, NEW e \in [Names -> AllValues], NEW x, NEW p
  PROVE  ScopeOn(y, e, x, p).vars \in Abstract!Variables
<1>1. DOMAIN y.saved \in SUBSET Names
  BY SavedParts
<1>2. \A n \in Names : CurrentBinding(e, x, n) \in [value : AllValues, exported : BOOLEAN]
  BY DEF CurrentBinding
<1>3. [n \in DOMAIN y.saved |-> CurrentBinding(e, x, n)]
        \in [DOMAIN y.saved -> [value : AllValues, exported : BOOLEAN]]
  BY <1>1, <1>2
<1> QED
  BY <1>1, <1>3 DEF ScopeOn, Abstract!Variables

LEMMA ArgumentsOfTop ==
  ASSUME NEW ls \in Seq(Layer), NEW e, NEW x, NEW p
  PROVE  Abstract!Last(View(ls, e, x, p)).args = p
<1> DEFINE V == View(ls, e, x, p)
<1>1. /\ Len(ls) \in Nat /\ Len(V) = Len(ls) + 1
      /\ \A l \in 0..Len(ls) : V[l + 1] = ScopeIn(ls, e, x, p, l)
  BY ViewIs
<1> HIDE DEF V
<1>2. V[Len(V)] = ScopeIn(ls, e, x, p, Len(ls))
  BY <1>1
<1>3. ScopeIn(ls, e, x, p, Len(ls)).args = p
  BY DEF ScopeIn, ArgumentsOf
<1>4. Abstract!Last(V) = V[Len(V)]
  BY DEF Abstract!Last
<1> QED
  BY <1>2, <1>3, <1>4 DEF V

LEMMA SourceMapped ==
  ASSUME IInv, VariablesOK', NEW args \in Arguments, NEW prefix \in PrefixAssignments,
         Source(prefix, args)
  PROVE  Abstract!EnterSource(View(layers, env, exported, position),
                              View(layers', env', exported', position'))
<1> DEFINE V == View(layers, env, exported, position)
           W == View(layers', env', exported', position')
<1>1. PICK y : y = Pushed("source", DOMAIN prefix)
  OBVIOUS
<1>2. /\ layers \in Seq(Layer) /\ VariablesOK /\ Overlay(prefix)
      /\ layers' = Append(layers, y)
  BY <1>1 DEF IInv, LayersOK, Source
<1>3. DOMAIN prefix \in SUBSET Names /\ "source" \in LayerKind
  BY <1>2, OverlayKeepsOthers DEF LayerKind
<1>4. y \in Layer /\ y.kind = "source"
  BY <1>1, <1>2, <1>3, PushedIsLayer
<1>5. /\ layers' \in Seq(Layer) /\ Grown(layers, layers') /\ y = layers'[Len(layers')]
  <2>1. /\ layers' \in Seq(Layer) /\ Grown(layers, layers') /\ layers'[Len(layers) + 1] = y
    BY <1>2, <1>4, Appended
  <2> QED
    BY <2>1 DEF Grown
<1>6. IsLid(y, env, exported, position, env', exported')
  <2>1. \A n \in Names \ DOMAIN prefix :
          env'[n] = env[n] /\ (n \in exported' <=> n \in exported)
    BY <1>2, OverlayKeepsOthers
  <2> QED
    BY <1>1, <1>2, <1>3, <2>1, Covered
<1>7. /\ Len(W) = Len(V) + 1 /\ Abstract!Front(W) = V
      /\ Abstract!Last(W) = ScopeOn(y, env', exported', position')
  <2>1. WithScope(V, W, ScopeOn(y, env', exported', position'))
    BY <1>2, <1>5, <1>6, OneScope
  <2> QED
    BY <2>1 DEF WithScope
<1>8. ScopeOn(y, env', exported', position')
        \in [kind : {"prefix"}, vars : Abstract!Variables, args : Arguments]
  <2>1. env' \in [Names -> AllValues] /\ position' \in Arguments
    BY DEF VariablesOK
  <2>2. ScopeOn(y, env', exported', position').vars \in Abstract!Variables
    BY <1>4, <2>1, VariablesOfTop
  <2> QED
    BY <1>4, <2>1, <2>2 DEF ScopeOn
<1> HIDE DEF V, W
<1> QED
  BY <1>7, <1>8 DEF Abstract!EnterSource, V, W

LEMMA CallMapped ==
  ASSUME IInv, VariablesOK', NEW args \in Arguments, NEW prefix \in PrefixAssignments,
         CallFunction(prefix, args)
  PROVE  Abstract!EnterFunction(View(layers, env, exported, position),
                                View(layers', env', exported', position'))
<1> DEFINE V == View(layers, env, exported, position)
           W == View(layers', env', exported', position')
<1>1. PICK y : y = Pushed("prefix", DOMAIN prefix)
  OBVIOUS
<1>2. PICK z : z = Pushed("function", {})
  OBVIOUS
<1>3. /\ layers \in Seq(Layer) /\ VariablesOK /\ Overlay(prefix)
      /\ layers' = layers \o <<y, z>> /\ position' = args
  BY <1>1, <1>2 DEF IInv, LayersOK, CallFunction
<1>4. DOMAIN prefix \in SUBSET Names /\ "prefix" \in LayerKind /\ "function" \in LayerKind
  BY <1>3, OverlayKeepsOthers DEF LayerKind
<1>5. /\ y \in Layer /\ y.kind = "prefix"
      /\ z \in Layer /\ z.kind = "function" /\ z.previous = position
      /\ z.saved = [n \in {} |-> Current(n)]
  BY <1>1, <1>2, <1>3, <1>4, PushedIsLayer
<1>6. PICK one : one = Append(layers, y)
  OBVIOUS
<1>7. layers' = Append(one, z)
  BY <1>3, <1>5, <1>6
<1>8. one \in Seq(Layer) /\ Grown(layers, one) /\ y = one[Len(one)]
  <2>1. one \in Seq(Layer) /\ Grown(layers, one) /\ one[Len(layers) + 1] = y
    BY <1>3, <1>5, <1>6, Appended
  <2> QED
    BY <2>1 DEF Grown
<1>9. layers' \in Seq(Layer) /\ Grown(one, layers') /\ z = layers'[Len(layers')]
  <2>1. layers' \in Seq(Layer) /\ Grown(one, layers') /\ layers'[Len(one) + 1] = z
    BY <1>5, <1>7, <1>8, Appended
  <2> QED
    BY <2>1 DEF Grown
<1>10. IsLid(y, env, exported, position, env', exported')
  <2>1. \A n \in Names \ DOMAIN prefix :
          env'[n] = env[n] /\ (n \in exported' <=> n \in exported)
    BY <1>3, OverlayKeepsOthers
  <2> QED
    BY <1>1, <1>3, <1>4, <2>1, Covered
<1>11. IsLid(z, env', exported', position, env', exported')
  BY <1>5 DEF IsLid
<1>12. /\ Len(W) = Len(V) + 2 /\ SubSeq(W, 1, Len(V)) = V
       /\ W[Len(V) + 1] = ScopeOn(y, env', exported', position)
       /\ Abstract!Last(W) = ScopeOn(z, env', exported', position')
  <2>1. WithScopes(V, W, ScopeOn(y, env', exported', position),
                         ScopeOn(z, env', exported', position'))
    BY <1>3, <1>8, <1>9, <1>10, <1>11, TwoScopes
  <2> QED
    BY <2>1 DEF WithScopes
<1>13. ScopeOn(y, env', exported', position)
         \in [kind : {"prefix"}, vars : Abstract!Variables, args : {Abstract!Last(V).args}]
  <2>1. env' \in [Names -> AllValues]
    BY DEF VariablesOK
  <2>2. ScopeOn(y, env', exported', position).vars \in Abstract!Variables
    BY <1>5, <2>1, VariablesOfTop
  <2>3. Abstract!Last(V).args = position
    BY <1>3, ArgumentsOfTop
  <2> HIDE DEF V
  <2> QED
    BY <1>5, <2>2, <2>3 DEF ScopeOn
<1>14. ScopeOn(z, env', exported', position')
         \in [kind : {"function"}, vars : {<< >>}, args : Arguments]
  <2>1. [n \in DOMAIN z.saved |-> CurrentBinding(env', exported', n)] = << >>
    BY <1>5
  <2> QED
    BY <1>3, <1>5, <2>1 DEF ScopeOn
<1> HIDE DEF V, W
<1> QED
  BY <1>12, <1>13, <1>14 DEF Abstract!EnterFunction, V, W

LEMMA ReturnMapped ==
  ASSUME IInv, ReturnFunction
  PROVE  Abstract!Leave(View(layers, env, exported, position),
                        View(layers', env', exported', position'))
<1> DEFINE W == View(layers, env, exported, position)
           V == View(layers', env', exported', position')
<1>1. PICK one : one = Front(layers)
  OBVIOUS
<1>2. PICK z : z = Last(layers)
  OBVIOUS
<1>3. PICK y : y = Last(one)
  OBVIOUS
<1>4. PICK e : e = RestoredEnv(env, z.saved)
  OBVIOUS
<1>5. PICK x : x = RestoredExported(exported, z.saved)
  OBVIOUS
<1>6. /\ layers \in Seq(Layer) /\ layers # << >> /\ z.kind = "function" /\ layers' = Front(one)
      /\ env' = RestoredEnv(e, y.saved) /\ exported' = RestoredExported(x, y.saved)
      /\ position' = z.previous /\ Paired(layers)
  BY <1>1, <1>2, <1>3, <1>4, <1>5 DEF ReturnFunction, IInv, LayersOK
<1>7. one \in Seq(Layer) /\ Grown(one, layers) /\ z \in Layer /\ z = layers[Len(layers)]
  BY <1>1, <1>2, <1>6, Popped
<1>8. /\ Len(layers) > 1 /\ Len(layers) \in Nat
      /\ layers[Len(layers) - 1].kind = "prefix"
      /\ layers[Len(layers) - 1].previous = z.previous
  <2>1. Len(layers) \in 1..Len(layers)
    BY <1>6
  <2>2. Len(layers) > 1 /\ layers[Len(layers) - 1].kind = "prefix"
    BY <1>6, <1>7, <2>1 DEF Paired
  <2>3. Len(layers) - 1 \in 1..Len(layers) /\ Len(layers) - 1 + 1 = Len(layers)
    BY <2>1, <2>2
  <2>4. layers[Len(layers) - 1 + 1].previous = layers[Len(layers) - 1].previous
    BY <1>6, <2>2, <2>3 DEF Paired
  <2> QED
    BY <1>7, <2>1, <2>2, <2>3, <2>4
<1>9. Len(one) = Len(layers) - 1 /\ one # << >> /\ one[Len(one)] = layers[Len(layers) - 1]
  BY <1>7, <1>8 DEF Grown
<1>10. /\ layers' \in Seq(Layer) /\ Grown(layers', one) /\ y \in Layer /\ y = one[Len(one)]
  BY <1>3, <1>6, <1>7, <1>9, Popped
<1>11. y.previous = z.previous
  BY <1>8, <1>9, <1>10
<1>12. IsLid(z, e, x, position', env, exported)
  BY <1>4, <1>5, <1>6, <1>7, Uncovered
<1>13. IsLid(y, env', exported', position', e, x)
  BY <1>6, <1>10, <1>11, Uncovered
<1>14. /\ Len(W) = Len(V) + 2 /\ Len(V) \in Nat \ {0} /\ SubSeq(W, 1, Len(V)) = V
       /\ Abstract!Last(W) = ScopeOn(z, env, exported, position)
  <2>1. WithScopes(V, W, ScopeOn(y, e, x, position'), ScopeOn(z, env, exported, position))
    BY <1>6, <1>7, <1>10, <1>12, <1>13, TwoScopes
  <2> QED
    BY <2>1 DEF WithScopes
<1> HIDE DEF V, W
<1>15. Abstract!Last(W).kind = "function"
  BY <1>6, <1>14 DEF ScopeOn
<1>16. Len(W) > 1 /\ V = SubSeq(W, 1, Len(W) - 2)
  <2>1. Len(W) - 2 = Len(V) /\ Len(W) > 1
    BY <1>14
  <2> QED
    BY <1>14, <2>1
<1> QED
  BY <1>15, <1>16 DEF Abstract!Leave, V, W

\* What changes the current value of one name, and no layer, assigns to the
\* innermost scope that binds it.
LEMMA AssignMapped ==
  ASSUME IInv, VariablesOK', NEW n \in Names, layers' = layers, position' = position,
         ChangesOnly(n)
  PROVE  Abstract!Assign(View(layers, env, exported, position),
                         View(layers', env', exported', position'), n)
<1>1. layers \in Seq(Layer)
  BY DEF IInv, LayersOK
<1>2. CurrentBinding(env', exported', n) \in [value : AllValues, exported : BOOLEAN]
  BY DEF VariablesOK, CurrentBinding
<1>3. Abstract!Assign(View(layers, env, exported, position),
                      View(layers, env', exported', position), n)
  BY <1>1, <1>2, CurrentChanges DEF ChangesOnly
<1> QED
  BY <1>3

\* local n under prefix assignments: an assignment when the function's frame
\* remembers n already; a new binding in the function's scope when nothing has a
\* temporary binding of n above the frame; and LocalUnderPrefix otherwise.
LEMMA LocalMapped ==
  ASSUME IInv, VariablesOK', NEW prefix \in PrefixAssignments,
         NEW n \in Names, NEW v \in Values, Local(prefix, n, v),
         NEW V, V = View(layers, env, exported, position), ScopesOf = V,
         NEW W, W = View(layers', env', exported', position'), ScopesOf' = W
  PROVE  \/ Abstract!Assign(V, W, n)
         \/ Abstract!Local(V, W, n)
         \/ LocalUnderPrefix(prefix, n, v)
<1>1. PICK f : f = InnermostFrame
  OBVIOUS
<1>2. /\ LayersOK(layers') /\ f \in 1..Len(layers) /\ layers[f].kind = "function"
      /\ \A j \in (f + 1)..Len(layers) : layers[j].kind # "function"
      /\ layers' = [layers EXCEPT ![f].saved = Remembered(layers[f].saved, n, Found(prefix, n))]
  BY <1>1, LocalLayers
<1>3. /\ layers \in Seq(Layer) /\ VariablesOK /\ env \in [Names -> AllValues]
      /\ position' = position /\ ChangesOnly(n)
      /\ n \in DOMAIN prefix => env' = env /\ exported' = exported
  BY AssignChanges DEF IInv, LayersOK, VariablesOK
<1>4. CASE n \in DOMAIN layers[f].saved
  <2>1. Remembered(layers[f].saved, n, Found(prefix, n)) = layers[f].saved
    BY <1>4 DEF Remembered
  <2>2. layers[f] \in Layer /\ layers = [layers EXCEPT ![f] = layers[f]]
    BY <1>2, <1>3
  <2>3. [layers[f] EXCEPT !.saved = layers[f].saved] = layers[f]
    BY <2>2 DEF Layer
  <2>4. layers' = layers
    BY <1>2, <1>3, <2>1, <2>2, <2>3
  <2> QED
    BY <1>3, <2>4, AssignMapped
<1>5. CASE n \notin DOMAIN layers[f].saved
  <2>1. PICK s : s = Remembered(layers[f].saved, n, Found(prefix, n))
    OBVIOUS
  <2>2. s = [m \in DOMAIN layers[f].saved \cup {n} |->
               IF m = n THEN Found(prefix, n) ELSE layers[f].saved[m]]
    BY <1>5, <2>1 DEF Remembered
  <2>3. layers[f] \in Layer /\ Len(layers) \in Nat
    BY <1>2, <1>3
  <2>4. /\ layers'[f].kind = "function" /\ layers'[f].previous = layers[f].previous
        /\ layers'[f].saved = s
        /\ Len(layers') = Len(layers)
        /\ \A l \in 1..Len(layers) : l # f => layers'[l] = layers[l]
    BY <1>2, <1>3, <2>1, <2>3 DEF Layer
  <2>5. /\ DOMAIN layers'[f].saved = DOMAIN layers[f].saved \cup {n}
        /\ \A m \in DOMAIN layers[f].saved : layers'[f].saved[m] = layers[f].saved[m]
        /\ layers'[f].saved[n] = Found(prefix, n)
    BY <1>5, <2>2, <2>4
  <2>6. FirstLocal(layers, layers', f, n)
    BY <1>2, <1>5, <2>4, <2>5 DEF FirstLocal
  <2>7. layers' \in Seq(Layer)
    BY <1>2 DEF LayersOK
  <2>8. View(layers', env, exported, position)
          = Abstract!Displaced(V, n, SavedBinding(layers'[f].saved, n))
    <3>1. PICK b : b = SavedBinding(layers'[f].saved, n)
      OBVIOUS
    <3>2. PICK ls2 : ls2 = layers'
      OBVIOUS
    <3>3. ls2 \in Seq(Layer) /\ FirstLocal(layers, ls2, f, n) /\ SavedBinding(ls2[f].saved, n) = b
      BY <2>6, <2>7, <3>1, <3>2
    <3>4. View(ls2, env, exported, position)
            = Abstract!Displaced(View(layers, env, exported, position), n, b)
      BY <1>2, <1>3, <3>3, LocalDisplaces
    <3> QED
      BY <3>1, <3>2, <3>4
  <2>9. CASE n \in DOMAIN prefix
    <3>1. SavedBinding(layers'[f].saved, n) = [value |-> prefix[n], exported |-> TRUE]
      BY <2>5, <2>9 DEF SavedBinding, Found
    <3>2. View(layers', env, exported, position)
            = Abstract!Displaced(V, n, [value |-> prefix[n], exported |-> TRUE])
      BY <2>8, <3>1
    <3>3. W = View(layers', env, exported, position)
      BY <1>3, <2>9
    <3>4. ScopesOf' = Abstract!Displaced(ScopesOf, n, [value |-> prefix[n], exported |-> TRUE])
      BY <3>2, <3>3
    <3>5. n \notin DOMAIN layers[InnermostFrame].saved
      BY <1>1, <1>5
    <3> QED
      BY <2>9, <3>4, <3>5 DEF LocalUnderPrefix
  <2>10. CASE n \notin DOMAIN prefix
    <3>1. SavedBinding(layers'[f].saved, n) = CurrentBinding(env, exported, n)
      BY <2>5, <2>10 DEF SavedBinding, CurrentBinding, Current, Found
    <3>2. CurrentBinding(env', exported', n) \in [value : AllValues, exported : BOOLEAN]
      BY DEF VariablesOK, CurrentBinding
    <3>3. \A m \in Names \ {n} : env'[m] = env[m] /\ (m \in exported' <=> m \in exported)
      BY <1>3 DEF ChangesOnly
    <3>4. CASE \A l \in (f + 1)..Len(layers) : n \notin DOMAIN layers[l].saved
      <4>1. Abstract!Local(View(layers, env, exported, position),
                           View(layers', env', exported', position), n)
        BY <1>2, <1>3, <2>6, <2>7, <3>1, <3>2, <3>3, <3>4, LocalOpens
      <4> QED
        BY <1>3, <4>1
    <3>5. CASE \E l \in (f + 1)..Len(layers) : n \in DOMAIN layers[l].saved
      <4>1. BindingIn(Len(layers), n) = CurrentBinding(env, exported, n)
        <5>1. IsFree(layers, Len(layers), n)
          BY <2>3 DEF IsFree
        <5> QED
          BY <5>1, BindingIs, NoneAbove
      <4>2. View(layers', env, exported, position)
              = Abstract!Displaced(V, n, BindingIn(Len(layers), n))
        BY <2>8, <3>1, <4>1
      <4>3. Abstract!Assign(View(layers', env, exported, position), W, n)
        <5>1. Abstract!Assign(View(layers', env, exported, position),
                              View(layers', env', exported', position), n)
          BY <2>7, <3>2, <3>3, CurrentChanges
        <5> QED
          BY <1>3, <5>1
      <4>4. Abstract!Assign(Abstract!Displaced(ScopesOf, n, BindingIn(Len(layers), n)),
                            ScopesOf', n)
        BY <4>2, <4>3
      <4>5. /\ n \notin DOMAIN layers[InnermostFrame].saved
            /\ \E l \in (InnermostFrame + 1)..Len(layers) : n \in DOMAIN layers[l].saved
        BY <1>1, <1>5, <3>5
      <4> QED
        BY <2>10, <4>4, <4>5 DEF LocalUnderPrefix
    <3> QED
      BY <3>4, <3>5
  <2> QED
    BY <2>9, <2>10
<1> QED
  BY <1>4, <1>5

LEMMA ScopesAreViewNext ==
  (layers \in Seq(Layer) => ScopesOf = View(layers, env, exported, position))'
<1>1. layers \in Seq(Layer) => ScopesOf = View(layers, env, exported, position)
  BY ScopesAreView
<1> QED
  BY <1>1, PTL

NamesChange ==
  \E prefix \in PrefixAssignments : \E n \in Names :
    \/ \E v \in Values : Assign(prefix, n, v) \/ Local(prefix, n, v)
    \/ UnsetName(prefix, n) \/ Export(prefix, n) \/ Readonly(prefix, n)

ArgumentsOrEntry ==
  \E args \in Arguments :
    \/ SetPosition(args)
    \/ \E prefix \in PrefixAssignments : CallFunction(prefix, args) \/ Source(prefix, args)

LEMMA Steps == Next => NamesChange \/ ArgumentsOrEntry \/ ReturnFunction \/ EndSource
  BY DEF Next, NamesChange, ArgumentsOrEntry

UnderPrefix ==
  \E prefix \in PrefixAssignments, n \in Names, v \in Values : LocalUnderPrefix(prefix, n, v)

LEMMA NextMapped == IInv /\ [Next]_vars => [Abstract!Next \/ UnderPrefix]_ScopesOf
<1> SUFFICES ASSUME IInv, [Next]_vars PROVE [Abstract!Next \/ UnderPrefix]_ScopesOf
  OBVIOUS
<1> DEFINE V == View(layers, env, exported, position)
           W == View(layers', env', exported', position')
<1>1. IInv' /\ VariablesOK' /\ VariablesOK /\ layers \in Seq(Layer) /\ layers' \in Seq(Layer)
  BY NextInv DEF IInv, LayersOK
<1>2. ScopesOf = V /\ ScopesOf' = W
  BY <1>1, ScopesAreView, ScopesAreViewNext
<1>3. CASE UNCHANGED vars
  <2>1. V = W
    BY <1>3 DEF vars, attributes, depths
  <2> QED
    BY <1>2, <2>1
<1>4. ASSUME NEW prefix \in PrefixAssignments, NEW n \in Names, NEW v \in Values,
             Assign(prefix, n, v)
      PROVE  Abstract!Assign(V, W, n)
  <2>1. layers' = layers /\ position' = position /\ ChangesOnly(n)
    BY <1>1, <1>4, AssignChanges DEF Assign
  <2> QED
    BY <1>1, <2>1, AssignMapped
<1>5. ASSUME NEW prefix \in PrefixAssignments, NEW n \in Names,
             UnsetName(prefix, n) \/ Export(prefix, n)
      PROVE  Abstract!Assign(V, W, n)
  <2>1. layers' = layers /\ position' = position /\ ChangesOnly(n)
    BY <1>1, <1>5, UnsetChanges DEF UnsetName, Export
  <2> QED
    BY <1>1, <2>1, AssignMapped
<1>6. ASSUME NEW prefix \in PrefixAssignments, NEW n \in Names, Readonly(prefix, n)
      PROVE  V = W
  <2>1. layers' = layers /\ env' = env /\ exported' = exported /\ position' = position
    BY <1>1, <1>6, ReadonlyChanges DEF Readonly
  <2> QED
    BY <2>1
<1>7. ASSUME NEW args \in Arguments, SetPosition(args) PROVE Abstract!SetArguments(V, W)
  <2>1. layers' = layers /\ env' = env /\ exported' = exported /\ position' = args
    BY <1>7 DEF SetPosition, attributes
  <2>2. Abstract!SetArguments(V, View(layers, env, exported, args))
    BY <1>1, ArgumentsChange
  <2> QED
    BY <2>1, <2>2
<1>8. ASSUME NEW prefix \in PrefixAssignments, NEW n \in Names, NEW v \in Values,
             Local(prefix, n, v)
      PROVE  Abstract!Assign(V, W, n) \/ Abstract!Local(V, W, n) \/ UnderPrefix
  <2> HIDE DEF V, W
  <2>1. \/ Abstract!Assign(V, W, n) \/ Abstract!Local(V, W, n)
        \/ LocalUnderPrefix(prefix, n, v)
    BY <1>1, <1>2, <1>8, LocalMapped DEF V, W
  <2> QED
    BY <2>1 DEF UnderPrefix
<1>9. ASSUME NEW args \in Arguments, NEW prefix \in PrefixAssignments,
             CallFunction(prefix, args)
      PROVE  Abstract!EnterFunction(V, W)
  BY <1>1, <1>9, CallMapped
<1>10. ASSUME NEW args \in Arguments, NEW prefix \in PrefixAssignments, Source(prefix, args)
       PROVE  Abstract!EnterSource(V, W)
  BY <1>1, <1>10, SourceMapped
<1>11. ASSUME ReturnFunction \/ EndSource PROVE Abstract!Leave(V, W)
  BY <1>11, ReturnMapped, EndSourceMapped
<1> HIDE DEF V, W
<1>12. CASE Next
  <2>1. CASE NamesChange
    <3>1. \/ V = W \/ UnderPrefix
          \/ \E n \in Names : Abstract!Assign(V, W, n) \/ Abstract!Local(V, W, n)
      BY <1>4, <1>5, <1>6, <1>8, <2>1 DEF NamesChange
    <3> QED
      BY <1>2, <3>1 DEF Abstract!Next, Abstract!Step
  <2>2. CASE ArgumentsOrEntry
    <3>1. \/ Abstract!SetArguments(V, W)
          \/ Abstract!EnterFunction(V, W) \/ Abstract!EnterSource(V, W)
      BY <1>7, <1>9, <1>10, <2>2 DEF ArgumentsOrEntry
    <3> QED
      BY <1>2, <3>1 DEF Abstract!Next, Abstract!Step
  <2>3. CASE ReturnFunction \/ EndSource
    BY <1>2, <1>11, <2>3 DEF Abstract!Next, Abstract!Step
  <2> QED
    BY <1>12, <2>1, <2>2, <2>3, Steps
<1> QED
  BY <1>3, <1>12

\* One map of variables, with the values that prefix assignments, sourced files and
\* local have saved in it, is a stack of scopes: whatever the script calls, declares
\* local, assigns and returns from, under whatever prefix assignments, a name stands
\* for what the innermost scope that binds it gives it.  Only a function's first
\* local of a name that a prefix assignment inside the function has overwritten
\* (x=1 local x; x=1 . file with local x in it) is no step of a stack of scopes:
\* it leaves the temporary binding to the caller, and changes nothing else.
THEOREM OneStack == Spec => StackOfScopes
<1>1. Init => Abstract!Init
  BY MappedInit
<1>2. IInv /\ [Next]_vars => [Abstract!Next \/ UnderPrefix]_ScopesOf
  BY NextMapped
<1>3. Spec => Abstract!Init /\ [][Abstract!Next \/ UnderPrefix]_ScopesOf
  BY <1>1, <1>2, Invariance, PTL DEF Spec
<1> QED
  BY <1>3, PTL DEF StackOfScopes, UnderPrefix

=============================================================================
