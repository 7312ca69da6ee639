-------------------------- MODULE AlgorithmsProofs --------------------------
(***************************************************************************)
(* Five of the algorithms for every input: brace ranges, of ints of any    *)
(* width; patterns, of any characters of ASCII and any length; splitting   *)
(* into fields, of any words; parameter expansions, nested in any way; and *)
(* loops over getopts, of any options and words.                           *)
(* The algorithms are recursive functions.  A proof by induction over      *)
(* their argument takes the set of the numbers of which the claim holds in *)
(* place of a predicate (NatInduct, DownInduct, UpInduct), and that a      *)
(* function satisfies its own recursive definition is proved first         *)
(* (IterationExists, BackwardExists, ForwardInExists).                     *)
(***************************************************************************)
EXTENDS Ranges, Patterns, Fields, Parameters, Getopts, FiniteSetTheorems,
        SequenceTheorems, WellFoundedInduction, TLAPS

-----------------------------------------------------------------------------
(* Induction over naturals, for sets in place of predicates.               *)

\* A set of numbers up to n has a least one.
LEMMA LeastOf ==
  ASSUME NEW n \in Nat, NEW S, S \subseteq 1..n, S # {}
  PROVE  \E i \in S : \A j \in S : i <= j
<1> DEFINE T == {1..i : i \in S}
<1>1. IsFiniteSet(1..n)
  BY FS_Interval
<1>2. T \subseteq FiniteSubsetsOf(1..n)
  <2> SUFFICES ASSUME NEW i \in S PROVE 1..i \in FiniteSubsetsOf(1..n)
    OBVIOUS
  <2>1. 1..i \in SUBSET (1..n)
    OBVIOUS
  <2> QED
    BY <1>1, <2>1, FS_Subset DEF FiniteSubsetsOf
<1>3. T # {}
  OBVIOUS
<1>4. PICK t \in T : \A u \in T : ~ (<<u, t>> \in StrictSubsetOrdering(1..n))
  <2> HIDE DEF T
  <2> QED
    BY <1>2, <1>3, FS_StrictSubsetOrderingWellFounded, WFMin
<1>5. PICK i \in S : t = 1..i
  BY <1>4
<1>6. \A j \in S : i <= j
  <2> SUFFICES ASSUME NEW j \in S, j < i PROVE FALSE
    OBVIOUS
  <2>1. 1..j \in SUBSET (1..n) /\ t \in SUBSET (1..n) /\ 1..j \in T
    BY <1>5
  <2>2. 1..j \subseteq t /\ 1..j # t
    <3>1. i \in t /\ i \notin 1..j
      BY <1>5
    <3> QED
      BY <1>5, <3>1
  <2> QED
    BY <1>4, <2>1, <2>2 DEF StrictSubsetOrdering
<1> QED
  BY <1>6

\* Induction: a set with 0 and the successors of its members holds all of Nat.
LEMMA NatInduct ==
  ASSUME NEW X, 0 \in X, \A n \in Nat : n \in X => n + 1 \in X
  PROVE  \A n \in Nat : n \in X
<1> SUFFICES ASSUME NEW n \in Nat, n \notin X PROVE FALSE
  OBVIOUS
<1> DEFINE S == {i \in 1..n : i \notin X}
<1>1. S \subseteq 1..n /\ n \in S
  OBVIOUS
<1>2. PICK i \in S : \A j \in S : i <= j
  <2> HIDE DEF S
  <2> QED
    BY <1>1, LeastOf
<1>3. i \in Nat /\ i - 1 \in Nat /\ i \notin X
  BY <1>2
<1>4. i - 1 \in X
  <2>1. CASE i = 1
    BY <2>1
  <2>2. CASE i # 1
    <3>1. i - 1 \in 1..n /\ ~ (i <= i - 1)
      BY <1>2, <2>2
    <3> QED
      BY <1>2, <3>1
  <2> QED
    BY <2>1, <2>2
<1>5. (i - 1) + 1 = i
  BY <1>3
<1> QED
  BY <1>3, <1>4, <1>5

\* The least element of a set of naturals, as Min chooses it.
LEMMA MinOf ==
  ASSUME NEW S, S \subseteq Nat, S # {}
  PROVE  /\ Min(S) \in S /\ Min(S) \in Nat
         /\ \A j \in S : Min(S) <= j
<1> DEFINE X == {n \in Nat : \A i \in 0..n : i \notin S}
<1>1. PICK s \in S : TRUE
  OBVIOUS
<1>2. \E i \in S : \A j \in S : i <= j
  <2> SUFFICES ASSUME ~ (\E i \in S : \A j \in S : i <= j) PROVE FALSE
    OBVIOUS
  <2>1. 0 \in X
    <3>1. 0 \notin S
      OBVIOUS
    <3> QED
      BY <3>1
  <2>2. \A n \in Nat : n \in X => n + 1 \in X
    <3> SUFFICES ASSUME NEW n \in Nat, n \in X PROVE n + 1 \in X
      OBVIOUS
    <3>1. ASSUME n + 1 \in S PROVE FALSE
      <4>1. PICK j \in S : ~ (n + 1 <= j)
        BY <3>1
      <4>2. j \in 0..n
        BY <4>1
      <4> QED
        BY <4>2
    <3> QED
      BY <3>1
  <2>3. \A n \in Nat : n \in X
    <3> HIDE DEF X
    <3> QED
      BY <2>1, <2>2, NatInduct
  <2>4. s \in Nat
    BY <1>1
  <2> QED
    BY <2>3, <2>4, <1>1
<1>3. Min(S) \in S /\ \A j \in S : Min(S) <= j
  BY <1>2 DEF Min
<1> QED
  BY <1>3

-----------------------------------------------------------------------------
(* A recursive function over Nat exists if each of its values is got from  *)
(* the one before by a function.                                           *)

IsChain(g, start, step, n) ==
  /\ DOMAIN g = 0..n /\ g[0] = start
  /\ \A i \in 1..n : g[i] = step[g[i - 1]]

\* The values of such a function up to n exist,
LEMMA ChainExists ==
  ASSUME NEW start, NEW step
  PROVE  \A n \in Nat : \E g : IsChain(g, start, step, n)
<1> DEFINE X == {n \in Nat : \E g : IsChain(g, start, step, n)}
<1>1. 0 \in X
  <2>1. PICK g : g = [i \in 0..0 |-> start]
    OBVIOUS
  <2>2. IsChain(g, start, step, 0)
    BY <2>1 DEF IsChain
  <2> QED
    BY <2>2
<1>2. ASSUME NEW n \in Nat, n \in X PROVE n + 1 \in X
  <2>1. PICK g : IsChain(g, start, step, n)
    BY <1>2
  <2>2. PICK h : h = [i \in 0..(n + 1) |-> IF i <= n THEN g[i] ELSE step[g[n]]]
    OBVIOUS
  <2>3. ASSUME NEW i \in 1..(n + 1) PROVE h[i] = step[h[i - 1]]
    <3>1. CASE i <= n
      <4>1. i \in 1..n /\ i \in 0..(n + 1) /\ i - 1 \in 0..(n + 1) /\ i - 1 <= n
        BY <3>1
      <4>2. h[i] = g[i] /\ h[i - 1] = g[i - 1]
        BY <2>2, <4>1
      <4> QED
        BY <2>1, <4>1, <4>2 DEF IsChain
    <3>2. CASE i = n + 1
      <4>1. n + 1 \in 0..(n + 1) /\ ~ (n + 1 <= n) /\ n \in 0..(n + 1) /\ (n + 1) - 1 = n /\ n <= n
        OBVIOUS
      <4>2. h[n + 1] = step[g[n]] /\ h[n] = g[n]
        BY <2>2, <4>1
      <4> QED
        BY <3>2, <4>1, <4>2
    <3> QED
      BY <3>1, <3>2
  <2>4. h[0] = start
    <3>1. 0 \in 0..(n + 1) /\ 0 <= n
      OBVIOUS
    <3> QED
      BY <2>1, <2>2, <3>1 DEF IsChain
  <2>5. IsChain(h, start, step, n + 1)
    BY <2>2, <2>3, <2>4 DEF IsChain
  <2> QED
    BY <2>5
<1>3. \A n \in Nat : n \in X
  <2> HIDE DEF X
  <2> QED
    BY <1>1, <1>2, NatInduct
<1> QED
  BY <1>3

\* and are the same however far they go.
LEMMA ChainUnique ==
  ASSUME NEW start, NEW step, NEW m \in Nat, NEW n \in Nat, NEW g, NEW h,
         IsChain(g, start, step, m), IsChain(h, start, step, n)
  PROVE  \A i \in Nat : i <= m /\ i <= n => g[i] = h[i]
<1> DEFINE X == {i \in Nat : i <= m /\ i <= n => g[i] = h[i]}
<1>1. 0 \in X
  BY DEF IsChain
<1>2. ASSUME NEW i \in Nat, i \in X PROVE i + 1 \in X
  <2> SUFFICES ASSUME i + 1 <= m, i + 1 <= n PROVE g[i + 1] = h[i + 1]
    OBVIOUS
  <2>1. i + 1 \in 1..m /\ i + 1 \in 1..n /\ (i + 1) - 1 = i /\ i <= m /\ i <= n
    OBVIOUS
  <2>2. g[i] = h[i]
    BY <1>2, <2>1
  <2>3. g[i + 1] = step[g[i]] /\ h[i + 1] = step[h[i]]
    BY <2>1 DEF IsChain
  <2> QED
    BY <2>2, <2>3
<1>3. \A i \in Nat : i \in X
  <2> HIDE DEF X
  <2> QED
    BY <1>1, <1>2, NatInduct
<1> QED
  BY <1>3

Iterates(f, S, start, step) ==
  f \in [Nat -> S] /\ f[0] = start /\ \A k \in Nat : f[k + 1] = step[f[k]]

\* So the function exists, and the CHOOSE of its definition yields it.
LEMMA IterationExists ==
  ASSUME NEW S, NEW start \in S, NEW step \in [S -> S]
  PROVE  \E f : Iterates(f, S, start, step)
<1>1. PICK c : c = [n \in Nat |-> CHOOSE g : IsChain(g, start, step, n)]
  OBVIOUS
<1>2. \A n \in Nat : IsChain(c[n], start, step, n)
  <2> SUFFICES ASSUME NEW n \in Nat PROVE IsChain(c[n], start, step, n)
    OBVIOUS
  <2>1. c[n] = CHOOSE g : IsChain(g, start, step, n)
    BY <1>1
  <2>2. \E g : IsChain(g, start, step, n)
    BY ChainExists
  <2> QED
    BY <2>1, <2>2
<1>3. PICK f : f = [n \in Nat |-> c[n][n]]
  OBVIOUS
<1>4. f[0] = start
  BY <1>2, <1>3 DEF IsChain
<1>5. ASSUME NEW k \in Nat PROVE f[k + 1] = step[f[k]]
  <2>1. IsChain(c[k], start, step, k) /\ IsChain(c[k + 1], start, step, k + 1)
    BY <1>2
  <2>2. c[k][k] = c[k + 1][k]
    <3>1. k + 1 \in Nat /\ k <= k /\ k <= k + 1
      OBVIOUS
    <3>2. \A i \in Nat : i <= k /\ i <= k + 1 => c[k][i] = c[k + 1][i]
      <4>1. PICK g, h, n : g = c[k] /\ h = c[k + 1] /\ n = k + 1
        OBVIOUS
      <4>2. n \in Nat /\ IsChain(g, start, step, k) /\ IsChain(h, start, step, n)
        BY <2>1, <4>1
      <4>3. \A i \in Nat : i <= k /\ i <= n => g[i] = h[i]
        BY <4>2, ChainUnique
      <4> QED
        BY <4>1, <4>3
    <3> QED
      BY <3>1, <3>2
  <2>3. k + 1 \in 1..(k + 1) /\ (k + 1) - 1 = k
    OBVIOUS
  <2>4. c[k + 1][k + 1] = step[c[k + 1][k]]
    BY <2>1, <2>3 DEF IsChain
  <2> QED
    BY <1>3, <2>2, <2>4
<1> DEFINE X == {n \in Nat : f[n] \in S}
<1>6. \A n \in Nat : n \in X
  <2>1. 0 \in X
    BY <1>4
  <2>2. \A n \in Nat : n \in X => n + 1 \in X
    BY <1>5
  <2> HIDE DEF X
  <2> QED
    BY <2>1, <2>2, NatInduct
<1>7. f \in [Nat -> S]
  BY <1>3, <1>6
<1> QED
  BY <1>4, <1>5, <1>7 DEF Iterates

-----------------------------------------------------------------------------
(* Ranges. *)

\* Division with remainder, for the backends.
LEMMA ModSplit ==
  ASSUME NEW a \in Int, NEW m \in Nat \ {0}
  PROVE  a \div m \in Int /\ a % m \in 0..(m - 1) /\ a = m * (a \div m) + (a % m)
<1>1. a = m * (a \div m) + (a % m)
  BY Z3
<1>2. a \div m \in Int /\ a % m \in 0..(m - 1)
  OBVIOUS
<1> QED
  BY <1>1, <1>2

\* What an int becomes that is too great or too small by less than all ints.
LEMMA WrapsIs ==
  ASSUME NEW n \in Int
  PROVE  /\ Wraps(n) \in MinInt..MaxInt
         /\ n \in MinInt..MaxInt => Wraps(n) = n
         /\ n > MaxInt /\ n <= 2 * MaxInt + 1 => Wraps(n) = n - 2 * (MaxInt + 1)
         /\ n < MinInt /\ n >= 2 * MinInt => Wraps(n) = n + 2 * (MaxInt + 1)
<1>1. PICK m : m = 2 * (MaxInt + 1)
  OBVIOUS
<1>2. m \in Nat \ {0} /\ MinInt \in Int /\ MinInt = - MaxInt - 1 /\ MaxInt \in Nat
  BY <1>1, MaxIntAssumption DEF MinInt
<1>3. PICK a : a = n - MinInt
  OBVIOUS
<1>4. a \in Int /\ Wraps(n) = (a % m) + MinInt
  BY <1>1, <1>2, <1>3 DEF Wraps
<1>5. a % m \in 0..(m - 1)
  BY <1>2, <1>4
<1>6. a \in 0..(m - 1) => a % m = a
  BY <1>2
<1>7. a >= m /\ a < 2 * m => a % m = a - m
  BY <1>2, <1>4
<1>8. a < 0 /\ a >= -m => a % m = a + m
  BY <1>2, <1>4
<1> QED
  BY <1>1, <1>2, <1>3, <1>4, <1>5, <1>6, <1>7, <1>8

\* The width of the ints.
LEMMA IntsAre ==
  /\ MaxInt \in Nat \ {0} /\ MinInt \in Int /\ MinInt = - MaxInt - 1
  BY MaxIntAssumption DEF MinInt

\* The loop's value after one more pass.
LEMMA PassesAre ==
  ASSUME NEW start \in MinInt..MaxInt, NEW step \in Int, NEW value, value = Passes(start, step)
  PROVE  /\ value[0] = start
         /\ \A k \in Nat : value[k + 1] = Wraps(value[k] + step)
<1> DEFINE Is(f) == f = [k \in Nat |-> IF k = 0 THEN start ELSE Wraps(f[k - 1] + step)]
<1>1. \E f : Is(f)
  <2>1. PICK s : s = [v \in MinInt..MaxInt |-> Wraps(v + step)]
    OBVIOUS
  <2>2. \A v \in MinInt..MaxInt : Wraps(v + step) \in MinInt..MaxInt
    <3> SUFFICES ASSUME NEW v \in MinInt..MaxInt PROVE Wraps(v + step) \in MinInt..MaxInt
      OBVIOUS
    <3>1. v + step \in Int
      BY IntsAre
    <3> QED
      BY <3>1, WrapsIs
  <2>3. s \in [MinInt..MaxInt -> MinInt..MaxInt]
    BY <2>1, <2>2
  <2>4. PICK f : f \in [Nat -> MinInt..MaxInt] /\ f[0] = start /\ \A k \in Nat : f[k + 1] = s[f[k]]
    <3>1. PICK ints : ints = MinInt..MaxInt
      OBVIOUS
    <3>2. start \in ints /\ s \in [ints -> ints]
      BY <2>3, <3>1
    <3>3. \E f : Iterates(f, ints, start, s)
      BY <3>2, IterationExists, Zenon
    <3> QED
      BY <3>1, <3>3 DEF Iterates
  <2>5. ASSUME NEW k \in Nat
        PROVE  f[k] = IF k = 0 THEN start ELSE Wraps(f[k - 1] + step)
    <3>1. CASE k = 0
      BY <2>4, <3>1
    <3>2. CASE k # 0
      <4>1. k - 1 \in Nat /\ (k - 1) + 1 = k
        BY <3>2
      <4>2. f[(k - 1) + 1] = s[f[k - 1]] /\ f[k - 1] \in MinInt..MaxInt
        BY <2>4, <4>1
      <4> QED
        BY <2>1, <3>2, <4>1, <4>2
    <3> QED
      BY <3>1, <3>2
  <2>6. Is(f)
    BY <2>4, <2>5
  <2> QED
    BY <2>6
<1>2. value = CHOOSE f : Is(f)
  BY DEF Passes
<1>3. Is(value)
  <2> HIDE DEF Is
  <2> QED
    BY <1>1, <1>2
<1>4. \A k \in Nat : value[k] = IF k = 0 THEN start ELSE Wraps(value[k - 1] + step)
  BY <1>3
<1>5. ASSUME NEW k \in Nat PROVE value[k + 1] = Wraps(value[k] + step)
  <2>1. k + 1 \in Nat /\ k + 1 # 0 /\ (k + 1) - 1 = k
    OBVIOUS
  <2> QED
    BY <1>4, <2>1
<1> QED
  BY <1>4, <1>5

\* The step that the loop takes leads from the start to the end, or, if its
\* sign cannot be turned, away from it.
IsDirected(d, start, end, step) ==
  /\ d \in MinInt..MaxInt /\ d # 0
  /\ start < end /\ step # MinInt => d > 0
  /\ start > end => d < 0
  /\ step # MinInt => d = step \/ d = - step
  /\ step = MinInt => d = MinInt

\* The code gives the step the sign that IsDirected asks for.
LEMMA DirectedIs ==
  ASSUME NEW start \in MinInt..MaxInt, NEW end \in MinInt..MaxInt,
         NEW step \in MinInt..MaxInt, step # 0, NEW d, d = Directed(start, end, step)
  PROVE  IsDirected(d, start, end, step)
<1>1. step \in Int /\ - step \in Int /\ start \in Int /\ end \in Int
  BY IntsAre
<1>2. step # MinInt => Wraps(- step) = - step
  BY <1>1, WrapsIs, IntsAre
<1>3. step = MinInt => Wraps(- step) = MinInt
  BY <1>1, WrapsIs, IntsAre
<1> QED
  BY <1>1, <1>2, <1>3, IntsAre DEF Directed, IsDirected

\* A pass that does not end the loop neither wraps around nor leaves the range.
LEMMA PassOn ==
  ASSUME NEW start \in MinInt..MaxInt, NEW end \in MinInt..MaxInt,
         NEW d \in MinInt..MaxInt, (d > 0 /\ start < end) \/ (d < 0 /\ start > end),
         NEW v \in MinInt..MaxInt, Between(v, start, end), ~ Breaks(v, end, d)
  PROVE  Wraps(v + d) = v + d /\ Between(v + d, start, end) /\ v + d \in MinInt..MaxInt
<1>1. v + d \in Int
  BY IntsAre
<1>2. PICK next : next = Wraps(v + d)
  OBVIOUS
<1>3. /\ next \in MinInt..MaxInt
      /\ v + d \in MinInt..MaxInt => next = v + d
      /\ v + d > MaxInt => next = v + d - 2 * (MaxInt + 1)
      /\ v + d < MinInt => next = v + d + 2 * (MaxInt + 1)
  BY <1>1, <1>2, WrapsIs, IntsAre
<1>4. /\ v # end
      /\ d > 0 => next > v /\ next <= end
      /\ d < 0 => next < v /\ next >= end
  BY <1>2, <1>3, IntsAre DEF Breaks
<1> QED
  BY <1>1, <1>2, <1>3, <1>4, IntsAre DEF Between

\* Up to the pass that ends it, the loop takes even steps within the range.
AsFar(k, value, start, end, d) ==
  /\ k * d \in Int /\ value[k] = start + k * d
  /\ value[k] \in MinInt..MaxInt /\ Between(value[k], start, end)

\* Until the loop breaks, nothing wraps: pass k has reached start + k * d.
LEMMA StepsEvenly ==
  ASSUME NEW start \in MinInt..MaxInt, NEW end \in MinInt..MaxInt,
         NEW d \in MinInt..MaxInt, (d > 0 /\ start < end) \/ (d < 0 /\ start > end),
         NEW value, value = Passes(start, d)
  PROVE  \A k \in Nat :
           (\A j \in 0..(k - 1) : ~ Breaks(value[j], end, d)) => AsFar(k, value, start, end, d)
<1> DEFINE X == {k \in Nat :
                   (\A j \in 0..(k - 1) : ~ Breaks(value[j], end, d)) =>
                     AsFar(k, value, start, end, d)}
<1>1. 0 \in X
  <2>1. value[0] = start
    BY PassesAre, IntsAre
  <2>2. Between(start, start, end) /\ 0 * d = 0 /\ start + 0 = start
    BY IntsAre DEF Between
  <2> QED
    BY <2>1, <2>2 DEF AsFar
<1>2. ASSUME NEW k \in Nat, k \in X PROVE k + 1 \in X
  <2> SUFFICES ASSUME \A j \in 0..((k + 1) - 1) : ~ Breaks(value[j], end, d)
               PROVE  AsFar(k + 1, value, start, end, d)
    OBVIOUS
  <2>1. ~ Breaks(value[k], end, d) /\ \A j \in 0..(k - 1) : ~ Breaks(value[j], end, d)
    OBVIOUS
  <2>2. /\ k * d \in Int /\ value[k] = start + k * d
        /\ value[k] \in MinInt..MaxInt /\ Between(value[k], start, end)
    BY <1>2, <2>1 DEF AsFar
  <2>3. PICK v : v = value[k]
    OBVIOUS
  <2>4. Wraps(v + d) = v + d /\ Between(v + d, start, end) /\ v + d \in MinInt..MaxInt
    BY <2>1, <2>2, <2>3, PassOn
  <2>5. value[k + 1] = Wraps(v + d)
    BY <2>3, PassesAre, IntsAre
  <2>6. (k + 1) * d = k * d + d
    BY IntsAre
  <2>7. v + d = start + (k + 1) * d /\ (k + 1) * d \in Int
    BY <2>2, <2>3, <2>6, IntsAre
  <2> QED
    BY <2>4, <2>5, <2>7 DEF AsFar
<1>3. \A k \in Nat : k \in X
  <2> HIDE DEF X
  <2> QED
    BY <1>1, <1>2, NatInduct
<1> QED
  BY <1>3

\* The pass that ends the loop.
LastPass(start, end, d) ==
  Min({k \in 0..(MaxInt - MinInt) : Breaks(Passes(start, d)[k], end, d)})

\* The loop breaks after finitely many passes, and LastPass is the first.
LEMMA LoopEnds ==
  ASSUME NEW start \in MinInt..MaxInt, NEW end \in MinInt..MaxInt,
         NEW d \in MinInt..MaxInt,
         start = end \/ (d > 0 /\ start < end) \/ (d < 0 /\ start > end),
         NEW value, value = Passes(start, d), NEW last, last = LastPass(start, end, d)
  PROVE  /\ last \in Nat /\ Breaks(value[last], end, d)
         /\ \A j \in 0..(last - 1) : ~ Breaks(value[j], end, d)
<1> DEFINE S == {k \in 0..(MaxInt - MinInt) : Breaks(value[k], end, d)}
<1>1. S # {}
  <2>1. CASE start = end
    <3>1. value[0] = end
      BY <2>1, PassesAre, IntsAre
    <3>2. Breaks(value[0], end, d)
      BY <3>1 DEF Breaks
    <3>3. 0 \in 0..(MaxInt - MinInt)
      BY IntsAre
    <3> QED
      BY <3>2, <3>3
  <2>2. CASE start # end
    <3> SUFFICES ASSUME \A k \in 0..(MaxInt - MinInt) : ~ Breaks(value[k], end, d) PROVE FALSE
      OBVIOUS
    <3>1. PICK n : n = MaxInt - MinInt + 1
      OBVIOUS
    <3>2. n \in Nat /\ n - 1 = MaxInt - MinInt
      BY <3>1, IntsAre
    <3>3. /\ n * d \in Int /\ value[n] = start + n * d
          /\ value[n] \in MinInt..MaxInt
      <4>1. AsFar(n, value, start, end, d)
        BY <2>2, <3>2, StepsEvenly
      <4> QED
        BY <4>1 DEF AsFar
    <3>4. PICK a : a = n * d
      OBVIOUS
    <3>5. (d > 0 => a >= n) /\ (d < 0 => a <= - n)
      BY <3>2, <3>4, IntsAre
    <3>6. a \in Int /\ d \in Int /\ start + a \in MinInt..MaxInt
      BY <3>3, <3>4, IntsAre
    <3> QED
      BY <2>2, <3>1, <3>5, <3>6, IntsAre
  <2> QED
    BY <2>1, <2>2
<1>2. S \subseteq Nat
  BY IntsAre
<1>3. last = Min(S)
  BY DEF LastPass
<1>4. last \in S /\ last \in Nat /\ \A j \in S : last <= j
  <2> HIDE DEF S
  <2> QED
    BY <1>1, <1>2, <1>3, MinOf
<1>5. ASSUME NEW j \in 0..(last - 1), Breaks(value[j], end, d) PROVE FALSE
  <2>1. j \in 0..(MaxInt - MinInt) /\ ~ (last <= j)
    BY <1>4, IntsAre
  <2> QED
    BY <1>4, <1>5, <2>1
<1> QED
  BY <1>4, <1>5

\* A loop that breaks at its start has one pass.
LEMMA LoopEndsAtOnce ==
  ASSUME NEW start \in MinInt..MaxInt, NEW end \in MinInt..MaxInt, NEW d \in MinInt..MaxInt,
         Breaks(start, end, d)
  PROVE  LastPass(start, end, d) = 0
<1> DEFINE S == {k \in 0..(MaxInt - MinInt) : Breaks(Passes(start, d)[k], end, d)}
<1>1. Passes(start, d)[0] = start
  BY PassesAre, IntsAre
<1>2. 0 \in S /\ S \subseteq Nat
  BY <1>1, IntsAre
<1>3. Min(S) \in Nat /\ Min(S) <= 0
  <2> HIDE DEF S
  <2> QED
    BY <1>2, MinOf
<1> QED
  BY <1>3 DEF LastPass

\* What RangeIsComplete says of one range.
Complete(start, end, step) ==
  LET numbers == BraceRange(start, end, step)
      expected == RangeNumbers(start, end, step)
  IN /\ numbers[1] = start /\ IsInjective(numbers)
     /\ ToSet(numbers) \subseteq expected
     /\ step # MinInt => ToSet(numbers) = expected
     /\ \A i, j \in DOMAIN numbers :
          i < j => (numbers[i] < numbers[j]) = (start < end)

\* Its range is complete: start alone lies within the bounds and the steps.
LEMMA RangeOfOne ==
  ASSUME NEW start \in MinInt..MaxInt, NEW end \in MinInt..MaxInt,
         NEW step \in MinInt..MaxInt, step # 0,
         start = end \/ (start < end /\ step = MinInt)
  PROVE  Complete(start, end, step)
<1>1. PICK d : d = Directed(start, end, step)
  OBVIOUS
<1>2. d \in MinInt..MaxInt /\ d # 0 /\ (step = MinInt => d = MinInt)
  BY <1>1, DirectedIs DEF IsDirected
<1>3. Breaks(start, end, d)
  <2>1. CASE start = end
    BY <2>1 DEF Breaks
  <2>2. CASE start < end /\ step = MinInt
    <3>1. PICK next : next = Wraps(start + d)
      OBVIOUS
    <3>2. start + d \in Int /\ d = MinInt
      BY <1>2, <2>2, IntsAre
    <3>3. next >= start \/ next < end
      BY <2>2, IntsAre, <3>1, <3>2, WrapsIs
    <3> QED
      BY <3>1, <3>2, <3>3, IntsAre DEF Breaks
  <2> QED
    BY <2>1, <2>2
<1>4. PICK r : r = BraceRange(start, end, step)
  OBVIOUS
<1>5. r = [i \in 1..(0 + 1) |-> Passes(start, d)[i - 1]]
  BY <1>1, <1>2, <1>3, <1>4, LoopEndsAtOnce DEF BraceRange, LastPass
<1>6. DOMAIN r = {1} /\ r[1] = start
  <2>1. Passes(start, d)[0] = start
    BY <1>2, PassesAre, IntsAre
  <2> QED
    BY <1>5, <2>1
<1>7. ToSet(r) = {start} /\ IsInjective(r)
  BY <1>6 DEF ToSet, IsInjective
<1>8. PICK m : m = IF step < 0 THEN - step ELSE step
  OBVIOUS
<1>9. m \in Nat \ {0} /\ (start - start) % m = 0 /\ Between(start, start, end)
  <2>1. m \in Nat \ {0}
    BY <1>8, IntsAre
  <2>2. 0 % m = 0
    BY <2>1
  <2>3. start - start = 0 /\ Between(start, start, end)
    BY IntsAre DEF Between
  <2> QED
    BY <2>1, <2>2, <2>3
<1>10. RangeNumbers(start, end, step)
         = {n \in MinInt..MaxInt : Between(n, start, end) /\ (n - start) % m = 0}
  BY <1>8 DEF RangeNumbers
<1>11. start \in RangeNumbers(start, end, step)
  BY <1>9, <1>10
<1>12. start = end => RangeNumbers(start, end, step) = {start}
  BY <1>10, <1>11, IntsAre DEF Between
<1>13. step # MinInt => ToSet(r) = RangeNumbers(start, end, step)
  BY <1>7, <1>12
<1>14. \A i, j \in DOMAIN r : i < j => (r[i] < r[j]) = (start < end)
  BY <1>6
<1> QED
  BY <1>4, <1>6, <1>7, <1>11, <1>13, <1>14 DEF Complete

\* A loop that does not break at once lists the multiples of its step.
LEMMA RangeOfSteps ==
  ASSUME NEW start \in MinInt..MaxInt, NEW end \in MinInt..MaxInt,
         NEW step \in MinInt..MaxInt, step # 0,
         (start < end /\ step # MinInt) \/ start > end
  PROVE  Complete(start, end, step)
<1>1. PICK d : d = Directed(start, end, step)
  OBVIOUS
<1>2. /\ d \in MinInt..MaxInt /\ d # 0
      /\ step # MinInt => d = step \/ d = - step
      /\ step = MinInt => d = MinInt
      /\ (d > 0 /\ start < end) \/ (d < 0 /\ start > end)
  <2>1. IsDirected(d, start, end, step)
    BY <1>1, DirectedIs
  <2> QED
    BY <2>1, IntsAre DEF IsDirected
<1>3. PICK value, last : value = Passes(start, d) /\ last = LastPass(start, end, d)
  OBVIOUS
<1>4. /\ last \in Nat /\ Breaks(value[last], end, d)
      /\ \A j \in 0..(last - 1) : ~ Breaks(value[j], end, d)
  BY <1>2, <1>3, LoopEnds
<1>5. ASSUME NEW k \in 0..last
      PROVE  /\ k * d \in Int /\ value[k] = start + k * d
             /\ value[k] \in MinInt..MaxInt /\ Between(value[k], start, end)
  <2>1. k \in Nat /\ \A j \in 0..(k - 1) : ~ Breaks(value[j], end, d)
    BY <1>4
  <2>2. AsFar(k, value, start, end, d)
    BY <1>2, <1>3, <2>1, StepsEvenly
  <2> QED
    BY <2>2 DEF AsFar
<1>6. PICK r : r = BraceRange(start, end, step)
  OBVIOUS
<1>7. r = [i \in 1..(last + 1) |-> value[i - 1]]
  BY <1>1, <1>3, <1>6 DEF BraceRange, LastPass
<1>8. /\ DOMAIN r = 1..(last + 1)
      /\ \A i \in 1..(last + 1) : i - 1 \in 0..last /\ r[i] = value[i - 1]
  BY <1>4, <1>7
<1>9. PICK m : m = IF step < 0 THEN - step ELSE step
  OBVIOUS
<1>10. m \in Nat \ {0} /\ (d > 0 => m = d) /\ (d < 0 => m = - d)
  BY <1>2, <1>9, IntsAre
<1>11. PICK expected : expected = RangeNumbers(start, end, step)
  OBVIOUS
<1>12. expected = {n \in MinInt..MaxInt : Between(n, start, end) /\ (n - start) % m = 0}
  BY <1>9, <1>11 DEF RangeNumbers
<1>13. ToSet(r) \subseteq expected
  <2> SUFFICES ASSUME NEW k \in 0..last PROVE value[k] \in expected
    BY <1>8 DEF ToSet
  <2>1. /\ k * d \in Int /\ value[k] = start + k * d
        /\ value[k] \in MinInt..MaxInt /\ Between(value[k], start, end)
    BY <1>5
  <2>2. value[k] - start = m * k \/ value[k] - start = m * (- k)
    BY <1>2, <1>10, <2>1, IntsAre
  <2>3. (m * k) % m = 0 /\ (m * (- k)) % m = 0
    BY <1>10
  <2> QED
    BY <1>12, <2>1, <2>2, <2>3
<1>14. expected \subseteq ToSet(r)
  <2> SUFFICES ASSUME NEW n \in expected PROVE n \in ToSet(r)
    OBVIOUS
  <2>1. n \in MinInt..MaxInt /\ Between(n, start, end) /\ (n - start) % m = 0
    BY <1>12
  <2>2. PICK k : k = (n - start) \div m
    OBVIOUS
  <2>3. n - start \in Int /\ k \in Int /\ n - start = m * k
    BY <1>10, <2>1, <2>2, ModSplit, IntsAre
  <2>4. PICK q \in Nat : n = start + q * d
    <3>1. CASE d > 0
      <4>1. n - start >= 0
        BY <1>2, <2>1, <3>1, IntsAre DEF Between
      <4>2. k >= 0
        BY <1>10, <2>3, <4>1
      <4>3. n = start + k * d
        BY <1>10, <2>3, <3>1, <2>1, IntsAre
      <4> QED
        BY <2>3, <4>2, <4>3
    <3>2. CASE d < 0
      <4>1. n - start <= 0
        BY <1>2, <2>1, <3>2, IntsAre DEF Between
      <4>2. k <= 0
        BY <1>10, <2>3, <4>1
      <4>3. d \in Int /\ m = - d
        BY <1>2, <1>10, <3>2, IntsAre
      <4>4. (- k) * d = m * k
        BY <2>3, <4>3
      <4>5. n = start + (- k) * d
        BY <2>1, <2>3, <4>4, IntsAre
      <4> QED
        BY <2>3, <4>2, <4>5
    <3> QED
      BY <1>2, <3>1, <3>2, IntsAre
  <2>5. q <= last
    <3> SUFFICES ASSUME q > last PROVE FALSE
      BY <1>4
    <3>1. PICK v : v = value[last]
      OBVIOUS
    <3>2. /\ last * d \in Int /\ v = start + last * d
          /\ v \in MinInt..MaxInt /\ Between(v, start, end)
      BY <1>4, <1>5, <3>1
    <3>3. d > 0 => q * d >= last * d + d
      BY <1>2, <1>4, IntsAre
    <3>4. d < 0 => q * d <= last * d + d
      BY <1>2, <1>4, IntsAre
    <3>5. q * d \in Int
      BY <1>2, IntsAre
    <3>6. (d > 0 => n >= v + d) /\ (d < 0 => n <= v + d)
      BY <1>2, <2>4, <3>2, <3>3, <3>4, <3>5, IntsAre
    <3>7. v + d \in MinInt..MaxInt /\ v # end
          /\ (d > 0 => v + d > v /\ v + d <= end) /\ (d < 0 => v + d < v /\ v + d >= end)
      BY <1>2, <2>1, <3>2, <3>6, IntsAre DEF Between
    <3>8. Wraps(v + d) = v + d
      BY <3>7, WrapsIs, IntsAre
    <3>9. ~ Breaks(v, end, d)
      BY <1>2, <3>2, <3>7, <3>8, IntsAre DEF Breaks
    <3> QED
      BY <1>4, <3>1, <3>9
  <2>6. q + 1 \in 1..(last + 1) /\ (q + 1) - 1 = q /\ q \in 0..last
    BY <1>4, <2>5
  <2>7. r[q + 1] = n
    BY <1>5, <1>8, <2>4, <2>6
  <2> QED
    BY <1>8, <2>6, <2>7 DEF ToSet
<1>15. ASSUME NEW i \in 1..(last + 1), NEW j \in 1..(last + 1), i < j
       PROVE  r[i] # r[j] /\ (r[i] < r[j]) = (start < end)
  <2>1. PICK a, b : a = i - 1 /\ b = j - 1
    OBVIOUS
  <2>2. a \in 0..last /\ b \in 0..last /\ a < b /\ a \in Nat /\ b \in Nat
    BY <1>4, <1>15, <2>1
  <2>3. /\ a * d \in Int /\ b * d \in Int
        /\ r[i] = start + a * d /\ r[j] = start + b * d
    BY <1>5, <1>8, <2>1, <2>2
  <2>4. (d > 0 => a * d < b * d) /\ (d < 0 => b * d < a * d)
    BY <1>2, <2>2, IntsAre
  <2>5. CASE d > 0
    BY <1>2, <2>3, <2>4, <2>5, IntsAre
  <2>6. CASE d < 0
    BY <1>2, <2>3, <2>4, <2>6, IntsAre
  <2> QED
    BY <1>2, <2>5, <2>6, IntsAre
<1>16. IsInjective(r)
  <2> SUFFICES ASSUME NEW i \in 1..(last + 1), NEW j \in 1..(last + 1), r[i] = r[j] PROVE i = j
    BY <1>8 DEF IsInjective
  <2>1. i \in Int /\ j \in Int
    BY <1>4
  <2>2. ~ (i < j) /\ ~ (j < i)
    BY <1>15
  <2> QED
    BY <2>1, <2>2
<1>17. r[1] = start
  <2>1. 1 \in 1..(last + 1) /\ 0 \in 0..last /\ value[0] = start
    BY <1>2, <1>3, <1>4, PassesAre, IntsAre
  <2> QED
    BY <1>8, <2>1
<1>18. ToSet(r) = expected
  BY <1>13, <1>14
<1>19. \A i, j \in DOMAIN r : i < j => (r[i] < r[j]) = (start < end)
  BY <1>8, <1>15
<1> QED
  BY <1>6, <1>11, <1>16, <1>17, <1>18, <1>19 DEF Complete

\* A range stops at its end and leaves out no number, for ints of any width.
THEOREM RangesComplete == RangeInit /\ [][Next]_subject => []RangeIsComplete
<1>1. RangeInit => RangeIsComplete
  <2> SUFFICES ASSUME NEW start \in MinInt..MaxInt, NEW end \in MinInt..MaxInt,
                      NEW step \in MinInt..MaxInt, step # 0,
                      subject = [kind |-> "range", start |-> start, end |-> end, step |-> step]
               PROVE  RangeIsComplete
    BY DEF RangeInit
  <2>1. Complete(start, end, step)
    BY RangeOfOne, RangeOfSteps, IntsAre
  <2>2. subject.start = start /\ subject.end = end /\ subject.step = step
    OBVIOUS
  <2> QED
    BY <2>1, <2>2 DEF Complete, RangeIsComplete
<1>2. RangeIsComplete /\ [Next]_subject => RangeIsComplete'
  <2> SUFFICES ASSUME RangeIsComplete, subject' = subject PROVE RangeIsComplete'
    BY DEF Next
  <2> QED
    BY DEF RangeIsComplete
<1> QED
  BY <1>1, <1>2, PTL

\* Induction downwards from n + 1 to 1.
LEMMA DownInduct ==
  ASSUME NEW n \in Nat, NEW X, n + 1 \in X,
         \A i \in 1..n : (\A j \in (i + 1)..(n + 1) : j \in X) => i \in X
  PROVE  \A i \in 1..(n + 1) : i \in X
<1> DEFINE Y == {m \in Nat : \A j \in 1..(n + 1) : j + m >= n + 1 => j \in X}
<1>1. 0 \in Y
  BY SMT
<1>2. ASSUME NEW m \in Nat, m \in Y PROVE m + 1 \in Y
  <2> SUFFICES ASSUME NEW j \in 1..(n + 1), j + (m + 1) >= n + 1 PROVE j \in X
    OBVIOUS
  <2>1. CASE j = n + 1
    BY <2>1
  <2>2. CASE j # n + 1
    <3>1. j \in 1..n
      BY <2>2
    <3>2. \A k \in (j + 1)..(n + 1) : k \in X
      <4> SUFFICES ASSUME NEW k \in (j + 1)..(n + 1) PROVE k \in X
        OBVIOUS
      <4>1. k \in 1..(n + 1) /\ k + m >= n + 1
        BY <3>1
      <4> QED
        BY <1>2, <4>1
    <3> QED
      BY <3>1, <3>2
  <2> QED
    BY <2>1, <2>2
<1>3. \A m \in Nat : m \in Y
  <2> HIDE DEF Y
  <2> QED
    BY <1>1, <1>2, NatInduct
<1>4. n + 1 \in Nat
  OBVIOUS
<1>5. \A j \in 1..(n + 1) : j + (n + 1) >= n + 1
  BY SMT
<1> QED
  BY <1>3, <1>4, <1>5

\* The greatest element of a bounded set of naturals, as Max chooses it.
LEMMA MaxOf ==
  ASSUME NEW n \in Nat, NEW S, S \subseteq 0..n, S # {}
  PROVE  /\ Max(S) \in S /\ Max(S) \in Nat
         /\ \A j \in S : j <= Max(S)
<1> DEFINE T == {n - i : i \in S}
<1>1. T \subseteq Nat /\ T # {}
  <2>1. \A i \in S : n - i \in Nat
    OBVIOUS
  <2> QED
    BY <2>1
<1>2. PICK t \in T : \A u \in T : t <= u
  <2> HIDE DEF T
  <2> QED
    BY <1>1, MinOf
<1>3. PICK i \in S : t = n - i
  BY <1>2
<1>4. \A j \in S : i >= j
  <2> SUFFICES ASSUME NEW j \in S PROVE i >= j
    OBVIOUS
  <2>1. n - j \in T
    OBVIOUS
  <2>2. t <= n - j
    BY <1>2, <2>1
  <2> QED
    BY <1>3, <2>2
<1>5. PICK x : x = Max(S)
  OBVIOUS
<1>6. x \in S /\ \A j \in S : x >= j
  BY <1>4, <1>5 DEF Max
<1>7. x \in Nat /\ \A j \in S : j <= x
  BY <1>6
<1> QED
  BY <1>5, <1>6, <1>7

-----------------------------------------------------------------------------
(* A function on 1..(n + 1) defined from its last value backwards exists.  *)

\* Backward(f, step, n): each value of f is got by step from the later ones.
Later(f, k, n) == [j \in (k + 1)..(n + 1) |-> f[j]]
Backward(f, step, n) == \A k \in 1..(n + 1) : f[k] = step[k][Later(f, k, n)]

\* A recursive function over 1..(n + 1) exists if each of its values is got from
\* those behind it.
LEMMA BackwardExists ==
  ASSUME NEW n \in Nat, NEW V, NEW step,
         \A k \in 1..(n + 1) : \A g \in [(k + 1)..(n + 1) -> V] : step[k][g] \in V
  PROVE  \E f \in [1..(n + 1) -> V] : Backward(f, step, n)
<1> DEFINE Right(f, m) == /\ f \in [m..(n + 1) -> V]
                          /\ \A k \in m..(n + 1) : f[k] = step[k][Later(f, k, n)]
           X == {m \in 1..(n + 1) : \E f : Right(f, m)}
<1>1. ASSUME NEW m \in 1..(n + 1), NEW h \in [(m + 1)..(n + 1) -> V],
             m <= n => Right(h, m + 1)
      PROVE  m \in X
  <2>1. PICK v \in V : v = step[m][h]
    OBVIOUS
  <2>2. PICK g : g = [k \in m..(n + 1) |-> IF k = m THEN v ELSE h[k]]
    OBVIOUS
  <2>3. g \in [m..(n + 1) -> V]
    <3>1. \A k \in m..(n + 1) : k = m \/ k \in (m + 1)..(n + 1)
      OBVIOUS
    <3> QED
      BY <2>2, <3>1
  <2>4. g[m] = v /\ \A k \in (m + 1)..(n + 1) : g[k] = h[k]
    <3>1. m \in m..(n + 1) /\ \A k \in (m + 1)..(n + 1) : k \in m..(n + 1) /\ k # m
      OBVIOUS
    <3> QED
      BY <2>2, <3>1
  <2>5. \A k \in m..(n + 1) : Later(g, k, n) = Later(h, k, n)
    <3> SUFFICES ASSUME NEW k \in m..(n + 1) PROVE Later(g, k, n) = Later(h, k, n)
      OBVIOUS
    <3>1. \A j \in (k + 1)..(n + 1) : j \in (m + 1)..(n + 1)
      OBVIOUS
    <3> QED
      BY <2>4, <3>1 DEF Later
  <2>6. Later(h, m, n) = h
    BY DEF Later
  <2>7. ASSUME NEW k \in m..(n + 1) PROVE g[k] = step[k][Later(g, k, n)]
    <3>1. CASE k = m
      BY <2>1, <2>4, <2>5, <2>6, <3>1
    <3>2. CASE k # m
      <4>1. k \in (m + 1)..(n + 1) /\ m <= n
        BY <3>2
      <4>2. h[k] = step[k][Later(h, k, n)]
        BY <1>1, <4>1
      <4> QED
        BY <2>4, <2>5, <4>1, <4>2
    <3> QED
      BY <3>1, <3>2
  <2> QED
    BY <2>3, <2>7
<1>2. n + 1 \in X
  <2>1. PICK m : m = n + 1
    OBVIOUS
  <2>2. m \in 1..(n + 1) /\ ~ (m <= n) /\ (m + 1)..(n + 1) = {}
    BY <2>1
  <2>3. PICK h : h = [k \in (m + 1)..(n + 1) |-> CHOOSE v \in V : TRUE]
    OBVIOUS
  <2>4. h \in [(m + 1)..(n + 1) -> V]
    BY <2>2, <2>3
  <2> QED
    BY <1>1, <2>1, <2>2, <2>4
<1>3. ASSUME NEW m \in 1..n, \A j \in (m + 1)..(n + 1) : j \in X PROVE m \in X
  <2>1. m + 1 \in (m + 1)..(n + 1) /\ m \in 1..(n + 1)
    OBVIOUS
  <2>2. PICK h : Right(h, m + 1)
    BY <1>3, <2>1
  <2> QED
    BY <1>1, <2>1, <2>2
<1>4. \A m \in 1..(n + 1) : m \in X
  <2> HIDE DEF X
  <2> QED
    BY <1>2, <1>3, DownInduct
<1>5. PICK f : Right(f, 1)
  <2>1. 1 \in 1..(n + 1)
    OBVIOUS
  <2> QED
    BY <1>4, <2>1
<1> QED
  BY <1>5 DEF Backward

-----------------------------------------------------------------------------
(* The recursive functions of Patterns exist.                              *)

StartsValue(f, items, text, end, k) ==
  IF k > Len(items) THEN {end}
  ELSE IF items[k].kind = "many"
  THEN {i \in 1..end : \E j \in f[k + 1] : i <= j /\ InOneLine(text, i, j)}
  ELSE {i \in 1..(end - 1) : Accepts(items[k], text[i]) /\ i + 1 \in f[k + 1]}

IsStarts(f, items, text, end) ==
  f = [k \in 1..(Len(items) + 1) |->
         IF k > Len(items) THEN {end}
         ELSE IF items[k].kind = "many"
         THEN {i \in 1..end : \E j \in f[k + 1] : i <= j /\ InOneLine(text, i, j)}
         ELSE {i \in 1..(end - 1) : Accepts(items[k], text[i]) /\ i + 1 \in f[k + 1]}]

\* Starts is such a function, each value got from the next,
LEMMA StartsExist ==
  ASSUME NEW T, NEW items \in Seq(T), NEW text, NEW end \in Nat \ {0}
  PROVE  \E f \in [1..(Len(items) + 1) -> SUBSET (1..end)] : IsStarts(f, items, text, end)
<1>1. PICK n \in Nat : n = Len(items)
  OBVIOUS
<1> DEFINE V == SUBSET (1..end)
<1>2. PICK step : step = [k \in 1..(n + 1) |-> [g \in [(k + 1)..(n + 1) -> V] |->
                            StartsValue(g, items, text, end, k)]]
  OBVIOUS
<1>3. ASSUME NEW k \in 1..(n + 1), NEW g PROVE StartsValue(g, items, text, end, k) \in V
  BY DEF StartsValue
<1>4. \A k \in 1..(n + 1) : \A g \in [(k + 1)..(n + 1) -> V] : step[k][g] \in V
  BY <1>2, <1>3
<1>5. PICK f \in [1..(n + 1) -> V] : Backward(f, step, n)
  <2> HIDE DEF V
  <2> QED
    BY <1>4, BackwardExists
<1>6. ASSUME NEW k \in 1..(n + 1) PROVE f[k] = StartsValue(f, items, text, end, k)
  <2>1. \A j \in (k + 1)..(n + 1) : j \in 1..(n + 1)
    OBVIOUS
  <2>2. PICK g : g = Later(f, k, n)
    OBVIOUS
  <2>3. g \in [(k + 1)..(n + 1) -> V] /\ \A j \in (k + 1)..(n + 1) : g[j] = f[j]
    BY <2>1, <2>2 DEF Later
  <2>4. f[k] = StartsValue(g, items, text, end, k)
    BY <1>2, <1>5, <2>2, <2>3 DEF Backward
  <2>5. CASE k <= n
    <3>1. g[k + 1] = f[k + 1]
      <4>1. k + 1 \in (k + 1)..(n + 1)
        BY <2>5
      <4> QED
        BY <2>3, <4>1
    <3> QED
      BY <2>4, <3>1 DEF StartsValue
  <2>6. CASE k > n
    BY <1>1, <2>4, <2>6 DEF StartsValue
  <2> QED
    BY <2>5, <2>6
<1>7. f = [k \in 1..(Len(items) + 1) |-> StartsValue(f, items, text, end, k)]
  BY <1>1, <1>6
<1> QED
  BY <1>1, <1>7, Zenon DEF IsStarts, StartsValue

\* and Starts yields its first value.
LEMMA StartsIs ==
  ASSUME NEW T, NEW items \in Seq(T), NEW text, NEW end \in Nat \ {0}
  PROVE  \E f : /\ IsStarts(f, items, text, end) /\ Starts(items, text, end) = f[1]
                /\ f \in [1..(Len(items) + 1) -> SUBSET (1..end)]
<1>1. PICK h : h = CHOOSE g : IsStarts(g, items, text, end)
  OBVIOUS
<1>2. Starts(items, text, end) = h[1]
  BY <1>1 DEF Starts, IsStarts
<1>3. IsStarts(h, items, text, end)
  BY <1>1, StartsExist
<1>4. h = [k \in 1..(Len(items) + 1) |-> StartsValue(h, items, text, end, k)]
  BY <1>3, Zenon DEF IsStarts, StartsValue
<1>5. \A k : StartsValue(h, items, text, end, k) \in SUBSET (1..end)
  BY DEF StartsValue
<1>6. h \in [1..(Len(items) + 1) -> SUBSET (1..end)]
  BY <1>4, <1>5
<1> QED
  BY <1>2, <1>3, <1>6

-----------------------------------------------------------------------------
(* A piece of a pattern, as Compiled and as the reference read it.         *)

\* Where a class ends, and that only one ] ends it.
LEMMA ClassEnds ==
  ASSUME NEW C, NEW p \in Seq(C), NEW i \in 1..Len(p), p[i] = "["
  PROVE  IF ClassEnd(p, i) = 0 THEN Brackets(p, i) = {}
         ELSE /\ ClassEnd(p, i) \in (i + 2)..Len(p)
              /\ Brackets(p, i) = {ClassEnd(p, i)}
<1>1. PICK n \in Nat : n = Len(p)
  OBVIOUS
<1>2. PICK skipped : skipped = IF CharAt(p, i + 1) \in {"!", "^"} THEN i + 2 ELSE i + 1
  OBVIOUS
<1>3. PICK first : first = IF CharAt(p, skipped) = "]" THEN skipped + 1 ELSE skipped
  OBVIOUS
<1>4. PICK ends : ends = {j \in first..Len(p) : p[j] = "]"}
  OBVIOUS
<1>5. PICK end : end = IF ends = {} THEN 0 ELSE Min(ends)
  OBVIOUS
<1>6. ClassEnd(p, i) = end
  BY <1>2, <1>3, <1>4, <1>5 DEF ClassEnd
<1>7. skipped \in Nat /\ first \in Nat /\ first >= i + 1 /\ i \in 1..n
  BY <1>1, <1>2, <1>3
<1>8. \A j \in ends : j \in (i + 2)..n /\ (Negates(p, i) => j > i + 2)
  <2> SUFFICES ASSUME NEW j \in ends PROVE j \in (i + 2)..n /\ (Negates(p, i) => j > i + 2)
    OBVIOUS
  <2>1. j \in first..n /\ p[j] = "]" /\ j \in 1..n /\ i + 1 \in 1..n
    BY <1>1, <1>4, <1>7
  <2>2. CASE CharAt(p, i + 1) \in {"!", "^"}
    <3>1. skipped = i + 2
      BY <1>2, <2>2
    <3>2. j # i + 2
      <4>1. CASE CharAt(p, i + 2) = "]"
        BY <1>3, <2>1, <3>1, <4>1
      <4>2. CASE CharAt(p, i + 2) # "]"
        BY <1>1, <2>1, <4>2 DEF CharAt
      <4> QED
        BY <4>1, <4>2
    <3> QED
      BY <1>3, <2>1, <3>1, <3>2
  <2>3. CASE CharAt(p, i + 1) \notin {"!", "^"}
    <3>1. skipped = i + 1
      BY <1>2, <2>3
    <3>2. j # i + 1
      <4>1. CASE CharAt(p, i + 1) = "]"
        BY <1>3, <2>1, <3>1, <4>1
      <4>2. CASE CharAt(p, i + 1) # "]"
        BY <1>1, <2>1, <4>2 DEF CharAt
      <4> QED
        BY <4>1, <4>2
    <3>3. ~ Negates(p, i)
      BY <1>1, <2>1, <2>3 DEF CharAt, Negates
    <3> QED
      BY <1>3, <2>1, <3>1, <3>2, <3>3
  <2> QED
    BY <2>2, <2>3
<1>9. \A j \in Brackets(p, i) : j \in ends
  <2> SUFFICES ASSUME NEW j \in Brackets(p, i) PROVE j \in ends
    OBVIOUS
  <2>1. j \in (i + 2)..n /\ p[j] = "]" /\ (Negates(p, i) => j > i + 2) /\ i + 1 \in 1..n
    BY <1>1, <1>7 DEF Brackets
  <2>2. Negates(p, i) <=> CharAt(p, i + 1) \in {"!", "^"}
    BY <1>1, <2>1 DEF CharAt, Negates
  <2>3. first <= j
    BY <1>2, <1>3, <2>1, <2>2
  <2> QED
    BY <1>1, <1>4, <1>7, <2>1, <2>3
<1>10. \A j \in Brackets(p, i) : \A k \in ends : j <= k
  <2> SUFFICES ASSUME NEW j \in Brackets(p, i), NEW k \in ends, k < j PROVE FALSE
    BY <1>8, <1>9
  <2>1. k \in (i + 2)..n /\ (Negates(p, i) => k > i + 2) /\ p[k] = "]" /\ j \in (i + 2)..n
    BY <1>4, <1>8, <1>9
  <2>2. k \in (i + 2)..(j - 1)
    BY <2>1
  <2>3. k = i + 2 /\ Negates(p, i)
    BY <2>1, <2>2 DEF Brackets
  <2> QED
    BY <2>1, <2>3
<1>11. CASE ends = {}
  BY <1>5, <1>6, <1>9, <1>11
<1>12. CASE ends # {}
  <2>1. ends \subseteq Nat
    BY <1>8
  <2>2. end \in ends /\ \A k \in ends : end <= k
    BY <1>5, <1>12, <2>1, MinOf
  <2>3. end \in (i + 2)..n /\ end # 0 /\ p[end] = "]" /\ (Negates(p, i) => end > i + 2)
    BY <1>4, <1>8, <2>2
  <2>4. ASSUME NEW k \in (i + 2)..(end - 1), p[k] = "]" PROVE k = i + 2 /\ Negates(p, i)
    <3>1. k \notin ends /\ k \in 1..n
      BY <1>7, <2>2, <2>3
    <3>2. k < first /\ i + 1 \in 1..n
      BY <1>1, <1>4, <1>7, <2>3, <2>4, <3>1
    <3>3. Negates(p, i) <=> CharAt(p, i + 1) \in {"!", "^"}
      BY <1>1, <3>2 DEF CharAt, Negates
    <3>4. CASE CharAt(p, i + 1) \in {"!", "^"}
      BY <1>2, <1>3, <3>2, <3>3, <3>4
    <3>5. CASE CharAt(p, i + 1) \notin {"!", "^"}
      BY <1>2, <1>3, <3>2, <3>5
    <3> QED
      BY <3>4, <3>5
  <2>5. end \in Brackets(p, i)
    BY <1>1, <2>3, <2>4 DEF Brackets
  <2>6. \A j \in Brackets(p, i) : j = end
    <3> SUFFICES ASSUME NEW j \in Brackets(p, i) PROVE j = end
      OBVIOUS
    <3>1. j \in ends /\ j <= end
      BY <1>9, <1>10, <2>2
    <3>2. end <= j /\ j \in Nat
      BY <2>1, <2>2, <3>1
    <3> QED
      BY <2>3, <3>1, <3>2
  <2> QED
    BY <1>1, <1>6, <2>3, <2>5, <2>6
<1> QED
  BY <1>11, <1>12

\* The least of one.
LEMMA MinOfOne ==
  ASSUME NEW e
  PROVE  e \in Nat => Min({e}) = e
<1> SUFFICES ASSUME e \in Nat PROVE Min({e}) = e
  OBVIOUS
<1>1. Min({e}) \in {e}
  BY MinOf
<1> QED
  BY <1>1

\* A character of ASCII is quoted as itself.
LEMMA QuotedIs ==
  ASSUME NEW c, c \notin NonASCII
  PROVE  Quoted(c) = <<Char(c)>>
<1>1. OfBytes(c) = <<c>>
  BY DEF OfBytes
<1>2. DOMAIN <<c>> = 1..1 /\ \A k \in 1..1 : <<c>>[k] = c
  OBVIOUS
<1>3. Quoted(c) = [k \in 1..1 |-> Char(c)]
  BY <1>1, <1>2 DEF Quoted
<1>4. <<Char(c)>> = [k \in 1..1 |-> Char(c)]
  OBVIOUS
<1> QED
  BY <1>3, <1>4

\* The piece at i is one item, and it accepts what the reference says.
IsPiece(x, p, i) ==
  /\ x.kind = "many" <=> p[i] = "*"
  /\ p[i] # "*" => \A c : Accepts(x, c) <=> StandsFor(p, i, c)

\* At each index Compiled and the reference read the same piece.
LEMMA PieceIs ==
  ASSUME NEW C, C \cap NonASCII = {}, NEW p \in Seq(C), NEW i \in 1..Len(p)
  PROVE  /\ After(p, i) \in (i + 1)..(Len(p) + 1)
         /\ Piece(p, i).next = After(p, i)
         /\ p[i] = "*" => After(p, i) = i + 1
         /\ \E x : Piece(p, i).items = <<x>> /\ IsPiece(x, p, i)
<1>1. PICK n \in Nat : n = Len(p)
  OBVIOUS
<1>2. i \in 1..n /\ \A k \in 1..n : p[k] \in C
  BY <1>1
<1>3. CASE p[i] = "*"
  <2>1. Brackets(p, i) = {} /\ ~ Escapes(p, i)
    BY <1>3 DEF Brackets, Escapes
  <2>2. Piece(p, i) = [items |-> <<Many>>, next |-> i + 1]
    BY <1>3 DEF Piece
  <2>3. After(p, i) = i + 1
    BY <2>1 DEF After
  <2>4. IsPiece(Many, p, i)
    BY <1>3 DEF IsPiece, Many
  <2> QED
    BY <1>1, <1>2, <2>2, <2>3, <2>4
<1>4. CASE p[i] = "?"
  <2>1. Brackets(p, i) = {} /\ ~ Escapes(p, i)
    BY <1>4 DEF Brackets, Escapes
  <2>2. Piece(p, i) = [items |-> <<AnyChar>>, next |-> i + 1]
    BY <1>4 DEF Piece
  <2>3. After(p, i) = i + 1
    BY <2>1 DEF After
  <2>4. IsPiece(AnyChar, p, i)
    BY <1>4, <2>1 DEF IsPiece, AnyChar, Accepts, StandsFor
  <2> QED
    BY <1>1, <1>2, <1>4, <2>2, <2>3, <2>4
<1>5. CASE p[i] = "[" /\ ClassEnd(p, i) # 0
  <2>1. PICK end : end = ClassEnd(p, i)
    OBVIOUS
  <2>2. end \in (i + 2)..n /\ Brackets(p, i) = {end}
    BY <1>1, <1>5, <2>1, ClassEnds
  <2>3. Min(Brackets(p, i)) = end
    <3>1. end \in Nat
      BY <1>1, <2>2
    <3>2. Min({end}) = end
      BY <3>1, MinOfOne, Zenon
    <3> QED
      BY <2>2, <3>2, Zenon
  <2>4. PICK chars : chars = {p[k] : k \in (IF Negates(p, i) THEN i + 2 ELSE i + 1)..(end - 1)}
    OBVIOUS
  <2>5. i + 1 \in 1..n
    BY <1>2, <2>2
  <2>6. Negates(p, i) <=> CharAt(p, i + 1) \in {"!", "^"}
    BY <1>1, <2>5 DEF CharAt, Negates
  <2>7. Bracketed(p, i) = chars
    BY <2>3, <2>4 DEF Bracketed
  <2>8. PICK negated \in BOOLEAN : negated <=> CharAt(p, i + 1) \in {"!", "^"}
    <3>1. CASE CharAt(p, i + 1) \in {"!", "^"}
      BY <3>1
    <3>2. CASE CharAt(p, i + 1) \notin {"!", "^"}
      BY <3>2
    <3> QED
      BY <3>1, <3>2
  <2>9. Piece(p, i) = [items |-> <<Class(negated, chars)>>, next |-> end + 1]
    <3>1. p[i] = "[" /\ p[i] # "*" /\ p[i] # "?" /\ ClassEnd(p, i) # 0
      BY <1>5
    <3>2. CASE negated
      <4>1. CharAt(p, i + 1) \in {"!", "^"} /\ Negates(p, i) /\ negated = TRUE
        BY <2>6, <2>8, <3>2
      <4>2. chars = {p[k] : k \in (IF CharAt(p, i + 1) \in {"!", "^"} THEN i + 2 ELSE i + 1)
                                   ..(end - 1)}
        BY <2>4, <4>1
      <4>3. (CharAt(p, i + 1) \in {"!", "^"}) = TRUE
        BY <4>1
      <4> QED
        BY <2>1, <3>1, <4>1, <4>2, <4>3 DEF Piece
    <3>3. CASE ~ negated
      <4>1. CharAt(p, i + 1) \notin {"!", "^"} /\ ~ Negates(p, i) /\ negated = FALSE
        BY <2>6, <2>8, <3>3
      <4>2. chars = {p[k] : k \in (IF CharAt(p, i + 1) \in {"!", "^"} THEN i + 2 ELSE i + 1)
                                   ..(end - 1)}
        BY <2>4, <4>1
      <4>3. (CharAt(p, i + 1) \in {"!", "^"}) = FALSE
        BY <4>1
      <4> QED
        BY <2>1, <3>1, <4>1, <4>2, <4>3 DEF Piece
    <3> QED
      BY <3>2, <3>3
  <2>10. After(p, i) = end + 1
    BY <2>2, <2>3 DEF After
  <2>11. ASSUME NEW c PROVE Accepts(Class(negated, chars), c) <=> StandsFor(p, i, c)
    <3>1. Accepts(Class(negated, chars), c) <=> ((c \in chars) # negated)
      BY DEF Accepts, Class
    <3>2. StandsFor(p, i, c) <=> ((c \in chars) # Negates(p, i))
      BY <2>2, <2>7 DEF StandsFor
    <3>3. negated = Negates(p, i)
      BY <2>6, <2>8 DEF Negates
    <3> QED
      BY <3>1, <3>2, <3>3
  <2>12. IsPiece(Class(negated, chars), p, i)
    BY <1>5, <2>11 DEF IsPiece, Class
  <2> QED
    BY <1>1, <1>2, <1>5, <2>2, <2>9, <2>10, <2>12
<1>6. ASSUME p[i] # "*", p[i] # "?", ~ (p[i] = "[" /\ ClassEnd(p, i) # 0)
      PROVE  Brackets(p, i) = {}
  <2>1. CASE p[i] = "["
    BY <1>6, <2>1, ClassEnds
  <2>2. CASE p[i] # "["
    BY <2>2 DEF Brackets
  <2> QED
    BY <2>1, <2>2
<1>7. CASE p[i] # "*" /\ p[i] # "?" /\ ~ (p[i] = "[" /\ ClassEnd(p, i) # 0) /\ Escapes(p, i)
  <2>1. i + 1 \in 1..n /\ i + 2 \in (i + 1)..(n + 1)
    BY <1>1, <1>2, <1>7 DEF Escapes
  <2>2. p[i + 1] \notin NonASCII
    BY <1>2, <2>1
  <2>3. Piece(p, i) = [items |-> Quoted(p[i + 1]), next |-> i + 2]
    BY <1>7 DEF Piece, Escapes
  <2>4. After(p, i) = i + 2
    BY <1>6, <1>7 DEF After
  <2>5. IsPiece(Char(p[i + 1]), p, i)
    BY <1>6, <1>7 DEF IsPiece, Char, Accepts, StandsFor
  <2>6. Quoted(p[i + 1]) = <<Char(p[i + 1])>>
    BY <2>2, QuotedIs
  <2> QED
    BY <1>1, <1>7, <2>1, <2>3, <2>4, <2>5, <2>6
<1>8. CASE p[i] # "*" /\ p[i] # "?" /\ ~ (p[i] = "[" /\ ClassEnd(p, i) # 0) /\ ~ Escapes(p, i)
  <2>1. i + 1 \in (i + 1)..(n + 1)
    BY <1>2
  <2>2. p[i] \notin NonASCII
    BY <1>2
  <2>3. Piece(p, i) = [items |-> Quoted(p[i]), next |-> i + 1]
    BY <1>8 DEF Piece, Escapes
  <2>4. After(p, i) = i + 1
    BY <1>6, <1>8 DEF After
  <2>5. IsPiece(Char(p[i]), p, i)
    BY <1>6, <1>8 DEF IsPiece, Char, Accepts, StandsFor
  <2>6. Quoted(p[i]) = <<Char(p[i])>>
    BY <2>2, QuotedIs
  <2> QED
    BY <1>1, <1>8, <2>1, <2>3, <2>4, <2>5, <2>6
<1> QED
  BY <1>3, <1>4, <1>5, <1>7, <1>8

-----------------------------------------------------------------------------
(* Compiled and the reference Denotes are functions of where they begin.   *)

CompiledValue(f, p, k) ==
  IF k > Len(p) THEN << >> ELSE Piece(p, k).items \o f[Piece(p, k).next]

IsCompiled(f, p) ==
  f = [i \in 1..(Len(p) + 1) |->
         IF i > Len(p) THEN << >> ELSE Piece(p, i).items \o f[Piece(p, i).next]]

\* The items that pieces of p give.
ItemsOf(p) == {Piece(p, k).items[1] : k \in 1..Len(p)}

\* One item before a sequence of items.
LEMMA ConsIs ==
  ASSUME NEW T, NEW x \in T, NEW s \in Seq(T)
  PROVE  /\ <<x>> \o s \in Seq(T) /\ Len(<<x>> \o s) = Len(s) + 1
         /\ (<<x>> \o s)[1] = x /\ \A k \in 1..Len(s) : (<<x>> \o s)[k + 1] = s[k]
<1>1. <<x>> \in Seq(T) /\ Len(<<x>>) = 1 /\ <<x>>[1] = x
  OBVIOUS
<1>2. PICK y : y = <<x>>
  OBVIOUS
<1>3. y \in Seq(T) /\ Len(y) = 1 /\ y[1] = x
  BY <1>1, <1>2
<1>4. /\ y \o s \in Seq(T) /\ Len(y \o s) = Len(y) + Len(s)
      /\ \A i \in 1..(Len(y) + Len(s)) :
           (y \o s)[i] = IF i <= Len(y) THEN y[i] ELSE s[i - Len(y)]
  BY <1>3, ConcatProperties
<1>5. Len(s) \in Nat
  OBVIOUS
<1>6. (y \o s)[1] = x
  BY <1>3, <1>4, <1>5
<1>7. ASSUME NEW k \in 1..Len(s) PROVE (y \o s)[k + 1] = s[k]
  <2>1. k + 1 \in 1..(Len(y) + Len(s)) /\ ~ (k + 1 <= 1) /\ (k + 1) - 1 = k
    BY <1>3, <1>5
  <2> QED
    BY <1>3, <1>4, <2>1
<1> QED
  BY <1>2, <1>3, <1>4, <1>6, <1>7

\* Compiled is a function of where it begins,
LEMMA CompiledExists ==
  ASSUME NEW C, C \cap NonASCII = {}, NEW p \in Seq(C)
  PROVE  \E f \in [1..(Len(p) + 1) -> Seq(ItemsOf(p))] : IsCompiled(f, p)
<1>1. PICK n \in Nat : n = Len(p)
  OBVIOUS
<1>2. PICK V : V = Seq(ItemsOf(p))
  OBVIOUS
<1>3. PICK step : step = [k \in 1..(n + 1) |-> [g \in [(k + 1)..(n + 1) -> V] |->
                            CompiledValue(g, p, k)]]
  OBVIOUS
<1>4. ASSUME NEW k \in 1..(n + 1), NEW g \in [(k + 1)..(n + 1) -> V]
      PROVE  CompiledValue(g, p, k) \in V
  <2>1. CASE k > n
    BY <1>1, <1>2, <2>1 DEF CompiledValue
  <2>2. CASE k <= n
    <3>1. k \in 1..Len(p)
      BY <1>1, <2>2
    <3>2. PICK x : Piece(p, k).items = <<x>>
      BY <3>1, PieceIs
    <3>3. x \in ItemsOf(p)
      <4>1. <<x>>[1] = x
        OBVIOUS
      <4> QED
        BY <3>1, <3>2, <4>1 DEF ItemsOf
    <3>4. Piece(p, k).next \in (k + 1)..(n + 1)
      BY <1>1, <3>1, PieceIs
    <3>5. PICK s : s = g[Piece(p, k).next]
      OBVIOUS
    <3>6. s \in Seq(ItemsOf(p))
      BY <1>2, <3>4, <3>5
    <3>7. <<x>> \o s \in Seq(ItemsOf(p))
      BY <3>3, <3>6, ConsIs
    <3>8. CompiledValue(g, p, k) = <<x>> \o s
      BY <1>1, <2>2, <3>2, <3>5 DEF CompiledValue
    <3> QED
      BY <1>2, <3>7, <3>8
  <2> QED
    BY <2>1, <2>2
<1>5. \A k \in 1..(n + 1) : \A g \in [(k + 1)..(n + 1) -> V] : step[k][g] \in V
  BY <1>3, <1>4
<1>6. PICK f \in [1..(n + 1) -> V] : Backward(f, step, n)
  BY <1>5, BackwardExists
<1>7. ASSUME NEW k \in 1..(n + 1) PROVE f[k] = CompiledValue(f, p, k)
  <2>1. \A j \in (k + 1)..(n + 1) : j \in 1..(n + 1)
    OBVIOUS
  <2>2. PICK g : g = Later(f, k, n)
    OBVIOUS
  <2>3. g \in [(k + 1)..(n + 1) -> V] /\ \A j \in (k + 1)..(n + 1) : g[j] = f[j]
    BY <2>1, <2>2 DEF Later
  <2>4. f[k] = CompiledValue(g, p, k)
    BY <1>3, <1>6, <2>2, <2>3 DEF Backward
  <2>5. CASE k <= n
    <3>1. Piece(p, k).next \in (k + 1)..(n + 1)
      BY <1>1, <2>5, PieceIs
    <3>2. g[Piece(p, k).next] = f[Piece(p, k).next]
      BY <2>3, <3>1
    <3> QED
      BY <2>4, <3>2 DEF CompiledValue
  <2>6. CASE k > n
    BY <1>1, <2>4, <2>6 DEF CompiledValue
  <2> QED
    BY <2>5, <2>6
<1>8. f = [k \in 1..(Len(p) + 1) |-> CompiledValue(f, p, k)]
  BY <1>1, <1>7
<1> QED
  BY <1>1, <1>2, <1>8, Zenon DEF IsCompiled, CompiledValue

\* What Compiled computes: f[i] are the items of what begins at i.
IsSuffixItems(f, p) ==
  /\ \A i \in 1..(Len(p) + 1) : f[i] \in Seq(ItemsOf(p))
  /\ f[Len(p) + 1] = << >>
  /\ \A i \in 1..Len(p) : \E x \in ItemsOf(p) :
       IsPiece(x, p, i) /\ f[i] = <<x>> \o f[After(p, i)]

\* and yields its value at 1.
LEMMA CompiledIs ==
  ASSUME NEW C, C \cap NonASCII = {}, NEW p \in Seq(C)
  PROVE  \E f : IsSuffixItems(f, p) /\ Compiled(p) = f[1]
<1>1. PICK f : f = CHOOSE g : IsCompiled(g, p)
  OBVIOUS
<1>2. Compiled(p) = f[1]
  BY <1>1 DEF Compiled, IsCompiled
<1>3. IsCompiled(f, p)
  BY <1>1, CompiledExists
<1>4. f = [k \in 1..(Len(p) + 1) |-> CompiledValue(f, p, k)]
  BY <1>3, Zenon DEF IsCompiled, CompiledValue
<1>5. PICK n \in Nat : n = Len(p)
  OBVIOUS
<1>9. \A k \in 1..(Len(p) + 1) : f[k] = CompiledValue(f, p, k)
  <2>1. PICK g : g = [k \in 1..(Len(p) + 1) |-> CompiledValue(f, p, k)]
    OBVIOUS
  <2> QED
    BY <1>4, <2>1
<1>6. f[Len(p) + 1] = << >>
  <2>1. Len(p) + 1 \in 1..(Len(p) + 1) /\ Len(p) + 1 > Len(p)
    BY <1>5
  <2>2. f[Len(p) + 1] = CompiledValue(f, p, Len(p) + 1)
    BY <1>9, <2>1
  <2> QED
    BY <2>1, <2>2 DEF CompiledValue
<1>7. ASSUME NEW i \in 1..Len(p)
      PROVE  \E x \in ItemsOf(p) : IsPiece(x, p, i) /\ f[i] = <<x>> \o f[After(p, i)]
  <2>1. PICK x : Piece(p, i).items = <<x>> /\ IsPiece(x, p, i)
    BY PieceIs
  <2>2. Piece(p, i).next = After(p, i)
    BY PieceIs
  <2>3. x \in ItemsOf(p)
    <3>1. <<x>>[1] = x
      OBVIOUS
    <3> QED
      BY <2>1, <3>1 DEF ItemsOf
  <2>4. i \in 1..(Len(p) + 1) /\ ~ (i > Len(p))
    BY <1>5
  <2>5. f[i] = CompiledValue(f, p, i)
    BY <1>9, <2>4
  <2>6. CompiledValue(f, p, i) = <<x>> \o f[After(p, i)]
    BY <2>1, <2>2, <2>4 DEF CompiledValue
  <2> QED
    BY <2>1, <2>3, <2>5, <2>6
<1>8. \A i \in 1..(Len(p) + 1) : f[i] \in Seq(ItemsOf(p))
  <2>1. PICK X : X = {i \in 1..(n + 1) : f[i] \in Seq(ItemsOf(p))}
    OBVIOUS
  <2>2. n + 1 \in X
    <3>1. PICK e, S : e = << >> /\ S = Seq(ItemsOf(p))
      OBVIOUS
    <3>2. e \in S
      BY <3>1
    <3>3. f[n + 1] = e /\ n + 1 \in 1..(n + 1)
      BY <1>5, <1>6, <3>1
    <3> QED
      BY <2>1, <3>1, <3>2, <3>3, Zenon
  <2>3. ASSUME NEW i \in 1..n, \A j \in (i + 1)..(n + 1) : j \in X PROVE i \in X
    <3>1. PICK x \in ItemsOf(p) : f[i] = <<x>> \o f[After(p, i)]
      BY <1>5, <1>7
    <3>2. After(p, i) \in (i + 1)..(n + 1)
      BY <1>5, PieceIs
    <3>3. PICK s : s = f[After(p, i)]
      OBVIOUS
    <3>4. s \in Seq(ItemsOf(p))
      BY <2>1, <2>3, <3>2, <3>3
    <3>5. <<x>> \o s \in Seq(ItemsOf(p))
      BY <3>4, ConsIs
    <3>6. f[i] \in Seq(ItemsOf(p))
      BY <3>1, <3>3, <3>5, Zenon
    <3>7. i \in 1..(n + 1)
      OBVIOUS
    <3> QED
      BY <2>1, <3>6, <3>7, Zenon
  <2>4. \A i \in 1..(n + 1) : i \in X
    BY <2>2, <2>3, DownInduct
  <2> QED
    BY <1>5, <2>1, <2>4
<1> QED
  BY <1>2, <1>6, <1>7, <1>8 DEF IsSuffixItems

-----------------------------------------------------------------------------

PlacesValue(f, p, text, i) ==
  IF i > Len(p) THEN {Len(text) + 1}
  ELSE IF p[i] = "*"
  THEN {j \in 1..(Len(text) + 1) :
          \E k \in f[i + 1] : j <= k /\ Newline \notin {text[l] : l \in j..(k - 1)}}
  ELSE {j \in DOMAIN text : StandsFor(p, i, text[j]) /\ j + 1 \in f[After(p, i)]}

IsPlaces(f, p, text) ==
  f = [i \in 1..(Len(p) + 1) |->
        IF i > Len(p) THEN {Len(text) + 1}
        ELSE IF p[i] = "*"
        THEN {j \in 1..(Len(text) + 1) :
                \E k \in f[i + 1] : j <= k /\ Newline \notin {text[l] : l \in j..(k - 1)}}
        ELSE {j \in DOMAIN text : StandsFor(p, i, text[j]) /\ j + 1 \in f[After(p, i)]}]

\* So are the places of the reference,
LEMMA PlacesExist ==
  ASSUME NEW C, C \cap NonASCII = {}, NEW p \in Seq(C), NEW D, NEW text \in Seq(D)
  PROVE  \E f : IsPlaces(f, p, text)
<1>1. PICK n \in Nat : n = Len(p)
  OBVIOUS
<1>2. PICK V : V = SUBSET (1..(Len(text) + 1))
  OBVIOUS
<1>3. PICK step : step = [k \in 1..(n + 1) |-> [g \in [(k + 1)..(n + 1) -> V] |->
                            PlacesValue(g, p, text, k)]]
  OBVIOUS
<1>4. ASSUME NEW k \in 1..(n + 1), NEW g \in [(k + 1)..(n + 1) -> V]
      PROVE  PlacesValue(g, p, text, k) \in V
  <2>1. DOMAIN text = 1..Len(text) /\ Len(text) \in Nat
    OBVIOUS
  <2> QED
    BY <1>2, <2>1 DEF PlacesValue
<1>5. \A k \in 1..(n + 1) : \A g \in [(k + 1)..(n + 1) -> V] : step[k][g] \in V
  BY <1>3, <1>4
<1>6. PICK f \in [1..(n + 1) -> V] : Backward(f, step, n)
  BY <1>5, BackwardExists
<1>7. ASSUME NEW k \in 1..(n + 1) PROVE f[k] = PlacesValue(f, p, text, k)
  <2>1. \A j \in (k + 1)..(n + 1) : j \in 1..(n + 1)
    OBVIOUS
  <2>2. PICK g : g = Later(f, k, n)
    OBVIOUS
  <2>3. g \in [(k + 1)..(n + 1) -> V] /\ \A j \in (k + 1)..(n + 1) : g[j] = f[j]
    BY <2>1, <2>2 DEF Later
  <2>4. f[k] = PlacesValue(g, p, text, k)
    BY <1>3, <1>6, <2>2, <2>3 DEF Backward
  <2>5. CASE k <= n
    <3>1. After(p, k) \in (k + 1)..(n + 1) /\ k + 1 \in (k + 1)..(n + 1)
      BY <1>1, <2>5, PieceIs
    <3>2. g[After(p, k)] = f[After(p, k)] /\ g[k + 1] = f[k + 1]
      BY <2>3, <3>1
    <3> QED
      BY <2>4, <3>2, Zenon DEF PlacesValue
  <2>6. CASE k > n
    BY <1>1, <2>4, <2>6 DEF PlacesValue
  <2> QED
    BY <2>5, <2>6
<1>8. f = [k \in 1..(Len(p) + 1) |-> PlacesValue(f, p, text, k)]
  BY <1>1, <1>7
<1> QED
  BY <1>8, Zenon DEF IsPlaces, PlacesValue

\* and Denotes asks for the first of them.
LEMMA DenotesIs ==
  ASSUME NEW C, C \cap NonASCII = {}, NEW p \in Seq(C), NEW D, NEW text \in Seq(D)
  PROVE  \E f : /\ \A i \in 1..(Len(p) + 1) : f[i] = PlacesValue(f, p, text, i)
                /\ Denotes(p, text) <=> 1 \in f[1]
<1>1. PICK f : f = CHOOSE g : IsPlaces(g, p, text)
  OBVIOUS
<1>2. Denotes(p, text) <=> 1 \in f[1]
  BY <1>1 DEF Denotes, IsPlaces
<1>3. IsPlaces(f, p, text)
  BY <1>1, PlacesExist
<1>4. f = [i \in 1..(Len(p) + 1) |-> PlacesValue(f, p, text, i)]
  BY <1>3, Zenon DEF IsPlaces, PlacesValue
<1>5. \A i \in 1..(Len(p) + 1) : f[i] = PlacesValue(f, p, text, i)
  BY <1>4
<1> QED
  BY <1>2, <1>5

-----------------------------------------------------------------------------
(* What compiled patterns match is what the reference says.                *)

IsStartsOf(f, items, text, end) ==
  /\ \A k \in 1..(Len(items) + 1) : f[k] = StartsValue(f, items, text, end, k)
  /\ f \in [1..(Len(items) + 1) -> SUBSET (1..end)]
  /\ Starts(items, text, end) = f[1]

\* The places from which items match up to end, with their types.
LEMMA StartsOfExist ==
  ASSUME NEW T, NEW items \in Seq(T), NEW text, NEW end \in Nat \ {0}
  PROVE  \E f : IsStartsOf(f, items, text, end)
<1>1. PICK f : /\ IsStarts(f, items, text, end) /\ Starts(items, text, end) = f[1]
               /\ f \in [1..(Len(items) + 1) -> SUBSET (1..end)]
  BY StartsIs
<1>2. PICK g : g = [k \in 1..(Len(items) + 1) |-> StartsValue(f, items, text, end, k)]
  OBVIOUS
<1>3. f = g
  BY <1>1, <1>2, Zenon DEF IsStarts, StartsValue
<1>4. \A k \in 1..(Len(items) + 1) : f[k] = StartsValue(f, items, text, end, k)
  BY <1>2, <1>3
<1>5. IsStartsOf(f, items, text, end)
  BY <1>1, <1>4, Zenon DEF IsStartsOf
<1> QED
  BY <1>5

\* No items match nothing but the empty text.
LEMMA StartsOfNone ==
  ASSUME NEW text, NEW end \in Nat \ {0}
  PROVE  Starts(<< >>, text, end) = {end}
<1>1. PICK items : items = << >>
  OBVIOUS
<1>2. items \in Seq({}) /\ Len(items) = 0
  BY <1>1
<1>3. PICK f : /\ \A k \in 1..(Len(items) + 1) : f[k] = StartsValue(f, items, text, end, k)
               /\ Starts(items, text, end) = f[1]
  <2>1. PICK T : T = {}
    OBVIOUS
  <2>2. items \in Seq(T)
    BY <1>2, <2>1
  <2> QED
    <3>1. PICK g : IsStartsOf(g, items, text, end)
      BY <2>2, StartsOfExist
    <3> QED
      BY <3>1, Zenon DEF IsStartsOf
<1>4. f[1] = StartsValue(f, items, text, end, 1)
  BY <1>2, <1>3
<1>5. StartsValue(f, items, text, end, 1) = {end}
  BY <1>2 DEF StartsValue
<1>6. Starts(items, text, end) = {end}
  BY <1>3, <1>4, <1>5
<1> QED
  BY <1>1, <1>6, Zenon

\* The places from which x and what matches from later on match.
FrontOf(x, text, end, later) ==
  IF x.kind = "many"
  THEN {i \in 1..end : \E j \in later : i <= j /\ InOneLine(text, i, j)}
  ELSE {i \in 1..(end - 1) : Accepts(x, text[i]) /\ i + 1 \in later}

\* Starts of one item and the rest.
LEMMA StartsOfCons ==
  ASSUME NEW T, NEW x \in T, NEW s \in Seq(T), NEW text, NEW end \in Nat \ {0}
  PROVE  Starts(<<x>> \o s, text, end) = FrontOf(x, text, end, Starts(s, text, end))
<1>1. PICK t : t = <<x>> \o s
  OBVIOUS
<1>2. PICK n \in Nat : n = Len(s)
  OBVIOUS
<1>3. /\ t \in Seq(T) /\ Len(t) = n + 1 /\ t[1] = x
      /\ \A k \in 1..n : t[k + 1] = s[k]
  BY <1>1, <1>2, ConsIs
<1>4. PICK f : /\ \A k \in 1..(Len(t) + 1) : f[k] = StartsValue(f, t, text, end, k)
               /\ Starts(t, text, end) = f[1]
  <2>1. PICK g : IsStartsOf(g, t, text, end)
    BY <1>3, StartsOfExist
  <2> QED
    BY <2>1, Zenon DEF IsStartsOf
<1>5. PICK g : /\ \A k \in 1..(Len(s) + 1) : g[k] = StartsValue(g, s, text, end, k)
               /\ Starts(s, text, end) = g[1]
  <2>1. PICK h : IsStartsOf(h, s, text, end)
    BY StartsOfExist
  <2> QED
    BY <2>1, Zenon DEF IsStartsOf
<1>6. PICK X : X = {k \in 1..(n + 1) : f[k + 1] = g[k]}
  OBVIOUS
<1>7. n + 1 \in X
  <2>1. n + 1 > n /\ (n + 1) + 1 > n + 1 /\ (n + 1) + 1 \in 1..((n + 1) + 1) /\ n + 1 \in 1..(n + 1)
    OBVIOUS
  <2>2. f[(n + 1) + 1] = StartsValue(f, t, text, end, (n + 1) + 1)
    BY <1>3, <1>4, <2>1
  <2>3. g[n + 1] = StartsValue(g, s, text, end, n + 1)
    BY <1>2, <1>5, <2>1
  <2>4. StartsValue(f, t, text, end, (n + 1) + 1) = {end}
    BY <1>3, <2>1 DEF StartsValue
  <2>5. StartsValue(g, s, text, end, n + 1) = {end}
    BY <1>2, <2>1 DEF StartsValue
  <2> QED
    BY <1>6, <2>1, <2>2, <2>3, <2>4, <2>5
<1>8. ASSUME NEW k \in 1..n, \A j \in (k + 1)..(n + 1) : j \in X PROVE k \in X
  <2>1. /\ ~ (k > n) /\ ~ (k + 1 > n + 1) /\ k + 1 \in 1..((n + 1) + 1) /\ k \in 1..(n + 1)
        /\ k + 1 \in (k + 1)..(n + 1)
    OBVIOUS
  <2>2. f[(k + 1) + 1] = g[k + 1]
    BY <1>6, <1>8, <2>1
  <2>3. f[k + 1] = StartsValue(f, t, text, end, k + 1)
    BY <1>3, <1>4, <2>1
  <2>4. g[k] = StartsValue(g, s, text, end, k)
    BY <1>2, <1>5, <2>1
  <2>5. t[k + 1] = s[k]
    BY <1>3
  <2>6. StartsValue(f, t, text, end, k + 1) = StartsValue(g, s, text, end, k)
    <3>1. ~ (k > Len(s)) /\ ~ (k + 1 > Len(t))
      BY <1>2, <1>3, <2>1
    <3> QED
      BY <2>2, <2>5, <3>1, Zenon DEF StartsValue
  <2> QED
    BY <1>6, <2>1, <2>3, <2>4, <2>6
<1>9. f[2] = g[1]
  <2>1. \A k \in 1..(n + 1) : k \in X
    BY <1>7, <1>8, DownInduct
  <2>2. 1 \in 1..(n + 1) /\ 1 + 1 = 2
    OBVIOUS
  <2> QED
    BY <1>6, <2>1, <2>2
<1>10. f[1] = StartsValue(f, t, text, end, 1)
  <2>1. 1 \in 1..(Len(t) + 1)
    BY <1>3
  <2> QED
    BY <1>4, <2>1
<1>11. ~ (1 > Len(t)) /\ 1 + 1 = 2
  BY <1>3
<1>12. StartsValue(f, t, text, end, 1) = FrontOf(x, text, end, f[2])
  BY <1>3, <1>11, Zenon DEF StartsValue, FrontOf
<1>13. Starts(t, text, end) = StartsValue(f, t, text, end, 1) /\ f[2] = Starts(s, text, end)
  BY <1>4, <1>5, <1>9, <1>10
<1> QED
  BY <1>1, <1>12, <1>13, Zenon

\* A compiled pattern matches a text if and only if the pattern denotes it.
LEMMA MatchIsDenotes ==
  ASSUME NEW C, C \cap NonASCII = {}, NEW p \in Seq(C), NEW D, NEW text \in Seq(D)
  PROVE  ShellPatternMatch(p, text) <=> Denotes(p, text)
<1>1. PICK f : IsSuffixItems(f, p) /\ Compiled(p) = f[1]
  BY CompiledIs
<1>2. PICK h : /\ \A i \in 1..(Len(p) + 1) : h[i] = PlacesValue(h, p, text, i)
               /\ Denotes(p, text) <=> 1 \in h[1]
  BY DenotesIs
<1>3. PICK n \in Nat, end \in Nat \ {0} : n = Len(p) /\ end = Len(text) + 1
  OBVIOUS
<1>4. PICK X : X = {i \in 1..(n + 1) : Starts(f[i], text, end) = h[i]}
  OBVIOUS
<1>5. n + 1 \in X
  <2>1. n + 1 > n /\ n + 1 \in 1..(n + 1)
    OBVIOUS
  <2>2. h[n + 1] = {end}
    <3>1. h[n + 1] = PlacesValue(h, p, text, n + 1)
      BY <1>2, <1>3, <2>1
    <3>2. PlacesValue(h, p, text, n + 1) = {end}
      BY <1>3, <2>1 DEF PlacesValue
    <3> QED
      BY <3>1, <3>2
  <2>3. Starts(f[n + 1], text, end) = {end}
    <3>1. PICK e : e = << >>
      OBVIOUS
    <3>2. f[n + 1] = e
      BY <1>1, <1>3, <3>1 DEF IsSuffixItems
    <3>3. Starts(e, text, end) = {end}
      BY <3>1, StartsOfNone
    <3> QED
      BY <3>2, <3>3, Zenon
  <2> QED
    BY <1>4, <2>1, <2>2, <2>3
<1>6. ASSUME NEW i \in 1..n, \A j \in (i + 1)..(n + 1) : j \in X PROVE i \in X
  <2>1. /\ After(p, i) \in (i + 1)..(n + 1)
        /\ p[i] = "*" => After(p, i) = i + 1
    BY <1>3, PieceIs
  <2>2. PICK x \in ItemsOf(p) : IsPiece(x, p, i) /\ f[i] = <<x>> \o f[After(p, i)]
    BY <1>1, <1>3 DEF IsSuffixItems
  <2>3. PICK s : s = f[After(p, i)]
    OBVIOUS
  <2>4. s \in Seq(ItemsOf(p))
    <3>1. After(p, i) \in 1..(n + 1)
      BY <2>1
    <3> QED
      BY <1>1, <1>3, <2>3, <3>1 DEF IsSuffixItems
  <2>5. Starts(s, text, end) = h[After(p, i)]
    BY <1>4, <1>6, <2>1, <2>3
  <2>6. Starts(f[i], text, end) = FrontOf(x, text, end, h[After(p, i)])
    <3>1. Starts(<<x>> \o s, text, end) = FrontOf(x, text, end, Starts(s, text, end))
      BY <2>4, StartsOfCons
    <3>2. f[i] = <<x>> \o s
      BY <2>2, <2>3, Zenon
    <3> QED
      BY <2>5, <3>1, <3>2, Zenon
  <2>7. h[i] = PlacesValue(h, p, text, i) /\ ~ (i > Len(p)) /\ i \in 1..(n + 1)
    BY <1>2, <1>3
  <2>8. CASE p[i] = "*"
    <3>1. x.kind = "many" /\ After(p, i) = i + 1
      BY <2>1, <2>2, <2>8 DEF IsPiece
    <3>2. PlacesValue(h, p, text, i) =
            {j \in 1..end :
               \E k \in h[i + 1] : j <= k /\ Newline \notin {text[l] : l \in j..(k - 1)}}
      BY <1>3, <2>7, <2>8 DEF PlacesValue
    <3>3. \A j, k : Newline \notin {text[l] : l \in j..(k - 1)} <=> InOneLine(text, j, k)
      BY DEF InOneLine
    <3>4. Starts(f[i], text, end) =
            {k \in 1..end : \E j \in h[i + 1] : k <= j /\ InOneLine(text, k, j)}
      BY <2>6, <3>1 DEF FrontOf
    <3>5. Starts(f[i], text, end) = h[i]
      BY <2>7, <3>2, <3>3, <3>4
    <3> QED
      BY <1>4, <2>7, <3>5
  <2>9. CASE p[i] # "*"
    <3>1. x.kind # "many" /\ \A c : Accepts(x, c) <=> StandsFor(p, i, c)
      BY <2>2, <2>9 DEF IsPiece
    <3>2. PlacesValue(h, p, text, i) =
            {j \in DOMAIN text : StandsFor(p, i, text[j]) /\ j + 1 \in h[After(p, i)]}
      BY <2>7, <2>9 DEF PlacesValue
    <3>3. DOMAIN text = 1..(end - 1)
      BY <1>3
    <3>4. Starts(f[i], text, end) =
            {k \in 1..(end - 1) : Accepts(x, text[k]) /\ k + 1 \in h[After(p, i)]}
      BY <2>6, <3>1 DEF FrontOf
    <3>5. Starts(f[i], text, end) = h[i]
      BY <2>7, <3>1, <3>2, <3>3, <3>4
    <3> QED
      BY <1>4, <2>7, <3>5
  <2> QED
    BY <2>8, <2>9
<1>7. Starts(f[1], text, end) = h[1]
  <2>1. \A i \in 1..(n + 1) : i \in X
    BY <1>5, <1>6, DownInduct
  <2>2. 1 \in 1..(n + 1)
    OBVIOUS
  <2> QED
    BY <1>4, <2>1, <2>2
<1> QED
  BY <1>1, <1>2, <1>3, <1>7 DEF ShellPatternMatch, FullMatch

-----------------------------------------------------------------------------

\* Patterns of characters in ASCII: of another one compileShellPattern quotes
\* the bytes, and nothing matches it.
PatternsPlain == PatternChars \cap NonASCII = {}

\* What Init chooses from is a sequence.
LEMMA BoundedSeqIs ==
  ASSUME NEW n, NEW S, NEW s \in BoundedSeq(S, n), n \in Nat
  PROVE  s \in Seq(S)
<1>1. PICK k \in 0..n : s \in [1..k -> S]
  BY DEF BoundedSeq, SeqOf
<1> QED
  BY <1>1

\* Prefixes and suffixes of a text are texts.
LEMMA PartsAre ==
  ASSUME NEW D, NEW text \in Seq(D), NEW i \in 0..Len(text)
  PROVE  UpTo(text, i) \in Seq(D) /\ From(text, i + 1) \in Seq(D)
<1>1. PICK n \in Nat : n = Len(text)
  OBVIOUS
<1>2. \A k \in 1..i : k \in 1..n
  BY <1>1
<1>3. SubSeq(text, 1, i) \in Seq(D)
  <2>1. \A k \in 1..i : text[k] \in D
    BY <1>1, <1>2
  <2> QED
    BY <2>1, SubSeqProperties
<1>4. SubSeq(text, i + 1, Len(text)) \in Seq(D)
  <2>1. \A k \in (i + 1)..Len(text) : text[k] \in D
    BY <1>1
  <2> QED
    BY <2>1, SubSeqProperties
<1> QED
  BY <1>3, <1>4 DEF UpTo, From

PatternInv ==
  /\ PatternsPlain /\ subject.kind = "pattern"
  /\ subject.pattern \in Seq(PatternChars) /\ subject.text \in Seq(TextChars)

\* The subject stays a pattern and a text.
LEMMA PatternInvInductive ==
  /\ PatternsPlain /\ PatternInit => PatternInv
  /\ PatternInv /\ [Next]_subject => PatternInv'
<1>1. ASSUME PatternsPlain, PatternInit PROVE PatternInv
  <2>1. PICK pattern \in BoundedSeq(PatternChars, MaxPattern),
             text \in BoundedSeq(TextChars, MaxText) :
          subject = [kind |-> "pattern", pattern |-> pattern, text |-> text]
    BY <1>1 DEF PatternInit
  <2>2. pattern \in Seq(PatternChars) /\ text \in Seq(TextChars)
    BY BoundedSeqIs, BoundsAssumption
  <2> QED
    BY <1>1, <2>1, <2>2 DEF PatternInv
<1>2. ASSUME PatternInv, [Next]_subject PROVE PatternInv'
  BY <1>2 DEF PatternInv, PatternsPlain, Next
<1> QED
  BY <1>1, <1>2

\* The four removals, for one pattern and one text.
LEMMA RemovesExtremes ==
  PatternInv => RemovalIsExtreme
<1> SUFFICES ASSUME PatternInv PROVE RemovalIsExtreme
  OBVIOUS
<1>1. PICK p, text, n : p = subject.pattern /\ text = subject.text /\ n = Len(subject.text)
  OBVIOUS
<1>2. /\ p \in Seq(PatternChars) /\ text \in Seq(TextChars) /\ n = Len(text)
      /\ PatternChars \cap NonASCII = {}
  BY <1>1 DEF PatternInv, PatternsPlain
<1>3. \A i \in 0..n : /\ ShellPatternMatch(p, UpTo(text, i)) <=> Denotes(p, UpTo(text, i))
                      /\ ShellPatternMatch(p, From(text, i + 1)) <=> Denotes(p, From(text, i + 1))
  <2> SUFFICES ASSUME NEW i \in 0..n
               PROVE  /\ ShellPatternMatch(p, UpTo(text, i)) <=> Denotes(p, UpTo(text, i))
                      /\ ShellPatternMatch(p, From(text, i + 1)) <=> Denotes(p, From(text, i + 1))
    OBVIOUS
  <2>1. UpTo(text, i) \in Seq(TextChars) /\ From(text, i + 1) \in Seq(TextChars)
    BY <1>2, PartsAre
  <2> QED
    BY <1>2, <2>1, MatchIsDenotes
<1>4. PICK heads : heads = {i \in 0..n : Denotes(p, UpTo(text, i))}
  OBVIOUS
<1>5. PICK tails : tails = {i \in 0..n : Denotes(p, From(text, i + 1))}
  OBVIOUS
<1>6. heads = {i \in 0..Len(text) : ShellPatternMatch(p, UpTo(text, i))}
  BY <1>2, <1>3, <1>4
<1>7. tails = {i \in 0..Len(text) : ShellPatternMatch(p, From(text, i + 1))}
  BY <1>2, <1>3, <1>5
<1>8. /\ RemoveParameterPattern(text, p, "#") =
           IF heads = {} THEN text ELSE From(text, Min(heads) + 1)
      /\ RemoveParameterPattern(text, p, "##") =
           IF heads = {} THEN text ELSE From(text, Max(heads) + 1)
      /\ RemoveParameterPattern(text, p, "%") =
           IF tails = {} THEN text ELSE UpTo(text, Max(tails))
      /\ RemoveParameterPattern(text, p, "%%") =
           IF tails = {} THEN text ELSE UpTo(text, Min(tails))
  BY <1>6, <1>7 DEF RemoveParameterPattern
<1> QED
  BY <1>1, <1>4, <1>5, <1>8 DEF RemovalIsExtreme

\* Theorem: for any plain characters, patterns and texts of any length, ${x#p},
\* ${x##p}, ${x%p} and ${x%%p} remove the shortest and longest prefix and suffix
\* that the pattern denotes, and nothing if there is none.
THEOREM RemovesShortestAndLongest ==
  PatternsPlain /\ PatternInit /\ [][Next]_subject => []RemovalIsExtreme
BY PatternInvInductive, RemovesExtremes, PTL

-----------------------------------------------------------------------------
(* Where a match of part of a text begins.                                 *)

\* Items match a part of a text if and only if they match from where it begins to
\* where it ends.
LEMMA SubtextMatches ==
  ASSUME NEW T, NEW items \in Seq(T), NEW D, NEW text \in Seq(D),
         NEW i \in 1..(Len(text) + 1), NEW e \in i..(Len(text) + 1)
  PROVE  FullMatch(items, SubSeq(text, i, e - 1)) <=> i \in Starts(items, text, e)
<1>1. PICK t : t = SubSeq(text, i, e - 1)
  OBVIOUS
<1>2. PICK d \in Nat \ {0} : d = (e - i) + 1
  OBVIOUS
<1>3. \A l \in i..(e - 1) : text[l] \in D
  <2>1. \A l \in i..(e - 1) : l \in 1..Len(text)
    OBVIOUS
  <2> QED
    BY <2>1
<1>4. /\ t \in Seq(D) /\ Len(t) = d - 1
      /\ \A l \in 1..(d - 1) : t[l] = text[(l + i) - 1]
  <2>1. PICK a : a = e - 1
    OBVIOUS
  <2>2. a \in Int /\ i \in Int /\ \A l \in i..a : text[l] \in D
    BY <1>3, <2>1
  <2>3. /\ SubSeq(text, i, a) \in Seq(D)
        /\ Len(SubSeq(text, i, a)) = IF i <= a THEN a - i + 1 ELSE 0
        /\ \A l \in 1..(a - i + 1) : SubSeq(text, i, a)[l] = text[i + l - 1]
    BY <2>2, SubSeqProperties
  <2>4. t = SubSeq(text, i, a)
    BY <1>1, <2>1
  <2>5. Len(t) = d - 1
    BY <1>2, <2>1, <2>3, <2>4
  <2>6. ASSUME NEW l \in 1..(d - 1) PROVE t[l] = text[(l + i) - 1]
    <3>1. l \in 1..(a - i + 1) /\ i + l - 1 = (l + i) - 1
      BY <1>2, <2>1
    <3> QED
      BY <2>3, <2>4, <3>1
  <2> QED
    BY <2>3, <2>4, <2>5, <2>6
<1>5. PICK f : IsStartsOf(f, items, t, d)
  BY StartsOfExist
<1>6. PICK g : IsStartsOf(g, items, text, e)
  <2>1. e \in Nat \ {0}
    OBVIOUS
  <2> QED
    BY <2>1, StartsOfExist
<1>7. PICK n \in Nat : n = Len(items)
  OBVIOUS
<1>8. PICK X : X = {k \in 1..(n + 1) : \A j \in 1..d : j \in f[k] <=> (j + i) - 1 \in g[k]}
  OBVIOUS
<1>9. n + 1 \in X
  <2>1. n + 1 > n /\ n + 1 \in 1..(n + 1)
    OBVIOUS
  <2>2. f[n + 1] = StartsValue(f, items, t, d, n + 1)
    BY <1>5, <1>7, <2>1 DEF IsStartsOf
  <2>3. g[n + 1] = StartsValue(g, items, text, e, n + 1)
    BY <1>6, <1>7, <2>1 DEF IsStartsOf
  <2>4. f[n + 1] = {d} /\ g[n + 1] = {e}
    BY <1>7, <2>1, <2>2, <2>3 DEF StartsValue
  <2>5. \A j \in 1..d : j = d <=> (j + i) - 1 = e
    BY <1>2
  <2> QED
    BY <1>8, <2>1, <2>4, <2>5
<1>10. ASSUME NEW k \in 1..n, \A j \in (k + 1)..(n + 1) : j \in X PROVE k \in X
  <2>1. k + 1 \in (k + 1)..(n + 1) /\ k \in 1..(n + 1) /\ k + 1 \in 1..(n + 1) /\ ~ (k > n)
    OBVIOUS
  <2>2. \A j \in 1..d : j \in f[k + 1] <=> (j + i) - 1 \in g[k + 1]
    BY <1>8, <1>10, <2>1
  <2>3. f[k + 1] \subseteq 1..d /\ g[k + 1] \subseteq 1..e
    BY <1>5, <1>6, <1>7, <2>1 DEF IsStartsOf
  <2>4. f[k] = StartsValue(f, items, t, d, k) /\ g[k] = StartsValue(g, items, text, e, k)
    BY <1>5, <1>6, <1>7, <2>1 DEF IsStartsOf
  <2>5. CASE items[k].kind = "many"
    <3>1. f[k] = {j \in 1..d : \E m \in f[k + 1] : j <= m /\ InOneLine(t, j, m)}
      BY <1>7, <2>1, <2>4, <2>5 DEF StartsValue
    <3>2. g[k] = {j \in 1..e : \E m \in g[k + 1] : j <= m /\ InOneLine(text, j, m)}
      BY <1>7, <2>1, <2>4, <2>5 DEF StartsValue
    <3>3. ASSUME NEW j \in 1..d, NEW m \in 1..d
          PROVE  InOneLine(t, j, m) <=> InOneLine(text, (j + i) - 1, (m + i) - 1)
      <4>1. ASSUME InOneLine(t, j, m) PROVE InOneLine(text, (j + i) - 1, (m + i) - 1)
        <5> SUFFICES ASSUME NEW l \in ((j + i) - 1)..(((m + i) - 1) - 1) PROVE text[l] # Newline
          BY DEF InOneLine
        <5>1. PICK l1 : l1 = (l - i) + 1
          OBVIOUS
        <5>2. l1 \in j..(m - 1) /\ l1 \in 1..(d - 1) /\ (l1 + i) - 1 = l
          BY <5>1
        <5>3. t[l1] # Newline
          BY <4>1, <5>2 DEF InOneLine
        <5> QED
          BY <1>4, <5>2, <5>3
      <4>2. ASSUME InOneLine(text, (j + i) - 1, (m + i) - 1) PROVE InOneLine(t, j, m)
        <5> SUFFICES ASSUME NEW l \in j..(m - 1) PROVE t[l] # Newline
          BY DEF InOneLine
        <5>1. (l + i) - 1 \in ((j + i) - 1)..(((m + i) - 1) - 1) /\ l \in 1..(d - 1)
          OBVIOUS
        <5>2. text[(l + i) - 1] # Newline
          BY <4>2, <5>1 DEF InOneLine
        <5> QED
          BY <1>4, <5>1, <5>2
      <4> QED
        BY <4>1, <4>2
    <3>4. ASSUME NEW j \in 1..d, j \in f[k] PROVE (j + i) - 1 \in g[k]
      <4>1. PICK m \in f[k + 1] : j <= m /\ InOneLine(t, j, m)
        BY <3>1, <3>4
      <4>2. m \in 1..d /\ (m + i) - 1 \in g[k + 1] /\ (j + i) - 1 <= (m + i) - 1
        BY <2>2, <2>3, <4>1
      <4>3. InOneLine(text, (j + i) - 1, (m + i) - 1)
        BY <3>3, <4>1, <4>2
      <4>4. (j + i) - 1 \in 1..e
        BY <1>2
      <4> QED
        BY <3>2, <4>2, <4>3, <4>4
    <3>5. ASSUME NEW j \in 1..d, (j + i) - 1 \in g[k] PROVE j \in f[k]
      <4>1. PICK m1 \in g[k + 1] : (j + i) - 1 <= m1 /\ InOneLine(text, (j + i) - 1, m1)
        BY <3>2, <3>5
      <4>2. PICK m : m = (m1 - i) + 1
        OBVIOUS
      <4>3. m \in 1..d /\ m1 = (m + i) - 1 /\ j <= m
        BY <1>2, <2>3, <4>1, <4>2
      <4>4. m \in f[k + 1] /\ InOneLine(t, j, m)
        BY <2>2, <3>3, <4>1, <4>3
      <4> QED
        BY <3>1, <4>3, <4>4
    <3> QED
      BY <1>8, <2>1, <3>4, <3>5
  <2>6. CASE items[k].kind # "many"
    <3>1. f[k] = {j \in 1..(d - 1) : Accepts(items[k], t[j]) /\ j + 1 \in f[k + 1]}
      BY <1>7, <2>1, <2>4, <2>6 DEF StartsValue
    <3>2. g[k] = {j \in 1..(e - 1) : Accepts(items[k], text[j]) /\ j + 1 \in g[k + 1]}
      BY <1>7, <2>1, <2>4, <2>6 DEF StartsValue
    <3>3. ASSUME NEW j \in 1..d PROVE j \in f[k] <=> (j + i) - 1 \in g[k]
      <4>1. CASE j = d
        <5>1. j \notin 1..(d - 1) /\ (j + i) - 1 \notin 1..(e - 1)
          BY <1>2, <4>1
        <5> QED
          BY <3>1, <3>2, <5>1
      <4>2. CASE j # d
        <5>1. /\ j \in 1..(d - 1) /\ (j + i) - 1 \in 1..(e - 1) /\ j + 1 \in 1..d
              /\ ((j + 1) + i) - 1 = ((j + i) - 1) + 1
          BY <1>2, <4>2
        <5>2. t[j] = text[(j + i) - 1]
          BY <1>4, <5>1
        <5>3. j + 1 \in f[k + 1] <=> ((j + i) - 1) + 1 \in g[k + 1]
          BY <2>2, <5>1
        <5> QED
          BY <3>1, <3>2, <5>1, <5>2, <5>3
      <4> QED
        BY <4>1, <4>2
    <3> QED
      BY <1>8, <2>1, <3>3
  <2> QED
    BY <2>5, <2>6
<1>11. \A k \in 1..(n + 1) : k \in X
  BY <1>9, <1>10, DownInduct
<1>12. 1 \in f[1] <=> i \in g[1]
  <2>1. 1 \in 1..(n + 1) /\ 1 \in 1..d /\ (1 + i) - 1 = i
    OBVIOUS
  <2> QED
    BY <1>8, <1>11, <2>1
<1>13. Len(t) + 1 = d
  BY <1>4
<1>14. FullMatch(items, t) <=> 1 \in f[1]
  BY <1>5, <1>13 DEF FullMatch, IsStartsOf
<1>15. i \in Starts(items, text, e) <=> i \in g[1]
  BY <1>6 DEF IsStartsOf
<1> QED
  BY <1>1, <1>12, <1>14, <1>15

-----------------------------------------------------------------------------
(* Where regexp's match ends: the longest one, whatever the items are.     *)

Places(text) == 1..(Len(text) + 1)

Reach(text, later, i) ==
  {j \in i..(Len(text) + 1) : InOneLine(text, i, j) /\ later[j] # 0}

EndsValue(f, items, text, k) ==
  IF k > Len(items) THEN [i \in Places(text) |-> i]
  ELSE IF items[k].kind = "many"
  THEN [i \in Places(text) |->
          IF Reach(text, f[k + 1], i) = {} THEN 0 ELSE f[k + 1][Max(Reach(text, f[k + 1], i))]]
  ELSE [i \in Places(text) |->
          IF i <= Len(text) /\ Accepts(items[k], text[i]) THEN f[k + 1][i + 1] ELSE 0]

IsEnds(f, items, text) ==
  f = [k \in 1..(Len(items) + 1) |->
        LET later == f[k + 1]
            places == 1..(Len(text) + 1)
            reach(i) == {j \in i..(Len(text) + 1) : InOneLine(text, i, j) /\ later[j] # 0}
        IN IF k > Len(items) THEN [i \in places |-> i]
           ELSE IF items[k].kind = "many"
           THEN [i \in places |-> IF reach(i) = {} THEN 0 ELSE later[Max(reach(i))]]
           ELSE [i \in places |->
                   IF i <= Len(text) /\ Accepts(items[k], text[i]) THEN later[i + 1] ELSE 0]]

\* The places that many can reach have a greatest one.
LEMMA ReachIs ==
  ASSUME NEW D, NEW text \in Seq(D), NEW later, NEW i \in Places(text),
         Reach(text, later, i) # {}
  PROVE  /\ Max(Reach(text, later, i)) \in Reach(text, later, i)
         /\ Max(Reach(text, later, i)) \in Places(text)
         /\ \A j \in Reach(text, later, i) : j <= Max(Reach(text, later, i))
<1>1. PICK n \in Nat : n = Len(text) + 1
  OBVIOUS
<1>2. PICK S : S = Reach(text, later, i)
  OBVIOUS
<1>3. S \subseteq 0..n /\ S # {} /\ S \subseteq Places(text)
  BY <1>1, <1>2 DEF Reach, Places
<1>4. Max(S) \in S /\ \A j \in S : j <= Max(S)
  BY <1>3, MaxOf
<1> QED
  BY <1>2, <1>3, <1>4

\* MatchEnd is a function of the items that are left,
LEMMA EndsExist ==
  ASSUME NEW T, NEW items \in Seq(T), NEW D, NEW text \in Seq(D)
  PROVE  \E f : IsEnds(f, items, text)
<1>1. PICK n \in Nat : n = Len(items)
  OBVIOUS
<1>2. PICK V : V = [Places(text) -> 0..(Len(text) + 1)]
  OBVIOUS
<1>3. PICK step : step = [k \in 1..(n + 1) |-> [g \in [(k + 1)..(n + 1) -> V] |->
                            EndsValue(g, items, text, k)]]
  OBVIOUS
<1>4. ASSUME NEW k \in 1..(n + 1), NEW g \in [(k + 1)..(n + 1) -> V]
      PROVE  EndsValue(g, items, text, k) \in V
  <2>1. CASE k > n
    <3>1. EndsValue(g, items, text, k) = [i \in Places(text) |-> i]
      BY <1>1, <2>1 DEF EndsValue
    <3> QED
      BY <1>2, <3>1 DEF Places
  <2>2. CASE k <= n
    <3>1. k + 1 \in (k + 1)..(n + 1)
      BY <2>2
    <3>2. PICK later \in V : later = g[k + 1]
      BY <3>1
    <3>3. CASE items[k].kind = "many"
      <4>1. EndsValue(g, items, text, k) =
              [i \in Places(text) |-> IF Reach(text, later, i) = {} THEN 0
                                      ELSE later[Max(Reach(text, later, i))]]
        BY <1>1, <2>2, <3>2, <3>3 DEF EndsValue
      <4>2. \A i \in Places(text) :
              (IF Reach(text, later, i) = {} THEN 0 ELSE later[Max(Reach(text, later, i))])
                \in 0..(Len(text) + 1)
        <5> SUFFICES ASSUME NEW i \in Places(text)
                     PROVE  (IF Reach(text, later, i) = {} THEN 0
                             ELSE later[Max(Reach(text, later, i))]) \in 0..(Len(text) + 1)
          OBVIOUS
        <5>1. CASE Reach(text, later, i) = {}
          BY <5>1
        <5>2. CASE Reach(text, later, i) # {}
          <6>1. Max(Reach(text, later, i)) \in Places(text)
            BY <5>2, ReachIs
          <6> QED
            BY <1>2, <3>2, <5>2, <6>1
        <5> QED
          BY <5>1, <5>2
      <4> QED
        BY <1>2, <4>1, <4>2
    <3>4. CASE items[k].kind # "many"
      <4>1. EndsValue(g, items, text, k) =
              [i \in Places(text) |->
                 IF i <= Len(text) /\ Accepts(items[k], text[i]) THEN later[i + 1] ELSE 0]
        BY <1>1, <2>2, <3>2, <3>4 DEF EndsValue
      <4>2. ASSUME NEW i \in Places(text), i <= Len(text)
            PROVE  later[i + 1] \in 0..(Len(text) + 1)
        <5>1. i + 1 \in Places(text)
          BY <4>2 DEF Places
        <5> QED
          BY <1>2, <3>2, <5>1
      <4>3. \A i \in Places(text) :
              (IF i <= Len(text) /\ Accepts(items[k], text[i]) THEN later[i + 1] ELSE 0)
                \in 0..(Len(text) + 1)
        <5> SUFFICES ASSUME NEW i \in Places(text)
                     PROVE  (IF i <= Len(text) /\ Accepts(items[k], text[i]) THEN later[i + 1]
                             ELSE 0) \in 0..(Len(text) + 1)
          OBVIOUS
        <5>1. CASE i <= Len(text) /\ Accepts(items[k], text[i])
          BY <4>2, <5>1
        <5>2. CASE ~ (i <= Len(text) /\ Accepts(items[k], text[i]))
          BY <5>2
        <5> QED
          BY <5>1, <5>2
      <4>4. PICK body : body = [i \in Places(text) |->
                 IF i <= Len(text) /\ Accepts(items[k], text[i]) THEN later[i + 1] ELSE 0]
        OBVIOUS
      <4>5. body \in [Places(text) -> 0..(Len(text) + 1)]
        BY <4>3, <4>4
      <4> QED
        BY <1>2, <4>1, <4>4, <4>5
    <3> QED
      BY <3>3, <3>4
  <2> QED
    BY <2>1, <2>2
<1>5. \A k \in 1..(n + 1) : \A g \in [(k + 1)..(n + 1) -> V] : step[k][g] \in V
  BY <1>3, <1>4
<1>6. PICK f \in [1..(n + 1) -> V] : Backward(f, step, n)
  BY <1>5, BackwardExists
<1>7. ASSUME NEW k \in 1..(n + 1) PROVE f[k] = EndsValue(f, items, text, k)
  <2>1. \A j \in (k + 1)..(n + 1) : j \in 1..(n + 1)
    OBVIOUS
  <2>2. PICK g : g = Later(f, k, n)
    OBVIOUS
  <2>3. g \in [(k + 1)..(n + 1) -> V] /\ \A j \in (k + 1)..(n + 1) : g[j] = f[j]
    BY <2>1, <2>2 DEF Later
  <2>4. f[k] = EndsValue(g, items, text, k)
    BY <1>3, <1>6, <2>2, <2>3 DEF Backward
  <2>5. CASE k <= n
    <3>1. k + 1 \in (k + 1)..(n + 1)
      BY <2>5
    <3>2. g[k + 1] = f[k + 1]
      BY <2>3, <3>1
    <3> QED
      BY <2>4, <3>2, Zenon DEF EndsValue
  <2>6. CASE k > n
    BY <1>1, <2>4, <2>6 DEF EndsValue
  <2> QED
    BY <2>5, <2>6
<1>8. f = [k \in 1..(Len(items) + 1) |-> EndsValue(f, items, text, k)]
  BY <1>1, <1>7
<1> QED
  BY <1>8, Zenon DEF IsEnds, EndsValue, Reach, Places

\* and yields its value for all of them.
LEMMA MatchEndIs ==
  ASSUME NEW T, NEW items \in Seq(T), NEW D, NEW text \in Seq(D)
  PROVE  \E f : /\ \A k \in 1..(Len(items) + 1) : f[k] = EndsValue(f, items, text, k)
                /\ \A i : MatchEnd(items, text, i) = f[1][i]
<1>1. PICK f : f = CHOOSE g : IsEnds(g, items, text)
  OBVIOUS
<1>2. \A i : MatchEnd(items, text, i) = f[1][i]
  BY <1>1 DEF MatchEnd, IsEnds
<1>3. IsEnds(f, items, text)
  BY <1>1, EndsExist
<1>4. PICK g : g = [k \in 1..(Len(items) + 1) |-> EndsValue(f, items, text, k)]
  OBVIOUS
<1>5. f = g
  BY <1>3, <1>4, Zenon DEF IsEnds, EndsValue, Reach, Places
<1>6. \A k \in 1..(Len(items) + 1) : f[k] = EndsValue(f, items, text, k)
  BY <1>4, <1>5
<1> QED
  BY <1>2, <1>6

\* m is the greatest of the ends, or 0 if there is none.
Longest(m, ends) == IF ends = {} THEN m = 0 ELSE m \in ends /\ \A e \in ends : e <= m

\* The ends of the matches of the items from k on that begin at i, s[e] being
\* the places that end at e.
EndsFrom(s, text, k, i) == {e \in Places(text) : i \in s[e][k]}

\* What holds of the ends f[k] that MatchEnd computes: no end is missed, and a
\* match that begins later ends no earlier.
EndsRight(f, s, text, k) ==
  /\ \A i \in Places(text) : Longest(f[k][i], EndsFrom(s, text, k, i))
  /\ \A i, j \in Places(text) : i <= j /\ f[k][i] # 0 /\ f[k][j] # 0 => f[k][i] <= f[k][j]

\* The longest first finds the longest: at a many,
LEMMA ManyEnds ==
  ASSUME NEW T, NEW items \in Seq(T), NEW D, NEW text \in Seq(D), NEW s,
         \A e \in Places(text) : IsStartsOf(s[e], items, text, e),
         NEW f, NEW k \in 1..Len(items), items[k].kind = "many",
         f[k] = EndsValue(f, items, text, k), EndsRight(f, s, text, k + 1)
  PROVE  EndsRight(f, s, text, k)
<1>1. PICK n \in Nat : n = Len(text)
  OBVIOUS
<1>2. PICK later : later = f[k + 1]
  OBVIOUS
<1>3. \A i \in Places(text) :
        f[k][i] = IF Reach(text, later, i) = {} THEN 0 ELSE later[Max(Reach(text, later, i))]
  <2>1. ~ (k > Len(items))
    OBVIOUS
  <2>2. f[k] = [i \in Places(text) |-> IF Reach(text, later, i) = {} THEN 0
                                       ELSE later[Max(Reach(text, later, i))]]
    BY <1>2, <2>1 DEF EndsValue
  <2> QED
    BY <2>2
<1>4. \A e \in Places(text) : s[e][k] = {i \in 1..e : \E j \in s[e][k + 1] :
                                           i <= j /\ InOneLine(text, i, j)}
  <2> SUFFICES ASSUME NEW e \in Places(text)
               PROVE  s[e][k] = {i \in 1..e : \E j \in s[e][k + 1] :
                                   i <= j /\ InOneLine(text, i, j)}
    OBVIOUS
  <2>1. k \in 1..(Len(items) + 1) /\ ~ (k > Len(items))
    OBVIOUS
  <2>2. s[e][k] = StartsValue(s[e], items, text, e, k)
    BY <2>1 DEF IsStartsOf
  <2> QED
    BY <2>1, <2>2 DEF StartsValue
<1>5. \A e \in Places(text) : s[e][k + 1] \subseteq 1..e
  <2>1. k + 1 \in 1..(Len(items) + 1)
    OBVIOUS
  <2> QED
    BY <2>1 DEF IsStartsOf
<1>6. \A i \in Places(text) : 0 \notin EndsFrom(s, text, k + 1, i)
  BY DEF EndsFrom, Places
<1>7. \A i \in Places(text) : Longest(later[i], EndsFrom(s, text, k + 1, i))
  BY <1>2 DEF EndsRight
<1>8. \A i \in Places(text) : later[i] # 0 => later[i] \in EndsFrom(s, text, k + 1, i)
  BY <1>7 DEF Longest
<1>9. \A i, j \in Places(text) : i <= j /\ later[i] # 0 /\ later[j] # 0 => later[i] <= later[j]
  BY <1>2 DEF EndsRight
<1>10. ASSUME NEW i \in Places(text), NEW e \in EndsFrom(s, text, k, i)
       PROVE  /\ Reach(text, later, i) # {}
              /\ e <= later[Max(Reach(text, later, i))]
  <2>1. PICK j \in s[e][k + 1] : i <= j /\ InOneLine(text, i, j)
    BY <1>4 DEF EndsFrom
  <2>2. e \in Places(text) /\ j \in 1..e
    BY <1>5 DEF EndsFrom
  <2>3. j \in Places(text) /\ j \in i..(Len(text) + 1)
    BY <2>1, <2>2 DEF Places
  <2>4. e \in EndsFrom(s, text, k + 1, j)
    BY <2>1, <2>2 DEF EndsFrom
  <2>5. later[j] # 0 /\ e <= later[j] /\ later[j] \in Places(text)
    BY <1>6, <1>7, <2>3, <2>4 DEF Longest, EndsFrom
  <2>6. j \in Reach(text, later, i)
    BY <2>1, <2>3, <2>5 DEF Reach
  <2>7. PICK m : m = Max(Reach(text, later, i))
    OBVIOUS
  <2>8. m \in Reach(text, later, i) /\ m \in Places(text) /\ j <= m
    BY <2>6, <2>7, ReachIs
  <2>9. later[m] # 0
    BY <2>8 DEF Reach
  <2>10. later[j] <= later[m] /\ later[m] \in Places(text)
    BY <1>8, <1>9, <2>3, <2>5, <2>8, <2>9 DEF EndsFrom
  <2>11. e <= later[m]
    BY <2>2, <2>5, <2>10 DEF Places
  <2> QED
    BY <2>6, <2>7, <2>11
<1>11. ASSUME NEW i \in Places(text), Reach(text, later, i) # {}
       PROVE  later[Max(Reach(text, later, i))] \in EndsFrom(s, text, k, i)
  <2>1. PICK m : m = Max(Reach(text, later, i))
    OBVIOUS
  <2>2. m \in Reach(text, later, i) /\ m \in Places(text)
    BY <1>11, <2>1, ReachIs
  <2>3. i <= m /\ InOneLine(text, i, m) /\ later[m] # 0
    BY <2>2 DEF Reach
  <2>4. PICK e : e = later[m]
    OBVIOUS
  <2>5. e \in Places(text) /\ m \in s[e][k + 1]
    BY <1>8, <2>2, <2>3, <2>4 DEF EndsFrom
  <2>6. i \in 1..e
    BY <1>5, <2>3, <2>5 DEF Places
  <2>7. i \in s[e][k]
    BY <1>4, <2>3, <2>5, <2>6
  <2> QED
    BY <2>1, <2>4, <2>5, <2>7 DEF EndsFrom
<1>12. \A i \in Places(text) : Longest(f[k][i], EndsFrom(s, text, k, i))
  <2> SUFFICES ASSUME NEW i \in Places(text) PROVE Longest(f[k][i], EndsFrom(s, text, k, i))
    OBVIOUS
  <2>1. CASE Reach(text, later, i) = {}
    <3>1. EndsFrom(s, text, k, i) = {} /\ f[k][i] = 0
      BY <1>3, <1>10, <2>1
    <3> QED
      BY <3>1 DEF Longest
  <2>2. CASE Reach(text, later, i) # {}
    <3>1. f[k][i] = later[Max(Reach(text, later, i))]
      BY <1>3, <2>2
    <3>2. f[k][i] \in EndsFrom(s, text, k, i)
      BY <1>11, <2>2, <3>1
    <3>3. \A e \in EndsFrom(s, text, k, i) : e <= f[k][i]
      BY <1>10, <3>1
    <3> QED
      BY <3>2, <3>3 DEF Longest
  <2> QED
    BY <2>1, <2>2
<1>13. ASSUME NEW i \in Places(text), NEW j \in Places(text), i <= j, f[k][i] # 0, f[k][j] # 0
       PROVE  f[k][i] <= f[k][j]
  <2>1. Reach(text, later, i) # {} /\ Reach(text, later, j) # {}
    BY <1>3, <1>13
  <2>2. PICK a, b : a = Max(Reach(text, later, i)) /\ b = Max(Reach(text, later, j))
    OBVIOUS
  <2>3. /\ a \in Reach(text, later, i) /\ a \in Places(text)
        /\ b \in Reach(text, later, j) /\ b \in Places(text)
    BY <2>1, <2>2, ReachIs
  <2>4. a <= b
    <3>1. CASE a < j
      <4>1. j <= b
        BY <2>3 DEF Reach
      <4> QED
        BY <2>3, <3>1, <4>1 DEF Places
    <3>2. CASE j <= a
      <4>1. InOneLine(text, j, a)
        <5> SUFFICES ASSUME NEW l \in j..(a - 1) PROVE text[l] # Newline
          BY DEF InOneLine
        <5>1. l \in i..(a - 1)
          BY <1>13, <2>3 DEF Places
        <5> QED
          BY <2>3, <5>1 DEF Reach, InOneLine
      <4>2. a \in j..(Len(text) + 1) /\ later[a] # 0
        BY <2>3, <3>2 DEF Reach, Places
      <4>3. a \in Reach(text, later, j)
        BY <4>1, <4>2 DEF Reach
      <4> QED
        BY <2>1, <2>2, <4>3, ReachIs
    <3> QED
      BY <2>3, <3>1, <3>2 DEF Places
  <2>5. later[a] # 0 /\ later[b] # 0
    BY <2>3 DEF Reach
  <2>6. later[a] <= later[b]
    BY <1>9, <2>3, <2>4, <2>5
  <2> QED
    BY <1>3, <2>1, <2>2, <2>6
<1> QED
  BY <1>12, <1>13 DEF EndsRight

\* and at an item for one character.
LEMMA OneEnds ==
  ASSUME NEW T, NEW items \in Seq(T), NEW D, NEW text \in Seq(D), NEW s,
         \A e \in Places(text) : IsStartsOf(s[e], items, text, e),
         NEW f, NEW k \in 1..Len(items), items[k].kind # "many",
         f[k] = EndsValue(f, items, text, k), EndsRight(f, s, text, k + 1)
  PROVE  EndsRight(f, s, text, k)
<1>1. PICK later : later = f[k + 1]
  OBVIOUS
<1>2. \A i \in Places(text) :
        f[k][i] = IF i <= Len(text) /\ Accepts(items[k], text[i]) THEN later[i + 1] ELSE 0
  <2>1. ~ (k > Len(items))
    OBVIOUS
  <2>2. f[k] = [i \in Places(text) |->
                  IF i <= Len(text) /\ Accepts(items[k], text[i]) THEN later[i + 1] ELSE 0]
    BY <1>1, <2>1 DEF EndsValue
  <2> QED
    BY <2>2
<1>3. \A e \in Places(text) :
        s[e][k] = {i \in 1..(e - 1) : Accepts(items[k], text[i]) /\ i + 1 \in s[e][k + 1]}
  <2> SUFFICES ASSUME NEW e \in Places(text)
               PROVE  s[e][k] = {i \in 1..(e - 1) : Accepts(items[k], text[i])
                                                    /\ i + 1 \in s[e][k + 1]}
    OBVIOUS
  <2>1. k \in 1..(Len(items) + 1) /\ ~ (k > Len(items))
    OBVIOUS
  <2>2. s[e][k] = StartsValue(s[e], items, text, e, k)
    BY <2>1 DEF IsStartsOf
  <2> QED
    BY <2>1, <2>2 DEF StartsValue
<1>4. \A e \in Places(text) : s[e][k + 1] \subseteq 1..e
  <2>1. k + 1 \in 1..(Len(items) + 1)
    OBVIOUS
  <2> QED
    BY <2>1 DEF IsStartsOf
<1>5. ASSUME NEW i \in Places(text), i <= Len(text) /\ Accepts(items[k], text[i])
      PROVE  i + 1 \in Places(text) /\ EndsFrom(s, text, k, i) = EndsFrom(s, text, k + 1, i + 1)
  <2>1. i + 1 \in Places(text)
    BY <1>5 DEF Places
  <2>2. ASSUME NEW e \in Places(text) PROVE i \in s[e][k] <=> i + 1 \in s[e][k + 1]
    <3>1. ASSUME i + 1 \in s[e][k + 1] PROVE i \in 1..(e - 1)
      BY <1>4, <2>2, <3>1 DEF Places
    <3> QED
      BY <1>3, <1>5, <3>1
  <2> QED
    BY <2>1, <2>2 DEF EndsFrom
<1>6. ASSUME NEW i \in Places(text), ~ (i <= Len(text) /\ Accepts(items[k], text[i]))
      PROVE  EndsFrom(s, text, k, i) = {}
  <2> SUFFICES ASSUME NEW e \in EndsFrom(s, text, k, i) PROVE FALSE
    OBVIOUS
  <2>1. e \in Places(text) /\ i \in s[e][k]
    BY DEF EndsFrom
  <2>2. i \in 1..(e - 1) /\ Accepts(items[k], text[i])
    BY <1>3, <2>1
  <2>3. i <= Len(text)
    BY <2>1, <2>2 DEF Places
  <2> QED
    BY <1>6, <2>2, <2>3
<1>7. \A i \in Places(text) : Longest(later[i], EndsFrom(s, text, k + 1, i))
  BY <1>1 DEF EndsRight
<1>8. \A i \in Places(text) : Longest(f[k][i], EndsFrom(s, text, k, i))
  <2> SUFFICES ASSUME NEW i \in Places(text) PROVE Longest(f[k][i], EndsFrom(s, text, k, i))
    OBVIOUS
  <2>1. CASE i <= Len(text) /\ Accepts(items[k], text[i])
    BY <1>2, <1>5, <1>7, <2>1
  <2>2. CASE ~ (i <= Len(text) /\ Accepts(items[k], text[i]))
    BY <1>2, <1>6, <2>2 DEF Longest
  <2> QED
    BY <2>1, <2>2
<1>9. ASSUME NEW i \in Places(text), NEW j \in Places(text), i <= j, f[k][i] # 0, f[k][j] # 0
      PROVE  f[k][i] <= f[k][j]
  <2>1. f[k][i] = later[i + 1] /\ f[k][j] = later[j + 1]
    BY <1>2, <1>9
  <2>2. i + 1 \in Places(text) /\ j + 1 \in Places(text)
    BY <1>2, <1>5, <1>9
  <2>3. i + 1 <= j + 1
    BY <1>9 DEF Places
  <2> QED
    BY <1>1, <1>9, <2>1, <2>2, <2>3 DEF EndsRight
<1> QED
  BY <1>8, <1>9 DEF EndsRight

\* MatchEnd is the end of the longest match that begins at start.
LEMMA MatchEndIsLongest ==
  ASSUME NEW T, NEW items \in Seq(T), NEW D, NEW text \in Seq(D), NEW i \in Places(text)
  PROVE  Longest(MatchEnd(items, text, i), {e \in Places(text) : i \in Starts(items, text, e)})
<1>1. PICK f : /\ \A k \in 1..(Len(items) + 1) : f[k] = EndsValue(f, items, text, k)
               /\ \A j : MatchEnd(items, text, j) = f[1][j]
  BY MatchEndIs
<1>2. PICK s : s = [e \in Places(text) |-> CHOOSE g : IsStartsOf(g, items, text, e)]
  OBVIOUS
<1>3. \A e \in Places(text) : IsStartsOf(s[e], items, text, e)
  <2> SUFFICES ASSUME NEW e \in Places(text) PROVE IsStartsOf(s[e], items, text, e)
    OBVIOUS
  <2>1. e \in Nat \ {0}
    BY DEF Places
  <2>2. \E g : IsStartsOf(g, items, text, e)
    BY <2>1, StartsOfExist
  <2>3. s[e] = CHOOSE g : IsStartsOf(g, items, text, e)
    BY <1>2
  <2> QED
    BY <2>2, <2>3
<1>4. PICK n \in Nat : n = Len(items)
  OBVIOUS
<1>5. PICK X : X = {k \in 1..(n + 1) : EndsRight(f, s, text, k)}
  OBVIOUS
<1>6. n + 1 \in X
  <2>1. n + 1 > n /\ n + 1 \in 1..(n + 1)
    OBVIOUS
  <2>2. f[n + 1] = EndsValue(f, items, text, n + 1)
    BY <1>1, <1>4, <2>1
  <2>3. EndsValue(f, items, text, n + 1) = [j \in Places(text) |-> j]
    BY <1>4, <2>1 DEF EndsValue
  <2>4. \A j \in Places(text) : f[n + 1][j] = j
    BY <2>2, <2>3
  <2>5. \A e \in Places(text) : s[e][n + 1] = {e}
    <3> SUFFICES ASSUME NEW e \in Places(text) PROVE s[e][n + 1] = {e}
      OBVIOUS
    <3>1. s[e][n + 1] = StartsValue(s[e], items, text, e, n + 1)
      BY <1>3, <1>4, <2>1 DEF IsStartsOf
    <3> QED
      BY <1>4, <2>1, <3>1 DEF StartsValue
  <2>6. \A j \in Places(text) : EndsFrom(s, text, n + 1, j) = {j}
    BY <2>5 DEF EndsFrom
  <2>7. \A j \in Places(text) : Longest(f[n + 1][j], EndsFrom(s, text, n + 1, j))
    <3>1. \A j \in Nat : Longest(j, {j})
      BY DEF Longest
    <3>2. ASSUME NEW j \in Places(text) PROVE Longest(f[n + 1][j], EndsFrom(s, text, n + 1, j))
      <4>1. j \in Nat /\ Longest(j, {j})
        BY <3>1 DEF Places
      <4>2. f[n + 1][j] = j /\ EndsFrom(s, text, n + 1, j) = {j}
        BY <2>4, <2>6
      <4> QED
        BY <4>1, <4>2, Zenon
    <3> QED
      BY <3>2
  <2>8. EndsRight(f, s, text, n + 1)
    BY <2>4, <2>7 DEF EndsRight
  <2> QED
    BY <1>5, <2>1, <2>8
<1>7. ASSUME NEW k \in 1..n, \A j \in (k + 1)..(n + 1) : j \in X PROVE k \in X
  <2>1. k + 1 \in (k + 1)..(n + 1) /\ k \in 1..(n + 1) /\ k \in 1..Len(items)
    BY <1>4
  <2>2. EndsRight(f, s, text, k + 1)
    BY <1>5, <1>7, <2>1
  <2>3. f[k] = EndsValue(f, items, text, k)
    BY <1>1, <1>4, <2>1
  <2>4. EndsRight(f, s, text, k)
    <3>1. CASE items[k].kind = "many"
      BY <1>3, <2>1, <2>2, <2>3, <3>1, ManyEnds
    <3>2. CASE items[k].kind # "many"
      BY <1>3, <2>1, <2>2, <2>3, <3>2, OneEnds
    <3> QED
      BY <3>1, <3>2
  <2> QED
    BY <1>5, <2>1, <2>4
<1>8. EndsRight(f, s, text, 1)
  <2>1. \A k \in 1..(n + 1) : k \in X
    BY <1>6, <1>7, DownInduct
  <2>2. 1 \in 1..(n + 1)
    OBVIOUS
  <2> QED
    BY <1>5, <2>1, <2>2
<1>9. \A e \in Places(text) : s[e][1] = Starts(items, text, e)
  BY <1>3 DEF IsStartsOf
<1>10. EndsFrom(s, text, 1, i) = {e \in Places(text) : i \in Starts(items, text, e)}
  BY <1>9 DEF EndsFrom
<1>11. Longest(f[1][i], EndsFrom(s, text, 1, i))
  BY <1>8 DEF EndsRight
<1> QED
  BY <1>1, <1>10, <1>11

\* Where a match of p in text begins and ends, as the reference says.
Matches(text, p) ==
  {m \in Places(text) \X Places(text) : m[1] <= m[2] /\ Denotes(p, SubSeq(text, m[1], m[2] - 1))}

\* The matches of the reference are those of the compiled pattern.
LEMMA MatchesAre ==
  ASSUME NEW C, C \cap NonASCII = {}, NEW p \in Seq(C), NEW D, NEW text \in Seq(D),
         NEW i \in Places(text), NEW e \in Places(text)
  PROVE  <<i, e>> \in Matches(text, p) <=> i \in Starts(Compiled(p), text, e)
<1>1. PICK T, items : items \in Seq(T) /\ items = Compiled(p)
  <2>1. PICK f : IsSuffixItems(f, p) /\ Compiled(p) = f[1]
    BY CompiledIs
  <2>2. 1 \in 1..(Len(p) + 1)
    OBVIOUS
  <2>3. Compiled(p) \in Seq(ItemsOf(p))
    BY <2>1, <2>2 DEF IsSuffixItems
  <2> QED
    BY <2>3
<1>2. ASSUME i <= e
      PROVE  Denotes(p, SubSeq(text, i, e - 1)) <=> i \in Starts(items, text, e)
  <2>1. i \in 1..(Len(text) + 1) /\ e \in i..(Len(text) + 1)
    BY <1>2 DEF Places
  <2>2. FullMatch(items, SubSeq(text, i, e - 1)) <=> i \in Starts(items, text, e)
    BY <1>1, <2>1, SubtextMatches
  <2>3. SubSeq(text, i, e - 1) \in Seq(D)
    <3>1. i \in Int /\ e - 1 \in Int /\ \A l \in i..(e - 1) : text[l] \in D
      BY <2>1
    <3> QED
      BY <3>1, SubSeqProperties
  <2>4. ShellPatternMatch(p, SubSeq(text, i, e - 1)) <=> Denotes(p, SubSeq(text, i, e - 1))
    BY <2>3, MatchIsDenotes
  <2> QED
    BY <1>1, <2>2, <2>4 DEF ShellPatternMatch
<1>3. i \in Starts(items, text, e) => i <= e
  <2>1. e \in Nat \ {0}
    BY DEF Places
  <2>2. PICK g : IsStartsOf(g, items, text, e)
    BY <1>1, <2>1, StartsOfExist
  <2>3. 1 \in 1..(Len(items) + 1)
    BY <1>1
  <2>4. Starts(items, text, e) \subseteq 1..e
    BY <2>2, <2>3 DEF IsStartsOf
  <2> QED
    BY <2>1, <2>4
<1>4. <<i, e>> \in Places(text) \X Places(text)
  OBVIOUS
<1>5. <<i, e>> \in Matches(text, p) <=> i <= e /\ Denotes(p, SubSeq(text, i, e - 1))
  BY <1>4 DEF Matches
<1> QED
  BY <1>1, <1>2, <1>3, <1>5

\* Where a match begins, the code replaces up to the end of the longest.
LEMMA EndOfLongest ==
  ASSUME NEW n \in Nat, NEW ends, ends \subseteq 0..n, ends # {}, NEW m, Longest(m, ends)
  PROVE  m = Max(ends)
<1>1. m \in ends /\ \A e \in ends : e <= m
  BY DEF Longest
<1>2. Max(ends) \in ends /\ \A e \in ends : e <= Max(ends)
  BY MaxOf
<1>3. PICK x : x = Max(ends)
  OBVIOUS
<1>4. x \in ends /\ \A e \in ends : e <= x
  BY <1>2, <1>3
<1>5. x <= m /\ m <= x
  BY <1>1, <1>4
<1>6. x \in Int /\ m \in Int
  <2>1. \A e \in ends : e \in Int
    OBVIOUS
  <2> QED
    BY <1>1, <1>4, <2>1
<1> QED
  BY <1>3, <1>5, <1>6

\* The claim of a text and a pattern.
Replaced(text, pattern) ==
  LET places == 1..(Len(text) + 1)
      matches == {m \in places \X places :
                    m[1] <= m[2] /\ Denotes(pattern, SubSeq(text, m[1], m[2] - 1))}
      start == Min({m[1] : m \in matches})
      end == Max({m[2] : m \in {m \in matches : m[1] = start}})
  IN ReplaceFirst(text, pattern, <<"R">>) =
       IF matches = {} THEN text
       ELSE UpTo(text, start - 1) \o <<"R">> \o From(text, end)

\* ReplaceFirst takes the leftmost and longest, for one pattern and one text.
LEMMA ReplacesLeftmost ==
  PatternInv => ReplacesLeftmostLongest
<1> SUFFICES ASSUME PatternInv, subject.pattern # << >> PROVE ReplacesLeftmostLongest
  BY DEF ReplacesLeftmostLongest
<1>1. PICK p, text, n : p = subject.pattern /\ text = subject.text /\ n = Len(subject.text) + 1
  OBVIOUS
<1>2. /\ p \in Seq(PatternChars) /\ text \in Seq(TextChars) /\ n = Len(text) + 1 /\ n \in Nat
      /\ PatternChars \cap NonASCII = {} /\ p # << >>
  BY <1>1 DEF PatternInv, PatternsPlain
<1>3. PICK T, items : items \in Seq(T) /\ items = Compiled(p)
  <2>1. PICK f : IsSuffixItems(f, p) /\ Compiled(p) = f[1]
    BY <1>2, CompiledIs
  <2>2. 1 \in 1..(Len(p) + 1)
    BY <1>2
  <2>3. Compiled(p) \in Seq(ItemsOf(p))
    BY <2>1, <2>2 DEF IsSuffixItems
  <2> QED
    BY <2>3
<1>4. PICK matches : matches = Matches(text, p)
  OBVIOUS
<1>5. PICK starts : starts = {i \in 1..(Len(text) + 1) : MatchEnd(items, text, i) # 0}
  OBVIOUS
<1>6. ASSUME NEW i \in Places(text)
      PROVE  Longest(MatchEnd(items, text, i), {e \in Places(text) : <<i, e>> \in matches})
  <2>1. \A e \in Places(text) : <<i, e>> \in matches <=> i \in Starts(items, text, e)
    BY <1>2, <1>3, <1>4, MatchesAre
  <2>2. Longest(MatchEnd(items, text, i), {e \in Places(text) : i \in Starts(items, text, e)})
    BY <1>2, <1>3, MatchEndIsLongest
  <2>3. {e \in Places(text) : i \in Starts(items, text, e)}
          = {e \in Places(text) : <<i, e>> \in matches}
    BY <2>1
  <2> QED
    BY <2>2, <2>3
<1>7. \A m \in matches : m[1] \in Places(text) /\ m[2] \in Places(text) /\ m = <<m[1], m[2]>>
  BY <1>4 DEF Matches
<1>8. starts = {m[1] : m \in matches}
  <2>1. ASSUME NEW m \in matches PROVE m[1] \in starts
    <3>1. PICK i, e : i = m[1] /\ e = m[2]
      OBVIOUS
    <3>2. i \in Places(text) /\ e \in Places(text) /\ <<i, e>> \in matches
      BY <1>7, <3>1
    <3>3. MatchEnd(items, text, i) \in Places(text)
      BY <1>6, <3>2 DEF Longest
    <3> QED
      BY <1>5, <3>1, <3>2, <3>3 DEF Places
  <2>2. ASSUME NEW i \in starts PROVE \E m \in matches : i = m[1]
    <3>1. i \in Places(text) /\ MatchEnd(items, text, i) # 0
      BY <1>5 DEF Places
    <3>2. PICK e \in Places(text) : <<i, e>> \in matches
      BY <1>6, <3>1 DEF Longest
    <3>3. <<i, e>>[1] = i
      OBVIOUS
    <3> QED
      BY <3>2, <3>3
  <2> QED
    BY <2>1, <2>2
<1>9. ReplaceFirst(text, p, <<"R">>) =
        IF starts = {} THEN text
         ELSE UpTo(text, Min(starts) - 1) \o <<"R">>
                \o From(text, MatchEnd(items, text, Min(starts)))
  BY <1>2, <1>3, <1>5 DEF ReplaceFirst
<1>10. PICK start : start = Min({m[1] : m \in matches})
  OBVIOUS
<1>11. PICK end : end = Max({m[2] : m \in {m \in matches : m[1] = start}})
  OBVIOUS
<1>12. matches = {} <=> starts = {}
  BY <1>8
<1>13. ASSUME matches # {} PROVE MatchEnd(items, text, start) = end
  <2>1. start \in Places(text)
    <3>1. starts \subseteq Nat /\ starts # {} /\ starts \subseteq Places(text)
      BY <1>5, <1>12, <1>13 DEF Places
    <3>2. start \in starts
      BY <1>8, <1>10, <3>1, MinOf
    <3> QED
      BY <3>1, <3>2
  <2>2. PICK ends : ends = {e \in Places(text) : <<start, e>> \in matches}
    OBVIOUS
  <2>3. {m[2] : m \in {m \in matches : m[1] = start}} = ends
    <3>1. ASSUME NEW m \in matches, m[1] = start PROVE m[2] \in ends
      BY <1>7, <2>2, <3>1
    <3>2. ASSUME NEW e \in ends PROVE \E m \in matches : m[1] = start /\ m[2] = e
      <4>1. <<start, e>> \in matches /\ <<start, e>>[1] = start /\ <<start, e>>[2] = e
        BY <2>2
      <4> QED
        BY <4>1
    <3> QED
      BY <3>1, <3>2
  <2>4. ends # {}
    <3>1. start \in starts
      <4>1. starts \subseteq Nat /\ starts # {}
        BY <1>5, <1>12, <1>13
      <4> QED
        BY <1>8, <1>10, <4>1, MinOf
    <3>2. PICK m \in matches : m[1] = start
      BY <1>8, <3>1
    <3> QED
      BY <1>7, <2>2, <3>2
  <2>5. ends \subseteq 0..n
    BY <1>2, <2>2 DEF Places
  <2>6. Longest(MatchEnd(items, text, start), ends)
    BY <1>6, <2>1, <2>2
  <2>7. MatchEnd(items, text, start) = Max(ends)
    BY <1>2, <2>4, <2>5, <2>6, EndOfLongest
  <2> QED
    BY <1>11, <2>3, <2>7
<1>14. ReplaceFirst(text, p, <<"R">>) =
         IF matches = {} THEN text
         ELSE UpTo(text, start - 1) \o <<"R">> \o From(text, end)
  BY <1>8, <1>9, <1>10, <1>12, <1>13
<1>15. matches = {m \in (1..(Len(text) + 1)) \X (1..(Len(text) + 1)) :
                    m[1] <= m[2] /\ Denotes(p, SubSeq(text, m[1], m[2] - 1))}
  BY <1>4 DEF Matches, Places
<1>16. Replaced(text, p)
  BY <1>10, <1>11, <1>14, <1>15, Zenon DEF Replaced
<1>17. Replaced(subject.text, subject.pattern)
  BY <1>1, <1>16
<1> QED
  BY <1>17, Zenon DEF ReplacesLeftmostLongest, Replaced

\* Theorem: for any plain characters, patterns and texts of any length, ${x/p/r}
\* replaces the leftmost match of p and there the longest, although regexp takes
\* the first one that it finds.
THEOREM ReplacesLeftmostLongestMatch ==
  PatternsPlain /\ PatternInit /\ [][Next]_subject => []ReplacesLeftmostLongest
BY PatternInvInductive, ReplacesLeftmost, PTL

-----------------------------------------------------------------------------
(* A function on 0..n defined from its first value onwards exists.         *)

\* Induction upwards from 0 to n.
LEMMA UpInduct ==
  ASSUME NEW n \in Nat, NEW X, 0 \in X, \A i \in 1..n : i - 1 \in X => i \in X
  PROVE  \A i \in 0..n : i \in X
<1> DEFINE Y == {m \in Nat : m <= n => m \in X}
<1>1. 0 \in Y
  OBVIOUS
<1>2. ASSUME NEW m \in Nat, m \in Y PROVE m + 1 \in Y
  <2> SUFFICES ASSUME m + 1 <= n PROVE m + 1 \in X
    OBVIOUS
  <2>1. m + 1 \in 1..n /\ (m + 1) - 1 = m /\ m <= n
    OBVIOUS
  <2> QED
    BY <1>2, <2>1
<1>3. \A m \in Nat : m \in Y
  <2> HIDE DEF Y
  <2> QED
    BY <1>1, <1>2, NatInduct
<1> QED
  BY <1>3

\* Forward(f, start, step, n): each value of f is got by step from the one before.
Forward(f, start, step, n) == f[0] = start /\ \A i \in 1..n : f[i] = step[i][f[i - 1]]

\* A function of 0..n exists if each of its values is got from the one before it.
LEMMA ForwardExists ==
  ASSUME NEW n \in Nat, NEW V, NEW start \in V, NEW step,
         \A i \in 1..n : \A v \in V : step[i][v] \in V
  PROVE  \E f \in [0..n -> V] : Forward(f, start, step, n)
<1> DEFINE X == {m \in 0..n : \E f \in [0..m -> V] : Forward(f, start, step, m)}
<1>1. 0 \in X
  <2>1. PICK f : f = [i \in 0..0 |-> start]
    OBVIOUS
  <2>2. f \in [0..0 -> V] /\ Forward(f, start, step, 0)
    BY <2>1 DEF Forward
  <2>3. 0 \in 0..n
    OBVIOUS
  <2> QED
    BY <2>2, <2>3
<1>2. ASSUME NEW m \in 1..n, m - 1 \in X PROVE m \in X
  <2>1. PICK g \in [0..(m - 1) -> V] : Forward(g, start, step, m - 1)
    BY <1>2
  <2>2. PICK v \in V : v = step[m][g[m - 1]]
    <3>1. m - 1 \in 0..(m - 1)
      OBVIOUS
    <3> QED
      BY <2>1, <3>1
  <2>3. PICK h : h = [i \in 0..m |-> IF i = m THEN v ELSE g[i]]
    OBVIOUS
  <2>4. h \in [0..m -> V]
    <3>1. \A i \in 0..m : i = m \/ i \in 0..(m - 1)
      OBVIOUS
    <3> QED
      BY <2>3, <3>1
  <2>5. h[m] = v /\ \A i \in 0..(m - 1) : h[i] = g[i]
    <3>1. m \in 0..m /\ \A i \in 0..(m - 1) : i \in 0..m /\ i # m
      OBVIOUS
    <3> QED
      BY <2>3, <3>1
  <2>6. h[0] = start
    <3>1. 0 \in 0..(m - 1)
      OBVIOUS
    <3> QED
      BY <2>1, <2>5, <3>1 DEF Forward
  <2>7. ASSUME NEW i \in 1..m PROVE h[i] = step[i][h[i - 1]]
    <3>1. i - 1 \in 0..(m - 1)
      OBVIOUS
    <3>2. CASE i = m
      BY <2>2, <2>5, <3>1, <3>2
    <3>3. CASE i # m
      <4>1. i \in 1..(m - 1) /\ i \in 0..(m - 1)
        BY <3>3
      <4> QED
        BY <2>1, <2>5, <3>1, <4>1 DEF Forward
    <3> QED
      BY <3>2, <3>3
  <2>8. Forward(h, start, step, m)
    BY <2>6, <2>7 DEF Forward
  <2>9. m \in 0..n
    OBVIOUS
  <2> QED
    BY <2>4, <2>8, <2>9
<1>3. \A m \in 0..n : m \in X
  <2> HIDE DEF X
  <2> QED
    BY <1>1, <1>2, UpInduct
<1>4. n \in 0..n
  OBVIOUS
<1> QED
  BY <1>3, <1>4

-----------------------------------------------------------------------------
(* FlattenSeq of the community modules.                                    *)

FlattenValue(f, s, i) == IF i = 1 THEN s[i] ELSE f[i - 1] \o s[i]
IsFlatten(f, s) == f = [i \in 1..Len(s) |-> IF i = 1 THEN s[i] ELSE f[i - 1] \o s[i]]

\* FlattenSeq's function is one of these,
LEMMA FlattenExists ==
  ASSUME NEW T, NEW s \in Seq(Seq(T)), s # << >>
  PROVE  \E f \in [1..Len(s) -> Seq(T)] : IsFlatten(f, s)
<1>1. PICK n \in Nat : n = Len(s)
  OBVIOUS
<1>2. n \in Nat \ {0} /\ \A i \in 1..n : s[i] \in Seq(T)
  BY <1>1
<1>3. PICK V : V = Seq(T)
  OBVIOUS
<1>4. PICK step : step = [i \in 1..n |-> [v \in V |-> v \o s[i]]]
  OBVIOUS
<1>5. ASSUME NEW i \in 1..n, NEW v \in V PROVE step[i][v] = v \o s[i] /\ step[i][v] \in V
  <2>1. v \o s[i] \in Seq(T)
    BY <1>2, <1>3
  <2> QED
    BY <1>3, <1>4, <2>1
<1>6. << >> \in V
  BY <1>3, EmptySeq, Zenon
<1>7. PICK e \in V : e = << >>
  BY <1>6
<1>13. PICK g \in [0..n -> V] : Forward(g, e, step, n)
  BY <1>5, ForwardExists
<1>8. \A i \in 1..n : g[i] = g[i - 1] \o s[i]
  <2> SUFFICES ASSUME NEW i \in 1..n PROVE g[i] = g[i - 1] \o s[i]
    OBVIOUS
  <2>1. i - 1 \in 0..n
    OBVIOUS
  <2>2. g[i - 1] \in V /\ g[i] = step[i][g[i - 1]]
    BY <1>13, <2>1 DEF Forward
  <2> QED
    BY <1>5, <2>2
<1>9. PICK f : f = [i \in 1..n |-> g[i]]
  OBVIOUS
<1>10. f \in [1..n -> V]
  BY <1>9
<1>11. ASSUME NEW i \in 1..n PROVE f[i] = FlattenValue(f, s, i)
  <2>1. CASE i = 1
    <3>1. g[1] = << >> \o s[1]
      <4>1. 1 \in 1..n /\ 1 - 1 = 0
        BY <2>1
      <4>2. g[1] = g[0] \o s[1] /\ g[0] = << >>
        BY <1>7, <1>8, <1>13, <4>1 DEF Forward
      <4> QED
        BY <4>2
    <3>2. s[1] \in Seq(T)
      BY <1>2
    <3>3. << >> \o s[1] = s[1]
      BY <3>2, ConcatEmptySeq
    <3> QED
      BY <1>9, <2>1, <3>1, <3>3 DEF FlattenValue
  <2>2. CASE i # 1
    <3>1. i - 1 \in 1..n
      BY <2>2
    <3> QED
      BY <1>8, <1>9, <2>2, <3>1 DEF FlattenValue
  <2> QED
    BY <2>1, <2>2
<1>12. f = [i \in 1..Len(s) |-> FlattenValue(f, s, i)]
  BY <1>1, <1>9, <1>11
<1> QED
  BY <1>1, <1>3, <1>10, <1>12, Zenon DEF IsFlatten, FlattenValue

\* Flattened(f, s): f[i] is what the first i of s make.
Flattened(f, s) == f[1] = s[1] /\ \A i \in 2..Len(s) : f[i] = f[i - 1] \o s[i]

\* and FlattenSeq yields its last value.
LEMMA FlattenIs ==
  ASSUME NEW T, NEW s \in Seq(Seq(T)), s # << >>
  PROVE  \E f \in [1..Len(s) -> Seq(T)] : Flattened(f, s) /\ FlattenSeq(s) = f[Len(s)]
<1>1. PICK h : h = CHOOSE f : IsFlatten(f, s)
  OBVIOUS
<1>2. Len(s) # 0 /\ Len(s) \in Nat
  BY EmptySeq
<1>3. FlattenSeq(s) = h[Len(s)]
  BY <1>1, <1>2 DEF FlattenSeq, IsFlatten
<1>4. IsFlatten(h, s)
  BY <1>1, FlattenExists
<1>5. h = [i \in 1..Len(s) |-> FlattenValue(h, s, i)]
  BY <1>4, Zenon DEF IsFlatten, FlattenValue
<1>6. 1 \in 1..Len(s) /\ \A i \in 2..Len(s) : i \in 1..Len(s) /\ i # 1
  BY <1>2
<1>7. Flattened(h, s)
  <2>1. h[1] = s[1]
    BY <1>5, <1>6 DEF FlattenValue
  <2>2. \A i \in 2..Len(s) : h[i] = h[i - 1] \o s[i]
    BY <1>5, <1>6 DEF FlattenValue
  <2> QED
    BY <2>1, <2>2 DEF Flattened
<1> DEFINE X == {i \in 0..Len(s) : i = 0 \/ h[i] \in Seq(T)}
<1>8. \A i \in 0..Len(s) : i \in X
  <2>1. 0 \in X
    BY <1>2
  <2>2. ASSUME NEW i \in 1..Len(s), i - 1 \in X PROVE i \in X
    <3>1. s[i] \in Seq(T)
      OBVIOUS
    <3>2. CASE i = 1
      BY <1>7, <3>1, <3>2 DEF Flattened
    <3>3. CASE i # 1
      <4>1. i \in 2..Len(s) /\ i - 1 # 0
        BY <3>3
      <4>2. h[i - 1] \in Seq(T)
        BY <2>2, <4>1
      <4>3. h[i] = h[i - 1] \o s[i]
        BY <1>7, <4>1 DEF Flattened
      <4>4. h[i] \in Seq(T)
        BY <3>1, <4>2, <4>3
      <4> QED
        BY <4>4
    <3> QED
      BY <3>2, <3>3
  <2> HIDE DEF X
  <2> QED
    BY <1>2, <2>1, <2>2, UpInduct
<1>9. h \in [1..Len(s) -> Seq(T)]
  <2>1. \A i \in 1..Len(s) : h[i] \in Seq(T)
    BY <1>8
  <2> QED
    BY <1>5, <2>1
<1> QED
  BY <1>3, <1>7, <1>9

-----------------------------------------------------------------------------
(* FlattenSeq, the text that sequences make.                               *)

\* Nothing joined is nothing.
LEMMA FlattenNone == FlattenSeq(<< >>) = << >>
  BY DEF FlattenSeq

\* One more sequence adds to the whole.
LEMMA FlattenAppend ==
  ASSUME NEW T, NEW s \in Seq(Seq(T)), NEW x \in Seq(T)
  PROVE  FlattenSeq(s) \in Seq(T) /\ FlattenSeq(Append(s, x)) = FlattenSeq(s) \o x
<1>1. PICK V : V = Seq(T)
  OBVIOUS
<1>2. PICK u : u = Append(s, x)
  OBVIOUS
<1>3. /\ u \in Seq(V) /\ u # << >> /\ Len(u) = Len(s) + 1 /\ Len(s) \in Nat
      /\ (\A i \in 1..Len(s) : u[i] = s[i]) /\ u[Len(s) + 1] = x
  <2>1. s \in Seq(V) /\ x \in V
    BY <1>1
  <2> QED
    BY <1>2, <2>1, AppendProperties, LenProperties
<1>4. PICK g \in [1..Len(u) -> Seq(T)] : Flattened(g, u) /\ FlattenSeq(u) = g[Len(u)]
  BY <1>1, <1>3, FlattenIs
<1>5. CASE s = << >>
  <2>1. Len(s) = 0
    BY <1>5
  <2>2. FlattenSeq(u) = x
    BY <1>3, <1>4, <2>1 DEF Flattened
  <2>3. FlattenSeq(s) = << >> /\ FlattenSeq(s) \in Seq(T)
    BY <1>5, FlattenNone, EmptySeq, Zenon
  <2>4. << >> \o x = x
    BY ConcatEmptySeq
  <2> QED
    BY <1>2, <2>2, <2>3, <2>4, Zenon
<1>6. CASE s # << >>
  <2>1. PICK f \in [1..Len(s) -> Seq(T)] : Flattened(f, s) /\ FlattenSeq(s) = f[Len(s)]
    BY <1>6, FlattenIs
  <2>2. PICK n \in Nat \ {0} : n = Len(s)
    <3>1. Len(s) # 0
      BY <1>6, EmptySeq
    <3> QED
      BY <1>3, <3>1
  <2> DEFINE X == {i \in 0..n : i = 0 \/ f[i] = g[i]}
  <2>3. \A i \in 0..n : i \in X
    <3>1. 0 \in X
      OBVIOUS
    <3>2. ASSUME NEW i \in 1..n, i - 1 \in X PROVE i \in X
      <4>1. CASE i = 1
        <5>1. f[1] = s[1] /\ g[1] = u[1] /\ u[1] = s[1]
          BY <1>3, <1>4, <2>1, <2>2, <4>1 DEF Flattened
        <5> QED
          BY <4>1, <5>1
      <4>2. CASE i # 1
        <5>1. i \in 2..Len(s) /\ i \in 2..Len(u) /\ i \in 1..Len(s) /\ i - 1 # 0
          BY <1>3, <2>2, <4>2
        <5>2. f[i - 1] = g[i - 1]
          BY <3>2, <5>1
        <5>3. f[i] = f[i - 1] \o s[i] /\ g[i] = g[i - 1] \o u[i] /\ u[i] = s[i]
          BY <1>3, <1>4, <2>1, <5>1 DEF Flattened
        <5>4. f[i] = g[i]
          BY <5>2, <5>3
        <5> QED
          BY <5>4
      <4> QED
        BY <4>1, <4>2
    <3> HIDE DEF X
    <3> QED
      BY <3>1, <3>2, UpInduct
  <2>4. f[n] = g[n] /\ f[n] \in Seq(T)
    <3>1. n \in 0..n /\ n # 0 /\ n \in 1..Len(s)
      BY <2>2
    <3> QED
      BY <2>3, <3>1
  <2>5. g[n + 1] = g[n] \o x
    <3>1. n + 1 \in 2..Len(u) /\ (n + 1) - 1 = n /\ u[n + 1] = x
      BY <1>3, <2>2
    <3> QED
      BY <1>4, <3>1 DEF Flattened
  <2>6. FlattenSeq(u) = FlattenSeq(s) \o x
    BY <1>3, <1>4, <2>1, <2>2, <2>4, <2>5
  <2> QED
    BY <1>2, <2>1, <2>2, <2>4, <2>6
<1> QED
  BY <1>5, <1>6

\* One sequence joined is itself.
LEMMA FlattenOne ==
  ASSUME NEW T, NEW x \in Seq(T)
  PROVE  FlattenSeq(<<x>>) = x
<1>1. PICK e \in Seq(Seq(T)) : e = << >>
  BY EmptySeq, Zenon
<1>2. Append(e, x) = <<x>>
  BY <1>1
<1>3. FlattenSeq(<<x>>) = FlattenSeq(e) \o x
  BY <1>2, FlattenAppend
<1>4. FlattenSeq(e) = << >>
  BY <1>1, FlattenNone, Zenon
<1>5. << >> \o x = x
  BY ConcatEmptySeq
<1> QED
  BY <1>3, <1>4, <1>5, Zenon

\* Joining is a homomorphism.
LEMMA FlattenConcat ==
  ASSUME NEW T, NEW s \in Seq(Seq(T)), NEW t \in Seq(Seq(T))
  PROVE  FlattenSeq(s \o t) = FlattenSeq(s) \o FlattenSeq(t)
<1>1. PICK V : V = Seq(T)
  OBVIOUS
<1> DEFINE X == {m \in Nat : \A r \in Seq(V) : Len(r) = m =>
                   FlattenSeq(s \o r) = FlattenSeq(s) \o FlattenSeq(r)}
<1>2. 0 \in X
  <2> SUFFICES ASSUME NEW r \in Seq(V), Len(r) = 0
               PROVE  FlattenSeq(s \o r) = FlattenSeq(s) \o FlattenSeq(r)
    OBVIOUS
  <2>1. r = << >>
    BY EmptySeq
  <2>2. s \o r = s
    BY <1>1, <2>1, ConcatEmptySeq
  <2>3. FlattenSeq(r) = << >>
    BY <2>1, FlattenNone, Zenon
  <2>4. PICK w \in Seq(T) : w = FlattenSeq(s)
    BY FlattenAppend, EmptySeq
  <2>5. w \o << >> = w
    BY ConcatEmptySeq
  <2> QED
    BY <2>2, <2>3, <2>4, <2>5, Zenon
<1>3. ASSUME NEW m \in Nat, m \in X PROVE m + 1 \in X
  <2> SUFFICES ASSUME NEW r \in Seq(V), Len(r) = m + 1
               PROVE  FlattenSeq(s \o r) = FlattenSeq(s) \o FlattenSeq(r)
    OBVIOUS
  <2>1. r # << >>
    BY EmptySeq
  <2>2. PICK q \in Seq(V), y \in V : r = Append(q, y)
    BY <2>1, SequenceEmptyOrAppend
  <2>3. Len(q) = m
    BY <2>2, AppendProperties
  <2>4. PICK a, b : a = FlattenSeq(s) /\ b = FlattenSeq(q)
    OBVIOUS
  <2>5. FlattenSeq(s \o q) = a \o b
    BY <1>3, <2>3, <2>4
  <2>6. a \in Seq(T) /\ b \in Seq(T) /\ y \in Seq(T)
    BY <1>1, <2>4, FlattenAppend
  <2>7. s \o r = Append(s \o q, y)
    <3>1. r = q \o <<y>> /\ <<y>> \in Seq(V) /\ s \in Seq(V)
      BY <1>1, <2>2, AppendIsConcat
    <3>2. PICK p, o : p = s \o q /\ o = <<y>>
      OBVIOUS
    <3>3. p \in Seq(V) /\ o \in Seq(V)
      BY <3>1, <3>2
    <3>4. s \o (q \o o) = p \o o
      BY <3>1, <3>2, <3>3, ConcatAssociative
    <3>5. Append(p, y) = p \o o
      BY <3>2, <3>3, AppendIsConcat
    <3> QED
      BY <3>1, <3>2, <3>4, <3>5
  <2>8. s \o q \in Seq(Seq(T))
    BY <1>1
  <2>9. FlattenSeq(s \o r) = (a \o b) \o y
    <3>1. PICK p \in Seq(Seq(T)) : p = s \o q
      BY <2>8
    <3>2. FlattenSeq(Append(p, y)) = FlattenSeq(p) \o y
      BY <2>6, FlattenAppend
    <3> QED
      BY <2>5, <2>7, <3>1, <3>2
  <2>10. FlattenSeq(r) = b \o y
    BY <1>1, <2>2, <2>4, <2>6, FlattenAppend
  <2>11. (a \o b) \o y = a \o (b \o y)
    BY <2>6, ConcatAssociative, SMTT(30)
  <2> QED
    BY <2>4, <2>9, <2>10, <2>11
<1>4. \A m \in Nat : m \in X
  <2> HIDE DEF X
  <2> QED
    BY <1>2, <1>3, NatInduct
<1>5. t \in Seq(V) /\ Len(t) \in Nat
  BY <1>1
<1>6. Len(t) \in X
  <2> HIDE DEF X
  <2> QED
    BY <1>4, <1>5
<1> QED
  BY <1>5, <1>6

NonEmpty(s) == s # << >>
Extended(s, x) == [s EXCEPT ![Len(s)] = @ \o x]

\* What r is if it is s with x written on in the last place.
Grown(T, s, x, r) ==
  /\ r \in Seq(Seq(T)) /\ NonEmpty(r) /\ Len(r) = Len(s)
  /\ \A j \in 1..Len(s) : r[j] = IF j = Len(s) THEN s[Len(s)] \o x ELSE s[j]
  /\ FlattenSeq(r) = FlattenSeq(s) \o x

\* To write on in the last of the sequences adds to the whole.
LEMMA FlattenLast ==
  ASSUME NEW T, NEW s \in Seq(Seq(T)), NonEmpty(s), NEW x \in Seq(T), NEW r,
         r = Extended(s, x)
  PROVE  Grown(T, s, x, r)
<1>0. \A b, c \in Seq(T) : (b \o c) \o x = b \o (c \o x)
  BY ConcatAssociative, SMTT(30)
<1>1. PICK V : V = Seq(T)
  OBVIOUS
<1>2. PICK q \in Seq(V), y \in V : s = Append(q, y)
  <2>1. s # << >>
    BY DEF NonEmpty
  <2> QED
    BY <1>1, <2>1, SequenceEmptyOrAppend
<1>3. Len(s) = Len(q) + 1 /\ Len(q) \in Nat /\ s[Len(s)] = y
  BY <1>2, AppendProperties, LenProperties
<1>4. PICK z : z = y \o x
  OBVIOUS
<1>5. z \in V /\ y \in Seq(T)
  BY <1>1, <1>4
<1>6. PICK l \in 1..Len(s) : l = Len(s)
  BY <1>3
<1>7. r = [s EXCEPT ![l] = z]
  <2>1. s[l] \o x = z
    BY <1>3, <1>4, <1>6
  <2> QED
    BY <1>6, <2>1 DEF Extended
<1>8. r \in Seq(V) /\ Len(r) = Len(s) /\ \A j \in 1..Len(s) : r[j] = IF j = l THEN z ELSE s[j]
  <2>1. s \in Seq(V)
    BY <1>1
  <2>2. /\ [s EXCEPT ![l] = z] \in Seq(V)
        /\ Len([s EXCEPT ![l] = z]) = Len(s)
        /\ \A j \in 1..Len(s) : [s EXCEPT ![l] = z][j] = IF j = l THEN z ELSE s[j]
    BY <1>5, <2>1, ExceptSeq
  <2> QED
    BY <1>7, <2>2
<1>9. r = Append(q, z)
  <2>1. PICK a : a = Append(q, z)
    OBVIOUS
  <2>2. /\ a \in Seq(V) /\ Len(a) = Len(q) + 1 /\ a[Len(q) + 1] = z
        /\ \A i \in 1..Len(q) : a[i] = q[i]
    BY <1>5, <2>1, AppendProperties
  <2>3. \A i \in 1..Len(q) : s[i] = q[i]
    BY <1>2, AppendProperties
  <2>4. ASSUME NEW i \in 1..Len(r) PROVE r[i] = a[i]
    <3>1. CASE i = l
      BY <1>3, <1>6, <1>8, <2>2, <3>1
    <3>2. CASE i # l
      <4>1. i \in 1..Len(q) /\ i \in 1..Len(s)
        BY <1>3, <1>6, <1>8, <3>2
      <4> QED
        BY <1>8, <2>2, <2>3, <3>2, <4>1
    <3> QED
      BY <3>1, <3>2
  <2>5. Len(r) = Len(a)
    BY <1>3, <1>8, <2>2
  <2>6. r = a
    BY <1>8, <2>2, <2>4, <2>5, SeqEqual
  <2> QED
    BY <2>1, <2>6
<1>10. PICK b \in Seq(T) : b = FlattenSeq(q)
  BY <1>1, <1>5, FlattenAppend
<1>11. FlattenSeq(s) = b \o y
  BY <1>1, <1>2, <1>5, <1>10, FlattenAppend
<1>12. FlattenSeq(r) = b \o z
  <2>1. q \in Seq(Seq(T)) /\ z \in Seq(T)
    BY <1>1, <1>5
  <2>2. FlattenSeq(Append(q, z)) = FlattenSeq(q) \o z
    BY <2>1, FlattenAppend
  <2> QED
    BY <1>9, <1>10, <2>2
<1>13. (b \o y) \o x = b \o (y \o x)
  BY <1>0, <1>5, <1>10
<1>14. NonEmpty(r)
  <2>1. Len(r) # 0
    BY <1>3, <1>8
  <2> QED
    BY <1>8, <2>1, EmptySeq DEF NonEmpty
<1>15. \A j \in 1..Len(s) : r[j] = IF j = Len(s) THEN s[Len(s)] \o x ELSE s[j]
  BY <1>3, <1>4, <1>6, <1>8
<1>16. FlattenSeq(r) = FlattenSeq(s) \o x
  BY <1>4, <1>11, <1>12, <1>13
<1> QED
  BY <1>1, <1>8, <1>14, <1>15, <1>16 DEF Grown

JoinedTo(T, fields, pieces, r) ==
  /\ r \in Seq(Seq(T)) /\ NonEmpty(r)
  /\ FlattenSeq(r) = FlattenSeq(fields) \o FlattenSeq(pieces)
  /\ NonEmpty(pieces) =>
       /\ Len(r) = Len(fields) + Len(pieces) - 1
       /\ \A i \in 1..(Len(fields) - 1) : r[i] = fields[i]
       /\ r[Len(fields)] = fields[Len(fields)] \o pieces[1]
       /\ \A i \in 2..Len(pieces) : r[Len(fields) + i - 1] = pieces[i]

\* Joining is associative.
LEMMA JoiningAssociative ==
  ASSUME NEW T
  PROVE  \A a, x, c \in Seq(T) : (a \o x) \o c = a \o (x \o c)
BY ConcatAssociative

\* What fields become when pieces are attached.
LEMMA AttachedIs ==
  ASSUME NEW T, NEW fields \in Seq(Seq(T)), NonEmpty(fields), NEW pieces \in Seq(Seq(T)), NEW r,
         r = Attached(fields, pieces)
  PROVE  JoinedTo(T, fields, pieces, r)
<1>3. ASSUME NEW x \in Seq(T), NEW q, q = Extended(fields, x)
      PROVE  Grown(T, fields, x, q)
  BY <1>3, FlattenLast
<1>4. \A a, x, c \in Seq(T) : (a \o x) \o c = a \o (x \o c)
  BY JoiningAssociative, SMTT(30)
<1>1. CASE pieces = << >>
  <2>1. r = fields
    BY <1>1 DEF Attached
  <2>2. FlattenSeq(pieces) = << >>
    BY <1>1, FlattenNone, Zenon
  <2>3. PICK w \in Seq(T) : w = FlattenSeq(fields)
    BY FlattenAppend, EmptySeq
  <2>4. w \o << >> = w
    BY ConcatEmptySeq
  <2> QED
    BY <1>1, <2>1, <2>2, <2>3, <2>4, Zenon DEF NonEmpty, JoinedTo
<1>2. CASE NonEmpty(pieces)
  <2>1. PICK V : V = Seq(T)
    OBVIOUS
  <2>2. PICK x, u : x = pieces[1] /\ u = Tail(pieces)
    OBVIOUS
  <2>16. x \in Seq(T)
    <3>1. Len(pieces) \in Nat \ {0}
      BY <1>2, EmptySeq DEF NonEmpty
    <3> QED
      BY <2>2, <3>1
  <2>3. /\ u \in Seq(V) /\ Len(u) = Len(pieces) - 1 /\ Len(pieces) \in Nat \ {0}
        /\ \A i \in 1..Len(u) : u[i] = pieces[i + 1]
    BY <1>2, <2>1, <2>2, HeadTailProperties, EmptySeq DEF NonEmpty
  <2>4. PICK l \in Nat \ {0} : l = Len(fields)
    BY EmptySeq DEF NonEmpty
  <2>5. PICK q : q = Extended(fields, x)
    OBVIOUS
  <2>6. /\ q \in Seq(Seq(T)) /\ NonEmpty(q) /\ Len(q) = l
        /\ FlattenSeq(q) = FlattenSeq(fields) \o x
        /\ \A i \in 1..l : q[i] = IF i = l THEN fields[l] \o x ELSE fields[i]
    <3>1. /\ q \in Seq(Seq(T)) /\ NonEmpty(q) /\ Len(q) = Len(fields)
          /\ \A j \in 1..Len(fields) :
               q[j] = IF j = Len(fields) THEN fields[Len(fields)] \o x ELSE fields[j]
          /\ FlattenSeq(q) = FlattenSeq(fields) \o x
      BY <1>3, <2>5, <2>16 DEF Grown
    <3> QED
      BY <2>4, <3>1
  <2>8. r = q \o u
    BY <1>2, <2>2, <2>5 DEF Attached, Extended, NonEmpty
  <2>9. /\ r \in Seq(V) /\ Len(r) = l + Len(u)
        /\ \A i \in 1..(l + Len(u)) : r[i] = IF i <= l THEN q[i] ELSE u[i - l]
    <3>1. q \in Seq(V)
      BY <2>1, <2>6
    <3>2. u \in Seq(V)
      BY <2>3
    <3>3. /\ q \o u \in Seq(V) /\ Len(q \o u) = Len(q) + Len(u)
          /\ \A i \in 1..(Len(q) + Len(u)) :
               (q \o u)[i] = IF i <= Len(q) THEN q[i] ELSE u[i - Len(q)]
      BY <3>1, <3>2, ConcatProperties
    <3> QED
      BY <2>6, <2>8, <3>3
  <2>10. FlattenSeq(pieces) = x \o FlattenSeq(u)
    <3>1. PICK o : o = <<x>>
      OBVIOUS
    <3>2. o \in Seq(V)
      BY <2>1, <2>16, <3>1
    <3>3. pieces = o \o u
      <4>1. pieces \in Seq(V) /\ pieces # << >>
        BY <1>2, <2>1 DEF NonEmpty
      <4>2. o \o u \in Seq(V) /\ Len(o) = 1 /\ o[1] = pieces[1]
        BY <2>2, <2>3, <3>1, <3>2
      <4>4. /\ Len(o \o u) = Len(o) + Len(u)
            /\ \A i \in 1..(Len(o) + Len(u)) : (o \o u)[i] = IF i <= Len(o) THEN o[i] ELSE u[i - Len(o)]
        BY <2>3, <3>2, ConcatProperties
      <4>3. Len(o \o u) = Len(pieces) /\ \A i \in 1..Len(pieces) : (o \o u)[i] = pieces[i]
        <5>1. Len(o \o u) = Len(pieces)
          BY <2>3, <4>2, <4>4
        <5>2. ASSUME NEW i \in 1..Len(pieces) PROVE (o \o u)[i] = pieces[i]
          <6>1. (o \o u)[i] = IF i <= 1 THEN o[i] ELSE u[i - 1]
            BY <2>3, <4>2, <4>4
          <6>2. CASE i = 1
            BY <4>2, <6>1, <6>2
          <6>3. CASE i # 1
            <7>1. i - 1 \in 1..Len(u) /\ (i - 1) + 1 = i /\ ~ (i <= 1)
              BY <2>3, <6>3
            <7> QED
              BY <2>3, <6>1, <7>1
          <6> QED
            BY <6>2, <6>3
        <5> QED
          BY <5>1, <5>2
      <4> QED
        BY <4>1, <4>2, <4>3, SeqEqual
    <3>4. FlattenSeq(pieces) = FlattenSeq(o) \o FlattenSeq(u)
      BY <2>1, <2>3, <3>2, <3>3, FlattenConcat
    <3>5. FlattenSeq(o) = x
      BY <2>16, <3>1, FlattenOne
    <3> QED
      BY <3>4, <3>5
  <2>11. FlattenSeq(r) = FlattenSeq(fields) \o FlattenSeq(pieces)
    <3>1. PICK a, c : a = FlattenSeq(fields) /\ c = FlattenSeq(u)
      OBVIOUS
    <3>2. a \in Seq(T) /\ c \in Seq(T)
      BY <2>1, <2>3, <3>1, FlattenAppend
    <3>3. FlattenSeq(r) = FlattenSeq(q) \o FlattenSeq(u)
      BY <2>1, <2>3, <2>6, <2>8, FlattenConcat
    <3>4. (a \o x) \o c = a \o (x \o c)
      BY <1>4, <2>16, <3>2
    <3> QED
      BY <2>6, <2>10, <3>1, <3>3, <3>4
  <2>17. Len(u) \in Nat
    BY <2>3
  <2>12. NonEmpty(r)
    <3>1. Len(r) # 0
      BY <2>9, <2>17
    <3> QED
      BY <2>9, <3>1, EmptySeq DEF NonEmpty
  <2>13. ASSUME NEW i \in 1..(l - 1) PROVE r[i] = fields[i]
    <3>1. i \in 1..l /\ i \in 1..(l + Len(u)) /\ i <= l /\ i # l
      BY <2>17
    <3> QED
      BY <2>6, <2>9, <3>1
  <2>14. r[l] = fields[l] \o pieces[1]
    <3>1. l \in 1..l /\ l \in 1..(l + Len(u)) /\ l <= l
      BY <2>17
    <3>2. r[l] = fields[l] \o x
      BY <2>6, <2>9, <3>1
    <3> QED
      BY <2>2, <3>2
  <2>15. ASSUME NEW i \in 2..Len(pieces) PROVE r[l + i - 1] = pieces[i]
    <3>1. l + i - 1 \in 1..(l + Len(u)) /\ ~ (l + i - 1 <= l) /\ (l + i - 1) - l = i - 1
      BY <2>3
    <3>2. i - 1 \in 1..Len(u) /\ (i - 1) + 1 = i
      BY <2>3
    <3> QED
      BY <2>3, <2>9, <3>1, <3>2
  <2>18. Len(r) = Len(fields) + Len(pieces) - 1
    BY <2>3, <2>4, <2>9
  <2>19. r \in Seq(Seq(T))
    BY <2>1, <2>9
  <2>20. pieces # << >>
    BY <1>2 DEF NonEmpty
  <2>21. /\ \A i \in 1..(Len(fields) - 1) : r[i] = fields[i]
         /\ r[Len(fields)] = fields[Len(fields)] \o pieces[1]
         /\ \A i \in 2..Len(pieces) : r[Len(fields) + i - 1] = pieces[i]
    BY <2>4, <2>13, <2>14, <2>15
  <2> QED
    BY <2>11, <2>12, <2>18, <2>19, <2>21, Zenon DEF JoinedTo
<1> QED
  BY <1>1, <1>2 DEF NonEmpty

-----------------------------------------------------------------------------
(* Functions whose values have types of their own.                         *)

\* A function on 0..n whose values keep to the sets W[i] exists.
ForwardIn(f, W, start, step, n) ==
  /\ f = [i \in 0..n |-> f[i]]
  /\ \A i \in 0..n : f[i] \in W[i]
  /\ Forward(f, start, step, n)

\* It exists if step leads from each of the sets to the next.
LEMMA ForwardInExists ==
  ASSUME NEW n \in Nat, NEW W, NEW start \in W[0], NEW step,
         \A i \in 1..n : \A v \in W[i - 1] : step[i][v] \in W[i]
  PROVE  \E f : ForwardIn(f, W, start, step, n)
<1> DEFINE X == {m \in 0..n : \E f : ForwardIn(f, W, start, step, m)}
<1>1. 0 \in X
  <2>1. PICK f : f = [i \in 0..0 |-> start]
    OBVIOUS
  <2>2. f[0] = start /\ \A i \in 0..0 : i = 0
    BY <2>1
  <2>3. f = [i \in 0..0 |-> f[i]]
    BY <2>1
  <2>4. ForwardIn(f, W, start, step, 0)
    BY <2>2, <2>3 DEF Forward, ForwardIn
  <2>5. 0 \in 0..n
    OBVIOUS
  <2> QED
    BY <2>4, <2>5
<1>2. ASSUME NEW m \in 1..n, m - 1 \in X PROVE m \in X
  <2>1. PICK g : ForwardIn(g, W, start, step, m - 1)
    BY <1>2
  <2>2. PICK v : v = step[m][g[m - 1]]
    OBVIOUS
  <2>3. v \in W[m]
    <3>1. m - 1 \in 0..(m - 1)
      OBVIOUS
    <3>2. g[m - 1] \in W[m - 1]
      BY <2>1, <3>1 DEF ForwardIn
    <3> QED
      BY <2>2, <3>2
  <2>4. PICK h : h = [i \in 0..m |-> IF i = m THEN v ELSE g[i]]
    OBVIOUS
  <2>5. h[m] = v /\ \A i \in 0..(m - 1) : h[i] = g[i]
    <3>1. m \in 0..m /\ \A i \in 0..(m - 1) : i \in 0..m /\ i # m
      OBVIOUS
    <3> QED
      BY <2>4, <3>1
  <2>6. h[0] = start
    <3>1. 0 \in 0..(m - 1)
      OBVIOUS
    <3> QED
      BY <2>1, <2>5, <3>1 DEF Forward, ForwardIn
  <2>7. ASSUME NEW i \in 1..m PROVE h[i] = step[i][h[i - 1]]
    <3>1. i - 1 \in 0..(m - 1)
      OBVIOUS
    <3>2. CASE i = m
      BY <2>2, <2>5, <3>1, <3>2
    <3>3. CASE i # m
      <4>1. i \in 1..(m - 1) /\ i \in 0..(m - 1)
        BY <3>3
      <4> QED
        BY <2>1, <2>5, <3>1, <4>1 DEF Forward, ForwardIn
    <3> QED
      BY <3>2, <3>3
  <2>8. ASSUME NEW i \in 0..m PROVE h[i] \in W[i]
    <3>1. CASE i = m
      BY <2>3, <2>5, <3>1
    <3>2. CASE i # m
      <4>1. i \in 0..(m - 1)
        BY <3>2
      <4> QED
        BY <2>1, <2>5, <4>1 DEF ForwardIn
    <3> QED
      BY <3>1, <3>2
  <2>9. h = [i \in 0..m |-> h[i]]
    BY <2>4
  <2>10. ForwardIn(h, W, start, step, m)
    BY <2>6, <2>7, <2>8, <2>9 DEF Forward, ForwardIn
  <2>11. m \in 0..n
    OBVIOUS
  <2> QED
    BY <2>10, <2>11
<1>3. \A m \in 0..n : m \in X
  <2> HIDE DEF X
  <2> QED
    BY <1>1, <1>2, UpInduct
<1>4. n \in 0..n
  OBVIOUS
<1> QED
  BY <1>3, <1>4

\* Sums(g, s): g[i] is what the first i of s make, from none on.
Sums(g, s) == g[0] = << >> /\ \A i \in 1..Len(s) : g[i] = g[i - 1] \o s[i]

\* FlattenSeq yields the last of the sums.
LEMMA FlattenSums ==
  ASSUME NEW T, NEW s \in Seq(Seq(T))
  PROVE  \E g \in [0..Len(s) -> Seq(T)] : Sums(g, s) /\ FlattenSeq(s) = g[Len(s)]
<1>1. PICK e \in Seq(T) : e = << >>
  BY EmptySeq, Zenon
<1>2. PICK n \in Nat : n = Len(s)
  OBVIOUS
<1>3. CASE n = 0
  <2>1. PICK g : g = [i \in 0..0 |-> e]
    OBVIOUS
  <2>2. g \in [0..n -> Seq(T)] /\ g[0] = e /\ g[n] = e
    BY <1>3, <2>1
  <2>3. s = << >>
    BY <1>2, <1>3, EmptySeq
  <2>4. FlattenSeq(s) = e
    BY <1>1, <2>3, FlattenNone, Zenon
  <2>5. \A i \in 1..n : FALSE
    BY <1>3
  <2>6. Sums(g, s)
    BY <1>1, <1>2, <2>2, <2>5, Zenon DEF Sums
  <2> QED
    BY <1>2, <2>2, <2>4, <2>6
<1>4. CASE n # 0
  <2>1. s # << >>
    BY <1>2, <1>4, EmptySeq
  <2>2. PICK f \in [1..Len(s) -> Seq(T)] : Flattened(f, s) /\ FlattenSeq(s) = f[Len(s)]
    BY <2>1, FlattenIs
  <2>3. PICK g : g = [i \in 0..n |-> IF i = 0 THEN e ELSE f[i]]
    OBVIOUS
  <2>4. g[0] = e /\ \A i \in 1..n : g[i] = f[i] /\ f[i] \in Seq(T)
    <3>1. 0 \in 0..n /\ \A i \in 1..n : i \in 0..n /\ i # 0
      OBVIOUS
    <3>2. g[0] = e /\ \A i \in 1..n : g[i] = f[i]
      BY <2>3, <3>1, Zenon
    <3>3. \A i \in 1..n : f[i] \in Seq(T)
      BY <1>2, <2>2
    <3> QED
      BY <3>2, <3>3, Zenon
  <2>5. g \in [0..n -> Seq(T)]
    <3>1. \A i \in 0..n : i = 0 \/ i \in 1..n
      OBVIOUS
    <3>2. PICK V : V = Seq(T)
      OBVIOUS
    <3>3. e \in V /\ \A i \in 1..n : f[i] \in V
      BY <1>1, <2>4, <3>2, Zenon
    <3>4. g \in [0..n -> V]
      BY <2>3, <3>1, <3>3
    <3> QED
      BY <3>2, <3>4
  <2>6. ASSUME NEW i \in 1..n PROVE g[i] = g[i - 1] \o s[i]
    <3>1. CASE i = 1
      <4>1. s[1] \in Seq(T)
        BY <1>2, <3>1
      <4>2. << >> \o s[1] = s[1]
        BY <4>1, ConcatEmptySeq
      <4>3. f[1] = s[1]
        BY <2>2 DEF Flattened
      <4>4. g[i] = s[1] /\ g[i - 1] = e
        BY <2>4, <3>1, <4>3
      <4> QED
        BY <1>1, <3>1, <4>2, <4>4
    <3>2. CASE i # 1
      <4>1. i \in 2..n /\ i - 1 \in 1..n
        BY <3>2
      <4>2. f[i] = f[i - 1] \o s[i]
        BY <1>2, <2>2, <4>1 DEF Flattened
      <4> QED
        BY <2>4, <4>1, <4>2
    <3> QED
      BY <3>1, <3>2
  <2>7. Sums(g, s)
    BY <1>1, <1>2, <2>4, <2>6, Zenon DEF Sums
  <2>8. FlattenSeq(s) = g[n]
    <3>1. n \in 1..n
      BY <1>4
    <3> QED
      BY <1>2, <2>2, <2>4, <3>1
  <2> QED
    BY <1>2, <2>5, <2>7, <2>8
<1> QED
  BY <1>3, <1>4

-----------------------------------------------------------------------------
(* Field splitting.                                                        *)

\* What Pieces does at the place i.
PieceStep(v, i, before) ==
  IF v[i] \in Separators THEN before
  ELSE IF i = 1 \/ v[i - 1] \in Separators THEN Append(before, <<v[i]>>)
  ELSE [before EXCEPT ![Len(before)] = Append(@, v[i])]

\* The characters of v that are no separators, one by one.
Kept(v) == [i \in DOMAIN v |-> IF v[i] \in Separators THEN << >> ELSE <<v[i]>>]

\* The pieces that make t, and there is one where a character was just added.
PiecesThat(T, v, i, t) ==
  {ps \in Seq(Seq(T)) :
     /\ FlattenSeq(ps) = t
     /\ i # 0 /\ v[i] \notin Separators => NonEmpty(ps)}

\* One character is a text.
LEMMA OneLong ==
  ASSUME NEW T, NEW c \in T
  PROVE  <<c>> \in Seq(T)
  OBVIOUS

\* A step of Pieces adds to what they make what is kept of the character.
LEMMA PieceStepIs ==
  ASSUME NEW T, NEW v \in Seq(T), NEW i \in 1..Len(v), NEW t \in Seq(T),
         NEW before \in PiecesThat(T, v, i - 1, t)
  PROVE  PieceStep(v, i, before) \in PiecesThat(T, v, i, t \o Kept(v)[i])
<1>1. before \in Seq(Seq(T)) /\ FlattenSeq(before) = t
  BY Zenon DEF PiecesThat
<1>2. v[i] \in T /\ i \in DOMAIN v /\ i # 0
  OBVIOUS
<1>3. PICK c : c = v[i]
  OBVIOUS
<1>4. PICK o \in Seq(T) : o = <<c>>
  <2>1. c \in T
    BY <1>2, <1>3
  <2>2. <<c>> \in Seq(T)
    BY <2>1, OneLong
  <2> QED
    BY <2>2, Zenon
<1>5. CASE c \in Separators
  <2>1. Kept(v)[i] = << >>
    BY <1>2, <1>3, <1>5 DEF Kept
  <2>2. t \o << >> = t
    BY ConcatEmptySeq
  <2>3. t \o Kept(v)[i] = t
    BY <2>1, <2>2, Zenon
  <2>4. PieceStep(v, i, before) = before
    BY <1>3, <1>5 DEF PieceStep
  <2> QED
    BY <1>1, <1>3, <1>5, <2>3, <2>4 DEF PiecesThat
<1>6. CASE c \notin Separators /\ (i = 1 \/ v[i - 1] \in Separators)
  <2>1. Kept(v)[i] = o
    BY <1>2, <1>3, <1>4, <1>6 DEF Kept
  <2>2. PICK r : r = Append(before, o)
    OBVIOUS
  <2>3. FlattenSeq(r) = t \o o
    BY <1>1, <2>2, FlattenAppend
  <2>4. PICK V : V = Seq(T)
    OBVIOUS
  <2>5. before \in Seq(V) /\ o \in V
    BY <1>1, <1>4, <2>4
  <2>6. r \in Seq(V) /\ r # << >>
    BY <2>2, <2>5, AppendProperties
  <2>7. r \in Seq(Seq(T)) /\ NonEmpty(r)
    BY <2>4, <2>6 DEF NonEmpty
  <2>8. PieceStep(v, i, before) = r
    BY <1>3, <1>4, <1>6, <2>2 DEF PieceStep
  <2> QED
    BY <2>1, <2>3, <2>7, <2>8 DEF PiecesThat
<1>7. CASE c \notin Separators /\ ~ (i = 1 \/ v[i - 1] \in Separators)
  <2>1. Kept(v)[i] = o
    BY <1>2, <1>3, <1>4, <1>7 DEF Kept
  <2>2. NonEmpty(before)
    BY <1>7 DEF PiecesThat
  <2>3. PICK r : r = Extended(before, o)
    OBVIOUS
  <2>4. Grown(T, before, o, r)
    BY <1>1, <2>2, <2>3, FlattenLast
  <2>5. r \in Seq(Seq(T)) /\ NonEmpty(r) /\ FlattenSeq(r) = t \o o
    BY <1>1, <2>4 DEF Grown
  <2>6. PieceStep(v, i, before) = r
    <3>1. PICK l : l = Len(before)
      OBVIOUS
    <3>2. l \in 1..Len(before)
      <4>1. Len(before) \in Nat \ {0}
        BY <1>1, <2>2, EmptySeq DEF NonEmpty
      <4> QED
        BY <3>1, <4>1
    <3>3. before[l] \in Seq(T)
      BY <1>1, <3>2
    <3>4. PICK b \in Seq(T) : b = before[l]
      BY <3>3
    <3>5. Append(b, c) = b \o o
      BY <1>2, <1>3, <1>4, <3>4, AppendIsConcat
    <3>6. r = [before EXCEPT ![l] = b \o o]
      BY <2>3, <3>1, <3>4 DEF Extended
    <3>7. PieceStep(v, i, before) = [before EXCEPT ![l] = Append(b, c)]
      BY <1>3, <1>7, <3>1, <3>4 DEF PieceStep
    <3> QED
      BY <3>5, <3>6, <3>7
  <2> QED
    BY <2>1, <2>5, <2>6 DEF PiecesThat
<1> QED
  BY <1>5, <1>6, <1>7

-----------------------------------------------------------------------------
(* Splitting: the pieces of a value, and of a part.                        *)

PiecesValue(f, v, i) == IF i = 0 THEN << >> ELSE PieceStep(v, i, f[i - 1])
IsPieces(f, v) ==
  f = [i \in 0..Len(v) |->
         IF i = 0 THEN << >>
         ELSE IF v[i] \in Separators THEN f[i - 1]
         ELSE IF i = 1 \/ v[i - 1] \in Separators THEN Append(f[i - 1], <<v[i]>>)
         ELSE [f[i - 1] EXCEPT ![Len(f[i - 1])] = Append(@, v[i])]]

\* Their types.
LEMMA KeptIs ==
  ASSUME NEW T, NEW v \in Seq(T)
  PROVE  Kept(v) \in Seq(Seq(T)) /\ Len(Kept(v)) = Len(v)
<1>1. PICK V : V = Seq(T)
  OBVIOUS
<1>2. PICK e \in V : e = << >>
  BY <1>1, EmptySeq, Zenon
<1>3. PICK n \in Nat : n = Len(v) /\ DOMAIN v = 1..n
  BY LenProperties
<1>4. ASSUME NEW i \in 1..n PROVE <<v[i]>> \in V
  <2>1. v[i] \in T
    BY <1>3
  <2> QED
    BY <1>1, <2>1, OneLong, Zenon
<1>5. PICK k : k = [i \in 1..n |-> IF v[i] \in Separators THEN e ELSE <<v[i]>>]
  OBVIOUS
<1>6. k \in [1..n -> V]
  BY <1>2, <1>4, <1>5
<1>7. k \in Seq(V) /\ Len(k) = n
  BY <1>6
<1>8. k = Kept(v)
  BY <1>2, <1>3, <1>5, Zenon DEF Kept
<1> QED
  BY <1>1, <1>3, <1>7, <1>8, Zenon

\* The sums of Kept(v).
KeptSums(T, v, g) ==
  /\ g \in [0..Len(v) -> Seq(T)] /\ g[0] = << >>
  /\ \A i \in 1..Len(v) : g[i] = g[i - 1] \o Kept(v)[i]
  /\ WithoutSeparators(v) = g[Len(v)]

\* WithoutSeparators yields the last sum of what is kept.
LEMMA KeptSumsExist ==
  ASSUME NEW T, NEW v \in Seq(T)
  PROVE  \E g : KeptSums(T, v, g)
<1>1. PICK k \in Seq(Seq(T)) : k = Kept(v) /\ Len(k) = Len(v)
  BY KeptIs
<1>2. PICK g \in [0..Len(k) -> Seq(T)] : Sums(g, k) /\ FlattenSeq(k) = g[Len(k)]
  BY <1>1, FlattenSums
<1>3. WithoutSeparators(v) = FlattenSeq(k)
  BY <1>1, Zenon DEF WithoutSeparators, Kept
<1> QED
  BY <1>1, <1>2, <1>3, Zenon DEF KeptSums, Sums

\* No pieces make the empty text.
LEMMA FirstPieces ==
  ASSUME NEW T, NEW v, NEW t, t = << >>
  PROVE  << >> \in PiecesThat(T, v, 0, t)
<1>1. PICK V : V = Seq(T)
  OBVIOUS
<1>2. PICK e \in Seq(V) : e = << >>
  BY EmptySeq, Zenon
<1>3. e \in Seq(Seq(T))
  BY <1>1
<1>4. FlattenSeq(e) = t
  BY <1>2, FlattenNone, Zenon
<1>5. e \in PiecesThat(T, v, 0, t)
  BY <1>3, <1>4 DEF PiecesThat
<1> QED
  BY <1>2, <1>5, Zenon

\* Pieces is a function of how far the value has been read,
LEMMA PiecesExist ==
  ASSUME NEW T, NEW v \in Seq(T)
  PROVE  \E f : IsPieces(f, v)
<1>1. PICK g : KeptSums(T, v, g)
  BY KeptSumsExist
<1>2. PICK n \in Nat : n = Len(v)
  BY LenProperties
<1>3. PICK W : W = [i \in 0..n |-> PiecesThat(T, v, i, g[i])]
  OBVIOUS
<1>4. PICK step : step = [i \in 1..n |-> [ps \in W[i - 1] |-> PieceStep(v, i, ps)]]
  OBVIOUS
<1>5. PICK e : e = << >>
  OBVIOUS
<1>6. e \in W[0]
  <2>1. 0 \in 0..n
    OBVIOUS
  <2>2. W[0] = PiecesThat(T, v, 0, g[0])
    BY <1>3, <2>1
  <2>3. PICK t : t = g[0]
    OBVIOUS
  <2>4. t = << >>
    BY <1>1, <2>3, Zenon DEF KeptSums
  <2>5. << >> \in PiecesThat(T, v, 0, t)
    BY <2>4, FirstPieces
  <2> QED
    BY <1>5, <2>2, <2>3, <2>5, Zenon
<1>7. ASSUME NEW i \in 1..n, NEW ps \in W[i - 1]
      PROVE  step[i][ps] = PieceStep(v, i, ps) /\ step[i][ps] \in W[i]
  <2>1. i - 1 \in 0..n /\ i \in 0..n /\ i \in 1..Len(v)
    BY <1>2
  <2>2. PICK t \in Seq(T) : t = g[i - 1]
    BY <1>1, <1>2, <2>1 DEF KeptSums
  <2>3. ps \in PiecesThat(T, v, i - 1, t)
    BY <1>3, <2>1, <2>2
  <2>4. PieceStep(v, i, ps) \in PiecesThat(T, v, i, t \o Kept(v)[i])
    BY <2>1, <2>3, PieceStepIs
  <2>5. t \o Kept(v)[i] = g[i]
    BY <1>1, <2>1, <2>2, Zenon DEF KeptSums
  <2>6. W[i] = PiecesThat(T, v, i, g[i])
    BY <1>3, <2>1
  <2>7. step[i][ps] = PieceStep(v, i, ps)
    BY <1>4
  <2> QED
    BY <2>4, <2>5, <2>6, <2>7, Zenon
<1>8. PICK f : ForwardIn(f, W, e, step, n)
  BY <1>6, <1>7, ForwardInExists
<1>9. ASSUME NEW i \in 0..n PROVE f[i] = PiecesValue(f, v, i)
  <2>1. CASE i = 0
    <3>1. f[0] = e
      BY <1>8 DEF ForwardIn, Forward
    <3> QED
      BY <1>5, <2>1, <3>1, Zenon DEF PiecesValue
  <2>2. CASE i # 0
    <3>1. i \in 1..n /\ i - 1 \in 0..n
      BY <2>2
    <3>2. f[i] = step[i][f[i - 1]] /\ f[i - 1] \in W[i - 1]
      BY <1>8, <3>1 DEF ForwardIn, Forward
    <3>3. f[i] = PieceStep(v, i, f[i - 1])
      BY <1>7, <3>1, <3>2
    <3> QED
      BY <2>2, <3>3, Zenon DEF PiecesValue
  <2> QED
    BY <2>1, <2>2
<1>10. f = [i \in 0..n |-> f[i]]
  BY <1>8 DEF ForwardIn
<1>11. f = [i \in 0..Len(v) |-> PiecesValue(f, v, i)]
  BY <1>2, <1>9, <1>10, Zenon
<1>12. IsPieces(f, v)
  BY <1>11, Zenon DEF IsPieces, PiecesValue, PieceStep
<1> QED
  BY <1>12

\* and in the end they make the value without its separators.
LEMMA PiecesAre ==
  ASSUME NEW T, NEW v \in Seq(T)
  PROVE  Pieces(v) \in Seq(Seq(T)) /\ FlattenSeq(Pieces(v)) = WithoutSeparators(v)
<1>1. PICK h : h = CHOOSE f : IsPieces(f, v)
  OBVIOUS
<1>2. Pieces(v) = h[Len(v)]
  BY <1>1, Zenon DEF Pieces, IsPieces
<1>3. IsPieces(h, v)
  BY <1>1, PiecesExist
<1>4. h = [i \in 0..Len(v) |-> PiecesValue(h, v, i)]
  BY <1>3, Zenon DEF IsPieces, PiecesValue, PieceStep
<1>5. PICK g : KeptSums(T, v, g)
  BY KeptSumsExist
<1>6. PICK n \in Nat : n = Len(v)
  BY LenProperties
<1>7. \A i \in 0..n : h[i] = PiecesValue(h, v, i)
  BY <1>4, <1>6
<1> DEFINE X == {i \in 0..n : h[i] \in PiecesThat(T, v, i, g[i])}
<1>8. 0 \in X
  <2>1. 0 \in 0..n
    OBVIOUS
  <2>2. h[0] = << >>
    BY <1>7, <2>1, Zenon DEF PiecesValue
  <2>3. PICK t : t = g[0]
    OBVIOUS
  <2>4. t = << >>
    BY <1>5, <2>3, Zenon DEF KeptSums
  <2>5. << >> \in PiecesThat(T, v, 0, t)
    BY <2>4, FirstPieces
  <2> QED
    BY <2>1, <2>2, <2>3, <2>5, Zenon
<1>9. ASSUME NEW i \in 1..n, i - 1 \in X PROVE i \in X
  <2>1. i - 1 \in 0..n /\ i \in 0..n /\ i \in 1..Len(v) /\ i # 0
    BY <1>6
  <2>2. PICK t \in Seq(T) : t = g[i - 1]
    BY <1>5, <1>6, <2>1 DEF KeptSums
  <2>3. PICK ps : ps = h[i - 1]
    OBVIOUS
  <2>4. ps \in PiecesThat(T, v, i - 1, t)
    BY <1>9, <2>2, <2>3
  <2>5. PieceStep(v, i, ps) \in PiecesThat(T, v, i, t \o Kept(v)[i])
    BY <2>1, <2>4, PieceStepIs
  <2>6. t \o Kept(v)[i] = g[i]
    BY <1>5, <2>1, <2>2, Zenon DEF KeptSums
  <2>7. h[i] = PieceStep(v, i, ps)
    BY <1>7, <2>1, <2>3, Zenon DEF PiecesValue
  <2> QED
    BY <2>1, <2>5, <2>6, <2>7, Zenon
<1>10. n \in X
  <2>1. n \in 0..n
    OBVIOUS
  <2> HIDE DEF X
  <2> QED
    BY <1>8, <1>9, <2>1, UpInduct
<1>11. h[n] \in PiecesThat(T, v, n, g[n])
  BY <1>10
<1>12. g[n] = WithoutSeparators(v)
  BY <1>5, <1>6, Zenon DEF KeptSums
<1> QED
  BY <1>2, <1>6, <1>11, <1>12, Zenon DEF PiecesThat

\* So they do with an empty IFS, where nothing is split.
LEMMA SplitFieldsAre ==
  ASSUME NEW T, NEW v \in Seq(T)
  PROVE  SplitFields(v) \in Seq(Seq(T)) /\ FlattenSeq(SplitFields(v)) = WithoutSeparators(v)
<1>1. CASE Separators # {}
  BY <1>1, PiecesAre DEF SplitFields
<1>2. CASE Separators = {}
  <2>1. SplitFields(v) = <<v>>
    BY <1>2 DEF SplitFields
  <2>2. <<v>> \in Seq(Seq(T))
    BY OneLong
  <2>3. FlattenSeq(<<v>>) = v
    BY FlattenOne
  <2>4. WithoutSeparators(v) = v
    <3>1. PICK g : KeptSums(T, v, g)
      BY KeptSumsExist
    <3>2. PICK n \in Nat : n = Len(v)
      BY LenProperties
    <3> DEFINE X == {i \in 0..n : g[i] = SubSeq(v, 1, i)}
    <3>3. 0 \in X
      <4>1. SubSeq(v, 1, 0) = << >>
        BY SubSeqEmpty
      <4>2. g[0] = << >>
        BY <3>1, Zenon DEF KeptSums
      <4>3. 0 \in 0..n
        OBVIOUS
      <4> QED
        BY <4>1, <4>2, <4>3, Zenon
    <3>4. ASSUME NEW i \in 1..n, i - 1 \in X PROVE i \in X
      <4>1. i \in 1..Len(v) /\ i \in 0..n /\ 1 \in 1..Len(v) /\ i \in DOMAIN v
        BY <3>2, LenProperties
      <4>2. Kept(v)[i] = <<v[i]>>
        BY <1>2, <4>1 DEF Kept
      <4>3. g[i] = SubSeq(v, 1, i - 1) \o <<v[i]>>
        BY <3>1, <3>4, <4>1, <4>2, Zenon DEF KeptSums
      <4>4. SubSeq(v, 1, i) = SubSeq(v, 1, i - 1) \o <<v[i]>>
        <5>1. i \in 1..Len(v)
          BY <4>1
        <5> QED
          BY <4>1, <5>1, SubSeqRecursiveSecond
      <4> QED
        BY <4>1, <4>3, <4>4, Zenon
    <3>5. n \in X
      <4>1. n \in 0..n
        OBVIOUS
      <4> HIDE DEF X
      <4> QED
        BY <3>3, <3>4, <4>1, UpInduct
    <3>6. SubSeq(v, 1, Len(v)) = v
      BY SubSeqFull
    <3> QED
      BY <3>1, <3>2, <3>5, <3>6, Zenon DEF KeptSums
  <2> QED
    BY <2>1, <2>2, <2>3, <2>4
<1> QED
  BY <1>1, <1>2

-----------------------------------------------------------------------------
(* Splitting: quoted values stay whole.                                    *)

\* A text stands in a field.
Holds(field, v) == \E a, b \in 0..Len(field) : SubSeq(field, a + 1, b) = v
Holding(fields, v) == \E f \in DOMAIN fields : Holds(fields[f], v)

\* A text stands in itself,
LEMMA HoldsSelf ==
  ASSUME NEW T, NEW v \in Seq(T)
  PROVE  Holds(v, v)
<1>1. PICK n \in Nat : n = Len(v)
  BY LenProperties
<1>2. SubSeq(v, 1, n) = v
  BY <1>1, SubSeqFull
<1>3. 0 \in 0..n /\ n \in 0..n /\ 0 + 1 = 1
  OBVIOUS
<1> QED
  BY <1>1, <1>2, <1>3, Zenon DEF Holds

\* in what it begins with a longer one,
LEMMA HoldsLeft ==
  ASSUME NEW T, NEW x \in Seq(T), NEW y \in Seq(T), NEW v, Holds(x, v)
  PROVE  Holds(x \o y, v)
<1>1. PICK a, b \in 0..Len(x) : SubSeq(x, a + 1, b) = v
  BY DEF Holds
<1>2. Len(x) \in Nat /\ Len(y) \in Nat /\ Len(x \o y) = Len(x) + Len(y)
  BY LenProperties, ConcatProperties
<1>3. a \in 0..Len(x \o y) /\ b \in 0..Len(x \o y)
  BY <1>2
<1>4. SubSeq(x \o y, a + 1, b) = v
  <2>1. CASE a + 1 <= b
    <3>1. a + 1 \in 1..Len(x) /\ b \in 1..Len(x)
      BY <1>2, <2>1
    <3>2. SubSeq(x \o y, a + 1, b) = SubSeq(x, a + 1, b)
      BY <3>1, SubSeqOfConcat1
    <3> QED
      BY <1>1, <3>2, Zenon
  <2>2. CASE ~ (a + 1 <= b)
    <3>1. a + 1 \in Int /\ b \in Int /\ b < a + 1
      BY <1>2, <2>2
    <3>2. SubSeq(x \o y, a + 1, b) = << >> /\ SubSeq(x, a + 1, b) = << >>
      BY <3>1, SubSeqEmpty
    <3> QED
      BY <1>1, <3>2, Zenon
  <2> QED
    BY <2>1, <2>2
<1> QED
  BY <1>3, <1>4, Zenon DEF Holds

\* and where it ends one.
LEMMA HoldsRight ==
  ASSUME NEW T, NEW x \in Seq(T), NEW y \in Seq(T)
  PROVE  Holds(x \o y, y)
<1>1. PICK l \in Nat : l = Len(x)
  BY LenProperties
<1>2. PICK m \in Nat : m = Len(y)
  BY LenProperties
<1>3. Len(x \o y) = l + m
  BY <1>1, <1>2, ConcatProperties
<1>4. l \in 0..(l + m) /\ l + m \in 0..(l + m)
  OBVIOUS
<1>5. SubSeq(x \o y, l + 1, l + m) = y
  <2>1. CASE m = 0
    <3>1. l + 1 \in Int /\ l + m \in Int /\ l + m < l + 1
      BY <2>1
    <3>2. SubSeq(x \o y, l + 1, l + m) = << >>
      BY <3>1, SubSeqEmpty
    <3>3. y = << >>
      BY <1>2, <2>1, EmptySeq
    <3> QED
      BY <3>2, <3>3, Zenon
  <2>2. CASE m # 0
    <3>1. l + 1 \in Len(x) + 1..Len(x) + Len(y) /\ l + m \in Len(x) + 1..Len(x) + Len(y)
      BY <1>1, <1>2, <2>2
    <3>2. SubSeq(x \o y, l + 1, l + m) = SubSeq(y, (l + 1) - Len(x), (l + m) - Len(x))
      BY <3>1, SubSeqOfConcat2
    <3>3. (l + 1) - Len(x) = 1 /\ (l + m) - Len(x) = Len(y)
      BY <1>1, <1>2
    <3>4. SubSeq(y, 1, Len(y)) = y
      BY SubSeqFull
    <3> QED
      BY <3>2, <3>3, <3>4, Zenon
  <2> QED
    BY <2>1, <2>2
<1> QED
  BY <1>3, <1>4, <1>5, Zenon DEF Holds

\* What is in a field stays in one when pieces are attached,
LEMMA AttachedKeeps ==
  ASSUME NEW T, NEW fields \in Seq(Seq(T)), NonEmpty(fields), NEW pieces \in Seq(Seq(T)),
         NEW r, r = Attached(fields, pieces), NEW v, Holding(fields, v)
  PROVE  Holding(r, v)
<1>1. CASE pieces = << >>
  BY <1>1 DEF Attached
<1>2. CASE NonEmpty(pieces)
  <2>1. /\ r \in Seq(Seq(T)) /\ Len(r) = Len(fields) + Len(pieces) - 1
        /\ \A i \in 1..(Len(fields) - 1) : r[i] = fields[i]
        /\ r[Len(fields)] = fields[Len(fields)] \o pieces[1]
    <3>1. JoinedTo(T, fields, pieces, r)
      BY AttachedIs
    <3> QED
      BY <1>2, <3>1 DEF JoinedTo
  <2>2. PICK l \in Nat \ {0} : l = Len(fields)
    BY EmptySeq DEF NonEmpty
  <2>3. PICK m \in Nat \ {0} : m = Len(pieces)
    BY <1>2, EmptySeq DEF NonEmpty
  <2>4. PICK f \in 1..l : Holds(fields[f], v)
    BY <2>2, LenProperties DEF Holding
  <2>5. f \in DOMAIN r
    BY <2>1, <2>2, <2>3, <2>4, LenProperties
  <2>6. CASE f = l
    <3>1. fields[l] \in Seq(T) /\ pieces[1] \in Seq(T)
      BY <2>2, <2>3
    <3>2. Holds(fields[l] \o pieces[1], v)
      BY <2>4, <2>6, <3>1, HoldsLeft
    <3> QED
      BY <2>1, <2>2, <2>5, <2>6, <3>2, Zenon DEF Holding
  <2>7. CASE f # l
    <3>1. f \in 1..(l - 1)
      BY <2>4, <2>7
    <3>2. r[f] = fields[f]
      BY <2>1, <2>2, <3>1
    <3> QED
      BY <2>4, <2>5, <3>2, Zenon DEF Holding
  <2> QED
    BY <2>6, <2>7
<1> QED
  BY <1>1, <1>2 DEF NonEmpty

\* and the pieces are in fields.
LEMMA AttachedHolds ==
  ASSUME NEW T, NEW fields \in Seq(Seq(T)), NonEmpty(fields), NEW pieces \in Seq(Seq(T)),
         NEW r, r = Attached(fields, pieces), NEW m \in 1..Len(pieces)
  PROVE  Holding(r, pieces[m])
<1>2. NonEmpty(pieces)
  <2>1. Len(pieces) # 0
    BY LenProperties
  <2> QED
    BY <2>1, EmptySeq DEF NonEmpty
<1>3. /\ r \in Seq(Seq(T)) /\ Len(r) = Len(fields) + Len(pieces) - 1
      /\ r[Len(fields)] = fields[Len(fields)] \o pieces[1]
      /\ \A i \in 2..Len(pieces) : r[Len(fields) + i - 1] = pieces[i]
  <2>1. JoinedTo(T, fields, pieces, r)
    BY AttachedIs
  <2> QED
    BY <1>2, <2>1 DEF JoinedTo
<1>4. PICK l \in Nat \ {0} : l = Len(fields)
  BY EmptySeq DEF NonEmpty
<1>5. PICK k \in Nat : k = Len(pieces)
  BY LenProperties
<1>6. DOMAIN r = 1..(l + k - 1)
  BY <1>3, <1>4, <1>5, LenProperties
<1>7. CASE m = 1
  <2>1. fields[l] \in Seq(T) /\ pieces[1] \in Seq(T)
    BY <1>4, <1>5, <1>7
  <2>2. Holds(fields[l] \o pieces[1], pieces[1])
    BY <2>1, HoldsRight
  <2>3. l \in DOMAIN r
    BY <1>5, <1>6, <1>7
  <2> QED
    BY <1>3, <1>4, <1>7, <2>2, <2>3, Zenon DEF Holding
<1>8. CASE m # 1
  <2>1. m \in 2..Len(pieces) /\ l + m - 1 \in DOMAIN r
    BY <1>5, <1>6, <1>8
  <2>2. pieces[m] \in Seq(T)
    OBVIOUS
  <2>3. Holds(pieces[m], pieces[m])
    BY <2>2, HoldsSelf
  <2>4. r[l + m - 1] = pieces[m]
    BY <1>3, <1>4, <2>1
  <2> QED
    BY <2>1, <2>3, <2>4, Zenon DEF Holding
<1> QED
  BY <1>7, <1>8

-----------------------------------------------------------------------------
\* A part as PartsAssumption has it.
PartOver(T, part) ==
  /\ part.quoted \in BOOLEAN /\ part.literal \in BOOLEAN /\ part.multi \in BOOLEAN
  /\ part.values \in Seq(Seq(T))
  /\ part.literal \/ (part.quoted /\ ~ part.multi) => Len(part.values) <= 1

\* Arithmetic, for the next lemma.
LEMMA AtMostOne ==
  \A n \in Nat : n <= 1 => (n # 0 => n = 1) /\ \A k \in 1..n : k = 1 /\ n = 1
  OBVIOUS

\* The first value is all of them if there is at most one.
LEMMA FirstOfIs ==
  ASSUME NEW T, NEW values \in Seq(Seq(T))
  PROVE  /\ FirstOf(values) \in Seq(T)
         /\ Len(values) <= 1 => FlattenSeq(values) = FirstOf(values)
<1>1. CASE Len(values) = 0
  <2>1. values = << >>
    BY <1>1, EmptySeq
  <2>2. FirstOf(values) = << >>
    BY <2>1 DEF FirstOf
  <2>3. FlattenSeq(values) = << >>
    BY <2>1, FlattenNone, Zenon
  <2> QED
    BY <2>2, <2>3, EmptySeq, Zenon
<1>2. CASE Len(values) # 0
  <2>1. values # << >>
    BY <1>2, EmptySeq
  <2>6. Len(values) \in Nat
    BY LenProperties
  <2>2. 1 \in 1..Len(values)
    BY <1>2, <2>6
  <2>3. values[1] \in Seq(T)
    BY <2>2
  <2>4. FirstOf(values) = values[1]
    BY <2>1 DEF FirstOf
  <2>5. ASSUME Len(values) <= 1 PROVE FlattenSeq(values) = FirstOf(values)
    <3>1. Len(values) = 1
      BY <1>2, <2>5, <2>6, AtMostOne, Zenon
    <3>2. PICK x \in Seq(T) : x = values[1]
      BY <2>3
    <3>3. PICK V : V = Seq(T)
      OBVIOUS
    <3>4. values \in Seq(V) /\ x \in V
      BY <3>2, <3>3
    <3>5. <<x>> \in Seq(V) /\ Len(<<x>>) = 1 /\ <<x>>[1] = x
      BY <3>4, OneLong
    <3>6. \A i \in 1..Len(values) : values[i] = <<x>>[i]
      BY <3>1, <3>2, <3>5
    <3>7. values = <<x>>
      BY <3>1, <3>4, <3>5, <3>6, SeqEqual
    <3>8. FlattenSeq(<<x>>) = x
      BY FlattenOne
    <3> QED
      BY <2>4, <3>2, <3>7, <3>8, Zenon
  <2> QED
    BY <2>3, <2>4, <2>5
<1> QED
  BY <1>1, <1>2

\* What is kept of an unquoted part is its first value.
LEMMA KeptValuesAre ==
  ASSUME NEW T, NEW part, PartOver(T, part)
  PROVE  /\ part.quoted => KeptValues(part) = part.values
         /\ ~ part.quoted => FlattenSeq(KeptValues(part)) = FirstOf(part.values)
<1>1. part.values \in Seq(Seq(T))
  BY DEF PartOver
<1>2. CASE LosesRest(part)
  <2>1. KeptValues(part) = <<part.values[1]>> /\ ~ part.quoted
    BY <1>2 DEF KeptValues, LosesRest
  <2>2. part.values # << >>
    <3>1. Len(part.values) # 0
      BY <1>2 DEF LosesRest
    <3> QED
      BY <3>1, EmptySeq
  <2>3. FirstOf(part.values) = part.values[1]
    BY <2>2 DEF FirstOf
  <2>4. PICK x \in Seq(T) : x = FirstOf(part.values)
    BY <1>1, FirstOfIs
  <2>5. FlattenSeq(<<x>>) = x
    BY FlattenOne
  <2> QED
    BY <2>1, <2>3, <2>4, <2>5, Zenon
<1>3. CASE ~ LosesRest(part)
  <2>1. KeptValues(part) = part.values
    BY <1>3, Zenon DEF KeptValues
  <2>2. ASSUME ~ part.quoted PROVE Len(part.values) <= 1
    <3>1. Len(part.values) \in Nat
      BY <1>1, LenProperties
    <3> QED
      BY <1>3, <2>2, <3>1 DEF LosesRest, PartOver
  <2>3. ASSUME ~ part.quoted PROVE FlattenSeq(part.values) = FirstOf(part.values)
    BY <1>1, <2>2, <2>3, FirstOfIs
  <2> QED
    BY <2>1, <2>3, Zenon
<1> QED
  BY <1>2, <1>3

\* The pieces of a part make what it contributes.
LEMMA ContributionIs ==
  ASSUME NEW T, NEW part, PartOver(T, part)
  PROVE  /\ PiecesOf(part, TRUE) \in Seq(Seq(T))
         /\ FlattenSeq(PiecesOf(part, TRUE)) = Contribution(part, KeptValues(part))
         /\ Contribution(part, KeptValues(part)) \in Seq(T)
<1>1. part.values \in Seq(Seq(T))
  BY DEF PartOver
<1>2. PICK x \in Seq(T) : x = FirstOf(part.values)
  BY <1>1, FirstOfIs
<1>3. <<x>> \in Seq(Seq(T)) /\ FlattenSeq(<<x>>) = x
  BY OneLong, FlattenOne
<1>4. CASE part.quoted /\ part.multi
  <2>1. /\ PiecesOf(part, TRUE) = part.values
        /\ Contribution(part, KeptValues(part)) = FlattenSeq(part.values)
    BY <1>4, KeptValuesAre DEF PiecesOf, Contribution
  <2>2. FlattenSeq(part.values) \in Seq(T)
    <3>1. << >> \in Seq(T)
      BY EmptySeq
    <3>2. PICK e \in Seq(T) : e = << >>
      BY <3>1, Zenon
    <3> QED
      BY <1>1, <3>2, FlattenAppend
  <2> QED
    BY <1>1, <2>1, <2>2, Zenon
<1>5. CASE part.quoted /\ ~ part.multi
  <2>1. /\ PiecesOf(part, TRUE) = <<x>>
        /\ Contribution(part, KeptValues(part)) = FlattenSeq(part.values)
    BY <1>2, <1>5, KeptValuesAre DEF PiecesOf, Contribution
  <2>2. FlattenSeq(part.values) = x
    <3>1. Len(part.values) <= 1
      BY <1>5 DEF PartOver
    <3> QED
      BY <1>1, <1>2, <3>1, FirstOfIs
  <2> QED
    BY <1>2, <1>3, <2>1, <2>2
<1>6. CASE ~ part.quoted /\ part.literal
  <2>1. PiecesOf(part, TRUE) = <<x>> /\ Contribution(part, KeptValues(part)) = x
    BY <1>2, <1>6, KeptValuesAre DEF PiecesOf, Contribution
  <2> QED
    BY <1>2, <1>3, <2>1
<1>7. CASE ~ part.quoted /\ ~ part.literal
  <2>1. /\ PiecesOf(part, TRUE) = SplitFields(x)
        /\ Contribution(part, KeptValues(part)) = WithoutSeparators(x)
    BY <1>2, <1>7, KeptValuesAre DEF PiecesOf, Contribution
  <2>2. SplitFields(x) \in Seq(Seq(T)) /\ FlattenSeq(SplitFields(x)) = WithoutSeparators(x)
    BY SplitFieldsAre
  <2>3. FlattenSeq(SplitFields(x)) \in Seq(T)
    <3>1. PICK e \in Seq(T) : e = << >>
      BY EmptySeq, Zenon
    <3> QED
      BY <2>2, <3>1, FlattenAppend
  <2> QED
    BY <2>1, <2>2, <2>3
<1> QED
  BY <1>4, <1>5, <1>6, <1>7 DEF PartOver

\* A quoted part's values are pieces.
LEMMA QuotedAreWhole ==
  ASSUME NEW T, NEW part, PartOver(T, part), part.quoted, NEW k \in DOMAIN part.values
  PROVE  \E m \in 1..Len(PiecesOf(part, TRUE)) : PiecesOf(part, TRUE)[m] = part.values[k]
<1>1. part.values \in Seq(Seq(T))
  BY DEF PartOver
<1>2. k \in 1..Len(part.values) /\ Len(part.values) \in Nat
  BY <1>1, LenProperties
<1>4. CASE part.multi
  <2>1. PiecesOf(part, TRUE) = part.values
    BY <1>4 DEF PiecesOf
  <2> QED
    BY <1>2, <2>1
<1>5. CASE ~ part.multi
  <2>1. Len(part.values) <= 1
    BY <1>5 DEF PartOver
  <2>2. k = 1 /\ Len(part.values) = 1
    BY <1>2, <2>1, AtMostOne, Zenon
  <2>3. part.values # << >>
    BY <1>1, <2>2, EmptySeq
  <2>4. FirstOf(part.values) = part.values[1]
    BY <2>3 DEF FirstOf
  <2>5. PICK x : x = part.values[1]
    OBVIOUS
  <2>6. PiecesOf(part, TRUE) = <<x>>
    BY <1>5, <2>4, <2>5 DEF PiecesOf
  <2>7. Len(<<x>>) = 1 /\ <<x>>[1] = x /\ 1 \in 1..1
    OBVIOUS
  <2> QED
    BY <2>2, <2>5, <2>6, <2>7
<1> QED
  BY <1>4, <1>5 DEF PartOver

FieldsValue(f, parts, i) ==
  IF i = 0 THEN << << >> >> ELSE Attached(f[i - 1], PiecesOf(parts[i], TRUE))
IsFields(f, parts) ==
  f = [i \in 0..Len(parts) |->
         IF i = 0 THEN << << >> >> ELSE Attached(f[i - 1], PiecesOf(parts[i], TRUE))]

WordOver(T, parts) ==
  /\ Len(parts) \in Nat /\ DOMAIN parts = 1..Len(parts)
  /\ \A i \in 1..Len(parts) : PartOver(T, parts[i])

Contributions(parts) == [i \in DOMAIN parts |-> Contribution(parts[i], KeptValues(parts[i]))]

\* The fields that the first i parts make: t is their text, and they hold the
\* quoted values.
HoldsQuoted(parts, i, fs) ==
  \A j \in 1..i : parts[j].quoted => \A k \in DOMAIN parts[j].values : Holding(fs, parts[j].values[k])
FieldsThat(T, parts, i, t) ==
  {fs \in Seq(Seq(T)) : NonEmpty(fs) /\ FlattenSeq(fs) = t /\ HoldsQuoted(parts, i, fs)}

\* A step of ExpandWord adds the next part's text and holds its values.
LEMMA FieldsStepIs ==
  ASSUME NEW T, NEW parts, WordOver(T, parts), NEW i \in 1..Len(parts), NEW t \in Seq(T),
         NEW before \in FieldsThat(T, parts, i - 1, t)
  PROVE  Attached(before, PiecesOf(parts[i], TRUE))
           \in FieldsThat(T, parts, i, t \o Contribution(parts[i], KeptValues(parts[i])))
<1>1. before \in Seq(Seq(T)) /\ NonEmpty(before) /\ FlattenSeq(before) = t
  BY Zenon DEF FieldsThat
<1>2. HoldsQuoted(parts, i - 1, before)
  BY Zenon DEF FieldsThat
<1>3. PICK part : part = parts[i]
  OBVIOUS
<1>4. PartOver(T, part)
  BY <1>3 DEF WordOver
<1>5. PICK pieces \in Seq(Seq(T)) :
        pieces = PiecesOf(part, TRUE) /\ FlattenSeq(pieces) = Contribution(part, KeptValues(part))
  BY <1>4, ContributionIs
<1>6. PICK r : r = Attached(before, pieces)
  OBVIOUS
<1>7. JoinedTo(T, before, pieces, r)
  BY <1>1, <1>5, <1>6, AttachedIs
<1>8. r \in Seq(Seq(T)) /\ NonEmpty(r) /\ FlattenSeq(r) = t \o Contribution(part, KeptValues(part))
  BY <1>1, <1>5, <1>7, Zenon DEF JoinedTo
<1>9. ASSUME NEW j \in 1..i, parts[j].quoted, NEW k \in DOMAIN parts[j].values
      PROVE  Holding(r, parts[j].values[k])
  <2>1. CASE j = i
    <3>1. PICK m \in 1..Len(pieces) : pieces[m] = part.values[k]
      <4>1. part.quoted /\ k \in DOMAIN part.values
        BY <1>3, <1>9, <2>1, Zenon
      <4> QED
        BY <1>4, <1>5, <4>1, QuotedAreWhole
    <3>2. Holding(r, pieces[m])
      BY <1>1, <1>5, <1>6, <3>1, AttachedHolds
    <3> QED
      BY <1>3, <2>1, <3>1, <3>2
  <2>2. CASE j # i
    <3>1. j \in 1..(i - 1)
      BY <2>2, <1>9 DEF WordOver
    <3>2. Holding(before, parts[j].values[k])
      BY <1>2, <1>9, <3>1, Zenon DEF HoldsQuoted
    <3>3. PICK v : v = parts[j].values[k]
      OBVIOUS
    <3>4. Holding(before, v)
      BY <3>2, <3>3, Zenon
    <3>5. Holding(r, v)
      BY <1>1, <1>5, <1>6, <3>4, AttachedKeeps
    <3> QED
      BY <3>3, <3>5, Zenon
  <2> QED
    BY <2>1, <2>2
<1>10. HoldsQuoted(parts, i, r)
  BY <1>9, Zenon DEF HoldsQuoted
<1>11. r \in FieldsThat(T, parts, i, t \o Contribution(part, KeptValues(part)))
  BY <1>8, <1>10, Zenon DEF FieldsThat
<1> QED
  BY <1>3, <1>5, <1>6, <1>11, Zenon

\* ExpandWord begins with one empty field.
LEMMA FirstFields ==
  ASSUME NEW T, NEW parts, NEW t, t = << >>
  PROVE  << << >> >> \in FieldsThat(T, parts, 0, t)
<1>1. PICK x \in Seq(T) : x = << >>
  BY EmptySeq, Zenon
<1>2. <<x>> \in Seq(Seq(T)) /\ FlattenSeq(<<x>>) = x
  BY OneLong, FlattenOne
<1>3. NonEmpty(<<x>>)
  BY DEF NonEmpty
<1>4. HoldsQuoted(parts, 0, <<x>>)
  <2>1. \A j \in 1..0 : FALSE
    OBVIOUS
  <2> QED
    BY <2>1, Zenon DEF HoldsQuoted
<1>5. <<x>> \in FieldsThat(T, parts, 0, x)
  BY <1>2, <1>3, <1>4, Zenon DEF FieldsThat
<1> QED
  BY <1>1, <1>5, Zenon

\* The sums of what the parts contribute.
ContributionSums(T, parts, g) ==
  /\ g \in [0..Len(parts) -> Seq(T)] /\ g[0] = << >>
  /\ \A i \in 1..Len(parts) : g[i] = g[i - 1] \o Contribution(parts[i], KeptValues(parts[i]))
  /\ FlattenSeq(Contributions(parts)) = g[Len(parts)]

\* The text of the parts is the last sum of what they contribute.
LEMMA ContributionSumsExist ==
  ASSUME NEW T, NEW parts, WordOver(T, parts)
  PROVE  \E g : ContributionSums(T, parts, g)
<1>1. PICK n \in Nat : n = Len(parts) /\ DOMAIN parts = 1..n
  BY DEF WordOver
<1>2. PICK V : V = Seq(T)
  OBVIOUS
<1>3. ASSUME NEW i \in 1..n PROVE Contribution(parts[i], KeptValues(parts[i])) \in V
  <2>1. PartOver(T, parts[i])
    BY <1>1 DEF WordOver
  <2> QED
    BY <1>2, <2>1, ContributionIs
<1>4. PICK s : s = [i \in 1..n |-> Contribution(parts[i], KeptValues(parts[i]))]
  OBVIOUS
<1>5. s \in [1..n -> V]
  BY <1>3, <1>4
<1>6. s \in Seq(V) /\ Len(s) = n
  BY <1>5
<1>7. s \in Seq(Seq(T))
  BY <1>2, <1>6
<1>8. PICK g \in [0..Len(s) -> Seq(T)] : Sums(g, s) /\ FlattenSeq(s) = g[Len(s)]
  BY <1>7, FlattenSums
<1>9. \A i \in 1..n : s[i] = Contribution(parts[i], KeptValues(parts[i]))
  BY <1>4
<1>10. Contributions(parts) = s
  BY <1>1, <1>4, Zenon DEF Contributions
<1>11. \A i \in 1..Len(parts) : g[i] = g[i - 1] \o Contribution(parts[i], KeptValues(parts[i]))
  BY <1>1, <1>6, <1>8, <1>9, Zenon DEF Sums
<1> QED
  BY <1>1, <1>6, <1>8, <1>10, <1>11, Zenon DEF ContributionSums, Sums

\* ExpandWord's fields are a function of the parts joined so far,
LEMMA FieldsExist ==
  ASSUME NEW T, NEW parts, WordOver(T, parts)
  PROVE  \E f : IsFields(f, parts)
<1>1. PICK g : ContributionSums(T, parts, g)
  BY ContributionSumsExist
<1>2. PICK n \in Nat : n = Len(parts)
  BY DEF WordOver
<1>3. PICK W : W = [i \in 0..n |-> FieldsThat(T, parts, i, g[i])]
  OBVIOUS
<1>4. PICK step : step = [i \in 1..n |-> [fs \in W[i - 1] |-> Attached(fs, PiecesOf(parts[i], TRUE))]]
  OBVIOUS
<1>5. PICK e : e = << << >> >>
  OBVIOUS
<1>6. e \in W[0]
  <2>1. 0 \in 0..n
    OBVIOUS
  <2>2. W[0] = FieldsThat(T, parts, 0, g[0])
    BY <1>3, <2>1
  <2>3. PICK t : t = g[0]
    OBVIOUS
  <2>4. t = << >>
    BY <1>1, <2>3, Zenon DEF ContributionSums
  <2>5. << << >> >> \in FieldsThat(T, parts, 0, t)
    BY <2>4, FirstFields
  <2> QED
    BY <1>5, <2>2, <2>3, <2>5, Zenon
<1>7. ASSUME NEW i \in 1..n, NEW fs \in W[i - 1]
      PROVE  /\ step[i][fs] = Attached(fs, PiecesOf(parts[i], TRUE))
             /\ step[i][fs] \in W[i]
  <2>1. i - 1 \in 0..n /\ i \in 0..n /\ i \in 1..Len(parts)
    BY <1>2
  <2>2. PICK t \in Seq(T) : t = g[i - 1]
    BY <1>1, <1>2, <2>1 DEF ContributionSums
  <2>3. fs \in FieldsThat(T, parts, i - 1, t)
    BY <1>3, <2>1, <2>2
  <2>4. Attached(fs, PiecesOf(parts[i], TRUE))
          \in FieldsThat(T, parts, i, t \o Contribution(parts[i], KeptValues(parts[i])))
    BY <2>1, <2>3, FieldsStepIs
  <2>5. t \o Contribution(parts[i], KeptValues(parts[i])) = g[i]
    BY <1>1, <2>1, <2>2, Zenon DEF ContributionSums
  <2>6. W[i] = FieldsThat(T, parts, i, g[i])
    BY <1>3, <2>1
  <2>7. step[i][fs] = Attached(fs, PiecesOf(parts[i], TRUE))
    BY <1>4
  <2> QED
    BY <2>4, <2>5, <2>6, <2>7, Zenon
<1>8. PICK f : ForwardIn(f, W, e, step, n)
  BY <1>6, <1>7, ForwardInExists
<1>9. ASSUME NEW i \in 0..n PROVE f[i] = FieldsValue(f, parts, i)
  <2>1. CASE i = 0
    <3>1. f[0] = e
      BY <1>8 DEF ForwardIn, Forward
    <3> QED
      BY <1>5, <2>1, <3>1, Zenon DEF FieldsValue
  <2>2. CASE i # 0
    <3>1. i \in 1..n /\ i - 1 \in 0..n
      BY <2>2
    <3>2. f[i] = step[i][f[i - 1]] /\ f[i - 1] \in W[i - 1]
      BY <1>8, <3>1 DEF ForwardIn, Forward
    <3>3. f[i] = Attached(f[i - 1], PiecesOf(parts[i], TRUE))
      BY <1>7, <3>1, <3>2
    <3> QED
      BY <2>2, <3>3, Zenon DEF FieldsValue
  <2> QED
    BY <2>1, <2>2
<1>10. f = [i \in 0..n |-> f[i]]
  BY <1>8 DEF ForwardIn
<1>11. f = [i \in 0..Len(parts) |-> FieldsValue(f, parts, i)]
  BY <1>2, <1>9, <1>10, Zenon
<1>12. IsFields(f, parts)
  BY <1>11, Zenon DEF IsFields, FieldsValue
<1> QED
  BY <1>12

FieldsOf(parts) == (CHOOSE f : IsFields(f, parts))[Len(parts)]

\* and in the end they have the text of all parts and hold what is quoted.
LEMMA FieldsAre ==
  ASSUME NEW T, NEW parts, WordOver(T, parts)
  PROVE  FieldsOf(parts) \in FieldsThat(T, parts, Len(parts), FlattenSeq(Contributions(parts)))
<1>1. PICK h : h = CHOOSE f : IsFields(f, parts)
  OBVIOUS
<1>2. FieldsOf(parts) = h[Len(parts)]
  BY <1>1, Zenon DEF FieldsOf
<1>3. IsFields(h, parts)
  BY <1>1, FieldsExist
<1>4. h = [i \in 0..Len(parts) |-> FieldsValue(h, parts, i)]
  BY <1>3, Zenon DEF IsFields, FieldsValue
<1>5. PICK g : ContributionSums(T, parts, g)
  BY ContributionSumsExist
<1>6. PICK n \in Nat : n = Len(parts)
  BY DEF WordOver
<1>7. \A i \in 0..n : h[i] = FieldsValue(h, parts, i)
  BY <1>4, <1>6
<1> DEFINE X == {i \in 0..n : h[i] \in FieldsThat(T, parts, i, g[i])}
<1>8. 0 \in X
  <2>1. 0 \in 0..n
    OBVIOUS
  <2>2. h[0] = << << >> >>
    BY <1>7, <2>1, Zenon DEF FieldsValue
  <2>3. PICK t : t = g[0]
    OBVIOUS
  <2>4. t = << >>
    BY <1>5, <2>3, Zenon DEF ContributionSums
  <2>5. << << >> >> \in FieldsThat(T, parts, 0, t)
    BY <2>4, FirstFields
  <2> QED
    BY <2>1, <2>2, <2>3, <2>5, Zenon
<1>9. ASSUME NEW i \in 1..n, i - 1 \in X PROVE i \in X
  <2>1. i - 1 \in 0..n /\ i \in 0..n /\ i \in 1..Len(parts) /\ i # 0
    BY <1>6
  <2>2. PICK t \in Seq(T) : t = g[i - 1]
    BY <1>5, <1>6, <2>1 DEF ContributionSums
  <2>3. PICK fs : fs = h[i - 1]
    OBVIOUS
  <2>4. fs \in FieldsThat(T, parts, i - 1, t)
    BY <1>9, <2>2, <2>3
  <2>5. Attached(fs, PiecesOf(parts[i], TRUE))
          \in FieldsThat(T, parts, i, t \o Contribution(parts[i], KeptValues(parts[i])))
    BY <2>1, <2>4, FieldsStepIs
  <2>6. t \o Contribution(parts[i], KeptValues(parts[i])) = g[i]
    BY <1>5, <2>1, <2>2, Zenon DEF ContributionSums
  <2>7. h[i] = Attached(fs, PiecesOf(parts[i], TRUE))
    BY <1>7, <2>1, <2>3, Zenon DEF FieldsValue
  <2> QED
    BY <2>1, <2>5, <2>6, <2>7, Zenon
<1>10. n \in X
  <2>1. n \in 0..n
    OBVIOUS
  <2> HIDE DEF X
  <2> QED
    BY <1>8, <1>9, <2>1, UpInduct
<1>11. h[n] \in FieldsThat(T, parts, n, g[n])
  BY <1>10
<1>12. g[n] = FlattenSeq(Contributions(parts))
  BY <1>5, <1>6, Zenon DEF ContributionSums
<1> QED
  BY <1>2, <1>6, <1>11, <1>12, Zenon

\* The claim of OnlyRestOfAtIsLost for one word.
LosesOnlyRest(parts, fields) ==
  /\ FlattenSeq(fields) = FlattenSeq(Contributions(parts))
  /\ \A i \in DOMAIN parts :
       parts[i].quoted =>
         \A k \in DOMAIN parts[i].values : Holding(fields, parts[i].values[k])

\* The same of ExpandWord's result, which may be no field at all.
LEMMA WordLosesOnlyRest ==
  ASSUME NEW T, NEW parts, WordOver(T, parts)
  PROVE  LosesOnlyRest(parts, ExpandWord(parts, TRUE))
<1>1. PICK fields : fields = FieldsOf(parts)
  OBVIOUS
<1>2. fields \in FieldsThat(T, parts, Len(parts), FlattenSeq(Contributions(parts)))
  BY <1>1, FieldsAre
<1>3. FlattenSeq(fields) = FlattenSeq(Contributions(parts))
  BY <1>2, Zenon DEF FieldsThat
<1>4. HoldsQuoted(parts, Len(parts), fields)
  BY <1>2, Zenon DEF FieldsThat
<1>5. DOMAIN parts = 1..Len(parts)
  BY DEF WordOver
<1>6. CASE ExpandWord(parts, TRUE) = fields
  <2>1. LosesOnlyRest(parts, fields)
    BY <1>3, <1>4, <1>5, Zenon DEF LosesOnlyRest, HoldsQuoted
  <2> QED
    BY <1>6, <2>1, Zenon
<1>7. CASE ExpandWord(parts, TRUE) # fields
  <2>1. /\ ExpandWord(parts, TRUE) = << >> /\ fields = << << >> >>
        /\ ~ \E i \in DOMAIN parts : parts[i].quoted
    BY <1>1, <1>7, Zenon DEF ExpandWord, FieldsOf, IsFields
  <2>2. FlattenSeq(<< >>) = << >>
    BY FlattenNone
  <2>3. FlattenSeq(<< << >> >>) = << >>
    <3>1. PICK x \in Seq(T) : x = << >>
      BY EmptySeq, Zenon
    <3>2. FlattenSeq(<<x>>) = x
      BY FlattenOne
    <3> QED
      BY <3>1, <3>2, Zenon
  <2>4. PICK e : e = ExpandWord(parts, TRUE)
    OBVIOUS
  <2>5. FlattenSeq(e) = FlattenSeq(Contributions(parts))
    BY <1>3, <2>1, <2>2, <2>3, <2>4, Zenon
  <2>6. LosesOnlyRest(parts, e)
    BY <2>1, <2>5, Zenon DEF LosesOnlyRest
  <2> QED
    BY <2>4, <2>6, Zenon
<1> QED
  BY <1>6, <1>7

WordInv ==
  subject.kind = "word" => WordOver(STRING, subject.parts)

\* Init chooses such a word,
LEMMA WordInvHolds == WordInit => WordInv
<1>1. ASSUME NEW parts \in BoundedSeq(Parts, MaxParts) PROVE WordOver(STRING, parts)
  <2>1. MaxParts \in Nat
    BY PartsAssumption
  <2>2. PICK k \in 0..MaxParts : parts \in [1..k -> Parts]
    BY DEF BoundedSeq, SeqOf
  <2>3. k \in Nat /\ Len(parts) = k /\ DOMAIN parts = 1..k
    BY <2>1, <2>2
  <2>4. ASSUME NEW i \in 1..k PROVE PartOver(STRING, parts[i])
    <3>1. parts[i] \in Parts
      BY <2>2
    <3> QED
      BY <3>1, PartsAssumption, Zenon DEF PartOver
  <2> QED
    BY <2>3, <2>4 DEF WordOver
<1>2. ASSUME WordInit PROVE WordInv
  <2>1. PICK parts \in BoundedSeq(Parts, MaxParts) : subject = [kind |-> "word", parts |-> parts]
    BY <1>2 DEF WordInit
  <2> QED
    BY <1>1, <2>1 DEF WordInv
<1> QED
  BY <1>2

\* for which the claim holds.
LEMMA WordInvImplies == WordInv => OnlyRestOfAtIsLost
<1> SUFFICES ASSUME WordInv, subject.kind = "word"
             PROVE  LosesOnlyRest(subject.parts, ExpandWord(subject.parts, TRUE))
  BY Zenon DEF OnlyRestOfAtIsLost, LosesOnlyRest, Contributions, Holding, Holds
<1>1. WordOver(STRING, subject.parts)
  BY DEF WordInv
<1>2. PICK parts : parts = subject.parts
  OBVIOUS
<1>3. LosesOnlyRest(parts, ExpandWord(parts, TRUE))
  BY <1>1, <1>2, WordLosesOnlyRest
<1> QED
  BY <1>2, <1>3, Zenon

\* Theorem: for any separators and any word, of any number of parts with any
\* number of values of any length, the fields have the text of the parts in their
\* order, without the separators of unquoted expansions and without the values of
\* an unquoted $@ behind its first, and every quoted value whole in a field.
THEOREM WordsLoseOnlyRest == WordInit /\ [][Next]_subject => []OnlyRestOfAtIsLost
<1>1. WordInv /\ [Next]_subject => WordInv'
  BY DEF WordInv, Next
<1> QED
  BY <1>1, WordInvHolds, WordInvImplies, PTL

-----------------------------------------------------------------------------
(* Parameter expansions.                                                   *)

\* A use that ExpressionsAssumption allows.
UseIs(use) == use.op \in Tested \/ (use.op = "none" /\ use.name # "@")

\* The result of the code agrees with what the reference says.
Agree(r, w) ==
  /\ r.ok \in BOOLEAN /\ w.ok = r.ok /\ w.store = r.store
  /\ r.ok => r.values = <<w.value>>

\* A parameter that is not set has the empty value.
LEMMA ParameterIs ==
  ASSUME NEW store, NEW name, NEW p, p = ParameterValue(store, name)
  PROVE  p.set \in BOOLEAN /\ (~ p.set => p.value = << >>)
<1>1. p = NoValue \/ \E x : p = Value(x)
  <2>1. \A x \in ToSet(Positionals) : x = "1" \/ x = "2"
    <3>1. DOMAIN Positionals = 1..2 /\ Positionals[1] = "1" /\ Positionals[2] = "2"
      BY DEF Positionals
    <3>2. ToSet(Positionals) = {Positionals[i] : i \in DOMAIN Positionals}
      BY Zenon DEF ToSet
    <3> QED
      BY <3>1, <3>2
  <2>2. CASE name = "@" \/ name = "*" \/ name = "#"
    <3>1. CASE name = "@"
      <4>1. p = Value(JoinedBy(" ", store.position))
        BY <2>1, <3>1 DEF ParameterValue
      <4> QED
        BY <4>1
    <3>2. CASE name = "*"
      <4>1. p = Value(JoinedBy(Joiner, store.position))
        BY <2>1, <3>2 DEF ParameterValue
      <4> QED
        BY <4>1
    <3>3. CASE name = "#"
      <4>1. p = Value(Number(Len(store.position)))
        BY <2>1, <3>3 DEF ParameterValue
      <4> QED
        BY <4>1
    <3> QED
      BY <2>2, <3>1, <3>2, <3>3
  <2>3. CASE name \notin {"@", "*", "#"} /\ name \in ToSet(Positionals)
    <3>1. PICK i : i = CHOOSE j \in DOMAIN Positionals : Positionals[j] = name
      OBVIOUS
    <3>2. p = IF i \in DOMAIN store.position THEN Value(store.position[i]) ELSE NoValue
      BY <2>3, <3>1 DEF ParameterValue
    <3> QED
      BY <3>2
  <2>4. CASE name \notin {"@", "*", "#"} /\ name \notin ToSet(Positionals)
    <3>1. p = IF name \in DOMAIN store.env THEN Value(store.env[name]) ELSE NoValue
      BY <2>4 DEF ParameterValue
    <3> QED
      BY <3>1
  <2> QED
    BY <2>2, <2>3, <2>4
<1>2. NoValue.set = FALSE /\ NoValue.value = << >>
  BY DEF NoValue
<1>3. \A x : Value(x).set = TRUE
  BY DEF Value
<1> QED
  BY <1>1, <1>2, <1>3, Zenon

\* The rows of the table.
LEMMA MeaningsAre ==
  /\ Meanings[":-"] = Row("value", "word", "word")
  /\ Meanings["-"] = Row("value", "value", "word")
  /\ Meanings[":="] = Row("value", "assign", "assign")
  /\ Meanings["="] = Row("value", "value", "assign")
  /\ Meanings[":?"] = Row("value", "error", "error")
  /\ Meanings["?"] = Row("value", "value", "error")
  /\ Meanings[":+"] = Row("word", "nothing", "nothing")
  /\ Meanings["+"] = Row("word", "word", "nothing")
  BY DEF Meanings, Tested

\* A row by what the parameter has.
MeansBy(row, p) == IF ~ p.set THEN row.none ELSE IF p.value = << >> THEN row.empty ELSE row.set

\* Means reads the row.
LEMMA MeansIs ==
  ASSUME NEW store, NEW use, use.op # "none"
  PROVE  Means(store, use) = MeansBy(Meanings[use.op], ParameterValue(store, use.name))
  BY DEF Means, MeansBy

\* The outcomes of the code and of the reference, by name.
LEMMA AgreeOne ==
  ASSUME NEW store, NEW x
  PROVE  Agree(One(store, x), Effect(TRUE, store, x))
  BY DEF Agree, One, Expanded, Effect

\* Failure, likewise.
LEMMA AgreeFails ==
  ASSUME NEW store, NEW x
  PROVE  Agree(Fails(store), Effect(FALSE, store, x))
  BY DEF Agree, Fails, Effect

\* What the code does with the operand: take its value, or fail with it.
LEMMA AgreeWord ==
  ASSUME NEW r, NEW w, Agree(r, w)
  PROVE  /\ r.ok => FirstOf(r.values) = w.value
         /\ r.ok => Agree(One(r.store, FirstOf(r.values)), w)
         /\ ~ r.ok => Agree(Fails(r.store), w)
<1>1. ASSUME r.ok PROVE FirstOf(r.values) = w.value
  <2>1. PICK x : x = w.value
    OBVIOUS
  <2>2. r.values = <<x>>
    BY <1>1, <2>1 DEF Agree
  <2>3. <<x>> # << >> /\ <<x>>[1] = x
    OBVIOUS
  <2> QED
    BY <2>1, <2>2, <2>3, Zenon DEF FirstOf
<1>2. ASSUME r.ok PROVE Agree(One(r.store, FirstOf(r.values)), w)
  <2>1. PICK x : x = w.value
    OBVIOUS
  <2>2. FirstOf(r.values) = x
    BY <1>1, <1>2, <2>1, Zenon
  <2>3. w.ok = TRUE /\ w.store = r.store
    BY <1>2 DEF Agree
  <2>4. PICK o : o = One(r.store, x)
    OBVIOUS
  <2>5. o.ok = TRUE /\ o.store = r.store /\ o.values = <<x>>
    BY <2>4 DEF One, Expanded
  <2>6. Agree(o, w)
    BY <2>1, <2>3, <2>5 DEF Agree
  <2> QED
    BY <2>2, <2>4, <2>6, Zenon
<1>3. ASSUME ~ r.ok PROVE Agree(Fails(r.store), w)
  <2>1. w.ok = FALSE /\ w.store = r.store
    BY <1>3 DEF Agree
  <2> QED
    BY <2>1 DEF Agree, Fails
<1> QED
  BY <1>1, <1>2, <1>3

\* What the code does for each operator: p is the parameter, and Took what it
\* makes of the operand.
Took(r) == IF r.ok THEN One(r.store, FirstOf(r.values)) ELSE Fails(r.store)

\* Expand, operator by operator.
LEMMA ExpandIs ==
  ASSUME NEW store, NEW use, NEW r, NEW p, p = ParameterValue(store, use.name)
  PROVE  /\ use.op \in {"-", ":-"} =>
              Expand(store, use, r) =
                IF TestUnset(use.op, p) THEN Took(r) ELSE One(store, p.value)
         /\ use.op \in {"+", ":+"} =>
              Expand(store, use, r) =
                IF TestUnset(use.op, p) THEN One(store, << >>) ELSE Took(r)
         /\ use.op \in {"?", ":?"} =>
              Expand(store, use, r) =
                IF TestUnset(use.op, p) THEN Fails(r.store) ELSE One(store, p.value)
         /\ use.op \in {"=", ":="} =>
              Expand(store, use, r) =
                IF ~ TestUnset(use.op, p) THEN One(store, p.value)
                ELSE IF use.name \notin VariableNames THEN Fails(store)
                ELSE IF ~ r.ok \/ use.name \in r.store.readonly THEN Fails(r.store)
                ELSE One(AssignVariable(r.store, use.name, FirstOf(r.values)), FirstOf(r.values))
         /\ use.op = "none" /\ use.name # "@" =>
              Expand(store, use, r) =
                IF ~ p.set /\ store.nounset THEN Fails(store) ELSE One(store, p.value)
<1>1. ASSUME use.op \in {"-", ":-"}
      PROVE  Expand(store, use, r) =
               IF TestUnset(use.op, p) THEN Took(r) ELSE One(store, p.value)
  BY <1>1 DEF Expand, Took
<1>2. ASSUME use.op \in {"+", ":+"}
      PROVE  Expand(store, use, r) =
               IF TestUnset(use.op, p) THEN One(store, << >>) ELSE Took(r)
  BY <1>2 DEF Expand, Took
<1>3. ASSUME use.op \in {"?", ":?"}
      PROVE  Expand(store, use, r) =
               IF TestUnset(use.op, p) THEN Fails(r.store) ELSE One(store, p.value)
  BY <1>3 DEF Expand
<1>4. ASSUME use.op \in {"=", ":="}
      PROVE  Expand(store, use, r) =
               IF ~ TestUnset(use.op, p) THEN One(store, p.value)
               ELSE IF use.name \notin VariableNames THEN Fails(store)
               ELSE IF ~ r.ok \/ use.name \in r.store.readonly THEN Fails(r.store)
               ELSE One(AssignVariable(r.store, use.name, FirstOf(r.values)), FirstOf(r.values))
  BY <1>4 DEF Expand
<1>5. ASSUME use.op = "none", use.name # "@"
      PROVE  Expand(store, use, r) =
               IF ~ p.set /\ store.nounset THEN Fails(store) ELSE One(store, p.value)
  BY <1>5 DEF Expand
<1> QED
  BY <1>1, <1>2, <1>3, <1>4, <1>5

\* What the reference says for each meaning.
Assigned(use, w) == use.name \in VariableNames /\ w.ok /\ use.name \notin w.store.readonly

MeantAs(store, use, w, means, meant) ==
  /\ means = "value" => meant = Effect(TRUE, store, ParameterValue(store, use.name).value)
  /\ means = "nothing" => meant = Effect(TRUE, store, << >>)
  /\ means = "word" => meant = w
  /\ means = "refused" => meant = Effect(FALSE, store, << >>)
  /\ means = "error" => meant = Effect(FALSE, w.store, << >>)
  /\ means = "assign" =>
       meant = IF Assigned(use, w)
               THEN Effect(TRUE, AssignVariable(w.store, use.name, w.value), w.value)
               ELSE Effect(FALSE, IF use.name \in VariableNames THEN w.store ELSE store, << >>)

\* MeantBy, meaning by meaning.
LEMMA MeantByIs ==
  ASSUME NEW store, NEW use, NEW w, NEW means, means = Means(store, use)
  PROVE  MeantAs(store, use, w, means, MeantBy(store, use, w))
<1>1. ASSUME means = "value" PROVE MeantBy(store, use, w) = Effect(TRUE, store, ParameterValue(store, use.name).value)
  BY <1>1 DEF MeantBy
<1>2. ASSUME means = "nothing" PROVE MeantBy(store, use, w) = Effect(TRUE, store, << >>)
  BY <1>2 DEF MeantBy
<1>3. ASSUME means = "word" PROVE MeantBy(store, use, w) = w
  BY <1>3 DEF MeantBy
<1>4. ASSUME means = "refused" PROVE MeantBy(store, use, w) = Effect(FALSE, store, << >>)
  BY <1>4 DEF MeantBy
<1>5. ASSUME means = "error" PROVE MeantBy(store, use, w) = Effect(FALSE, w.store, << >>)
  BY <1>5 DEF MeantBy
<1>6. ASSUME means = "assign"
      PROVE  MeantBy(store, use, w) =
               IF Assigned(use, w)
               THEN Effect(TRUE, AssignVariable(w.store, use.name, w.value), w.value)
               ELSE Effect(FALSE, IF use.name \in VariableNames THEN w.store ELSE store, << >>)
  BY <1>6 DEF MeantBy, Assigned
<1> QED
  BY <1>1, <1>2, <1>3, <1>4, <1>5, <1>6 DEF MeantAs

\* The table, by the test that the code makes.
LEMMA MeansByTest ==
  ASSUME NEW store, NEW use, UseIs(use), NEW p, p = ParameterValue(store, use.name),
         NEW means, means = Means(store, use)
  PROVE  /\ use.op \in {"-", ":-"} => means = IF TestUnset(use.op, p) THEN "word" ELSE "value"
         /\ use.op \in {"=", ":="} => means = IF TestUnset(use.op, p) THEN "assign" ELSE "value"
         /\ use.op \in {"?", ":?"} => means = IF TestUnset(use.op, p) THEN "error" ELSE "value"
         /\ use.op \in {"+", ":+"} => means = IF TestUnset(use.op, p) THEN "nothing" ELSE "word"
<1>1. PICK row : row = Meanings[use.op]
  OBVIOUS
<1>2. use.op # "none" => means = MeansBy(row, p)
  BY <1>1, MeansIs
<1>3. p.set \in BOOLEAN /\ (~ p.set => p.value = << >>)
  BY ParameterIs
<1>4. CASE use.op = "-"
  <2>1. row = Row("value", "value", "word")
    BY <1>1, <1>4, MeaningsAre
  <2>2. means = IF ~ p.set THEN "word" ELSE IF p.value = << >> THEN "value" ELSE "value"
    BY <1>2, <1>4, <2>1 DEF MeansBy, Row
  <2>3. TestUnset(use.op, p) <=> ~ p.set
    BY <1>4 DEF TestUnset
  <2> QED
    BY <1>4, <2>2, <2>3
<1>5. CASE use.op = ":-"
  <2>1. row = Row("value", "word", "word")
    BY <1>1, <1>5, MeaningsAre
  <2>2. means = IF ~ p.set THEN "word" ELSE IF p.value = << >> THEN "word" ELSE "value"
    BY <1>2, <1>5, <2>1 DEF MeansBy, Row
  <2>3. TestUnset(use.op, p) <=> ~ p.set \/ p.value = << >>
    BY <1>5 DEF TestUnset
  <2> QED
    BY <1>5, <2>2, <2>3
<1>6. CASE use.op = "="
  <2>1. row = Row("value", "value", "assign")
    BY <1>1, <1>6, MeaningsAre
  <2>2. means = IF ~ p.set THEN "assign" ELSE IF p.value = << >> THEN "value" ELSE "value"
    BY <1>2, <1>6, <2>1 DEF MeansBy, Row
  <2>3. TestUnset(use.op, p) <=> ~ p.set
    BY <1>6 DEF TestUnset
  <2> QED
    BY <1>6, <2>2, <2>3
<1>7. CASE use.op = ":="
  <2>1. row = Row("value", "assign", "assign")
    BY <1>1, <1>7, MeaningsAre
  <2>2. means = IF ~ p.set THEN "assign" ELSE IF p.value = << >> THEN "assign" ELSE "value"
    BY <1>2, <1>7, <2>1 DEF MeansBy, Row
  <2>3. TestUnset(use.op, p) <=> ~ p.set \/ p.value = << >>
    BY <1>7 DEF TestUnset
  <2> QED
    BY <1>7, <2>2, <2>3
<1>8. CASE use.op = "?"
  <2>1. row = Row("value", "value", "error")
    BY <1>1, <1>8, MeaningsAre
  <2>2. means = IF ~ p.set THEN "error" ELSE IF p.value = << >> THEN "value" ELSE "value"
    BY <1>2, <1>8, <2>1 DEF MeansBy, Row
  <2>3. TestUnset(use.op, p) <=> ~ p.set
    BY <1>8 DEF TestUnset
  <2> QED
    BY <1>8, <2>2, <2>3
<1>9. CASE use.op = ":?"
  <2>1. row = Row("value", "error", "error")
    BY <1>1, <1>9, MeaningsAre
  <2>2. means = IF ~ p.set THEN "error" ELSE IF p.value = << >> THEN "error" ELSE "value"
    BY <1>2, <1>9, <2>1 DEF MeansBy, Row
  <2>3. TestUnset(use.op, p) <=> ~ p.set \/ p.value = << >>
    BY <1>9 DEF TestUnset
  <2> QED
    BY <1>9, <2>2, <2>3
<1>10. CASE use.op = "+"
  <2>1. row = Row("word", "word", "nothing")
    BY <1>1, <1>10, MeaningsAre
  <2>2. means = IF ~ p.set THEN "nothing" ELSE IF p.value = << >> THEN "word" ELSE "word"
    BY <1>2, <1>10, <2>1 DEF MeansBy, Row
  <2>3. TestUnset(use.op, p) <=> ~ p.set
    BY <1>10 DEF TestUnset
  <2> QED
    BY <1>10, <2>2, <2>3
<1>11. CASE use.op = ":+"
  <2>1. row = Row("word", "nothing", "nothing")
    BY <1>1, <1>11, MeaningsAre
  <2>2. means = IF ~ p.set THEN "nothing" ELSE IF p.value = << >> THEN "nothing" ELSE "word"
    BY <1>2, <1>11, <2>1 DEF MeansBy, Row
  <2>3. TestUnset(use.op, p) <=> ~ p.set \/ p.value = << >>
    BY <1>11 DEF TestUnset
  <2> QED
    BY <1>11, <2>2, <2>3
<1> QED
  BY <1>4, <1>5, <1>6, <1>7, <1>8, <1>9, <1>10, <1>11 DEF UseIs, Tested

\* A use agrees if its operand does.
LEMMA StepAgrees ==
  ASSUME NEW store, NEW use, UseIs(use), NEW r, NEW w, Agree(r, w)
  PROVE  Agree(Expand(store, use, r), MeantBy(store, use, w))
<1>1. PICK p : p = ParameterValue(store, use.name)
  OBVIOUS
<1>3. PICK means : means = Means(store, use)
  OBVIOUS
<1>4. PICK code : code = Expand(store, use, r)
  OBVIOUS
<1>5. PICK meant : meant = MeantBy(store, use, w)
  OBVIOUS
<1>0. MeantAs(store, use, w, means, meant)
  BY <1>3, <1>5, MeantByIs
<1>8. Agree(One(store, p.value), Effect(TRUE, store, p.value))
  BY AgreeOne
<1>9. Agree(One(store, << >>), Effect(TRUE, store, << >>))
  BY AgreeOne
<1>10. Agree(Took(r), w)
  BY AgreeWord, Zenon DEF Took
<1>11. w.store = r.store /\ w.ok = r.ok
  BY DEF Agree
<1>12. Agree(Fails(r.store), Effect(FALSE, w.store, << >>))
  BY <1>11, AgreeFails
<1>13. Agree(Fails(store), Effect(FALSE, store, << >>))
  BY AgreeFails
<1>14. CASE use.op \in {"-", ":-"}
  <2>2. means = IF TestUnset(use.op, p) THEN "word" ELSE "value"
    BY <1>1, <1>3, <1>14, MeansByTest
  <2>4. code = IF TestUnset(use.op, p) THEN Took(r) ELSE One(store, p.value)
    BY <1>1, <1>4, <1>14, ExpandIs
  <2>5. CASE TestUnset(use.op, p)
    <3>1. means = "word"
      BY <2>2, <2>5
    <3>2. meant = w
      BY <1>0, <3>1 DEF MeantAs
    <3>3. code = Took(r)
      BY <2>4, <2>5
    <3> QED
      BY <1>4, <1>5, <1>10, <3>2, <3>3, Zenon
  <2>6. CASE ~ TestUnset(use.op, p)
    <3>1. means = "value"
      BY <2>2, <2>6
    <3>2. meant = Effect(TRUE, store, p.value)
      BY <1>0, <1>1, <3>1 DEF MeantAs
    <3>3. code = One(store, p.value)
      BY <2>4, <2>6
    <3> QED
      BY <1>4, <1>5, <1>8, <3>2, <3>3, Zenon
  <2> QED
    BY <2>5, <2>6
<1>15. CASE use.op \in {"=", ":="}
  <2>2. means = IF TestUnset(use.op, p) THEN "assign" ELSE "value"
    BY <1>1, <1>3, <1>15, MeansByTest
  <2>4. code = IF ~ TestUnset(use.op, p) THEN One(store, p.value)
               ELSE IF use.name \notin VariableNames THEN Fails(store)
               ELSE IF ~ r.ok \/ use.name \in r.store.readonly THEN Fails(r.store)
               ELSE One(AssignVariable(r.store, use.name, FirstOf(r.values)), FirstOf(r.values))
    BY <1>1, <1>4, <1>15, ExpandIs
  <2>5. CASE TestUnset(use.op, p)
    <3>1. means = "assign"
      BY <2>2, <2>5
    <3>2. meant = IF Assigned(use, w)
                  THEN Effect(TRUE, AssignVariable(w.store, use.name, w.value), w.value)
                  ELSE Effect(FALSE, IF use.name \in VariableNames THEN w.store ELSE store, << >>)
      BY <1>0, <3>1 DEF MeantAs
    <3>3. CASE use.name \notin VariableNames
      <4>1. code = Fails(store)
        BY <2>4, <2>5, <3>3
      <4>2. meant = Effect(FALSE, store, << >>)
        BY <3>2, <3>3 DEF Assigned
      <4> QED
        BY <1>4, <1>5, <1>13, <4>1, <4>2, Zenon
    <3>4. CASE use.name \in VariableNames /\ (~ r.ok \/ use.name \in r.store.readonly)
      <4>1. code = Fails(r.store)
        BY <2>4, <2>5, <3>4
      <4>2. meant = Effect(FALSE, w.store, << >>)
        BY <1>11, <3>2, <3>4 DEF Assigned
      <4> QED
        BY <1>4, <1>5, <1>12, <4>1, <4>2, Zenon
    <3>5. CASE use.name \in VariableNames /\ r.ok /\ use.name \notin r.store.readonly
      <4>1. PICK x : x = w.value
        OBVIOUS
      <4>2. FirstOf(r.values) = x
        BY <3>5, <4>1, AgreeWord
      <4>3. PICK after : after = AssignVariable(r.store, use.name, x)
        OBVIOUS
      <4>4. code = One(after, x)
        BY <2>4, <2>5, <3>5, <4>2, <4>3, Zenon
      <4>5. Assigned(use, w)
        BY <1>11, <3>5 DEF Assigned
      <4>6. meant = Effect(TRUE, after, x)
        BY <1>11, <3>2, <4>1, <4>3, <4>5, Zenon
      <4>7. Agree(One(after, x), Effect(TRUE, after, x))
        BY AgreeOne
      <4> QED
        BY <1>4, <1>5, <4>4, <4>6, <4>7, Zenon
    <3> QED
      BY <3>3, <3>4, <3>5
  <2>6. CASE ~ TestUnset(use.op, p)
    <3>1. means = "value"
      BY <2>2, <2>6
    <3>2. meant = Effect(TRUE, store, p.value)
      BY <1>0, <1>1, <3>1 DEF MeantAs
    <3>3. code = One(store, p.value)
      BY <2>4, <2>6
    <3> QED
      BY <1>4, <1>5, <1>8, <3>2, <3>3, Zenon
  <2> QED
    BY <2>5, <2>6
<1>16. CASE use.op \in {"?", ":?"}
  <2>2. means = IF TestUnset(use.op, p) THEN "error" ELSE "value"
    BY <1>1, <1>3, <1>16, MeansByTest
  <2>4. code = IF TestUnset(use.op, p) THEN Fails(r.store) ELSE One(store, p.value)
    BY <1>1, <1>4, <1>16, ExpandIs
  <2>5. CASE TestUnset(use.op, p)
    <3>1. means = "error"
      BY <2>2, <2>5
    <3>2. meant = Effect(FALSE, w.store, << >>)
      BY <1>0, <3>1 DEF MeantAs
    <3>3. code = Fails(r.store)
      BY <2>4, <2>5
    <3> QED
      BY <1>4, <1>5, <1>12, <3>2, <3>3, Zenon
  <2>6. CASE ~ TestUnset(use.op, p)
    <3>1. means = "value"
      BY <2>2, <2>6
    <3>2. meant = Effect(TRUE, store, p.value)
      BY <1>0, <1>1, <3>1 DEF MeantAs
    <3>3. code = One(store, p.value)
      BY <2>4, <2>6
    <3> QED
      BY <1>4, <1>5, <1>8, <3>2, <3>3, Zenon
  <2> QED
    BY <2>5, <2>6
<1>17. CASE use.op \in {"+", ":+"}
  <2>2. means = IF TestUnset(use.op, p) THEN "nothing" ELSE "word"
    BY <1>1, <1>3, <1>17, MeansByTest
  <2>4. code = IF TestUnset(use.op, p) THEN One(store, << >>) ELSE Took(r)
    BY <1>1, <1>4, <1>17, ExpandIs
  <2>5. CASE TestUnset(use.op, p)
    <3>1. means = "nothing"
      BY <2>2, <2>5
    <3>2. meant = Effect(TRUE, store, << >>)
      BY <1>0, <3>1 DEF MeantAs
    <3>3. code = One(store, << >>)
      BY <2>4, <2>5
    <3> QED
      BY <1>4, <1>5, <1>9, <3>2, <3>3, Zenon
  <2>6. CASE ~ TestUnset(use.op, p)
    <3>1. means = "word"
      BY <2>2, <2>6
    <3>2. meant = w
      BY <1>0, <3>1 DEF MeantAs
    <3>3. code = Took(r)
      BY <2>4, <2>6
    <3> QED
      BY <1>4, <1>5, <1>10, <3>2, <3>3, Zenon
  <2> QED
    BY <2>5, <2>6
<1>18. CASE use.op = "none" /\ use.name # "@"
  <2>1. code = IF ~ p.set /\ store.nounset THEN Fails(store) ELSE One(store, p.value)
    BY <1>1, <1>4, <1>18, ExpandIs
  <2>2. means = IF p.set \/ ~ store.nounset THEN "value" ELSE "refused"
    BY <1>1, <1>3, <1>18 DEF Means
  <2>3. CASE ~ p.set /\ store.nounset
    <3>1. means = "refused" /\ code = Fails(store)
      BY <2>1, <2>2, <2>3
    <3>2. meant = Effect(FALSE, store, << >>)
      BY <1>0, <3>1 DEF MeantAs
    <3> QED
      BY <1>4, <1>5, <1>13, <3>1, <3>2, Zenon
  <2>4. CASE p.set \/ ~ store.nounset
    <3>1. means = "value" /\ code = One(store, p.value)
      BY <2>1, <2>2, <2>4
    <3>2. meant = Effect(TRUE, store, p.value)
      BY <1>0, <1>1, <3>1 DEF MeantAs
    <3> QED
      BY <1>4, <1>5, <1>8, <3>1, <3>2, Zenon
  <2> QED
    BY <2>3, <2>4
<1> QED
  BY <1>14, <1>15, <1>16, <1>17, <1>18 DEF UseIs, Tested

ResultValue(f, store, e, k) ==
  IF k > Len(e.uses) THEN One(store, e.text) ELSE Expand(store, e.uses[k], f[k + 1])
IsResults(f, store, e) ==
  f = [k \in 1..(Len(e.uses) + 1) |->
         IF k > Len(e.uses) THEN One(store, e.text) ELSE Expand(store, e.uses[k], f[k + 1])]

\* The results of the code are a function of where the chain begins,
LEMMA ResultsExist ==
  ASSUME NEW store, NEW e, Len(e.uses) \in Nat
  PROVE  \E f : IsResults(f, store, e)
<1>1. PICK n \in Nat : n = Len(e.uses)
  OBVIOUS
<1> DEFINE Right(f, m) == f = [k \in m..(n + 1) |-> ResultValue(f, store, e, k)]
           X == {m \in 1..(n + 1) : \E f : Right(f, m)}
<1>2. n + 1 \in X
  <2>1. PICK b : b = One(store, e.text)
    OBVIOUS
  <2>2. PICK f : f = [k \in (n + 1)..(n + 1) |-> b]
    OBVIOUS
  <2>3. ASSUME NEW k \in (n + 1)..(n + 1) PROVE ResultValue(f, store, e, k) = b
    <3>1. k > Len(e.uses)
      BY <1>1
    <3> QED
      BY <2>1, <3>1 DEF ResultValue
  <2>4. Right(f, n + 1)
    BY <2>2, <2>3
  <2>5. n + 1 \in 1..(n + 1)
    OBVIOUS
  <2> QED
    BY <2>4, <2>5
<1>3. ASSUME NEW m \in 1..n, m + 1 \in X PROVE m \in X
  <2>1. PICK g : Right(g, m + 1)
    BY <1>3
  <2>2. PICK v : v = Expand(store, e.uses[m], g[m + 1])
    OBVIOUS
  <2>3. PICK h : h = [k \in m..(n + 1) |-> IF k = m THEN v ELSE g[k]]
    OBVIOUS
  <2>4. h[m] = v /\ \A k \in (m + 1)..(n + 1) : h[k] = g[k]
    <3>1. m \in m..(n + 1) /\ \A k \in (m + 1)..(n + 1) : k \in m..(n + 1) /\ k # m
      OBVIOUS
    <3> QED
      BY <2>3, <3>1
  <2>5. ASSUME NEW k \in m..(n + 1) PROVE h[k] = ResultValue(h, store, e, k)
    <3>1. CASE k = m
      <4>1. m + 1 \in (m + 1)..(n + 1) /\ ~ (m > Len(e.uses))
        BY <1>1
      <4>2. h[m + 1] = g[m + 1]
        BY <2>4, <4>1
      <4> QED
        BY <2>2, <2>4, <3>1, <4>1, <4>2, Zenon DEF ResultValue
    <3>2. CASE k # m
      <4>1. k \in (m + 1)..(n + 1)
        BY <3>2
      <4>2. g[k] = ResultValue(g, store, e, k)
        BY <2>1, <4>1
      <4>3. ResultValue(g, store, e, k) = ResultValue(h, store, e, k)
        <5>1. CASE k > Len(e.uses)
          BY <5>1 DEF ResultValue
        <5>2. CASE ~ (k > Len(e.uses))
          <6>1. k + 1 \in (m + 1)..(n + 1)
            BY <1>1, <4>1, <5>2
          <6>2. h[k + 1] = g[k + 1]
            BY <2>4, <6>1
          <6> QED
            BY <5>2, <6>2, Zenon DEF ResultValue
        <5> QED
          BY <5>1, <5>2
      <4> QED
        BY <2>4, <4>1, <4>2, <4>3
    <3> QED
      BY <3>1, <3>2
  <2>6. h = [k \in m..(n + 1) |-> h[k]]
    BY <2>3
  <2>7. Right(h, m)
    BY <2>5, <2>6
  <2>8. m \in 1..(n + 1)
    OBVIOUS
  <2> QED
    BY <2>7, <2>8
<1>4. 1 \in X
  <2>1. \A i \in 1..n : (\A j \in (i + 1)..(n + 1) : j \in X) => i \in X
    <3>1. \A i \in 1..n : i + 1 \in (i + 1)..(n + 1)
      OBVIOUS
    <3> HIDE DEF X
    <3> QED
      BY <1>3, <3>1
  <2>2. 1 \in 1..(n + 1)
    OBVIOUS
  <2> HIDE DEF X
  <2> QED
    BY <1>2, <2>1, <2>2, DownInduct
<1>5. PICK f : Right(f, 1)
  BY <1>4
<1>6. f = [k \in 1..(Len(e.uses) + 1) |-> ResultValue(f, store, e, k)]
  BY <1>1, <1>5
<1>7. IsResults(f, store, e)
  BY <1>6, Zenon DEF IsResults, ResultValue
<1> QED
  BY <1>7

MeantValue(f, store, e, k) ==
  IF k > Len(e.uses) THEN Effect(TRUE, store, e.text) ELSE MeantBy(store, e.uses[k], f[k + 1])
IsMeants(f, store, e) ==
  f = [k \in 1..(Len(e.uses) + 1) |->
         IF k > Len(e.uses) THEN Effect(TRUE, store, e.text) ELSE MeantBy(store, e.uses[k], f[k + 1])]

\* and so are the meanings of the reference.
LEMMA MeantsExist ==
  ASSUME NEW store, NEW e, Len(e.uses) \in Nat
  PROVE  \E f : IsMeants(f, store, e)
<1>1. PICK n \in Nat : n = Len(e.uses)
  OBVIOUS
<1> DEFINE Right(f, m) == f = [k \in m..(n + 1) |-> MeantValue(f, store, e, k)]
           X == {m \in 1..(n + 1) : \E f : Right(f, m)}
<1>2. n + 1 \in X
  <2>1. PICK b : b = Effect(TRUE, store, e.text)
    OBVIOUS
  <2>2. PICK f : f = [k \in (n + 1)..(n + 1) |-> b]
    OBVIOUS
  <2>3. ASSUME NEW k \in (n + 1)..(n + 1) PROVE MeantValue(f, store, e, k) = b
    <3>1. k > Len(e.uses)
      BY <1>1
    <3> QED
      BY <2>1, <3>1 DEF MeantValue
  <2>4. Right(f, n + 1)
    BY <2>2, <2>3
  <2>5. n + 1 \in 1..(n + 1)
    OBVIOUS
  <2> QED
    BY <2>4, <2>5
<1>3. ASSUME NEW m \in 1..n, m + 1 \in X PROVE m \in X
  <2>1. PICK g : Right(g, m + 1)
    BY <1>3
  <2>2. PICK v : v = MeantBy(store, e.uses[m], g[m + 1])
    OBVIOUS
  <2>3. PICK h : h = [k \in m..(n + 1) |-> IF k = m THEN v ELSE g[k]]
    OBVIOUS
  <2>4. h[m] = v /\ \A k \in (m + 1)..(n + 1) : h[k] = g[k]
    <3>1. m \in m..(n + 1) /\ \A k \in (m + 1)..(n + 1) : k \in m..(n + 1) /\ k # m
      OBVIOUS
    <3> QED
      BY <2>3, <3>1
  <2>5. ASSUME NEW k \in m..(n + 1) PROVE h[k] = MeantValue(h, store, e, k)
    <3>1. CASE k = m
      <4>1. m + 1 \in (m + 1)..(n + 1) /\ ~ (m > Len(e.uses))
        BY <1>1
      <4>2. h[m + 1] = g[m + 1]
        BY <2>4, <4>1
      <4> QED
        BY <2>2, <2>4, <3>1, <4>1, <4>2, Zenon DEF MeantValue
    <3>2. CASE k # m
      <4>1. k \in (m + 1)..(n + 1)
        BY <3>2
      <4>2. g[k] = MeantValue(g, store, e, k)
        BY <2>1, <4>1
      <4>3. MeantValue(g, store, e, k) = MeantValue(h, store, e, k)
        <5>1. CASE k > Len(e.uses)
          BY <5>1 DEF MeantValue
        <5>2. CASE ~ (k > Len(e.uses))
          <6>1. k + 1 \in (m + 1)..(n + 1)
            BY <1>1, <4>1, <5>2
          <6>2. h[k + 1] = g[k + 1]
            BY <2>4, <6>1
          <6> QED
            BY <5>2, <6>2, Zenon DEF MeantValue
        <5> QED
          BY <5>1, <5>2
      <4> QED
        BY <2>4, <4>1, <4>2, <4>3
    <3> QED
      BY <3>1, <3>2
  <2>6. h = [k \in m..(n + 1) |-> h[k]]
    BY <2>3
  <2>7. Right(h, m)
    BY <2>5, <2>6
  <2>8. m \in 1..(n + 1)
    OBVIOUS
  <2> QED
    BY <2>7, <2>8
<1>4. 1 \in X
  <2>1. \A i \in 1..n : (\A j \in (i + 1)..(n + 1) : j \in X) => i \in X
    <3>1. \A i \in 1..n : i + 1 \in (i + 1)..(n + 1)
      OBVIOUS
    <3> HIDE DEF X
    <3> QED
      BY <1>3, <3>1
  <2>2. 1 \in 1..(n + 1)
    OBVIOUS
  <2> HIDE DEF X
  <2> QED
    BY <1>2, <2>1, <2>2, DownInduct
<1>5. PICK f : Right(f, 1)
  BY <1>4
<1>6. f = [k \in 1..(Len(e.uses) + 1) |-> MeantValue(f, store, e, k)]
  BY <1>1, <1>5
<1>7. IsMeants(f, store, e)
  BY <1>6, Zenon DEF IsMeants, MeantValue
<1> QED
  BY <1>7

\* The whole of an expression.
LEMMA ExpressionAgrees ==
  ASSUME NEW store, NEW e, Len(e.uses) \in Nat, \A k \in 1..Len(e.uses) : UseIs(e.uses[k])
  PROVE  Agree(ExpandParameter(store, e), Meant(store, e))
<1>1. PICK n \in Nat : n = Len(e.uses)
  OBVIOUS
<1>2. PICK r : r = CHOOSE f : IsResults(f, store, e)
  OBVIOUS
<1>3. PICK w : w = CHOOSE f : IsMeants(f, store, e)
  OBVIOUS
<1>4. ExpandParameter(store, e) = r[1]
  BY <1>2, Zenon DEF ExpandParameter, IsResults
<1>5. Meant(store, e) = w[1]
  BY <1>3, Zenon DEF Meant, IsMeants
<1>6. IsResults(r, store, e)
  BY <1>2, ResultsExist
<1>7. IsMeants(w, store, e)
  BY <1>3, MeantsExist
<1>8. r = [k \in 1..(Len(e.uses) + 1) |-> ResultValue(r, store, e, k)]
  BY <1>6, Zenon DEF IsResults, ResultValue
<1>9. w = [k \in 1..(Len(e.uses) + 1) |-> MeantValue(w, store, e, k)]
  BY <1>7, Zenon DEF IsMeants, MeantValue
<1>10. \A k \in 1..(n + 1) : r[k] = ResultValue(r, store, e, k)
  BY <1>1, <1>8
<1>11. \A k \in 1..(n + 1) : w[k] = MeantValue(w, store, e, k)
  BY <1>1, <1>9
<1> DEFINE X == {k \in 1..(n + 1) : Agree(r[k], w[k])}
<1>12. n + 1 \in X
  <2>1. n + 1 \in 1..(n + 1) /\ n + 1 > Len(e.uses)
    BY <1>1
  <2>2. r[n + 1] = One(store, e.text) /\ w[n + 1] = Effect(TRUE, store, e.text)
    BY <1>10, <1>11, <2>1, Zenon DEF ResultValue, MeantValue
  <2>3. Agree(One(store, e.text), Effect(TRUE, store, e.text))
    BY AgreeOne
  <2> QED
    BY <2>1, <2>2, <2>3, Zenon
<1>13. ASSUME NEW k \in 1..n, k + 1 \in X PROVE k \in X
  <2>1. k \in 1..(n + 1) /\ ~ (k > Len(e.uses)) /\ k \in 1..Len(e.uses)
    BY <1>1
  <2>2. PICK a, b, use : a = r[k + 1] /\ b = w[k + 1] /\ use = e.uses[k]
    OBVIOUS
  <2>3. Agree(a, b) /\ UseIs(use)
    BY <1>13, <2>1, <2>2
  <2>4. Agree(Expand(store, use, a), MeantBy(store, use, b))
    BY <2>3, StepAgrees
  <2>5. r[k] = Expand(store, use, a) /\ w[k] = MeantBy(store, use, b)
    BY <1>10, <1>11, <2>1, <2>2, Zenon DEF ResultValue, MeantValue
  <2> QED
    BY <2>1, <2>4, <2>5, Zenon
<1>14. 1 \in X
  <2>1. \A i \in 1..n : (\A j \in (i + 1)..(n + 1) : j \in X) => i \in X
    <3>1. \A i \in 1..n : i + 1 \in (i + 1)..(n + 1)
      OBVIOUS
    <3> HIDE DEF X
    <3> QED
      BY <1>13, <3>1
  <2>2. 1 \in 1..(n + 1)
    OBVIOUS
  <2> HIDE DEF X
  <2> QED
    BY <1>12, <2>1, <2>2, DownInduct
<1> QED
  BY <1>4, <1>5, <1>14, Zenon

\* What an expression adds to what those before it gave.
ThenCode(before, r) ==
  IF r.ok THEN Effect(TRUE, r.store, Append(before.value, r.values))
  ELSE Effect(FALSE, r.store, << >>)
ThenMeant(before, m) ==
  IF m.ok THEN Effect(TRUE, m.store, Append(before.value, <<m.value>>))
  ELSE Effect(FALSE, m.store, << >>)

DoneValue(f, store, list, i) ==
  IF i = 0 THEN Effect(TRUE, store, << >>) ELSE IF ~ f[i - 1].ok THEN f[i - 1]
  ELSE ThenCode(f[i - 1], ExpandParameter(f[i - 1].store, list[i]))
IsDone(f, store, list) ==
  f = [i \in 0..Len(list) |->
         IF i = 0 THEN Effect(TRUE, store, << >>) ELSE IF ~ f[i - 1].ok THEN f[i - 1]
  ELSE ThenCode(f[i - 1], ExpandParameter(f[i - 1].store, list[i]))]

\* The outcome of the first i expressions, in the code
LEMMA DoneExist ==
  ASSUME NEW store, NEW list, Len(list) \in Nat
  PROVE  \E f : IsDone(f, store, list)
<1>1. PICK n \in Nat : n = Len(list)
  OBVIOUS
<1> DEFINE Right(f, m) == f = [i \in 0..m |-> DoneValue(f, store, list, i)]
           X == {m \in 0..n : \E f : Right(f, m)}
<1>2. 0 \in X
  <2>1. PICK b : b = Effect(TRUE, store, << >>)
    OBVIOUS
  <2>2. PICK f : f = [i \in 0..0 |-> b]
    OBVIOUS
  <2>3. ASSUME NEW i \in 0..0 PROVE DoneValue(f, store, list, i) = b
    BY <2>1 DEF DoneValue
  <2>4. Right(f, 0)
    BY <2>2, <2>3
  <2>5. 0 \in 0..n
    OBVIOUS
  <2> QED
    BY <2>4, <2>5
<1>3. ASSUME NEW m \in 1..n, m - 1 \in X PROVE m \in X
  <2>1. PICK g : Right(g, m - 1)
    BY <1>3
  <2>2. PICK v : v = DoneValue(g, store, list, m)
    OBVIOUS
  <2>3. PICK h : h = [i \in 0..m |-> IF i = m THEN v ELSE g[i]]
    OBVIOUS
  <2>4. h[m] = v /\ \A i \in 0..(m - 1) : h[i] = g[i]
    <3>1. m \in 0..m /\ \A i \in 0..(m - 1) : i \in 0..m /\ i # m
      OBVIOUS
    <3> QED
      BY <2>3, <3>1
  <2>5. ASSUME NEW i \in 0..m PROVE DoneValue(g, store, list, i) = DoneValue(h, store, list, i)
    <3>1. CASE i = 0
      BY <3>1 DEF DoneValue
    <3>2. CASE i # 0
      <4>1. i - 1 \in 0..(m - 1)
        BY <3>2
      <4>2. h[i - 1] = g[i - 1]
        BY <2>4, <4>1
      <4> QED
        BY <3>2, <4>2, Zenon DEF DoneValue
    <3> QED
      BY <3>1, <3>2
  <2>6. ASSUME NEW i \in 0..m PROVE h[i] = DoneValue(h, store, list, i)
    <3>1. CASE i = m
      BY <2>2, <2>4, <2>5, <3>1
    <3>2. CASE i # m
      <4>1. i \in 0..(m - 1)
        BY <3>2
      <4>2. g[i] = DoneValue(g, store, list, i)
        BY <2>1, <4>1
      <4> QED
        BY <2>4, <2>5, <4>1, <4>2
    <3> QED
      BY <3>1, <3>2
  <2>7. h = [i \in 0..m |-> h[i]]
    BY <2>3
  <2>8. Right(h, m)
    BY <2>6, <2>7
  <2>9. m \in 0..n
    OBVIOUS
  <2> QED
    BY <2>8, <2>9
<1>4. n \in X
  <2>1. n \in 0..n
    OBVIOUS
  <2> HIDE DEF X
  <2> QED
    BY <1>2, <1>3, <2>1, UpInduct
<1>5. PICK f : Right(f, n)
  BY <1>4
<1>6. f = [i \in 0..Len(list) |-> DoneValue(f, store, list, i)]
  BY <1>1, <1>5
<1>7. IsDone(f, store, list)
  BY <1>6, Zenon DEF IsDone, DoneValue
<1> QED
  BY <1>7

AllMeantValue(f, store, list, i) ==
  IF i = 0 THEN Effect(TRUE, store, << >>) ELSE IF ~ f[i - 1].ok THEN f[i - 1]
  ELSE ThenMeant(f[i - 1], Meant(f[i - 1].store, list[i]))
IsAllMeant(f, store, list) ==
  f = [i \in 0..Len(list) |->
         IF i = 0 THEN Effect(TRUE, store, << >>) ELSE IF ~ f[i - 1].ok THEN f[i - 1]
  ELSE ThenMeant(f[i - 1], Meant(f[i - 1].store, list[i]))]

\* and in the reference.
LEMMA AllMeantExist ==
  ASSUME NEW store, NEW list, Len(list) \in Nat
  PROVE  \E f : IsAllMeant(f, store, list)
<1>1. PICK n \in Nat : n = Len(list)
  OBVIOUS
<1> DEFINE Right(f, m) == f = [i \in 0..m |-> AllMeantValue(f, store, list, i)]
           X == {m \in 0..n : \E f : Right(f, m)}
<1>2. 0 \in X
  <2>1. PICK b : b = Effect(TRUE, store, << >>)
    OBVIOUS
  <2>2. PICK f : f = [i \in 0..0 |-> b]
    OBVIOUS
  <2>3. ASSUME NEW i \in 0..0 PROVE AllMeantValue(f, store, list, i) = b
    BY <2>1 DEF AllMeantValue
  <2>4. Right(f, 0)
    BY <2>2, <2>3
  <2>5. 0 \in 0..n
    OBVIOUS
  <2> QED
    BY <2>4, <2>5
<1>3. ASSUME NEW m \in 1..n, m - 1 \in X PROVE m \in X
  <2>1. PICK g : Right(g, m - 1)
    BY <1>3
  <2>2. PICK v : v = AllMeantValue(g, store, list, m)
    OBVIOUS
  <2>3. PICK h : h = [i \in 0..m |-> IF i = m THEN v ELSE g[i]]
    OBVIOUS
  <2>4. h[m] = v /\ \A i \in 0..(m - 1) : h[i] = g[i]
    <3>1. m \in 0..m /\ \A i \in 0..(m - 1) : i \in 0..m /\ i # m
      OBVIOUS
    <3> QED
      BY <2>3, <3>1
  <2>5. ASSUME NEW i \in 0..m PROVE AllMeantValue(g, store, list, i) = AllMeantValue(h, store, list, i)
    <3>1. CASE i = 0
      BY <3>1 DEF AllMeantValue
    <3>2. CASE i # 0
      <4>1. i - 1 \in 0..(m - 1)
        BY <3>2
      <4>2. h[i - 1] = g[i - 1]
        BY <2>4, <4>1
      <4> QED
        BY <3>2, <4>2, Zenon DEF AllMeantValue
    <3> QED
      BY <3>1, <3>2
  <2>6. ASSUME NEW i \in 0..m PROVE h[i] = AllMeantValue(h, store, list, i)
    <3>1. CASE i = m
      BY <2>2, <2>4, <2>5, <3>1
    <3>2. CASE i # m
      <4>1. i \in 0..(m - 1)
        BY <3>2
      <4>2. g[i] = AllMeantValue(g, store, list, i)
        BY <2>1, <4>1
      <4> QED
        BY <2>4, <2>5, <4>1, <4>2
    <3> QED
      BY <3>1, <3>2
  <2>7. h = [i \in 0..m |-> h[i]]
    BY <2>3
  <2>8. Right(h, m)
    BY <2>6, <2>7
  <2>9. m \in 0..n
    OBVIOUS
  <2> QED
    BY <2>8, <2>9
<1>4. n \in X
  <2>1. n \in 0..n
    OBVIOUS
  <2> HIDE DEF X
  <2> QED
    BY <1>2, <1>3, <2>1, UpInduct
<1>5. PICK f : Right(f, n)
  BY <1>4
<1>6. f = [i \in 0..Len(list) |-> AllMeantValue(f, store, list, i)]
  BY <1>1, <1>5
<1>7. IsAllMeant(f, store, list)
  BY <1>6, Zenon DEF IsAllMeant, AllMeantValue
<1> QED
  BY <1>7

\* Expressions as ExpressionsAssumption has them.
ExpressionsAre(list) ==
  /\ Len(list) \in Nat
  /\ \A i \in 1..Len(list) :
       /\ Len(list[i].uses) \in Nat
       /\ \A k \in 1..Len(list[i].uses) : UseIs(list[i].uses[k])

\* All expressions of a word agree, in order and up to the first error.
LEMMA AllAgree ==
  ASSUME NEW store, NEW list, ExpressionsAre(list)
  PROVE  EvaluateParts(store, list) = MeantByAll(store, list)
<1>1. PICK n \in Nat : n = Len(list)
  BY DEF ExpressionsAre
<1>2. PICK d : d = CHOOSE f : IsDone(f, store, list)
  OBVIOUS
<1>3. PICK m : m = CHOOSE f : IsAllMeant(f, store, list)
  OBVIOUS
<1>4. EvaluateParts(store, list) = d[n]
  BY <1>1, <1>2, Zenon DEF EvaluateParts, IsDone, ThenCode
<1>5. MeantByAll(store, list) = m[n]
  BY <1>1, <1>3, Zenon DEF MeantByAll, IsAllMeant, ThenMeant
<1>6. IsDone(d, store, list)
  BY <1>1, <1>2, DoneExist
<1>7. IsAllMeant(m, store, list)
  BY <1>1, <1>3, AllMeantExist
<1>8. d = [i \in 0..Len(list) |-> DoneValue(d, store, list, i)]
  BY <1>6, Zenon DEF IsDone, DoneValue
<1>9. m = [i \in 0..Len(list) |-> AllMeantValue(m, store, list, i)]
  BY <1>7, Zenon DEF IsAllMeant, AllMeantValue
<1>10. \A i \in 0..n : d[i] = DoneValue(d, store, list, i)
  BY <1>1, <1>8
<1>11. \A i \in 0..n : m[i] = AllMeantValue(m, store, list, i)
  BY <1>1, <1>9
<1> DEFINE X == {i \in 0..n : d[i] = m[i]}
<1>12. 0 \in X
  <2>1. 0 \in 0..n
    OBVIOUS
  <2> QED
    BY <1>10, <1>11, <2>1, Zenon DEF DoneValue, AllMeantValue
<1>13. ASSUME NEW i \in 1..n, i - 1 \in X PROVE i \in X
  <2>1. i \in 0..n /\ i # 0 /\ i \in 1..Len(list)
    BY <1>1
  <2>2. PICK b, e : b = d[i - 1] /\ b = m[i - 1] /\ e = list[i]
    BY <1>13
  <2>3. PICK r, w : r = ExpandParameter(b.store, e) /\ w = Meant(b.store, e)
    OBVIOUS
  <2>4. Agree(r, w)
    <3>1. Len(e.uses) \in Nat /\ \A k \in 1..Len(e.uses) : UseIs(e.uses[k])
      BY <2>1, <2>2 DEF ExpressionsAre
    <3> QED
      BY <2>3, <3>1, ExpressionAgrees
  <2>5. ThenCode(b, r) = ThenMeant(b, w)
    <3>1. CASE r.ok
      <4>1. w.ok /\ w.store = r.store /\ r.values = <<w.value>>
        BY <2>4, <3>1 DEF Agree
      <4> QED
        BY <3>1, <4>1, Zenon DEF ThenCode, ThenMeant
    <3>2. CASE ~ r.ok
      <4>1. ~ w.ok /\ w.store = r.store
        BY <2>4, <3>2 DEF Agree
      <4> QED
        BY <3>2, <4>1, Zenon DEF ThenCode, ThenMeant
    <3> QED
      BY <3>1, <3>2
  <2>6. d[i] = IF ~ b.ok THEN b ELSE ThenCode(b, r)
    BY <1>10, <2>1, <2>2, <2>3, Zenon DEF DoneValue
  <2>7. m[i] = IF ~ b.ok THEN b ELSE ThenMeant(b, w)
    BY <1>11, <2>1, <2>2, <2>3, Zenon DEF AllMeantValue
  <2>8. d[i] = m[i]
    <3>1. CASE b.ok
      BY <2>5, <2>6, <2>7, <3>1, Zenon
    <3>2. CASE ~ b.ok
      BY <2>6, <2>7, <3>2, Zenon
    <3> QED
      BY <3>1, <3>2
  <2> QED
    BY <2>1, <2>8, Zenon
<1>14. n \in X
  <2>1. n \in 0..n
    OBVIOUS
  <2> HIDE DEF X
  <2> QED
    BY <1>12, <1>13, <2>1, UpInduct
<1> QED
  BY <1>4, <1>5, <1>14, Zenon

ParametersInv == subject.kind = "parameters" => ExpressionsAre(subject.expressions)

\* Init chooses such expressions,
LEMMA ParametersInvHolds == ParametersInit => ParametersInv
<1>1. ASSUME NEW list \in Expressions PROVE ExpressionsAre(list)
  <2>1. PICK R : R = Range(list)
    OBVIOUS
  <2>2. list \in Seq(R)
    BY <2>1, ExpressionsAssumption, Zenon
  <2>3. Len(list) \in Nat /\ DOMAIN list = 1..Len(list)
    BY <2>2, LenProperties
  <2>4. ASSUME NEW i \in 1..Len(list)
        PROVE  /\ Len(list[i].uses) \in Nat
               /\ \A k \in 1..Len(list[i].uses) : UseIs(list[i].uses[k])
    <3>1. PICK uses : uses = list[i].uses
      OBVIOUS
    <3>2. PICK S : S = Range(uses)
      OBVIOUS
    <3>3. i \in DOMAIN list
      BY <2>3
    <3>7. \A j \in DOMAIN list :
            /\ list[j].uses \in Seq(Range(list[j].uses))
            /\ \A k \in DOMAIN list[j].uses : UseIs(list[j].uses[k])
      BY ExpressionsAssumption, Zenon DEF UseIs
    <3>4. uses \in Seq(S)
      BY <3>1, <3>2, <3>3, <3>7, Zenon
    <3>5. Len(uses) \in Nat /\ DOMAIN uses = 1..Len(uses)
      BY <3>4, LenProperties
    <3>6. \A k \in DOMAIN uses : UseIs(uses[k])
      BY <3>1, <3>3, <3>7, Zenon
    <3> QED
      BY <3>1, <3>5, <3>6, Zenon
  <2> QED
    BY <2>3, <2>4, Zenon DEF ExpressionsAre
<1>2. ASSUME ParametersInit PROVE ParametersInv
  <2>1. PICK store \in Stores, list \in Expressions :
          subject = [kind |-> "parameters", store |-> store, expressions |-> list]
    BY <1>2 DEF ParametersInit
  <2> QED
    BY <1>1, <2>1 DEF ParametersInv
<1> QED
  BY <1>2

\* for which the claim holds.
LEMMA ParametersInvImplies == ParametersInv => ParametersMeanTable
<1> SUFFICES ASSUME ParametersInv, subject.kind = "parameters"
             PROVE  EvaluateParts(subject.store, subject.expressions)
                      = MeantByAll(subject.store, subject.expressions)
  BY Zenon DEF ParametersMeanTable
<1>1. PICK list, store : list = subject.expressions /\ store = subject.store
  OBVIOUS
<1>2. ExpressionsAre(list)
  BY <1>1 DEF ParametersInv
<1>3. EvaluateParts(store, list) = MeantByAll(store, list)
  BY <1>2, AllAgree
<1> QED
  BY <1>1, <1>3, Zenon

\* Theorem: for any variables, arguments and sequence of nested expansions, the
\* values, the errors and the assignments are those of the table, although an
\* operand that is not used is part of what the code is given.
THEOREM ParametersFollowTable == ParametersInit /\ [][Next]_subject => []ParametersMeanTable
<1>1. ParametersInv /\ [Next]_subject => ParametersInv'
  BY DEF ParametersInv, Next
<1> QED
  BY <1>1, ParametersInvHolds, ParametersInvImplies, PTL

-----------------------------------------------------------------------------
(* A loop over getopts.                                                    *)

\* The options in word i, from each of its characters on.
IsHeld(f, optstring, words, i) ==
  f = [k \in 2..(Len(words[i]) + 1) |-> HeldFrom(optstring, words, i, k, f[k + 1])]

\* They are a function of the character from which on they are read,
LEMMA HeldExist ==
  ASSUME NEW optstring, NEW words, NEW i, Len(words[i]) \in Nat \ {0}
  PROVE  \E f : IsHeld(f, optstring, words, i)
<1>1. PICK n \in Nat \ {0} : n = Len(words[i])
  OBVIOUS
<1>2. PICK none : none = Held(<< >>, 1)
  OBVIOUS
<1> DEFINE Right(f, m) == f = [k \in (m + 1)..(n + 1) |-> HeldFrom(optstring, words, i, k, f[k + 1])]
           X == {m \in 1..n : \E f : Right(f, m)}
<1>3. \A v : HeldFrom(optstring, words, i, n + 1, v) = none
  BY <1>1, <1>2 DEF HeldFrom
<1>4. n \in X
  <2>1. PICK f : f = [k \in (n + 1)..(n + 1) |-> none]
    OBVIOUS
  <2>2. f = [k \in (n + 1)..(n + 1) |-> HeldFrom(optstring, words, i, k, f[k + 1])]
    BY <1>3, <2>1
  <2> QED
    BY <2>2
<1>5. ASSUME NEW m \in 1..(n - 1), m + 1 \in X PROVE m \in X
  <2>1. PICK g : Right(g, m + 1)
    BY <1>5
  <2>2. PICK v : v = HeldFrom(optstring, words, i, m + 1, g[m + 2])
    OBVIOUS
  <2>3. PICK h : h = [k \in (m + 1)..(n + 1) |-> IF k = m + 1 THEN v ELSE g[k]]
    OBVIOUS
  <2>4. h[m + 1] = v /\ \A k \in (m + 2)..(n + 1) : h[k] = g[k]
    <3>1. m + 1 \in (m + 1)..(n + 1)
          /\ \A k \in (m + 2)..(n + 1) : k \in (m + 1)..(n + 1) /\ k # m + 1
      OBVIOUS
    <3> QED
      BY <2>3, <3>1
  <2>5. ASSUME NEW k \in (m + 1)..(n + 1)
        PROVE  h[k] = HeldFrom(optstring, words, i, k, h[k + 1])
    <3>1. CASE k = n + 1
      <4>1. k \in (m + 2)..(n + 1)
        BY <3>1
      <4>2. h[k] = g[k] /\ g[k] = HeldFrom(optstring, words, i, k, g[k + 1])
        BY <2>1, <2>4, <4>1
      <4> QED
        BY <1>3, <3>1, <4>2
    <3>2. CASE k # n + 1
      <4>1. k + 1 \in (m + 2)..(n + 1)
        BY <3>2
      <4>2. h[k + 1] = g[k + 1]
        BY <2>4, <4>1
      <4>3. CASE k = m + 1
        <5>1. k + 1 = m + 2
          BY <4>3
        <5> QED
          BY <2>2, <2>4, <4>2, <4>3, <5>1
      <4>4. CASE k # m + 1
        <5>1. k \in (m + 2)..(n + 1)
          BY <4>4
        <5>2. h[k] = g[k] /\ g[k] = HeldFrom(optstring, words, i, k, g[k + 1])
          BY <2>1, <2>4, <5>1
        <5> QED
          BY <4>2, <5>2
      <4> QED
        BY <4>3, <4>4
    <3> QED
      BY <3>1, <3>2
  <2>6. h = [k \in (m + 1)..(n + 1) |-> h[k]]
    BY <2>3
  <2>7. Right(h, m)
    BY <2>5, <2>6
  <2>8. m \in 1..n
    OBVIOUS
  <2> QED
    BY <2>7, <2>8
<1>6. 1 \in X
  <2>1. n - 1 \in Nat /\ n = (n - 1) + 1
    OBVIOUS
  <2>2. \A m \in 1..(n - 1) : (\A j \in (m + 1)..((n - 1) + 1) : j \in X) => m \in X
    <3>1. \A m \in 1..(n - 1) : m + 1 \in (m + 1)..((n - 1) + 1)
      OBVIOUS
    <3> HIDE DEF X
    <3> QED
      BY <1>5, <3>1
  <2>3. 1 \in 1..((n - 1) + 1) /\ (n - 1) + 1 \in X
    <3> HIDE DEF X
    <3> QED
      BY <1>4, <2>1
  <2> HIDE DEF X
  <2> QED
    BY <2>1, <2>2, <2>3, DownInduct
<1>7. PICK f : Right(f, 1)
  BY <1>6
<1>8. 2 = 1 + 1
  OBVIOUS
<1>9. IsHeld(f, optstring, words, i)
  BY <1>1, <1>7, <1>8 DEF IsHeld
<1> QED
  BY <1>9

\* Options that word i may hold from its character k on.
Opts == (STRING \cup {"?", ":"}) \X Seq(STRING)
HeldIs(h, words, i, k) ==
  /\ h.list \in Seq(Opts) /\ h.words \in {1, 2}
  /\ Len(h.list) <= Len(words[i]) + 1 - k
  /\ k <= Len(words[i]) => Len(h.list) > 0
  /\ h.words = 2 => i < Len(words)

\* An option is one of these.
LEMMA OptionIs ==
  \A a \in STRING \cup {"?", ":"}, b \in Seq(STRING) : Option(a, b) \in Opts
  BY DEF Option, Opts

\* What is held from a character on is of these types.
LEMMA HeldFromIs ==
  ASSUME NEW optstring, NEW words \in Seq(Seq(STRING)), NEW i \in 1..Len(words),
         NEW k \in 2..(Len(words[i]) + 1), NEW behind,
         k <= Len(words[i]) => HeldIs(behind, words, i, k + 1)
  PROVE  HeldIs(HeldFrom(optstring, words, i, k, behind), words, i, k)
<1>1. PICK word \in Seq(STRING) : word = words[i]
  OBVIOUS
<1>2. PICK n \in Nat : n = Len(word)
  OBVIOUS
<1>3. PICK h : h = HeldFrom(optstring, words, i, k, behind)
  OBVIOUS
<1>4. k \in Int
  BY <1>1, <1>2
<1>5. CASE k > n
  <2>1. h = Held(<< >>, 1)
    BY <1>1, <1>2, <1>3, <1>5 DEF HeldFrom
  <2>2. h.list = << >> /\ h.words = 1
    BY <2>1 DEF Held
  <2>3. << >> \in Seq(Opts) /\ Len(<< >>) = 0
    BY EmptySeq
  <2>4. k = n + 1
    BY <1>1, <1>2, <1>5
  <2>5. h.list \in Seq(Opts) /\ Len(h.list) = 0
    BY <2>2, <2>3
  <2> QED
    BY <1>1, <1>2, <1>3, <1>4, <2>2, <2>4, <2>5 DEF HeldIs
<1>6. CASE k <= n
  <2>1. HeldIs(behind, words, i, k + 1)
    BY <1>1, <1>2, <1>6
  <2>2. word[k] \in STRING /\ <<word[k]>> \in Seq(STRING) /\ << >> \in Seq(STRING)
    <3>1. k \in 1..Len(word)
      BY <1>1, <1>2, <1>6
    <3> QED
      BY <3>1, OneLong, EmptySeq
  <2>3. ASSUME NEW o \in Opts, h = OneMoreHeld(o, behind) PROVE HeldIs(h, words, i, k)
    <3>1. h.list = <<o>> \o behind.list /\ h.words = behind.words
      BY <2>3 DEF OneMoreHeld, Held
    <3>2. behind.list \in Seq(Opts)
      BY <2>1 DEF HeldIs
    <3>3. h.list \in Seq(Opts) /\ Len(h.list) = Len(behind.list) + 1
      BY <3>1, <3>2, ConsIs
    <3>4. PICK l \in Nat : l = Len(behind.list)
      BY <3>2
    <3>5. l <= n + 1 - (k + 1) /\ h.words \in {1, 2} /\ (h.words = 2 => i < Len(words))
      BY <1>1, <1>2, <2>1, <3>1, <3>4 DEF HeldIs
    <3>6. l + 1 <= n + 1 - k /\ l + 1 > 0
      BY <1>4, <3>5
    <3> QED
      BY <1>1, <1>2, <3>3, <3>4, <3>5, <3>6 DEF HeldIs
  <2>4. ASSUME NEW o \in Opts, NEW w \in {1, 2}, w = 2 => i < Len(words), h = Held(<<o>>, w)
        PROVE  HeldIs(h, words, i, k)
    <3>1. h.list = <<o>> /\ h.words = w
      BY <2>4 DEF Held
    <3>2. <<o>> \in Seq(Opts) /\ Len(<<o>>) = 1
      BY OneLong
    <3>3. 1 <= n + 1 - k
      BY <1>4, <1>6
    <3>4. h.list \in Seq(Opts) /\ Len(h.list) = 1
      BY <3>1, <3>2
    <3>5. Len(h.list) <= n + 1 - k /\ Len(h.list) > 0
      BY <3>3, <3>4
    <3>6. h.words \in {1, 2} /\ (h.words = 2 => i < Len(words))
      BY <2>4, <3>1
    <3> QED
      BY <1>1, <1>2, <3>4, <3>5, <3>6 DEF HeldIs
  <2>5. ~ (k > Len(words[i]))
    BY <1>1, <1>2, <1>4, <1>6
  <2>6. CASE word[k] = ":" \/ word[k] \notin ToSet(optstring)
    <3>1. h = OneMoreHeld(Option("?", <<word[k]>>), behind)
      BY <1>1, <1>3, <2>5, <2>6 DEF HeldFrom
    <3>2. Option("?", <<word[k]>>) \in Opts
      BY <2>2, OptionIs
    <3> QED
      BY <1>3, <2>3, <3>1, <3>2
  <2>7. CASE ~ (word[k] = ":" \/ word[k] \notin ToSet(optstring)) /\ ~ Takes(optstring, word[k])
    <3>1. h = OneMoreHeld(Option(word[k], << >>), behind)
      BY <1>1, <1>3, <2>5, <2>7 DEF HeldFrom
    <3>2. Option(word[k], << >>) \in Opts
      BY <2>2, OptionIs
    <3> QED
      BY <1>3, <2>3, <3>1, <3>2
  <2>8. CASE ~ (word[k] = ":" \/ word[k] \notin ToSet(optstring)) /\ Takes(optstring, word[k])
    <3>1. CASE k < n
      <4>1. h = Held(<<Option(word[k], SubSeq(word, k + 1, Len(word)))>>, 1)
        BY <1>1, <1>2, <1>3, <2>5, <2>8, <3>1 DEF HeldFrom
      <4>2. SubSeq(word, k + 1, Len(word)) \in Seq(STRING)
        BY <1>1, <1>2, <1>4, <3>1, SubSeqProperties
      <4>3. Option(word[k], SubSeq(word, k + 1, Len(word))) \in Opts
        BY <2>2, <4>2, OptionIs
      <4>4. 1 \in {1, 2} /\ ~ (1 = 2)
        OBVIOUS
      <4> QED
        BY <1>3, <2>4, <4>1, <4>3, <4>4
    <3>2. CASE ~ (k < n) /\ i < Len(words)
      <4>1. h = Held(<<Option(word[k], words[i + 1])>>, 2)
        BY <1>1, <1>2, <1>3, <2>5, <2>8, <3>2 DEF HeldFrom
      <4>2. words[i + 1] \in Seq(STRING)
        BY <3>2
      <4>3. Option(word[k], words[i + 1]) \in Opts
        BY <2>2, <4>2, OptionIs
      <4>4. 2 \in {1, 2} /\ i < Len(words)
        BY <3>2
      <4> QED
        BY <1>3, <2>4, <4>1, <4>3, <4>4
    <3>3. CASE ~ (k < n) /\ ~ (i < Len(words))
      <4> DEFINE silent == optstring # << >> /\ optstring[1] = ":"
      <4>1. PICK o : o = IF silent THEN Option(":", <<word[k]>>) ELSE Option("?", << >>)
        OBVIOUS
      <4>2. h = Held(<<o>>, 1)
        BY <1>1, <1>2, <1>3, <2>5, <2>8, <3>3, <4>1 DEF HeldFrom
      <4>3. o \in Opts
        <5>1. CASE silent
          BY <2>2, <4>1, <5>1, OptionIs
        <5>2. CASE ~ silent
          BY <2>2, <4>1, <5>2, OptionIs
        <5> QED
          BY <5>1, <5>2
      <4>4. 1 \in {1, 2} /\ ~ (1 = 2)
        OBVIOUS
      <4> QED
        BY <1>3, <2>4, <4>2, <4>3, <4>4
    <3> QED
      BY <3>1, <3>2, <3>3
  <2> QED
    BY <2>6, <2>7, <2>8
<1> QED
  BY <1>4, <1>5, <1>6

\* All of them have these types.
LEMMA HeldAre ==
  ASSUME NEW optstring, NEW words \in Seq(Seq(STRING)), NEW i \in 1..Len(words),
         NEW f, IsHeld(f, optstring, words, i), Len(words[i]) > 0
  PROVE  \A k \in 2..(Len(words[i]) + 1) :
           /\ f[k] = HeldFrom(optstring, words, i, k, f[k + 1])
           /\ HeldIs(f[k], words, i, k)
<1>1. PICK n \in Nat \ {0} : n = Len(words[i])
  <2>1. words[i] \in Seq(STRING)
    OBVIOUS
  <2> QED
    BY <2>1
<1>2. \A k \in 2..(n + 1) : f[k] = HeldFrom(optstring, words, i, k, f[k + 1])
  BY <1>1 DEF IsHeld
<1> DEFINE X == {m \in 1..n : HeldIs(f[m + 1], words, i, m + 1)}
<1>3. ASSUME NEW m \in 1..n, m < n => m + 1 \in X PROVE m \in X
  <2>1. m + 1 \in 2..(n + 1)
    OBVIOUS
  <2>2. ASSUME m + 1 <= n PROVE HeldIs(f[(m + 1) + 1], words, i, (m + 1) + 1)
    <3>1. m < n
      BY <2>2
    <3> QED
      BY <1>3, <3>1
  <2>3. HeldIs(HeldFrom(optstring, words, i, m + 1, f[(m + 1) + 1]), words, i, m + 1)
    BY <1>1, <2>1, <2>2, HeldFromIs
  <2> QED
    BY <1>2, <2>1, <2>3
<1>4. \A m \in 1..((n - 1) + 1) : m \in X
  <2>1. n - 1 \in Nat /\ n = (n - 1) + 1 /\ n \in 1..n
    OBVIOUS
  <2>2. \A m \in 1..(n - 1) : (\A j \in (m + 1)..((n - 1) + 1) : j \in X) => m \in X
    <3>1. \A m \in 1..(n - 1) : m + 1 \in (m + 1)..((n - 1) + 1) /\ m \in 1..n
      OBVIOUS
    <3> HIDE DEF X
    <3> QED
      BY <1>3, <3>1
  <2>3. (n - 1) + 1 \in X
    <3> HIDE DEF X
    <3> QED
      BY <1>3, <2>1
  <2> HIDE DEF X
  <2> QED
    BY <2>1, <2>2, <2>3, DownInduct
<1>5. ASSUME NEW k \in 2..(n + 1) PROVE HeldIs(f[k], words, i, k)
  <2>1. k - 1 \in 1..((n - 1) + 1) /\ (k - 1) + 1 = k
    OBVIOUS
  <2> QED
    BY <1>4, <2>1
<1> QED
  BY <1>1, <1>2, <1>5

IsSilent(optstring) == optstring # << >> /\ optstring[1] = ":"
LettersIn(optstring) == IF IsSilent(optstring) THEN Tail(optstring) ELSE optstring

\* options are the letters of optstring, d further to the front.
Shifted(options, optstring, d) ==
  /\ Len(options) \in Nat /\ d \in {0, 1} /\ Len(optstring) = Len(options) + d
  /\ DOMAIN options = 1..Len(options) /\ DOMAIN optstring = 1..Len(optstring)
  /\ \A j \in 1..Len(options) : options[j] = optstring[j + d]
  /\ d = 1 => optstring[1] = ":"

\* The leading colon of optstring is no letter.
LEMMA LettersAre ==
  ASSUME NEW T, NEW optstring \in Seq(T)
  PROVE  \E d : Shifted(LettersIn(optstring), optstring, d)
<1>1. PICK n \in Nat : n = Len(optstring)
  OBVIOUS
<1>2. DOMAIN optstring = 1..n
  BY <1>1
<1>3. CASE ~ IsSilent(optstring)
  <2>1. LettersIn(optstring) = optstring
    BY <1>3 DEF LettersIn
  <2>2. \A j \in 1..n : j + 0 = j
    OBVIOUS
  <2>3. Shifted(optstring, optstring, 0)
    BY <1>1, <1>2, <2>2 DEF Shifted
  <2> QED
    BY <2>1, <2>3
<1>4. CASE IsSilent(optstring)
  <2>1. LettersIn(optstring) = Tail(optstring)
    BY <1>4 DEF LettersIn
  <2>2. optstring # << >> /\ optstring[1] = ":"
    BY <1>4 DEF IsSilent
  <2>3. n # 0
    BY <1>1, <2>2, EmptySeq
  <2>4. PICK t : t = Tail(optstring)
    OBVIOUS
  <2>5. /\ t \in Seq(T) /\ Len(t) = n - 1
        /\ \A j \in 1..(n - 1) : t[j] = optstring[j + 1]
    BY <1>1, <2>2, <2>4, HeadTailProperties
  <2>6. n - 1 \in Nat /\ n = (n - 1) + 1 /\ DOMAIN t = 1..(n - 1)
    BY <2>3, <2>5
  <2>7. Shifted(t, optstring, 1)
    BY <1>1, <1>2, <2>2, <2>5, <2>6 DEF Shifted
  <2> QED
    BY <2>1, <2>4, <2>7
<1> QED
  BY <1>3, <1>4

\* The code and the reference know the same letters.
LEMMA KnownIs ==
  ASSUME NEW options, NEW optstring, NEW d, Shifted(options, optstring, d), NEW c, c # ":"
  PROVE  (c \in ToSet(options)) = (c \in ToSet(optstring))
<1>1. PICK n \in Nat : n = Len(options)
  BY DEF Shifted
<1>2. /\ Len(optstring) = n + d /\ d \in {0, 1}
      /\ DOMAIN options = 1..n /\ DOMAIN optstring = 1..(n + d)
      /\ \A j \in 1..n : options[j] = optstring[j + d]
      /\ d = 1 => optstring[1] = ":"
  BY <1>1 DEF Shifted
<1>3. ASSUME c \in ToSet(options) PROVE c \in ToSet(optstring)
  <2>1. PICK j \in 1..n : options[j] = c
    BY <1>2, <1>3 DEF ToSet
  <2>2. j + d \in DOMAIN optstring /\ optstring[j + d] = c
    BY <1>2, <2>1
  <2> QED
    BY <2>2 DEF ToSet
<1>4. ASSUME c \in ToSet(optstring) PROVE c \in ToSet(options)
  <2>1. PICK j \in 1..(n + d) : optstring[j] = c
    BY <1>2, <1>4 DEF ToSet
  <2>2. ~ (d = 1 /\ j = 1)
    BY <1>2, <2>1
  <2>3. j - d \in 1..n /\ (j - d) + d = j
    BY <1>2, <2>2
  <2>4. j - d \in DOMAIN options /\ options[j - d] = c
    BY <1>2, <2>1, <2>3
  <2> QED
    BY <2>4 DEF ToSet
<1> QED
  BY <1>3, <1>4

\* The first place of a letter in the options.
IsPosition(p, options, c) ==
  p \in DOMAIN options /\ options[p] = c /\ \A j \in 1..(p - 1) : options[j] # c

\* There is such a place for a letter of options.
LEMMA PositionIs ==
  ASSUME NEW n \in Nat, NEW options, DOMAIN options = 1..n, NEW c, c \in ToSet(options), NEW p,
         p = CHOOSE i \in DOMAIN options :
               options[i] = c /\ \A j \in 1..(i - 1) : options[j] # c
  PROVE  IsPosition(p, options, c)
<1> DEFINE S == {i \in 1..n : options[i] = c}
<1>1. S # {} /\ S \subseteq 1..n
  BY DEF ToSet
<1>2. PICK i \in S : \A j \in S : i <= j
  <2> HIDE DEF S
  <2> QED
    BY <1>1, LeastOf
<1>3. ASSUME NEW j \in 1..(i - 1) PROVE options[j] # c
  <2>1. j \in 1..n /\ ~ (i <= j)
    OBVIOUS
  <2> QED
    BY <1>2, <2>1
<1>4. i \in DOMAIN options /\ options[i] = c /\ \A j \in 1..(i - 1) : options[j] # c
  BY <1>3
<1> QED
  BY <1>4 DEF IsPosition

\* The code and the reference agree on which letters take an argument.
LEMMA TakesIs ==
  ASSUME NEW options, NEW optstring, NEW d, Shifted(options, optstring, d), NEW c, c # ":",
         NEW p, IsPosition(p, options, c)
  PROVE  (p < Len(options) /\ options[p + 1] = ":") = Takes(optstring, c)
<1>1. PICK n \in Nat : n = Len(options)
  BY DEF Shifted
<1>2. /\ Len(optstring) = n + d /\ d \in {0, 1}
      /\ DOMAIN options = 1..n /\ DOMAIN optstring = 1..(n + d)
      /\ \A j \in 1..n : options[j] = optstring[j + d]
      /\ d = 1 => optstring[1] = ":"
  BY <1>1 DEF Shifted
<1>3. p \in 1..n /\ options[p] = c /\ \A j \in 1..(p - 1) : options[j] # c
  BY <1>2 DEF IsPosition
<1>4. ASSUME p < n, options[p + 1] = ":" PROVE Takes(optstring, c)
  <2>1. p + d \in 1..((n + d) - 1) /\ (p + d) + 1 = (p + 1) + d /\ p + 1 \in 1..n
    BY <1>2, <1>3, <1>4
  <2>2. optstring[p + d] = c /\ optstring[(p + d) + 1] = ":"
    BY <1>2, <1>3, <1>4, <2>1
  <2>3. ASSUME NEW j \in 1..((p + d) - 1) PROVE optstring[j] # c
    <3>1. CASE d = 1 /\ j = 1
      BY <1>2, <3>1
    <3>2. CASE ~ (d = 1 /\ j = 1)
      <4>1. j - d \in 1..(p - 1) /\ j - d \in 1..n /\ (j - d) + d = j
        BY <1>2, <1>3, <3>2
      <4> QED
        BY <1>2, <1>3, <4>1
    <3> QED
      BY <3>1, <3>2
  <2> QED
    BY <1>2, <2>1, <2>2, <2>3 DEF Takes
<1>5. ASSUME Takes(optstring, c) PROVE p < n /\ options[p + 1] = ":"
  <2>1. PICK i \in 1..((n + d) - 1) : /\ optstring[i] = c /\ optstring[i + 1] = ":"
                                      /\ \A j \in 1..(i - 1) : optstring[j] # c
    BY <1>2, <1>5 DEF Takes
  <2>2. ~ (d = 1 /\ i = 1)
    BY <1>2, <2>1
  <2>3. i - d \in 1..n /\ (i - d) + d = i
    BY <1>2, <2>2
  <2>4. options[i - d] = c
    BY <1>2, <2>1, <2>3
  <2>5. ~ (i - d < p)
    <3>1. i - d < p => i - d \in 1..(p - 1)
      BY <1>3, <2>3
    <3> QED
      BY <1>3, <2>4, <3>1
  <2>6. ~ (p < i - d)
    <3>1. p < i - d => p + d \in 1..(i - 1)
      BY <1>2, <1>3, <2>3
    <3>2. optstring[p + d] = c
      BY <1>2, <1>3
    <3> QED
      BY <2>1, <3>1, <3>2
  <2>7. p = i - d
    BY <1>3, <2>3, <2>5, <2>6
  <2>8. p < n /\ p + 1 \in 1..n /\ (p + 1) + d = i + 1
    BY <1>2, <1>3, <2>7
  <2> QED
    BY <1>2, <2>1, <2>8
<1>6. p < Len(options) <=> p < n
  BY <1>1
<1> QED
  BY <1>4, <1>5, <1>6 DEF Takes

\* A call that takes the letter after the first o characters of word i, and what
\* it means that is held there.
TookAs(r, h, behind, words, i, o) ==
  /\ r.status = 0
  /\ \/ /\ h = OneMoreHeld(Option(r.letter, r.optarg), behind)
        /\ r.place = IF o + 1 >= Len(words[i]) THEN Place(i + 1, 0) ELSE Place(i, o + 1)
     \/ h = Held(<<Option(r.letter, r.optarg)>>, 1) /\ r.place = Place(i + 1, 0)
     \/ /\ h = Held(<<Option(r.letter, r.optarg)>>, 2) /\ i < Len(words)
        /\ r.place = Place(i + 2, 0)

\* An outcome by its parts.
LEMMA OutcomeIs ==
  ASSUME NEW place, NEW letter, NEW optarg, NEW r, r = Outcome(0, place, letter, optarg)
  PROVE  r.status = 0 /\ r.place = place /\ r.letter = letter /\ r.optarg = optarg
  BY DEF Outcome

\* It means the reference's options of the word.
LEMMA TakeIs ==
  ASSUME NEW optstring \in Seq(STRING), NEW words \in Seq(Seq(STRING)), NEW i \in 1..Len(words),
         NEW o \in 1..(Len(words[i]) - 1), NEW behind,
         NEW r, r = TakeOption(LettersIn(optstring), IsSilent(optstring), words, i, o),
         NEW h, h = HeldFrom(optstring, words, i, o + 1, behind)
  PROVE  TookAs(r, h, behind, words, i, o)
<1>1. PICK word \in Seq(STRING) : word = words[i]
  OBVIOUS
<1>2. PICK n \in Nat : n = Len(word)
  OBVIOUS
<1>3. o \in Nat \ {0} /\ o + 1 <= n /\ o + 1 \in 1..n
  BY <1>1, <1>2
<1>4. PICK c : c = word[o + 1]
  OBVIOUS
<1>5. PICK options, d : options = LettersIn(optstring) /\ Shifted(options, optstring, d)
  BY LettersAre
<1>6. PICK silent \in BOOLEAN : silent = IsSilent(optstring)
  BY DEF IsSilent
<1>7. PICK rest : rest = SubSeq(word, o + 2, n)
  OBVIOUS
<1>8. PICK next : next = AdvanceGetopts(i, o + 1, word, 0)
  OBVIOUS
<1>9. next = IF o + 1 >= n THEN Place(i + 1, 0) ELSE Place(i, o + 1)
  <2>1. i + 0 + 1 = i + 1
    OBVIOUS
  <2> QED
    BY <1>2, <1>8, <2>1 DEF AdvanceGetopts
<1>10. PICK p : p = CHOOSE q \in DOMAIN options :
                      options[q] = c /\ \A j \in 1..(q - 1) : options[j] # c
  OBVIOUS
<1>11. PICK wants \in BOOLEAN : wants = (p < Len(options) /\ options[p + 1] = ":")
  OBVIOUS
<1>12. r = IF ~ (c # ":" /\ c \in ToSet(options)) THEN Outcome(0, next, "?", <<c>>)
           ELSE IF ~ wants THEN Outcome(0, next, c, << >>)
           ELSE IF rest # << >> THEN Outcome(0, AdvanceGetopts(i, n, word, 0), c, rest)
           ELSE IF i < Len(words)
           THEN Outcome(0, AdvanceGetopts(i, o + 1, word, 1), c, words[i + 1])
           ELSE IF silent THEN Outcome(0, next, ":", <<c>>) ELSE Outcome(0, next, "?", << >>)
  <2>1. r = TakeOption(options, silent, words, i, o)
    BY <1>5, <1>6
  <2> QED
    BY <1>1, <1>2, <1>4, <1>7, <1>8, <1>10, <1>11, <2>1, Zenon DEF TakeOption
<1>13. h = IF c = ":" \/ c \notin ToSet(optstring) THEN OneMoreHeld(Option("?", <<c>>), behind)
           ELSE IF ~ Takes(optstring, c) THEN OneMoreHeld(Option(c, << >>), behind)
           ELSE IF o + 1 < n THEN Held(<<Option(c, rest)>>, 1)
           ELSE IF i < Len(words) THEN Held(<<Option(c, words[i + 1])>>, 2)
           ELSE Held(<<IF silent THEN Option(":", <<c>>) ELSE Option("?", << >>)>>, 1)
  <2>1. ~ (o + 1 > n) /\ (o + 1) + 1 = o + 2
    BY <1>2, <1>3
  <2> QED
    BY <1>1, <1>2, <1>4, <1>6, <1>7, <2>1, Zenon DEF HeldFrom, IsSilent
<1>14. CASE ~ (c # ":" /\ c \in ToSet(options))
  <2>1. c = ":" \/ c \notin ToSet(optstring)
    BY <1>5, <1>14, KnownIs
  <2>2. r = Outcome(0, next, "?", <<c>>)
    BY <1>12, <1>14, Zenon
  <2>3. h = OneMoreHeld(Option("?", <<c>>), behind)
    BY <1>13, <2>1, Zenon
  <2>4. r.status = 0 /\ r.place = next /\ r.letter = "?" /\ r.optarg = <<c>>
    BY <2>2, OutcomeIs
  <2> QED
    BY <1>1, <1>2, <1>9, <2>3, <2>4, Zenon DEF TookAs
<1>15. CASE c # ":" /\ c \in ToSet(options)
  <2>1. ~ (c = ":" \/ c \notin ToSet(optstring))
    BY <1>5, <1>15, KnownIs
  <2>2. IsPosition(p, options, c)
    <3>1. PICK k \in Nat : DOMAIN options = 1..k
      BY <1>5 DEF Shifted
    <3> QED
      BY <1>10, <1>15, <3>1, PositionIs
  <2>3. wants = Takes(optstring, c)
    BY <1>5, <1>11, <1>15, <2>2, TakesIs
  <2>4. CASE ~ wants
    <3>1. r = Outcome(0, next, c, << >>)
      BY <1>12, <1>15, <2>4, Zenon
    <3>2. h = OneMoreHeld(Option(c, << >>), behind)
      BY <1>13, <2>1, <2>3, <2>4, Zenon
    <3>3. r.status = 0 /\ r.place = next /\ r.letter = c /\ r.optarg = << >>
      BY <3>1, OutcomeIs
    <3> QED
      BY <1>1, <1>2, <1>9, <3>2, <3>3, Zenon DEF TookAs
  <2>5. CASE wants /\ o + 1 < n
    <3>1. rest # << >>
      <4>1. Len(rest) = n - (o + 2) + 1
        BY <1>2, <1>3, <1>7, <2>5, SubSeqProperties
      <4>2. Len(rest) # 0
        BY <1>3, <2>5, <4>1
      <4> QED
        BY <4>2, EmptySeq
    <3>2. AdvanceGetopts(i, n, word, 0) = Place(i + 1, 0)
      <4>1. n >= Len(word) /\ i + 0 + 1 = i + 1
        BY <1>2
      <4> QED
        BY <4>1 DEF AdvanceGetopts
    <3>3. r = Outcome(0, Place(i + 1, 0), c, rest)
      BY <1>12, <1>15, <2>5, <3>1, <3>2, Zenon
    <3>4. h = Held(<<Option(c, rest)>>, 1)
      BY <1>13, <2>1, <2>3, <2>5, Zenon
    <3>5. r.status = 0 /\ r.place = Place(i + 1, 0) /\ r.letter = c /\ r.optarg = rest
      BY <3>3, OutcomeIs
    <3> QED
      BY <3>4, <3>5, Zenon DEF TookAs
  <2>6. CASE wants /\ ~ (o + 1 < n)
    <3>1. o + 1 = n
      BY <1>3, <2>6
    <3>2. rest = << >>
      <4>1. o + 2 > n
        BY <1>3, <3>1
      <4>2. rest \in Seq(STRING) /\ Len(rest) = 0
        BY <1>2, <1>3, <1>7, <4>1, SubSeqProperties
      <4> QED
        BY <4>2, EmptySeq
    <3>3. o + 1 >= n
      BY <1>3, <3>1
    <3>4. CASE i < Len(words)
      <4>1. AdvanceGetopts(i, o + 1, word, 1) = Place(i + 2, 0)
        <5>1. o + 1 >= Len(word) /\ i + 1 + 1 = i + 2
          BY <1>2, <3>3
        <5> QED
          BY <5>1 DEF AdvanceGetopts
      <4>2. r = Outcome(0, Place(i + 2, 0), c, words[i + 1])
        BY <1>12, <1>15, <2>6, <3>2, <3>4, <4>1, Zenon
      <4>3. h = Held(<<Option(c, words[i + 1])>>, 2)
        BY <1>13, <2>1, <2>3, <2>6, <3>4, Zenon
      <4>4. r.status = 0 /\ r.place = Place(i + 2, 0) /\ r.letter = c /\ r.optarg = words[i + 1]
        BY <4>2, OutcomeIs
      <4> QED
        BY <3>4, <4>3, <4>4, Zenon DEF TookAs
    <3>5. CASE ~ (i < Len(words))
      <4>1. next = Place(i + 1, 0)
        BY <1>9, <3>3
      <4>2. CASE silent
        <5>1. r = Outcome(0, Place(i + 1, 0), ":", <<c>>)
          BY <1>12, <1>15, <2>6, <3>2, <3>5, <4>1, <4>2, Zenon
        <5>2. h = Held(<<Option(":", <<c>>)>>, 1)
          BY <1>13, <2>1, <2>3, <2>6, <3>5, <4>2, Zenon
        <5>3. r.status = 0 /\ r.place = Place(i + 1, 0) /\ r.letter = ":" /\ r.optarg = <<c>>
          BY <5>1, OutcomeIs
        <5> QED
          BY <5>2, <5>3, Zenon DEF TookAs
      <4>3. CASE ~ silent
        <5>1. r = Outcome(0, Place(i + 1, 0), "?", << >>)
          BY <1>12, <1>15, <2>6, <3>2, <3>5, <4>1, <4>3, Zenon
        <5>2. h = Held(<<Option("?", << >>)>>, 1)
          BY <1>13, <2>1, <2>3, <2>6, <3>5, <4>3, Zenon
        <5>3. r.status = 0 /\ r.place = Place(i + 1, 0) /\ r.letter = "?" /\ r.optarg = << >>
          BY <5>1, OutcomeIs
        <5> QED
          BY <5>2, <5>3, Zenon DEF TookAs
      <4> QED
        BY <4>2, <4>3
    <3> QED
      BY <3>4, <3>5
  <2> QED
    BY <2>4, <2>5, <2>6
<1> QED
  BY <1>14, <1>15, Zenon

\* The options in a word that has some.
LEMMA OptionsInIs ==
  ASSUME NEW optstring, NEW words \in Seq(Seq(STRING)), NEW i \in 1..Len(words),
         Len(words[i]) >= 2
  PROVE  /\ HeldIs(OptionsIn(optstring, words, i), words, i, 2)
         /\ \E f : IsHeld(f, optstring, words, i) /\ OptionsIn(optstring, words, i) = f[2]
<1>1. words[i] \in Seq(STRING) /\ Len(words[i]) \in Nat \ {0} /\ Len(words[i]) > 0
  OBVIOUS
<1>2. PICK f : f = CHOOSE g : IsHeld(g, optstring, words, i)
  OBVIOUS
<1>3. IsHeld(f, optstring, words, i)
  <2>1. \E g : IsHeld(g, optstring, words, i)
    BY <1>1, HeldExist
  <2> QED
    BY <1>2, <2>1, Zenon
<1>4. OptionsIn(optstring, words, i) = f[2]
  BY <1>2, Zenon DEF OptionsIn, IsHeld
<1>5. 2 \in 2..(Len(words[i]) + 1)
  BY <1>1
<1>6. HeldIs(f[2], words, i, 2)
  BY <1>1, <1>3, <1>5, HeldAre
<1> QED
  BY <1>3, <1>4, <1>6

\* A word that ends the options by what it is.
NoOptions(words, i) == i > Len(words) \/ Len(words[i]) < 2 \/ words[i][1] # "-"

JoinedHeld(here, others) == Held(here.list \o others.list, here.words + others.words)
ThenOptions(f, optstring, words, i) ==
  JoinedHeld(OptionsIn(optstring, words, i), f[i + OptionsIn(optstring, words, i).words])

\* The options from word i on.
OptionsValue(f, optstring, words, i) ==
  IF NoOptions(words, i) THEN Held(<< >>, 0)
  ELSE IF words[i] = <<"-", "-">> THEN Held(<< >>, 1)
  ELSE ThenOptions(f, optstring, words, i)
IsOptions(f, optstring, words) ==
  f = [i \in 1..(Len(words) + 1) |->
         IF i > Len(words) \/ Len(words[i]) < 2 \/ words[i][1] # "-" THEN Held(<< >>, 0)
         ELSE IF words[i] = <<"-", "-">> THEN Held(<< >>, 1)
         ELSE LET here == OptionsIn(optstring, words, i)
                  others == f[i + here.words]
              IN Held(here.list \o others.list, here.words + others.words)]

\* Where the options of a word end, if it has some.
LEMMA NextWordIs ==
  ASSUME NEW optstring, NEW words \in Seq(Seq(STRING)), NEW i \in 1..(Len(words) + 1),
         ~ NoOptions(words, i)
  PROVE  /\ i \in 1..Len(words)
         /\ HeldIs(OptionsIn(optstring, words, i), words, i, 2)
         /\ i + OptionsIn(optstring, words, i).words \in (i + 1)..(Len(words) + 1)
<1>1. PICK n \in Nat : n = Len(words)
  OBVIOUS
<1>2. i \in 1..n /\ i \in 1..Len(words)
  BY <1>1 DEF NoOptions
<1>3. Len(words[i]) >= 2
  <2>1. words[i] \in Seq(STRING)
    BY <1>2
  <2>2. ~ (Len(words[i]) < 2)
    BY DEF NoOptions
  <2> QED
    BY <2>1, <2>2
<1>4. HeldIs(OptionsIn(optstring, words, i), words, i, 2)
  BY <1>2, <1>3, OptionsInIs
<1>5. PICK w : w = OptionsIn(optstring, words, i).words
  OBVIOUS
<1>6. w \in {1, 2} /\ (w = 2 => i < n)
  BY <1>1, <1>4, <1>5 DEF HeldIs
<1>7. i + w \in (i + 1)..(n + 1)
  BY <1>2, <1>6
<1> QED
  BY <1>1, <1>2, <1>4, <1>5, <1>7

\* A value is got from those behind it.
LEMMA OptionsValueIs ==
  ASSUME NEW optstring, NEW words \in Seq(Seq(STRING)), NEW i \in 1..(Len(words) + 1),
         NEW f, NEW g, \A j \in (i + 1)..(Len(words) + 1) : f[j] = g[j]
  PROVE  OptionsValue(f, optstring, words, i) = OptionsValue(g, optstring, words, i)
<1>1. CASE NoOptions(words, i)
  BY <1>1 DEF OptionsValue
<1>2. CASE ~ NoOptions(words, i)
  <2>1. PICK j : j = i + OptionsIn(optstring, words, i).words
    OBVIOUS
  <2>2. j \in (i + 1)..(Len(words) + 1)
    BY <1>2, <2>1, NextWordIs
  <2>3. f[j] = g[j]
    BY <2>2
  <2>4. ThenOptions(f, optstring, words, i) = ThenOptions(g, optstring, words, i)
    BY <2>1, <2>3, Zenon DEF ThenOptions
  <2> QED
    BY <2>4, Zenon DEF OptionsValue
<1> QED
  BY <1>1, <1>2

\* The options are a function of the word from which on they are read,
LEMMA OptionsExist ==
  ASSUME NEW optstring, NEW words \in Seq(Seq(STRING))
  PROVE  \E f : IsOptions(f, optstring, words)
<1>1. PICK n \in Nat : n = Len(words)
  OBVIOUS
<1> DEFINE Right(f, m) == f = [i \in m..(n + 1) |-> OptionsValue(f, optstring, words, i)]
           X == {m \in 1..(n + 1) : \E f : Right(f, m)}
<1>2. ASSUME NEW m \in 1..(n + 1), NEW g, m <= n => Right(g, m + 1) PROVE m \in X
  <2>1. PICK v : v = OptionsValue(g, optstring, words, m)
    OBVIOUS
  <2>2. PICK h : h = [i \in m..(n + 1) |-> IF i = m THEN v ELSE g[i]]
    OBVIOUS
  <2>3. h[m] = v /\ \A i \in (m + 1)..(n + 1) : h[i] = g[i]
    <3>1. m \in m..(n + 1) /\ \A i \in (m + 1)..(n + 1) : i \in m..(n + 1) /\ i # m
      OBVIOUS
    <3> QED
      BY <2>2, <3>1
  <2>4. ASSUME NEW i \in m..(n + 1)
        PROVE  OptionsValue(g, optstring, words, i) = OptionsValue(h, optstring, words, i)
    <3>1. i \in 1..(Len(words) + 1)
      BY <1>1
    <3>2. \A j \in (i + 1)..(Len(words) + 1) : g[j] = h[j]
      <4>1. \A j \in (i + 1)..(n + 1) : j \in (m + 1)..(n + 1)
        OBVIOUS
      <4> QED
        BY <1>1, <2>3, <4>1
    <3> QED
      BY <3>1, <3>2, OptionsValueIs
  <2>5. ASSUME NEW i \in m..(n + 1) PROVE h[i] = OptionsValue(h, optstring, words, i)
    <3>1. CASE i = m
      BY <2>1, <2>3, <2>4, <3>1
    <3>2. CASE i # m
      <4>1. i \in (m + 1)..(n + 1) /\ m <= n
        BY <3>2
      <4>2. g[i] = OptionsValue(g, optstring, words, i)
        BY <1>2, <4>1
      <4> QED
        BY <2>3, <2>4, <4>1, <4>2
    <3> QED
      BY <3>1, <3>2
  <2>6. h = [i \in m..(n + 1) |-> h[i]]
    BY <2>2
  <2>7. Right(h, m)
    BY <2>5, <2>6
  <2> QED
    BY <2>7
<1>3. n + 1 \in X
  <2>1. n + 1 \in 1..(n + 1) /\ ~ (n + 1 <= n)
    OBVIOUS
  <2> HIDE DEF X, Right
  <2> QED
    BY <1>2, <2>1
<1>4. ASSUME NEW m \in 1..n, m + 1 \in X PROVE m \in X
  <2>1. PICK g : Right(g, m + 1)
    BY <1>4
  <2>2. m \in 1..(n + 1)
    OBVIOUS
  <2> HIDE DEF X, Right
  <2> QED
    BY <1>2, <2>1, <2>2
<1>5. 1 \in X
  <2>1. \A i \in 1..n : (\A j \in (i + 1)..(n + 1) : j \in X) => i \in X
    <3>1. \A i \in 1..n : i + 1 \in (i + 1)..(n + 1)
      OBVIOUS
    <3> HIDE DEF X
    <3> QED
      BY <1>4, <3>1
  <2>2. 1 \in 1..(n + 1)
    OBVIOUS
  <2> HIDE DEF X
  <2> QED
    BY <1>3, <2>1, <2>2, DownInduct
<1>6. PICK f : Right(f, 1)
  BY <1>5
<1>7. f = [i \in 1..(Len(words) + 1) |-> OptionsValue(f, optstring, words, i)]
  BY <1>1, <1>6
<1>8. IsOptions(f, optstring, words)
  BY <1>7, Zenon DEF IsOptions, OptionsValue, NoOptions, ThenOptions, JoinedHeld
<1> QED
  BY <1>8

\* Options of a line from word i on: g are the sums of the words.
OptionsAt(read, words, g, i) ==
  /\ read.list \in Seq(Opts) /\ read.words \in Nat
  /\ Len(read.list) <= Len(g[Len(words)]) - Len(g[i - 1])

\* no longer than the words.
LEMMA OptionsAre ==
  ASSUME NEW optstring, NEW words \in Seq(Seq(STRING)), NEW f, IsOptions(f, optstring, words),
         NEW g \in [0..Len(words) -> Seq(STRING)], Sums(g, words)
  PROVE  \A i \in 1..(Len(words) + 1) :
           /\ f[i] = OptionsValue(f, optstring, words, i)
           /\ OptionsAt(f[i], words, g, i)
<1>1. PICK n \in Nat : n = Len(words)
  OBVIOUS
<1>2. PICK len : len = [j \in 0..n |-> Len(g[j])]
  OBVIOUS
<1>3. /\ \A j \in 0..n : len[j] = Len(g[j]) /\ len[j] \in Nat
      /\ \A j \in 1..n : len[j] = len[j - 1] + Len(words[j])
  <2>1. \A j \in 0..n : len[j] = Len(g[j]) /\ g[j] \in Seq(STRING)
    BY <1>1, <1>2
  <2>2. ASSUME NEW j \in 1..n PROVE len[j] = len[j - 1] + Len(words[j])
    <3>1. g[j] = g[j - 1] \o words[j]
      BY <1>1, <2>2 DEF Sums
    <3>2. j - 1 \in 0..n /\ j \in 0..n
      OBVIOUS
    <3>3. g[j - 1] \in Seq(STRING) /\ words[j] \in Seq(STRING)
      BY <1>1, <2>1, <3>2
    <3>4. Len(g[j - 1] \o words[j]) = Len(g[j - 1]) + Len(words[j])
      BY <3>3, ConcatProperties
    <3> QED
      BY <2>1, <3>1, <3>2, <3>4
  <2> QED
    BY <2>1, <2>2
<1>4. \A i \in 1..(n + 1) : f[i] = OptionsValue(f, optstring, words, i)
  <2>1. f = [i \in 1..(Len(words) + 1) |-> OptionsValue(f, optstring, words, i)]
    BY Zenon DEF IsOptions, OptionsValue, NoOptions, ThenOptions, JoinedHeld
  <2> QED
    BY <1>1, <2>1
<1>5. ASSUME NEW i \in 1..(n + 1) PROVE len[i - 1] <= len[n] /\ i - 1 \in 0..n
  <2> DEFINE Y == {j \in 1..(n + 1) : len[j - 1] <= len[n]}
  <2>1. n + 1 \in Y
    <3>1. (n + 1) - 1 = n /\ n \in 0..n
      OBVIOUS
    <3>2. len[n] \in Nat
      BY <1>3, <3>1
    <3> QED
      BY <3>1, <3>2
  <2>2. ASSUME NEW j \in 1..n, j + 1 \in Y PROVE j \in Y
    <3>1. j - 1 \in 0..n /\ j \in 0..n /\ n \in 0..n /\ (j + 1) - 1 = j
      OBVIOUS
    <3>2. len[j] <= len[n]
      BY <2>2, <3>1
    <3>3. words[j] \in Seq(STRING) /\ Len(words[j]) \in Nat
      BY <1>1
    <3>4. len[j] = len[j - 1] + Len(words[j])
      BY <1>3
    <3>5. len[j - 1] \in Nat /\ len[n] \in Nat /\ len[j] \in Nat
      BY <1>3, <3>1
    <3>6. len[j - 1] <= len[n]
      BY <3>2, <3>3, <3>4, <3>5
    <3> QED
      BY <3>6
  <2>3. \A j \in 1..(n + 1) : j \in Y
    <3>1. \A j \in 1..n : (\A k \in (j + 1)..(n + 1) : k \in Y) => j \in Y
      <4>1. \A j \in 1..n : j + 1 \in (j + 1)..(n + 1)
        OBVIOUS
      <4> HIDE DEF Y
      <4> QED
        BY <2>2, <4>1
    <3> HIDE DEF Y
    <3> QED
      BY <2>1, <3>1, DownInduct
  <2> QED
    BY <2>3
<1> DEFINE X == {i \in 1..(n + 1) : OptionsAt(f[i], words, g, i)}
<1>6. ASSUME NEW i \in 1..(n + 1), NEW w \in {0, 1}, f[i] = Held(<< >>, w) PROVE i \in X
  <2>1. f[i].list = << >> /\ f[i].words = w
    BY <1>6 DEF Held
  <2>2. << >> \in Seq(Opts) /\ Len(<< >>) = 0
    BY EmptySeq
  <2>3. f[i].list \in Seq(Opts) /\ Len(f[i].list) = 0 /\ f[i].words \in Nat
    BY <2>1, <2>2
  <2>4. len[i - 1] \in Nat /\ len[n] \in Nat /\ len[i - 1] <= len[n] /\ i - 1 \in 0..n /\ n \in 0..n
    <3>1. i - 1 \in 0..n /\ n \in 0..n
      OBVIOUS
    <3> QED
      BY <1>3, <1>5, <3>1
  <2>5. 0 <= Len(g[Len(words)]) - Len(g[i - 1])
    <3>1. Len(g[n]) = len[n] /\ Len(g[i - 1]) = len[i - 1]
      BY <1>3, <2>4
    <3>2. 0 <= len[n] - len[i - 1]
      BY <2>4
    <3> QED
      BY <1>1, <3>1, <3>2
  <2> QED
    BY <2>3, <2>5 DEF OptionsAt
<1>7. ASSUME NEW i \in 1..(n + 1), \A j \in (i + 1)..(n + 1) : j \in X PROVE i \in X
  <2>1. f[i] = OptionsValue(f, optstring, words, i)
    BY <1>4
  <2>2. CASE NoOptions(words, i)
    <3>1. f[i] = Held(<< >>, 0)
      BY <2>1, <2>2 DEF OptionsValue
    <3> HIDE DEF X
    <3> QED
      BY <1>6, <3>1
  <2>3. CASE ~ NoOptions(words, i) /\ words[i] = <<"-", "-">>
    <3>1. f[i] = Held(<< >>, 1)
      BY <2>1, <2>3, Zenon DEF OptionsValue
    <3> HIDE DEF X
    <3> QED
      BY <1>6, <3>1
  <2>4. CASE ~ NoOptions(words, i) /\ words[i] # <<"-", "-">>
    <3>1. PICK here : here = OptionsIn(optstring, words, i)
      OBVIOUS
    <3>2. /\ i \in 1..n /\ HeldIs(here, words, i, 2)
          /\ i + here.words \in (i + 1)..(n + 1)
      BY <1>1, <2>4, <3>1, NextWordIs
    <3>3. PICK j : j = i + here.words
      OBVIOUS
    <3>4. OptionsAt(f[j], words, g, j)
      BY <1>7, <3>2, <3>3
    <3>5. f[i] = Held(here.list \o f[j].list, here.words + f[j].words)
      BY <2>1, <2>4, <3>1, <3>3, Zenon DEF OptionsValue, ThenOptions, JoinedHeld
    <3>6. f[i].list = here.list \o f[j].list /\ f[i].words = here.words + f[j].words
      <4>1. PICK l, w : l = here.list \o f[j].list /\ w = here.words + f[j].words
        OBVIOUS
      <4>2. f[i] = Held(l, w)
        BY <3>5, <4>1
      <4>3. f[i].list = l /\ f[i].words = w
        BY <4>2 DEF Held
      <4> QED
        BY <4>1, <4>3
    <3>7. here.list \in Seq(Opts) /\ f[j].list \in Seq(Opts)
      BY <3>2, <3>4 DEF HeldIs, OptionsAt
    <3>8. f[i].list \in Seq(Opts) /\ Len(f[i].list) = Len(here.list) + Len(f[j].list)
      BY <3>6, <3>7, ConcatProperties
    <3>9. here.words \in {1, 2} /\ f[j].words \in Nat
      BY <3>2, <3>4 DEF HeldIs, OptionsAt
    <3>10. f[i].words \in Nat
      BY <3>6, <3>9
    <3>11. PICK a, b \in Nat : a = Len(here.list) /\ b = Len(f[j].list)
      BY <3>7
    <3>12. PICK c \in Nat : c = Len(words[i])
      <4>1. words[i] \in Seq(STRING)
        BY <1>1, <3>2
      <4> QED
        BY <4>1
    <3>13. a <= c + 1 - 2
      BY <3>2, <3>11, <3>12 DEF HeldIs
    <3>14. /\ i - 1 \in 0..n /\ i \in 0..n /\ j - 1 \in 0..n /\ n \in 0..n /\ j \in 1..(n + 1)
           /\ j = i + 1 \/ (j = i + 2 /\ i + 1 \in 1..n /\ i + 1 \in 0..n)
      BY <3>2, <3>3, <3>9
    <3>15. b <= len[n] - len[j - 1]
      BY <1>1, <1>3, <3>4, <3>11, <3>14 DEF OptionsAt
    <3>16. len[i] = len[i - 1] + c
      BY <1>3, <3>2, <3>12
    <3>17. len[i] <= len[j - 1]
      <4>1. CASE j = i + 1
        <5>1. j - 1 = i /\ len[i] \in Nat
          BY <1>3, <3>14, <4>1
        <5> QED
          BY <5>1
      <4>2. CASE j = i + 2 /\ i + 1 \in 1..n /\ i + 1 \in 0..n
        <5>1. j - 1 = i + 1 /\ (i + 1) - 1 = i
          BY <4>2
        <5>2. len[i + 1] = len[i] + Len(words[i + 1])
          BY <1>3, <4>2, <5>1
        <5>3. Len(words[i + 1]) \in Nat
          <6>1. words[i + 1] \in Seq(STRING)
            BY <1>1, <4>2
          <6> QED
            BY <6>1
        <5>4. len[i] \in Nat
          BY <1>3, <3>14
        <5> QED
          BY <5>1, <5>2, <5>3, <5>4
      <4> QED
        BY <3>14, <4>1, <4>2
    <3>18. len[i] \in Nat /\ len[i - 1] \in Nat /\ len[j - 1] \in Nat /\ len[n] \in Nat
      BY <1>3, <3>14
    <3>19. a + b <= len[n] - len[i - 1]
      BY <3>13, <3>15, <3>16, <3>17, <3>18
    <3>20. Len(f[i].list) <= Len(g[Len(words)]) - Len(g[i - 1])
      BY <1>1, <1>3, <3>8, <3>11, <3>14, <3>19
    <3> QED
      BY <3>8, <3>10, <3>20 DEF OptionsAt
  <2> QED
    BY <2>2, <2>3, <2>4
<1>8. \A i \in 1..(n + 1) : i \in X
  <2>1. n + 1 \in X
    <3>1. n + 1 \in 1..(n + 1) /\ \A j \in ((n + 1) + 1)..(n + 1) : j \in X
      OBVIOUS
    <3> HIDE DEF X
    <3> QED
      BY <1>7, <3>1
  <2>2. \A i \in 1..n : (\A j \in (i + 1)..(n + 1) : j \in X) => i \in X
    <3>1. \A i \in 1..n : i \in 1..(n + 1)
      OBVIOUS
    <3> HIDE DEF X
    <3> QED
      BY <1>7, <3>1
  <2> HIDE DEF X
  <2> QED
    BY <2>1, <2>2, DownInduct
<1> QED
  BY <1>1, <1>4, <1>8

\* What is left to see from a place: f are the options from each word on.
RestAt(place, rest, f, optstring, words) ==
  /\ place.index \in 1..(Len(words) + 1) /\ place.optind = place.index
  /\ \/ place.offset = 0 /\ rest = f[place.index]
     \/ /\ place.index \in 1..Len(words)
        /\ place.offset \in 1..(Len(words[place.index]) - 1)
        /\ \E h : /\ IsHeld(h, optstring, words, place.index)
                  /\ rest = JoinedHeld(h[place.offset + 1],
                                       f[place.index + h[place.offset + 1].words])

\* A call that sees the first of the rest.
Sees(r, i, rest, f, optstring, words) ==
  /\ r.status = 0
  /\ \E next :
       /\ RestAt(r.place, next, f, optstring, words)
       /\ rest.list = <<Option(r.letter, r.optarg)>> \o next.list
       /\ i + rest.words = r.place.index + next.words

OptionsTyped(f, words) ==
  \A i \in 1..(Len(words) + 1) : f[i].list \in Seq(Opts) /\ f[i].words \in Nat

\* What a sequence of such things begins with is one.
LEMMA FirstOne ==
  ASSUME NEW T, NEW x, NEW s \in Seq(T), <<x>> \o s \in Seq(T)
  PROVE  x \in T
<1>1. PICK V : V = T \cup {x}
  OBVIOUS
<1>2. s \in Seq(V)
  BY <1>1
<1>3. x \in V
  BY <1>1
<1>4. (<<x>> \o s)[1] = x /\ Len(<<x>> \o s) = Len(s) + 1
  BY <1>2, <1>3, ConsIs
<1>5. Len(s) \in Nat
  OBVIOUS
<1>6. 1 \in 1..Len(<<x>> \o s)
  BY <1>4, <1>5
<1>7. PICK l \in Seq(T) : l = <<x>> \o s
  OBVIOUS
<1>8. l[1] \in T
  BY <1>6, <1>7
<1> QED
  BY <1>4, <1>7, <1>8

\* Joining lists of options is associative.
LEMMA OptionsAssociative ==
  \A u, s, t \in Seq(Opts) : (u \o s) \o t = u \o (s \o t)
  BY JoiningAssociative

\* Arithmetic, for the next lemmas.
LEMMA AfterTwo ==
  ASSUME NEW n \in Nat, NEW i \in 1..n, NEW v \in {1, 2}, v = 2 => i < n
  PROVE  i + v \in 1..(n + 1)
  OBVIOUS

\* A place by its parts.
LEMMA PlaceIs ==
  ASSUME NEW i, NEW o, NEW p, p = Place(i, o)
  PROVE  p.index = i /\ p.offset = o /\ p.optind = i
  BY DEF Place

\* A call that takes a letter sees the first of the rest.
LEMMA TakenIsSeen ==
  ASSUME NEW optstring \in Seq(STRING), NEW words \in Seq(Seq(STRING)), NEW i \in 1..Len(words),
         NEW o \in 1..(Len(words[i]) - 1), NEW f, OptionsTyped(f, words),
         NEW h, IsHeld(h, optstring, words, i),
         NEW rest, rest = JoinedHeld(h[o + 1], f[i + h[o + 1].words]),
         NEW r, r = TakeOption(LettersIn(optstring), IsSilent(optstring), words, i, o)
  PROVE  Sees(r, i, rest, f, optstring, words)
<1>1. PICK n \in Nat : n = Len(words)
  OBVIOUS
<1>2. PICK c \in Nat : c = Len(words[i])
  <2>1. words[i] \in Seq(STRING)
    OBVIOUS
  <2> QED
    BY <2>1
<1>3. /\ o + 1 \in 2..(c + 1) /\ o + 2 \in 2..(c + 1) /\ o + 1 <= c /\ (o + 1) + 1 = o + 2
      /\ c > 0 /\ o \in Nat
  BY <1>2
<1>4. \A k \in 2..(c + 1) :
        h[k] = HeldFrom(optstring, words, i, k, h[k + 1]) /\ HeldIs(h[k], words, i, k)
  BY <1>2, <1>3, HeldAre
<1>5. PICK here, behind : here = h[o + 1] /\ behind = h[o + 2]
  OBVIOUS
<1>6. /\ here = HeldFrom(optstring, words, i, o + 1, behind)
      /\ HeldIs(here, words, i, o + 1) /\ HeldIs(behind, words, i, o + 2)
  BY <1>3, <1>4, <1>5
<1>7. TookAs(r, here, behind, words, i, o)
  BY <1>6, TakeIs
<1>8. PICK opt : opt = Option(r.letter, r.optarg)
  OBVIOUS
<1>9. PICK w \in {1, 2} : w = here.words /\ (w = 2 => i < n) /\ i + w \in 1..(n + 1)
  <2>1. here.words \in {1, 2} /\ (here.words = 2 => i < n)
    BY <1>1, <1>6 DEF HeldIs
  <2>2. i + here.words \in 1..(n + 1)
    <3>1. PICK v : v = here.words
      OBVIOUS
    <3>2. i \in 1..n /\ v \in {1, 2} /\ (v = 2 => i < n)
      BY <1>1, <2>1, <3>1
    <3>3. i + v \in 1..(n + 1)
      BY <3>2, AfterTwo
    <3> QED
      BY <3>1, <3>3
  <2> QED
    BY <2>1, <2>2
<1>10. PICK others : others = f[i + w]
  OBVIOUS
<1>11. others.list \in Seq(Opts) /\ others.words \in Nat
  BY <1>1, <1>9, <1>10 DEF OptionsTyped
<1>12. rest.list = here.list \o others.list /\ rest.words = w + others.words
  <2>1. PICK l, m : l = here.list \o others.list /\ m = w + others.words
    OBVIOUS
  <2>2. rest = Held(l, m)
    BY <1>5, <1>9, <1>10, <2>1, Zenon DEF JoinedHeld
  <2>3. rest.list = l /\ rest.words = m
    BY <2>2 DEF Held
  <2> QED
    BY <2>1, <2>3
<1>13. here.list \in Seq(Opts) /\ behind.list \in Seq(Opts)
  BY <1>6 DEF HeldIs
<1>14. r.status = 0
  BY <1>7 DEF TookAs
<1>15. ASSUME NEW k \in {1, 2}, k = w, here.list = <<opt>>, r.place = Place(i + k, 0)
       PROVE  Sees(r, i, rest, f, optstring, words)
  <2>1. r.place.index = i + k /\ r.place.offset = 0 /\ r.place.optind = i + k
    BY <1>15, PlaceIs
  <2>2. RestAt(r.place, others, f, optstring, words)
    BY <1>1, <1>9, <1>10, <1>15, <2>1, Zenon DEF RestAt
  <2>3. rest.list = <<opt>> \o others.list
    BY <1>12, <1>15
  <2>4. i + rest.words = r.place.index + others.words
    <3>1. i \in Nat
      OBVIOUS
    <3>2. PICK v \in Nat : v = others.words
      BY <1>11
    <3>3. rest.words = k + v /\ r.place.index = i + k
      BY <1>12, <1>15, <2>1, <3>2
    <3>4. i + (k + v) = (i + k) + v
      BY <3>1
    <3> QED
      BY <3>2, <3>3, <3>4
  <2> QED
    BY <1>8, <1>14, <2>2, <2>3, <2>4, Zenon DEF Sees
<1>16. CASE /\ here = OneMoreHeld(opt, behind)
            /\ r.place = IF o + 1 >= c THEN Place(i + 1, 0) ELSE Place(i, o + 1)
  <2>1. here.list = <<opt>> \o behind.list /\ here.words = behind.words
    <3>1. PICK l, m : l = <<opt>> \o behind.list /\ m = behind.words
      OBVIOUS
    <3>2. here = Held(l, m)
      BY <1>16, <3>1 DEF OneMoreHeld
    <3>3. here.list = l /\ here.words = m
      BY <3>2 DEF Held
    <3> QED
      BY <3>1, <3>3
  <2>2. opt \in Opts
    BY <1>13, <2>1, FirstOne
  <2>3. CASE o + 1 >= c
    <3>1. o + 1 = c /\ o + 2 > c
      BY <1>3, <2>3
    <3>2. behind = Held(<< >>, 1)
      <4>1. behind = HeldFrom(optstring, words, i, o + 2, h[(o + 2) + 1])
        BY <1>3, <1>4, <1>5
      <4> QED
        BY <1>2, <3>1, <4>1 DEF HeldFrom
    <3>3. behind.list = << >> /\ behind.words = 1
      BY <3>2 DEF Held
    <3>4. here.list = <<opt>>
      <4>1. <<opt>> \in Seq(Opts)
        BY <2>2, OneLong
      <4>2. <<opt>> \o << >> = <<opt>>
        BY <4>1, ConcatEmptySeq
      <4> QED
        BY <2>1, <3>3, <4>2
    <3>5. 1 = w
      BY <1>9, <2>1, <3>3
    <3>6. r.place = Place(i + 1, 0)
      BY <1>16, <2>3
    <3> QED
      BY <1>15, <3>4, <3>5, <3>6
  <2>4. CASE ~ (o + 1 >= c)
    <3>1. r.place = Place(i, o + 1)
      BY <1>16, <2>4
    <3>2. r.place.index = i /\ r.place.offset = o + 1 /\ r.place.optind = i
      BY <3>1, PlaceIs
    <3>3. o + 1 \in 1..(c - 1)
      BY <1>3, <2>4
    <3>4. PICK next : next = JoinedHeld(behind, others)
      OBVIOUS
    <3>5. next = JoinedHeld(h[(o + 1) + 1], f[i + h[(o + 1) + 1].words])
      BY <1>3, <1>5, <1>9, <1>10, <2>1, <3>4
    <3>6. i \in 1..Len(words) /\ i \in 1..(Len(words) + 1)
      BY <1>1
    <3>7. RestAt(r.place, next, f, optstring, words)
      BY <1>2, <3>2, <3>3, <3>5, <3>6, Zenon DEF RestAt
    <3>8. next.list = behind.list \o others.list /\ next.words = w + others.words
      <4>1. PICK l, m : l = behind.list \o others.list /\ m = w + others.words
        OBVIOUS
      <4>2. next = Held(l, m)
        BY <1>9, <2>1, <3>4, <4>1, Zenon DEF JoinedHeld
      <4>3. next.list = l /\ next.words = m
        BY <4>2 DEF Held
      <4> QED
        BY <4>1, <4>3
    <3>9. rest.list = <<opt>> \o next.list
      <4>1. <<opt>> \in Seq(Opts)
        BY <2>2, OneLong
      <4>2. (<<opt>> \o behind.list) \o others.list = <<opt>> \o (behind.list \o others.list)
        BY <1>11, <1>13, <4>1, OptionsAssociative, Zenon
      <4> QED
        BY <1>12, <2>1, <3>8, <4>2
    <3>10. i + rest.words = r.place.index + next.words
      BY <1>12, <3>2, <3>8
    <3> QED
      BY <1>8, <1>14, <3>7, <3>9, <3>10, Zenon DEF Sees
  <2> QED
    BY <2>3, <2>4
<1>17. ASSUME NEW k \in {1, 2}, here = Held(<<opt>>, k), r.place = Place(i + k, 0)
       PROVE  Sees(r, i, rest, f, optstring, words)
  <2>1. here.list = <<opt>> /\ here.words = k
    BY <1>17 DEF Held
  <2>2. k = w
    BY <1>9, <2>1
  <2> QED
    BY <1>15, <1>17, <2>1, <2>2
<1>18. CASE here = Held(<<opt>>, 1) /\ r.place = Place(i + 1, 0)
  BY <1>17, <1>18
<1>19. CASE here = Held(<<opt>>, 2) /\ r.place = Place(i + 2, 0)
  BY <1>17, <1>19
<1> QED
  BY <1>2, <1>7, <1>8, <1>16, <1>18, <1>19, Zenon DEF TookAs

\* A call that finds no option: the place it leaves has the index of where the
\* options end.
Ends(r, i, rest) == rest.list = << >> /\ r.status = 1 /\ r.place.index = i + rest.words

\* How a call finds none.
LEMMA EndsAt ==
  ASSUME NEW i \in Nat, NEW place, NEW r, r = NoOption(place), NEW w \in {0, 1},
         place.index = i + w, NEW rest, rest = Held(<< >>, w)
  PROVE  Ends(r, i, rest)
<1>1. r.status = 1 /\ r.place = place
  BY DEF NoOption, Outcome
<1>2. rest.list = << >> /\ rest.words = w
  BY DEF Held
<1> QED
  BY <1>1, <1>2 DEF Ends

\* BuiltinGetopts at a place where OPTIND is the index, case by case.
Here(i, o) == [index |-> i, offset |-> o, optind |-> i]
TakenAt(optstring, words, i, o) ==
  TakeOption(LettersIn(optstring), IsSilent(optstring), words, i, o)
Called(r, i, o, optstring, words) ==
  /\ i > Len(words) => r = NoOption([Here(i, o) EXCEPT !.optind = i])
  /\ ~ (i > Len(words)) /\ o = 0 /\ words[i] = <<"-", "-">> => r = NoOption(Place(i + 1, 0))
  /\ ~ (i > Len(words)) /\ o = 0 /\ words[i] # <<"-", "-">> /\ NoOptions(words, i)
       => r = NoOption(Here(i, o))
  /\ ~ NoOptions(words, i) /\ o = 0 /\ words[i] # <<"-", "-">> /\ ~ (0 >= Len(words[i]))
       => r = TakenAt(optstring, words, i, 1)
  /\ ~ (i > Len(words)) /\ o # 0 /\ ~ (o >= Len(words[i])) => r = TakenAt(optstring, words, i, o)

\* It is this.
LEMMA BuiltinIs ==
  ASSUME NEW optstring, NEW words, NEW place, place.optind = place.index
  PROVE  Called(BuiltinGetopts(place, optstring, words), place.index, place.offset, optstring, words)
<1>1. PICK i, o, r : /\ i = place.index /\ o = place.offset
                     /\ r = BuiltinGetopts(place, optstring, words)
  OBVIOUS
<1>2. place.optind = i /\ Here(i, o) = [index |-> i, offset |-> o, optind |-> i]
  BY <1>1 DEF Here
<1>3. r = IF i > Len(words) THEN NoOption([Here(i, o) EXCEPT !.optind = i])
          ELSE IF o = 0 /\ words[i] = <<"-", "-">> THEN NoOption(Place(i + 1, 0))
          ELSE IF o = 0 /\ (Len(words[i]) < 2 \/ words[i][1] # "-") THEN NoOption(Here(i, o))
          ELSE IF o >= Len(words[i]) THEN Panics(Here(i, o))
          ELSE TakenAt(optstring, words, i, IF o = 0 THEN 1 ELSE o)
  <2>1. ~ (place.optind > 0 /\ place.optind # place.index)
    OBVIOUS
  <2> QED
    BY <1>1, <1>2, <2>1, Zenon DEF BuiltinGetopts, TakenAt, LettersIn, IsSilent
<1>4. ASSUME i > Len(words) PROVE r = NoOption([Here(i, o) EXCEPT !.optind = i])
  BY <1>3, <1>4, Zenon
<1>5. ASSUME ~ (i > Len(words)), o = 0, words[i] = <<"-", "-">>
      PROVE  r = NoOption(Place(i + 1, 0))
  BY <1>3, <1>5, Zenon
<1>6. ASSUME ~ (i > Len(words)), o = 0, words[i] # <<"-", "-">>, NoOptions(words, i)
      PROVE  r = NoOption(Here(i, o))
  BY <1>3, <1>6, Zenon DEF NoOptions
<1>7. ASSUME ~ NoOptions(words, i), o = 0, words[i] # <<"-", "-">>, ~ (0 >= Len(words[i]))
      PROVE  r = TakenAt(optstring, words, i, 1)
  BY <1>3, <1>7, Zenon DEF NoOptions
<1>8. ASSUME ~ (i > Len(words)), o # 0, ~ (o >= Len(words[i]))
      PROVE  r = TakenAt(optstring, words, i, o)
  BY <1>3, <1>8, Zenon
<1>9. Called(r, i, o, optstring, words)
  BY <1>4, <1>5, <1>6, <1>7, <1>8, Zenon DEF Called
<1> QED
  BY <1>1, <1>9, Zenon

\* A call of getopts sees the first of what is left, or that nothing is.
LEMMA CallIs ==
  ASSUME NEW optstring \in Seq(STRING), NEW words \in Seq(Seq(STRING)), NEW f,
         OptionsTyped(f, words),
         \A i \in 1..(Len(words) + 1) : f[i] = OptionsValue(f, optstring, words, i),
         NEW place, NEW rest, RestAt(place, rest, f, optstring, words),
         NEW r, r = BuiltinGetopts(place, optstring, words)
  PROVE  Ends(r, place.index, rest) \/ Sees(r, place.index, rest, f, optstring, words)
<1>1. PICK n \in Nat : n = Len(words)
  OBVIOUS
<1>2. PICK i, o : i = place.index /\ o = place.offset
  OBVIOUS
<1>3. /\ i \in 1..(n + 1) /\ place.optind = i
      /\ \/ o = 0 /\ rest = f[i]
         \/ /\ i \in 1..n /\ o \in 1..(Len(words[i]) - 1)
            /\ \E h : IsHeld(h, optstring, words, i)
                      /\ rest = JoinedHeld(h[o + 1], f[i + h[o + 1].words])
  BY <1>1, <1>2, Zenon DEF RestAt
<1>4. PICK here : here = Here(i, o)
  OBVIOUS
<1>5. Called(r, i, o, optstring, words)
  BY <1>2, <1>3, BuiltinIs
<1>6. CASE o = 0 /\ rest = f[i]
  <2>1. rest = OptionsValue(f, optstring, words, i)
    BY <1>1, <1>3, <1>6
  <2>2. i \in Nat /\ i + 0 = i
    BY <1>3
  <2>3. here.index = i + 0 /\ [here EXCEPT !.optind = i].index = i + 0
    BY <1>4, <2>2 DEF Here
  <2>4. CASE NoOptions(words, i) /\ i > n
    <3>1. rest = Held(<< >>, 0)
      BY <2>1, <2>4, Zenon DEF OptionsValue
    <3>2. r = NoOption([here EXCEPT !.optind = i])
      BY <1>1, <1>4, <1>5, <2>4, Zenon DEF Called
    <3>3. Ends(r, i, rest)
      BY <2>2, <2>3, <3>1, <3>2, EndsAt
    <3> QED
      BY <1>2, <3>3
  <2>5. CASE NoOptions(words, i) /\ ~ (i > n)
    <3>1. rest = Held(<< >>, 0)
      BY <2>1, <2>5, Zenon DEF OptionsValue
    <3>2. words[i] # <<"-", "-">>
      <4>1. Len(words[i]) < 2 \/ words[i][1] # "-"
        BY <1>1, <2>5 DEF NoOptions
      <4>2. ASSUME words[i] = <<"-", "-">> PROVE FALSE
        <5>1. Len(words[i]) = 2 /\ words[i][1] = "-"
          BY <4>2
        <5>2. ~ (2 < 2)
          OBVIOUS
        <5> QED
          BY <4>1, <5>1, <5>2, Zenon
      <4> QED
        BY <4>2
    <3>3. r = NoOption(here)
      BY <1>1, <1>4, <1>5, <1>6, <2>5, <3>2, Zenon DEF Called
    <3>4. Ends(r, i, rest)
      BY <2>2, <2>3, <3>1, <3>3, EndsAt
    <3> QED
      BY <1>2, <3>4
  <2>6. CASE ~ NoOptions(words, i) /\ words[i] = <<"-", "-">>
    <3>1. rest = Held(<< >>, 1)
      BY <2>1, <2>6, Zenon DEF OptionsValue
    <3>2. ~ (i > n)
      BY <1>1, <2>6 DEF NoOptions
    <3>3. r = NoOption(Place(i + 1, 0))
      BY <1>1, <1>5, <1>6, <2>6, <3>2, Zenon DEF Called
    <3>4. Place(i + 1, 0).index = i + 1
      BY DEF Place
    <3>5. Ends(r, i, rest)
      BY <2>2, <3>1, <3>3, <3>4, EndsAt
    <3> QED
      BY <1>2, <3>5
  <2>7. CASE ~ NoOptions(words, i) /\ words[i] # <<"-", "-">>
    <3>1. rest = ThenOptions(f, optstring, words, i)
      BY <2>1, <2>7, Zenon DEF OptionsValue
    <3>2. i \in 1..Len(words)
      BY <1>1, <1>3, <2>7, NextWordIs
    <3>3. PICK c \in Nat : c = Len(words[i])
      <4>1. words[i] \in Seq(STRING)
        BY <3>2
      <4> QED
        BY <4>1
    <3>4. c >= 2
      BY <2>7, <3>3 DEF NoOptions
    <3>5. PICK h : IsHeld(h, optstring, words, i) /\ OptionsIn(optstring, words, i) = h[2]
      BY <3>2, <3>3, <3>4, OptionsInIs
    <3>6. rest = JoinedHeld(h[1 + 1], f[i + h[1 + 1].words])
      <4>1. 1 + 1 = 2
        OBVIOUS
      <4> QED
        BY <3>1, <3>5, <4>1 DEF ThenOptions
    <3>7. r = TakeOption(LettersIn(optstring), IsSilent(optstring), words, i, 1)
      <4>1. ~ (0 >= Len(words[i]))
        BY <3>3, <3>4
      <4> QED
        BY <1>1, <1>5, <1>6, <2>7, <4>1, Zenon DEF Called, TakenAt
    <3>8. 1 \in 1..(Len(words[i]) - 1)
      BY <3>3, <3>4
    <3>9. Sees(r, i, rest, f, optstring, words)
      BY <3>2, <3>5, <3>6, <3>7, <3>8, TakenIsSeen
    <3> QED
      BY <1>2, <3>9
  <2> QED
    BY <2>4, <2>5, <2>6, <2>7
<1>7. CASE /\ i \in 1..n /\ o \in 1..(Len(words[i]) - 1)
           /\ \E h : IsHeld(h, optstring, words, i)
                     /\ rest = JoinedHeld(h[o + 1], f[i + h[o + 1].words])
  <2>1. PICK h : IsHeld(h, optstring, words, i)
                 /\ rest = JoinedHeld(h[o + 1], f[i + h[o + 1].words])
    BY <1>7
  <2>2. ~ (i > n) /\ o # 0 /\ ~ (o >= Len(words[i]))
    <3>1. words[i] \in Seq(STRING)
      BY <1>1, <1>7
    <3>2. PICK c \in Nat : c = Len(words[i])
      BY <3>1
    <3> QED
      BY <1>7, <3>2
  <2>3. r = TakeOption(LettersIn(optstring), IsSilent(optstring), words, i, o)
    BY <1>1, <1>5, <2>2, Zenon DEF Called, TakenAt
  <2>4. Sees(r, i, rest, f, optstring, words)
    BY <1>1, <1>7, <2>1, <2>3, TakenIsSeen
  <2> QED
    BY <1>2, <2>4
<1> QED
  BY <1>3, <1>6, <1>7

\* A place is a record of these three.
IsPlace(p) == p = [index |-> p.index, offset |-> p.offset, optind |-> p.optind]

\* An outcome has the place it is given,
LEMMA OutcomePlace ==
  ASSUME NEW status, NEW place, NEW letter, NEW optarg, IsPlace(place)
  PROVE  IsPlace(Outcome(status, place, letter, optarg).place)
  BY DEF Outcome

\* and each of these is one.
LEMMA PlaceIsPlace == \A i, o : IsPlace(Place(i, o))
  BY DEF Place, IsPlace

\* So is where the loop goes on,
LEMMA AdvancedIsPlace ==
  ASSUME NEW i, NEW o, NEW word, NEW used
  PROVE  IsPlace(AdvanceGetopts(i, o, word, used))
<1>1. CASE o >= Len(word)
  BY <1>1, PlaceIsPlace, Zenon DEF AdvanceGetopts
<1>2. CASE ~ (o >= Len(word))
  BY <1>2, PlaceIsPlace, Zenon DEF AdvanceGetopts
<1> QED
  BY <1>1, <1>2

\* what a letter leaves,
LEMMA TakenIsPlace ==
  ASSUME NEW options, NEW silent, NEW words, NEW i, NEW o
  PROVE  IsPlace(TakeOption(options, silent, words, i, o).place)
<1>1. PICK r : r = TakeOption(options, silent, words, i, o)
  OBVIOUS
<1>2. PICK word, next : word = words[i] /\ next = AdvanceGetopts(i, o + 1, word, 0)
  OBVIOUS
<1>3. PICK p, q : p = AdvanceGetopts(i, Len(word), word, 0) /\ q = AdvanceGetopts(i, o + 1, word, 1)
  OBVIOUS
<1>4. IsPlace(next) /\ IsPlace(p) /\ IsPlace(q)
  BY <1>2, <1>3, AdvancedIsPlace, Zenon
<1>5. \E a, b : r = Outcome(0, next, a, b) \/ r = Outcome(0, p, a, b) \/ r = Outcome(0, q, a, b)
  BY <1>1, <1>2, <1>3, Zenon DEF TakeOption
<1> QED
  BY <1>1, <1>4, <1>5, OutcomePlace, Zenon

\* and what any call leaves.
LEMMA BuiltinPlace ==
  ASSUME NEW place, NEW optstring, NEW words
  PROVE  IsPlace(BuiltinGetopts(place, optstring, words).place)
<1>1. PICK r : r = BuiltinGetopts(place, optstring, words)
  OBVIOUS
<1>2. \E i, o, s, t, l, m :
        \/ r = NoOption([[index |-> i, offset |-> o, optind |-> s] EXCEPT !.optind = i])
        \/ r = NoOption(Place(i + 1, 0)) \/ r = NoOption([index |-> i, offset |-> o, optind |-> s])
        \/ r = Panics([index |-> i, offset |-> o, optind |-> s])
        \/ r = TakeOption(l, m, words, i, t)
  BY <1>1, Zenon DEF BuiltinGetopts
<1>3. \A i, o, s : /\ IsPlace([index |-> i, offset |-> o, optind |-> s])
                   /\ IsPlace([[index |-> i, offset |-> o, optind |-> s] EXCEPT !.optind = i])
  BY DEF IsPlace
<1>4. \A p : IsPlace(p) => IsPlace(NoOption(p).place) /\ IsPlace(Panics(p).place)
  BY OutcomePlace, Zenon DEF NoOption, Panics
<1> QED
  BY <1>1, <1>2, <1>3, <1>4, PlaceIsPlace, TakenIsPlace, Zenon

\* Setting OPTIND to 1 anywhere but in the first word is a new beginning.
LEMMA StartsAgain ==
  ASSUME NEW place, IsPlace(place), place.index > 1, NEW optstring, NEW words
  PROVE  BuiltinGetopts([place EXCEPT !.optind = 1], optstring, words)
           = BuiltinGetopts(AtStart, optstring, words)
<1>1. PICK i, o, s : place = [index |-> i, offset |-> o, optind |-> s] /\ i > 1
  BY DEF IsPlace
<1>2. PICK p : p = [place EXCEPT !.optind = 1]
  OBVIOUS
<1>3. p.index = i /\ p.optind = 1
  BY <1>1, <1>2
<1>4. AtStart.index = 1 /\ AtStart.offset = 0 /\ AtStart.optind = 1
  BY DEF AtStart
<1>5. 1 > 0 /\ 1 # i
  <2>1. ~ (1 > 1)
    OBVIOUS
  <2> QED
    BY <1>1, <2>1
<1> DEFINE Moved(q) == q.optind > 0 /\ q.optind # q.index
           Index(q) == IF Moved(q) THEN q.optind ELSE q.index
           Offset(q) == IF Moved(q) THEN 0 ELSE q.offset
<1>6. Index(p) = 1 /\ Offset(p) = 0 /\ Index(AtStart) = 1 /\ Offset(AtStart) = 0
  BY <1>3, <1>4, <1>5
<1>7. \A q : Index(q) = 1 /\ Offset(q) = 0 /\ q.optind = 1 =>
               BuiltinGetopts(q, optstring, words) =
                 LET here == [index |-> 1, offset |-> 0, optind |-> 1]
                     word == words[1]
                 IN IF 1 > Len(words) THEN NoOption([here EXCEPT !.optind = 1])
                    ELSE IF 0 = 0 /\ word = <<"-", "-">> THEN NoOption(Place(1 + 1, 0))
                    ELSE IF 0 = 0 /\ (Len(word) < 2 \/ word[1] # "-") THEN NoOption(here)
                    ELSE IF 0 >= Len(word) THEN Panics(here)
                    ELSE TakeOption(LettersIn(optstring), IsSilent(optstring), words, 1,
                                    IF 0 = 0 THEN 1 ELSE 0)
  BY Zenon DEF BuiltinGetopts, LettersIn, IsSilent
<1> QED
  BY <1>2, <1>3, <1>4, <1>6, <1>7, Zenon

\* The calls of a loop,
CallsValue(f, place, optstring, words, k) ==
  IF k = 0 THEN BuiltinGetopts(place, optstring, words)
  ELSE BuiltinGetopts(f[k - 1].place, optstring, words)
IsCalls(f, place, optstring, words, n) ==
  f = [k \in 0..n |-> IF k = 0 THEN BuiltinGetopts(place, optstring, words)
                      ELSE BuiltinGetopts(f[k - 1].place, optstring, words)]

\* are a function of how many there were before.
LEMMA CallsExist ==
  ASSUME NEW place, NEW optstring, NEW words, NEW n \in Nat
  PROVE  \E f : IsCalls(f, place, optstring, words, n)
<1> DEFINE Right(f, m) == f = [k \in 0..m |-> CallsValue(f, place, optstring, words, k)]
           X == {m \in 0..n : \E f : Right(f, m)}
<1>1. 0 \in X
  <2>1. PICK b : b = BuiltinGetopts(place, optstring, words)
    OBVIOUS
  <2>2. PICK f : f = [k \in 0..0 |-> b]
    OBVIOUS
  <2>3. ASSUME NEW k \in 0..0 PROVE CallsValue(f, place, optstring, words, k) = b
    BY <2>1 DEF CallsValue
  <2>4. Right(f, 0)
    BY <2>2, <2>3
  <2>5. 0 \in 0..n
    OBVIOUS
  <2> QED
    BY <2>4, <2>5
<1>2. ASSUME NEW m \in 1..n, m - 1 \in X PROVE m \in X
  <2>1. PICK g : Right(g, m - 1)
    BY <1>2
  <2>2. PICK v : v = CallsValue(g, place, optstring, words, m)
    OBVIOUS
  <2>3. PICK h : h = [k \in 0..m |-> IF k = m THEN v ELSE g[k]]
    OBVIOUS
  <2>4. h[m] = v /\ \A k \in 0..(m - 1) : h[k] = g[k]
    <3>1. m \in 0..m /\ \A k \in 0..(m - 1) : k \in 0..m /\ k # m
      OBVIOUS
    <3> QED
      BY <2>3, <3>1
  <2>5. ASSUME NEW k \in 0..m
        PROVE  CallsValue(g, place, optstring, words, k) = CallsValue(h, place, optstring, words, k)
    <3>1. CASE k = 0
      BY <3>1 DEF CallsValue
    <3>2. CASE k # 0
      <4>1. k - 1 \in 0..(m - 1)
        BY <3>2
      <4>2. h[k - 1] = g[k - 1]
        BY <2>4, <4>1
      <4> QED
        BY <3>2, <4>2, Zenon DEF CallsValue
    <3> QED
      BY <3>1, <3>2
  <2>6. ASSUME NEW k \in 0..m PROVE h[k] = CallsValue(h, place, optstring, words, k)
    <3>1. CASE k = m
      BY <2>2, <2>4, <2>5, <3>1
    <3>2. CASE k # m
      <4>1. k \in 0..(m - 1)
        BY <3>2
      <4>2. g[k] = CallsValue(g, place, optstring, words, k)
        BY <2>1, <4>1
      <4> QED
        BY <2>4, <2>5, <4>1, <4>2
    <3> QED
      BY <3>1, <3>2
  <2>7. h = [k \in 0..m |-> h[k]]
    BY <2>3
  <2>8. Right(h, m)
    BY <2>6, <2>7
  <2>9. m \in 0..n
    OBVIOUS
  <2> QED
    BY <2>8, <2>9
<1>3. n \in X
  <2>1. n \in 0..n
    OBVIOUS
  <2> HIDE DEF X
  <2> QED
    BY <1>1, <1>2, <2>1, UpInduct
<1>4. PICK f : Right(f, n)
  BY <1>3
<1>5. IsCalls(f, place, optstring, words, n)
  BY <1>4, Zenon DEF IsCalls, CallsValue
<1> QED
  BY <1>5

\* What is left is a list of options.
LEMMA RestIs ==
  ASSUME NEW optstring \in Seq(STRING), NEW words \in Seq(Seq(STRING)), NEW f,
         OptionsTyped(f, words), NEW place, NEW rest, RestAt(place, rest, f, optstring, words)
  PROVE  place.index \in Nat /\ rest.list \in Seq(Opts) /\ rest.words \in Nat
<1>1. PICK n \in Nat : n = Len(words)
  OBVIOUS
<1>2. PICK i, o : i = place.index /\ o = place.offset
  OBVIOUS
<1>3. /\ i \in 1..(n + 1)
      /\ \/ rest = f[i]
         \/ /\ i \in 1..n /\ o \in 1..(Len(words[i]) - 1)
            /\ \E h : IsHeld(h, optstring, words, i)
                      /\ rest = JoinedHeld(h[o + 1], f[i + h[o + 1].words])
  BY <1>1, <1>2, Zenon DEF RestAt
<1>4. CASE rest = f[i]
  BY <1>1, <1>2, <1>3, <1>4 DEF OptionsTyped
<1>5. CASE /\ i \in 1..n /\ o \in 1..(Len(words[i]) - 1)
           /\ \E h : IsHeld(h, optstring, words, i)
                     /\ rest = JoinedHeld(h[o + 1], f[i + h[o + 1].words])
  <2>1. PICK h : IsHeld(h, optstring, words, i)
                 /\ rest = JoinedHeld(h[o + 1], f[i + h[o + 1].words])
    BY <1>5
  <2>2. PICK c \in Nat : c = Len(words[i])
    <3>1. words[i] \in Seq(STRING)
      BY <1>1, <1>5
    <3> QED
      BY <3>1
  <2>3. o + 1 \in 2..(c + 1) /\ c > 0
    BY <1>5, <2>2
  <2>4. HeldIs(h[o + 1], words, i, o + 1)
    BY <1>1, <1>5, <2>1, <2>2, <2>3, HeldAre
  <2>5. PICK here, j : here = h[o + 1] /\ j = i + here.words
    OBVIOUS
  <2>6. here.list \in Seq(Opts) /\ here.words \in {1, 2} /\ (here.words = 2 => i < n)
    BY <1>1, <2>4, <2>5 DEF HeldIs
  <2>7. j \in 1..(n + 1)
    <3>1. PICK v : v = here.words
      OBVIOUS
    <3>2. i \in 1..n /\ v \in {1, 2} /\ (v = 2 => i < n)
      BY <1>5, <2>6, <3>1
    <3>3. i + v \in 1..(n + 1)
      BY <3>2, AfterTwo
    <3> QED
      BY <2>5, <3>1, <3>3
  <2>8. f[j].list \in Seq(Opts) /\ f[j].words \in Nat
    BY <1>1, <2>7 DEF OptionsTyped
  <2>9. PICK l, w : l = here.list \o f[j].list /\ w = here.words + f[j].words
    OBVIOUS
  <2>10. l \in Seq(Opts) /\ w \in Nat
    <3>1. PICK s \in Seq(Opts), t \in Seq(Opts) : s = here.list /\ t = f[j].list
      BY <2>6, <2>8
    <3>2. s \o t \in Seq(Opts)
      BY ConcatProperties
    <3> QED
      BY <2>6, <2>8, <2>9, <3>1, <3>2
  <2>11. rest = Held(l, w)
    BY <2>1, <2>5, <2>9, Zenon DEF JoinedHeld
  <2>12. rest.list = l /\ rest.words = w
    BY <2>11 DEF Held
  <2> QED
    BY <1>2, <1>3, <2>10, <2>12
<1> QED
  BY <1>3, <1>4, <1>5

\* The call after k others: it is at what is left of the options m.
AtCall(r, k, m, f, optstring, words) ==
  \E place, rest :
    /\ RestAt(place, rest, f, optstring, words)
    /\ r = BuiltinGetopts(place, optstring, words)
    /\ Len(rest.list) = Len(m.list) - k
    /\ \A j \in 1..(Len(m.list) - k) : rest.list[j] = m.list[k + j]
    /\ place.index + rest.words = 1 + m.words

\* It sees the next option, if there is one.
SeesNext(r, k, m) ==
  /\ k < Len(m.list) => r.status = 0 /\ Option(r.letter, r.optarg) = m.list[k + 1]
  /\ k = Len(m.list) => r.status = 1 /\ r.place.index = 1 + m.words

\* and the call after it is at what is left then.
LEMMA CallSeesNext ==
  ASSUME NEW optstring \in Seq(STRING), NEW words \in Seq(Seq(STRING)), NEW f,
         OptionsTyped(f, words),
         \A i \in 1..(Len(words) + 1) : f[i] = OptionsValue(f, optstring, words, i),
         NEW m, m.list \in Seq(Opts), NEW k \in 0..Len(m.list),
         NEW r, AtCall(r, k, m, f, optstring, words)
  PROVE  /\ SeesNext(r, k, m)
         /\ k < Len(m.list) =>
              AtCall(BuiltinGetopts(r.place, optstring, words), k + 1, m, f, optstring, words)
<1>1. PICK place, rest : /\ RestAt(place, rest, f, optstring, words)
                         /\ r = BuiltinGetopts(place, optstring, words)
                         /\ Len(rest.list) = Len(m.list) - k
                         /\ \A j \in 1..(Len(m.list) - k) : rest.list[j] = m.list[k + j]
                         /\ place.index + rest.words = 1 + m.words
  BY DEF AtCall
<1>2. PICK n \in Nat : n = Len(m.list)
  OBVIOUS
<1>3. Ends(r, place.index, rest) \/ Sees(r, place.index, rest, f, optstring, words)
  BY <1>1, CallIs
<1>4. rest.list \in Seq(Opts) /\ k \in Nat /\ k <= n
  BY <1>1, <1>2, RestIs
<1>5. CASE Ends(r, place.index, rest)
  <2>1. rest.list = << >> /\ r.status = 1 /\ r.place.index = place.index + rest.words
    BY <1>5 DEF Ends
  <2>2. n - k = 0
    BY <1>1, <1>2, <2>1, EmptySeq
  <2>3. ~ (k < n)
    BY <1>4, <2>2
  <2> QED
    BY <1>1, <1>2, <2>1, <2>3 DEF SeesNext
<1>6. CASE Sees(r, place.index, rest, f, optstring, words)
  <2>1. PICK next : /\ r.status = 0
                    /\ RestAt(r.place, next, f, optstring, words)
                    /\ rest.list = <<Option(r.letter, r.optarg)>> \o next.list
                    /\ place.index + rest.words = r.place.index + next.words
    BY <1>6 DEF Sees
  <2>2. PICK opt, others : opt = Option(r.letter, r.optarg) /\ others = next.list
    OBVIOUS
  <2>3. others \in Seq(Opts) /\ rest.list = <<opt>> \o others
    BY <2>1, <2>2, RestIs
  <2>4. opt \in Opts
    BY <1>4, <2>3, FirstOne
  <2>5. PICK l \in Nat : l = Len(others)
    BY <2>3
  <2>6. /\ Len(rest.list) = l + 1 /\ rest.list[1] = opt
        /\ \A j \in 1..l : rest.list[j + 1] = others[j]
    BY <2>3, <2>4, <2>5, ConsIs
  <2>7. l + 1 = n - k /\ k < n /\ ~ (k = n) /\ n - (k + 1) = l /\ 1 \in 1..(n - k)
    <3>1. l + 1 = n - k
      BY <1>1, <1>2, <2>6
    <3>2. k \in Nat /\ l >= 0
      BY <1>4
    <3> QED
      BY <3>1, <3>2
  <2>8. opt = m.list[k + 1]
    BY <1>1, <1>2, <2>6, <2>7
  <2>9. SeesNext(r, k, m)
    BY <1>2, <2>1, <2>2, <2>7, <2>8 DEF SeesNext
  <2>10. ASSUME NEW j \in 1..l PROVE others[j] = m.list[(k + 1) + j]
    <3>1. j + 1 \in 1..(n - k) /\ k + (j + 1) = (k + 1) + j
      BY <1>4, <2>7
    <3>2. rest.list[j + 1] = m.list[k + (j + 1)]
      BY <1>1, <1>2, <3>1
    <3> QED
      BY <2>6, <3>1, <3>2
  <2>11. PICK q : q = BuiltinGetopts(r.place, optstring, words)
    OBVIOUS
  <2>12. AtCall(q, k + 1, m, f, optstring, words)
    <3>1. Len(next.list) = Len(m.list) - (k + 1)
      BY <1>2, <2>2, <2>5, <2>7
    <3>2. \A j \in 1..(Len(m.list) - (k + 1)) : next.list[j] = m.list[(k + 1) + j]
      BY <1>2, <2>2, <2>7, <2>10
    <3>3. r.place.index + next.words = 1 + m.words
      BY <1>1, <2>1
    <3> QED
      BY <2>1, <2>11, <3>1, <3>2, <3>3, Zenon DEF AtCall
  <2> QED
    BY <2>9, <2>11, <2>12
<1> QED
  BY <1>3, <1>5, <1>6

\* Calls that begin at the start see all of them, and then that there are no more.
LEMMA CallsSeeAll ==
  ASSUME NEW optstring \in Seq(STRING), NEW words \in Seq(Seq(STRING)), NEW f,
         OptionsTyped(f, words),
         \A i \in 1..(Len(words) + 1) : f[i] = OptionsValue(f, optstring, words, i),
         NEW m, m = f[1], NEW most \in Nat, Len(m.list) <= most,
         NEW calls, IsCalls(calls, AtStart, optstring, words, most)
  PROVE  \A k \in 0..Len(m.list) : SeesNext(calls[k], k, m)
<1>1. PICK n \in Nat : n = Len(words)
  OBVIOUS
<1>2. 1 \in 1..(n + 1) /\ m.list \in Seq(Opts) /\ m.words \in Nat
  <2>1. 1 \in 1..(n + 1)
    OBVIOUS
  <2> QED
    BY <1>1, <2>1 DEF OptionsTyped
<1>3. PICK c \in Nat : c = Len(m.list) /\ c <= most
  <2>1. PICK list \in Seq(Opts) : list = m.list
    BY <1>2
  <2>2. Len(list) \in Nat
    OBVIOUS
  <2> QED
    BY <2>1, <2>2
<1>4. /\ calls[0] = BuiltinGetopts(AtStart, optstring, words)
      /\ \A k \in 1..c : calls[k] = BuiltinGetopts(calls[k - 1].place, optstring, words)
  <2>1. 0 \in 0..most
    OBVIOUS
  <2>2. \A k \in 1..c : k \in 0..most /\ k # 0
    BY <1>3
  <2> QED
    BY <2>1, <2>2, Zenon DEF IsCalls
<1> DEFINE X == {k \in 0..c : AtCall(calls[k], k, m, f, optstring, words)}
<1>5. 0 \in X
  <2>1. AtStart.index = 1 /\ AtStart.offset = 0 /\ AtStart.optind = 1
    BY DEF AtStart
  <2>2. RestAt(AtStart, m, f, optstring, words)
    BY <1>1, <1>2, <2>1, Zenon DEF RestAt
  <2>3. Len(m.list) = Len(m.list) - 0
    BY <1>3
  <2>4. \A j \in 1..(Len(m.list) - 0) : m.list[j] = m.list[0 + j]
    <3>1. \A j \in 1..(c - 0) : 0 + j = j
      OBVIOUS
    <3> QED
      BY <1>3, <3>1
  <2>5. AtCall(calls[0], 0, m, f, optstring, words)
    BY <1>4, <2>1, <2>2, <2>3, <2>4, Zenon DEF AtCall
  <2>6. 0 \in 0..c
    OBVIOUS
  <2> QED
    BY <2>5, <2>6
<1>6. ASSUME NEW k \in 1..c, k - 1 \in X PROVE k \in X
  <2>1. k - 1 \in 0..c /\ k - 1 < c /\ (k - 1) + 1 = k /\ k \in 0..c
    OBVIOUS
  <2>2. AtCall(calls[k - 1], k - 1, m, f, optstring, words)
    BY <1>6
  <2>3. AtCall(BuiltinGetopts(calls[k - 1].place, optstring, words), (k - 1) + 1, m, f, optstring, words)
    BY <1>2, <1>3, <2>1, <2>2, CallSeesNext
  <2>4. AtCall(calls[k], k, m, f, optstring, words)
    BY <1>4, <2>1, <2>3
  <2> QED
    BY <2>1, <2>4
<1>7. \A k \in 0..c : k \in X
  <2> HIDE DEF X
  <2> QED
    BY <1>5, <1>6, UpInduct
<1>8. ASSUME NEW k \in 0..c PROVE SeesNext(calls[k], k, m)
  <2>1. AtCall(calls[k], k, m, f, optstring, words)
    BY <1>7
  <2> QED
    BY <1>2, <1>3, <2>1, CallSeesNext
<1> QED
  BY <1>3, <1>8

\* What the loop sees depends on its place only by the first call.
AllFrom(first, optstring, words) ==
  LET most == Len(FlattenSeq(words))
      calls[k \in 0..most] ==
        IF k = 0 THEN first ELSE BuiltinGetopts(calls[k - 1].place, optstring, words)
      last == Min({k \in 0..most : calls[k].status # 0})
  IN [k \in 1..(last + 1) |-> calls[k - 1]]

\* This is that operator.
LEMMA AllOptionsFrom ==
  ASSUME NEW place, NEW optstring, NEW words
  PROVE  AllOptions(place, optstring, words)
           = AllFrom(BuiltinGetopts(place, optstring, words), optstring, words)
  BY Zenon DEF AllOptions, AllFrom

\* They end with the first that takes no option.
UpToTheEnd(calls, most) ==
  LET last == Min({k \in 0..most : calls[k].status # 0})
  IN [k \in 1..(last + 1) |-> calls[k - 1]]

\* They are what AllOptions yields.
LEMMA AllOptionsAre ==
  ASSUME NEW place, NEW optstring, NEW words
  PROVE  AllOptions(place, optstring, words)
           = UpToTheEnd(CHOOSE h : IsCalls(h, place, optstring, words, Len(FlattenSeq(words))),
                        Len(FlattenSeq(words)))
  BY Zenon DEF AllOptions, UpToTheEnd, IsCalls

\* The options of all words, and no more of them than the words have characters.
LEMMA OptionsOfIs ==
  ASSUME NEW optstring, NEW words \in Seq(Seq(STRING))
  PROVE  \E f : /\ OptionsOf(optstring, words) = f[1] /\ OptionsTyped(f, words)
                /\ \A i \in 1..(Len(words) + 1) : f[i] = OptionsValue(f, optstring, words, i)
                /\ f[1].list \in Seq(Opts) /\ f[1].words \in Nat
                /\ Len(FlattenSeq(words)) \in Nat
                /\ Len(f[1].list) <= Len(FlattenSeq(words))
<1>1. PICK f : f = CHOOSE h : IsOptions(h, optstring, words)
  OBVIOUS
<1>2. IsOptions(f, optstring, words)
  <2>1. \E h : IsOptions(h, optstring, words)
    BY OptionsExist
  <2> QED
    BY <1>1, <2>1, Zenon
<1>3. OptionsOf(optstring, words) = f[1]
  BY <1>1, Zenon DEF OptionsOf, IsOptions
<1>4. PICK g \in [0..Len(words) -> Seq(STRING)] : Sums(g, words) /\ FlattenSeq(words) = g[Len(words)]
  BY FlattenSums
<1>5. \A i \in 1..(Len(words) + 1) :
        /\ f[i] = OptionsValue(f, optstring, words, i)
        /\ OptionsAt(f[i], words, g, i)
  BY <1>2, <1>4, OptionsAre
<1>6. OptionsTyped(f, words)
  BY <1>5, Zenon DEF OptionsTyped, OptionsAt
<1>7. PICK n \in Nat : n = Len(words)
  OBVIOUS
<1>8. PICK most \in Nat : most = Len(FlattenSeq(words)) /\ most = Len(g[n])
  <2>1. n \in 0..Len(words) /\ g[n] \in Seq(STRING)
    BY <1>7
  <2>2. Len(g[n]) \in Nat
    BY <2>1
  <2> QED
    BY <1>4, <1>7, <2>2
<1>9. g[0] = << >> /\ Len(g[0]) = 0
  BY <1>4, EmptySeq DEF Sums
<1>10. OptionsAt(f[1], words, g, 1)
  <2>1. 1 \in 1..(Len(words) + 1)
    BY <1>7
  <2> QED
    BY <1>5, <2>1
<1>11. Len(f[1].list) <= most - 0
  <2>1. 1 - 1 = 0
    OBVIOUS
  <2> QED
    BY <1>7, <1>8, <1>9, <1>10, <2>1 DEF OptionsAt
<1>12. f[1].list \in Seq(Opts) /\ f[1].words \in Nat
  BY <1>10 DEF OptionsAt
<1>13. Len(f[1].list) \in Nat
  <2>1. PICK list \in Seq(Opts) : list = f[1].list
    BY <1>12
  <2>2. Len(list) \in Nat
    OBVIOUS
  <2> QED
    BY <2>1, <2>2
<1>14. Len(f[1].list) <= most
  BY <1>11, <1>13
<1>15. Len(FlattenSeq(words)) \in Nat /\ Len(f[1].list) <= Len(FlattenSeq(words))
  BY <1>8, <1>14
<1> QED
  BY <1>3, <1>5, <1>6, <1>12, <1>15, Zenon

\* The loop has one call for each option and one for the end.
LEMMA LoopSeesAll ==
  ASSUME NEW optstring \in Seq(STRING), NEW words \in Seq(Seq(STRING)),
         NEW m, m = OptionsOf(optstring, words)
  PROVE  /\ m.list \in Seq(Opts) /\ Len(m.list) \in Nat
         /\ \E calls :
              /\ AllOptions(AtStart, optstring, words) = [k \in 1..(Len(m.list) + 1) |-> calls[k - 1]]
              /\ \A k \in 0..Len(m.list) : SeesNext(calls[k], k, m) /\ IsPlace(calls[k].place)
<1>1. PICK most : most = Len(FlattenSeq(words))
  OBVIOUS
<1>2. PICK f : /\ m = f[1] /\ OptionsTyped(f, words)
               /\ \A i \in 1..(Len(words) + 1) : f[i] = OptionsValue(f, optstring, words, i)
               /\ m.list \in Seq(Opts) /\ most \in Nat /\ Len(m.list) <= most
  BY <1>1, OptionsOfIs
<1>3. PICK calls : calls = CHOOSE h : IsCalls(h, AtStart, optstring, words, most)
  OBVIOUS
<1>4. IsCalls(calls, AtStart, optstring, words, most)
  <2>1. \E h : IsCalls(h, AtStart, optstring, words, most)
    BY <1>2, CallsExist
  <2> QED
    BY <1>3, <2>1, Zenon
<1>5. PICK last : last = Min({k \in 0..most : calls[k].status # 0})
  OBVIOUS
<1>6. AllOptions(AtStart, optstring, words) = [k \in 1..(last + 1) |-> calls[k - 1]]
  <2>1. AllOptions(AtStart, optstring, words) = UpToTheEnd(calls, most)
    BY <1>1, <1>3, AllOptionsAre, Zenon
  <2> QED
    BY <1>5, <2>1, Zenon DEF UpToTheEnd
<1>7. PICK n \in Nat : n = Len(m.list) /\ n <= most
  <2>1. PICK list \in Seq(Opts) : list = m.list
    BY <1>2
  <2>2. Len(list) \in Nat
    OBVIOUS
  <2> QED
    BY <1>2, <2>1, <2>2
<1>8. ASSUME NEW k \in 0..n PROVE SeesNext(calls[k], k, m)
  BY <1>2, <1>4, <1>7, CallsSeeAll
<1>9. ASSUME NEW k \in 0..n PROVE IsPlace(calls[k].place)
  <2>1. k \in 0..most
    BY <1>2, <1>7
  <2>2. calls[k] = IF k = 0 THEN BuiltinGetopts(AtStart, optstring, words)
                   ELSE BuiltinGetopts(calls[k - 1].place, optstring, words)
    BY <1>4, <2>1, Zenon DEF IsCalls
  <2> QED
    BY <2>2, BuiltinPlace, Zenon
<1>10. last = n
  <2>1. PICK S : S = {k \in 0..most : calls[k].status # 0}
    OBVIOUS
  <2>2. n \in 0..most /\ n \in 0..n
    BY <1>2, <1>7
  <2>3. calls[n].status = 1
    BY <1>7, <1>8, <2>2 DEF SeesNext
  <2>4. n \in S
    BY <2>1, <2>2, <2>3
  <2>5. ASSUME NEW k \in S, k < n PROVE FALSE
    <3>1. k \in 0..n /\ calls[k].status # 0
      BY <2>1, <2>5
    <3>2. calls[k].status = 0
      BY <1>7, <1>8, <2>5, <3>1 DEF SeesNext
    <3> QED
      BY <3>1, <3>2
  <2>6. S \subseteq Nat /\ S # {}
    BY <2>1, <2>4
  <2>7. last \in S /\ last \in Nat /\ \A j \in S : last <= j
    BY <1>5, <2>1, <2>6, MinOf
  <2>8. last <= n /\ ~ (last < n)
    BY <2>4, <2>5, <2>7
  <2> QED
    BY <2>7, <2>8
<1> QED
  BY <1>2, <1>6, <1>7, <1>8, <1>9, <1>10

\* The claim of an input.
InOrder(optstring, words) ==
  LET calls == AllOptions(AtStart, optstring, words)
      meant == OptionsOf(optstring, words)
      Again(place) == AllOptions([place EXCEPT !.optind = 1], optstring, words)
  IN /\ [k \in 1..(Len(calls) - 1) |-> Option(calls[k].letter, calls[k].optarg)] = meant.list
     /\ calls[Len(calls)].status = 1
     /\ calls[Len(calls)].place.index = 1 + meant.words
     /\ \A k \in DOMAIN calls : calls[k].place.index > 1 => Again(calls[k].place) = calls

\* It holds.
LEMMA OptionsInOrder ==
  ASSUME NEW optstring \in Seq(STRING), NEW words \in Seq(Seq(STRING))
  PROVE  InOrder(optstring, words)
<1>1. PICK meant : meant = OptionsOf(optstring, words)
  OBVIOUS
<1>2. PICK seen :
        /\ AllOptions(AtStart, optstring, words) = [k \in 1..(Len(meant.list) + 1) |-> seen[k - 1]]
        /\ \A k \in 0..Len(meant.list) : SeesNext(seen[k], k, meant) /\ IsPlace(seen[k].place)
  BY <1>1, LoopSeesAll
<1>3. PICK list \in Seq(Opts), n \in Nat : list = meant.list /\ n = Len(list)
  BY <1>1, LoopSeesAll
<1>4. PICK calls : calls = AllOptions(AtStart, optstring, words)
  OBVIOUS
<1>5. calls = [k \in 1..(n + 1) |-> seen[k - 1]]
  BY <1>2, <1>3, <1>4
<1>6. Len(calls) = n + 1 /\ DOMAIN calls = 1..(n + 1) /\ Len(calls) - 1 = n
  BY <1>5
<1>7. ASSUME NEW k \in 1..(n + 1)
      PROVE  calls[k] = seen[k - 1] /\ SeesNext(calls[k], k - 1, meant) /\ IsPlace(calls[k].place)
  <2>1. k - 1 \in 0..n /\ calls[k] = seen[k - 1]
    BY <1>5
  <2> QED
    BY <1>2, <1>3, <2>1
<1>8. [k \in 1..(Len(calls) - 1) |-> Option(calls[k].letter, calls[k].optarg)] = list
  <2>1. ASSUME NEW k \in 1..n PROVE Option(calls[k].letter, calls[k].optarg) = list[k]
    <3>1. k \in 1..(n + 1) /\ k - 1 < n /\ (k - 1) + 1 = k
      OBVIOUS
    <3>2. SeesNext(calls[k], k - 1, meant)
      BY <1>7, <3>1
    <3> QED
      BY <1>3, <3>1, <3>2 DEF SeesNext
  <2>2. list = [k \in 1..n |-> list[k]]
    BY <1>3
  <2> QED
    BY <1>6, <2>1, <2>2
<1>9. calls[Len(calls)].status = 1 /\ calls[Len(calls)].place.index = 1 + meant.words
  <2>1. n + 1 \in 1..(n + 1) /\ (n + 1) - 1 = n
    OBVIOUS
  <2>2. SeesNext(calls[n + 1], n, meant)
    BY <1>7, <2>1
  <2> QED
    BY <1>3, <1>6, <2>2 DEF SeesNext
<1>10. ASSUME NEW k \in DOMAIN calls, calls[k].place.index > 1
       PROVE  AllOptions([calls[k].place EXCEPT !.optind = 1], optstring, words) = calls
  <2>1. PICK place : place = calls[k].place
    OBVIOUS
  <2>2. IsPlace(place) /\ place.index > 1
    BY <1>6, <1>7, <1>10, <2>1
  <2>3. BuiltinGetopts([place EXCEPT !.optind = 1], optstring, words)
          = BuiltinGetopts(AtStart, optstring, words)
    BY <2>2, StartsAgain
  <2> QED
    BY <1>4, <2>1, <2>3, AllOptionsFrom, Zenon
<1> QED
  BY <1>1, <1>3, <1>4, <1>8, <1>9, <1>10, Zenon DEF InOrder

OptionsInv ==
  subject.kind = "options" => subject.optstring \in Seq(STRING) /\ subject.words \in Seq(Seq(STRING))

\* Init chooses such words,
LEMMA OptionsInvHolds == OptionsInit => OptionsInv
<1>1. ASSUME NEW words \in BoundedSeq(OptionWords, MaxOptionWords)
      PROVE  words \in Seq(Seq(STRING))
  <2>1. MaxOptionWords \in Nat /\ OptionWords \subseteq Seq(STRING)
    BY OptionsAssumption
  <2>2. PICK k \in 0..MaxOptionWords : words \in [1..k -> OptionWords]
    BY DEF BoundedSeq, SeqOf
  <2>3. k \in Nat /\ words \in [1..k -> Seq(STRING)]
    BY <2>1, <2>2
  <2> QED
    BY <2>3
<1>2. ASSUME OptionsInit PROVE OptionsInv
  <2>1. PICK optstring \in OptStrings, words \in BoundedSeq(OptionWords, MaxOptionWords) :
          subject = [kind |-> "options", optstring |-> optstring, words |-> words]
    BY <1>2 DEF OptionsInit
  <2>2. optstring \in Seq(STRING)
    BY OptionsAssumption
  <2> QED
    BY <1>1, <2>1, <2>2 DEF OptionsInv
<1> QED
  BY <1>2

\* for which the claim holds.
LEMMA OptionsInvImplies == OptionsInv => OptionsComeInOrder
<1> SUFFICES ASSUME OptionsInv, subject.kind = "options"
             PROVE  InOrder(subject.optstring, subject.words)
  BY Zenon DEF OptionsComeInOrder, InOrder
<1>1. subject.optstring \in Seq(STRING) /\ subject.words \in Seq(Seq(STRING))
  BY DEF OptionsInv
<1> QED
  BY <1>1, OptionsInOrder

\* Theorem: for any string of options and any words, of any length and number, a
\* loop over getopts sees the options of the reference in their order with their
\* arguments, ends at the first word that is none, and sees them again after
\* OPTIND is set to 1 anywhere behind the first word.
THEOREM LoopSeesOptions == OptionsInit /\ [][Next]_subject => []OptionsComeInOrder
<1>1. OptionsInv /\ [Next]_subject => OptionsInv'
  BY DEF OptionsInv, Next
<1> QED
  BY <1>1, OptionsInvHolds, OptionsInvImplies, PTL
=============================================================================
