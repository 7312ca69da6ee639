------------------------- MODULE ControlFlowProofs --------------------------
(***************************************************************************)
(* The machine of ControlFlow, for any statuses, levels and depth.         *)
(*                                                                         *)
(* A step leaves the stack alone, puts a frame on it, replaces its top or  *)
(* takes the top away.  For errexit it matters what each frame will put    *)
(* back; for a jump, that taking away a frame which does not catch it      *)
(* leaves its target where it is, and taking away one that does leaves one *)
(* frame less to count.                                                    *)
(***************************************************************************)
EXTENDS ControlFlow, FiniteSetTheorems, WellFoundedInduction, SequenceTheorems, TLAPS

\* The part of TypeOK that is about the stack.
StackOK(s) ==
  /\ s \in Seq(Frame) /\ s # << >> /\ Len(s) <= MaxDepth
  /\ \A i \in 1..Len(s) : s[i].kind = "program" <=> i = 1
  /\ \A i \in 2..Len(s) : s[i].kind = "andOr" => s[i - 1].kind \in Lists

-----------------------------------------------------------------------------
\* The four things a step does to the stack.
LEMMA TopIsFrame ==
  ASSUME NEW s, StackOK(s)
  PROVE  /\ s \in Seq(Frame) /\ Len(s) \in Nat \ {0} /\ Len(s) <= MaxDepth
         /\ \A i \in 1..Len(s) : s[i] \in Frame /\ s[i].kind \in FrameKind
         /\ s[Len(s)] \in Frame
<1>1. s \in Seq(Frame) /\ s # << >> /\ Len(s) <= MaxDepth
  BY DEF StackOK
<1>2. Len(s) \in Nat \ {0} /\ \A i \in 1..Len(s) : s[i] \in Frame
  BY <1>1
<1>3. \A f \in Frame : f.kind \in FrameKind
  BY DEF Frame
<1> QED
  BY <1>1, <1>2, <1>3

LEMMA Pushed ==
  ASSUME NEW s, StackOK(s), NEW f \in Frame, Len(s) < MaxDepth, f.kind # "program",
         f.kind = "andOr" => s[Len(s)].kind \in Lists
  PROVE  /\ StackOK(Append(s, f)) /\ Len(Append(s, f)) = Len(s) + 1
         /\ \A i \in 1..Len(s) : Append(s, f)[i] = s[i]
         /\ Append(s, f)[Len(s) + 1] = f
<1> DEFINE n == Len(s)
           t == Append(s, f)
<1>1. n \in Nat \ {0} /\ s \in Seq(Frame)
  BY TopIsFrame
<1>2. /\ t \in Seq(Frame) /\ Len(t) = n + 1 /\ t[n + 1] = f
      /\ \A i \in 1..n : t[i] = s[i]
  BY <1>1, AppendProperties
<1>3. MaxDepth \in Nat
  BY BoundsAssumption
<1> HIDE DEF t
<1>4. \A i \in 1..(n + 1) : t[i].kind = "program" <=> i = 1
  BY <1>1, <1>2 DEF StackOK
<1>5. \A i \in 2..(n + 1) : t[i].kind = "andOr" => t[i - 1].kind \in Lists
  BY <1>1, <1>2 DEF StackOK
<1>6. t # << >> /\ Len(t) <= MaxDepth
  BY <1>1, <1>2, <1>3
<1>7. StackOK(t)
  BY <1>2, <1>4, <1>5, <1>6 DEF StackOK
<1> QED
  BY <1>2, <1>7 DEF t

LEMMA Popped ==
  ASSUME NEW s, StackOK(s), s[Len(s)].kind # "program"
  PROVE  /\ StackOK(Front(s)) /\ Len(s) > 1 /\ Len(Front(s)) = Len(s) - 1
         /\ \A i \in 1..(Len(s) - 1) : Front(s)[i] = s[i]
<1> DEFINE n == Len(s)
           t == Front(s)
<1>1. n \in Nat \ {0} /\ s \in Seq(Frame) /\ \A i \in 1..n : s[i] \in Frame
  BY TopIsFrame
<1>2. n > 1
  BY <1>1 DEF StackOK
<1> DEFINE m == n - 1
<1>3. m \in Nat \ {0} /\ m <= n /\ t = SubSeq(s, 1, m)
  BY <1>1, <1>2 DEF Front
<1>4. t \in Seq(Frame) /\ Len(t) = m /\ \A i \in 1..m : t[i] = s[i]
  <2> HIDE DEF m, t
  <2>1. \A i \in 1..m : s[i] \in Frame
    BY <1>1, <1>3
  <2>2. /\ SubSeq(s, 1, m) \in Seq(Frame)
        /\ Len(SubSeq(s, 1, m)) = IF 1 <= m THEN m - 1 + 1 ELSE 0
        /\ \A i \in 1..(m - 1 + 1) : SubSeq(s, 1, m)[i] = s[1 + i - 1]
    BY <1>3, <2>1, SubSeqProperties
  <2> QED
    BY <1>3, <2>2
<1>5. m <= MaxDepth
  BY <1>1, BoundsAssumption DEF StackOK
<1> HIDE DEF t
<1>6. \A i \in 1..m : t[i].kind = "program" <=> i = 1
  BY <1>1, <1>4 DEF StackOK
<1>7. \A i \in 2..m : t[i].kind = "andOr" => t[i - 1].kind \in Lists
  BY <1>1, <1>4 DEF StackOK
<1>8. StackOK(t)
  BY <1>3, <1>4, <1>5, <1>6, <1>7 DEF StackOK
<1> QED
  BY <1>2, <1>4, <1>8 DEF t

LEMMA Replaced ==
  ASSUME NEW s, StackOK(s), s[Len(s)].kind # "program",
         NEW f \in Frame, f.kind \notin {"program", "andOr"}
  PROVE  /\ StackOK([s EXCEPT ![Len(s)] = f]) /\ Len([s EXCEPT ![Len(s)] = f]) = Len(s)
         /\ \A i \in 1..(Len(s) - 1) : [s EXCEPT ![Len(s)] = f][i] = s[i]
         /\ [s EXCEPT ![Len(s)] = f][Len(s)] = f
<1> DEFINE n == Len(s)
           t == [s EXCEPT ![n] = f]
<1>1. n \in Nat \ {0} /\ s \in Seq(Frame) /\ n <= MaxDepth
  BY TopIsFrame
<1>2. /\ t \in Seq(Frame) /\ Len(t) = n /\ t[n] = f
      /\ \A i \in 1..(n - 1) : t[i] = s[i]
  BY <1>1, ExceptSeq
<1> HIDE DEF t
<1>3. \A i \in 1..n : t[i].kind = "program" <=> i = 1
  BY <1>1, <1>2 DEF StackOK
<1>4. \A i \in 2..n : t[i].kind = "andOr" => t[i - 1].kind \in Lists
  BY <1>1, <1>2 DEF StackOK
<1>5. StackOK(t)
  BY <1>1, <1>2, <1>3, <1>4 DEF StackOK
<1> QED
  BY <1>2, <1>5 DEF t

-----------------------------------------------------------------------------
\* Where a jump arrives, as a function of the stack.
Catchers(k) == IF k = "return" THEN {"function"} ELSE IF k = "exit" THEN {} ELSE Loops
Floors == {"program", "substitution"}

FloorIn(s) ==
  CHOOSE i \in 1..Len(s) :
    /\ s[i].kind \in {"program", "substitution"}
    /\ \A j \in (i + 1)..Len(s) : s[j].kind # "substitution"
CatchingIn(s, k) == {i \in (FloorIn(s) + 1)..Len(s) : s[i].kind \in Catchers(k)}
From(S, i) == {j \in S : j >= i}
NthIn(S, n) == {i \in S : Cardinality({j \in S : j >= i}) = n}
TargetIn(s, k, n) ==
  IF NthIn(CatchingIn(s, k), n) = {} THEN FloorIn(s)
  ELSE CHOOSE i \in NthIn(CatchingIn(s, k), n) : TRUE

LEMMA TargetOfStack ==
  ASSUME NEW k, NEW n
  PROVE  Target(k, n) = TargetIn(stack, k, n)
<1>1. Floor = FloorIn(stack)
  BY DEF Floor, FloorIn
<1>2. Catching(k) = CatchingIn(stack, k)
  BY <1>1 DEF Catching, CatchingIn, Catchers
<1> QED
  BY <1>1, <1>2 DEF Target, TargetIn, NthIn

LEMMA LastOf ==
  ASSUME NEW n \in Nat, NEW S, S \subseteq 1..n, S # {}
  PROVE  \E i \in S : \A j \in S : j <= i
<1> DEFINE T == {i..n : i \in S}
<1>1. IsFiniteSet(1..n)
  BY FS_Interval
<1>2. T \subseteq FiniteSubsetsOf(1..n)
  <2> SUFFICES ASSUME NEW i \in S PROVE i..n \in FiniteSubsetsOf(1..n)
    OBVIOUS
  <2>1. i..n \in SUBSET (1..n)
    OBVIOUS
  <2> QED
    BY <1>1, <2>1, FS_Subset DEF FiniteSubsetsOf
<1>3. T # {}
  OBVIOUS
<1>4. PICK t \in T : \A u \in T : ~ (<<u, t>> \in StrictSubsetOrdering(1..n))
  <2> HIDE DEF T
  <2> QED
    BY <1>2, <1>3, FS_StrictSubsetOrderingWellFounded, WFMin
<1>5. PICK i \in S : t = i..n
  BY <1>4
<1>6. \A j \in S : j <= i
  <2> SUFFICES ASSUME NEW j \in S, j > i PROVE FALSE
    OBVIOUS
  <2>1. j..n \subseteq i..n /\ i \in i..n /\ i \notin j..n /\ i..n \subseteq 1..n
    OBVIOUS
  <2>2. <<j..n, i..n>> \in StrictSubsetOrdering(1..n)
    BY <2>1 DEF StrictSubsetOrdering
  <2> QED
    BY <1>4, <1>5, <2>2
<1> QED
  BY <1>6

LEMMA FloorExists ==
  ASSUME NEW s, StackOK(s)
  PROVE  /\ FloorIn(s) \in 1..Len(s) /\ s[FloorIn(s)].kind \in Floors
         /\ \A j \in (FloorIn(s) + 1)..Len(s) : s[j].kind # "substitution"
<1> DEFINE S == {i \in 1..Len(s) : s[i].kind \in Floors}
<1>1. Len(s) \in Nat \ {0}
  BY TopIsFrame
<1>2. S \subseteq 1..Len(s) /\ 1 \in S
  BY <1>1 DEF StackOK, Floors
<1>3. PICK i \in S : \A j \in S : j <= i
  <2> HIDE DEF S
  <2> QED
    BY <1>1, <1>2, LastOf
<1>4. /\ i \in 1..Len(s) /\ s[i].kind \in {"program", "substitution"}
      /\ \A j \in (i + 1)..Len(s) : s[j].kind # "substitution"
  <2>1. ASSUME NEW j \in (i + 1)..Len(s), s[j].kind = "substitution" PROVE FALSE
    <3>1. j \in S /\ j > i
      BY <1>1, <2>1 DEF Floors
    <3> QED
      BY <1>1, <1>3, <3>1
  <2> QED
    BY <2>1 DEF Floors
<1> QED
  BY <1>4 DEF FloorIn, Floors

LEMMA FloorUnique ==
  ASSUME NEW s, StackOK(s), NEW i \in 1..Len(s), s[i].kind \in Floors,
         \A j \in (i + 1)..Len(s) : s[j].kind # "substitution"
  PROVE  FloorIn(s) = i
<1> DEFINE f == FloorIn(s)
<1>1. /\ f \in 1..Len(s) /\ s[f].kind \in Floors
      /\ \A j \in (f + 1)..Len(s) : s[j].kind # "substitution"
  BY FloorExists
<1> HIDE DEF f
<1>2. Len(s) \in Nat /\ \A j \in 1..Len(s) : s[j].kind = "program" => j = 1
  BY TopIsFrame DEF StackOK
<1>3. ASSUME i < f PROVE FALSE
  BY <1>1, <1>2, <1>3 DEF Floors
<1>4. ASSUME f < i PROVE FALSE
  BY <1>1, <1>2, <1>4 DEF Floors
<1>5. f = i
  BY <1>1, <1>2, <1>3, <1>4
<1> QED
  BY <1>5 DEF f

\* A $( ), or the program, takes every jump that comes to it.
LEMMA FloorTakesAll ==
  ASSUME NEW s, StackOK(s), s[Len(s)].kind \in Floors, NEW k, NEW n
  PROVE  TargetIn(s, k, n) = Len(s)
<1>1. Len(s) \in Nat \ {0}
  BY TopIsFrame
<1>2. FloorIn(s) = Len(s)
  BY <1>1, FloorUnique
<1>3. CatchingIn(s, k) = {}
  BY <1>1, <1>2 DEF CatchingIn
<1> QED
  BY <1>2, <1>3 DEF TargetIn, NthIn

LEMMA ExitHasNoCatcher ==
  ASSUME NEW s, NEW n
  PROVE  TargetIn(s, "exit", n) = FloorIn(s)
  BY DEF TargetIn, NthIn, CatchingIn, Catchers

LEMMA PopKeepsFloor ==
  ASSUME NEW s, StackOK(s), s[Len(s)].kind \notin Floors
  PROVE  FloorIn(Front(s)) = FloorIn(s) /\ FloorIn(s) < Len(s)
<1> DEFINE f == FloorIn(s)
           t == Front(s)
<1>1. /\ f \in 1..Len(s) /\ s[f].kind \in Floors
      /\ \A j \in (f + 1)..Len(s) : s[j].kind # "substitution"
  BY FloorExists
<1>2. /\ StackOK(t) /\ Len(s) > 1 /\ Len(t) = Len(s) - 1
      /\ \A i \in 1..(Len(s) - 1) : t[i] = s[i]
  BY Popped DEF Floors
<1>3. Len(s) \in Nat
  BY TopIsFrame
<1> HIDE DEF f, t
<1>4. f \in 1..(Len(s) - 1)
  BY <1>1, <1>3
<1>5. /\ f \in 1..Len(t) /\ t[f].kind \in Floors
      /\ \A j \in (f + 1)..Len(t) : t[j].kind # "substitution"
  BY <1>1, <1>2, <1>3, <1>4
<1>6. FloorIn(t) = f
  BY <1>2, <1>5, FloorUnique
<1> QED
  BY <1>3, <1>4, <1>6 DEF f, t

LEMMA PopCatching ==
  ASSUME NEW s, StackOK(s), s[Len(s)].kind \notin Floors, NEW k
  PROVE  /\ CatchingIn(Front(s), k) = CatchingIn(s, k) \ {Len(s)}
         /\ Len(s) \in CatchingIn(s, k) <=> s[Len(s)].kind \in Catchers(k)
<1> DEFINE f == FloorIn(s)
           t == Front(s)
<1>1. FloorIn(t) = f /\ f < Len(s) /\ f \in 1..Len(s)
  BY PopKeepsFloor, FloorExists
<1>2. Len(t) = Len(s) - 1 /\ \A i \in 1..(Len(s) - 1) : t[i] = s[i]
  BY Popped DEF Floors
<1>3. Len(s) \in Nat
  BY TopIsFrame
<1> HIDE DEF t, f
<1>4. CatchingIn(t, k) = {i \in (f + 1)..(Len(s) - 1) : s[i].kind \in Catchers(k)}
  BY <1>1, <1>2, <1>3 DEF CatchingIn
<1>5. CatchingIn(s, k) = {i \in (f + 1)..Len(s) : s[i].kind \in Catchers(k)}
  BY DEF CatchingIn, f
<1> QED
  BY <1>1, <1>3, <1>4, <1>5 DEF t

\* A frame that does not catch a jump ends: the jump's target is the same.
LEMMA PopPassesOn ==
  ASSUME NEW s, StackOK(s), NEW k, s[Len(s)].kind \notin Floors \cup Catchers(k), NEW n
  PROVE  TargetIn(Front(s), k, n) = TargetIn(s, k, n)
<1>1. CatchingIn(Front(s), k) = CatchingIn(s, k)
  BY PopCatching
<1>2. FloorIn(Front(s)) = FloorIn(s)
  BY PopKeepsFloor
<1> QED
  BY <1>1, <1>2 DEF TargetIn

\* One that does ends.
LEMMA TopCatches ==
  ASSUME NEW s, StackOK(s), NEW k, s[Len(s)].kind \in Catchers(k) \ Floors, NEW n \in Nat \ {0}
  PROVE  /\ n = 1 => TargetIn(s, k, n) = Len(s)
         /\ n > 1 => TargetIn(s, k, n) = TargetIn(Front(s), k, n - 1)
<1> DEFINE m == Len(s)
           S == CatchingIn(s, k)
           U == CatchingIn(Front(s), k)
<1>1. m \in Nat \ {0} /\ FloorIn(Front(s)) = FloorIn(s)
  BY TopIsFrame, PopKeepsFloor
<1>2. U = S \ {m} /\ m \in S
  BY PopCatching
<1>3. S \subseteq 1..m
  BY <1>1, FloorExists DEF CatchingIn
<1> HIDE DEF m, S, U
<1>4. From(S, m) = {m} /\ Cardinality(From(S, m)) = 1
  <2>1. From(S, m) = {m}
    <3>1. \A j \in S : j >= m <=> j = m
      BY <1>1, <1>3
    <3>2. \A j : j \in From(S, m) <=> j = m
      BY <1>2, <3>1 DEF From
    <3> QED
      BY <3>2
  <2> QED
    BY <2>1, FS_Singleton
<1>5. ASSUME NEW i \in U
      PROVE  /\ Cardinality(From(S, i)) = Cardinality(From(U, i)) + 1
             /\ Cardinality(From(U, i)) \in Nat \ {0}
  <2>1. From(S, i) = From(U, i) \cup {m} /\ m \notin From(U, i)
    BY <1>1, <1>2, <1>3 DEF From
  <2>2. IsFiniteSet(From(U, i))
    <3>1. From(U, i) \in SUBSET (1..m)
      BY <1>2, <1>3 DEF From
    <3>2. IsFiniteSet(1..m)
      BY <1>1, FS_Interval
    <3> QED
      BY <3>1, <3>2, FS_Subset
  <2>3. i \in From(U, i)
    BY <1>1, <1>2, <1>3 DEF From
  <2>4. PICK F : F = From(U, i)
    OBVIOUS
  <2>5. IsFiniteSet(F) /\ i \in F /\ m \notin F /\ From(S, i) = F \cup {m}
    BY <2>1, <2>2, <2>3, <2>4
  <2>6. Cardinality(F \cup {m}) = Cardinality(F) + 1
    BY <2>5, FS_AddElement
  <2>7. Cardinality(F) \in Nat
    BY <2>5, FS_CardinalityType
  <2>8. Cardinality(F) # 0
    BY <2>5, FS_EmptySet
  <2> QED
    BY <2>4, <2>5, <2>6, <2>7, <2>8
<1>6. NthIn(S, n) = {i \in S : Cardinality(From(S, i)) = n}
  BY DEF NthIn, From
<1>7. NthIn(U, n - 1) = {i \in U : Cardinality(From(U, i)) = n - 1}
  BY DEF NthIn, From
<1>8. \A i \in S : i = m \/ i \in U
  BY <1>2
<1>9. m \notin U
  BY <1>2
<1>10. \A i \in U : Cardinality(From(S, i)) = Cardinality(From(U, i)) + 1
                      /\ Cardinality(From(U, i)) \in Nat \ {0}
  BY <1>5
<1>11. ASSUME n = 1 PROVE NthIn(S, n) = {m}
  <2>1. \A i \in U : Cardinality(From(S, i)) # n
    BY <1>10, <1>11
  <2>2. \A i \in S : Cardinality(From(S, i)) = n <=> i = m
    BY <1>4, <1>8, <1>11, <2>1
  <2> QED
    BY <1>2, <1>6, <2>2
<1>12. ASSUME n > 1 PROVE NthIn(S, n) = NthIn(U, n - 1)
  <2>1. \A i \in U : Cardinality(From(S, i)) = n <=> Cardinality(From(U, i)) = n - 1
    BY <1>10
  <2>2. Cardinality(From(S, m)) # n
    BY <1>4, <1>12
  <2>3. \A i : i \in NthIn(S, n) <=> i \in NthIn(U, n - 1)
    BY <1>2, <1>6, <1>7, <1>8, <1>9, <2>1, <2>2
  <2>4. NthIn(S, n) \subseteq S /\ NthIn(U, n - 1) \subseteq U
    BY <1>6, <1>7
  <2> QED
    BY <2>3, <2>4
<1>13. n = 1 => TargetIn(s, k, n) = m
  BY <1>11 DEF TargetIn, S
<1>14. n > 1 => TargetIn(s, k, n) = TargetIn(Front(s), k, n - 1)
  BY <1>1, <1>12 DEF TargetIn, S, U
<1> QED
  BY <1>13, <1>14 DEF m

-----------------------------------------------------------------------------
\* What the frames keep of errexit.  Below the first condition, a clone puts
\* back a value that was as the script had set it; the first condition itself
\* puts back what the script last set; and a clone above it leaves that alone.
InConditionOf(s) == \E i \in 1..Len(s) : s[i].kind \in Conditions
Under(s, i) == \E j \in 1..(i - 1) : s[j].kind \in Conditions
FrameKeeps(s, i, w) ==
  /\ s[i].kind \in Conditions /\ ~ Under(s, i) => s[i].saved = w
  /\ s[i].kind \in Clones => s[i].wanted = IF Under(s, i) THEN w ELSE s[i].saved
Keeps(s, e, w) ==
  /\ ~ InConditionOf(s) => e = w
  /\ \A i \in 1..Len(s) : FrameKeeps(s, i, w)

\* What a new frame of this kind remembers.
Remembers(f, e, w) ==
  /\ f.kind \in Clones \cup Conditions => f.saved = e
  /\ f.kind \in Clones => f.wanted = w

LEMMA KindsDiffer ==
  /\ Clones \cap Conditions = {} /\ Floors \cap Conditions = {} /\ Loops \cap Floors = {}
  /\ \A k : Catchers(k) \cap Floors = {}
  BY DEF Clones, Conditions, Floors, Loops, Catchers

LEMMA KeepsPushed ==
  ASSUME NEW s, StackOK(s), NEW f \in Frame, Len(s) < MaxDepth, f.kind # "program",
         f.kind = "andOr" => s[Len(s)].kind \in Lists,
         NEW e, NEW w, Keeps(s, e, w), Remembers(f, e, w),
         NEW d, f.kind \notin Conditions => d = e
  PROVE  Keeps(Append(s, f), d, w)
<1> DEFINE n == Len(s)
           t == Append(s, f)
<1>1. /\ n \in Nat /\ Len(t) = n + 1 /\ t[n + 1] = f
      /\ \A i \in 1..n : t[i] = s[i]
  BY Pushed, TopIsFrame
<1> HIDE DEF t
<1>2. \A i \in 1..n : Under(t, i) <=> Under(s, i)
  BY <1>1 DEF Under
<1>3. Under(t, n + 1) <=> InConditionOf(s)
  BY <1>1 DEF Under, InConditionOf
<1>4. InConditionOf(t) <=> InConditionOf(s) \/ f.kind \in Conditions
  <2>1. \A i \in 1..(n + 1) : i \in 1..n \/ i = n + 1
    BY <1>1
  <2>2. n + 1 \in 1..(n + 1) /\ 1..n \subseteq 1..(n + 1)
    BY <1>1
  <2> QED
    BY <1>1, <2>1, <2>2 DEF InConditionOf
<1>5. \A i \in 1..n : FrameKeeps(t, i, w)
  BY <1>1, <1>2 DEF Keeps, FrameKeeps
<1>6. FrameKeeps(t, n + 1, w)
  BY <1>1, <1>3, KindsDiffer DEF Keeps, FrameKeeps, Remembers
<1>7. \A i \in 1..(n + 1) : FrameKeeps(t, i, w)
  <2>1. \A i \in 1..(n + 1) : i \in 1..n \/ i = n + 1
    BY <1>1
  <2> QED
    BY <1>5, <1>6, <2>1
<1>8. ~ InConditionOf(t) => d = w
  BY <1>4 DEF Keeps
<1>9. Keeps(t, d, w)
  BY <1>1, <1>7, <1>8 DEF Keeps
<1> QED
  BY <1>9 DEF t

LEMMA KeepsPopped ==
  ASSUME NEW s, StackOK(s), s[Len(s)].kind # "program",
         NEW e, NEW w, Keeps(s, e, w), NEW d, NEW v,
         d = IF s[Len(s)].kind \in Clones \cup Conditions THEN s[Len(s)].saved ELSE e,
         v = IF s[Len(s)].kind \in Clones THEN s[Len(s)].wanted ELSE w
  PROVE  Keeps(Front(s), d, v)
<1> DEFINE n == Len(s)
           t == Front(s)
<1>1. /\ n \in Nat /\ n > 1 /\ Len(t) = n - 1
      /\ \A i \in 1..(n - 1) : t[i] = s[i]
  BY Popped, TopIsFrame
<1> HIDE DEF t
<1>2. ASSUME NEW i \in 1..(n - 1) PROVE Under(t, i) <=> Under(s, i)
  <2>1. \A j \in 1..(i - 1) : j \in 1..(n - 1)
    BY <1>1
  <2>2. \A j \in 1..(i - 1) : t[j].kind = s[j].kind
    BY <1>1, <2>1
  <2> QED
    BY <2>2, Zenon DEF Under
<1>3. Under(s, n) <=> InConditionOf(t)
  BY <1>1 DEF Under, InConditionOf
<1>4. InConditionOf(s) <=> InConditionOf(t) \/ s[n].kind \in Conditions
  <2>1. \A i \in 1..n : i \in 1..(n - 1) \/ i = n
    BY <1>1
  <2>2. n \in 1..n /\ 1..(n - 1) \subseteq 1..n
    BY <1>1
  <2> QED
    BY <1>1, <2>1, <2>2 DEF InConditionOf
<1>5. FrameKeeps(s, n, w) /\ \A i \in 1..(n - 1) : FrameKeeps(s, i, w)
  BY <1>1 DEF Keeps
<1>6. InConditionOf(t) => v = w
  BY <1>3, <1>5 DEF FrameKeeps
<1>7. ~ InConditionOf(t) => d = v
  BY <1>3, <1>4, <1>5, KindsDiffer DEF FrameKeeps, Keeps
<1>8. ~ InConditionOf(t) => \A i \in 1..(n - 1) : t[i].kind \notin Conditions /\ ~ Under(t, i)
  BY <1>1 DEF InConditionOf, Under
<1>9. \A i \in 1..(n - 1) : FrameKeeps(t, i, v)
  <2>1. CASE InConditionOf(t)
    BY <1>1, <1>2, <1>5, <1>6, <2>1 DEF FrameKeeps
  <2>2. CASE ~ InConditionOf(t)
    BY <1>1, <1>2, <1>5, <1>8, <2>2 DEF FrameKeeps
  <2> QED
    BY <2>1, <2>2
<1>10. Keeps(t, d, v)
  BY <1>1, <1>7, <1>9 DEF Keeps
<1> QED
  BY <1>10 DEF t

LEMMA KeepsSet ==
  ASSUME NEW s, NEW e, NEW w, Keeps(s, e, w), NEW d, NEW v,
         \/ d = e /\ v = w
         \/ InConditionOf(s) /\ v = w
         \/ ~ InConditionOf(s) /\ d = v
  PROVE  Keeps(s, d, v)
<1>1. CASE v = w /\ (InConditionOf(s) \/ d = e)
  BY <1>1 DEF Keeps
<1>2. CASE ~ InConditionOf(s) /\ d = v
  <2>1. \A i \in 1..Len(s) : s[i].kind \notin Conditions
    BY <1>2 DEF InConditionOf
  <2>2. ASSUME NEW i \in 1..Len(s), s[i].kind \in Clones, Under(s, i) PROVE FALSE
    BY <1>2, <2>1, <2>2 DEF Under, InConditionOf, Conditions
  <2> QED
    BY <1>2, <2>1, <2>2 DEF Keeps, FrameKeeps
<1> QED
  BY <1>1, <1>2

-----------------------------------------------------------------------------
JumpKnown ==
  result.kind # "none" => jump.target = TargetIn(stack, result.kind, result.levels)

\* Errors are no jumps, and only loops count.
ResultOK(r) ==
  /\ r \in Flow
  /\ r.err => r.kind = "none"
  /\ r.kind = "return" => r.levels = 1

Rest ==
  /\ mode \in Mode /\ ResultOK(result) /\ errexit \in BOOLEAN /\ wanted \in BOOLEAN
  /\ mode = "end" => Top.kind \in Lists
  /\ mode = "run" => ~ Stops(result)

IInv ==
  /\ StackOK(stack) /\ Rest
  /\ Keeps(stack, errexit, wanted)
  /\ JumpKnown

\* What JumpsArrive says of a step.
Arrives ==
  result.kind # "none" /\ (result'.kind = "none" \/ mode' = "done")
    => Len(stack) = jump.target

Step == IInv' /\ Arrives

LEMMA FlowParts ==
  ASSUME NEW r \in Flow
  PROVE  /\ r.status \in Statuses /\ r.kind \in {"none"} \cup JumpKind
         /\ r.levels \in 1..MaxLevels /\ r.err \in BOOLEAN
         /\ r.levels \in Nat \ {0}
  BY BoundsAssumption DEF Flow

LEMMA Results ==
  /\ \A st \in Statuses : /\ ResultOK(Normal(st)) /\ Normal(st).kind = "none"
                          /\ ~ Stops(Normal(st)) /\ Normal(st).status = st
  /\ ResultOK(Failed) /\ Failed.kind = "none" /\ Stops(Failed)
  /\ 0 \in Statuses /\ 1 \in Statuses /\ 1 \in 1..MaxLevels
  BY StatusesAssumption, BoundsAssumption
     DEF ResultOK, Normal, Failed, Stops, Flow, JumpKind

\* Where a jump is consumed is where it was to arrive.
LEMMA Consumed ==
  ASSUME IInv, result.kind # "none",
         \/ Top.kind \in Floors
         \/ Top.kind \in Catchers(result.kind) /\ result.levels = 1
  PROVE  Len(stack) = jump.target
<1>1. StackOK(stack) /\ jump.target = TargetIn(stack, result.kind, result.levels)
  BY DEF IInv, JumpKnown
<1>2. CASE Top.kind \in Floors
  BY <1>1, <1>2, FloorTakesAll DEF Top
<1>3. CASE Top.kind \in Catchers(result.kind) /\ result.levels = 1
  <2>1. stack[Len(stack)].kind \in Catchers(result.kind) \ Floors
    BY <1>3, KindsDiffer DEF Top
  <2> QED
    BY <1>1, <1>3, <2>1, TopCatches
<1> QED
  BY <1>2, <1>3

-----------------------------------------------------------------------------
\* The four kinds of steps.
LEMMA StayStep ==
  ASSUME IInv, UNCHANGED stack, Rest',
         \/ UNCHANGED <<errexit, wanted>>
         \/ InCondition /\ UNCHANGED wanted
         \/ ~ InCondition /\ errexit' = wanted',
         \/ result'.kind = "none"
         \/ UNCHANGED <<result, jump>>
         \/ jump'.target = Target(result'.kind, result'.levels),
         Arrives
  PROVE  Step
<1>1. StackOK(stack)'
  BY DEF IInv
<1>2. Keeps(stack, errexit, wanted)'
  <2>1. InCondition <=> InConditionOf(stack)
    BY DEF InCondition, InConditionOf
  <2>2. Keeps(stack, errexit', wanted')
    BY <2>1, KeepsSet DEF IInv
  <2> QED
    BY <2>2
<1>3. JumpKnown'
  <2>1. CASE result'.kind = "none"
    BY <2>1 DEF JumpKnown
  <2>2. CASE UNCHANGED <<result, jump>>
    BY <2>2 DEF JumpKnown, IInv
  <2>3. CASE jump'.target = Target(result'.kind, result'.levels)
    <3>1. jump'.target = TargetIn(stack, result'.kind, result'.levels)
      BY <2>3, TargetOfStack
    <3>2. jump'.target = TargetIn(stack', result'.kind, result'.levels)
      BY <3>1
    <3> QED
      BY <3>2 DEF JumpKnown
  <2> QED
    BY <2>1, <2>2, <2>3
<1> QED
  BY <1>1, <1>2, <1>3 DEF Step, IInv

LEMMA PushStep ==
  ASSUME IInv, mode = "run", Len(stack) < MaxDepth,
         NEW f \in Frame, f.kind # "program", f.kind = "andOr" => Top.kind \in Lists,
         Remembers(f, errexit, wanted), stack' = Append(stack, f),
         errexit' \in BOOLEAN, f.kind \notin Conditions => UNCHANGED errexit,
         UNCHANGED <<mode, result, wanted>>
  PROVE  Step
<1>1. result.kind = "none" /\ result'.kind = "none" /\ ~ Stops(result)'
  BY DEF IInv, Rest, Stops
<1>2. StackOK(stack)'
  BY Pushed DEF IInv, Top
<1>3. Keeps(stack, errexit, wanted)'
  <2>1. Keeps(Append(stack, f), errexit', wanted)
    BY KeepsPushed DEF IInv, Top
  <2> QED
    BY <2>1
<1>4. Rest'
  BY <1>1 DEF IInv, Rest
<1> QED
  BY <1>1, <1>2, <1>3, <1>4 DEF Step, IInv, Arrives, JumpKnown

\* The top ends, and puts back what it remembers.
PutsBack ==
  /\ errexit' = IF Top.kind \in Clones \cup Conditions THEN Top.saved ELSE errexit
  /\ wanted' = IF Top.kind \in Clones THEN Top.wanted ELSE wanted

LEMMA KeepsRestored ==
  ASSUME IInv, Top.kind # "program", PutsBack
  PROVE  Keeps(Front(stack), errexit', wanted') /\ errexit' \in BOOLEAN /\ wanted' \in BOOLEAN
<1>1. Keeps(Front(stack), errexit', wanted')
  BY KeepsPopped DEF IInv, PutsBack, Top
<1>2. Top \in Frame
  BY TopIsFrame DEF IInv, Top
<1>3. errexit' \in BOOLEAN /\ wanted' \in BOOLEAN
  BY <1>2 DEF Frame, PutsBack, IInv, Rest
<1> QED
  BY <1>1, <1>3

LEMMA PopStep ==
  ASSUME IInv, mode # "done", Pop, Top.kind # "program", PutsBack, ResultOK(result'),
         mode' = "item" \/ (mode' = "run" /\ ~ Stops(result')), UNCHANGED jump,
         result'.kind # "none" =>
           /\ result'.kind = result.kind
           /\ \/ Top.kind \notin Floors \cup Catchers(result.kind) /\ result'.levels = result.levels
              \/ /\ Top.kind \in Catchers(result.kind)
                 /\ result.levels > 1 /\ result'.levels = result.levels - 1,
         result'.kind = "none" /\ result.kind # "none" =>
           \/ Top.kind \in Floors
           \/ Top.kind \in Catchers(result.kind) /\ result.levels = 1
  PROVE  Step
<1>1. StackOK(stack) /\ stack' = Front(stack)
  BY DEF IInv, Pop
<1>2. StackOK(stack')
  BY <1>1, Popped DEF Top
<1>3. Keeps(stack', errexit', wanted') /\ errexit' \in BOOLEAN /\ wanted' \in BOOLEAN
  BY <1>1, KeepsRestored
<1>4. Rest'
  BY <1>3 DEF Rest, Mode
<1>5. Arrives
  BY Consumed DEF Arrives
<1>6. JumpKnown'
  <2>1. SUFFICES ASSUME result'.kind # "none"
                 PROVE  jump'.target = TargetIn(stack', result'.kind, result'.levels)
    BY DEF JumpKnown
  <2>2. jump'.target = TargetIn(stack, result.kind, result.levels) /\ result'.kind = result.kind
    BY <2>1 DEF IInv, JumpKnown
  <2>3. result.levels \in Nat \ {0}
    BY FlowParts DEF IInv, Rest, ResultOK
  <2>4. CASE Top.kind \notin Floors \cup Catchers(result.kind) /\ result'.levels = result.levels
    <3>1. TargetIn(Front(stack), result.kind, result.levels) = TargetIn(stack, result.kind, result.levels)
      BY <1>1, <2>4, PopPassesOn DEF Top
    <3> QED
      BY <1>1, <2>2, <2>4, <3>1
  <2>5. CASE /\ Top.kind \in Catchers(result.kind)
             /\ result.levels > 1 /\ result'.levels = result.levels - 1
    <3>1. stack[Len(stack)].kind \in Catchers(result.kind) \ Floors
      BY <2>5, KindsDiffer DEF Top
    <3>2. TargetIn(stack, result.kind, result.levels) =
            TargetIn(Front(stack), result.kind, result.levels - 1)
      BY <1>1, <2>3, <2>5, <3>1, TopCatches
    <3> QED
      BY <1>1, <2>2, <2>5, <3>2
  <2> QED
    BY <2>1, <2>4, <2>5
<1> QED
  BY <1>2, <1>3, <1>4, <1>5, <1>6 DEF Step, IInv

LEMMA ReplaceIsPopPush ==
  ASSUME NEW s, StackOK(s), s[Len(s)].kind # "program", NEW f \in Frame
  PROVE  [s EXCEPT ![Len(s)] = f] = Append(Front(s), f)
<1> DEFINE n == Len(s)
           t == [s EXCEPT ![n] = f]
           u == Append(Front(s), f)
<1>1. n \in Nat /\ n > 1 /\ s \in Seq(Frame)
  BY TopIsFrame, Popped
<1>2. t \in Seq(Frame) /\ Len(t) = n /\ t[n] = f /\ \A i \in 1..(n - 1) : t[i] = s[i]
  BY <1>1, ExceptSeq
<1>3. /\ Front(s) \in Seq(Frame) /\ Len(Front(s)) = n - 1
      /\ \A i \in 1..(n - 1) : Front(s)[i] = s[i]
  BY <1>1, Popped DEF StackOK
<1>4. u \in Seq(Frame) /\ Len(u) = n /\ u[n] = f /\ \A i \in 1..(n - 1) : u[i] = s[i]
  BY <1>1, <1>3, AppendProperties
<1> HIDE DEF t, u
<1>5. \A i \in 1..n : t[i] = u[i]
  BY <1>1, <1>2, <1>4
<1>6. t = u
  BY <1>2, <1>4, <1>5, SeqEqual
<1> QED
  BY <1>6 DEF t, u

\* The top ends, and another frame takes its place.
LEMMA ReplaceStep ==
  ASSUME IInv, Top.kind # "program", NEW f \in Frame,
         f.kind \notin {"program", "andOr"}, Become(f), UNCHANGED jump,
         NEW e, NEW w, Keeps(Front(stack), e, w), Remembers(f, e, w),
         f.kind \notin Conditions => errexit' = e, wanted' = w,
         errexit' \in BOOLEAN, wanted' \in BOOLEAN,
         mode' = "run", ResultOK(result'), ~ Stops(result'), Arrives
  PROVE  Step
<1>1. StackOK(stack) /\ stack' = [stack EXCEPT ![Len(stack)] = f]
  BY DEF IInv, Become
<1>2. StackOK(stack')
  BY <1>1, Replaced DEF Top
<1>3. stack' = Append(Front(stack), f)
  BY <1>1, ReplaceIsPopPush DEF Top
<1>4. StackOK(Front(stack)) /\ Len(Front(stack)) < MaxDepth
  BY <1>1, Popped, TopIsFrame, BoundsAssumption DEF Top
<1>5. Keeps(stack', errexit', wanted')
  BY <1>3, <1>4, KeepsPushed
<1>6. Rest'
  BY DEF Rest, Mode
<1>7. JumpKnown'
  BY DEF JumpKnown, Stops
<1> QED
  BY <1>2, <1>5, <1>6, <1>7 DEF Step, IInv


-----------------------------------------------------------------------------
\* Commands.
LEMMA BlankFrame ==
  ASSUME errexit \in BOOLEAN, wanted \in BOOLEAN, NEW kind \in FrameKind
  PROVE  Blank(kind) \in Frame /\ Blank(kind).kind = kind
         /\ Remembers(Blank(kind), errexit, wanted)
<1> DEFINE f == Blank(kind)
<1>1. /\ f.kind = kind /\ f.until = FALSE /\ f.last = 0
      /\ f.saved = (kind \in Clones \cup Conditions /\ errexit)
      /\ f.wanted = (kind \in Clones /\ wanted)
  BY DEF Blank
<1>2. f \in Frame
  <2>1. (kind \in Clones \cup Conditions /\ errexit) \in BOOLEAN /\ (kind \in Clones /\ wanted) \in BOOLEAN
    OBVIOUS
  <2>2. 0 \in Statuses
    BY Results
  <2> QED
    BY <2>1, <2>2 DEF Blank, Frame
<1>3. Remembers(f, errexit, wanted)
  <2>1. kind \in Clones \cup Conditions => f.saved = errexit
    BY <1>1
  <2>2. kind \in Clones => f.wanted = wanted
    BY <1>1
  <2> HIDE DEF f
  <2> QED
    BY <1>1, <2>1, <2>2 DEF Remembers
<1> QED
  BY <1>1, <1>2, <1>3

LEMMA RunIsPlain ==
  ASSUME IInv, mode = "run"
  PROVE  result.kind = "none" /\ ~ result.err /\ ~ Stops(result)
  BY DEF IInv, Rest, Stops

LEMMA SimpleStep == IInv /\ Simple => Step
<1> SUFFICES ASSUME IInv, Simple PROVE Step
  OBVIOUS
<1>1. /\ mode = "run" /\ mode' = "item" /\ UNCHANGED <<stack, errexit, jump, wanted>>
      /\ result' \in {Normal(st) : st \in Statuses} \cup {Failed}
  BY DEF Simple
<1>2. ResultOK(result') /\ result'.kind = "none"
  BY <1>1, Results
<1>3. Rest'
  BY <1>1, <1>2 DEF IInv, Rest, Mode
<1>4. Arrives
  BY <1>1, RunIsPlain DEF Arrives
<1> QED
  BY <1>1, <1>2, <1>3, <1>4, StayStep

LEMMA SetErrexitStep ==
  ASSUME IInv, NEW e \in BOOLEAN, SetErrexit(e)
  PROVE  Step
<1>1. /\ mode = "run" /\ mode' = "item" /\ UNCHANGED <<stack, jump>>
      /\ result' = Normal(0) /\ errexit' = e
      /\ wanted' = IF InCondition THEN wanted ELSE e
  BY DEF SetErrexit
<1>2. ResultOK(result') /\ result'.kind = "none"
  BY <1>1, Results
<1>3. Rest'
  BY <1>1, <1>2 DEF IInv, Rest, Mode
<1>4. Arrives
  BY <1>1, RunIsPlain DEF Arrives
<1>5. \/ InCondition /\ UNCHANGED wanted
      \/ ~ InCondition /\ errexit' = wanted'
  BY <1>1
<1> QED
  BY <1>1, <1>2, <1>3, <1>4, <1>5, StayStep

LEMMA JumpStep ==
  ASSUME IInv, NEW k \in JumpKind, NEW n \in 1..MaxLevels, NEW st \in Statuses,
         k = "return" => n = 1,
         mode = "run", result' = Jumping(k, n, st),
         jump' = [kind |-> k, target |-> Target(k, n)],
         mode' = "item", UNCHANGED <<stack, errexit, wanted>>
  PROVE  Step
<1>1. result'.kind = k /\ result'.levels = n /\ jump'.target = Target(k, n)
  BY DEF Jumping
<1>2. ResultOK(result')
  BY DEF ResultOK, Jumping, Flow
<1>3. Rest'
  BY <1>2 DEF IInv, Rest, Mode
<1>4. Arrives
  BY RunIsPlain DEF Arrives
<1>5. jump'.target = Target(result'.kind, result'.levels)
  BY <1>1
<1> QED
  BY <1>3, <1>4, <1>5, StayStep

LEMMA JumpsStep ==
  ASSUME IInv,
         \/ \E k \in {"break", "continue"}, n \in 1..MaxLevels : BreakOrContinue(k, n)
         \/ \E k \in {"return", "exit"}, st \in Statuses : ReturnOrExit(k, st)
  PROVE  Step
<1>1. CASE \E k \in {"break", "continue"}, n \in 1..MaxLevels : BreakOrContinue(k, n)
  <2>1. PICK k \in {"break", "continue"}, n \in 1..MaxLevels : BreakOrContinue(k, n)
    BY <1>1
  <2>2. k \in JumpKind /\ 0 \in Statuses /\ k # "return"
    BY Results DEF JumpKind
  <2> QED
    BY <2>1, <2>2, JumpStep DEF BreakOrContinue
<1>2. CASE \E k \in {"return", "exit"}, st \in Statuses : ReturnOrExit(k, st)
  <2>1. PICK k \in {"return", "exit"}, st \in Statuses : ReturnOrExit(k, st)
    BY <1>2
  <2>2. k \in JumpKind /\ 1 \in 1..MaxLevels
    BY Results DEF JumpKind
  <2> QED
    BY <2>1, <2>2, JumpStep DEF ReturnOrExit
<1> QED
  BY <1>1, <1>2

LEMMA OpenStep ==
  ASSUME IInv, NEW kind \in FrameKind, Open(kind)
  PROVE  Step
<1>1. /\ mode = "run" /\ Len(stack) < MaxDepth /\ kind \notin {"program"} \cup Conditions
      /\ MayOpen(kind) /\ stack' = Append(stack, Blank(kind))
      /\ UNCHANGED <<mode, result, errexit, jump, wanted>>
  BY DEF Open
<1>2. kind = "andOr" => Top.kind \in Lists
  BY <1>1 DEF MayOpen
<1>3. /\ Blank(kind) \in Frame /\ Blank(kind).kind = kind
      /\ Remembers(Blank(kind), errexit, wanted)
  BY BlankFrame DEF IInv, Rest
<1>4. errexit' \in BOOLEAN
  BY <1>1 DEF IInv, Rest
<1> QED
  BY <1>1, <1>2, <1>3, <1>4, PushStep

LEMMA OpenConditionStep ==
  ASSUME IInv, NEW kind \in Conditions, NEW until \in BOOLEAN, OpenCondition(kind, until)
  PROVE  Step
<1> DEFINE f == [Blank(kind) EXCEPT !.until = until]
<1>1. /\ mode = "run" /\ Len(stack) < MaxDepth /\ stack' = Append(stack, f)
      /\ errexit' = FALSE /\ UNCHANGED <<mode, result, jump, wanted>>
  BY DEF OpenCondition
<1>2. kind \in FrameKind /\ kind \notin {"program", "andOr"}
  BY DEF FrameKind, Lists, Conditions
<1>3. /\ Blank(kind) \in Frame /\ Blank(kind).kind = kind
      /\ Remembers(Blank(kind), errexit, wanted)
  BY <1>2, BlankFrame DEF IInv, Rest
<1>4. /\ f \in Frame /\ f.kind = kind /\ f.saved = Blank(kind).saved
      /\ f.wanted = Blank(kind).wanted
  BY <1>3 DEF Frame
<1>5. Remembers(f, errexit, wanted)
  BY <1>3, <1>4 DEF Remembers
<1> HIDE DEF f
<1> QED
  BY <1>1, <1>2, <1>4, <1>5, PushStep

-----------------------------------------------------------------------------
\* Results: of the items of a list.
LEMMA ListStopsStep == IInv /\ ListStops => Step
<1> SUFFICES ASSUME IInv, ListStops PROVE Step
  OBVIOUS
<1>1. /\ mode' = "end" /\ Top.kind \in Lists
      /\ UNCHANGED <<stack, result, errexit, jump, wanted>>
  BY DEF ListStops
<1>2. Rest'
  BY <1>1 DEF IInv, Rest, Mode, Top, ResultOK
<1>3. Arrives
  BY <1>1 DEF Arrives
<1> QED
  BY <1>1, <1>2, <1>3, StayStep

LEMMA ListErrexitStep == IInv /\ ListErrexit => Step
<1> SUFFICES ASSUME IInv, ListErrexit PROVE Step
  OBVIOUS
<1>1. /\ mode' = "end" /\ Top.kind \in Lists /\ ~ Stops(result)
      /\ result' = [result EXCEPT !.kind = "exit"]
      /\ jump' = [kind |-> "exit", target |-> Target("exit", 1)]
      /\ UNCHANGED <<stack, errexit, wanted>>
  BY DEF ListErrexit
<1>2. result \in Flow /\ result.kind = "none" /\ ~ result.err
  BY <1>1 DEF IInv, Rest, ResultOK, Stops
<1>3. ResultOK(result') /\ result'.kind = "exit"
  BY <1>1, <1>2 DEF ResultOK, Flow, JumpKind
<1>4. Rest'
  BY <1>1, <1>3 DEF IInv, Rest, Mode, Top
<1>5. Arrives
  BY <1>2 DEF Arrives
<1>6. jump'.target = Target(result'.kind, result'.levels)
  <2>1. Target("exit", 1) = FloorIn(stack)
    BY TargetOfStack, ExitHasNoCatcher
  <2>2. Target("exit", result'.levels) = FloorIn(stack)
    BY TargetOfStack, ExitHasNoCatcher
  <2> QED
    BY <1>1, <1>3, <2>1, <2>2
<1> QED
  BY <1>1, <1>4, <1>5, <1>6, StayStep

LEMMA ListGoesOnStep == IInv /\ ListGoesOn => Step
<1> SUFFICES ASSUME IInv, ListGoesOn PROVE Step
  OBVIOUS
<1>1. /\ mode' \in {"run", "end"} /\ Top.kind \in Lists /\ ~ Stops(result)
      /\ UNCHANGED <<stack, result, errexit, jump, wanted>>
  BY DEF ListGoesOn
<1>2. Rest'
  BY <1>1 DEF IInv, Rest, Mode, Top, ResultOK, Stops
<1>3. Arrives
  BY <1>1 DEF Arrives, Stops
<1> QED
  BY <1>1, <1>2, <1>3, StayStep

\* Frames that jumps pass, and that leave errexit alone.
Passing == FrameKind \ (Floors \cup Loops \cup {"function"} \cup Clones \cup Conditions)

LEMMA PassStep ==
  ASSUME IInv, mode # "done", Pop, Top.kind \in Passing, UNCHANGED <<errexit, wanted, jump>>,
         mode' = "item",
         \/ UNCHANGED result
         \/ ResultOK(result') /\ result'.kind = "none" /\ result.kind = "none"
  PROVE  Step
<1>1. PutsBack
  BY DEF PutsBack, Passing
<1>2. ResultOK(result')
  BY DEF IInv, Rest
<1>3. Top.kind # "program" /\ Top.kind \notin Floors \cup Catchers(result.kind)
  BY DEF Passing, Floors, Catchers
<1> QED
  BY <1>1, <1>2, <1>3, PopStep

LEMMA AndOrStep == IInv /\ AndOr => Step
<1> SUFFICES ASSUME IInv, AndOr PROVE Step
  OBVIOUS
<1>1. /\ mode = "item" /\ Top.kind = "andOr" /\ UNCHANGED <<result, errexit, jump, wanted>>
  BY DEF AndOr, TopIs
<1>2. CASE ~ Stops(result) /\ mode' = "run" /\ UNCHANGED stack
  <2>1. Rest'
    BY <1>1, <1>2 DEF IInv, Rest, Mode, Top, ResultOK, Stops
  <2>2. Arrives
    BY <1>1, <1>2 DEF Arrives, Stops
  <2> QED
    BY <1>1, <1>2, <2>1, <2>2, StayStep
<1>3. CASE Pop /\ UNCHANGED mode
  <2>1. Top.kind \in Passing
    BY <1>1 DEF Passing, FrameKind, Floors, Loops, Clones, Conditions
  <2> QED
    BY <1>1, <1>3, <2>1, PassStep
<1> QED
  BY <1>2, <1>3 DEF AndOr

LEMMA NotStep == IInv /\ Not => Step
<1> SUFFICES ASSUME IInv, Not PROVE Step
  OBVIOUS
<1>1. /\ mode = "item" /\ Top.kind = "not" /\ Pop
      /\ result' = IF Stops(result) THEN result
                   ELSE Normal(IF result.status = 0 THEN 1 ELSE 0)
      /\ UNCHANGED <<mode, errexit, jump, wanted>>
  BY DEF Not, TopIs
<1>2. Top.kind \in Passing
  BY <1>1 DEF Passing, FrameKind, Floors, Loops, Clones, Conditions
<1>3. \/ UNCHANGED result
      \/ ResultOK(result') /\ result'.kind = "none" /\ result.kind = "none"
  <2>1. CASE Stops(result)
    BY <1>1, <2>1
  <2>2. CASE ~ Stops(result)
    <3>1. result' = Normal(0) \/ result' = Normal(1)
      BY <1>1, <2>2
    <3> QED
      BY <2>2, <3>1, Results DEF Stops
  <2> QED
    BY <2>1, <2>2
<1> QED
  BY <1>1, <1>2, <1>3, PassStep

LEMMA BodyStep == IInv /\ Body => Step
<1> SUFFICES ASSUME IInv, Body PROVE Step
  OBVIOUS
<1>1. /\ mode = "end" /\ Top.kind = "body" /\ Pop /\ mode' = "item"
      /\ UNCHANGED <<result, errexit, jump, wanted>>
  BY DEF Body, TopIs
<1>2. Top.kind \in Passing
  BY <1>1 DEF Passing, FrameKind, Lists, Floors, Loops, Clones, Conditions
<1> QED
  BY <1>1, <1>2, PassStep

LEMMA FunctionStep == IInv /\ Function => Step
<1> SUFFICES ASSUME IInv, Function PROVE Step
  OBVIOUS
<1>1. /\ mode = "end" /\ Top.kind = "function" /\ Pop /\ mode' = "item"
      /\ result' = IF result.kind = "return" THEN [result EXCEPT !.kind = "none"] ELSE result
      /\ UNCHANGED <<errexit, jump, wanted>>
  BY DEF Function, TopIs
<1>2. PutsBack
  BY <1>1 DEF PutsBack, Clones, Conditions
<1>3. Top.kind # "program" /\ Top.kind \notin Floors
  BY <1>1 DEF Floors
<1>4. ResultOK(result)
  BY DEF IInv, Rest
<1>5. CASE result.kind = "return"
  <2>1. result.levels = 1 /\ Top.kind \in Catchers(result.kind)
    BY <1>1, <1>4, <1>5 DEF ResultOK, Catchers
  <2>2. ResultOK(result') /\ result'.kind = "none"
    BY <1>1, <1>4, <1>5 DEF ResultOK, Flow
  <2> QED
    BY <1>1, <1>2, <1>3, <2>1, <2>2, PopStep
<1>6. CASE result.kind # "return"
  <2>1. Top.kind \notin Catchers(result.kind) /\ UNCHANGED result
    BY <1>1, <1>6 DEF Catchers, Loops
  <2> QED
    BY <1>1, <1>2, <1>3, <1>4, <2>1, PopStep
<1> QED
  BY <1>5, <1>6

LEMMA SubshellStep == IInv /\ Subshell => Step
<1> SUFFICES ASSUME IInv, Subshell PROVE Step
  OBVIOUS
<1>1. /\ mode = "end" /\ Top.kind = "subshell" /\ Pop /\ mode' = "item"
      /\ errexit' = Top.saved /\ wanted' = Top.wanted /\ UNCHANGED <<result, jump>>
  BY DEF Subshell, TopIs
<1>2. PutsBack
  BY <1>1 DEF PutsBack, Clones
<1>3. Top.kind # "program" /\ Top.kind \notin Floors \cup Catchers(result.kind)
  BY <1>1 DEF Floors, Catchers, Loops
<1>4. ResultOK(result')
  BY <1>1 DEF IInv, Rest
<1> QED
  BY <1>1, <1>2, <1>3, <1>4, PopStep

LEMMA SubstitutionStep == IInv /\ Substitution => Step
<1> SUFFICES ASSUME IInv, Substitution PROVE Step
  OBVIOUS
<1>1. /\ mode = "end" /\ Top.kind = "substitution" /\ Pop
      /\ errexit' = Top.saved /\ wanted' = Top.wanted /\ UNCHANGED jump
      /\ result' = IF result.err THEN Failed ELSE Normal(result.status)
      /\ mode' = IF result.err THEN "item" ELSE "run"
  BY DEF Substitution, TopIs
<1>2. PutsBack
  BY <1>1 DEF PutsBack, Clones
<1>3. Top.kind # "program" /\ Top.kind \in Floors
  BY <1>1 DEF Floors
<1>4. result.status \in Statuses
  BY FlowParts DEF IInv, Rest, ResultOK
<1>5. /\ ResultOK(result') /\ result'.kind = "none"
      /\ mode' = "item" \/ (mode' = "run" /\ ~ Stops(result'))
  <2>1. CASE result.err
    BY <1>1, <2>1, Results
  <2>2. CASE ~ result.err
    BY <1>1, <1>4, <2>2, Results
  <2> QED
    BY <2>1, <2>2
<1> QED
  BY <1>1, <1>2, <1>3, <1>5, PopStep


-----------------------------------------------------------------------------
\* Results: of conditions and loops.
LEMMA ConditionTop ==
  ASSUME IInv, Top.kind \in Conditions
  PROVE  /\ Top.kind # "program" /\ InCondition
         /\ \A k : Top.kind \notin Floors \cup Catchers(k)
         /\ PutsBack <=> errexit' = Restored(Top) /\ UNCHANGED wanted
<1>1. Top = stack[Len(stack)] /\ Len(stack) \in 1..Len(stack)
  BY TopIsFrame DEF Top, IInv
<1>2. InCondition
  BY <1>1 DEF InCondition
<1>3. Top.kind \notin Clones
  BY KindsDiffer
<1>4. PutsBack <=> errexit' = Restored(Top) /\ UNCHANGED wanted
  BY <1>3 DEF PutsBack, Restored
<1> QED
  BY <1>2, <1>4 DEF Conditions, Floors, Catchers, Loops

\* A condition ends, and the command with it.
LEMMA ConditionLeft ==
  ASSUME IInv, mode # "done", Pop, Top.kind \in Conditions, mode' = "item",
         errexit' = Restored(Top), UNCHANGED <<jump, wanted>>,
         \/ UNCHANGED result
         \/ ResultOK(result') /\ result'.kind = "none" /\ result.kind = "none"
  PROVE  Step
<1>1. /\ PutsBack /\ Top.kind # "program"
      /\ Top.kind \notin Floors \cup Catchers(result.kind)
  BY ConditionTop
<1>2. ResultOK(result')
  BY DEF IInv, Rest
<1> QED
  BY <1>1, <1>2, PopStep

\* A condition ends, and the body it decides about begins.
LEMMA ConditionHeld ==
  ASSUME IInv, Top.kind \in Conditions, ~ Stops(result), mode' = "run",
         NEW f \in Frame, f.kind \in {"body", "loop"}, Become(f),
         errexit' = Restored(Top), UNCHANGED <<result, jump, wanted>>
  PROVE  Step
<1>1. PutsBack /\ Top.kind # "program"
  BY ConditionTop
<1>2. /\ Keeps(Front(stack), errexit', wanted')
      /\ errexit' \in BOOLEAN /\ wanted' \in BOOLEAN
  BY <1>1, KeepsRestored
<1>3. f.kind \notin {"program", "andOr"} \cup Clones \cup Conditions
  BY DEF Clones, Conditions
<1>4. Remembers(f, errexit', wanted')
  BY <1>3 DEF Remembers
<1>5. ResultOK(result') /\ ~ Stops(result') /\ result.kind = "none"
  BY DEF IInv, Rest, Stops
<1>6. Arrives
  BY <1>5 DEF Arrives
<1> QED
  BY <1>1, <1>2, <1>3, <1>4, <1>5, <1>6, ReplaceStep

LEMMA IfStep == IInv /\ If => Step
<1> SUFFICES ASSUME IInv, If PROVE Step
  OBVIOUS
<1>1. mode = "end" /\ Top.kind = "if" /\ Top.kind \in Conditions /\ UNCHANGED <<jump, wanted>>
  BY DEF If, TopIs, Conditions
<1>2. CASE /\ Stops(result) /\ Pop /\ mode' = "item"
           /\ errexit' = Restored(Top) /\ UNCHANGED result
  BY <1>1, <1>2, ConditionLeft
<1>3. CASE /\ ~ Stops(result) /\ Become(Blank("body")) /\ mode' = "run"
           /\ errexit' = Restored(Top) /\ UNCHANGED result
  <2>1. "body" \in FrameKind
    BY DEF FrameKind, Lists
  <2>2. Blank("body") \in Frame /\ Blank("body").kind \in {"body", "loop"}
    BY <2>1, BlankFrame DEF IInv, Rest
  <2> QED
    BY <1>1, <1>3, <2>2, ConditionHeld
<1>4. CASE /\ ~ Stops(result) /\ UNCHANGED stack /\ mode' = "run"
           /\ errexit' = FALSE /\ UNCHANGED result
  <2>1. InCondition /\ UNCHANGED wanted
    BY <1>1, ConditionTop
  <2>2. Rest'
    BY <1>1, <1>4 DEF IInv, Rest, Mode, ResultOK, Stops
  <2>3. Arrives
    BY <1>4 DEF Arrives, Stops
  <2> QED
    BY <1>1, <1>4, <2>1, <2>2, <2>3, StayStep
<1>5. CASE /\ ~ Stops(result) /\ Pop /\ mode' = "item"
           /\ errexit' = Restored(Top) /\ result' = Normal(0)
  <2>1. ResultOK(result') /\ result'.kind = "none" /\ result.kind = "none"
    BY <1>5, Results DEF Stops
  <2> QED
    BY <1>1, <1>5, <2>1, ConditionLeft
<1> QED
  BY <1>2, <1>3, <1>4, <1>5 DEF If

LEMMA LoopConditionStep == IInv /\ LoopCondition => Step
<1> SUFFICES ASSUME IInv, LoopCondition PROVE Step
  OBVIOUS
<1>1. /\ mode = "end" /\ Top.kind = "loopCond" /\ Top.kind \in Conditions
      /\ errexit' = Restored(Top) /\ UNCHANGED <<jump, wanted>>
  BY DEF LoopCondition, TopIs, Conditions
<1>2. Top \in Frame
  BY TopIsFrame DEF IInv, Top
<1>3. CASE Stops(result) /\ Pop /\ mode' = "item" /\ UNCHANGED result
  BY <1>1, <1>3, ConditionLeft
<1>4. CASE ~ Stops(result) /\ Pop /\ mode' = "item" /\ result' \in {Normal(Top.last), Failed}
  <2>1. Top.last \in Statuses
    BY <1>2 DEF Frame
  <2>2. ResultOK(result') /\ result'.kind = "none" /\ result.kind = "none"
    BY <1>4, <2>1, Results DEF Stops
  <2> QED
    BY <1>1, <1>4, <2>2, ConditionLeft
<1>5. CASE /\ ~ Stops(result) /\ Become([Blank("loop") EXCEPT !.until = Top.until])
           /\ mode' = "run" /\ UNCHANGED result
  <2> DEFINE f == [Blank("loop") EXCEPT !.until = Top.until]
  <2>1. "loop" \in FrameKind
    BY DEF FrameKind, Lists, Loops
  <2>2. Blank("loop") \in Frame /\ Blank("loop").kind = "loop"
    BY <2>1, BlankFrame DEF IInv, Rest
  <2>3. f \in Frame /\ f.kind \in {"body", "loop"}
    BY <1>2, <2>2 DEF Frame
  <2>4. Become(f)
    BY <1>5
  <2> HIDE DEF f
  <2> QED
    BY <1>1, <1>5, <2>3, <2>4, ConditionHeld
<1> QED
  BY <1>3, <1>4, <1>5 DEF LoopCondition

LEMMA LoopTop ==
  ASSUME IInv, Top.kind \in Loops
  PROVE  /\ Top.kind \notin Floors \cup Clones \cup Conditions \cup {"program", "andOr", "function"}
         /\ PutsBack <=> UNCHANGED <<errexit, wanted>>
         /\ \A k : Top.kind \in Catchers(k) <=> k \notin {"return", "exit"}
<1>1. Top.kind \notin Floors \cup Clones \cup Conditions \cup {"program", "andOr", "function"}
  BY DEF Loops, Floors, Clones, Conditions
<1> QED
  BY <1>1 DEF PutsBack, Catchers

LEMMA LoopLeftStep == IInv /\ LoopLeft => Step
<1> SUFFICES ASSUME IInv, LoopLeft PROVE Step
  OBVIOUS
<1>1. /\ mode = "end" /\ Top.kind \in Loops /\ Pop /\ mode' = "item"
      /\ UNCHANGED <<errexit, jump, wanted>>
  BY DEF LoopLeft
<1>2. /\ PutsBack /\ Top.kind \notin Floors /\ Top.kind # "program"
      /\ \A k : Top.kind \in Catchers(k) <=> k \notin {"return", "exit"}
  BY <1>1, LoopTop
<1>3. ResultOK(result) /\ result \in Flow /\ result.status \in Statuses
      /\ result.levels \in 1..MaxLevels /\ MaxLevels \in Nat
  BY FlowParts, BoundsAssumption DEF IInv, Rest, ResultOK
<1>4. CASE /\ result.kind \in {"break", "continue"} /\ result.levels > 1
           /\ result' = Caught(result)
  <2>1. result' = [result EXCEPT !.levels = @ - 1]
    BY <1>4 DEF Caught
  <2>2. result.levels - 1 \in 1..MaxLevels
    BY <1>3, <1>4
  <2>3. result'.kind = result.kind /\ result'.levels = result.levels - 1 /\ result'.err = result.err
    BY <1>3, <2>1 DEF Flow
  <2>4. result' \in Flow
    BY <1>3, <2>1, <2>2 DEF Flow
  <2>5. ResultOK(result')
    BY <1>3, <1>4, <2>3, <2>4 DEF ResultOK
  <2>6. Top.kind \in Catchers(result.kind) /\ result'.kind # "none"
    BY <1>2, <1>4, <2>3
  <2> QED
    BY <1>1, <1>2, <1>4, <2>3, <2>5, <2>6, PopStep
<1>5. CASE result.kind = "break" /\ result.levels = 1 /\ result' = Caught(result)
  <2>1. result' = Normal(result.status)
    BY <1>5 DEF Caught
  <2>2. ResultOK(result') /\ result'.kind = "none"
    BY <1>3, <2>1, Results
  <2>3. Top.kind \in Catchers(result.kind)
    BY <1>2, <1>5
  <2> QED
    BY <1>1, <1>2, <1>5, <2>2, <2>3, PopStep
<1>6. CASE (result.kind \in {"return", "exit"} \/ result.err) /\ UNCHANGED result
  <2>1. result.kind \in {"return", "exit", "none"}
    BY <1>3, <1>6 DEF ResultOK
  <2>2. CASE result.kind = "none"
    BY <1>1, <1>2, <1>3, <1>6, <2>2, PopStep
  <2>3. CASE result.kind \in {"return", "exit"}
    <3>1. Top.kind \notin Catchers(result.kind)
      BY <1>2, <2>3
    <3> QED
      BY <1>1, <1>2, <1>3, <1>6, <2>3, <3>1, PopStep
  <2> QED
    BY <2>1, <2>2, <2>3
<1>7. result.levels > 1 \/ result.levels = 1
  BY <1>3
<1> QED
  BY <1>4, <1>5, <1>6, <1>7 DEF LoopLeft

\* A round ends; a continue that is caught here was meant for this loop.
LEMMA RoundEnded ==
  ASSUME IInv, Top.kind \in Loops, RoundEnds
  PROVE  ResultOK(result') /\ result'.kind = "none" /\ ~ Stops(result') /\ Arrives
<1>1. ResultOK(result) /\ result.status \in Statuses /\ ~ result.err
  BY FlowParts DEF IInv, Rest, ResultOK, RoundEnds
<1>2. CASE result.kind = "none" /\ UNCHANGED result
  BY <1>1, <1>2 DEF Stops, Arrives
<1>3. CASE result.kind = "continue" /\ result.levels = 1 /\ result' = Caught(result)
  <2>1. result' = Normal(0)
    BY <1>3 DEF Caught
  <2>2. Top.kind \in Catchers(result.kind)
    BY <1>3, LoopTop
  <2>3. Len(stack) = jump.target
    BY <1>3, <2>2, Consumed
  <2> QED
    BY <2>1, <2>3, Results DEF Arrives
<1> QED
  BY <1>2, <1>3 DEF RoundEnds

LEMMA LoopAgainStep == IInv /\ LoopAgain => Step
<1> SUFFICES ASSUME IInv, LoopAgain PROVE Step
  OBVIOUS
<1> DEFINE f == [Blank("loopCond") EXCEPT !.until = Top.until, !.last = result'.status]
<1>1. /\ mode = "end" /\ Top.kind = "loop" /\ Top.kind \in Loops /\ RoundEnds
      /\ mode' = "run" /\ errexit' = FALSE /\ UNCHANGED <<jump, wanted>> /\ Become(f)
  BY DEF LoopAgain, TopIs, Loops
<1>2. ResultOK(result') /\ result'.kind = "none" /\ ~ Stops(result') /\ Arrives
  BY <1>1, RoundEnded
<1>3. errexit \in BOOLEAN /\ wanted \in BOOLEAN /\ StackOK(stack) /\ Keeps(stack, errexit, wanted)
  BY DEF IInv, Rest
<1>4. /\ Blank("loopCond") \in Frame /\ Blank("loopCond").kind = "loopCond"
      /\ Remembers(Blank("loopCond"), errexit, wanted)
  <2>1. "loopCond" \in FrameKind
    BY DEF FrameKind, Lists, Conditions
  <2> QED
    BY <1>3, <2>1, BlankFrame
<1>5. f \in Frame /\ f.kind = "loopCond" /\ f.saved = Blank("loopCond").saved
      /\ f.wanted = Blank("loopCond").wanted
  <2>1. Top \in Frame /\ result'.status \in Statuses
    BY <1>2, <1>3, TopIsFrame, FlowParts DEF Top, ResultOK
  <2> QED
    BY <1>4, <2>1 DEF Frame
<1> HIDE DEF f
<1>6. Remembers(f, errexit, wanted)
  BY <1>4, <1>5 DEF Remembers
<1>7. Keeps(Front(stack), errexit, wanted) /\ Top.kind # "program"
  <2>1. Top.kind \notin Clones \cup Conditions \cup {"program"}
    BY <1>1, LoopTop
  <2> QED
    BY <1>3, <2>1, KeepsPopped DEF Top
<1>8. f.kind \in Conditions /\ f.kind \notin {"program", "andOr"}
  BY <1>5 DEF Conditions
<1> QED
  BY <1>1, <1>2, <1>3, <1>5, <1>6, <1>7, <1>8, ReplaceStep

LEMMA ForNextStep == IInv /\ ForNext => Step
<1> SUFFICES ASSUME IInv, ForNext PROVE Step
  OBVIOUS
<1>1. /\ mode = "end" /\ Top.kind \in Loops /\ RoundEnds
      /\ UNCHANGED <<errexit, jump, wanted>>
  BY DEF ForNext, TopIs, Loops
<1>2. ResultOK(result') /\ result'.kind = "none" /\ ~ Stops(result') /\ Arrives
  BY <1>1, RoundEnded
<1>3. CASE mode' = "run" /\ UNCHANGED stack
  <2>1. Rest'
    BY <1>1, <1>2, <1>3 DEF IInv, Rest, Mode
  <2> QED
    BY <1>1, <1>2, <1>3, <2>1, StayStep
<1>4. CASE mode' = "item" /\ Pop
  <2>1. PutsBack /\ Top.kind # "program"
    BY <1>1, LoopTop
  <2>2. result.kind = "none" \/ (Top.kind \in Catchers(result.kind) /\ result.levels = 1)
    BY <1>1, LoopTop DEF RoundEnds
  <2> QED
    BY <1>1, <1>2, <1>4, <2>1, <2>2, PopStep
<1> QED
  BY <1>3, <1>4 DEF ForNext

LEMMA ForFailsStep == IInv /\ ForFails => Step
<1> SUFFICES ASSUME IInv, ForFails PROVE Step
  OBVIOUS
<1>1. /\ mode = "end" /\ Top.kind \in Loops /\ Pop /\ mode' = "item" /\ result' = Failed
      /\ result.kind \in {"none", "continue"} /\ result.levels = 1
      /\ UNCHANGED <<errexit, jump, wanted>>
  BY DEF ForFails, TopIs, Loops
<1>2. PutsBack /\ Top.kind # "program"
  BY <1>1, LoopTop
<1>3. result.kind = "none" \/ Top.kind \in Catchers(result.kind)
  BY <1>1, LoopTop
<1>4. ResultOK(result') /\ result'.kind = "none"
  BY <1>1, Results
<1> QED
  BY <1>1, <1>2, <1>3, <1>4, PopStep

LEMMA ProgramEndsStep == IInv /\ ProgramEnds => Step
<1> SUFFICES ASSUME IInv, ProgramEnds PROVE Step
  OBVIOUS
<1>1. /\ Top.kind = "program" /\ mode' = "done"
      /\ UNCHANGED <<stack, result, errexit, jump, wanted>>
  BY DEF ProgramEnds, TopIs
<1>2. Rest'
  BY <1>1 DEF IInv, Rest, Mode, ResultOK
<1>3. Arrives
  BY <1>1, Consumed DEF Arrives, Floors
<1> QED
  BY <1>1, <1>2, <1>3, StayStep

-----------------------------------------------------------------------------
LEMMA InitInv == Init => IInv
<1> SUFFICES ASSUME Init PROVE IInv
  OBVIOUS
<1> DEFINE f == [kind |-> "program", saved |-> FALSE, wanted |-> FALSE,
                 until |-> FALSE, last |-> 0]
<1>1. /\ stack = <<f>> /\ mode = "run" /\ result = Normal(0)
      /\ errexit \in BOOLEAN /\ wanted = errexit
  BY DEF Init
<1>2. f \in Frame /\ f.kind = "program"
  BY Results DEF Frame, FrameKind, Lists
<1> HIDE DEF f
<1>3. stack \in Seq(Frame) /\ Len(stack) = 1 /\ stack[1] = f /\ stack # << >>
  BY <1>1, <1>2
<1>4. StackOK(stack)
  BY <1>2, <1>3, BoundsAssumption DEF StackOK
<1>5. ResultOK(result) /\ result.kind = "none" /\ ~ Stops(result)
  BY <1>1, Results
<1>6. Rest
  BY <1>1, <1>5 DEF Rest, Mode
<1>7. Keeps(stack, errexit, wanted)
  BY <1>1, <1>2, <1>3 DEF Keeps, FrameKeeps, Conditions, Clones
<1> QED
  BY <1>4, <1>5, <1>6, <1>7 DEF IInv, JumpKnown

LEMMA NextStep == IInv /\ [Next]_vars => IInv' /\ (Arrives \/ UNCHANGED vars)
<1> SUFFICES ASSUME IInv, [Next]_vars PROVE IInv' /\ (Arrives \/ UNCHANGED vars)
  OBVIOUS
<1>1. CASE Command
  <2>1. ASSUME NEW until \in BOOLEAN, NEW kind \in {"if", "loopCond"}, OpenCondition(kind, until)
        PROVE  Step
    BY <2>1, OpenConditionStep DEF Conditions
  <2> QED
    BY <1>1, <2>1, SimpleStep, SetErrexitStep, JumpsStep, OpenStep DEF Command, Step
<1>2. CASE ListStops \/ ListErrexit \/ ListGoesOn \/ AndOr \/ Not
  BY <1>2, ListStopsStep, ListErrexitStep, ListGoesOnStep, AndOrStep, NotStep DEF Step
<1>3. CASE Body \/ Function \/ Subshell \/ Substitution
  BY <1>3, BodyStep, FunctionStep, SubshellStep, SubstitutionStep DEF Step
<1>4. CASE If \/ LoopCondition \/ LoopLeft \/ LoopAgain
  BY <1>4, IfStep, LoopConditionStep, LoopLeftStep, LoopAgainStep DEF Step
<1>5. CASE ForNext \/ ForFails \/ ProgramEnds
  BY <1>5, ForNextStep, ForFailsStep, ProgramEndsStep DEF Step
<1>6. CASE UNCHANGED vars
  BY <1>6 DEF vars, IInv, Rest, JumpKnown, Top
<1> QED
  BY <1>1, <1>2, <1>3, <1>4, <1>5, <1>6 DEF Next, Deliver, Terminated

LEMMA Invariance == Spec => []IInv
  BY InitInv, NextStep, PTL DEF Spec

\* Flow results, frames and the stack of compound commands have their types.
THEOREM TypeCorrect == Spec => []TypeOK
<1>1. IInv => TypeOK
  BY DEF IInv, StackOK, Rest, ResultOK, TypeOK
<1> QED
  BY <1>1, Invariance, PTL

\* However deep conditions, clones and jumps are nested: outside of conditions
\* errexit is what the script set it to outside of conditions.
THEOREM ErrexitRestored == Spec => []ErrexitAsSet
<1>1. IInv => ErrexitAsSet
  BY DEF IInv, Keeps, ErrexitAsSet, InCondition, InConditionOf
<1> QED
  BY <1>1, Invariance, PTL

\* For any depth and any N of break N and continue N: a jump is consumed where
\* it was to arrive when it was issued.
THEOREM JumpsConsumed == Spec => JumpsArrive
<1>1. IInv /\ [Next]_vars =>
        [result.kind # "none" /\ (result'.kind = "none" \/ mode' = "done")
           => Len(stack) = jump.target]_vars
  BY NextStep DEF Arrives
<1> QED
  BY <1>1, Invariance, PTL DEF Spec, JumpsArrive

=============================================================================
