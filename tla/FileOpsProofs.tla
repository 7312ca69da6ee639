--------------------------- MODULE FileOpsProofs ----------------------------
(***************************************************************************)
(* For any names, depth of paths, number of entries and operands, and      *)
(* whatever calls fail: the types; and, when cp and mv are not given the   *)
(* same file twice, that the operands survive, that -n loses nothing, that *)
(* nothing else is touched, and that success means every file is in place. *)
(*                                                                         *)
(* Lemmas on paths and on what a path names come first, then what each     *)
(* call does to a tree, the types, the inductive invariant, and each step. *)
(***************************************************************************)
EXTENDS FileOps, SequenceTheorems, FiniteSetTheorems, WellFoundedInduction, TLAPS

AnyPath == Seq(Names)

-----------------------------------------------------------------------------
(* Induction over naturals and over paths, for sets. *)

LEMMA LeastOf ==
  ASSUME NEW n \in Nat, NEW S, S \subseteq 1..n, S # {}
  PROVE  \E i \in S : \A j \in S : i <= j
<1> DEFINE T == {1..i : i \in S}
<1>1. IsFiniteSet(1..n)
  BY FS_Interval
<1>2. T \subseteq FiniteSubsetsOf(1..n)
  <2> SUFFICES ASSUME NEW i \in S PROVE 1..i \in FiniteSubsetsOf(1..n)
    OBVIOUS
  <2>1. 1..i \in SUBSET (1..n)
    OBVIOUS
  <2> QED
    BY <1>1, <2>1, FS_Subset DEF FiniteSubsetsOf
<1>3. T # {}
  OBVIOUS
<1>4. PICK t \in T : \A u \in T : ~ (<<u, t>> \in StrictSubsetOrdering(1..n))
  <2> HIDE DEF T
  <2> QED
    BY <1>2, <1>3, FS_StrictSubsetOrderingWellFounded, WFMin
<1>5. PICK i \in S : t = 1..i
  BY <1>4
<1>6. \A j \in S : i <= j
  <2> SUFFICES ASSUME NEW j \in S, j < i PROVE FALSE
    OBVIOUS
  <2>1. 1..j \in SUBSET (1..n) /\ t \in SUBSET (1..n) /\ 1..j \in T
    BY <1>5
  <2>2. 1..j \subseteq t /\ 1..j # t
    <3>1. i \in t /\ i \notin 1..j
      BY <1>5
    <3> QED
      BY <1>5, <3>1
  <2> QED
    BY <1>4, <2>1, <2>2 DEF StrictSubsetOrdering
<1> QED
  BY <1>6

LEMMA NatInduct ==
  ASSUME NEW X, 0 \in X, \A n \in Nat : n \in X => n + 1 \in X
  PROVE  \A n \in Nat : n \in X
<1> SUFFICES ASSUME NEW n \in Nat, n \notin X PROVE FALSE
  OBVIOUS
<1> DEFINE S == {i \in 1..n : i \notin X}
<1>1. S \subseteq 1..n /\ n \in S
  OBVIOUS
<1>2. PICK i \in S : \A j \in S : i <= j
  <2> HIDE DEF S
  <2> QED
    BY <1>1, LeastOf
<1>3. i \in Nat /\ i - 1 \in Nat /\ i \notin X
  BY <1>2
<1>4. i - 1 \in X
  <2>1. CASE i = 1
    BY <2>1
  <2>2. CASE i # 1
    <3>1. i - 1 \in 1..n /\ ~ (i <= i - 1)
      BY <1>2, <2>2
    <3> QED
      BY <1>2, <3>1
  <2> QED
    BY <2>1, <2>2
<1>5. (i - 1) + 1 = i
  BY <1>3
<1> QED
  BY <1>3, <1>4, <1>5

LEMMA FrontProperties ==
  ASSUME NEW S, NEW s \in Seq(S), s # << >>
  PROVE  /\ Front(s) \in Seq(S) /\ Len(Front(s)) = Len(s) - 1
         /\ \A i \in 1..(Len(s) - 1) : Front(s)[i] = s[i]
         /\ Len(s) \in Nat \ {0} /\ Last(s) = s[Len(s)] /\ Last(s) \in S
         /\ Append(Front(s), Last(s)) = s
<1> DEFINE n == Len(s) - 1
<1>1. Len(s) \in Nat \ {0} /\ n \in Nat /\ \A i \in 1..Len(s) : s[i] \in S
  OBVIOUS
<1>2. Last(s) = s[Len(s)] /\ Last(s) \in S
  BY <1>1 DEF Last
<1>3. \A i \in 1..n : s[i] \in S
  BY <1>1
<1>4. Front(s) = SubSeq(s, 1, n)
  BY DEF Front
<1> HIDE DEF n
<1>5. /\ SubSeq(s, 1, n) \in Seq(S)
      /\ Len(SubSeq(s, 1, n)) = IF 1 <= n THEN n - 1 + 1 ELSE 0
      /\ \A i \in 1..(n - 1 + 1) : SubSeq(s, 1, n)[i] = s[1 + i - 1]
  BY <1>1, <1>3, SubSeqProperties
<1>6. /\ Front(s) \in Seq(S) /\ Len(Front(s)) = n
      /\ \A i \in 1..n : Front(s)[i] = s[i]
  BY <1>1, <1>4, <1>5
<1>7. Append(Front(s), Last(s)) = s
  <2>1. /\ Append(Front(s), Last(s)) \in Seq(S)
        /\ Len(Append(Front(s), Last(s))) = n + 1
        /\ \A i \in 1..n : Append(Front(s), Last(s))[i] = Front(s)[i]
        /\ Append(Front(s), Last(s))[n + 1] = Last(s)
    BY <1>2, <1>6, AppendProperties
  <2>2. n + 1 = Len(s) /\ \A i \in 1..Len(s) : i \in 1..n \/ i = n + 1
    BY <1>1 DEF n
  <2> QED
    BY <1>2, <1>6, <2>1, <2>2, SeqEqual
<1> QED
  BY <1>1, <1>2, <1>6, <1>7 DEF n

LEMMA FrontOfAppend ==
  ASSUME NEW S, NEW s \in Seq(S), NEW e \in S
  PROVE  /\ Append(s, e) \in Seq(S) /\ Append(s, e) # << >>
         /\ Front(Append(s, e)) = s /\ Last(Append(s, e)) = e
         /\ Len(Append(s, e)) = Len(s) + 1
<1> DEFINE a == Append(s, e)
<1>1. /\ a \in Seq(S) /\ a # << >> /\ Len(a) = Len(s) + 1
      /\ \A i \in 1..Len(s) : a[i] = s[i]
      /\ a[Len(s) + 1] = e
  BY AppendProperties
<1> HIDE DEF a
<1>2. /\ Front(a) \in Seq(S) /\ Len(Front(a)) = Len(a) - 1
      /\ \A i \in 1..(Len(a) - 1) : Front(a)[i] = a[i]
      /\ Last(a) = a[Len(a)]
  BY <1>1, FrontProperties
<1>3. Len(a) - 1 = Len(s)
  BY <1>1
<1>4. Front(a) = s
  BY <1>1, <1>2, <1>3, SeqEqual
<1> QED
  BY <1>1, <1>2, <1>4 DEF a

LEMMA PathInduct ==
  ASSUME NEW X, Root \in X,
         \A p \in AnyPath : p # Root /\ Front(p) \in X => p \in X
  PROVE  \A p \in AnyPath : p \in X
<1> DEFINE L == {n \in Nat : \A p \in AnyPath : Len(p) = n => p \in X}
<1>1. 0 \in L
  BY EmptySeq DEF AnyPath, Root
<1>2. \A n \in Nat : n \in L => n + 1 \in L
  <2> SUFFICES ASSUME NEW n \in Nat, n \in L, NEW p \in AnyPath, Len(p) = n + 1
               PROVE  p \in X
    OBVIOUS
  <2>1. p # Root
    BY DEF Root
  <2>2. Front(p) \in AnyPath /\ Len(Front(p)) = n
    <3>1. Front(p) \in AnyPath /\ Len(Front(p)) = Len(p) - 1
      BY <2>1, FrontProperties DEF AnyPath, Root
    <3> QED
      BY <3>1
  <2> QED
    BY <2>1, <2>2
<1>3. \A n \in Nat : n \in L
  <2> HIDE DEF L
  <2> QED
    BY <1>1, <1>2, NatInduct
<1> QED
  BY <1>3 DEF AnyPath

-----------------------------------------------------------------------------
(* Paths and prefixes. *)

LEMMA PathIs ==
  ASSUME NEW p
  PROVE  p \in Paths <=> p \in AnyPath /\ Len(p) <= MaxDepth
<1>1. ASSUME p \in Paths PROVE p \in AnyPath /\ Len(p) <= MaxDepth
  <2>1. PICK n \in 0..MaxDepth : p \in [1..n -> Names]
    BY <1>1 DEF Paths
  <2>2. MaxDepth \in Nat /\ n \in Nat /\ n <= MaxDepth
    BY DepthAssumption
  <2>3. p \in Seq(Names) /\ Len(p) = n
    BY <2>1, <2>2
  <2> QED
    BY <2>2, <2>3 DEF AnyPath
<1>2. ASSUME p \in AnyPath, Len(p) <= MaxDepth PROVE p \in Paths
  <2>1. Len(p) \in 0..MaxDepth /\ p \in [1..Len(p) -> Names]
    BY <1>2, DepthAssumption, LenProperties DEF AnyPath
  <2> QED
    BY <2>1 DEF Paths
<1> QED
  BY <1>1, <1>2

LEMMA RootIsPath == Root \in Paths /\ Root \in AnyPath /\ Len(Root) = 0
<1>1. Root \in AnyPath /\ Len(Root) = 0
  BY EmptySeq DEF AnyPath, Root
<1> QED
  BY <1>1, PathIs, DepthAssumption

LEMMA PrefixIs ==
  ASSUME NEW p \in AnyPath, NEW q \in AnyPath
  PROVE  IsPrefix(p, q) <=> Len(p) <= Len(q) /\ \A i \in 1..Len(p) : p[i] = q[i]
<1> DEFINE n == Len(p)
<1>1. n \in Nat /\ Len(q) \in Nat
  BY DEF AnyPath
<1>2. SubSeq(p, 1, n) = p
  BY SubSeqFull DEF AnyPath
<1>3. ASSUME n <= Len(q)
      PROVE  /\ SubSeq(q, 1, n) \in Seq(Names) /\ Len(SubSeq(q, 1, n)) = n
             /\ \A i \in 1..n : SubSeq(q, 1, n)[i] = q[i]
  <2>1. \A i \in 1..n : q[i] \in Names
    BY <1>1, <1>3 DEF AnyPath
  <2>2. /\ SubSeq(q, 1, n) \in Seq(Names)
        /\ Len(SubSeq(q, 1, n)) = IF 1 <= n THEN n - 1 + 1 ELSE 0
        /\ \A i \in 1..(n - 1 + 1) : SubSeq(q, 1, n)[i] = q[1 + i - 1]
    <3> HIDE DEF n
    <3> QED
      BY <1>1, <2>1, SubSeqProperties
  <2> HIDE DEF n
  <2> QED
    BY <1>1, <2>2
<1>4. ASSUME n <= Len(q), \A i \in 1..n : p[i] = q[i]
      PROVE  SubSeq(q, 1, n) = p
  BY <1>3, <1>4, SeqEqual DEF AnyPath
<1> QED
  BY <1>1, <1>2, <1>3, <1>4 DEF IsPrefix

LEMMA PathParts ==
  ASSUME NEW p \in AnyPath
  PROVE  /\ Len(p) \in Nat /\ (Len(p) = 0 <=> p = Root)
         /\ \A i \in 1..Len(p) : p[i] \in Names
BY EmptySeq DEF AnyPath, Root

LEMMA PrefixOrder ==
  ASSUME NEW p \in AnyPath, NEW q \in AnyPath, NEW r \in AnyPath
  PROVE  /\ IsPrefix(p, p) /\ IsPrefix(Root, p)
         /\ IsPrefix(p, q) /\ IsPrefix(q, r) => IsPrefix(p, r)
         /\ IsPrefix(p, q) /\ IsPrefix(q, p) => p = q
         /\ IsPrefix(p, r) /\ IsPrefix(q, r) => IsPrefix(p, q) \/ IsPrefix(q, p)
<1>1. Len(p) \in Nat /\ Len(q) \in Nat /\ Len(r) \in Nat
  BY PathParts
<1>2. IsPrefix(p, p) /\ IsPrefix(Root, p)
  BY <1>1, PrefixIs, RootIsPath
<1>3. IsPrefix(p, q) /\ IsPrefix(q, r) => IsPrefix(p, r)
  BY <1>1, PrefixIs
<1>4. IsPrefix(p, q) /\ IsPrefix(q, p) => p = q
  BY <1>1, PrefixIs, SeqEqual DEF AnyPath
<1>5. IsPrefix(p, r) /\ IsPrefix(q, r) => IsPrefix(p, q) \/ IsPrefix(q, p)
  BY <1>1, PrefixIs
<1> QED
  BY <1>2, <1>3, <1>4, <1>5

LEMMA PathFront ==
  ASSUME NEW p \in AnyPath, p # Root
  PROVE  /\ Front(p) \in AnyPath /\ Last(p) \in Names
         /\ Append(Front(p), Last(p)) = p
         /\ Len(Front(p)) = Len(p) - 1 /\ Len(p) \in Nat \ {0}
         /\ p \in Paths => Front(p) \in Paths
         /\ IsPrefix(Front(p), p) /\ ~ IsPrefix(p, Front(p)) /\ Front(p) # p
<1>1. /\ Front(p) \in AnyPath /\ Last(p) \in Names
      /\ Append(Front(p), Last(p)) = p
      /\ Len(Front(p)) = Len(p) - 1 /\ Len(p) \in Nat \ {0}
      /\ \A i \in 1..(Len(p) - 1) : Front(p)[i] = p[i]
  BY FrontProperties DEF AnyPath, Root
<1>2. p \in Paths => Front(p) \in Paths
  BY <1>1, PathIs, DepthAssumption
<1>3. IsPrefix(Front(p), p) /\ ~ IsPrefix(p, Front(p))
  BY <1>1, PrefixIs
<1> QED
  BY <1>1, <1>2, <1>3, PrefixOrder

LEMMA PathAppend ==
  ASSUME NEW p \in AnyPath, NEW n \in Names
  PROVE  /\ Append(p, n) \in AnyPath /\ Append(p, n) # Root
         /\ Front(Append(p, n)) = p /\ Last(Append(p, n)) = n
         /\ Len(Append(p, n)) = Len(p) + 1
BY FrontOfAppend DEF AnyPath, Root

\* Strictly below p is below or at p with a parent.
LEMMA PrefixFront ==
  ASSUME NEW p \in AnyPath, NEW q \in AnyPath
  PROVE  /\ IsPrefix(p, q) /\ p # q => q # Root /\ IsPrefix(p, Front(q))
         /\ q # Root /\ IsPrefix(p, Front(q)) => IsPrefix(p, q) /\ p # q
<1>1. ASSUME IsPrefix(p, q), p # q PROVE q # Root /\ IsPrefix(p, Front(q))
  <2>1. Len(p) \in Nat /\ Len(q) \in Nat /\ Len(p) <= Len(q)
        /\ \A i \in 1..Len(p) : p[i] = q[i]
    BY <1>1, PrefixIs, PathParts
  <2>2. Len(p) < Len(q)
    <3> SUFFICES ASSUME Len(p) = Len(q) PROVE FALSE
      BY <2>1
    <3> QED
      BY <1>1, <2>1, SeqEqual DEF AnyPath
  <2>3. q # Root
    BY <2>1, <2>2, PathParts
  <2>4. /\ Front(q) \in AnyPath /\ Len(Front(q)) = Len(q) - 1
        /\ \A i \in 1..(Len(q) - 1) : Front(q)[i] = q[i]
    BY <2>3, FrontProperties DEF AnyPath, Root
  <2> QED
    BY <2>1, <2>2, <2>3, <2>4, PrefixIs
<1>2. ASSUME q # Root, IsPrefix(p, Front(q)) PROVE IsPrefix(p, q) /\ p # q
  BY <1>2, PathFront, PrefixOrder
<1> QED
  BY <1>1, <1>2

-----------------------------------------------------------------------------
(* Paths put together. *)

\* c is p followed by r.
IsJoin(c, p, r) ==
  /\ c \in AnyPath /\ Len(c) = Len(p) + Len(r)
  /\ \A i \in 1..Len(p) : c[i] = p[i]
  /\ \A i \in 1..Len(r) : c[i + Len(p)] = r[i]

LEMMA Concatenated ==
  ASSUME NEW p \in AnyPath, NEW r \in AnyPath
  PROVE  IsJoin(p \o r, p, r)
<1>1. PICK c : c = p \o r
  OBVIOUS
<1>2. /\ c \in AnyPath /\ Len(c) = Len(p) + Len(r)
      /\ Len(p) \in Nat /\ Len(r) \in Nat
      /\ \A i \in 1..Len(p) + Len(r) : c[i] = IF i <= Len(p) THEN p[i] ELSE r[i - Len(p)]
  BY <1>1, ConcatProperties, PathParts DEF AnyPath
<1>3. ASSUME NEW i \in 1..Len(r) PROVE c[i + Len(p)] = r[i]
  <2>1. /\ i + Len(p) \in 1..Len(p) + Len(r)
        /\ ~ (i + Len(p) <= Len(p)) /\ (i + Len(p)) - Len(p) = i
    BY <1>2
  <2> QED
    BY <1>2, <2>1
<1>4. ASSUME NEW i \in 1..Len(p) PROVE c[i] = p[i]
  BY <1>2
<1> QED
  BY <1>1, <1>2, <1>3, <1>4 DEF IsJoin

LEMMA JoinedPrefix ==
  ASSUME NEW p \in AnyPath, NEW r \in AnyPath, NEW s \in AnyPath
  PROVE  IsPrefix(p \o r, p \o s) <=> IsPrefix(r, s)
<1>1. PICK c : c = p \o r
  OBVIOUS
<1>2. PICK d : d = p \o s
  OBVIOUS
<1> IsJoin(c, p, r) /\ IsJoin(d, p, s)
  BY <1>1, <1>2, Concatenated
<1>3. /\ c \in AnyPath /\ Len(c) = Len(p) + Len(r)
      /\ \A i \in 1..Len(p) : c[i] = p[i]
      /\ \A i \in 1..Len(r) : c[i + Len(p)] = r[i]
  BY DEF IsJoin
<1>4. /\ d \in AnyPath /\ Len(d) = Len(p) + Len(s)
      /\ \A i \in 1..Len(p) : d[i] = p[i]
      /\ \A i \in 1..Len(s) : d[i + Len(p)] = s[i]
  BY DEF IsJoin
<1>5. Len(p) \in Nat /\ Len(r) \in Nat /\ Len(s) \in Nat
  BY PathParts
<1>6. ASSUME IsPrefix(c, d) PROVE IsPrefix(r, s)
  <2>1. Len(c) <= Len(d) /\ \A i \in 1..Len(c) : c[i] = d[i]
    BY <1>3, <1>4, <1>6, PrefixIs
  <2>2. Len(r) <= Len(s)
    BY <1>3, <1>4, <1>5, <2>1
  <2>3. ASSUME NEW i \in 1..Len(r) PROVE r[i] = s[i]
    <3>1. i + Len(p) \in 1..Len(c) /\ i \in 1..Len(s)
      BY <1>3, <1>5, <2>2
    <3> QED
      BY <1>3, <1>4, <2>1, <3>1
  <2> QED
    BY <2>2, <2>3, PrefixIs
<1>7. ASSUME IsPrefix(r, s) PROVE IsPrefix(c, d)
  <2>1. Len(r) <= Len(s) /\ \A i \in 1..Len(r) : r[i] = s[i]
    BY <1>7, PrefixIs
  <2>2. ASSUME NEW i \in 1..Len(c) PROVE c[i] = d[i]
    <3>1. CASE i <= Len(p)
      <4>1. i \in 1..Len(p)
        BY <1>5, <3>1
      <4> QED
        BY <1>3, <1>4, <4>1
    <3>2. CASE ~ (i <= Len(p))
      <4>1. PICK j : j = i - Len(p)
        OBVIOUS
      <4>2. j \in 1..Len(r) /\ j \in 1..Len(s) /\ j + Len(p) = i
        BY <1>3, <1>5, <2>1, <3>2, <4>1
      <4>3. c[j + Len(p)] = r[j] /\ d[j + Len(p)] = s[j] /\ r[j] = s[j]
        BY <1>3, <1>4, <2>1, <4>2
      <4> QED
        BY <4>2, <4>3
    <3> QED
      BY <3>1, <3>2
  <2>3. Len(c) <= Len(d)
    BY <1>3, <1>4, <1>5, <2>1
  <2> QED
    BY <1>3, <1>4, <2>2, <2>3, PrefixIs
<1> QED
  BY <1>1, <1>2, <1>6, <1>7

LEMMA Joined ==
  ASSUME NEW p \in AnyPath, NEW r \in AnyPath
  PROVE  /\ p \o r \in AnyPath /\ Len(p \o r) = Len(p) + Len(r)
         /\ p \o Root = p /\ (p \o r = p <=> r = Root)
         /\ p # Root \/ r # Root => p \o r # Root
         /\ IsPrefix(p, p \o r)
<1>1. PICK c : c = p \o r
  OBVIOUS
<1> IsJoin(c, p, r)
  BY <1>1, Concatenated
<1>2. /\ c \in AnyPath /\ Len(c) = Len(p) + Len(r)
      /\ \A i \in 1..Len(p) : c[i] = p[i]
      /\ Len(p) \in Nat /\ Len(r) \in Nat
  BY PathParts DEF IsJoin
<1>3. p \o Root = p /\ (p \o r = p <=> r = Root)
  BY ConcatEmptySeq, ConcatEqualIffEmpty DEF AnyPath, Root
<1>4. p # Root \/ r # Root => p \o r # Root
  BY ConcatEqualIffEmpty DEF AnyPath, Root
<1>5. IsPrefix(p, c)
  BY <1>2, PrefixIs
<1> QED
  BY <1>1, <1>2, <1>3, <1>4, <1>5

LEMMA JoinedSame ==
  ASSUME NEW p \in AnyPath, NEW r \in AnyPath, NEW s \in AnyPath
  PROVE  p \o r = p \o s => r = s
<1> SUFFICES ASSUME p \o r = p \o s PROVE r = s
  OBVIOUS
<1>1. IsPrefix(p \o r, p \o s) /\ IsPrefix(p \o s, p \o r)
  <2>1. PICK c : c = p \o r /\ c = p \o s
    OBVIOUS
  <2>2. IsPrefix(c, c)
    BY <2>1, Concatenated, PrefixOrder DEF IsJoin
  <2> QED
    BY <2>1, <2>2
<1>2. IsPrefix(r, s) /\ IsPrefix(s, r)
  BY <1>1, JoinedPrefix
<1> QED
  BY <1>2, PrefixOrder

LEMMA JoinedFront ==
  ASSUME NEW p \in AnyPath, NEW r \in AnyPath, r # Root
  PROVE  Front(p \o r) = p \o Front(r) /\ Last(p \o r) = Last(r)
<1>1. r = Append(Front(r), Last(r)) /\ Front(r) \in AnyPath /\ Last(r) \in Names
  BY PathFront
<1>2. p \o r = Append(p \o Front(r), Last(r))
  <2>1. r = Front(r) \o <<Last(r)>>
    BY <1>1, AppendIsConcat DEF AnyPath
  <2>2. <<Last(r)>> \in Seq(Names) /\ p \o Front(r) \in Seq(Names)
    BY <1>1, Joined DEF AnyPath
  <2>3. (p \o Front(r)) \o <<Last(r)>> = p \o (Front(r) \o <<Last(r)>>)
    <3>1. p \in Seq(Names) /\ Front(r) \in Seq(Names)
      BY <1>1 DEF AnyPath
    <3> QED
      BY <2>2, <3>1, ConcatAssociative
  <2>4. Append(p \o Front(r), Last(r)) = (p \o Front(r)) \o <<Last(r)>>
    BY <1>1, <2>2, AppendIsConcat
  <2> QED
    BY <2>1, <2>3, <2>4
<1>3. PICK c : c = p \o Front(r)
  OBVIOUS
<1>4. c \in AnyPath
  BY <1>1, <1>3, Concatenated DEF IsJoin
<1>5. PICK n : n = Last(r)
  OBVIOUS
<1>6. Front(Append(c, n)) = c /\ Last(Append(c, n)) = n
  BY <1>1, <1>4, <1>5, PathAppend
<1> QED
  BY <1>2, <1>3, <1>5, <1>6

LEMMA JoinedAppend ==
  ASSUME NEW p \in AnyPath, NEW r \in AnyPath, NEW n \in Names
  PROVE  Append(p \o r, n) = p \o Append(r, n)
<1>1. Append(r, n) \in AnyPath /\ Append(r, n) # Root /\ Front(Append(r, n)) = r
      /\ Last(Append(r, n)) = n
  BY PathAppend
<1>2. Front(p \o Append(r, n)) = p \o r /\ Last(p \o Append(r, n)) = n
  BY <1>1, JoinedFront
<1>3. p \o Append(r, n) \in AnyPath /\ p \o Append(r, n) # Root
  BY <1>1, Joined
<1> QED
  BY <1>2, <1>3, PathFront

LEMMA RestOf ==
  ASSUME NEW p \in AnyPath, NEW q \in AnyPath, IsPrefix(p, q)
  PROVE  /\ SubSeq(q, Len(p) + 1, Len(q)) \in AnyPath
         /\ q = p \o SubSeq(q, Len(p) + 1, Len(q))
<1> DEFINE n == Len(p)
           m == Len(q)
           r == SubSeq(q, n + 1, m)
<1>1. n \in Nat /\ m \in Nat /\ n <= m /\ \A i \in 1..n : p[i] = q[i]
  BY PrefixIs, PathParts
<1>2. /\ r \in AnyPath /\ Len(r) = m - n
      /\ \A i \in 1..(m - n) : r[i] = q[n + i]
  <2>1. \A i \in (n + 1)..m : q[i] \in Names
    BY <1>1 DEF AnyPath
  <2> HIDE DEF n, m
  <2>2. /\ SubSeq(q, n + 1, m) \in Seq(Names)
        /\ Len(SubSeq(q, n + 1, m)) = IF n + 1 <= m THEN m - (n + 1) + 1 ELSE 0
        /\ \A i \in 1..(m - (n + 1) + 1) : SubSeq(q, n + 1, m)[i] = q[(n + 1) + i - 1]
    BY <1>1, <2>1, SubSeqProperties
  <2>3. m - (n + 1) + 1 = m - n /\ \A i \in 1..(m - n) : (n + 1) + i - 1 = n + i
    BY <1>1
  <2>4. (IF n + 1 <= m THEN m - (n + 1) + 1 ELSE 0) = m - n
    BY <1>1
  <2> QED
    BY <2>2, <2>3, <2>4 DEF AnyPath
<1> HIDE DEF r
<1>3. /\ p \o r \in AnyPath /\ Len(p \o r) = m
      /\ \A i \in 1..m : (p \o r)[i] = IF i <= n THEN p[i] ELSE r[i - n]
  <2>1. /\ p \o r \in Seq(Names) /\ Len(p \o r) = Len(p) + Len(r)
        /\ \A i \in 1..Len(p) + Len(r) :
             (p \o r)[i] = IF i <= Len(p) THEN p[i] ELSE r[i - Len(p)]
    BY <1>2, ConcatProperties DEF AnyPath
  <2>2. Len(p) + Len(r) = m
    BY <1>1, <1>2
  <2> QED
    BY <2>1, <2>2 DEF AnyPath
<1>4. \A i \in 1..m : (p \o r)[i] = q[i]
  <2> SUFFICES ASSUME NEW i \in 1..m PROVE (p \o r)[i] = q[i]
    OBVIOUS
  <2>1. CASE i <= n
    BY <1>1, <1>3, <2>1
  <2>2. CASE ~ (i <= n)
    <3>1. i - n \in 1..(m - n) /\ n + (i - n) = i
      BY <1>1, <2>2
    <3> QED
      BY <1>2, <1>3, <2>2, <3>1
  <2> QED
    BY <2>1, <2>2
<1>5. p \o r = q
  BY <1>3, <1>4, SeqEqual DEF AnyPath
<1> QED
  BY <1>2, <1>5 DEF r

-----------------------------------------------------------------------------
(* Resolution. *)

IsWalk(t, p, w) ==
  w = [i \in 0..Len(p) |-> IF i = 0 THEN Root ELSE Entered(t, w[i - 1], p[i])]

LEMMA WalkExists ==
  ASSUME NEW t, NEW q \in AnyPath
  PROVE  \E w : IsWalk(t, q, w)
<1> DEFINE X == {p \in AnyPath : \E w : IsWalk(t, p, w)}
<1>1. Root \in X
  <2> DEFINE w == [i \in 0..0 |-> Root]
  <2>1. IsWalk(t, Root, w)
    BY RootIsPath DEF IsWalk
  <2> QED
    BY <2>1, RootIsPath
<1>2. ASSUME NEW p \in AnyPath, p # Root, Front(p) \in X PROVE p \in X
  <2> DEFINE n == Len(p)
  <2>1. /\ Front(p) \in AnyPath /\ Len(Front(p)) = n - 1 /\ n \in Nat \ {0}
        /\ \A i \in 1..(n - 1) : Front(p)[i] = p[i]
    BY <1>2, FrontProperties DEF AnyPath, Root
  <2>2. PICK v : IsWalk(t, Front(p), v)
    BY <1>2
  <2>3. PICK w : w = [i \in 0..n |-> IF i < n THEN v[i] ELSE Entered(t, v[n - 1], p[n])]
    OBVIOUS
  <2>4. \A i \in 0..(n - 1) :
          v[i] = IF i = 0 THEN Root ELSE Entered(t, v[i - 1], Front(p)[i])
    BY <2>1, <2>2 DEF IsWalk
  <2>5. ASSUME NEW i \in 0..n
        PROVE  w[i] = IF i = 0 THEN Root ELSE Entered(t, w[i - 1], p[i])
    <3>1. CASE i = 0
      BY <2>1, <2>3, <2>4, <3>1
    <3>2. CASE i # 0 /\ i < n
      <4>1. i \in 0..(n - 1) /\ i - 1 \in 0..n /\ i - 1 < n /\ i \in 1..(n - 1)
        BY <2>1, <3>2
      <4>2. w[i] = v[i] /\ w[i - 1] = v[i - 1] /\ Front(p)[i] = p[i]
        BY <2>1, <2>3, <3>2, <4>1
      <4> QED
        BY <2>4, <3>2, <4>1, <4>2
    <3>3. CASE i = n
      <4>1. i # 0 /\ n - 1 \in 0..n /\ n - 1 < n /\ n \in 0..n
        BY <2>1, <3>3
      <4> QED
        BY <2>3, <3>3, <4>1
    <3> QED
      BY <2>1, <3>1, <3>2, <3>3
  <2>6. w = [i \in 0..n |-> IF i = 0 THEN Root ELSE Entered(t, w[i - 1], p[i])]
    <3>1. w = [i \in 0..n |-> w[i]]
      BY <2>3
    <3> QED
      BY <2>5, <3>1
  <2>7. IsWalk(t, p, w)
    BY <2>6 DEF IsWalk
  <2> QED
    BY <2>7
<1>3. \A p \in AnyPath : p \in X
  <2> HIDE DEF X
  <2> QED
    BY <1>1, <1>2, PathInduct
<1> QED
  BY <1>3

LEMMA FollowedIs ==
  ASSUME NEW t, NEW p \in AnyPath
  PROVE  \E w : IsWalk(t, p, w) /\ Followed(t, p) = w[Len(p)]
<1>1. PICK w : w = CHOOSE at : IsWalk(t, p, at)
  OBVIOUS
<1>2. IsWalk(t, p, w)
  BY <1>1, WalkExists
<1>3. Followed(t, p) = w[Len(p)]
  BY <1>1 DEF Followed, IsWalk
<1> QED
  BY <1>2, <1>3

LEMMA FollowedRoot ==
  ASSUME NEW t
  PROVE  Followed(t, Root) = Root
<1>1. PICK w : IsWalk(t, Root, w) /\ Followed(t, Root) = w[Len(Root)]
  BY RootIsPath, FollowedIs
<1> QED
  BY <1>1, RootIsPath DEF IsWalk

LEMMA FollowedStep ==
  ASSUME NEW t, NEW p \in AnyPath, p # Root
  PROVE  Followed(t, p) = Entered(t, Followed(t, Front(p)), Last(p))
<1> DEFINE n == Len(p)
<1>1. /\ Front(p) \in AnyPath /\ Len(Front(p)) = n - 1 /\ n \in Nat \ {0}
      /\ \A i \in 1..(n - 1) : Front(p)[i] = p[i]
      /\ Last(p) = p[n]
  BY FrontProperties DEF AnyPath, Root
<1>2. PICK w : IsWalk(t, p, w) /\ Followed(t, p) = w[n]
  BY FollowedIs
<1>3. PICK v : IsWalk(t, Front(p), v) /\ Followed(t, Front(p)) = v[n - 1]
  BY <1>1, FollowedIs
<1>4. \A i \in 0..n : w[i] = IF i = 0 THEN Root ELSE Entered(t, w[i - 1], p[i])
  BY <1>2 DEF IsWalk
<1>5. \A i \in 0..(n - 1) : v[i] = IF i = 0 THEN Root ELSE Entered(t, v[i - 1], Front(p)[i])
  BY <1>1, <1>3 DEF IsWalk
<1> DEFINE X == {i \in Nat : i <= n - 1 => w[i] = v[i]}
<1>6. 0 \in X
  BY <1>1, <1>4, <1>5
<1>7. ASSUME NEW i \in Nat, i \in X PROVE i + 1 \in X
  <2> SUFFICES ASSUME i + 1 <= n - 1 PROVE w[i + 1] = v[i + 1]
    OBVIOUS
  <2>1. /\ i + 1 \in 0..n /\ i + 1 \in 0..(n - 1) /\ i + 1 \in 1..(n - 1)
        /\ i + 1 # 0 /\ (i + 1) - 1 = i /\ i <= n - 1
    BY <1>1
  <2>2. w[i] = v[i]
    BY <1>7, <2>1
  <2>3. w[i + 1] = Entered(t, w[i], p[i + 1])
    BY <1>4, <2>1
  <2>4. v[i + 1] = Entered(t, v[i], Front(p)[i + 1])
    BY <1>5, <2>1
  <2> QED
    BY <1>1, <2>1, <2>2, <2>3, <2>4
<1>8. \A i \in Nat : i \in X
  <2> HIDE DEF X
  <2> QED
    BY <1>6, <1>7, NatInduct
<1>9. w[n - 1] = v[n - 1]
  BY <1>1, <1>8
<1>10. w[n] = Entered(t, w[n - 1], p[n])
  BY <1>1, <1>4
<1> QED
  BY <1>1, <1>2, <1>3, <1>9, <1>10

-----------------------------------------------------------------------------
(* Trees. *)

IsTree(t) == t \in [Paths -> Node] /\ WellFormed(t)

LEMMA NodesAre ==
  /\ Absent \in Node /\ Dir \in Node /\ Torn \in Node
  /\ Absent.kind = "absent" /\ Dir.kind = "dir" /\ Torn.kind = "file" /\ ~ Torn.whole
  /\ \A p \in Paths : File(p) \in Node /\ File(p).kind = "file"
  /\ \A p \in Paths : Link(p) \in Node /\ Link(p).kind = "link" /\ Link(p).of = p
BY RootIsPath DEF Absent, Dir, Torn, File, Link, Node

LEMMA AtIs ==
  ASSUME NEW t \in [Paths -> Node], NEW p
  PROVE  /\ At(t, p) \in Node
         /\ At(t, p).kind \in {"absent", "dir", "file", "link"}
         /\ At(t, p).of \in AnyPath
         /\ Exists(At(t, p)) => p \in Paths /\ At(t, p) = t[p]
         /\ p \in Paths => At(t, p) = t[p]
<1>1. At(t, p) \in Node
  BY NodesAre DEF At
<1>2. \A n \in Node : n.kind \in {"absent", "dir", "file", "link"} /\ n.of \in Paths
  BY DEF Node
<1>3. At(t, p).of \in AnyPath
  BY <1>1, <1>2, PathIs
<1>4. p \notin Paths => At(t, p).kind = "absent"
  BY NodesAre DEF At
<1> QED
  BY <1>1, <1>2, <1>3, <1>4 DEF At, Exists

LEMMA ParentIsDir ==
  ASSUME NEW t, IsTree(t), NEW p \in Paths, p # Root, Exists(t[p])
  PROVE  Front(p) \in Paths /\ t[Front(p)].kind = "dir"
<1>1. Front(p) \in Paths
  BY PathIs, PathFront
<1> QED
  BY <1>1 DEF IsTree, WellFormed

\* What has an entry below it is a directory.
LEMMA AncestorsAreDirs ==
  ASSUME NEW t, IsTree(t), NEW p \in AnyPath, NEW q \in AnyPath,
         p \in Paths, Exists(t[p]), IsPrefix(q, p), q # p
  PROVE  q \in Paths /\ t[q].kind = "dir"
<1> DEFINE X == {r \in AnyPath : r \in Paths /\ Exists(t[r]) /\ IsPrefix(q, r) /\ q # r
                                   => q \in Paths /\ t[q].kind = "dir"}
<1>1. Root \in X
  BY PrefixFront, RootIsPath
<1>2. ASSUME NEW r \in AnyPath, r # Root, Front(r) \in X PROVE r \in X
  <2> SUFFICES ASSUME r \in Paths, Exists(t[r]), IsPrefix(q, r), q # r
               PROVE  q \in Paths /\ t[q].kind = "dir"
    OBVIOUS
  <2>1. IsPrefix(q, Front(r)) /\ Front(r) \in AnyPath
    BY <1>2, PrefixFront, PathFront
  <2>2. Front(r) \in Paths /\ t[Front(r)].kind = "dir"
    BY <1>2, ParentIsDir
  <2>3. CASE q = Front(r)
    BY <2>2, <2>3
  <2>4. CASE q # Front(r)
    BY <1>2, <2>1, <2>2, <2>4 DEF Exists
  <2> QED
    BY <2>3, <2>4
<1>3. \A r \in AnyPath : r \in X
  <2> HIDE DEF X
  <2> QED
    BY <1>1, <1>2, PathInduct
<1> QED
  BY <1>3

-----------------------------------------------------------------------------
(* What a path names. *)

LEMMA EnteredType ==
  ASSUME NEW t \in [Paths -> Node], NEW q \in AnyPath, NEW n \in Names
  PROVE  /\ Entered(t, q, n) \in AnyPath
         /\ At(t, Append(q, n)).kind = "link" => Entered(t, q, n) = At(t, Append(q, n)).of
         /\ At(t, Append(q, n)).kind # "link" => Entered(t, q, n) = Append(q, n)
BY AtIs, PathAppend DEF Entered

LEMMA FollowedType ==
  ASSUME NEW t \in [Paths -> Node], NEW q \in AnyPath
  PROVE  Followed(t, q) \in AnyPath
<1> DEFINE X == {p \in AnyPath : Followed(t, p) \in AnyPath}
<1>1. Root \in X
  BY FollowedRoot, RootIsPath
<1>2. ASSUME NEW p \in AnyPath, p # Root, Front(p) \in X PROVE p \in X
  BY <1>2, FollowedStep, PathFront, EnteredType
<1>3. \A p \in AnyPath : p \in X
  <2> HIDE DEF X
  <2> QED
    BY <1>1, <1>2, PathInduct
<1> QED
  BY <1>3

LEMMA NamedIs ==
  ASSUME NEW t \in [Paths -> Node], NEW p \in AnyPath, p # Root
  PROVE  /\ Named(t, p) \in AnyPath /\ Named(t, p) # Root
         /\ Named(t, p) = Append(Followed(t, Front(p)), Last(p))
         /\ Front(Named(t, p)) = Followed(t, Front(p)) /\ Last(Named(t, p)) = Last(p)
         /\ At(t, Named(t, p)).kind = "link" => Followed(t, p) = At(t, Named(t, p)).of
         /\ At(t, Named(t, p)).kind # "link" => Followed(t, p) = Named(t, p)
<1>1. Front(p) \in AnyPath /\ Last(p) \in Names
  BY PathFront
<1>2. PICK f : f = Followed(t, Front(p))
  OBVIOUS
<1>3. f \in AnyPath
  BY <1>1, <1>2, FollowedType
<1>4. Named(t, p) = Append(f, Last(p))
  BY <1>2 DEF Named
<1>5. Followed(t, p) = Entered(t, f, Last(p))
  BY <1>2, FollowedStep
<1> QED
  BY <1>1, <1>2, <1>3, <1>4, <1>5, PathAppend, EnteredType

\* The same links, or none at B and below it.
SameLink(m, n) == m.kind = "link" \/ n.kind = "link" => m = n
SameLinks(t, u) == \A q \in Paths : SameLink(t[q], u[q])
CutLinks(t, u, B) ==
  \A q \in Paths : IF IsPrefix(B, q) THEN u[q].kind # "link" ELSE SameLink(t[q], u[q])

LEMMA EnteredSame ==
  ASSUME NEW t \in [Paths -> Node], NEW u \in [Paths -> Node],
         NEW q \in AnyPath, NEW n \in Names,
         Append(q, n) \in Paths => SameLink(t[Append(q, n)], u[Append(q, n)])
  PROVE  Entered(t, q, n) = Entered(u, q, n)
<1>1. CASE Append(q, n) \in Paths
  BY <1>1 DEF Entered, At, SameLink
<1>2. CASE Append(q, n) \notin Paths
  BY <1>2 DEF Entered, At
<1> QED
  BY <1>1, <1>2

LEMMA FollowedSame ==
  ASSUME NEW t \in [Paths -> Node], NEW u \in [Paths -> Node], SameLinks(t, u),
         NEW q \in AnyPath
  PROVE  Followed(t, q) = Followed(u, q) /\ Named(t, q) = Named(u, q)
<1> DEFINE X == {p \in AnyPath : Followed(t, p) = Followed(u, p)}
<1>1. Root \in X
  BY FollowedRoot, RootIsPath
<1>2. ASSUME NEW p \in AnyPath, p # Root, Front(p) \in X PROVE p \in X
  <2>1. Front(p) \in AnyPath /\ Last(p) \in Names
    BY <1>2, PathFront
  <2>2. PICK f : f = Followed(t, Front(p))
    OBVIOUS
  <2>3. f \in AnyPath /\ f = Followed(u, Front(p))
    BY <1>2, <2>1, <2>2, FollowedType
  <2>4. Append(f, Last(p)) \in Paths => SameLink(t[Append(f, Last(p))], u[Append(f, Last(p))])
    BY DEF SameLinks
  <2>5. Entered(t, f, Last(p)) = Entered(u, f, Last(p))
    BY <2>1, <2>3, <2>4, EnteredSame
  <2> QED
    BY <1>2, <2>2, <2>3, <2>5, FollowedStep
<1>3. \A p \in AnyPath : p \in X
  <2> HIDE DEF X
  <2> QED
    BY <1>1, <1>2, PathInduct
<1>4. Named(t, q) = Named(u, q)
  BY <1>3, PathFront DEF Named
<1> QED
  BY <1>3, <1>4

\* Without the links at B and below it a path leads where it led, or below B.
LEMMA FollowedCut ==
  ASSUME NEW t \in [Paths -> Node], NEW u \in [Paths -> Node],
         NEW B \in AnyPath, B # Root, CutLinks(t, u, B),
         NEW q \in AnyPath
  PROVE  Followed(u, q) = Followed(t, q) \/ IsPrefix(B, Followed(u, q))
<1> DEFINE X == {p \in AnyPath : Followed(u, p) = Followed(t, p) \/ IsPrefix(B, Followed(u, p))}
<1>1. Root \in X
  BY FollowedRoot, RootIsPath
<1>2. ASSUME NEW p \in AnyPath, p # Root, Front(p) \in X PROVE p \in X
  <2>1. Front(p) \in AnyPath /\ Last(p) \in Names
    BY <1>2, PathFront
  <2>2. PICK f : f = Followed(u, Front(p))
    OBVIOUS
  <2>3. f \in AnyPath
    BY <2>1, <2>2, FollowedType
  <2>4. PICK c : c = Append(f, Last(p))
    OBVIOUS
  <2>5. c \in AnyPath /\ c # Root /\ Front(c) = f
    BY <2>1, <2>3, <2>4, PathAppend
  <2>6. Followed(u, p) = Entered(u, f, Last(p))
    BY <1>2, <2>2, FollowedStep
  <2>7. CASE IsPrefix(B, c)
    <3>1. At(u, c).kind # "link"
      BY <2>7, AtIs DEF CutLinks, Exists
    <3> QED
      BY <2>1, <2>3, <2>4, <2>6, <2>7, <3>1, EnteredType
  <2>8. CASE ~ IsPrefix(B, c)
    <3>1. f = Followed(t, Front(p))
      BY <1>2, <2>2, <2>3, <2>5, <2>8, PrefixFront
    <3>2. Entered(t, f, Last(p)) = Entered(u, f, Last(p))
      BY <2>1, <2>3, <2>4, <2>8, EnteredSame DEF CutLinks
    <3> QED
      BY <1>2, <2>6, <3>1, <3>2, FollowedStep
  <2> QED
    BY <2>7, <2>8
<1>3. \A p \in AnyPath : p \in X
  <2> HIDE DEF X
  <2> QED
    BY <1>1, <1>2, PathInduct
<1> QED
  BY <1>3

LEMMA NamedCut ==
  ASSUME NEW t \in [Paths -> Node], NEW u \in [Paths -> Node],
         NEW B \in AnyPath, B # Root, CutLinks(t, u, B),
         NEW q \in AnyPath, q # Root
  PROVE  \/ Named(u, q) = Named(t, q) /\ ~ IsPrefix(B, Named(u, q)) /\ Followed(u, q) = Followed(t, q)
         \/ IsPrefix(B, Named(u, q)) /\ Followed(u, q) = Named(u, q)
<1>1. /\ Named(u, q) \in AnyPath /\ Named(u, q) # Root
      /\ Front(Named(u, q)) = Followed(u, Front(q))
      /\ At(u, Named(u, q)).kind # "link" => Followed(u, q) = Named(u, q)
  BY NamedIs
<1>2. CASE IsPrefix(B, Named(u, q))
  <2>1. At(u, Named(u, q)).kind # "link"
    BY <1>2, AtIs DEF CutLinks, Exists
  <2> QED
    BY <1>1, <1>2, <2>1
<1>3. CASE ~ IsPrefix(B, Named(u, q))
  <2>1. Front(q) \in AnyPath /\ Last(q) \in Names
    BY PathFront
  <2>2. ~ IsPrefix(B, Followed(u, Front(q)))
    BY <1>1, <1>3, <2>1, FollowedType, PrefixFront
  <2>3. PICK f : f = Followed(u, Front(q)) /\ f = Followed(t, Front(q))
    BY <2>1, <2>2, FollowedCut
  <2>4. f \in AnyPath /\ Named(u, q) = Append(f, Last(q)) /\ Named(t, q) = Append(f, Last(q))
    <3>1. f \in AnyPath
      BY <2>1, <2>3, FollowedType
    <3> QED
      BY <2>3, <3>1 DEF Named
  <2>5. Entered(t, f, Last(q)) = Entered(u, f, Last(q))
    BY <1>3, <2>1, <2>4, EnteredSame DEF CutLinks
  <2> QED
    BY <1>3, <2>3, <2>4, <2>5, FollowedStep
<1> QED
  BY <1>2, <1>3

\* Below a place without links a path goes straight down.
LEMMA FollowedDown ==
  ASSUME NEW t \in [Paths -> Node], NEW p \in AnyPath, NEW r \in AnyPath,
         \A s \in AnyPath : IsPrefix(s, r) /\ s # Root => At(t, Followed(t, p) \o s).kind # "link"
  PROVE  Followed(t, p \o r) = Followed(t, p) \o r
<1> DEFINE f == Followed(t, p)
           X == {s \in AnyPath : IsPrefix(s, r) => Followed(t, p \o s) = f \o s}
<1>0. f \in AnyPath
  BY FollowedType
<1>1. Root \in X
  BY <1>0, Joined, RootIsPath
<1>2. ASSUME NEW s \in AnyPath, s # Root, Front(s) \in X PROVE s \in X
  <2> SUFFICES ASSUME IsPrefix(s, r) PROVE Followed(t, p \o s) = f \o s
    OBVIOUS
  <2> HIDE DEF f
  <2>1. Front(s) \in AnyPath /\ Last(s) \in Names /\ IsPrefix(Front(s), s) /\ Append(Front(s), Last(s)) = s
    BY <1>2, PathFront
  <2>2. IsPrefix(Front(s), r)
    BY <2>1, PrefixOrder
  <2>3. Followed(t, p \o Front(s)) = f \o Front(s)
    BY <1>2, <2>2
  <2>4. PICK c : c = p \o s
    OBVIOUS
  <2>5. c \in AnyPath /\ c # Root /\ Front(c) = p \o Front(s) /\ Last(c) = Last(s)
    BY <1>2, <2>4, Joined, JoinedFront
  <2>6. Followed(t, c) = Entered(t, f \o Front(s), Last(s))
    BY <2>3, <2>5, FollowedStep
  <2>7. Append(f \o Front(s), Last(s)) = f \o s /\ f \o Front(s) \in AnyPath
    <3>1. Append(f \o Front(s), Last(s)) = f \o Append(Front(s), Last(s))
      BY <1>0, <2>1, JoinedAppend
    <3>2. f \o Front(s) \in AnyPath
      BY <1>0, <2>1, Joined
    <3> QED
      BY <2>1, <3>1, <3>2
  <2>8. At(t, f \o s).kind # "link"
    BY <1>2 DEF f
  <2>9. PICK d : d = f \o Front(s)
    OBVIOUS
  <2>10. t \in [Paths -> Node] /\ d \in AnyPath /\ Last(s) \in Names
    BY <2>1, <2>7, <2>9
  <2>11. Append(d, Last(s)) = f \o s /\ Followed(t, c) = Entered(t, d, Last(s))
    BY <2>6, <2>7, <2>9
  <2>12. At(t, Append(d, Last(s))).kind # "link"
    BY <2>8, <2>11
  <2>13. Entered(t, d, Last(s)) = Append(d, Last(s))
    BY <2>10, <2>12, EnteredType
  <2> QED
    BY <2>4, <2>11, <2>13
<1>3. \A s \in AnyPath : s \in X
  <2> HIDE DEF X
  <2> QED
    BY <1>1, <1>2, PathInduct
<1> QED
  BY <1>3, PrefixOrder

-----------------------------------------------------------------------------
(* What the calls do to a tree. *)

\* u is t without some entries at B and below it.
Removed(t, u, B) ==
  /\ IsTree(u)
  /\ \A q \in Paths : u[q] = t[q] \/ (IsPrefix(B, q) /\ u[q] = Absent)

\* u is t with more directories.
Widened(t, u) ==
  /\ IsTree(u)
  /\ \A q \in Paths : u[q] = t[q] \/ (t[q].kind \in {"absent", "dir"} /\ u[q] = Dir)

\* u is t but for one file.
Written(t, u, c, f) ==
  /\ IsTree(u) /\ u = [t EXCEPT ![c] = f]
  /\ f.kind = "file" /\ t[c].kind \in {"absent", "file"}

NoneBelow(t, B) == \A q \in Paths : IsPrefix(B, q) => t[q].kind = "absent"

LEMMA WithoutIs ==
  ASSUME IsTree(tree), NEW S, Root \notin S,
         \A q \in Paths : q # Root /\ Front(q) \in S /\ Exists(tree[q]) => q \in S
  PROVE  /\ IsTree(Without(S))
         /\ \A q \in Paths : Without(S)[q] = IF q \in S THEN Absent ELSE tree[q]
<1>1. Without(S) \in [Paths -> Node]
  BY NodesAre DEF Without, IsTree
<1>2. \A q \in Paths : Without(S)[q] = IF q \in S THEN Absent ELSE tree[q]
  BY DEF Without
<1>3. WellFormed(Without(S))
  <2>1. Without(S)[Root].kind = "dir"
    BY <1>2, RootIsPath DEF IsTree, WellFormed
  <2>2. ASSUME NEW p \in Paths \ {Root}, Exists(Without(S)[p])
        PROVE  Without(S)[Front(p)].kind = "dir"
    <3>1. p \notin S /\ Exists(tree[p])
      BY <1>2, <2>2, NodesAre DEF Exists
    <3>2. Front(p) \in Paths /\ tree[Front(p)].kind = "dir"
      BY <3>1, ParentIsDir
    <3> QED
      BY <1>2, <3>1, <3>2
  <2> QED
    BY <2>1, <2>2 DEF WellFormed
<1> QED
  BY <1>1, <1>2, <1>3 DEF IsTree

LEMMA RemoveIs ==
  ASSUME IsTree(tree), NEW p \in AnyPath, p # Root, NEW o \in RemoveCalls(p)
  PROVE  /\ Removed(tree, o.tree, Named(tree, p))
         /\ \A q \in Paths : q # Named(tree, p) => o.tree[q] = tree[q]
         /\ o.ok => /\ NoneBelow(o.tree, Named(tree, p))
                    /\ Named(tree, p) \in Paths /\ Exists(tree[Named(tree, p)])
         /\ ~ o.ok => o.tree = tree
<1> DEFINE c == Named(tree, p)
<1>1. c \in AnyPath /\ c # Root
  BY NamedIs DEF IsTree
<1>2. CASE o = Outcome(tree, FALSE)
  <2>1. o.tree = tree /\ ~ o.ok
    BY <1>2 DEF Outcome
  <2> QED
    BY <2>1 DEF Removed
<1>3. CASE Exists(At(tree, c)) /\ Children(tree, c) = {} /\ o = Outcome(Without({c}), TRUE)
  <2>1. o.tree = Without({c}) /\ o.ok
    BY <1>3 DEF Outcome
  <2>2. c \in Paths
    BY <1>3, AtIs DEF IsTree
  <2> HIDE DEF c
  <2>3. ASSUME NEW q \in Paths, q # Root, Front(q) = c PROVE ~ Exists(tree[q])
    <3>1. q \in AnyPath
      BY PathIs
    <3>2. Last(q) \in Names /\ Append(c, Last(q)) = q
      BY <2>3, <3>1, PathFront
    <3>3. ~ Exists(At(tree, Append(c, Last(q))))
      BY <1>3, <3>2 DEF Children
    <3> QED
      BY <3>2, <3>3 DEF At
  <2>4. /\ IsTree(Without({c}))
        /\ \A q \in Paths : Without({c})[q] = IF q \in {c} THEN Absent ELSE tree[q]
    BY <1>1, <2>3, WithoutIs
  <2>5. ASSUME NEW q \in Paths, IsPrefix(c, q) PROVE o.tree[q].kind = "absent"
    <3>1. CASE q = c
      BY <2>1, <2>4, <3>1, NodesAre
    <3>2. CASE q # c
      <4>1. q \in AnyPath
        BY PathIs
      <4> SUFFICES ASSUME Exists(o.tree[q]) PROVE FALSE
        BY DEF Exists
      <4>2. Exists(Without({c})[q]) /\ o.tree[c] = Absent
        BY <2>1, <2>2, <2>4
      <4>3. Without({c})[c].kind = "dir"
        BY <1>1, <2>4, <2>5, <3>2, <4>1, <4>2, AncestorsAreDirs
      <4> QED
        BY <2>1, <4>2, <4>3, NodesAre
    <3> QED
      BY <3>1, <3>2
  <2>6. \A q \in Paths : q # c => o.tree[q] = tree[q]
    BY <2>1, <2>4
  <2>7. Removed(tree, o.tree, c)
    BY <1>1, <2>1, <2>4, PrefixOrder DEF Removed
  <2>8. Exists(tree[c])
    BY <1>3, <2>2 DEF At
  <2> QED
    BY <2>1, <2>2, <2>5, <2>6, <2>7, <2>8 DEF c, NoneBelow
<1> QED
  BY <1>2, <1>3 DEF RemoveCalls

LEMMA RemoveAllIs ==
  ASSUME IsTree(tree), NEW p \in AnyPath, p # Root, NEW o \in RemoveAllCalls(p)
  PROVE  /\ Removed(tree, o.tree, Named(tree, p))
         /\ o.ok => NoneBelow(o.tree, Named(tree, p))
<1> DEFINE c == Named(tree, p)
           all == {q \in Below(c) : Exists(tree[q])}
<1>1. c \in AnyPath /\ c # Root
  BY NamedIs DEF IsTree
<1>2. PICK K \in SUBSET all : /\ \A q \in K : q = c \/ Front(q) \in K
                              /\ o = Outcome(Without(all \ K), K = {})
  BY DEF RemoveAllCalls
<1>3. o.tree = Without(all \ K) /\ (o.ok <=> K = {})
  BY <1>2 DEF Outcome
<1>4. \A q : q \in all <=> q \in Paths /\ IsPrefix(c, q) /\ Exists(tree[q])
  BY DEF Below
<1> HIDE DEF all, c
<1>5. Root \notin all \ K
  BY <1>1, <1>4, PrefixOrder, RootIsPath
<1>6. ASSUME NEW q \in Paths, q # Root, Front(q) \in all \ K, Exists(tree[q])
      PROVE  q \in all \ K
  <2>1. q \in AnyPath
    BY PathIs
  <2>2. IsPrefix(c, q) /\ q # c
    BY <1>1, <1>4, <1>6, <2>1, PathFront, PrefixFront
  <2> QED
    BY <1>2, <1>4, <1>6, <2>2
<1>7. /\ IsTree(Without(all \ K))
      /\ \A q \in Paths : Without(all \ K)[q] = IF q \in all \ K THEN Absent ELSE tree[q]
  BY <1>5, <1>6, WithoutIs
<1>8. Removed(tree, o.tree, c)
  BY <1>3, <1>4, <1>7 DEF Removed
<1>9. ASSUME o.ok, NEW q \in Paths, IsPrefix(c, q) PROVE o.tree[q].kind = "absent"
  <2>1. K = {}
    BY <1>3, <1>9
  <2>2. o.tree[q] = IF q \in all THEN Absent ELSE tree[q]
    BY <1>3, <1>7, <2>1
  <2> QED
    BY <1>4, <1>9, <2>2, NodesAre DEF Exists
<1> QED
  BY <1>8, <1>9 DEF c, NoneBelow

LEMMA MkdirIs ==
  ASSUME IsTree(tree), NEW p \in AnyPath, NEW o \in MkdirCalls(p)
  PROVE  Widened(tree, o.tree)
<1> DEFINE c == Named(tree, p)
<1>1. CASE o = Outcome(tree, FALSE)
  BY <1>1 DEF Outcome, Widened
<1>2. CASE /\ c \in Paths \ {Root} /\ ~ Exists(tree[c]) /\ At(tree, Front(c)).kind = "dir"
           /\ o = Outcome([tree EXCEPT ![c] = Dir], TRUE)
  <2> HIDE DEF c
  <2>1. o.tree = [tree EXCEPT ![c] = Dir]
    BY <1>2 DEF Outcome
  <2>2. tree \in [Paths -> Node]
    BY DEF IsTree
  <2>3. o.tree \in [Paths -> Node]
    BY <2>1, <2>2, NodesAre
  <2>4. \A q \in Paths : o.tree[q] = IF q = c THEN Dir ELSE tree[q]
    BY <2>1, <2>2
  <2>5. c \in AnyPath /\ Front(c) \in Paths
    BY <1>2, PathIs, PathFront
  <2>6. o.tree[Root].kind = "dir"
    BY <2>4, RootIsPath, NodesAre DEF IsTree, WellFormed
  <2>7. ASSUME NEW q \in Paths \ {Root}, Exists(o.tree[q]) PROVE o.tree[Front(q)].kind = "dir"
    <3>1. q \in AnyPath /\ Front(q) \in Paths
      BY PathIs, PathFront
    <3>2. tree[Front(q)].kind = "dir"
      BY <1>2, <2>4, <2>5, <2>7, ParentIsDir DEF At
    <3> QED
      BY <2>4, <3>1, <3>2, NodesAre
  <2>8. IsTree(o.tree)
    BY <2>3, <2>6, <2>7 DEF IsTree, WellFormed
  <2> QED
    BY <1>2, <2>4, <2>8 DEF Widened, Exists
<1> QED
  BY <1>1, <1>2 DEF MkdirCalls

LEMMA PathPrefixes ==
  ASSUME NEW p \in AnyPath, NEW i \in 1..Len(p)
  PROVE  /\ SubSeq(p, 1, i) \in AnyPath /\ SubSeq(p, 1, i) # Root
         /\ Front(SubSeq(p, 1, i)) = SubSeq(p, 1, i - 1)
         /\ SubSeq(p, 1, 0) = Root
<1>0. /\ Len(p) \in Nat /\ i \in Nat /\ i - 1 \in Int /\ 0 \in Int /\ 1 \in Int
      /\ \A j \in 1..Len(p) : p[j] \in Names
  BY PathParts
<1>1. /\ SubSeq(p, 1, i) \in Seq(Names) /\ Len(SubSeq(p, 1, i)) = i
      /\ \A j \in 1..i : SubSeq(p, 1, i)[j] = p[j]
  <2>1. \A j \in 1..i : p[j] \in Names
    BY <1>0
  <2>2. /\ SubSeq(p, 1, i) \in Seq(Names)
        /\ Len(SubSeq(p, 1, i)) = IF 1 <= i THEN i - 1 + 1 ELSE 0
        /\ \A j \in 1..(i - 1 + 1) : SubSeq(p, 1, i)[j] = p[1 + j - 1]
    BY <1>0, <2>1, SubSeqProperties
  <2> QED
    BY <1>0, <2>2
<1>2. /\ SubSeq(p, 1, i - 1) \in Seq(Names) /\ Len(SubSeq(p, 1, i - 1)) = i - 1
      /\ \A j \in 1..(i - 1) : SubSeq(p, 1, i - 1)[j] = p[j]
  <2>1. \A j \in 1..(i - 1) : p[j] \in Names
    BY <1>0
  <2>2. /\ SubSeq(p, 1, i - 1) \in Seq(Names)
        /\ Len(SubSeq(p, 1, i - 1)) = IF 1 <= i - 1 THEN (i - 1) - 1 + 1 ELSE 0
        /\ \A j \in 1..((i - 1) - 1 + 1) : SubSeq(p, 1, i - 1)[j] = p[1 + j - 1]
    BY <1>0, <2>1, SubSeqProperties
  <2> QED
    BY <1>0, <2>2
<1>3. SubSeq(p, 1, i) # << >>
  BY <1>0, <1>1
<1>4. /\ Front(SubSeq(p, 1, i)) \in Seq(Names)
      /\ Len(Front(SubSeq(p, 1, i))) = i - 1
      /\ \A j \in 1..(i - 1) : Front(SubSeq(p, 1, i))[j] = SubSeq(p, 1, i)[j]
  BY <1>1, <1>3, FrontProperties
<1>5. Front(SubSeq(p, 1, i)) = SubSeq(p, 1, i - 1)
  <2>1. \A j \in 1..(i - 1) : j \in 1..i
    BY <1>0
  <2>2. PICK a : a = Front(SubSeq(p, 1, i))
    OBVIOUS
  <2>3. PICK b : b = SubSeq(p, 1, i - 1)
    OBVIOUS
  <2>4. a \in Seq(Names) /\ b \in Seq(Names) /\ Len(a) = Len(b) /\ \A j \in 1..Len(a) : a[j] = b[j]
    BY <1>1, <1>2, <1>4, <2>1, <2>2, <2>3
  <2> QED
    BY <2>2, <2>3, <2>4, SeqEqual
<1>6. SubSeq(p, 1, 0) = << >>
  BY <1>0, SubSeqEmpty
<1> QED
  BY <1>1, <1>3, <1>5, <1>6 DEF AnyPath, Root

LEMMA MkdirAllIs ==
  ASSUME IsTree(tree), NEW p \in AnyPath, NEW o \in MkdirAllCalls(p)
  PROVE  Widened(tree, o.tree)
<1> DEFINE pl(i) == Followed(tree, SubSeq(p, 1, i))
<1>1. CASE o = Outcome(tree, FALSE)
  BY <1>1 DEF Outcome, Widened
<1>2. ASSUME NEW k \in 0..Len(p),
             \A i \in 1..k : \/ Stat(tree, SubSeq(p, 1, i)).kind = "dir"
                             \/ ~ Exists(Lstat(tree, SubSeq(p, 1, i))) /\ pl(i) \in Paths,
             NEW u, u = [q \in Paths |-> IF \E i \in 1..k : q = pl(i) THEN Dir ELSE tree[q]]
      PROVE  Widened(tree, u)
  <2>0. tree \in [Paths -> Node] /\ Len(p) \in Nat /\ tree[Root].kind = "dir"
    BY PathParts DEF IsTree, WellFormed
  <2>1. ASSUME NEW i \in 1..k
        PROVE  /\ pl(i) \in Paths
               /\ \/ tree[pl(i)].kind = "dir"
                  \/ tree[pl(i)].kind = "absent" /\ pl(i) # Root /\ Front(pl(i)) = pl(i - 1)
    <3>1. i \in 1..Len(p)
      BY <2>0
    <3>2. PICK x : x = SubSeq(p, 1, i)
      OBVIOUS
    <3>3. x \in AnyPath /\ x # Root /\ Front(x) = SubSeq(p, 1, i - 1)
      BY <3>1, <3>2, PathPrefixes
    <3>4. CASE Stat(tree, x).kind = "dir"
      <4>1. At(tree, Followed(tree, x)).kind = "dir"
        BY <3>4, NodesAre DEF Stat
      <4> QED
        BY <2>0, <3>2, <4>1, AtIs DEF Exists
    <3>5. CASE ~ Exists(Lstat(tree, x)) /\ pl(i) \in Paths
      <4>1. At(tree, Named(tree, x)).kind = "absent"
        BY <3>5 DEF Lstat, Exists
      <4>2. Followed(tree, x) = Named(tree, x) /\ Named(tree, x) # Root
            /\ Front(Named(tree, x)) = Followed(tree, Front(x))
        BY <2>0, <3>3, <4>1, NamedIs
      <4>3. pl(i) = Named(tree, x) /\ pl(i - 1) = Followed(tree, Front(x))
        BY <3>2, <3>3, <4>2
      <4>4. tree[pl(i)].kind = "absent"
        BY <3>5, <4>1, <4>3 DEF At
      <4> QED
        BY <3>5, <4>2, <4>3, <4>4
    <3> QED
      BY <1>2, <3>2, <3>4, <3>5
  <2>2. pl(0) = Root
    <3>1. SubSeq(p, 1, 0) = Root
      BY <2>0, SubSeqEmpty DEF Root
    <3> QED
      BY <3>1, FollowedRoot
  <2> HIDE DEF pl
  <2>3. u \in [Paths -> Node]
    BY <1>2, <2>0, NodesAre
  <2>4. ASSUME NEW q \in Paths
        PROVE  /\ u[q] = tree[q] \/ (tree[q].kind \in {"absent", "dir"} /\ u[q] = Dir)
               /\ tree[q].kind = "dir" => u[q].kind = "dir"
    BY <1>2, <2>1, NodesAre
  <2>5. ASSUME NEW q \in Paths \ {Root}, Exists(u[q]) PROVE u[Front(q)].kind = "dir"
    <3>1. Front(q) \in Paths
      BY PathIs, PathFront
    <3>2. CASE Exists(tree[q])
      BY <2>4, <3>1, <3>2, ParentIsDir
    <3>3. CASE ~ Exists(tree[q])
      <4>1. PICK i \in 1..k : q = pl(i)
        BY <1>2, <2>5, <3>3
      <4>2. Front(q) = pl(i - 1)
        BY <2>1, <3>3, <4>1 DEF Exists
      <4>3. CASE i = 1
        BY <2>0, <2>2, <2>4, <4>2, <4>3, RootIsPath
      <4>4. CASE i # 1
        <5>1. i - 1 \in 1..k
          BY <4>4
        <5> QED
          BY <1>2, <3>1, <4>2, <5>1, NodesAre
      <4> QED
        BY <4>3, <4>4
    <3> QED
      BY <3>2, <3>3
  <2>6. IsTree(u)
    BY <2>0, <2>3, <2>4, <2>5, RootIsPath DEF IsTree, WellFormed
  <2> QED
    BY <2>4, <2>6 DEF Widened
<1>3. CASE o # Outcome(tree, FALSE)
  <2>1. PICK k \in 0..Len(p) :
          /\ \A i \in 1..k : \/ Stat(tree, SubSeq(p, 1, i)).kind = "dir"
                             \/ ~ Exists(Lstat(tree, SubSeq(p, 1, i))) /\ pl(i) \in Paths
          /\ o = Outcome([q \in Paths |-> IF \E i \in 1..k : q = pl(i) THEN Dir ELSE tree[q]],
                         k = Len(p))
    BY <1>3 DEF MkdirAllCalls
  <2>2. o.tree = [q \in Paths |-> IF \E i \in 1..k : q = pl(i) THEN Dir ELSE tree[q]]
    BY <2>1 DEF Outcome
  <2> QED
    BY <1>2, <2>1, <2>2
<1> QED
  BY <1>1, <1>3

LEMMA WriteIs ==
  ASSUME NEW t, IsTree(t), NEW c \in Paths, c # Root, NEW f \in Node, f.kind = "file",
         t[c].kind = "file" \/ (t[c].kind = "absent" /\ t[Front(c)].kind = "dir")
  PROVE  Written(t, [t EXCEPT ![c] = f], c, f)
<1> DEFINE u == [t EXCEPT ![c] = f]
<1>1. t \in [Paths -> Node]
  BY DEF IsTree
<1>2. u \in [Paths -> Node] /\ \A q \in Paths : u[q] = IF q = c THEN f ELSE t[q]
  BY <1>1
<1>3. Front(c) \in Paths /\ t[Front(c)].kind = "dir"
  BY ParentIsDir, PathIs, PathFront DEF Exists
<1> HIDE DEF u
<1>4. ASSUME NEW q \in Paths \ {Root}, Exists(u[q]) PROVE u[Front(q)].kind = "dir"
  <2>1. Front(q) \in Paths
    BY PathIs, PathFront
  <2>2. t[Front(q)].kind = "dir"
    BY <1>2, <1>3, <1>4, ParentIsDir
  <2> QED
    BY <1>2, <2>1, <2>2
<1>5. IsTree(u)
  BY <1>2, <1>4, RootIsPath DEF IsTree, WellFormed
<1> QED
  BY <1>5 DEF u, Written

-----------------------------------------------------------------------------
(* A renamed tree, and a directory that is listed. *)

\* Everything at a and below it now lies at b.
Moved(t, u, a, b) ==
  /\ IsTree(u)
  /\ a \in Paths /\ Exists(t[a]) /\ b \in Paths /\ NoneBelow(t, b)
  /\ \A r \in AnyPath : a \o r \in Paths /\ Exists(t[a \o r]) =>
       b \o r \in Paths /\ u[b \o r] = t[a \o r]
  /\ \A c \in Paths : u[c] = t[c] \/ IsPrefix(a, c) \/ IsPrefix(b, c)
  /\ \A c \in Paths : Exists(u[c]) =>
       \/ ~ IsPrefix(a, c) /\ u[c] = t[c]
       \/ \E r \in AnyPath : c = b \o r /\ a \o r \in Paths /\ u[c] = t[a \o r]

LEMMA NoneBelowAbsent ==
  ASSUME NEW t, IsTree(t), NEW b \in Paths, ~ Exists(t[b])
  PROVE  NoneBelow(t, b)
<1> SUFFICES ASSUME NEW q \in Paths, IsPrefix(b, q), Exists(t[q]) PROVE FALSE
  BY DEF NoneBelow, Exists
<1>1. b \in AnyPath /\ q \in AnyPath
  BY PathIs
<1>2. b # q
  OBVIOUS
<1> QED
  BY <1>1, <1>2, AncestorsAreDirs DEF Exists

LEMMA RenameIs ==
  ASSUME IsTree(tree), NEW p \in AnyPath, NEW q \in AnyPath, p # Root, q # Root,
         NEW o \in RenameCalls(p, q)
  PROVE  \/ ~ o.ok /\ o.tree = tree
         \/ o.ok /\ Moved(tree, o.tree, Named(tree, p), Named(tree, q))
<1> DEFINE a == Named(tree, p)
           b == Named(tree, q)
           moved == {r \in Below(a) : Exists(tree[r])}
           to(r) == b \o SubSeq(r, Len(a) + 1, Len(r))
           u == [r \in Paths |-> IF \E m \in moved : r = to(m)
                                 THEN tree[CHOOSE m \in moved : r = to(m)]
                                 ELSE IF r \in moved THEN Absent ELSE tree[r]]
<1>1. CASE o = Outcome(tree, FALSE)
  BY <1>1 DEF Outcome
<1>2. CASE /\ Exists(At(tree, a)) /\ ~ Exists(At(tree, b)) /\ ~ IsPrefix(a, b)
           /\ b \in Paths \ {Root} /\ At(tree, Front(b)).kind = "dir"
           /\ \A r \in moved : to(r) \in Paths
           /\ o = Outcome(u, TRUE)
  <2>0. a \in AnyPath /\ b \in AnyPath /\ a # Root /\ tree \in [Paths -> Node]
    BY NamedIs DEF IsTree
  <2>1. a \in Paths /\ Exists(tree[a]) /\ ~ Exists(tree[b]) /\ b \in Paths /\ b # Root
        /\ tree[Front(b)].kind = "dir" /\ Front(b) \in Paths
    <3>1. a \in Paths /\ At(tree, a) = tree[a] /\ At(tree, b) = tree[b]
      BY <1>2, <2>0, AtIs
    <3>2. Front(b) \in Paths /\ At(tree, Front(b)) = tree[Front(b)]
      BY <1>2, <2>0, AtIs DEF Exists
    <3> QED
      BY <1>2, <3>1, <3>2
  <2>2. PICK B : B = b
    OBVIOUS
  <2>3. PICK A : A = a
    OBVIOUS
  <2>4. \A m : m \in moved <=> m \in Paths /\ IsPrefix(A, m) /\ Exists(tree[m])
    BY <2>3 DEF Below
  <2>5. ASSUME NEW r \in AnyPath, A \o r \in moved
        PROVE  to(A \o r) = B \o r
    <3>1. PICK m : m = A \o r
      OBVIOUS
    <3>2. m \in AnyPath /\ IsPrefix(A, m)
      BY <2>0, <2>3, <3>1, Joined
    <3>3. PICK s : s = SubSeq(m, Len(A) + 1, Len(m))
      OBVIOUS
    <3>4. s \in AnyPath /\ m = A \o s
      BY <2>0, <2>3, <3>2, <3>3, RestOf
    <3>5. s = r
      BY <2>0, <2>3, <3>1, <3>4, JoinedSame
    <3> QED
      BY <2>2, <2>3, <3>1, <3>3, <3>5
  <2>6. ASSUME NEW m \in moved
        PROVE  \E r \in AnyPath : m = A \o r /\ to(m) = B \o r
    <3>1. m \in AnyPath /\ IsPrefix(A, m)
      BY <2>4, PathIs
    <3>2. PICK r \in AnyPath : m = A \o r
      <4>1. A \in AnyPath
        BY <2>0, <2>3
      <4>2. PICK s : s = SubSeq(m, Len(A) + 1, Len(m))
        OBVIOUS
      <4>3. s \in AnyPath /\ m = A \o s
        BY <3>1, <4>1, <4>2, RestOf
      <4> QED
        BY <4>3
    <3> QED
      BY <2>5, <3>2
  <2>7. \A r \in Paths : u[r] = IF \E m \in moved : r = to(m)
                                THEN tree[CHOOSE m \in moved : r = to(m)]
                                ELSE IF r \in moved THEN Absent ELSE tree[r]
    OBVIOUS
  <2>8. u \in [Paths -> Node]
    <3>1. \A r \in Paths : (\E m \in moved : r = to(m)) => (CHOOSE m \in moved : r = to(m)) \in Paths
      BY <2>4
    <3> SUFFICES ASSUME NEW r \in Paths PROVE u[r] \in Node
      <4> HIDE DEF moved, to
      <4> QED
        OBVIOUS
    <3>2. CASE \E m \in moved : r = to(m)
      <4>1. u[r] = tree[CHOOSE m \in moved : r = to(m)]
        BY <2>7, <3>2
      <4> HIDE DEF moved, to, u
      <4> QED
        BY <2>0, <3>1, <3>2, <4>1
    <3>3. CASE ~ \E m \in moved : r = to(m)
      <4>1. u[r] = IF r \in moved THEN Absent ELSE tree[r]
        BY <2>7, <3>3
      <4> HIDE DEF moved, to, u
      <4> QED
        BY <2>0, <4>1, NodesAre
    <3> QED
      BY <3>2, <3>3
  <2>9. A \in AnyPath /\ B \in AnyPath /\ A \in Paths /\ B \in Paths /\ B # Root /\ A # Root
        /\ ~ IsPrefix(A, B) /\ Exists(tree[A]) /\ ~ Exists(tree[B])
        /\ tree[Front(B)].kind = "dir" /\ Front(B) \in Paths
        /\ \A m \in moved : to(m) \in Paths
    BY <1>2, <2>0, <2>1, <2>2, <2>3
  <2>10. o.tree = u /\ o.ok
    BY <1>2 DEF Outcome
  <2> HIDE DEF moved, to, u, a, b
  <2>11. ASSUME NEW r \in AnyPath, A \o r \in moved
         PROVE  B \o r \in Paths /\ u[B \o r] = tree[A \o r]
    <3>1. B \o r = to(A \o r) /\ B \o r \in Paths
      BY <2>5, <2>9, <2>11
    <3>2. ASSUME NEW m \in moved, B \o r = to(m) PROVE m = A \o r
      <4>1. PICK s \in AnyPath : m = A \o s /\ to(m) = B \o s
        BY <2>6
      <4>2. B \o r = B \o s
        BY <3>2, <4>1
      <4>3. r = s
        BY <2>9, <4>2, JoinedSame
      <4> QED
        BY <4>1, <4>3
    <3> QED
      BY <2>7, <2>11, <3>1, <3>2
  <2>12. ASSUME NEW c \in Paths, \A m \in moved : c # to(m)
         PROVE  u[c] = IF c \in moved THEN Absent ELSE tree[c]
    BY <2>7, <2>12
  <2>13. ASSUME NEW m \in moved PROVE IsPrefix(B, to(m))
    <3>1. PICK s \in AnyPath : m = A \o s /\ to(m) = B \o s
      BY <2>6
    <3>2. IsPrefix(B, B \o s)
      BY <2>9, Joined
    <3> QED
      BY <3>1, <3>2
  <2>14. ASSUME NEW c \in Paths PROVE u[c] = tree[c] \/ IsPrefix(A, c) \/ IsPrefix(B, c)
    BY <2>4, <2>12, <2>13
  <2>15. NoneBelow(tree, B)
    BY <2>9, NoneBelowAbsent
  <2>16. ASSUME NEW c \in Paths \ {Root}, Exists(u[c]) PROVE u[Front(c)].kind = "dir"
    <3>1. c \in AnyPath /\ Front(c) \in AnyPath /\ Front(c) \in Paths
      BY PathIs, PathFront
    <3>2. CASE \E m \in moved : c = to(m)
      <4>1. PICK m \in moved : c = to(m)
        BY <3>2
      <4>2. PICK r \in AnyPath : m = A \o r /\ to(m) = B \o r
        BY <2>6
      <4>3. CASE r = Root
        <5>1. c = B /\ m = A
          BY <2>9, <4>1, <4>2, <4>3, Joined
        <5>2. \A k \in moved : Front(B) # to(k)
          BY <2>9, <2>13, PathFront
        <5>3. Front(B) \notin moved
          BY <2>4, <2>9, PathFront, PrefixFront
        <5> QED
          BY <2>9, <2>12, <5>1, <5>2, <5>3
      <4>4. CASE r # Root
        <5>1. Front(r) \in AnyPath /\ Front(A \o r) = A \o Front(r) /\ Front(B \o r) = B \o Front(r)
          BY <2>9, <4>4, PathFront, JoinedFront
        <5>2. A \o r \in AnyPath /\ A \o r # Root /\ A \o r \in Paths /\ Exists(tree[A \o r])
          BY <2>4, <2>9, <4>2, <4>4, Joined
        <5>3. tree[A \o Front(r)].kind = "dir" /\ A \o Front(r) \in Paths
          BY <5>1, <5>2, ParentIsDir
        <5>4. A \o Front(r) \in moved
          BY <2>4, <2>9, <5>1, <5>3, Joined DEF Exists
        <5>5. u[B \o Front(r)] = tree[A \o Front(r)]
          BY <2>11, <5>1, <5>4
        <5> QED
          BY <4>1, <4>2, <5>1, <5>3, <5>5
      <4> QED
        BY <4>3, <4>4
    <3>3. CASE ~ \E m \in moved : c = to(m)
      <4>1. c \notin moved /\ Exists(tree[c])
        BY <2>12, <2>16, <3>3, NodesAre DEF Exists
      <4>2. tree[Front(c)].kind = "dir"
        BY <4>1, ParentIsDir
      <4>3. Front(c) \notin moved
        BY <2>4, <2>9, <3>1, <4>1, PrefixFront
      <4>4. ASSUME NEW m \in moved, Front(c) = to(m) PROVE FALSE
        <5>1. IsPrefix(B, c)
          BY <2>9, <2>13, <3>1, <4>4, PrefixFront
        <5> QED
          BY <2>15, <4>1, <5>1 DEF NoneBelow, Exists
      <4> QED
        BY <2>12, <3>1, <4>2, <4>3, <4>4
    <3> QED
      BY <3>2, <3>3
  <2>17. u[Root].kind = "dir"
    <3>1. \A m \in moved : Root # to(m)
      BY <2>9, <2>13, RootIsPath, PrefixOrder
    <3>2. Root \notin moved
      BY <2>4, <2>9, RootIsPath, PrefixOrder
    <3>3. u[Root] = tree[Root]
      BY <2>12, <3>1, <3>2, RootIsPath
    <3> QED
      BY <3>3 DEF IsTree, WellFormed
  <2>18. IsTree(u)
    BY <2>8, <2>16, <2>17 DEF IsTree, WellFormed
  <2>19. ASSUME NEW r \in AnyPath, A \o r \in Paths, Exists(tree[A \o r])
         PROVE  B \o r \in Paths /\ u[B \o r] = tree[A \o r]
    BY <2>4, <2>9, <2>11, <2>19, Joined
  <2>20. ASSUME NEW c \in Paths, Exists(u[c])
         PROVE  \/ ~ IsPrefix(A, c) /\ u[c] = tree[c]
                \/ \E r \in AnyPath : c = B \o r /\ A \o r \in Paths /\ u[c] = tree[A \o r]
    <3>1. CASE \E m \in moved : c = to(m)
      <4>1. PICK m \in moved : c = to(m)
        BY <3>1
      <4>2. PICK r \in AnyPath : m = A \o r /\ to(m) = B \o r
        BY <2>6
      <4>3. A \o r \in moved /\ A \o r \in Paths
        BY <2>4, <4>2
      <4>4. u[B \o r] = tree[A \o r]
        BY <2>11, <4>3
      <4> QED
        BY <4>1, <4>2, <4>3, <4>4
    <3>2. CASE ~ \E m \in moved : c = to(m)
      <4>1. u[c] = IF c \in moved THEN Absent ELSE tree[c]
        BY <2>12, <3>2
      <4>2. c \notin moved /\ u[c] = tree[c]
        BY <2>20, <4>1, NodesAre DEF Exists
      <4> QED
        BY <2>4, <2>20, <4>2
    <3> QED
      BY <3>1, <3>2
  <2>21. Moved(tree, u, A, B)
    BY <2>9, <2>14, <2>15, <2>18, <2>19, <2>20 DEF Moved
  <2> QED
    BY <2>2, <2>3, <2>10, <2>21 DEF a, b
<1> QED
  BY <1>1, <1>2 DEF RenameCalls

-----------------------------------------------------------------------------
\* names has every element of S once.
Lists(names, S) ==
  /\ Len(names) \in Nat /\ names \in [1..Len(names) -> S]
  /\ \A i, j \in 1..Len(names) : names[i] = names[j] => i = j
  /\ \A e \in S : \E i \in 1..Len(names) : names[i] = e

LEMMA ListIs ==
  ASSUME NEW S, IsFiniteSet(S)
  PROVE  Lists(SetToSeq(S), S)
<1> DEFINE n == Cardinality(S)
<1>1. n \in Nat /\ ExistsBijection(1..n, S)
  BY FS_CardinalityType
<1>2. PICK g \in [1..n -> S] : IsInjective(g)
  BY <1>1 DEF ExistsBijection, Bijection, Injection, IsInjective
<1>3. PICK f : f = SetToSeq(S)
  OBVIOUS
<1>4. f \in [1..n -> S] /\ IsInjective(f)
  BY <1>2, <1>3 DEF SetToSeq
<1>5. Len(f) = n
  BY <1>1, <1>4
<1>6. \A i, j \in 1..n : f[i] = f[j] => i = j
  BY <1>4 DEF IsInjective
<1>7. ASSUME NEW e \in S PROVE \E i \in 1..n : f[i] = e
  <2> DEFINE T == {f[i] : i \in 1..n}
  <2>1. T \subseteq S /\ IsFiniteSet(T)
    BY <1>4, FS_Subset
  <2>2. Cardinality(T) = n
    <3>1. f \in Bijection(1..n, T)
      BY <1>4, <1>6 DEF Bijection, Injection, Surjection
    <3>2. ExistsBijection(1..n, T)
      BY <3>1 DEF ExistsBijection
    <3> QED
      BY <1>1, <3>2, FS_CountingElements
  <2>3. T = S
    BY <2>1, <2>2, FS_Subset
  <2> QED
    BY <2>3
<1> QED
  BY <1>1, <1>3, <1>4, <1>5, <1>6, <1>7 DEF Lists

-----------------------------------------------------------------------------
(* The inductive invariant. *)

\* The entries and what they lead to, as the operand was begun.
SourceEntry == Named(begun, source)
SourceData == Followed(begun, source)
TargetEntry == Named(begun, target)
TargetData == Followed(begun, target)

Apart(p, q) == ~ IsPrefix(p, q) /\ ~ IsPrefix(q, p)

\* The arguments, and the control state.
Typed ==
  /\ IsTree(tree) /\ IsTree(begun)
  /\ cmd.op \in Ops /\ destDir \in BOOLEAN /\ status \in {0, 1}
  /\ cmd.dest \in AnyPath /\ (destDir \/ cmd.dest # Root)
  /\ rest \in Seq(AnyPath \ {Root})
  /\ source \in AnyPath /\ target \in AnyPath
  /\ pc \in {"begin", "operand", "rename", "unlink", "copy", "open", "write", "done"} \cup Ops
  /\ todo \in Seq(Pair)
  /\ pc \in {"rename", "unlink"} => cmd.op = "mv"
  /\ pc \in {"copy", "open", "write"} => cmd.op \in Copying
  /\ pc \in Ops => cmd.op = pc
  /\ pc \notin {"begin", "operand", "done"} => source # Root /\ target # Root
  /\ pc \in {"open", "write"} => todo # << >>

\* What open and write have found.
Opened ==
  /\ pc \in {"open", "write"} => Stat(tree, From).kind = "file"
  /\ pc = "write" => At(tree, Followed(tree, To)).kind = "file"

\* What OperandSurvives, NoClobberLosesNothing and NothingElseTouched say of a
\* tree t.
Secure(t) ==
  /\ cmd.op = "mv" => \A p \in FilesIn(SourceEntry) : \E q \in Paths : t[q] = begun[p]
  /\ cmd.op = "cp" => \A p \in FilesIn(SourceData) : t[p] = begun[p]
  /\ cmd.op \in Copying /\ cmd.noClobber =>
       \A p \in FilesIn(Root) : \E q \in Paths : t[q] = begun[p]
  /\ \A p \in Paths :
       \/ t[p] = begun[p]
       \/ begun[p].kind \in {"absent", "dir"}
       \/ IsPrefix(SourceEntry, p) \/ IsPrefix(TargetEntry, p)
       \/ cmd.op \in {"cp", "touch"} /\ IsPrefix(TargetData, p)

\* Outside of X only directories have been made.
Outside(t, X) ==
  \A q \in Paths : \/ IsPrefix(X, q)
                   \/ t[q] = begun[q]
                   \/ begun[q].kind \in {"absent", "dir"} /\ t[q].kind = "dir"

\* Links lie in the working directory, and none leads there.
Shallow(t) == \A q \in Paths : t[q].kind = "link" => Len(q) = 1 /\ t[q].of # Root

-----------------------------------------------------------------------------
(* mv *)

MvMoving(t) ==
  /\ Apart(SourceEntry, TargetEntry) /\ Apart(SourceData, TargetEntry)
  /\ Outside(t, TargetEntry)
  /\ \A q \in Paths : IsPrefix(TargetEntry, q) => t[q].kind # "link"
  /\ cmd.noClobber => \A q \in Paths : IsPrefix(TargetEntry, q) => begun[q].kind # "file"

\* An element of todo, and none lies in another.
IsMove(e) ==
  /\ IsPrefix(source, e.from)
  /\ e.to = target \o SubSeq(e.from, Len(source) + 1, Len(e.from))

Listed(list) ==
  \A i \in 1..Len(list) :
    /\ IsMove(list[i])
    /\ \A j \in 1..Len(list) : i # j => ~ IsPrefix(list[i].to, list[j].to)

InHand(list, r) == \E i \in 1..Len(list) : IsPrefix(list[i].to, target \o r)

Whole(n) == n.kind = "file" /\ n.whole

\* Every file of the source is still to be copied or has been copied.
Delivered(t, list) ==
  \A r \in Paths : SourceData \o r \in Paths /\ Whole(begun[SourceData \o r]) =>
     InHand(list, r) \/ At(t, Followed(t, target \o r)) = begun[SourceData \o r]

\* Every file of the source is where it was, and source leads to it.
Readable(t) ==
  \A r \in AnyPath : SourceData \o r \in Paths /\ Whole(begun[SourceData \o r]) =>
    /\ t[SourceData \o r] = begun[SourceData \o r]
    /\ \A s \in AnyPath : IsPrefix(s, r) =>
         /\ SourceData \o s \in Paths /\ Followed(t, source \o s) = SourceData \o s
         /\ s # r => t[SourceData \o s].kind = "dir"

\* No link is met below the target.
Straight(t) ==
  \A r \in AnyPath : Followed(t, target \o r) = Followed(t, target) \o r

Resolved(t) ==
  /\ Named(t, source) = SourceEntry /\ Followed(t, source) = SourceData
  /\ IsPrefix(TargetEntry, Followed(t, target))

MvCopying(t, list, step) ==
  /\ MvMoving(t)
  /\ \/ /\ step = "copy" /\ ~ Exists(Stat(t, source))
        /\ list = <<[from |-> source, to |-> target]>>
     \/ Resolved(t) /\ Listed(list) /\ Delivered(t, list)

-----------------------------------------------------------------------------
(* cp and rmdir *)

CpCopying(t, list, step) ==
  \/ /\ t = begun /\ step = "copy"
     /\ list = <<[from |-> source, to |-> target]>>
     /\ source = target \/ (IsPrefix(source, target) /\ Stat(t, source).kind = "dir")
  \/ /\ Apart(SourceData, TargetData)
     /\ SameLinks(begun, t) /\ Outside(t, TargetData)
     /\ \A i \in 1..Len(list) : IsPrefix(target, list[i].to)
     /\ cmd.noClobber =>
          /\ \A q \in Paths : begun[q].kind = "file" => t[q] = begun[q]
          /\ step \in {"open", "write"} => At(begun, Followed(t, list[1].to)).kind # "file"

Rmdirs ==
  /\ IsPrefix(target, source) /\ SameLinks(begun, tree)
  /\ target = source => tree = begun
  /\ target # source /\ Len(target) > 1 => At(begun, TargetEntry).kind = "dir"
  /\ \A q \in Paths : \/ tree[q] = begun[q]
                      \/ tree[q] = Absent /\ (IsPrefix(SourceEntry, q) \/ begun[q].kind = "dir")

Phase ==
  /\ cmd.op # "mv" => Shallow(tree) /\ Shallow(begun)
  /\ pc \in {"rm", "mkdir", "touch"} => tree = begun /\ source = target
  /\ pc = "rmdir" => Rmdirs
  /\ pc = "mv" => /\ tree = begun
                  /\ \/ source = target
                     \/ IsPrefix(source, target) /\ Stat(tree, source).kind = "dir"
                     \/ Apart(SourceEntry, TargetEntry) /\ Apart(SourceData, TargetEntry)
  /\ pc = "rename" => MvMoving(tree) /\ NoneBelow(tree, TargetEntry)
  /\ pc = "unlink" => MvMoving(tree) /\ Resolved(tree) /\ Delivered(tree, << >>)
  /\ pc \in {"copy", "open", "write"} /\ cmd.op = "mv" => MvCopying(tree, todo, pc)
  /\ pc \in {"copy", "open", "write"} /\ cmd.op = "cp" => CpCopying(tree, todo, pc)

IInv == Typed /\ Opened /\ Secure(tree) /\ Phase

-----------------------------------------------------------------------------
(* The invariant implies that a tree is secure. *)

Steady == UNCHANGED <<cmd, source, target, begun>>

LEMMA Entries ==
  ASSUME Typed, source # Root, target # Root
  PROVE  /\ SourceEntry \in AnyPath /\ SourceEntry # Root /\ SourceData \in AnyPath
         /\ TargetEntry \in AnyPath /\ TargetEntry # Root /\ TargetData \in AnyPath
         /\ tree \in [Paths -> Node] /\ begun \in [Paths -> Node]
BY NamedIs, FollowedType DEF Typed, IsTree, SourceEntry, SourceData, TargetEntry, TargetData

LEMMA FilesInIs ==
  ASSUME NEW p \in AnyPath, NEW q
  PROVE  q \in FilesIn(p) <=> /\ q \in Paths /\ q \in AnyPath /\ IsPrefix(p, q)
                              /\ begun[q].kind = "file" /\ begun[q].whole
BY PathIs DEF FilesIn, Below

\* Below p is not below q when they are apart.
LEMMA ApartBelow ==
  ASSUME NEW p \in AnyPath, NEW q \in AnyPath, Apart(p, q),
         NEW r \in AnyPath, IsPrefix(p, r)
  PROVE  ~ IsPrefix(q, r)
BY PrefixOrder DEF Apart

LEMMA SecureBegun == Secure(begun)
<1>1. \A p, q : q \in FilesIn(p) => q \in Paths
  BY DEF FilesIn, Below
<1> QED
  BY <1>1 DEF Secure

LEMMA SecureMoving ==
  ASSUME Typed, source # Root, target # Root, cmd.op = "mv", NEW t,
         Apart(SourceEntry, TargetEntry), Outside(t, TargetEntry),
         cmd.noClobber => \A q \in Paths : IsPrefix(TargetEntry, q) => begun[q].kind # "file"
  PROVE  Secure(t)
<1>1. SourceEntry \in AnyPath /\ TargetEntry \in AnyPath /\ Root \in AnyPath
  BY Entries, RootIsPath
<1>2. ASSUME NEW p \in FilesIn(SourceEntry) PROVE p \in Paths /\ t[p] = begun[p]
  <2>1. p \in Paths /\ p \in AnyPath /\ IsPrefix(SourceEntry, p) /\ begun[p].kind = "file"
    BY <1>1, FilesInIs
  <2>2. ~ IsPrefix(TargetEntry, p)
    BY <1>1, <2>1, ApartBelow
  <2> QED
    BY <2>1, <2>2 DEF Outside
<1>3. ASSUME cmd.noClobber, NEW p \in FilesIn(Root) PROVE p \in Paths /\ t[p] = begun[p]
  <2>1. p \in Paths /\ begun[p].kind = "file"
    BY <1>1, <1>3, FilesInIs
  <2> QED
    BY <1>3, <2>1 DEF Outside
<1>4. \A p \in Paths : \/ t[p] = begun[p]
                       \/ begun[p].kind \in {"absent", "dir"}
                       \/ IsPrefix(TargetEntry, p)
  BY DEF Outside
<1> QED
  BY <1>2, <1>3, <1>4 DEF Secure

LEMMA CutsLinks ==
  ASSUME NEW t, MvMoving(t)
  PROVE  CutLinks(begun, t, TargetEntry)
BY DEF MvMoving, Outside, CutLinks, SameLink

\* Where the copies go.
LEMMA Landing ==
  ASSUME Typed, source # Root, target # Root, NEW t, IsTree(t), MvMoving(t), Resolved(t),
         NEW r \in AnyPath
  PROVE  /\ Followed(t, target \o r) = Followed(t, target) \o r
         /\ Followed(t, target) \in AnyPath
         /\ IsPrefix(TargetEntry, Followed(t, target \o r))
<1>1. /\ TargetEntry \in AnyPath /\ target \in AnyPath /\ t \in [Paths -> Node]
      /\ Followed(t, target) \in AnyPath
  BY Entries, FollowedType DEF Typed, IsTree
<1>2. ASSUME NEW s \in AnyPath
      PROVE  /\ Followed(t, target) \o s \in AnyPath
             /\ IsPrefix(TargetEntry, Followed(t, target) \o s)
  <2>1. /\ Followed(t, target) \o s \in AnyPath
        /\ IsPrefix(Followed(t, target), Followed(t, target) \o s)
    BY <1>1, Joined
  <2>2. IsPrefix(TargetEntry, Followed(t, target))
    BY DEF Resolved
  <2> QED
    BY <1>1, <2>1, <2>2, PrefixOrder
<1>3. ASSUME NEW s \in AnyPath PROVE At(t, Followed(t, target) \o s).kind # "link"
  <2>1. PICK c : c = Followed(t, target) \o s
    OBVIOUS
  <2>2. IsPrefix(TargetEntry, c)
    BY <1>2, <2>1
  <2>3. At(t, c).kind # "link"
    BY <1>1, <2>2, AtIs DEF MvMoving, Exists
  <2> QED
    BY <2>1, <2>3
<1>4. Followed(t, target \o r) = Followed(t, target) \o r
  BY <1>1, <1>3, FollowedDown
<1> QED
  BY <1>1, <1>2, <1>4

\* A file at B or below it is at r below it.
LEMMA FileBelow ==
  ASSUME NEW B \in AnyPath, NEW p \in FilesIn(B)
  PROVE  \E r \in Paths : /\ r \in AnyPath /\ p = B \o r
                          /\ B \o r \in Paths /\ Whole(begun[B \o r])
<1>2. p \in Paths /\ p \in AnyPath /\ IsPrefix(B, p) /\ Whole(begun[p])
  BY FilesInIs DEF Whole
<1>3. PICK r \in AnyPath : p = B \o r
  BY <1>2, RestOf
<1>4. Len(r) <= MaxDepth
  <2>1. Len(p) = Len(B) + Len(r) /\ Len(B) \in Nat /\ Len(r) \in Nat
    BY <1>3, Joined, PathParts
  <2>2. Len(p) <= MaxDepth
    BY <1>2, PathIs
  <2> QED
    BY <2>1, <2>2, DepthAssumption
<1> QED
  BY <1>2, <1>3, <1>4, PathIs

\* A source entry with a file in it is no link.
LEMMA EntryIsData ==
  ASSUME Typed, source # Root, target # Root, NEW p \in FilesIn(SourceEntry)
  PROVE  SourceEntry = SourceData
<1>1. /\ SourceEntry \in AnyPath /\ source \in AnyPath
      /\ IsTree(begun) /\ begun \in [Paths -> Node]
  BY Entries DEF Typed
<1>2. p \in Paths /\ p \in AnyPath /\ IsPrefix(SourceEntry, p) /\ begun[p].kind = "file"
  BY <1>1, FilesInIs
<1>3. SourceEntry \in Paths /\ begun[SourceEntry].kind # "link"
  BY <1>1, <1>2, AncestorsAreDirs DEF Exists
<1>4. At(begun, SourceEntry).kind # "link"
  BY <1>3 DEF At
<1> QED
  BY <1>1, <1>4, NamedIs DEF SourceEntry, SourceData

LEMMA SecureRenamed ==
  ASSUME Typed, source # Root, target # Root, cmd.op = "mv",
         MvMoving(tree), NoneBelow(tree, TargetEntry),
         NEW u, Moved(tree, u, Named(tree, source), Named(tree, target))
  PROVE  Secure(u)
<1>1. /\ SourceEntry \in AnyPath /\ SourceEntry # Root
      /\ TargetEntry \in AnyPath /\ TargetEntry # Root /\ Root \in AnyPath
      /\ tree \in [Paths -> Node] /\ begun \in [Paths -> Node]
      /\ source \in AnyPath /\ target \in AnyPath
  BY Entries, RootIsPath DEF Typed
<1>2. PICK a : a = Named(tree, source)
  OBVIOUS
<1>3. PICK b : b = Named(tree, target)
  OBVIOUS
<1>4. CutLinks(begun, tree, TargetEntry)
  BY CutsLinks
<1>5. a = SourceEntry
  <2>1. a \in Paths /\ Exists(tree[a])
    BY <1>2 DEF Moved
  <2>2. ~ IsPrefix(TargetEntry, a)
    BY <2>1 DEF NoneBelow, Exists
  <2> QED
    BY <1>1, <1>2, <1>4, <2>2, NamedCut DEF SourceEntry
<1>6. IsPrefix(TargetEntry, b) /\ b \in AnyPath
  <2>1. IsPrefix(TargetEntry, TargetEntry)
    BY <1>1, PrefixOrder
  <2> QED
    BY <1>1, <1>3, <1>4, <2>1, NamedCut, NamedIs DEF TargetEntry
<1>7. Moved(tree, u, SourceEntry, b)
  BY <1>2, <1>3, <1>5
<1>8. ASSUME NEW p \in FilesIn(SourceEntry) PROVE \E q \in Paths : u[q] = begun[p]
  <2>1. PICK r \in Paths : /\ r \in AnyPath /\ p = SourceEntry \o r
                           /\ SourceEntry \o r \in Paths /\ Whole(begun[SourceEntry \o r])
    BY <1>1, FileBelow
  <2>2. p \in AnyPath /\ IsPrefix(SourceEntry, p) /\ p \in Paths /\ begun[p].kind = "file"
    BY <1>1, FilesInIs
  <2>3. ~ IsPrefix(TargetEntry, p)
    BY <1>1, <2>2, ApartBelow DEF MvMoving
  <2>4. tree[p] = begun[p] /\ Exists(tree[p])
    BY <2>2, <2>3 DEF MvMoving, Outside, Exists
  <2> QED
    BY <1>7, <2>1, <2>4 DEF Moved
<1>9. ASSUME NEW p \in Paths, ~ IsPrefix(SourceEntry, p), ~ IsPrefix(TargetEntry, p)
      PROVE  u[p] = tree[p] /\ (u[p] = begun[p] \/ begun[p].kind \in {"absent", "dir"})
  <2>1. p \in AnyPath
    BY PathIs
  <2>2. ~ IsPrefix(b, p)
    BY <1>1, <1>6, <1>9, <2>1, PrefixOrder
  <2> QED
    BY <1>7, <1>9, <2>2 DEF Moved, MvMoving, Outside
<1>10. ASSUME cmd.noClobber, NEW p \in FilesIn(Root) PROVE \E q \in Paths : u[q] = begun[p]
  <2>1. p \in Paths /\ begun[p].kind = "file" /\ begun[p].whole /\ p \in AnyPath
    BY <1>1, FilesInIs
  <2>2. CASE IsPrefix(SourceEntry, p)
    BY <1>1, <1>8, <2>1, <2>2, FilesInIs
  <2>3. CASE ~ IsPrefix(SourceEntry, p)
    <3>1. ~ IsPrefix(TargetEntry, p)
      BY <1>10, <2>1 DEF MvMoving
    <3> QED
      BY <1>9, <2>1, <2>3, <3>1
  <2> QED
    BY <2>2, <2>3
<1> QED
  BY <1>8, <1>9, <1>10 DEF Secure

LEMMA SecureUnlinked ==
  ASSUME Typed, source # Root, target # Root, cmd.op = "mv",
         MvMoving(tree), Resolved(tree), Delivered(tree, << >>),
         NEW u, Removed(tree, u, SourceEntry)
  PROVE  Secure(u)
<1>1. /\ SourceEntry \in AnyPath /\ TargetEntry \in AnyPath /\ Root \in AnyPath
      /\ tree \in [Paths -> Node] /\ IsTree(tree) /\ target \in AnyPath
  BY Entries, RootIsPath DEF Typed
<1>2. \A q \in Paths : u[q] = tree[q] \/ IsPrefix(SourceEntry, q)
  BY DEF Removed
<1>3. ASSUME NEW p \in FilesIn(SourceEntry) PROVE \E q \in Paths : u[q] = begun[p]
  <2>0. SourceEntry = SourceData
    BY EntryIsData
  <2>1. PICK r \in Paths : /\ r \in AnyPath /\ p = SourceData \o r
                           /\ SourceData \o r \in Paths /\ Whole(begun[SourceData \o r])
    BY <1>1, <2>0, FileBelow
  <2>2. PICK q : q = Followed(tree, target \o r)
    OBVIOUS
  <2>3. At(tree, q) = begun[p]
    BY <2>1, <2>2 DEF Delivered, InHand
  <2>4. q \in Paths /\ tree[q] = begun[p]
    BY <1>1, <2>1, <2>3, AtIs DEF Whole, Exists
  <2>5. IsPrefix(TargetEntry, q) /\ q \in AnyPath
    BY <1>1, <2>1, <2>2, <2>4, Landing, PathIs
  <2>6. ~ IsPrefix(SourceEntry, q)
    BY <1>1, <2>5, PrefixOrder DEF MvMoving, Apart
  <2> QED
    BY <1>2, <2>4, <2>6
<1>4. ASSUME NEW p \in Paths, ~ IsPrefix(SourceEntry, p), ~ IsPrefix(TargetEntry, p)
      PROVE  u[p] = begun[p] \/ begun[p].kind \in {"absent", "dir"}
  BY <1>2, <1>4 DEF MvMoving, Outside
<1>5. ASSUME cmd.noClobber, NEW p \in FilesIn(Root) PROVE \E q \in Paths : u[q] = begun[p]
  <2>1. p \in Paths /\ begun[p].kind = "file" /\ begun[p].whole /\ p \in AnyPath
    BY <1>1, FilesInIs
  <2>2. CASE IsPrefix(SourceEntry, p)
    BY <1>1, <1>3, <2>1, <2>2, FilesInIs
  <2>3. CASE ~ IsPrefix(SourceEntry, p)
    <3>1. ~ IsPrefix(TargetEntry, p)
      BY <1>5, <2>1 DEF MvMoving
    <3> QED
      BY <1>4, <2>1, <2>3, <3>1
  <2> QED
    BY <2>2, <2>3
<1> QED
  BY <1>3, <1>4, <1>5 DEF Secure

LEMMA SecureCopying ==
  ASSUME Typed, source # Root, target # Root, cmd.op = "cp",
         NEW t, NEW list, NEW step, CpCopying(t, list, step)
  PROVE  Secure(t)
<1>1. SourceData \in AnyPath /\ TargetData \in AnyPath /\ Root \in AnyPath
  BY Entries, RootIsPath
<1>2. CASE t = begun
  BY <1>2, SecureBegun
<1>3. CASE t # begun
  <2>1. /\ Apart(SourceData, TargetData) /\ Outside(t, TargetData)
        /\ cmd.noClobber => \A q \in Paths : begun[q].kind = "file" => t[q] = begun[q]
    BY <1>3 DEF CpCopying
  <2>2. ASSUME NEW p \in FilesIn(SourceData) PROVE t[p] = begun[p]
    <3>1. p \in Paths /\ p \in AnyPath /\ IsPrefix(SourceData, p) /\ begun[p].kind = "file"
      BY <1>1, FilesInIs
    <3>2. ~ IsPrefix(TargetData, p)
      BY <1>1, <2>1, <3>1, ApartBelow
    <3> QED
      BY <2>1, <3>1, <3>2 DEF Outside
  <2>3. ASSUME cmd.noClobber, NEW p \in FilesIn(Root) PROVE p \in Paths /\ t[p] = begun[p]
    BY <1>1, <2>1, <2>3, FilesInIs
  <2>4. \A p \in Paths : \/ t[p] = begun[p]
                         \/ begun[p].kind \in {"absent", "dir"}
                         \/ IsPrefix(TargetData, p)
    BY <2>1 DEF Outside
  <2> QED
    BY <2>2, <2>3, <2>4 DEF Secure
<1> QED
  BY <1>2, <1>3

-----------------------------------------------------------------------------
(* What the calls keep. *)

LEMMA WidenedKeeps ==
  ASSUME NEW t, NEW u, Widened(t, u)
  PROVE  /\ SameLinks(t, u)
         /\ \A q \in Paths : t[q].kind = "file" => u[q] = t[q]
         /\ \A q \in Paths : t[q].kind = "dir" => u[q].kind = "dir"
BY NodesAre DEF Widened, SameLinks, SameLink

LEMMA WrittenKeeps ==
  ASSUME NEW t, NEW u, NEW c \in Paths, NEW f, t \in [Paths -> Node], Written(t, u, c, f)
  PROVE  /\ SameLinks(t, u)
         /\ \A q \in Paths : u[q] = IF q = c THEN f ELSE t[q]
BY DEF Written, SameLinks, SameLink

LEMMA StatIs ==
  ASSUME NEW t, IsTree(t), NEW p
  PROVE  /\ Exists(Stat(t, p)) => /\ Followed(t, p) \in Paths
                                  /\ Stat(t, p) = t[Followed(t, p)]
                                  /\ t[Followed(t, p)].kind \in {"file", "dir"}
         /\ Stat(t, p).kind \in {"absent", "file", "dir"}
<1>1. t \in [Paths -> Node]
  BY DEF IsTree
<1>2. PICK n : n = At(t, Followed(t, p))
  OBVIOUS
<1>3. Stat(t, p) = IF n.kind = "link" THEN Absent ELSE n
  BY <1>2 DEF Stat
<1>4. /\ n.kind \in {"absent", "dir", "file", "link"}
      /\ Exists(n) => Followed(t, p) \in Paths /\ n = t[Followed(t, p)]
  BY <1>1, <1>2, AtIs
<1> QED
  BY <1>3, <1>4, NodesAre DEF Exists

LEMMA StatKept ==
  ASSUME NEW t, NEW u, IsTree(t), IsTree(u), SameLinks(t, u), NEW p \in AnyPath,
         Stat(t, p).kind = "file",
         \A q \in Paths : t[q].kind = "file" => u[q].kind = "file"
  PROVE  Stat(u, p).kind = "file"
<1>1. t \in [Paths -> Node] /\ u \in [Paths -> Node]
  BY DEF IsTree
<1>2. PICK c : c = Followed(t, p)
  OBVIOUS
<1>3. c = Followed(u, p)
  BY <1>1, <1>2, FollowedSame
<1>4. c \in Paths /\ t[c].kind = "file"
  BY <1>2, StatIs DEF Exists
<1>5. At(u, c) = u[c] /\ u[c].kind = "file"
  BY <1>4 DEF At
<1> QED
  BY <1>3, <1>5 DEF Stat

LEMMA TodoParts ==
  ASSUME Typed, todo # << >>
  PROVE  /\ From \in AnyPath /\ To \in AnyPath /\ Tail(todo) \in Seq(Pair)
         /\ Len(todo) \in Nat \ {0} /\ From = todo[1].from /\ To = todo[1].to
         /\ Len(Tail(todo)) = Len(todo) - 1
         /\ \A i \in 1..(Len(todo) - 1) : Tail(todo)[i] = todo[i + 1]
<1>1. todo \in Seq(Pair)
  BY DEF Typed
<1>2. Head(todo) = todo[1] /\ Len(todo) \in Nat \ {0} /\ todo[1] \in Pair
  BY <1>1
<1>3. /\ Tail(todo) \in Seq(Pair) /\ Len(Tail(todo)) = Len(todo) - 1
      /\ \A i \in 1..(Len(todo) - 1) : Tail(todo)[i] = todo[i + 1]
  BY <1>1, HeadTailProperties
<1> QED
  BY <1>2, <1>3 DEF From, To, Pair, AnyPath

LEMMA OneName ==
  ASSUME NEW m \in Names
  PROVE  <<m>> \in AnyPath /\ <<m>> \in Paths /\ Len(<<m>>) = 1 /\ <<m>> # Root
<1>1. <<m>> \in Seq(Names) /\ Len(<<m>>) = 1
  OBVIOUS
<1>2. PICK p : p = <<m>>
  OBVIOUS
<1>3. p \in AnyPath /\ Len(p) = 1
  BY <1>1, <1>2 DEF AnyPath
<1>4. p \in Paths /\ p # Root
  BY <1>3, PathIs, DepthAssumption, PathParts
<1> QED
  BY <1>2, <1>3, <1>4

-----------------------------------------------------------------------------
(* Types and control, whatever the arguments are. *)

LEMMA TypedInit == Init => Typed /\ Opened
<1> SUFFICES ASSUME Init PROVE Typed /\ Opened
  OBVIOUS
<1>1. PICK S \in SUBSET (Paths \ {Root}) :
        /\ Cardinality(S) <= MaxNodes
        /\ \A p \in S : Len(p) = 1 \/ Front(p) \in S
        /\ \E F \in SUBSET {p \in S : Children([q \in Paths |-> IF q \in S THEN Dir ELSE Absent], p) = {}},
              L \in {{}} \cup {{<<m>>} : m \in Names}, m \in Names :
             /\ L \subseteq F /\ <<m>> \notin L
             /\ L = {} => m = CHOOSE k \in Names : TRUE
             /\ tree = [p \in Paths |-> IF p \in L THEN Link(<<m>>)
                                        ELSE IF p \in F THEN File(p)
                                        ELSE IF p \in S \cup {Root} THEN Dir ELSE Absent]
  BY Zenon DEF Init
<1>2. PICK F \in SUBSET {p \in S : Children([q \in Paths |-> IF q \in S THEN Dir ELSE Absent], p) = {}},
           L \in {{}} \cup {{<<m>>} : m \in Names}, m \in Names :
             /\ L \subseteq F /\ <<m>> \notin L
             /\ L = {} => m = CHOOSE k \in Names : TRUE
             /\ tree = [p \in Paths |-> IF p \in L THEN Link(<<m>>)
                                        ELSE IF p \in F THEN File(p)
                                        ELSE IF p \in S \cup {Root} THEN Dir ELSE Absent]
  BY <1>1
<1>3. <<m>> \in Paths
  BY <1>2, OneName
<1>4. ASSUME NEW p \in Paths
      PROVE  tree[p] = IF p \in L THEN Link(<<m>>)
                       ELSE IF p \in F THEN File(p)
                       ELSE IF p \in S \cup {Root} THEN Dir ELSE Absent
  BY <1>2
<1>5. tree \in [Paths -> Node]
  BY <1>2, <1>3, NodesAre
<1>6. tree[Root].kind = "dir"
  <2>1. Root \notin L /\ Root \notin F
    BY <1>2
  <2> QED
    BY <1>4, <2>1, RootIsPath, NodesAre
<1>7. ASSUME NEW p \in Paths \ {Root}, Exists(tree[p]) PROVE tree[Front(p)].kind = "dir"
  <2>1. p \in S
    BY <1>2, <1>4, <1>7, NodesAre DEF Exists
  <2>2. p \in AnyPath /\ Front(p) \in AnyPath /\ Front(p) \in Paths /\ Last(p) \in Names
        /\ Append(Front(p), Last(p)) = p /\ Len(Front(p)) = Len(p) - 1
    BY PathIs, PathFront
  <2>3. CASE Len(p) = 1
    <3>1. Front(p) = Root
      BY <2>2, <2>3, PathParts
    <3> QED
      BY <1>6, <3>1
  <2>4. CASE Front(p) \in S
    <3>1. Last(p) \in Children([q \in Paths |-> IF q \in S THEN Dir ELSE Absent], Front(p))
      BY <2>1, <2>2, NodesAre DEF Children, At, Exists
    <3>2. Front(p) \notin F /\ Front(p) \notin L
      BY <1>2, <3>1
    <3> QED
      BY <1>4, <2>2, <2>4, <3>2, NodesAre
  <2> QED
    BY <1>1, <2>1, <2>3, <2>4
<1>8. IsTree(tree)
  BY <1>5, <1>6, <1>7 DEF IsTree, WellFormed
<1>9. /\ cmd \in Commands(tree) /\ destDir = (Stat(tree, cmd.dest).kind = "dir")
      /\ rest = cmd.operands /\ source = Root /\ target = Root /\ pc = "begin"
      /\ todo = << >> /\ status = 0 /\ begun = tree
  BY DEF Init
<1>10. /\ cmd.op \in Ops /\ cmd.dest \in Paths
       /\ \E n \in Nat : cmd.operands \in [1..n -> Paths \ {Root}]
  <2> DEFINE given == {p \in Paths \ {Root} : Len(p) = 1 \/ Exists(tree[Front(p)])}
             operands == UNION {[1..n -> given] : n \in 1..MaxOperands}
  <2>1. \/ cmd \in [op : Copying, deep : BOOLEAN, noClobber : BOOLEAN, operands : operands,
                    dest : given \cup {Root}]
        \/ cmd \in [op : Ops \ Copying, deep : BOOLEAN, noClobber : BOOLEAN,
                    operands : [1..1 -> given], dest : {Root}]
    BY <1>9 DEF Commands
  <2>2. given \subseteq Paths \ {Root}
    OBVIOUS
  <2>3. \A o \in operands : \E n \in Nat : o \in [1..n -> given]
    BY DepthAssumption
  <2> HIDE DEF given, operands
  <2>4. cmd.op \in Ops /\ cmd.dest \in given \cup {Root}
        /\ (cmd.operands \in operands \/ cmd.operands \in [1..1 -> given])
    BY <2>1 DEF Ops
  <2>5. PICK n \in Nat : cmd.operands \in [1..n -> given]
    BY <2>3, <2>4
  <2>6. cmd.operands \in [1..n -> Paths \ {Root}]
    BY <2>2, <2>5
  <2> QED
    BY <2>2, <2>4, <2>6, RootIsPath
<1>11. cmd.operands \in Seq(AnyPath \ {Root})
  <2>1. Paths \ {Root} \subseteq AnyPath \ {Root}
    BY PathIs
  <2>2. PICK n \in Nat : cmd.operands \in [1..n -> Paths \ {Root}]
    BY <1>10
  <2>3. cmd.operands \in [1..n -> AnyPath \ {Root}]
    BY <2>1, <2>2
  <2> QED
    BY <2>3
<1>12. destDir \/ cmd.dest # Root
  <2> SUFFICES ASSUME cmd.dest = Root PROVE Stat(tree, Root).kind = "dir"
    BY <1>9
  <2> QED
    BY <1>6, FollowedRoot, RootIsPath DEF Stat, At
<1>13. << >> \in Seq(Pair) /\ cmd.dest \in AnyPath
  BY <1>10, PathIs
<1> QED
  BY <1>8, <1>9, <1>10, <1>11, <1>12, <1>13, RootIsPath DEF Typed, Opened, Ops, Copying

-----------------------------------------------------------------------------
(* The steps: types and control, cp and mv. *)

\* An action that leaves the operand as it is.
Continued ==
  /\ Steady /\ UNCHANGED <<rest, destDir>>
  /\ IsTree(tree') /\ status' \in {0, 1} /\ todo' \in Seq(Pair)
  /\ pc' \in {"operand", "done", "rename", "copy", "open", "write", "unlink"}
  /\ pc' \in {"rename", "unlink"} => cmd.op = "mv"
  /\ pc' \in {"copy", "open", "write"} => cmd.op \in Copying
  /\ pc' \notin {"operand", "done"} => source # Root /\ target # Root
  /\ pc' \in {"open", "write"} => todo' # << >>

LEMMA TypedContinued == Typed /\ Continued => Typed'
<1> SUFFICES ASSUME Typed, Continued PROVE Typed'
  OBVIOUS
<1>1. /\ pc' \notin Ops
      /\ pc' \in {"begin", "operand", "rename", "unlink", "copy", "open", "write", "done"} \cup Ops
      /\ pc' # "begin"
  BY DEF Continued, Ops, Copying
<1> QED
  BY <1>1 DEF Typed, Continued, Steady

LEMMA BeginTyped == Typed /\ (Begin \/ LastOperand \/ MvStops) => Continued /\ tree' = tree /\ pc' \in {"operand", "done"}
BY DEF Typed, Begin, LastOperand, MvStops, Goto, Fail, Continued, Steady

LEMMA MvClearsTyped ==
  Typed /\ MvClears => /\ Continued
                       /\ \/ pc' = "operand" /\ Removed(tree, tree', Named(tree, target))
                          \/ pc' = "rename" /\ Removed(tree, tree', Named(tree, target))
                             /\ NoneBelow(tree', Named(tree, target)) /\ UNCHANGED <<todo, status>>
                          \/ /\ pc' = "rename" /\ tree' = tree /\ UNCHANGED <<todo, status>>
                             /\ ~ Exists(At(tree, Named(tree, target)))
<1> SUFFICES ASSUME Typed, MvClears
             PROVE  /\ Continued
                    /\ \/ pc' = "operand" /\ Removed(tree, tree', Named(tree, target))
                       \/ pc' = "rename" /\ Removed(tree, tree', Named(tree, target))
                          /\ NoneBelow(tree', Named(tree, target)) /\ UNCHANGED <<todo, status>>
                       \/ /\ pc' = "rename" /\ tree' = tree /\ UNCHANGED <<todo, status>>
                          /\ ~ Exists(At(tree, Named(tree, target)))
  OBVIOUS
<1>1. /\ IsTree(tree) /\ target \in AnyPath /\ target # Root /\ source # Root /\ cmd.op = "mv"
      /\ status \in {0, 1} /\ todo \in Seq(Pair)
  BY DEF Typed, MvClears, Ops
<1>2. CASE Exists(Lstat(tree, target))
  <2>1. PICK o \in RemoveAllCalls(target) \cup RemoveCalls(target) :
           tree' = o.tree /\ IF o.ok THEN Goto("rename") ELSE Fail("operand")
    BY <1>2 DEF MvClears, Call
  <2>2. /\ Removed(tree, o.tree, Named(tree, target))
        /\ o.ok => NoneBelow(o.tree, Named(tree, target))
    BY <1>1, RemoveAllIs, RemoveIs
  <2>3. IsTree(o.tree)
    BY <2>2 DEF Removed
  <2> QED
    BY <1>1, <2>1, <2>2, <2>3 DEF Goto, Fail, Continued, Steady
<1>3. CASE ~ Exists(Lstat(tree, target))
  BY <1>1, <1>3 DEF MvClears, Goto, Continued, Steady, Lstat
<1> QED
  BY <1>2, <1>3

LEMMA MvRenamesTyped ==
  Typed /\ MvRenames =>
    /\ Continued
    /\ \/ pc' = "operand" /\ Moved(tree, tree', Named(tree, source), Named(tree, target))
       \/ /\ pc' = "copy" /\ tree' = tree
          /\ todo' = <<[from |-> source, to |-> target]>>
<1> SUFFICES ASSUME Typed, MvRenames
             PROVE  /\ Continued
                    /\ \/ pc' = "operand" /\ Moved(tree, tree', Named(tree, source), Named(tree, target))
                       \/ /\ pc' = "copy" /\ tree' = tree
                          /\ todo' = <<[from |-> source, to |-> target]>>
  OBVIOUS
<1>1. /\ IsTree(tree) /\ source \in AnyPath /\ source # Root /\ target \in AnyPath /\ target # Root
      /\ cmd.op = "mv" /\ status \in {0, 1} /\ todo \in Seq(Pair)
  BY DEF Typed, MvRenames
<1>2. PICK o \in RenameCalls(source, target) :
        /\ tree' = o.tree
        /\ IF o.ok THEN Goto("operand")
           ELSE /\ todo' = <<[from |-> source, to |-> target]>> /\ pc' = "copy"
                /\ UNCHANGED <<cmd, rest, source, target, destDir, status, begun>>
  BY DEF MvRenames, Call
<1>3. \/ ~ o.ok /\ o.tree = tree
      \/ o.ok /\ Moved(tree, o.tree, Named(tree, source), Named(tree, target))
  BY <1>1, RenameIs
<1>4. <<[from |-> source, to |-> target]>> \in Seq(Pair)
  BY <1>1 DEF Pair, AnyPath
<1>5. CASE ~ o.ok /\ o.tree = tree
  BY <1>1, <1>2, <1>4, <1>5 DEF Continued, Steady, Copying
<1>6. CASE o.ok /\ Moved(tree, o.tree, Named(tree, source), Named(tree, target))
  BY <1>1, <1>2, <1>6 DEF Continued, Steady, Goto, Moved
<1> QED
  BY <1>3, <1>5, <1>6

LEMMA MvUnlinksTyped ==
  Typed /\ MvUnlinks => /\ Continued /\ pc' = "operand"
                        /\ Removed(tree, tree', Named(tree, source))
<1> SUFFICES ASSUME Typed, MvUnlinks
             PROVE  Continued /\ pc' = "operand" /\ Removed(tree, tree', Named(tree, source))
  OBVIOUS
<1>1. /\ IsTree(tree) /\ source \in AnyPath /\ source # Root
      /\ status \in {0, 1} /\ todo \in Seq(Pair)
  BY DEF Typed, MvUnlinks
<1>2. PICK o \in RemoveAllCalls(source) \cup RemoveCalls(source) :
         tree' = o.tree /\ IF o.ok THEN Goto("operand") ELSE Fail("operand")
  BY DEF MvUnlinks, Call
<1>3. Removed(tree, o.tree, Named(tree, source))
  BY <1>1, RemoveAllIs, RemoveIs
<1>4. IsTree(o.tree)
  BY <1>3 DEF Removed
<1> QED
  BY <1>1, <1>2, <1>3, <1>4 DEF Goto, Fail, Continued, Steady

LEMMA CopyStopsTyped ==
  Typed /\ CopyStops => Continued /\ pc' = "operand" /\ tree' = tree
<1>1. << >> \in Seq(Pair)
  OBVIOUS
<1> QED
  BY <1>1 DEF Typed, CopyStops, Abort, Continued, Steady

\* Rest and source of the list when the head is replaced.
LEMMA Spliced ==
  ASSUME NEW list \in Seq(Pair), NEW more \in Seq(Pair)
  PROVE  more \o list \in Seq(Pair)
BY ConcatProperties

LEMMA CopyEndsTyped ==
  Typed /\ (CopySkips \/ CopyEnds) =>
    Continued /\ tree' = tree /\ pc' \in {"copy", "unlink", "operand"}
<1> SUFFICES ASSUME Typed, CopySkips \/ CopyEnds
             PROVE  Continued /\ tree' = tree /\ pc' \in {"copy", "unlink", "operand"}
  OBVIOUS
<1>1. CASE CopySkips
  <2>1. Tail(todo) \in Seq(Pair) /\ << >> \in Seq(Pair)
    BY <1>1, TodoParts DEF CopySkips
  <2>2. << >> \o Tail(todo) \in Seq(Pair)
    BY <2>1, Spliced
  <2> QED
    BY <1>1, <2>2 DEF Typed, CopySkips, Copied, Continued, Steady
<1>2. CASE CopyEnds
  BY <1>2 DEF Typed, CopyEnds, Goto, Continued, Steady, Copying
<1> QED
  BY <1>1, <1>2

LEMMA FrontIsPath ==
  ASSUME NEW p \in AnyPath
  PROVE  Front(p) \in AnyPath
<1>1. CASE p = Root
  <2>1. Len(Root) - 1 = -1 /\ -1 \in Int /\ 1 \in Int /\ -1 < 1
    BY RootIsPath
  <2>2. SubSeq(Root, 1, -1) = << >>
    BY <2>1, SubSeqEmpty
  <2> QED
    BY <1>1, <2>1, <2>2, RootIsPath DEF Front, Root
<1> QED
  BY <1>1, PathFront

\* The calls that copy the entries S of the directory from.
EntriesAre(from, to, S, list, names) ==
  /\ Len(names) \in Nat /\ Len(list) = Len(names) /\ list \in Seq(Pair)
  /\ \A i \in 1..Len(names) :
       /\ names[i] \in Names
       /\ list[i].from = Append(from, names[i]) /\ list[i].to = Append(to, names[i])
  /\ \A i, j \in 1..Len(names) : names[i] = names[j] => i = j
  /\ \A n \in S : \E i \in 1..Len(names) : names[i] = n

LEMMA FunctionIsSeq ==
  ASSUME NEW S, NEW n \in Nat, NEW f \in [1..n -> S]
  PROVE  f \in Seq(S) /\ Len(f) = n
<1>1. f \in Seq(S)
  BY SeqDef
<1>2. DOMAIN f = 1..Len(f) /\ Len(f) \in Nat
  BY <1>1, LenProperties
<1>3. DOMAIN f = 1..n
  OBVIOUS
<1> QED
  BY <1>1, <1>2, <1>3

LEMMA EntriesListed ==
  ASSUME NEW from \in AnyPath, NEW to \in AnyPath, NEW S \in SUBSET Names,
         NEW names, names = SetToSeq(S),
         NEW list, list = [i \in 1..Len(names) |-> [from |-> Append(from, names[i]),
                                                     to |-> Append(to, names[i])]]
  PROVE  EntriesAre(from, to, S, list, names)
<1>1. IsFiniteSet(S)
  BY NamesAssumption, FS_Subset
<1>2. /\ Len(names) \in Nat /\ names \in [1..Len(names) -> S]
      /\ \A i, j \in 1..Len(names) : names[i] = names[j] => i = j
      /\ \A n \in S : \E i \in 1..Len(names) : names[i] = n
  <2>1. Lists(names, S)
    BY <1>1, ListIs
  <2> QED
    BY <2>1 DEF Lists
<1>3. \A i \in 1..Len(names) : names[i] \in Names
  BY <1>2
<1>4. \A i \in 1..Len(names) : Append(from, names[i]) \in AnyPath /\ Append(to, names[i]) \in AnyPath
  BY <1>3, PathAppend
<1>5. list \in [1..Len(names) -> Pair]
  BY <1>4 DEF Pair, AnyPath
<1>6. list \in Seq(Pair) /\ Len(list) = Len(names)
  <2>1. \A n \in Nat : \A f \in [1..n -> Pair] : f \in Seq(Pair) /\ Len(f) = n
    BY Zenon, FunctionIsSeq
  <2>2. PICK f : f = list
    OBVIOUS
  <2>3. PICK n : n = Len(names)
    OBVIOUS
  <2>4. n \in Nat /\ f \in [1..n -> Pair]
    BY <1>2, <1>5, <2>2, <2>3
  <2>5. f \in Seq(Pair) /\ Len(f) = n
    BY ONLY <2>1, <2>4
  <2> QED
    BY Zenon, <2>2, <2>3, <2>5
<1>7. ASSUME NEW i \in 1..Len(names)
      PROVE  list[i].from = Append(from, names[i]) /\ list[i].to = Append(to, names[i])
  <2>1. list[i] = [from |-> Append(from, names[i]), to |-> Append(to, names[i])]
    OBVIOUS
  <2> QED
    BY <2>1
<1> QED
  BY <1>2, <1>3, <1>6, <1>7 DEF EntriesAre

\* What is copied instead of a directory: its entries, as the tree now is.
EntriesOf(e, list) ==
  \E names : EntriesAre(e.from, e.to, Children(tree', Followed(tree', e.from)), list, names)

LEMMA CopyDirTyped ==
  Typed /\ CopyDir =>
    /\ Continued /\ Widened(tree, tree')
    /\ \/ pc' = "operand"
       \/ /\ pc' = "copy" /\ UNCHANGED status
          /\ \E more : EntriesOf(Head(todo), more) /\ todo' = more \o Tail(todo)
<1> SUFFICES ASSUME Typed, CopyDir
             PROVE  /\ Continued /\ Widened(tree, tree')
                    /\ \/ pc' = "operand"
                       \/ /\ pc' = "copy" /\ UNCHANGED status
                          /\ \E more : EntriesOf(Head(todo), more) /\ todo' = more \o Tail(todo)
  OBVIOUS
<1>1. /\ IsTree(tree) /\ source # Root /\ target # Root /\ todo # << >>
      /\ status \in {0, 1} /\ cmd.op \in Copying
  BY DEF Typed, CopyDir
<1>2. From \in AnyPath /\ To \in AnyPath /\ Tail(todo) \in Seq(Pair)
  BY <1>1, TodoParts
<1>a. PICK names : names = SetToSeq(Children(tree', Followed(tree', From)))
  OBVIOUS
<1>b. PICK more : more = [i \in 1..Len(names) |-> [from |-> Append(From, names[i]),
                                                    to |-> Append(To, names[i])]]
  OBVIOUS
<1>3. PICK o \in MkdirAllCalls(To) :
        tree' = o.tree /\ IF o.ok THEN Copied(more) ELSE Abort
  BY <1>a, <1>b DEF CopyDir, Call
<1>4. Widened(tree, tree')
  BY <1>1, <1>2, <1>3, MkdirAllIs
<1>5. IsTree(tree')
  BY <1>4 DEF Widened
<1>6. CASE Abort
  <2>1. << >> \in Seq(Pair)
    OBVIOUS
  <2> QED
    BY <1>1, <1>4, <1>5, <1>6, <2>1 DEF Abort, Continued, Steady
<1>7. CASE Copied(more)
  <2>1. Children(tree', Followed(tree', From)) \in SUBSET Names
    BY DEF Children
  <2>2. EntriesAre(From, To, Children(tree', Followed(tree', From)), more, names)
    BY <1>2, <1>a, <1>b, <2>1, EntriesListed
  <2>3. EntriesOf(Head(todo), more) /\ more \in Seq(Pair)
    BY <2>2 DEF EntriesOf, EntriesAre, From, To
  <2>4. more \o Tail(todo) \in Seq(Pair)
    BY <1>2, <2>3, Spliced
  <2> QED
    BY <1>1, <1>4, <1>5, <1>7, <2>3, <2>4 DEF Copied, Continued, Steady
<1> QED
  BY <1>3, <1>6, <1>7

LEMMA CopyParentTyped ==
  Typed /\ CopyParent =>
    /\ Continued /\ Widened(tree, tree')
    /\ pc' = "operand" \/ (pc' = "open" /\ UNCHANGED <<todo, status>>)
<1> SUFFICES ASSUME Typed, CopyParent
             PROVE  /\ Continued /\ Widened(tree, tree')
                    /\ pc' = "operand" \/ (pc' = "open" /\ UNCHANGED <<todo, status>>)
  OBVIOUS
<1>1. /\ IsTree(tree) /\ source # Root /\ target # Root /\ todo # << >>
      /\ status \in {0, 1} /\ cmd.op \in Copying /\ todo \in Seq(Pair)
  BY DEF Typed, CopyParent
<1>2. Front(To) \in AnyPath
  BY <1>1, TodoParts, FrontIsPath
<1>3. PICK o \in MkdirAllCalls(Front(To)) :
        tree' = o.tree /\ IF o.ok THEN Goto("open") ELSE Abort
  BY DEF CopyParent, Call
<1>4. Widened(tree, tree')
  BY <1>1, <1>2, <1>3, MkdirAllIs
<1>5. IsTree(tree')
  BY <1>4 DEF Widened
<1>6. << >> \in Seq(Pair)
  OBVIOUS
<1>7. CASE Goto("open")
  BY <1>1, <1>4, <1>5, <1>7 DEF Goto, Continued, Steady
<1>8. CASE Abort
  BY <1>1, <1>4, <1>5, <1>6, <1>8 DEF Abort, Continued, Steady
<1> QED
  BY <1>3, <1>7, <1>8

LEMMA CopyOpensTyped ==
  Typed /\ CopyOpens =>
    /\ Continued
    /\ \/ pc' = "operand" /\ tree' = tree
       \/ /\ pc' = "write" /\ UNCHANGED <<todo, status>>
          /\ Followed(tree, To) \in Paths
          /\ Written(tree, tree', Followed(tree, To), Torn)
<1> SUFFICES ASSUME Typed, CopyOpens
             PROVE  /\ Continued
                    /\ \/ pc' = "operand" /\ tree' = tree
                       \/ /\ pc' = "write" /\ UNCHANGED <<todo, status>>
                          /\ Followed(tree, To) \in Paths
                          /\ Written(tree, tree', Followed(tree, To), Torn)
  OBVIOUS
<1>1. /\ IsTree(tree) /\ source # Root /\ target # Root /\ todo # << >>
      /\ status \in {0, 1} /\ cmd.op \in Copying /\ todo \in Seq(Pair)
  BY DEF Typed, CopyOpens
<1>2. CASE UNCHANGED tree /\ Abort
  <2>1. << >> \in Seq(Pair)
    OBVIOUS
  <2> QED
    BY <1>1, <1>2, <2>1 DEF Abort, Continued, Steady
<1>3. CASE Creatable(tree, To) /\ tree' = [tree EXCEPT ![Followed(tree, To)] = Torn] /\ Goto("write")
  <2>1. PICK c : c = Followed(tree, To)
    OBVIOUS
  <2>2. c \in Paths /\ c # Root /\ tree[c].kind \in {"absent", "file"} /\ tree[Front(c)].kind = "dir"
    BY <1>3, <2>1 DEF Creatable
  <2>3. Written(tree, [tree EXCEPT ![c] = Torn], c, Torn)
    BY <1>1, <2>2, WriteIs, NodesAre
  <2>4. IsTree(tree')
    BY <1>3, <2>1, <2>3 DEF Written
  <2> QED
    BY <1>1, <1>3, <2>1, <2>2, <2>3, <2>4 DEF Goto, Continued, Steady
<1> QED
  BY <1>2, <1>3 DEF CopyOpens

LEMMA CopyWritesTyped ==
  Typed /\ Opened /\ CopyWrites =>
    /\ Continued
    /\ \/ pc' = "operand" /\ tree' = tree
       \/ /\ pc' = "copy" /\ todo' = Tail(todo) /\ UNCHANGED status
          /\ Followed(tree, To) \in Paths /\ Followed(tree, From) \in Paths
          /\ Written(tree, tree', Followed(tree, To), tree[Followed(tree, From)])
<1> SUFFICES ASSUME Typed, Opened, CopyWrites
             PROVE  /\ Continued
                    /\ \/ pc' = "operand" /\ tree' = tree
                       \/ /\ pc' = "copy" /\ todo' = Tail(todo) /\ UNCHANGED status
                          /\ Followed(tree, To) \in Paths /\ Followed(tree, From) \in Paths
                          /\ Written(tree, tree', Followed(tree, To), tree[Followed(tree, From)])
  OBVIOUS
<1>1. /\ IsTree(tree) /\ source # Root /\ target # Root /\ todo # << >>
      /\ status \in {0, 1} /\ cmd.op \in Copying /\ todo \in Seq(Pair)
      /\ tree \in [Paths -> Node] /\ tree[Root].kind = "dir"
  BY DEF Typed, CopyWrites, IsTree, WellFormed
<1>2. CASE UNCHANGED tree /\ Abort
  <2>1. << >> \in Seq(Pair)
    OBVIOUS
  <2> QED
    BY <1>1, <1>2, <2>1 DEF Abort, Continued, Steady
<1>3. CASE /\ tree' = [tree EXCEPT ![Followed(tree, To)] = tree[Followed(tree, From)]]
           /\ Copied(<< >>)
  <2>1. PICK c : c = Followed(tree, To)
    OBVIOUS
  <2>2. PICK f : f = tree[Followed(tree, From)]
    OBVIOUS
  <2>3. c \in Paths /\ tree[c].kind = "file" /\ c # Root
    <3>1. At(tree, c).kind = "file"
      BY <2>1 DEF Opened, CopyWrites
    <3> QED
      BY <1>1, <3>1, AtIs DEF Exists
  <2>4. f \in Node /\ f.kind = "file" /\ Followed(tree, From) \in Paths
    <3>1. Stat(tree, From).kind = "file"
      BY DEF Opened, CopyWrites
    <3> QED
      BY <1>1, <2>2, <3>1, StatIs DEF Exists
  <2>5. Written(tree, [tree EXCEPT ![c] = f], c, f)
    BY <1>1, <2>3, <2>4, WriteIs
  <2>6. IsTree(tree')
    BY <1>3, <2>1, <2>2, <2>5 DEF Written
  <2>7. Tail(todo) \in Seq(Pair) /\ << >> \o Tail(todo) = Tail(todo)
    BY <1>1, TodoParts, ConcatEmptySeq
  <2> QED
    BY <1>1, <1>3, <2>1, <2>2, <2>3, <2>4, <2>5, <2>6, <2>7 DEF Copied, Continued, Steady
<1> QED
  BY <1>2, <1>3 DEF CopyWrites

-----------------------------------------------------------------------------
(* The steps: types and control, the other commands. *)

LEMMA RmTyped ==
  Typed /\ Rm => /\ Continued /\ pc' = "operand"
                 /\ tree' = tree \/ Removed(tree, tree', Named(tree, source))
<1> SUFFICES ASSUME Typed, Rm
             PROVE  /\ Continued /\ pc' = "operand"
                    /\ tree' = tree \/ Removed(tree, tree', Named(tree, source))
  OBVIOUS
<1>1. /\ IsTree(tree) /\ source \in AnyPath /\ source # Root
      /\ status \in {0, 1} /\ todo \in Seq(Pair)
  BY DEF Typed, Rm
<1>2. CASE UNCHANGED tree /\ (Goto("operand") \/ Fail("operand"))
  BY <1>1, <1>2 DEF Goto, Fail, Continued, Steady
<1>3. CASE Call(IF cmd.deep THEN RemoveAllCalls(source) ELSE RemoveCalls(source),
                Goto("operand"), Fail("operand"))
  <2>1. PICK o \in RemoveAllCalls(source) \cup RemoveCalls(source) :
           tree' = o.tree /\ IF o.ok THEN Goto("operand") ELSE Fail("operand")
    BY <1>3 DEF Call
  <2>2. Removed(tree, o.tree, Named(tree, source))
    BY <1>1, RemoveAllIs, RemoveIs
  <2>3. IsTree(o.tree)
    BY <2>2 DEF Removed
  <2> QED
    BY <1>1, <2>1, <2>2, <2>3 DEF Goto, Fail, Continued, Steady
<1> QED
  BY <1>2, <1>3 DEF Rm

LEMMA MkdirTyped ==
  Typed /\ Mkdir => Continued /\ pc' = "operand" /\ Widened(tree, tree')
<1> SUFFICES ASSUME Typed, Mkdir
             PROVE  Continued /\ pc' = "operand" /\ Widened(tree, tree')
  OBVIOUS
<1>1. /\ IsTree(tree) /\ source \in AnyPath
      /\ status \in {0, 1} /\ todo \in Seq(Pair)
  BY DEF Typed
<1>2. PICK o \in MkdirAllCalls(source) \cup MkdirCalls(source) :
         tree' = o.tree /\ IF o.ok THEN Goto("operand") ELSE Fail("operand")
  BY DEF Mkdir, Call
<1>3. Widened(tree, o.tree)
  BY <1>1, MkdirAllIs, MkdirIs
<1>4. IsTree(o.tree)
  BY <1>3 DEF Widened
<1> QED
  BY <1>1, <1>2, <1>3, <1>4 DEF Goto, Fail, Continued, Steady

LEMMA TouchTyped ==
  Typed /\ Touch => /\ Continued /\ pc' = "operand"
                    /\ \/ tree' = tree
                       \/ /\ Followed(tree, source) \in Paths
                          /\ \E f : Written(tree, tree', Followed(tree, source), f)
<1> SUFFICES ASSUME Typed, Touch
             PROVE  /\ Continued /\ pc' = "operand"
                    /\ \/ tree' = tree
                       \/ /\ Followed(tree, source) \in Paths
                          /\ \E f : Written(tree, tree', Followed(tree, source), f)
  OBVIOUS
<1>1. IsTree(tree) /\ status \in {0, 1} /\ todo \in Seq(Pair)
  BY DEF Typed
<1>2. CASE UNCHANGED tree /\ (Goto("operand") \/ Fail("operand"))
  BY <1>1, <1>2 DEF Goto, Fail, Continued, Steady
<1>3. CASE /\ Creatable(tree, source)
           /\ tree' = [tree EXCEPT ![Followed(tree, source)] = File(Root)]
           /\ Goto("operand")
  <2>1. PICK c : c = Followed(tree, source)
    OBVIOUS
  <2>2. c \in Paths /\ c # Root /\ tree[c].kind \in {"absent", "file"} /\ tree[Front(c)].kind = "dir"
    BY <1>3, <2>1 DEF Creatable
  <2>3. Written(tree, [tree EXCEPT ![c] = File(Root)], c, File(Root))
    BY <1>1, <2>2, WriteIs, NodesAre, RootIsPath
  <2>4. IsTree(tree')
    BY <1>3, <2>1, <2>3 DEF Written
  <2> QED
    BY <1>1, <1>3, <2>1, <2>2, <2>3, <2>4 DEF Goto, Continued, Steady
<1> QED
  BY <1>2, <1>3 DEF Touch

LEMMA RmdirTyped ==
  Typed /\ Rmdir =>
    /\ Typed' /\ IsTree(tree')
    /\ UNCHANGED <<cmd, rest, source, destDir, todo, begun>>
    /\ \/ /\ pc' = "operand" /\ target' = target
          /\ \/ tree' = tree
             \/ /\ Removed(tree, tree', Named(tree, target))
                /\ \A q \in Paths : q # Named(tree, target) => tree'[q] = tree[q]
       \/ /\ pc' = "rmdir" /\ Len(target) > 1 /\ target' = Front(target)
          /\ Removed(tree, tree', Named(tree, target))
          /\ \A q \in Paths : q # Named(tree, target) => tree'[q] = tree[q]
          /\ Named(tree, target) \in Paths /\ Exists(tree[Named(tree, target)])
<1> SUFFICES ASSUME Typed, Rmdir
             PROVE  /\ Typed' /\ IsTree(tree')
                    /\ UNCHANGED <<cmd, rest, source, destDir, todo, begun>>
                    /\ \/ /\ pc' = "operand" /\ target' = target
                          /\ \/ tree' = tree
                             \/ /\ Removed(tree, tree', Named(tree, target))
                                /\ \A q \in Paths : q # Named(tree, target) => tree'[q] = tree[q]
                       \/ /\ pc' = "rmdir" /\ Len(target) > 1 /\ target' = Front(target)
                          /\ Removed(tree, tree', Named(tree, target))
                          /\ \A q \in Paths : q # Named(tree, target) => tree'[q] = tree[q]
                          /\ Named(tree, target) \in Paths /\ Exists(tree[Named(tree, target)])
  OBVIOUS
<1>1. /\ IsTree(tree) /\ target \in AnyPath /\ target # Root /\ source # Root
      /\ status \in {0, 1} /\ todo \in Seq(Pair)
  BY DEF Typed, Rmdir
<1>2. PICK o \in RemoveCalls(target) :
        /\ tree' = o.tree
        /\ IF o.ok
           THEN IF cmd.deep /\ Len(target) > 1
                THEN /\ target' = Front(target)
                     /\ UNCHANGED <<cmd, rest, source, destDir, pc, todo, status, begun>>
                ELSE Goto("operand")
           ELSE IF target = source THEN Fail("operand") ELSE Goto("operand")
  BY DEF Rmdir, Call
<1>3. /\ Removed(tree, o.tree, Named(tree, target))
      /\ \A q \in Paths : q # Named(tree, target) => o.tree[q] = tree[q]
      /\ o.ok => Named(tree, target) \in Paths /\ Exists(tree[Named(tree, target)])
  BY <1>1, RemoveIs
<1>4. IsTree(o.tree)
  BY <1>3 DEF Removed
<1>5. CASE Goto("operand") \/ Fail("operand")
  <2>1. Continued
    BY <1>1, <1>2, <1>4, <1>5 DEF Goto, Fail, Continued, Steady
  <2> QED
    BY <1>2, <1>3, <1>4, <1>5, <2>1, TypedContinued DEF Goto, Fail
<1>6. CASE /\ o.ok /\ Len(target) > 1 /\ target' = Front(target)
           /\ UNCHANGED <<cmd, rest, source, destDir, pc, todo, status, begun>>
  <2>1. Front(target) \in AnyPath /\ Len(Front(target)) = Len(target) - 1 /\ Len(target) \in Nat
    BY <1>1, PathFront
  <2>2. Front(target) # Root
    BY <1>6, <2>1, RootIsPath
  <2>3. Typed'
    BY <1>2, <1>4, <1>6, <2>1, <2>2 DEF Typed, Rmdir
  <2>4. pc' = "rmdir"
    BY <1>6 DEF Rmdir
  <2> QED
    BY <1>2, <1>3, <1>4, <1>6, <2>3, <2>4
<1> QED
  BY <1>2, <1>5, <1>6

LEMMA NextOperandTyped ==
  Typed /\ NextOperand =>
    /\ Typed' /\ source' # Root /\ target' # Root /\ tree' = tree /\ begun' = tree
    /\ cmd' = cmd /\ pc' \in {"copy"} \cup Ops /\ pc' \notin {"open", "write"}
<1> SUFFICES ASSUME Typed, NextOperand
             PROVE  /\ Typed' /\ source' # Root /\ target' # Root /\ tree' = tree /\ begun' = tree
                    /\ cmd' = cmd /\ pc' \in {"copy"} \cup Ops /\ pc' \notin {"open", "write"}
  OBVIOUS
<1>1. /\ rest \in Seq(AnyPath \ {Root}) /\ rest # << >> /\ cmd.op \in Ops
      /\ cmd.dest \in AnyPath /\ (destDir \/ cmd.dest # Root)
  BY DEF Typed, NextOperand
<1>2. /\ Head(rest) \in AnyPath \ {Root} /\ Tail(rest) \in Seq(AnyPath \ {Root})
  BY <1>1, HeadTailProperties
<1>3. /\ Append(cmd.dest, Last(Head(rest))) \in AnyPath
      /\ Append(cmd.dest, Last(Head(rest))) # Root
  BY <1>1, <1>2, PathFront, PathAppend
<1>4. source' \in AnyPath /\ source' # Root /\ target' \in AnyPath /\ target' # Root
  BY <1>1, <1>2, <1>3 DEF NextOperand
<1>5. todo' \in Seq(Pair)
  <2>1. CASE cmd.op = "cp"
    <3>1. todo' = <<[from |-> source', to |-> target']>>
      BY <2>1 DEF NextOperand
    <3>2. [from |-> source', to |-> target'] \in Pair
      BY <1>4 DEF Pair, AnyPath
    <3> QED
      BY <3>1, <3>2
  <2>2. CASE cmd.op # "cp"
    BY <2>2 DEF NextOperand, Typed
  <2> QED
    BY <2>1, <2>2
<1>6. /\ UNCHANGED <<tree, cmd, destDir, status>> /\ begun' = tree /\ rest' = Tail(rest)
      /\ (cmd.op = "cp" /\ pc' = "copy") \/ (cmd.op # "cp" /\ pc' = cmd.op)
  BY DEF NextOperand
<1>7. /\ pc' \in {"copy"} \cup Ops /\ pc' \notin {"rename", "unlink", "open", "write"}
      /\ pc' = "copy" => cmd.op \in Copying
      /\ pc' \in Ops => cmd.op = pc'
  BY <1>1, <1>6 DEF Ops, Copying
<1>8. Typed'
  BY <1>2, <1>4, <1>5, <1>6, <1>7 DEF Typed
<1> QED
  BY <1>4, <1>6, <1>7, <1>8

-----------------------------------------------------------------------------

LEMMA OpenedParent == Typed /\ CopyParent /\ pc' = "open" => Opened'
<1> SUFFICES ASSUME Typed, CopyParent, pc' = "open" PROVE Opened'
  OBVIOUS
<1>1. Widened(tree, tree') /\ todo' = todo /\ IsTree(tree') /\ IsTree(tree) /\ todo # << >>
  BY CopyParentTyped DEF Continued, Typed, CopyParent
<1>2. From \in AnyPath /\ Stat(tree, From).kind = "file"
  BY <1>1, TodoParts DEF CopyParent
<1>3. SameLinks(tree, tree') /\ \A q \in Paths : tree[q].kind = "file" => tree'[q].kind = "file"
  BY <1>1, WidenedKeeps
<1>4. Stat(tree', From).kind = "file"
  BY <1>1, <1>2, <1>3, StatKept
<1> QED
  BY <1>1, <1>4 DEF Opened, From

LEMMA OpenedOpens == Typed /\ Opened /\ CopyOpens /\ pc' = "write" => Opened'
<1> SUFFICES ASSUME Typed, Opened, CopyOpens, pc' = "write" PROVE Opened'
  OBVIOUS
<1>0. PICK c : c = Followed(tree, To)
  OBVIOUS
<1>1. /\ c \in Paths /\ Written(tree, tree', c, Torn) /\ todo' = todo
      /\ IsTree(tree') /\ IsTree(tree) /\ todo # << >>
  BY <1>0, CopyOpensTyped DEF Continued, Typed, CopyOpens
<1>2. From \in AnyPath /\ To \in AnyPath /\ Stat(tree, From).kind = "file"
  BY <1>1, TodoParts DEF CopyOpens, Opened
<1>3. /\ tree \in [Paths -> Node]
      /\ SameLinks(tree, tree') /\ \A q \in Paths : tree'[q] = IF q = c THEN Torn ELSE tree[q]
  BY <1>1, WrittenKeeps DEF IsTree
<1>4. /\ tree'[c].kind = "file"
      /\ \A q \in Paths : tree[q].kind = "file" => tree'[q].kind = "file"
  BY <1>1, <1>3, NodesAre
<1>5. Stat(tree', From).kind = "file"
  BY <1>1, <1>2, <1>3, <1>4, StatKept
<1>6. Followed(tree', To) = c
  BY <1>0, <1>1, <1>2, <1>3, FollowedSame DEF IsTree
<1>7. At(tree', Followed(tree', To)).kind = "file"
  BY <1>1, <1>4, <1>6 DEF At
<1> QED
  BY <1>1, <1>5, <1>7 DEF Opened, From, To

LEMMA TypedNext == Typed /\ Opened /\ [Next]_vars => Typed' /\ Opened'
<1> SUFFICES ASSUME Typed, Opened, [Next]_vars PROVE Typed' /\ Opened'
  OBVIOUS
<1>0. pc' \notin {"open", "write"} => Opened'
  BY DEF Opened
<1>1. CASE Begin \/ LastOperand \/ MvStops
  BY <1>0, <1>1, BeginTyped, TypedContinued
<1>2. CASE MvClears \/ MvRenames \/ MvUnlinks
  BY <1>0, <1>2, MvClearsTyped, MvRenamesTyped, MvUnlinksTyped, TypedContinued
<1>3. CASE CopyStops \/ CopySkips \/ CopyEnds \/ CopyDir \/ CopyWrites
  BY <1>0, <1>3, CopyStopsTyped, CopyEndsTyped, CopyDirTyped, CopyWritesTyped, TypedContinued
<1>4. CASE CopyParent
  BY <1>0, <1>4, CopyParentTyped, OpenedParent, TypedContinued
<1>5. CASE CopyOpens
  BY <1>0, <1>5, CopyOpensTyped, OpenedOpens, TypedContinued
<1>6. CASE Rm \/ Mkdir \/ Touch
  BY <1>0, <1>6, RmTyped, MkdirTyped, TouchTyped, TypedContinued
<1>7. CASE Rmdir
  BY <1>0, <1>7, RmdirTyped
<1>8. CASE NextOperand
  BY <1>0, <1>8, NextOperandTyped
<1>9. CASE UNCHANGED vars
  BY <1>9 DEF vars, Typed, Opened, From, To
<1> QED
  BY <1>1, <1>2, <1>3, <1>4, <1>5, <1>6, <1>7, <1>8, <1>9 DEF Next, Terminated

LEMMA TypedIs == Typed => TypeOK
<1> SUFFICES ASSUME Typed PROVE TypeOK
  OBVIOUS
<1>1. pc = "mv" => cmd.op = "mv"
  BY DEF Typed, Ops, Copying
<1> QED
  BY <1>1 DEF Typed, TypeOK, IsTree

\* Whatever the arguments are: the tree stays one, and the control state
\* matches the command.
THEOREM TypeCorrect == Spec => []TypeOK
<1>1. Init => Typed /\ Opened
  BY TypedInit
<1>2. (Typed /\ Opened) /\ [Next]_vars => (Typed /\ Opened)'
  BY TypedNext
<1>3. Typed /\ Opened => TypeOK
  BY TypedIs
<1> QED
  BY <1>1, <1>2, <1>3, PTL DEF Spec

-----------------------------------------------------------------------------
(* What holds after a step. *)

\* What holds of the operand and the next tree holds after the step.
LEMMA SecureNext ==
  Steady /\ Secure(tree') => Secure(tree)'
<1> SUFFICES ASSUME Steady, Secure(tree') PROVE Secure(tree)'
  OBVIOUS
<1>1. SourceEntry' = SourceEntry /\ SourceData' = SourceData
      /\ TargetEntry' = TargetEntry /\ TargetData' = TargetData
  BY DEF Steady, SourceEntry, SourceData, TargetEntry, TargetData
<1>2. cmd' = cmd /\ begun' = begun
  BY DEF Steady
<1>3. \A p : FilesIn(p)' = FilesIn(p)
  BY <1>2 DEF FilesIn
<1> QED
  BY <1>1, <1>2, <1>3 DEF Secure

LEMMA MovingNext ==
  Steady => /\ MvMoving(tree') => MvMoving(tree)'
            /\ NoneBelow(tree', TargetEntry) => NoneBelow(tree, TargetEntry)'
            /\ Resolved(tree') => Resolved(tree)'
<1> SUFFICES ASSUME Steady
             PROVE  /\ MvMoving(tree') => MvMoving(tree)'
                    /\ NoneBelow(tree', TargetEntry) => NoneBelow(tree, TargetEntry)'
                    /\ Resolved(tree') => Resolved(tree)'
  OBVIOUS
<1>1. SourceEntry' = SourceEntry /\ SourceData' = SourceData
      /\ TargetEntry' = TargetEntry /\ TargetData' = TargetData
  BY DEF Steady, SourceEntry, SourceData, TargetEntry, TargetData
<1>2. cmd' = cmd /\ begun' = begun /\ source' = source /\ target' = target
  BY DEF Steady
<1>3. ASSUME MvMoving(tree') PROVE MvMoving(tree)'
  BY <1>1, <1>2, <1>3 DEF MvMoving, Outside
<1>4. ASSUME NoneBelow(tree', TargetEntry) PROVE NoneBelow(tree, TargetEntry)'
  BY <1>1, <1>4 DEF NoneBelow
<1>5. ASSUME Resolved(tree') PROVE Resolved(tree)'
  BY <1>1, <1>2, <1>5 DEF Resolved
<1> QED
  BY <1>3, <1>4, <1>5

LEMMA CopyingNext ==
  Steady => /\ MvCopying(tree', todo', pc') => MvCopying(tree, todo, pc)'
            /\ Delivered(tree', << >>) => Delivered(tree, << >>)'
            /\ CpCopying(tree', todo', pc') => CpCopying(tree, todo, pc)'
<1> SUFFICES ASSUME Steady
             PROVE  /\ MvCopying(tree', todo', pc') => MvCopying(tree, todo, pc)'
                    /\ Delivered(tree', << >>) => Delivered(tree, << >>)'
                    /\ CpCopying(tree', todo', pc') => CpCopying(tree, todo, pc)'
  OBVIOUS
<1>1. SourceEntry' = SourceEntry /\ SourceData' = SourceData
      /\ TargetEntry' = TargetEntry /\ TargetData' = TargetData
  BY DEF Steady, SourceEntry, SourceData, TargetEntry, TargetData
<1>2. cmd' = cmd /\ begun' = begun /\ source' = source /\ target' = target
  BY DEF Steady
<1>3. ASSUME Delivered(tree', << >>) PROVE Delivered(tree, << >>)'
  BY <1>1, <1>2, <1>3 DEF Delivered, InHand
<1>4. ASSUME Delivered(tree', todo') PROVE Delivered(tree, todo)'
  BY <1>1, <1>2, <1>4 DEF Delivered, InHand
<1>5. ASSUME Listed(todo') PROVE Listed(todo)'
  BY <1>2, <1>5 DEF Listed, IsMove
<1>6. ASSUME MvCopying(tree', todo', pc') PROVE MvCopying(tree, todo, pc)'
  <2>1. CASE /\ pc' = "copy" /\ ~ Exists(Stat(tree', source))
             /\ todo' = <<[from |-> source, to |-> target]>>
    BY <1>2, <1>6, <2>1, MovingNext DEF MvCopying
  <2>2. CASE Resolved(tree') /\ Listed(todo') /\ Delivered(tree', todo')
    BY <1>4, <1>5, <1>6, <2>2, MovingNext DEF MvCopying
  <2> QED
    BY <1>6, <2>1, <2>2 DEF MvCopying
<1>7. ASSUME CpCopying(tree', todo', pc') PROVE CpCopying(tree, todo, pc)'
  BY <1>1, <1>2, <1>7 DEF CpCopying, Outside
<1> QED
  BY <1>3, <1>6, <1>7

-----------------------------------------------------------------------------
(* The phases, entered. *)

Secured == Secure(tree)' /\ Phase'

LEMMA SettledNext ==
  ASSUME Steady, pc' \in {"operand", "done"}, Secure(tree'),
         cmd.op # "mv" => Shallow(tree') /\ Shallow(begun)
  PROVE  Secured
<1>1. cmd' = cmd /\ begun' = begun
  BY DEF Steady
<1>2. Phase'
  BY <1>1 DEF Phase
<1> QED
  BY <1>2, SecureNext DEF Secured

LEMMA MvNext ==
  ASSUME Steady, cmd.op = "mv", Secure(tree'),
         \/ pc' = "rename" /\ MvMoving(tree') /\ NoneBelow(tree', TargetEntry)
         \/ pc' = "unlink" /\ MvMoving(tree') /\ Resolved(tree') /\ Delivered(tree', << >>)
         \/ pc' \in {"copy", "open", "write"} /\ MvCopying(tree', todo', pc')
  PROVE  Secured
<1>1. cmd'.op = "mv"
  BY DEF Steady
<1>2. Phase'
  <2>1. CASE pc' = "rename" /\ MvMoving(tree') /\ NoneBelow(tree', TargetEntry)
    BY <1>1, <2>1, MovingNext DEF Phase
  <2>2. CASE pc' = "unlink" /\ MvMoving(tree') /\ Resolved(tree') /\ Delivered(tree', << >>)
    BY <1>1, <2>2, MovingNext, CopyingNext DEF Phase
  <2>3. CASE pc' \in {"copy", "open", "write"} /\ MvCopying(tree', todo', pc')
    BY <1>1, <2>3, CopyingNext DEF Phase
  <2> QED
    BY <2>1, <2>2, <2>3
<1> QED
  BY <1>2, SecureNext DEF Secured

LEMMA CpNext ==
  ASSUME Steady, Typed, source # Root, target # Root, cmd.op = "cp",
         pc' \in {"copy", "open", "write"}, CpCopying(tree', todo', pc'),
         Shallow(tree'), Shallow(begun)
  PROVE  Secured
<1>1. cmd'.op = "cp" /\ begun' = begun
  BY DEF Steady
<1>2. Phase'
  BY <1>1, CopyingNext DEF Phase
<1>3. Secure(tree')
  BY SecureCopying
<1> QED
  BY <1>2, <1>3, SecureNext DEF Secured

-----------------------------------------------------------------------------
(* The simple steps. *)

LEMMA ShallowKept ==
  ASSUME NEW t, NEW u, Shallow(t), \A q \in Paths : u[q] = t[q] \/ u[q].kind # "link"
  PROVE  Shallow(u)
BY DEF Shallow

LEMMA BeginSecure ==
  ASSUME Typed, Secure(tree), Phase, Begin \/ LastOperand \/ MvStops \/ CopyStops
  PROVE  Secured
<1>1. Steady /\ tree' = tree /\ pc' \in {"operand", "done"}
  BY BeginTyped, CopyStopsTyped DEF Continued
<1> QED
  BY <1>1, SettledNext DEF Phase

LEMMA RmSecure ==
  ASSUME Typed, Secure(tree), Phase, Rm
  PROVE  Secured
<1>1. /\ Steady /\ pc' = "operand" /\ cmd.op = "rm" /\ source # Root /\ tree = begun
      /\ tree' = tree \/ Removed(tree, tree', Named(tree, source))
      /\ Shallow(tree) /\ Shallow(begun)
  BY RmTyped DEF Continued, Rm, Typed, Phase, Ops, Copying
<1>2. \A q \in Paths : tree'[q] = begun[q] \/ (IsPrefix(SourceEntry, q) /\ tree'[q] = Absent)
  BY <1>1 DEF Removed, SourceEntry
<1>3. Shallow(tree')
  BY <1>1, <1>2, ShallowKept, NodesAre
<1>4. Secure(tree')
  BY <1>1, <1>2 DEF Secure, Copying
<1> QED
  BY <1>1, <1>3, <1>4, SettledNext

LEMMA MkdirSecure ==
  ASSUME Typed, Secure(tree), Phase, Mkdir
  PROVE  Secured
<1>1. /\ Steady /\ pc' = "operand" /\ cmd.op = "mkdir" /\ tree = begun
      /\ Widened(tree, tree') /\ Shallow(tree) /\ Shallow(begun)
  BY MkdirTyped DEF Continued, Mkdir, Typed, Phase, Ops, Copying
<1>2. \A q \in Paths : \/ tree'[q] = begun[q]
                       \/ begun[q].kind \in {"absent", "dir"} /\ tree'[q] = Dir
  BY <1>1 DEF Widened
<1>3. Shallow(tree')
  BY <1>1, <1>2, ShallowKept, NodesAre
<1>4. Secure(tree')
  BY <1>1, <1>2 DEF Secure, Copying
<1> QED
  BY <1>1, <1>3, <1>4, SettledNext

LEMMA TouchSecure ==
  ASSUME Typed, Secure(tree), Phase, Touch
  PROVE  Secured
<1>1. /\ Steady /\ pc' = "operand" /\ cmd.op = "touch" /\ tree = begun
      /\ source = target /\ Shallow(tree) /\ Shallow(begun)
      /\ tree \in [Paths -> Node] /\ source \in AnyPath
      /\ \/ tree' = tree
         \/ /\ Followed(tree, source) \in Paths
            /\ \E f : Written(tree, tree', Followed(tree, source), f)
  BY TouchTyped DEF Continued, Touch, Typed, Phase, Ops, Copying, IsTree
<1>2. CASE tree' = tree
  BY <1>1, <1>2, SettledNext
<1>3. CASE tree' # tree
  <2>1. TargetData \in Paths /\ \E f : Written(tree, tree', TargetData, f)
    BY <1>1, <1>3 DEF TargetData
  <2>2. PICK f : Written(tree, tree', TargetData, f)
    BY <2>1
  <2>3. f.kind = "file" /\ \A q \in Paths : tree'[q] = IF q = TargetData THEN f ELSE tree[q]
    BY <1>1, <2>1, <2>2, WrittenKeeps DEF Written
  <2>4. Shallow(tree')
    BY <1>1, <2>3, ShallowKept
  <2>5. IsPrefix(TargetData, TargetData)
    BY <2>1, PrefixOrder, PathIs
  <2>6. Secure(tree')
    BY <1>1, <2>3, <2>5 DEF Secure, Copying
  <2> QED
    BY <1>1, <2>4, <2>6, SettledNext
<1> QED
  BY <1>2, <1>3

-----------------------------------------------------------------------------
(* mv: the steps around the copy. *)

\* -n: there is no file where the target is to be.
LEMMA NothingKept ==
  ASSUME NEW t, IsTree(t), NEW p \in AnyPath, p # Root, ~ Exists(Stat(t, p)),
         NEW q \in Paths, IsPrefix(Named(t, p), q)
  PROVE  t[q].kind # "file"
<1>1. t \in [Paths -> Node] /\ q \in AnyPath
  BY PathIs DEF IsTree
<1>2. PICK e : e = Named(t, p)
  OBVIOUS
<1>3. e \in AnyPath /\ IsPrefix(e, q) /\ (At(t, e).kind # "link" => Followed(t, p) = e)
  BY <1>1, <1>2, NamedIs
<1>4. SUFFICES ASSUME t[q].kind = "file" PROVE FALSE
  OBVIOUS
<1>5. e \in Paths /\ t[e].kind \in {"dir", "file"}
  <2>1. CASE e = q
    BY <1>4, <2>1
  <2>2. CASE e # q
    BY <1>1, <1>3, <1>4, <2>2, AncestorsAreDirs DEF Exists
  <2> QED
    BY <2>1, <2>2
<1>6. At(t, e) = t[e]
  BY <1>5 DEF At
<1>7. Stat(t, p) = t[e]
  BY <1>3, <1>5, <1>6 DEF Stat
<1> QED
  BY <1>5, <1>7 DEF Exists

LEMMA AbsentBelow ==
  ASSUME NEW t, IsTree(t), NEW b \in AnyPath, ~ Exists(At(t, b))
  PROVE  NoneBelow(t, b)
<1>1. CASE b \in Paths
  BY <1>1, NoneBelowAbsent DEF At
<1>2. CASE b \notin Paths
  <2>1. ASSUME NEW q \in Paths, IsPrefix(b, q) PROVE FALSE
    <3>1. q \in AnyPath /\ Len(q) <= MaxDepth /\ ~ (Len(b) <= MaxDepth)
      BY <1>2, PathIs
    <3>2. Len(b) <= Len(q) /\ Len(b) \in Nat /\ Len(q) \in Nat
      BY <2>1, <3>1, PrefixIs, PathParts
    <3> QED
      BY <3>1, <3>2, DepthAssumption
  <2> QED
    BY <2>1 DEF NoneBelow
<1> QED
  BY <1>1, <1>2

LEMMA MvClearsSecure ==
  ASSUME Typed, Secure(tree), Phase, MvClears
  PROVE  Secured
<1>1. /\ source # Root /\ target # Root /\ cmd.op = "mv" /\ tree = begun
      /\ Apart(SourceEntry, TargetEntry) /\ Apart(SourceData, TargetEntry)
      /\ IsTree(begun) /\ target \in AnyPath
      /\ cmd.noClobber => ~ Exists(Stat(begun, target))
  BY DEF Typed, Phase, MvClears, Ops, Copying, Kept
<1>2. Named(tree, target) = TargetEntry /\ TargetEntry \in AnyPath
  BY <1>1, Entries DEF TargetEntry
<1>3. cmd.noClobber => \A q \in Paths : IsPrefix(TargetEntry, q) => begun[q].kind # "file"
  BY <1>1, NothingKept DEF TargetEntry
<1>4. /\ Steady
      /\ \/ pc' = "operand" /\ Removed(tree, tree', TargetEntry)
         \/ pc' = "rename" /\ Removed(tree, tree', TargetEntry) /\ NoneBelow(tree', TargetEntry)
         \/ pc' = "rename" /\ tree' = tree /\ ~ Exists(At(tree, TargetEntry))
  BY <1>2, MvClearsTyped DEF Continued
<1>5. CASE Removed(tree, tree', TargetEntry)
  <2>1. Outside(tree', TargetEntry)
    BY <1>1, <1>5 DEF Removed, Outside
  <2>2. Secure(tree')
    BY <1>1, <1>3, <2>1, SecureMoving
  <2>3. CASE pc' = "operand"
    BY <1>1, <1>4, <2>2, <2>3, SettledNext
  <2>4. CASE NoneBelow(tree', TargetEntry) /\ pc' = "rename"
    <3>1. MvMoving(tree')
      BY <1>1, <1>3, <2>1, <2>4 DEF MvMoving, NoneBelow
    <3> QED
      BY <1>1, <1>4, <2>2, <2>4, <3>1, MvNext
  <2>5. CASE ~ Exists(At(tree, TargetEntry)) /\ tree' = tree /\ pc' = "rename"
    <3>1. NoneBelow(tree', TargetEntry)
      BY <1>1, <1>2, <2>5, AbsentBelow
    <3>2. MvMoving(tree')
      BY <1>1, <1>3, <2>1, <3>1 DEF MvMoving, NoneBelow
    <3> QED
      BY <1>1, <1>4, <2>2, <2>5, <3>1, <3>2, MvNext
  <2> QED
    BY <1>4, <2>3, <2>4, <2>5
<1>6. CASE pc' = "rename" /\ tree' = tree /\ ~ Exists(At(tree, TargetEntry))
  <2>1. NoneBelow(tree', TargetEntry)
    BY <1>1, <1>2, <1>6, AbsentBelow
  <2>2. MvMoving(tree')
    BY <1>1, <1>3, <1>6, <2>1 DEF MvMoving, NoneBelow, Outside
  <2>3. Secure(tree')
    BY <1>1, <1>6, SecureBegun
  <2> QED
    BY <1>1, <1>4, <1>6, <2>1, <2>2, <2>3, MvNext
<1> QED
  BY <1>4, <1>5, <1>6

\* The whole operand is the first to be copied.
LEMMA FirstMove ==
  ASSUME Typed, source # Root, target # Root, NEW t,
         NEW list, list = <<[from |-> source, to |-> target]>>
  PROVE  Listed(list) /\ Delivered(t, list)
<1>1. source \in AnyPath /\ target \in AnyPath
  BY DEF Typed
<1>2. /\ Len(list) = 1 /\ list[1].from = source /\ list[1].to = target
  OBVIOUS
<1>3. IsPrefix(source, source)
  BY <1>1, PrefixOrder
<1>4. PICK r : r = SubSeq(source, Len(source) + 1, Len(source))
  OBVIOUS
<1>5. r \in AnyPath /\ source = source \o r
  BY <1>1, <1>3, <1>4, RestOf
<1>6. r = Root
  BY <1>1, <1>5, Joined
<1>7. target = target \o SubSeq(source, Len(source) + 1, Len(source))
  BY <1>1, <1>4, <1>6, Joined
<1>8. IsMove(list[1])
  BY <1>2, <1>3, <1>7 DEF IsMove
<1>9. Listed(list)
  BY <1>2, <1>8 DEF Listed
<1>10. ASSUME NEW r1 \in Paths PROVE InHand(list, r1)
  <2>1. r1 \in AnyPath
    BY PathIs
  <2>2. IsPrefix(target, target \o r1)
    BY <1>1, <2>1, Joined
  <2> QED
    BY <1>2, <2>2 DEF InHand
<1>11. Delivered(t, list)
  BY <1>10 DEF Delivered
<1> QED
  BY <1>9, <1>11

\* The target still leads to where it is to be.
LEMMA TargetReached ==
  ASSUME Typed, source # Root, target # Root, MvMoving(tree)
  PROVE  IsPrefix(TargetEntry, Followed(tree, target))
<1>1. /\ TargetEntry \in AnyPath /\ TargetEntry # Root
      /\ tree \in [Paths -> Node] /\ begun \in [Paths -> Node] /\ target \in AnyPath
  BY Entries DEF Typed
<1>2. CutLinks(begun, tree, TargetEntry)
  BY CutsLinks
<1>3. \/ Named(tree, target) = TargetEntry /\ ~ IsPrefix(TargetEntry, Named(tree, target))
      \/ IsPrefix(TargetEntry, Named(tree, target)) /\ Followed(tree, target) = Named(tree, target)
  BY <1>1, <1>2, NamedCut DEF TargetEntry
<1>4. IsPrefix(TargetEntry, TargetEntry)
  BY <1>1, PrefixOrder
<1> QED
  BY <1>3, <1>4

LEMMA MvRenamesSecure ==
  ASSUME Typed, Secure(tree), Phase, MvRenames
  PROVE  Secured
<1>1. /\ source # Root /\ target # Root /\ cmd.op = "mv" /\ IsTree(tree)
      /\ MvMoving(tree) /\ NoneBelow(tree, TargetEntry)
      /\ source \in AnyPath /\ target \in AnyPath
  BY DEF Typed, Phase, MvRenames
<1>2. /\ Steady
      /\ \/ pc' = "operand" /\ Moved(tree, tree', Named(tree, source), Named(tree, target))
         \/ /\ pc' = "copy" /\ tree' = tree
            /\ todo' = <<[from |-> source, to |-> target]>>
  BY MvRenamesTyped DEF Continued
<1>3. CASE pc' = "operand"
  BY <1>1, <1>2, <1>3, SecureRenamed, SettledNext
<1>4. CASE pc' = "copy"
  <2>1. tree' = tree /\ todo' = <<[from |-> source, to |-> target]>>
    BY <1>2, <1>4
  <2>2. /\ TargetEntry \in AnyPath /\ TargetEntry # Root
        /\ tree \in [Paths -> Node] /\ begun \in [Paths -> Node]
    BY <1>1, Entries
  <2>3. CutLinks(begun, tree, TargetEntry)
    BY <1>1, CutsLinks
  <2>4. \/ Named(tree, source) = SourceEntry /\ Followed(tree, source) = SourceData
        \/ /\ IsPrefix(TargetEntry, Named(tree, source))
           /\ Followed(tree, source) = Named(tree, source)
    BY <1>1, <2>2, <2>3, NamedCut DEF SourceEntry, SourceData
  <2>5. CASE Named(tree, source) = SourceEntry /\ Followed(tree, source) = SourceData
    <3>1. Resolved(tree)
      BY <1>1, <2>5, TargetReached DEF Resolved
    <3>2. Listed(todo') /\ Delivered(tree, todo')
      BY <1>1, <2>1, FirstMove
    <3>3. MvCopying(tree', todo', pc')
      BY <1>1, <2>1, <3>1, <3>2 DEF MvCopying
    <3> QED
      BY <1>1, <1>2, <1>4, <2>1, <3>3, MvNext
  <2>6. CASE /\ IsPrefix(TargetEntry, Named(tree, source))
             /\ Followed(tree, source) = Named(tree, source)
    <3>1. ~ Exists(Stat(tree, source))
      BY <1>1, <2>2, <2>6, StatIs DEF NoneBelow, Exists
    <3>2. MvCopying(tree', todo', pc')
      BY <1>1, <1>4, <2>1, <3>1 DEF MvCopying
    <3> QED
      BY <1>1, <1>2, <1>4, <2>1, <3>2, MvNext
  <2> QED
    BY <2>4, <2>5, <2>6
<1> QED
  BY <1>2, <1>3, <1>4

LEMMA MvUnlinksSecure ==
  ASSUME Typed, Secure(tree), Phase, MvUnlinks
  PROVE  Secured
<1>1. /\ source # Root /\ target # Root /\ cmd.op = "mv"
      /\ MvMoving(tree) /\ Resolved(tree) /\ Delivered(tree, << >>)
  BY DEF Typed, Phase, MvUnlinks
<1>2. Steady /\ pc' = "operand" /\ Removed(tree, tree', SourceEntry)
  BY <1>1, MvUnlinksTyped DEF Continued, Resolved
<1> QED
  BY <1>1, <1>2, SecureUnlinked, SettledNext

\* The operands that are being copied.
LEMMA CopyPhase ==
  ASSUME Typed, Phase, pc \in {"copy", "open", "write"}
  PROVE  /\ source # Root /\ target # Root /\ cmd.op \in {"mv", "cp"}
         /\ cmd.op = "mv" => MvCopying(tree, todo, pc)
         /\ cmd.op = "cp" => CpCopying(tree, todo, pc) /\ Shallow(tree) /\ Shallow(begun)
BY DEF Typed, Phase, Copying

LEMMA CopyEndsSecure ==
  ASSUME Typed, Secure(tree), Phase, CopyEnds
  PROVE  Secured
<1>1. /\ Steady /\ tree' = tree /\ pc = "copy" /\ todo = << >>
      /\ pc' = IF cmd.op = "mv" THEN "unlink" ELSE "operand"
  BY CopyEndsTyped DEF Continued, CopyEnds, Goto
<1>2. CASE cmd.op = "mv"
  <2>1. MvCopying(tree, << >>, pc)
    BY <1>1, <1>2, CopyPhase
  <2>2. << >> # <<[from |-> source, to |-> target]>>
    OBVIOUS
  <2>3. MvMoving(tree) /\ Resolved(tree) /\ Delivered(tree, << >>)
    BY <2>1, <2>2 DEF MvCopying
  <2> QED
    BY <1>1, <1>2, <2>3, MvNext
<1>3. CASE cmd.op # "mv"
  BY <1>1, <1>3, SettledNext DEF Phase
<1> QED
  BY <1>2, <1>3

-----------------------------------------------------------------------------
(* cp: the steps of the copy. *)

\* cp has changed nothing but what lies where it copies to.
CpClean(t) ==
  /\ Apart(SourceData, TargetData)
  /\ SameLinks(begun, t) /\ Outside(t, TargetData)
  /\ cmd.noClobber => \A q \in Paths : begun[q].kind = "file" => t[q] = begun[q]

CpTargets(list) == \A i \in 1..Len(list) : IsPrefix(target, list[i].to)

LEMMA CpWork ==
  ASSUME Typed, Phase, cmd.op = "cp", todo # << >>,
         (pc = "copy" /\ ~ Refused) \/ pc \in {"open", "write"}
  PROVE  /\ CpClean(tree) /\ CpTargets(todo) /\ Shallow(tree) /\ Shallow(begun)
         /\ source # Root /\ target # Root
         /\ cmd.noClobber /\ pc \in {"open", "write"} =>
              At(begun, Followed(tree, To)).kind # "file"
<1>1. CpCopying(tree, todo, pc) /\ Shallow(tree) /\ Shallow(begun) /\ source # Root /\ target # Root
  BY CopyPhase
<1>2. To = todo[1].to /\ From = todo[1].from
  BY TodoParts
<1>3. ~ /\ pc = "copy" /\ todo = <<[from |-> source, to |-> target]>>
        /\ source = target \/ (IsPrefix(source, target) /\ Stat(tree, source).kind = "dir")
  BY <1>2 DEF Refused
<1> QED
  BY <1>1, <1>2, <1>3 DEF CpCopying, CpClean, CpTargets

LEMMA CpStep ==
  ASSUME Steady, Typed, source # Root, target # Root, cmd.op = "cp",
         CpClean(tree'), Shallow(tree'), Shallow(begun),
         \/ pc' = "operand"
         \/ /\ pc' \in {"copy", "open", "write"} /\ CpTargets(todo')
            /\ cmd.noClobber /\ pc' \in {"open", "write"} =>
                 At(begun, Followed(tree', todo'[1].to)).kind # "file"
  PROVE  Secured
<1>1. CASE pc' = "operand"
  <2>1. CpCopying(tree', << >>, "copy")
    BY DEF CpCopying, CpClean
  <2>2. Secure(tree')
    BY <2>1, SecureCopying
  <2> QED
    BY <1>1, <2>2, SettledNext
<1>2. CASE pc' # "operand"
  <2>1. CpCopying(tree', todo', pc')
    BY <1>2 DEF CpCopying, CpClean, CpTargets
  <2> QED
    BY <1>2, <2>1, CpNext
<1> QED
  BY <1>1, <1>2

LEMMA SameLinksOrder ==
  ASSUME NEW t, NEW u, NEW v, SameLinks(t, u), SameLinks(u, v)
  PROVE  SameLinks(t, v)
BY DEF SameLinks, SameLink

LEMMA OutsideWidened ==
  ASSUME NEW t, NEW u, NEW X, Outside(t, X), Widened(t, u)
  PROVE  Outside(u, X)
BY NodesAre DEF Outside, Widened

LEMMA OutsideWritten ==
  ASSUME NEW t, NEW u, NEW X, Outside(t, X), NEW c, IsPrefix(X, c), NEW f,
         \A q \in Paths : u[q] = IF q = c THEN f ELSE t[q]
  PROVE  Outside(u, X)
BY DEF Outside

LEMMA CpWidened ==
  ASSUME NEW t, NEW u, CpClean(t), Shallow(t), Widened(t, u)
  PROVE  CpClean(u) /\ Shallow(u)
<1>1. SameLinks(t, u) /\ \A q \in Paths : t[q].kind = "file" => u[q] = t[q]
  BY WidenedKeeps
<1>2. SameLinks(begun, u)
  BY <1>1, SameLinksOrder DEF CpClean
<1>3. Outside(u, TargetData)
  BY OutsideWidened DEF CpClean
<1>4. cmd.noClobber => \A q \in Paths : begun[q].kind = "file" => u[q] = begun[q]
  BY <1>1 DEF CpClean
<1>5. Shallow(u)
  BY NodesAre, ShallowKept DEF Widened
<1> QED
  BY <1>2, <1>3, <1>4, <1>5 DEF CpClean

\* What cp writes lies where it copies to.
LEMMA CpLands ==
  ASSUME Typed, source # Root, target # Root, NEW t, IsTree(t), SameLinks(begun, t),
         Shallow(begun), NEW r \in AnyPath
  PROVE  Followed(t, target \o r) = TargetData \o r
<1>1. /\ begun \in [Paths -> Node] /\ t \in [Paths -> Node] /\ target \in AnyPath
      /\ TargetData \in AnyPath /\ TargetEntry \in AnyPath /\ TargetEntry # Root
  BY Entries DEF IsTree, Typed
<1>2. PICK p : p = target \o r
  OBVIOUS
<1>6. p \in AnyPath
  BY <1>1, <1>2, Joined
<1>3. TargetData # Root
  <2>1. \/ At(begun, TargetEntry).kind = "link" /\ TargetData = At(begun, TargetEntry).of
        \/ TargetData = TargetEntry
    BY <1>1, NamedIs DEF TargetEntry, TargetData
  <2>2. ASSUME At(begun, TargetEntry).kind = "link" PROVE At(begun, TargetEntry).of # Root
    BY <1>1, <2>2, AtIs DEF Shallow, Exists
  <2> QED
    BY <1>1, <2>1, <2>2
<1>4. ASSUME NEW s \in AnyPath, s # Root PROVE At(begun, TargetData \o s).kind # "link"
  <2>1. PICK c : c = TargetData \o s
    OBVIOUS
  <2>2. Len(c) # 1
    BY <1>1, <1>3, <1>4, <2>1, Joined, PathParts
  <2>3. At(begun, c).kind # "link"
    BY <1>1, <2>2, AtIs DEF Shallow, Exists
  <2> QED
    BY <2>1, <2>3
<1>5. Followed(begun, target \o r) = Followed(begun, target) \o r
  BY <1>1, <1>4, FollowedDown DEF TargetData
<1>7. Followed(t, p) = TargetData \o r
  BY <1>1, <1>2, <1>5, <1>6, FollowedSame DEF TargetData
<1> QED
  BY <1>2, <1>7

LEMMA CpLanding ==
  ASSUME Typed, source # Root, target # Root, NEW t, IsTree(t), SameLinks(begun, t),
         Shallow(begun), NEW p \in AnyPath, IsPrefix(target, p)
  PROVE  IsPrefix(TargetData, Followed(t, p))
<1>1. target \in AnyPath /\ TargetData \in AnyPath
  BY Entries DEF Typed
<1>2. PICK r \in AnyPath : p = target \o r
  BY <1>1, RestOf
<1>3. Followed(t, p) = TargetData \o r
  BY <1>2, CpLands
<1> QED
  BY <1>1, <1>3, Joined

\* A file that cp writes, when -n has not found it.
LEMMA CpWritten ==
  ASSUME NEW t, NEW u, t \in [Paths -> Node], CpClean(t), Shallow(t),
         NEW c \in Paths, IsPrefix(TargetData, c), NEW f, Written(t, u, c, f),
         cmd.noClobber => begun[c].kind # "file"
  PROVE  CpClean(u) /\ Shallow(u) /\ SameLinks(t, u)
<1>1. SameLinks(t, u) /\ f.kind = "file" /\ \A q \in Paths : u[q] = IF q = c THEN f ELSE t[q]
  BY WrittenKeeps DEF Written
<1>2. SameLinks(begun, u)
  BY <1>1, SameLinksOrder DEF CpClean
<1>3. Outside(u, TargetData)
  BY <1>1, OutsideWritten DEF CpClean
<1>4. cmd.noClobber => \A q \in Paths : begun[q].kind = "file" => u[q] = begun[q]
  BY <1>1 DEF CpClean
<1>5. Shallow(u)
  BY <1>1, ShallowKept
<1> QED
  BY <1>1, <1>2, <1>3, <1>4, <1>5 DEF CpClean

LEMMA CpTargetsTail ==
  ASSUME Typed, todo # << >>, CpTargets(todo)
  PROVE  CpTargets(Tail(todo)) /\ IsPrefix(target, To) /\ To \in AnyPath /\ To = todo[1].to
<1>1. /\ Len(todo) \in Nat \ {0} /\ To = todo[1].to /\ To \in AnyPath
      /\ Len(Tail(todo)) = Len(todo) - 1
      /\ \A i \in 1..(Len(todo) - 1) : Tail(todo)[i] = todo[i + 1]
  BY TodoParts
<1> QED
  BY <1>1 DEF CpTargets

\* The elements of a concatenation.
LEMMA ElementOf ==
  ASSUME NEW a \in Seq(Pair), NEW b \in Seq(Pair), NEW i \in 1..Len(a \o b)
  PROVE  \/ i \in 1..Len(a) /\ (a \o b)[i] = a[i]
         \/ i - Len(a) \in 1..Len(b) /\ (a \o b)[i] = b[i - Len(a)]
<1>1. Len(a \o b) = Len(a) + Len(b) /\ Len(a) \in Nat /\ Len(b) \in Nat
  BY ConcatProperties
<1>2. (a \o b)[i] = IF i <= Len(a) THEN a[i] ELSE b[i - Len(a)]
  BY <1>1, ConcatProperties
<1> QED
  BY <1>1, <1>2

LEMMA CpTargetsDir ==
  ASSUME Typed, todo # << >>, CpTargets(todo), NEW more, EntriesOf(Head(todo), more)
  PROVE  CpTargets(more \o Tail(todo))
<1>1. PICK names, S : EntriesAre(From, To, S, more, names)
  BY DEF EntriesOf, From, To
<1>2. /\ CpTargets(Tail(todo)) /\ IsPrefix(target, To) /\ To \in AnyPath
      /\ Tail(todo) \in Seq(Pair) /\ target \in AnyPath
  BY CpTargetsTail, TodoParts DEF Typed
<1>3. /\ more \in Seq(Pair) /\ Len(more) = Len(names)
      /\ \A i \in 1..Len(names) : names[i] \in Names /\ more[i].to = Append(To, names[i])
  BY <1>1 DEF EntriesAre
<1>4. ASSUME NEW i \in 1..Len(more) PROVE IsPrefix(target, more[i].to)
  <2>1. names[i] \in Names /\ more[i].to = Append(To, names[i])
    BY <1>3
  <2>2. /\ more[i].to \in AnyPath /\ more[i].to # Root /\ Front(more[i].to) = To
    BY <1>2, <2>1, PathAppend
  <2> QED
    BY <1>2, <2>2, PrefixFront
<1>5. ASSUME NEW i \in 1..Len(more \o Tail(todo))
      PROVE  IsPrefix(target, (more \o Tail(todo))[i].to)
  BY <1>2, <1>3, <1>4, ElementOf DEF CpTargets
<1> QED
  BY <1>5 DEF CpTargets

LEMMA CpCopySecure ==
  ASSUME Typed, Opened, Secure(tree), Phase, cmd.op = "cp",
         CopySkips \/ CopyDir \/ CopyParent \/ CopyOpens \/ CopyWrites
  PROVE  Secured
<1>1. /\ todo # << >>
      /\ (pc = "copy" /\ ~ Refused) \/ pc \in {"open", "write"}
      /\ IsTree(tree) /\ IsTree(begun) /\ tree \in [Paths -> Node]
  BY DEF CopySkips, CopyDir, CopyParent, CopyOpens, CopyWrites, Typed, IsTree
<1>2. /\ CpClean(tree) /\ CpTargets(todo) /\ Shallow(tree) /\ Shallow(begun)
      /\ source # Root /\ target # Root
      /\ cmd.noClobber /\ pc \in {"open", "write"} =>
           At(begun, Followed(tree, To)).kind # "file"
  BY <1>1, CpWork
<1>3. CpTargets(Tail(todo)) /\ IsPrefix(target, To) /\ To \in AnyPath /\ To = todo[1].to
  BY <1>1, <1>2, CpTargetsTail
<1>4. CASE CopySkips
  <2>1. Steady /\ tree' = tree /\ pc' = "copy" /\ todo' = Tail(todo)
    <3>1. todo' = << >> \o Tail(todo) /\ pc' = "copy"
      BY <1>4 DEF CopySkips, Copied
    <3>2. << >> \o Tail(todo) = Tail(todo)
      BY <1>1, TodoParts, ConcatEmptySeq
    <3> QED
      BY <1>4, <3>1, <3>2, CopyEndsTyped DEF Continued
  <2> QED
    BY <1>2, <1>3, <2>1, CpStep
<1>5. CASE CopyDir
  <2>1. /\ Steady /\ Widened(tree, tree')
        /\ \/ pc' = "operand"
           \/ /\ pc' = "copy"
              /\ \E more : EntriesOf(Head(todo), more) /\ todo' = more \o Tail(todo)
    BY <1>5, CopyDirTyped DEF Continued
  <2>2. CpClean(tree') /\ Shallow(tree')
    BY <1>2, <2>1, CpWidened
  <2>3. pc' = "operand" \/ (pc' = "copy" /\ CpTargets(todo'))
    BY <1>1, <1>2, <2>1, CpTargetsDir
  <2> QED
    BY <1>2, <2>1, <2>2, <2>3, CpStep
<1>6. CASE CopyParent
  <2>1. /\ Steady /\ Widened(tree, tree') /\ IsTree(tree')
        /\ pc' = "operand" \/ (pc' = "open" /\ todo' = todo)
    BY <1>6, CopyParentTyped DEF Continued
  <2>2. CpClean(tree') /\ Shallow(tree')
    BY <1>2, <2>1, CpWidened
  <2>3. ASSUME cmd.noClobber PROVE At(begun, Followed(tree', To)).kind # "file"
    <3>1. PICK c : c = Followed(tree, To)
      OBVIOUS
    <3>2. Followed(tree', To) = c
      BY <1>1, <1>3, <2>1, <3>1, WidenedKeeps, FollowedSame DEF IsTree
    <3>3. ~ Exists(Stat(tree, To))
      BY <1>6, <2>3 DEF CopyParent, Skip, Kept
    <3>4. ASSUME At(begun, c).kind = "file" PROVE FALSE
      <4>1. c \in Paths /\ begun[c].kind = "file"
        BY <1>1, <3>4, AtIs DEF Exists, IsTree
      <4>2. tree[c].kind = "file" /\ At(tree, c) = tree[c]
        BY <1>2, <2>3, <4>1 DEF CpClean, At
      <4> QED
        BY <3>1, <3>3, <4>2 DEF Stat, Exists
    <3> QED
      BY <3>2, <3>4
  <2> QED
    BY <1>2, <1>3, <2>1, <2>2, <2>3, CpStep
<1>7. IsPrefix(TargetData, Followed(tree, To))
  BY <1>1, <1>2, <1>3, CpLanding DEF CpClean
<1>8. ASSUME NEW c, c = Followed(tree, To), NEW f, c \in Paths, Written(tree, tree', c, f),
             pc \in {"open", "write"}, IsTree(tree')
      PROVE  /\ CpClean(tree') /\ Shallow(tree')
             /\ cmd.noClobber => At(begun, Followed(tree', To)).kind # "file"
  <2>1. cmd.noClobber => begun[c].kind # "file"
    BY <1>2, <1>8 DEF At
  <2>2. CpClean(tree') /\ Shallow(tree') /\ SameLinks(tree, tree')
    BY <1>1, <1>2, <1>7, <1>8, <2>1, CpWritten
  <2>3. Followed(tree', To) = c
    BY <1>1, <1>3, <1>8, <2>2, FollowedSame DEF IsTree
  <2> QED
    BY <1>2, <1>8, <2>2, <2>3
<1>9. CASE CopyOpens
  <2>1. /\ Steady /\ IsTree(tree')
        /\ \/ pc' = "operand" /\ tree' = tree
           \/ /\ pc' = "write" /\ todo' = todo
              /\ Followed(tree, To) \in Paths
              /\ Written(tree, tree', Followed(tree, To), Torn)
    BY <1>9, CopyOpensTyped DEF Continued
  <2>2. pc \in {"open", "write"}
    BY <1>9 DEF CopyOpens
  <2>3. CASE pc' = "operand" /\ tree' = tree
    BY <1>2, <2>1, <2>3, CpStep
  <2>4. CASE /\ pc' = "write" /\ todo' = todo
             /\ Followed(tree, To) \in Paths
             /\ Written(tree, tree', Followed(tree, To), Torn)
    <3>1. /\ CpClean(tree') /\ Shallow(tree')
          /\ cmd.noClobber => At(begun, Followed(tree', To)).kind # "file"
      BY <1>8, <2>1, <2>2, <2>4
    <3> QED
      BY <1>2, <1>3, <2>1, <2>4, <3>1, CpStep
  <2> QED
    BY <2>1, <2>3, <2>4
<1>10. CASE CopyWrites
  <2>1. /\ Steady /\ IsTree(tree')
        /\ \/ pc' = "operand" /\ tree' = tree
           \/ /\ pc' = "copy" /\ todo' = Tail(todo)
              /\ Followed(tree, To) \in Paths
              /\ Written(tree, tree', Followed(tree, To), tree[Followed(tree, From)])
    BY <1>10, CopyWritesTyped DEF Continued
  <2>2. pc \in {"open", "write"}
    BY <1>10 DEF CopyWrites
  <2>3. CASE pc' = "operand" /\ tree' = tree
    BY <1>2, <2>1, <2>3, CpStep
  <2>4. CASE /\ pc' = "copy" /\ todo' = Tail(todo)
             /\ Followed(tree, To) \in Paths
             /\ Written(tree, tree', Followed(tree, To), tree[Followed(tree, From)])
    <3>1. CpClean(tree') /\ Shallow(tree')
      BY <1>8, <2>1, <2>2, <2>4
    <3> QED
      BY <1>2, <1>3, <2>1, <2>4, <3>1, CpStep
  <2> QED
    BY <2>1, <2>3, <2>4
<1> QED
  BY <1>4, <1>5, <1>6, <1>9, <1>10

-----------------------------------------------------------------------------
(* mv: the steps of the copy. *)

LEMMA MvWork ==
  ASSUME Typed, Phase, cmd.op = "mv", todo # << >>,
         (pc = "copy" /\ ~ Refused) \/ pc \in {"open", "write"}
  PROVE  /\ MvMoving(tree) /\ Resolved(tree) /\ Listed(todo) /\ Delivered(tree, todo)
         /\ source # Root /\ target # Root
<1>1. MvCopying(tree, todo, pc) /\ source # Root /\ target # Root
  BY CopyPhase
<1>2. From = todo[1].from
  BY TodoParts
<1>3. ~ /\ pc = "copy" /\ ~ Exists(Stat(tree, source))
        /\ todo = <<[from |-> source, to |-> target]>>
  BY <1>2 DEF Refused
<1> QED
  BY <1>1, <1>3 DEF MvCopying

LEMMA MvStep ==
  ASSUME Steady, Typed, source # Root, target # Root, cmd.op = "mv",
         MvMoving(tree'), Resolved(tree'),
         \/ pc' = "operand"
         \/ pc' \in {"copy", "open", "write"} /\ Listed(todo') /\ Delivered(tree', todo')
  PROVE  Secured
<1>1. Secure(tree')
  BY SecureMoving DEF MvMoving
<1>2. CASE pc' = "operand"
  BY <1>1, <1>2, SettledNext
<1>3. CASE pc' # "operand"
  <2>1. MvCopying(tree', todo', pc')
    BY <1>3 DEF MvCopying
  <2> QED
    BY <1>1, <1>3, <2>1, MvNext
<1> QED
  BY <1>2, <1>3

LEMMA ResolvedSame ==
  ASSUME Typed, NEW t, NEW u, IsTree(t), IsTree(u), SameLinks(t, u), Resolved(t)
  PROVE  Resolved(u)
<1>1. source \in AnyPath /\ target \in AnyPath
  BY DEF Typed
<1> QED
  BY <1>1, FollowedSame DEF Resolved, IsTree

LEMMA MvWidened ==
  ASSUME Typed, NEW t, NEW u, IsTree(t), MvMoving(t), Resolved(t), Widened(t, u)
  PROVE  MvMoving(u) /\ Resolved(u) /\ SameLinks(t, u)
<1>1. SameLinks(t, u) /\ IsTree(u)
  BY WidenedKeeps DEF Widened
<1>2. Outside(u, TargetEntry)
  BY OutsideWidened DEF MvMoving
<1>3. \A q \in Paths : IsPrefix(TargetEntry, q) => u[q].kind # "link"
  BY NodesAre DEF MvMoving, Widened
<1> QED
  BY <1>1, <1>2, <1>3, ResolvedSame DEF MvMoving

LEMMA MvWritten ==
  ASSUME Typed, NEW t, NEW u, IsTree(t), MvMoving(t), Resolved(t),
         NEW c \in Paths, IsPrefix(TargetEntry, c), NEW f, Written(t, u, c, f)
  PROVE  MvMoving(u) /\ Resolved(u) /\ SameLinks(t, u)
<1>1. /\ SameLinks(t, u) /\ IsTree(u) /\ f.kind = "file"
      /\ \A q \in Paths : u[q] = IF q = c THEN f ELSE t[q]
  BY WrittenKeeps DEF Written, IsTree
<1>2. Outside(u, TargetEntry)
  BY <1>1, OutsideWritten DEF MvMoving
<1>3. \A q \in Paths : IsPrefix(TargetEntry, q) => u[q].kind # "link"
  BY <1>1 DEF MvMoving
<1> QED
  BY <1>1, <1>2, <1>3, ResolvedSame DEF MvMoving

LEMMA MoveIs ==
  ASSUME Typed, NEW e, e.from \in AnyPath
  PROVE  IsMove(e) <=> \E r \in AnyPath : e.from = source \o r /\ e.to = target \o r
<1>1. source \in AnyPath /\ target \in AnyPath
  BY DEF Typed
<1>2. PICK s : s = SubSeq(e.from, Len(source) + 1, Len(e.from))
  OBVIOUS
<1>3. IsPrefix(source, e.from) => s \in AnyPath /\ e.from = source \o s
  BY <1>1, <1>2, RestOf
<1>4. ASSUME IsMove(e)
      PROVE  \E r \in AnyPath : e.from = source \o r /\ e.to = target \o r
  BY <1>2, <1>3, <1>4 DEF IsMove
<1>5. ASSUME NEW r \in AnyPath, e.from = source \o r, e.to = target \o r
      PROVE  IsMove(e)
  <2>1. IsPrefix(source, e.from)
    BY <1>1, <1>5, Joined
  <2>2. source \o s = source \o r /\ s \in AnyPath
    BY <1>3, <1>5, <2>1
  <2>3. s = r
    BY <1>1, <2>2, JoinedSame
  <2> QED
    BY <1>2, <1>5, <2>1, <2>3 DEF IsMove
<1> QED
  BY <1>4, <1>5

\* Where a file of the source, and what lies on the way to it, is found.
LEMMA Reading ==
  ASSUME Typed, source # Root, target # Root, NEW t, IsTree(t),
         Followed(t, source) = SourceData,
         \A q \in Paths : IsPrefix(SourceData, q) /\ begun[q].kind = "file" => t[q] = begun[q]
  PROVE  Readable(t)
<1> SUFFICES ASSUME NEW r \in AnyPath, SourceData \o r \in Paths, Whole(begun[SourceData \o r])
             PROVE  /\ t[SourceData \o r] = begun[SourceData \o r]
                    /\ \A s \in AnyPath : IsPrefix(s, r) =>
                         /\ SourceData \o s \in Paths
                         /\ Followed(t, source \o s) = SourceData \o s
                         /\ s # r => t[SourceData \o s].kind = "dir"
  BY DEF Readable
<1>1. SourceData \in AnyPath /\ source \in AnyPath /\ t \in [Paths -> Node]
  BY Entries DEF IsTree, Typed
<1>2. PICK p : p = SourceData \o r
  OBVIOUS
<1>3. p \in AnyPath /\ IsPrefix(SourceData, p) /\ p \in Paths /\ begun[p].kind = "file"
  BY <1>1, <1>2, Joined DEF Whole
<1>5. t[p] = begun[p] /\ t[p].kind = "file"
  BY <1>3
<1>6. ASSUME NEW s \in AnyPath, IsPrefix(s, r), NEW c, c = SourceData \o s
      PROVE  c \in Paths /\ t[c].kind # "link" /\ (s # r => t[c].kind = "dir")
  <2>1. c \in AnyPath /\ IsPrefix(c, p)
    BY <1>1, <1>2, <1>6, JoinedPrefix, Joined
  <2>2. CASE s = r
    BY <1>2, <1>3, <1>5, <1>6, <2>2
  <2>3. CASE s # r
    <3>1. c # p
      BY <1>1, <1>2, <1>6, <2>3, JoinedSame
    <3> QED
      BY <1>3, <1>5, <2>1, <3>1, AncestorsAreDirs DEF Exists
  <2> QED
    BY <2>2, <2>3
<1>7. ASSUME NEW s \in AnyPath, IsPrefix(s, r)
      PROVE  Followed(t, source \o s) = SourceData \o s
  <2>1. ASSUME NEW w \in AnyPath, IsPrefix(w, s), w # Root
        PROVE  At(t, SourceData \o w).kind # "link"
    <3>1. PICK c : c = SourceData \o w
      OBVIOUS
    <3>2. IsPrefix(w, r)
      BY <1>7, <2>1, PrefixOrder
    <3>3. c \in Paths /\ t[c].kind # "link"
      BY <1>6, <3>1, <3>2
    <3> QED
      BY <3>1, <3>3 DEF At
  <2> QED
    BY <1>1, <2>1, FollowedDown
<1>8. ASSUME NEW s \in AnyPath, IsPrefix(s, r)
      PROVE  SourceData \o s \in Paths /\ (s # r => t[SourceData \o s].kind = "dir")
  BY <1>6, <1>8
<1> QED
  BY <1>2, <1>5, <1>7, <1>8

LEMMA MvReading ==
  ASSUME Typed, source # Root, target # Root, NEW t, IsTree(t), MvMoving(t), Resolved(t)
  PROVE  Readable(t) /\ Straight(t)
<1>1. TargetEntry \in AnyPath /\ SourceData \in AnyPath
  BY Entries
<1>2. Readable(t)
  <2>1. ASSUME NEW q \in Paths, IsPrefix(SourceData, q), begun[q].kind = "file"
        PROVE  t[q] = begun[q]
    <3>1. ~ IsPrefix(TargetEntry, q)
      BY <1>1, <2>1, PathIs, ApartBelow DEF MvMoving
    <3> QED
      BY <2>1, <3>1 DEF MvMoving, Outside
  <2> QED
    BY <2>1, Reading DEF Resolved
<1>3. Straight(t)
  BY Landing DEF Straight
<1> QED
  BY <1>2, <1>3

\* A file that has been copied stays where it is.
LEMMA DeliveredKept ==
  ASSUME Typed, NEW t, NEW u, IsTree(t), IsTree(u), SameLinks(t, u), NEW r \in AnyPath,
         NEW n, n.kind = "file", At(t, Followed(t, target \o r)) = n,
         NEW c, c = Followed(t, target \o r), c \in Paths => u[c] = t[c]
  PROVE  At(u, Followed(u, target \o r)) = n
<1>1. target \in AnyPath /\ t \in [Paths -> Node] /\ u \in [Paths -> Node]
  BY DEF Typed, IsTree
<1>2. PICK p : p = target \o r
  OBVIOUS
<1>3. p \in AnyPath
  BY <1>1, <1>2, Joined
<1>4. Followed(u, p) = c
  BY <1>1, <1>2, <1>3, FollowedSame
<1>5. c \in Paths /\ t[c] = n
  BY <1>1, AtIs DEF Exists
<1> QED
  BY <1>2, <1>4, <1>5 DEF At

LEMMA MvHead ==
  ASSUME Typed, todo # << >>, Listed(todo)
  PROVE  \E r \in AnyPath : From = source \o r /\ To = target \o r
<1>1. From = todo[1].from /\ To = todo[1].to /\ From \in AnyPath /\ Len(todo) \in Nat \ {0}
  BY TodoParts
<1>2. IsMove(todo[1])
  BY <1>1 DEF Listed
<1> QED
  BY <1>1, <1>2, MoveIs

LEMMA ListedTail ==
  ASSUME Typed, todo # << >>, Listed(todo)
  PROVE  Listed(Tail(todo))
<1>1. /\ Len(todo) \in Nat \ {0} /\ Len(Tail(todo)) = Len(todo) - 1
      /\ \A i \in 1..(Len(todo) - 1) : Tail(todo)[i] = todo[i + 1]
  BY TodoParts
<1>2. ASSUME NEW i \in 1..Len(Tail(todo))
      PROVE  /\ i + 1 \in 1..Len(todo) /\ Tail(todo)[i] = todo[i + 1]
             /\ IsMove(Tail(todo)[i])
  BY <1>1 DEF Listed
<1>3. ASSUME NEW i \in 1..Len(Tail(todo)), NEW j \in 1..Len(Tail(todo)), i # j
      PROVE  ~ IsPrefix(Tail(todo)[i].to, Tail(todo)[j].to)
  <2>1. i + 1 # j + 1
    BY <1>3
  <2> QED
    BY <1>2, <2>1 DEF Listed
<1> QED
  BY <1>2, <1>3 DEF Listed

\* A file in hand is the head's or the rest's.
LEMMA InHandTail ==
  ASSUME Typed, todo # << >>, NEW r, InHand(todo, r)
  PROVE  IsPrefix(To, target \o r) \/ InHand(Tail(todo), r)
<1>1. /\ Len(todo) \in Nat \ {0} /\ Len(Tail(todo)) = Len(todo) - 1 /\ To = todo[1].to
      /\ \A i \in 1..(Len(todo) - 1) : Tail(todo)[i] = todo[i + 1]
  BY TodoParts
<1>2. PICK i \in 1..Len(todo) : IsPrefix(todo[i].to, target \o r)
  BY DEF InHand
<1>3. CASE i = 1
  BY <1>1, <1>2, <1>3
<1>4. CASE i # 1
  <2>1. /\ i - 1 \in 1..Len(Tail(todo)) /\ Tail(todo)[i - 1] = todo[(i - 1) + 1]
        /\ (i - 1) + 1 = i
    BY <1>1, <1>4
  <2> QED
    BY <1>2, <2>1 DEF InHand
<1> QED
  BY <1>3, <1>4

LEMMA HeadInHand ==
  ASSUME Typed, todo # << >>, NEW r, IsPrefix(To, target \o r)
  PROVE  InHand(todo, r)
<1>1. Len(todo) \in Nat \ {0} /\ To = todo[1].to /\ 1 \in 1..Len(todo)
  BY TodoParts
<1> QED
  BY <1>1 DEF InHand

\* The parts of a concatenation.
LEMMA PartsOf ==
  ASSUME NEW a \in Seq(Pair), NEW b \in Seq(Pair)
  PROVE  /\ Len(a \o b) = Len(a) + Len(b) /\ Len(a) \in Nat /\ Len(b) \in Nat
         /\ \A i \in 1..Len(a) : (a \o b)[i] = a[i]
         /\ \A i \in 1..Len(b) : (a \o b)[i + Len(a)] = b[i]
<1>1. /\ Len(a \o b) = Len(a) + Len(b) /\ Len(a) \in Nat /\ Len(b) \in Nat
      /\ \A i \in 1..Len(a) + Len(b) : (a \o b)[i] = IF i <= Len(a) THEN a[i] ELSE b[i - Len(a)]
  BY ConcatProperties
<1>2. ASSUME NEW i \in 1..Len(b) PROVE (a \o b)[i + Len(a)] = b[i]
  <2>1. /\ i + Len(a) \in 1..Len(a) + Len(b) /\ ~ (i + Len(a) <= Len(a))
        /\ (i + Len(a)) - Len(a) = i
    BY <1>1
  <2>2. (a \o b)[i + Len(a)] = b[(i + Len(a)) - Len(a)]
    BY <1>1, <2>1
  <2> QED
    BY <2>1, <2>2
<1> QED
  BY <1>1, <1>2

LEMMA InHandJoined ==
  ASSUME NEW a \in Seq(Pair), NEW b \in Seq(Pair), NEW r, InHand(a, r) \/ InHand(b, r)
  PROVE  InHand(a \o b, r)
<1>1. /\ Len(a \o b) = Len(a) + Len(b) /\ Len(a) \in Nat /\ Len(b) \in Nat
      /\ \A i \in 1..Len(a) : (a \o b)[i] = a[i]
      /\ \A i \in 1..Len(b) : (a \o b)[i + Len(a)] = b[i]
  BY PartsOf
<1>2. CASE InHand(a, r)
  <2>1. PICK i \in 1..Len(a) : IsPrefix(a[i].to, target \o r)
    BY <1>2 DEF InHand
  <2>2. i \in 1..Len(a \o b) /\ (a \o b)[i] = a[i]
    BY <1>1
  <2> QED
    BY <2>1, <2>2 DEF InHand
<1>3. CASE InHand(b, r)
  <2>1. PICK i \in 1..Len(b) : IsPrefix(b[i].to, target \o r)
    BY <1>3 DEF InHand
  <2>2. i + Len(a) \in 1..Len(a \o b) /\ (a \o b)[i + Len(a)] = b[i]
    BY <1>1
  <2> QED
    BY <2>1, <2>2 DEF InHand
<1> QED
  BY <1>2, <1>3

\* Lists without nesting, when none of one lies in one of the other.
LEMMA ListedJoined ==
  ASSUME NEW a \in Seq(Pair), NEW b \in Seq(Pair), Listed(a), Listed(b),
         \A i \in 1..Len(a) : \A j \in 1..Len(b) : Apart(a[i].to, b[j].to)
  PROVE  Listed(a \o b)
<1>1. /\ Len(a \o b) = Len(a) + Len(b) /\ Len(a) \in Nat /\ Len(b) \in Nat
  BY PartsOf
<1>2. ASSUME NEW i \in 1..Len(a \o b)
      PROVE  \/ i \in 1..Len(a) /\ (a \o b)[i] = a[i]
             \/ i - Len(a) \in 1..Len(b) /\ (a \o b)[i] = b[i - Len(a)]
  BY ElementOf
<1>3. ASSUME NEW i \in 1..Len(a \o b) PROVE IsMove((a \o b)[i])
  BY <1>2 DEF Listed
<1>4. ASSUME NEW i \in 1..Len(a \o b), NEW j \in 1..Len(a \o b), i # j
      PROVE  ~ IsPrefix((a \o b)[i].to, (a \o b)[j].to)
  <2>1. CASE i \in 1..Len(a) /\ j \in 1..Len(a) /\ (a \o b)[i] = a[i] /\ (a \o b)[j] = a[j]
    BY <1>4, <2>1 DEF Listed
  <2>2. CASE /\ i - Len(a) \in 1..Len(b) /\ (a \o b)[i] = b[i - Len(a)]
             /\ j - Len(a) \in 1..Len(b) /\ (a \o b)[j] = b[j - Len(a)]
    <3>1. i - Len(a) # j - Len(a)
      BY <1>1, <1>4
    <3> QED
      BY <2>2, <3>1 DEF Listed
  <2>3. CASE /\ i \in 1..Len(a) /\ (a \o b)[i] = a[i]
             /\ j - Len(a) \in 1..Len(b) /\ (a \o b)[j] = b[j - Len(a)]
    BY <2>3 DEF Apart
  <2>4. CASE /\ i - Len(a) \in 1..Len(b) /\ (a \o b)[i] = b[i - Len(a)]
             /\ j \in 1..Len(a) /\ (a \o b)[j] = a[j]
    BY <2>4 DEF Apart
  <2> QED
    BY <1>2, <2>1, <2>2, <2>3, <2>4
<1> QED
  BY <1>3, <1>4 DEF Listed

\* The entries of a directory lie in it, and none lies in another.
LEMMA EntriesApart ==
  ASSUME Typed, todo # << >>, Listed(todo), NEW more, EntriesOf(Head(todo), more)
  PROVE  Listed(more \o Tail(todo))
<1>1. PICK names, S : EntriesAre(From, To, S, more, names)
  BY DEF EntriesOf, From, To
<1>2. PICK r1 \in AnyPath : From = source \o r1 /\ To = target \o r1
  BY MvHead
<1>3. /\ more \in Seq(Pair) /\ Len(more) = Len(names)
      /\ \A i \in 1..Len(names) : /\ names[i] \in Names
                                  /\ more[i].from = Append(From, names[i])
                                  /\ more[i].to = Append(To, names[i])
      /\ \A i, j \in 1..Len(names) : names[i] = names[j] => i = j
  BY <1>1 DEF EntriesAre
<1>4. /\ From \in AnyPath /\ To \in AnyPath /\ source \in AnyPath /\ target \in AnyPath
      /\ Len(todo) \in Nat \ {0} /\ Len(Tail(todo)) = Len(todo) - 1 /\ To = todo[1].to
      /\ Tail(todo) \in Seq(Pair)
      /\ \A i \in 1..(Len(todo) - 1) : Tail(todo)[i] = todo[i + 1]
  BY TodoParts DEF Typed
<1>5. ASSUME NEW i \in 1..Len(more)
      PROVE  /\ more[i].to = Append(To, names[i]) /\ more[i].to \in AnyPath
             /\ more[i].to # Root /\ Front(more[i].to) = To /\ Last(more[i].to) = names[i]
             /\ more[i].from \in AnyPath
  <2>1. /\ names[i] \in Names /\ more[i].from = Append(From, names[i])
        /\ more[i].to = Append(To, names[i])
    BY <1>3
  <2> QED
    BY <1>4, <2>1, PathAppend
<1>6. ASSUME NEW i \in 1..Len(more) PROVE IsMove(more[i])
  <2>0. PICK n \in Names : n = names[i]
    BY <1>3
  <2>1. PICK r : r = Append(r1, n)
    OBVIOUS
  <2>2. r \in AnyPath
    BY <1>2, <2>1, PathAppend
  <2>3. Append(source \o r1, n) = source \o r /\ Append(target \o r1, n) = target \o r
    BY <1>2, <1>4, <2>1, JoinedAppend
  <2>4. more[i].from = source \o r /\ more[i].to = target \o r
    BY <1>2, <1>3, <2>0, <2>3
  <2> QED
    BY <1>5, <2>2, <2>4, MoveIs
<1>7. ASSUME NEW i \in 1..Len(more), NEW j \in 1..Len(more), i # j
      PROVE  ~ IsPrefix(more[i].to, more[j].to)
  <2>1. SUFFICES ASSUME IsPrefix(more[i].to, more[j].to) PROVE FALSE
    OBVIOUS
  <2>2. more[i].to # more[j].to
    BY <1>3, <1>5, <1>7
  <2>3. IsPrefix(more[i].to, To)
    BY <1>5, <2>1, <2>2, PrefixFront
  <2>4. ~ IsPrefix(more[i].to, To)
    BY <1>4, <1>5, PathFront
  <2> QED
    BY <2>3, <2>4
<1>8. Listed(more)
  BY <1>6, <1>7 DEF Listed
<1>9. ASSUME NEW i \in 1..Len(more), NEW j \in 1..Len(Tail(todo))
      PROVE  Apart(more[i].to, Tail(todo)[j].to)
  <2>1. PICK x : x = Tail(todo)[j].to
    OBVIOUS
  <2>2. /\ j + 1 \in 1..Len(todo) /\ j + 1 # 1 /\ 1 \in 1..Len(todo)
        /\ Tail(todo)[j] = todo[j + 1]
    BY <1>4
  <2>3. ~ IsPrefix(To, x) /\ ~ IsPrefix(x, To)
    BY <1>4, <2>1, <2>2 DEF Listed
  <2>4. x \in AnyPath
    <3>1. Tail(todo)[j] \in Pair
      BY <1>4
    <3> QED
      BY <2>1, <3>1 DEF Pair, AnyPath
  <2>5. IsPrefix(To, more[i].to)
    BY <1>4, <1>5, PathFront
  <2>6. ~ IsPrefix(more[i].to, x)
    BY <1>4, <1>5, <2>3, <2>4, <2>5, PrefixOrder
  <2>7. ~ IsPrefix(x, more[i].to)
    <3>1. SUFFICES ASSUME IsPrefix(x, more[i].to) PROVE FALSE
      OBVIOUS
    <3>2. x # more[i].to
      BY <2>3, <2>5
    <3> QED
      BY <1>5, <2>3, <2>4, <3>1, <3>2, PrefixFront
  <2> QED
    BY <2>1, <2>6, <2>7 DEF Apart
<1>10. Listed(Tail(todo))
  BY ListedTail
<1> QED
  BY <1>3, <1>4, <1>8, <1>9, <1>10, ListedJoined

\* A file in a directory is in hand when its entries are.
LEMMA EntriesInHand ==
  ASSUME Typed, source # Root, target # Root, todo # << >>, Listed(todo),
         IsTree(tree'), Readable(tree'),
         NEW more, EntriesOf(Head(todo), more),
         NEW r \in AnyPath, SourceData \o r \in Paths, Whole(begun[SourceData \o r]),
         IsPrefix(To, target \o r),
         NEW r1 \in AnyPath, From = source \o r1, To = target \o r1, r1 # r
  PROVE  InHand(more, r)
<1>1. /\ source \in AnyPath /\ target \in AnyPath /\ SourceData \in AnyPath
      /\ tree' \in [Paths -> Node]
  BY Entries DEF Typed, IsTree
<1>2. IsPrefix(r1, r)
  BY <1>1, JoinedPrefix
<1>3. PICK c : c = SourceData \o r1
  OBVIOUS
<1>4. Followed(tree', From) = c /\ c \in AnyPath
  BY <1>1, <1>2, <1>3, Joined DEF Readable
<1>5. PICK s \in AnyPath : r = r1 \o s
  BY <1>2, RestOf
<1>6. s # Root
  BY <1>5, Joined
<1>7. PICK n : n = s[1]
  OBVIOUS
<1>8. n \in Names
  BY <1>6, <1>7, PathParts
<1>9. PICK r2 : r2 = Append(r1, n)
  OBVIOUS
<1>10. r2 \in AnyPath /\ IsPrefix(r2, r)
  <2>1. r2 \in AnyPath /\ Len(r2) = Len(r1) + 1 /\ Front(r2) = r1 /\ Last(r2) = n /\ r2 # Root
    BY <1>8, <1>9, PathAppend
  <2>2. /\ Len(r) = Len(r1) + Len(s) /\ \A i \in 1..Len(r1) : r[i] = r1[i]
        /\ \A i \in 1..Len(s) : r[i + Len(r1)] = s[i]
    BY <1>5, Concatenated DEF IsJoin
  <2>3. Len(s) \in Nat \ {0} /\ Len(r1) \in Nat
    BY <1>6, PathParts
  <2>4. \A i \in 1..(Len(r2) - 1) : r1[i] = r2[i]
    BY <2>1, FrontProperties DEF AnyPath, Root
  <2>5. r2[Len(r2)] = n
    BY <2>1, FrontProperties DEF AnyPath, Root
  <2>6. r[1 + Len(r1)] = s[1]
    BY <2>2, <2>3
  <2>7. Len(r2) <= Len(r) /\ \A i \in 1..Len(r2) : r2[i] = r[i]
    BY <1>7, <2>1, <2>2, <2>3, <2>4, <2>5, <2>6
  <2> QED
    BY <2>1, <2>7, PrefixIs
<1>11. Append(c, n) = SourceData \o r2
  BY <1>1, <1>3, <1>8, <1>9, JoinedAppend
<1>12. Exists(At(tree', Append(c, n)))
  <2>1. PICK d : d = SourceData \o r2
    OBVIOUS
  <2>2. d \in Paths /\ (r2 # r => tree'[d].kind = "dir") /\ tree'[SourceData \o r] = begun[SourceData \o r]
    BY <1>10, <2>1 DEF Readable
  <2>3. tree'[d].kind \in {"dir", "file"}
    BY <2>1, <2>2 DEF Whole
  <2> QED
    BY <1>11, <2>1, <2>2, <2>3 DEF At, Exists
<1>13. PICK names : EntriesAre(From, To, Children(tree', Followed(tree', From)), more, names)
  BY DEF EntriesOf, From, To
<1>14. n \in Children(tree', Followed(tree', From))
  BY <1>4, <1>8, <1>12 DEF Children
<1>15. PICK i \in 1..Len(more) : more[i].to = Append(To, n)
  <2>1. /\ Len(more) = Len(names)
        /\ \A i \in 1..Len(names) : more[i].to = Append(To, names[i])
    BY <1>13 DEF EntriesAre
  <2>2. \E i \in 1..Len(names) : names[i] = n
    BY <1>13, <1>14 DEF EntriesAre
  <2> QED
    BY <2>1, <2>2
<1>16. more[i].to = target \o r2
  BY <1>1, <1>8, <1>9, <1>15, JoinedAppend
<1>17. IsPrefix(target \o r2, target \o r)
  BY <1>1, <1>10, JoinedPrefix
<1> QED
  BY <1>15, <1>16, <1>17 DEF InHand

\* More directories: what has been copied stays.
LEMMA DeliveredWidened ==
  ASSUME Typed, NEW t, NEW u, IsTree(t), Widened(t, u), NEW list, Delivered(t, list)
  PROVE  Delivered(u, list)
<1>1. /\ IsTree(u) /\ SameLinks(t, u) /\ t \in [Paths -> Node]
      /\ \A q \in Paths : t[q].kind = "file" => u[q] = t[q]
  BY WidenedKeeps DEF Widened, IsTree
<1>2. ASSUME NEW r \in Paths, SourceData \o r \in Paths, Whole(begun[SourceData \o r]),
             ~ InHand(list, r)
      PROVE  At(u, Followed(u, target \o r)) = begun[SourceData \o r]
  <2>1. PICK n : n = begun[SourceData \o r]
    OBVIOUS
  <2>2. PICK c : c = Followed(t, target \o r)
    OBVIOUS
  <2>3. n.kind = "file" /\ At(t, c) = n /\ r \in AnyPath
    BY <1>2, <2>1, <2>2, PathIs DEF Delivered, Whole
  <2>4. c \in Paths => u[c] = t[c]
    BY <1>1, <2>3 DEF At
  <2> QED
    BY <1>1, <2>1, <2>2, <2>3, <2>4, DeliveredKept
<1> QED
  BY <1>2 DEF Delivered

\* The head is a directory: its entries take its place.
LEMMA DeliveredEntries ==
  ASSUME Typed, source # Root, target # Root, todo # << >>, Listed(todo),
         Stat(tree, From).kind = "dir", Readable(tree),
         IsTree(tree'), Readable(tree'), Delivered(tree', todo),
         NEW more, EntriesOf(Head(todo), more)
  PROVE  Delivered(tree', more \o Tail(todo))
<1>1. PICK r1 \in AnyPath : From = source \o r1 /\ To = target \o r1
  BY MvHead
<1>2. target \in AnyPath /\ IsTree(tree) /\ Tail(todo) \in Seq(Pair)
  BY TodoParts DEF Typed
<1>3. more \in Seq(Pair)
  BY DEF EntriesOf, EntriesAre
<1>4. ASSUME NEW r \in Paths, SourceData \o r \in Paths, Whole(begun[SourceData \o r]),
             InHand(todo, r)
      PROVE  InHand(more \o Tail(todo), r)
  <2>1. r \in AnyPath
    BY PathIs
  <2>2. CASE InHand(Tail(todo), r)
    BY <1>2, <1>3, <2>2, InHandJoined
  <2>3. CASE IsPrefix(To, target \o r)
    <3>1. IsPrefix(r1, r)
      BY <1>1, <1>2, <2>1, <2>3, JoinedPrefix
    <3>2. r1 # r
      <4>1. PICK c : c = SourceData \o r1
        OBVIOUS
      <4>2. /\ Followed(tree, From) = c /\ c \in Paths
            /\ tree[SourceData \o r] = begun[SourceData \o r]
        BY <1>1, <1>4, <2>1, <3>1, <4>1 DEF Readable
      <4>3. tree[c].kind = "dir"
        BY <1>2, <4>2, StatIs DEF Exists
      <4> QED
        BY <1>4, <4>1, <4>2, <4>3 DEF Whole
    <3>3. InHand(more, r)
      BY <1>1, <1>4, <2>1, <2>3, <3>2, EntriesInHand
    <3> QED
      BY <1>2, <1>3, <3>3, InHandJoined
  <2> QED
    BY <1>4, <2>2, <2>3, InHandTail
<1> QED
  BY <1>4 DEF Delivered

\* The head's target becomes n: other files are where they were.
LEMMA DeliveredWritten ==
  ASSUME Typed, source # Root, target # Root, todo # << >>, Listed(todo),
         Readable(tree), Straight(tree), Delivered(tree, todo),
         NEW u, IsTree(u), SameLinks(tree, u), NEW n,
         \A q \in Paths : u[q] = IF q = Followed(tree, To) THEN n ELSE tree[q],
         NEW r \in AnyPath, r \in Paths,
         SourceData \o r \in Paths, Whole(begun[SourceData \o r]), ~ InHand(todo, r)
  PROVE  At(u, Followed(u, target \o r)) = begun[SourceData \o r]
<1>1. PICK r1 \in AnyPath : From = source \o r1 /\ To = target \o r1
  BY MvHead
<1>2. target \in AnyPath /\ IsTree(tree)
  BY DEF Typed
<1>3. r # r1
  <2>1. ~ IsPrefix(To, target \o r)
    BY HeadInHand
  <2>2. IsPrefix(target \o r, target \o r)
    BY <1>2, Joined, PrefixOrder
  <2> QED
    BY <1>1, <2>1, <2>2
<1>4. PICK c : c = Followed(tree, target \o r)
  OBVIOUS
<1>5. c # Followed(tree, To)
  <2>1. PICK d : d = Followed(tree, target)
    OBVIOUS
  <2>2. d \in AnyPath /\ c = d \o r /\ Followed(tree, To) = d \o r1
    BY <1>1, <1>2, <1>4, <2>1, FollowedType DEF Straight, IsTree
  <2> QED
    BY <1>3, <2>2, JoinedSame
<1>6. c \in Paths => u[c] = tree[c]
  BY <1>5
<1>7. PICK m : m = begun[SourceData \o r]
  OBVIOUS
<1>8. m.kind = "file" /\ At(tree, c) = m
  BY <1>4, <1>7 DEF Delivered, Whole
<1> QED
  BY <1>2, <1>4, <1>6, <1>7, <1>8, DeliveredKept

\* The head has been copied.
LEMMA DeliveredCopied ==
  ASSUME Typed, source # Root, target # Root, todo # << >>, Listed(todo),
         Readable(tree), Straight(tree), Delivered(tree, todo),
         Stat(tree, From).kind = "file", Followed(tree, To) \in Paths,
         NEW u, IsTree(u), SameLinks(tree, u),
         NEW n, n = tree[Followed(tree, From)],
         \A q \in Paths : u[q] = IF q = Followed(tree, To) THEN n ELSE tree[q]
  PROVE  Delivered(u, Tail(todo))
<1>1. PICK r1 \in AnyPath : From = source \o r1 /\ To = target \o r1
  BY MvHead
<1>2. target \in AnyPath /\ IsTree(tree) /\ To \in AnyPath
  BY TodoParts DEF Typed
<1>3. ASSUME NEW r \in Paths, SourceData \o r \in Paths, Whole(begun[SourceData \o r]),
             ~ InHand(Tail(todo), r)
      PROVE  At(u, Followed(u, target \o r)) = begun[SourceData \o r]
  <2>1. r \in AnyPath
    BY PathIs
  <2>2. CASE ~ InHand(todo, r)
    BY <1>3, <2>1, <2>2, DeliveredWritten
  <2>3. CASE InHand(todo, r)
    <3>1. IsPrefix(To, target \o r)
      BY <1>3, <2>3, InHandTail
    <3>2. IsPrefix(r1, r)
      BY <1>1, <1>2, <2>1, <3>1, JoinedPrefix
    <3>3. PICK c : c = SourceData \o r1
      OBVIOUS
    <3>4. /\ Followed(tree, From) = c /\ c \in Paths
          /\ tree[SourceData \o r] = begun[SourceData \o r]
          /\ r1 # r => tree[c].kind = "dir"
      BY <1>1, <1>3, <2>1, <3>2, <3>3 DEF Readable
    <3>5. tree[c].kind = "file"
      BY <1>2, <3>4, StatIs DEF Exists
    <3>6. r1 = r
      BY <3>4, <3>5
    <3>7. n = begun[SourceData \o r]
      BY <3>3, <3>4, <3>6
    <3>8. Followed(u, To) = Followed(tree, To)
      BY <1>2, FollowedSame DEF IsTree
    <3> QED
      BY <1>1, <3>6, <3>7, <3>8 DEF At
  <2> QED
    BY <2>2, <2>3
<1> QED
  BY <1>3 DEF Delivered

LEMMA MvCopySecure ==
  ASSUME Typed, Opened, Secure(tree), Phase, cmd.op = "mv",
         CopySkips \/ CopyDir \/ CopyParent \/ CopyOpens \/ CopyWrites
  PROVE  Secured
<1>1. /\ todo # << >>
      /\ (pc = "copy" /\ ~ Refused) \/ pc \in {"open", "write"}
      /\ IsTree(tree)
  BY DEF CopySkips, CopyDir, CopyParent, CopyOpens, CopyWrites, Typed
<1>2. /\ MvMoving(tree) /\ Resolved(tree) /\ Listed(todo) /\ Delivered(tree, todo)
      /\ source # Root /\ target # Root
  BY <1>1, MvWork
<1>3. ~ CopySkips
  BY DEF CopySkips, Skip
<1>4. ASSUME Steady, Widened(tree, tree')
      PROVE  MvMoving(tree') /\ Resolved(tree') /\ Delivered(tree', todo)
  BY <1>1, <1>2, <1>4, MvWidened, DeliveredWidened
<1>5. CASE CopyDir
  <2>1. /\ Steady /\ Widened(tree, tree') /\ IsTree(tree')
        /\ \/ pc' = "operand"
           \/ /\ pc' = "copy"
              /\ \E more : EntriesOf(Head(todo), more) /\ todo' = more \o Tail(todo)
    BY <1>5, CopyDirTyped DEF Continued
  <2>2. MvMoving(tree') /\ Resolved(tree') /\ Delivered(tree', todo)
    BY <1>4, <2>1
  <2>0. Readable(tree) /\ Readable(tree')
    BY <1>1, <1>2, <2>1, <2>2, MvReading
  <2>3. ASSUME NEW more, EntriesOf(Head(todo), more)
        PROVE  Listed(more \o Tail(todo)) /\ Delivered(tree', more \o Tail(todo))
    <3>1. Stat(tree, From).kind = "dir"
      BY <1>5 DEF CopyDir
    <3>2. Listed(more \o Tail(todo))
      BY <1>1, <1>2, <2>3, EntriesApart
    <3> QED
      BY <1>1, <1>2, <2>0, <2>1, <2>2, <2>3, <3>1, <3>2, DeliveredEntries
  <2>4. pc' = "operand" \/ (pc' = "copy" /\ Listed(todo') /\ Delivered(tree', todo'))
    BY <2>1, <2>3
  <2> QED
    BY <1>2, <2>1, <2>2, <2>4, MvStep
<1>6. CASE CopyParent
  <2>1. /\ Steady /\ Widened(tree, tree')
        /\ pc' = "operand" \/ (pc' = "open" /\ todo' = todo)
    BY <1>6, CopyParentTyped DEF Continued
  <2>2. MvMoving(tree') /\ Resolved(tree') /\ Delivered(tree', todo)
    BY <1>4, <2>1
  <2>3. CASE pc' = "operand"
    BY <1>2, <2>1, <2>2, <2>3, MvStep
  <2>4. CASE pc' = "open" /\ todo' = todo
    <3>1. Listed(todo') /\ Delivered(tree', todo')
      BY <1>2, <2>2, <2>4
    <3> QED
      BY <1>2, <2>1, <2>2, <2>4, <3>1, MvStep
  <2> QED
    BY <2>1, <2>3, <2>4
<1>7. PICK c : c = Followed(tree, To)
  OBVIOUS
<1>8. IsPrefix(TargetEntry, c)
  <2>1. PICK r1 \in AnyPath : To = target \o r1
    BY <1>1, <1>2, MvHead
  <2> QED
    BY <1>1, <1>2, <1>7, <2>1, Landing
<1>9. ASSUME NEW f, c \in Paths, Written(tree, tree', c, f)
      PROVE  /\ MvMoving(tree') /\ Resolved(tree') /\ SameLinks(tree, tree') /\ IsTree(tree')
             /\ \A q \in Paths : tree'[q] = IF q = c THEN f ELSE tree[q]
  <2>0. tree \in [Paths -> Node] /\ tree' = [tree EXCEPT ![c] = f]
    BY <1>1, <1>9 DEF IsTree, Written
  <2>1. \A q \in Paths : tree'[q] = IF q = c THEN f ELSE tree[q]
    BY <2>0
  <2>2. IsTree(tree')
    BY <1>9 DEF Written
  <2> QED
    BY <1>1, <1>2, <1>8, <1>9, <2>1, <2>2, MvWritten
<1>0. Readable(tree) /\ Straight(tree)
  BY <1>1, <1>2, MvReading
<1>10. CASE CopyOpens
  <2>1. /\ Steady
        /\ \/ pc' = "operand" /\ tree' = tree
           \/ pc' = "write" /\ todo' = todo /\ c \in Paths /\ Written(tree, tree', c, Torn)
    BY <1>7, <1>10, CopyOpensTyped DEF Continued
  <2>2. CASE pc' = "operand" /\ tree' = tree
    BY <1>2, <2>1, <2>2, MvStep
  <2>3. CASE pc' = "write" /\ todo' = todo /\ c \in Paths /\ Written(tree, tree', c, Torn)
    <3>1. /\ MvMoving(tree') /\ Resolved(tree') /\ SameLinks(tree, tree') /\ IsTree(tree')
          /\ \A q \in Paths : tree'[q] = IF q = c THEN Torn ELSE tree[q]
      BY <1>9, <2>3
    <3>2. ASSUME NEW r \in Paths, SourceData \o r \in Paths, Whole(begun[SourceData \o r]),
                 ~ InHand(todo, r)
          PROVE  At(tree', Followed(tree', target \o r)) = begun[SourceData \o r]
      BY <1>0, <1>1, <1>2, <1>7, <3>1, <3>2, PathIs, DeliveredWritten
    <3>3. Delivered(tree', todo)
      BY <3>2 DEF Delivered
    <3> QED
      BY <1>2, <2>1, <2>3, <3>1, <3>3, MvStep
  <2> QED
    BY <2>1, <2>2, <2>3
<1>11. CASE CopyWrites
  <2>1. /\ Steady
        /\ \/ pc' = "operand" /\ tree' = tree
           \/ /\ pc' = "copy" /\ todo' = Tail(todo) /\ c \in Paths
              /\ Written(tree, tree', c, tree[Followed(tree, From)])
    BY <1>7, <1>11, CopyWritesTyped DEF Continued
  <2>2. CASE pc' = "operand" /\ tree' = tree
    BY <1>2, <2>1, <2>2, MvStep
  <2>3. CASE /\ pc' = "copy" /\ todo' = Tail(todo) /\ c \in Paths
             /\ Written(tree, tree', c, tree[Followed(tree, From)])
    <3>1. PICK n : n = tree[Followed(tree, From)]
      OBVIOUS
    <3>2. /\ MvMoving(tree') /\ Resolved(tree') /\ SameLinks(tree, tree') /\ IsTree(tree')
          /\ \A q \in Paths : tree'[q] = IF q = c THEN n ELSE tree[q]
      BY <1>9, <2>3, <3>1
    <3>3. Stat(tree, From).kind = "file"
      BY <1>11 DEF Opened, CopyWrites
    <3>4. Delivered(tree', Tail(todo))
      BY <1>0, <1>1, <1>2, <1>7, <2>3, <3>1, <3>2, <3>3, DeliveredCopied
    <3>5. Listed(Tail(todo))
      BY <1>1, <1>2, ListedTail
    <3> QED
      BY <1>2, <2>1, <2>3, <3>2, <3>4, <3>5, MvStep
  <2> QED
    BY <2>1, <2>2, <2>3
<1> QED
  BY <1>3, <1>5, <1>6, <1>10, <1>11

-----------------------------------------------------------------------------
(* rmdir. *)

LEMMA NotRoot ==
  ASSUME NEW t, IsTree(t), Shallow(t), NEW p \in AnyPath, p # Root
  PROVE  Followed(t, p) # Root
<1>1. t \in [Paths -> Node]
  BY DEF IsTree
<1>2. PICK e : e = Named(t, p)
  OBVIOUS
<1>3. /\ e # Root /\ (At(t, e).kind = "link" => Followed(t, p) = At(t, e).of)
      /\ (At(t, e).kind # "link" => Followed(t, p) = e)
  BY <1>1, <1>2, NamedIs
<1>4. At(t, e).kind = "link" => At(t, e).of # Root
  BY <1>1, AtIs DEF Shallow, Exists
<1> QED
  BY <1>3, <1>4

\* An entry that is not in the working directory is not a link.
LEMMA DeepNamed ==
  ASSUME NEW t, IsTree(t), Shallow(t), NEW p \in AnyPath, Len(p) > 1
  PROVE  /\ Front(p) \in AnyPath /\ Front(p) # Root
         /\ At(t, Named(t, p)).kind # "link" /\ Followed(t, p) = Named(t, p)
         /\ Named(t, p) \in AnyPath /\ Front(Named(t, p)) = Followed(t, Front(p))
         /\ Named(t, p) # Root
<1>1. t \in [Paths -> Node] /\ p # Root
  BY PathParts DEF IsTree
<1>2. Front(p) \in AnyPath /\ Len(Front(p)) = Len(p) - 1 /\ Len(p) \in Nat
  BY <1>1, PathFront
<1>3. Front(p) # Root
  BY <1>2, PathParts
<1>4. Followed(t, Front(p)) # Root /\ Followed(t, Front(p)) \in AnyPath
  BY <1>1, <1>2, <1>3, NotRoot, FollowedType
<1>5. PICK e : e = Named(t, p)
  OBVIOUS
<1>6. /\ e \in AnyPath /\ e # Root /\ Front(e) = Followed(t, Front(p))
      /\ (At(t, e).kind # "link" => Followed(t, p) = e)
  BY <1>1, <1>5, NamedIs
<1>7. Len(e) # 1
  BY <1>4, <1>6, PathFront, PathParts
<1>8. At(t, e).kind # "link"
  BY <1>1, <1>7, AtIs DEF Shallow, Exists
<1> QED
  BY <1>2, <1>3, <1>5, <1>6, <1>8

LEMMA RmdirSecure ==
  ASSUME Typed, Secure(tree), Phase, Rmdir
  PROVE  Secured
<1>1. /\ cmd.op = "rmdir" /\ source # Root /\ target # Root
      /\ Rmdirs /\ Shallow(tree) /\ Shallow(begun)
      /\ IsTree(tree) /\ IsTree(begun) /\ source \in AnyPath /\ target \in AnyPath
      /\ tree \in [Paths -> Node] /\ begun \in [Paths -> Node]
  BY DEF Typed, Phase, Rmdir, Ops, Copying, IsTree
<1>2. Named(tree, target) = TargetEntry
  BY <1>1, FollowedSame DEF Rmdirs, TargetEntry
<1>3. TargetEntry \in AnyPath /\ TargetEntry # Root
  BY <1>1, Entries
<1>4. /\ cmd' = cmd /\ source' = source /\ begun' = begun
      /\ \/ pc' = "operand" /\ target' = target
         \/ /\ pc' = "rmdir" /\ Len(target) > 1 /\ target' = Front(target)
            /\ TargetEntry \in Paths /\ Exists(tree[TargetEntry])
            /\ Removed(tree, tree', TargetEntry)
      /\ tree' = tree \/ Removed(tree, tree', TargetEntry)
      /\ \A q \in Paths : q # TargetEntry => tree'[q] = tree[q]
  BY <1>2, RmdirTyped
<1>5. /\ IsTree(tree')
      /\ \A q \in Paths : tree'[q] = tree[q] \/ (q = TargetEntry /\ tree'[q] = Absent)
  BY <1>1, <1>4 DEF Removed
<1>6. Shallow(tree')
  BY <1>1, <1>5, ShallowKept, NodesAre
<1>7. ASSUME NEW q \in Paths
      PROVE  tree[q] = begun[q] \/ (tree[q] = Absent /\ (IsPrefix(SourceEntry, q) \/ begun[q].kind = "dir"))
  BY <1>1 DEF Rmdirs
<1>8. CASE pc' = "operand" /\ target' = target
  <2>1. Steady
    BY <1>4, <1>8 DEF Steady
  <2>2. IsPrefix(TargetEntry, TargetEntry)
    BY <1>3, PrefixOrder
  <2>3. Secure(tree')
    BY <1>1, <1>5, <1>7, <2>2 DEF Secure, Copying
  <2> QED
    BY <1>1, <1>6, <1>8, <2>1, <2>3, SettledNext
<1>9. CASE /\ pc' = "rmdir" /\ Len(target) > 1 /\ target' = Front(target)
           /\ TargetEntry \in Paths /\ Exists(tree[TargetEntry])
           /\ Removed(tree, tree', TargetEntry)
  <2>1. tree[TargetEntry] = begun[TargetEntry]
    BY <1>7, <1>9, NodesAre DEF Exists
  <2>2. /\ Front(target) \in AnyPath /\ Front(target) # Root
        /\ At(begun, TargetEntry).kind # "link"
        /\ Front(TargetEntry) = Followed(begun, Front(target))
    BY <1>1, <1>9, DeepNamed DEF TargetEntry
  <2>3. begun[TargetEntry].kind # "link"
    BY <1>9, <2>2 DEF At
  <2>4. IsPrefix(SourceEntry, TargetEntry) \/ begun[TargetEntry].kind = "dir"
    <3>1. CASE target = source
      BY <1>3, <3>1, PrefixOrder DEF SourceEntry, TargetEntry
    <3>2. CASE target # source
      BY <1>1, <1>9, <3>2 DEF Rmdirs, At
    <3> QED
      BY <3>1, <3>2
  <2>5. \A q \in Paths : \/ tree'[q] = begun[q]
                         \/ tree'[q] = Absent /\ (IsPrefix(SourceEntry, q) \/ begun[q].kind = "dir")
    BY <1>5, <1>7, <2>4
  <2>6. SameLinks(begun, tree')
    BY <1>1, <1>5, <2>3, NodesAre DEF Rmdirs, SameLinks, SameLink
  <2>7. IsPrefix(target', source) /\ target' # source
    <3>1. /\ Len(Front(target)) = Len(target) - 1 /\ IsPrefix(Front(target), target)
          /\ Len(target) \in Nat
      BY <1>1, PathFront
    <3>2. IsPrefix(target, source)
      BY <1>1 DEF Rmdirs
    <3>3. Len(target) <= Len(source)
      BY <1>1, <3>2, PrefixIs
    <3>4. IsPrefix(Front(target), source)
      BY <1>1, <2>2, <3>1, <3>2, PrefixOrder
    <3> QED
      BY <1>9, <3>1, <3>3, <3>4
  <2>8. At(begun, Named(begun, target')).kind = "dir" \/ ~ (Len(target') > 1)
    <3>1. SUFFICES ASSUME Len(Front(target)) > 1
                   PROVE  At(begun, Named(begun, Front(target))).kind = "dir"
      BY <1>9
    <3>2. Followed(begun, Front(target)) = Named(begun, Front(target))
      BY <1>1, <2>2, <3>1, DeepNamed
    <3>3. Front(TargetEntry) \in Paths /\ begun[Front(TargetEntry)].kind = "dir"
      BY <1>1, <1>3, <1>9, <2>1, ParentIsDir
    <3> QED
      BY <2>2, <3>2, <3>3 DEF At
  <2>9. SourceEntry' = SourceEntry
    BY <1>4 DEF SourceEntry
  <2>10. TargetEntry' = Named(begun, target')
    BY <1>4 DEF TargetEntry
  <2>11. Rmdirs'
    BY <1>4, <2>5, <2>6, <2>7, <2>8, <2>9, <2>10 DEF Rmdirs
  <2>12. Secure(tree)'
    BY <1>1, <1>4, <2>5, <2>9 DEF Secure, Copying
  <2>13. Phase'
    BY <1>1, <1>4, <1>6, <1>9, <2>11 DEF Phase
  <2> QED
    BY <2>12, <2>13 DEF Secured
<1> QED
  BY <1>4, <1>8, <1>9

-----------------------------------------------------------------------------
(* The beginning of an operand. *)

LEMMA SecureBegunNext == Secure(begun)'
BY SecureBegun, PTL

LEMMA NextOperandSecure ==
  ASSUME Aliasing = FALSE, Typed, Secure(tree), Phase, NextOperand
  PROVE  Secured
<1>1. /\ Typed' /\ source' # Root /\ target' # Root /\ tree' = tree /\ begun' = tree
      /\ cmd' = cmd /\ pc' \in {"copy"} \cup Ops /\ pc' \notin {"open", "write"}
  BY NextOperandTyped
<1>2. /\ cmd.op \notin Copying => source' = target'
      /\ cmd.op \in Copying => ~ Alias(tree, cmd.op, source', target')
      /\ IF cmd.op = "cp"
         THEN todo' = <<[from |-> source', to |-> target']>> /\ pc' = "copy"
         ELSE pc' = cmd.op
  BY DEF NextOperand
<1>3. Secure(tree)'
  BY <1>1, SecureBegunNext DEF Secure
<1>4. /\ SourceEntry' = Named(tree, source') /\ SourceData' = Followed(tree, source')
      /\ TargetEntry' = Named(tree, target') /\ TargetData' = Followed(tree, target')
  BY <1>1 DEF SourceEntry, SourceData, TargetEntry, TargetData
<1>5. source' \in AnyPath /\ target' \in AnyPath /\ cmd.op \in Ops
  BY <1>1 DEF Typed
<1>6. cmd.op # "mv" => Shallow(tree') /\ Shallow(begun')
  BY <1>1 DEF Phase
<1>7. SameLinks(begun', tree')
  BY <1>1 DEF SameLinks, SameLink
<1>8. CASE cmd.op = "cp"
  <2>1. \/ source' = target' \/ (IsPrefix(source', target') /\ Stat(tree, source').kind = "dir")
        \/ Apart(SourceData', TargetData')
    BY <1>2, <1>4, <1>8 DEF Alias, Apart, Copying
  <2>2. IsPrefix(target', todo'[1].to) /\ Len(todo') = 1
    BY <1>2, <1>5, <1>8, PrefixOrder
  <2>3. Outside(tree, TargetData)'
    BY <1>1 DEF Outside
  <2>4. CpCopying(tree, todo, pc)'
    <3>1. CASE Apart(SourceData', TargetData')
      BY <1>1, <1>7, <2>2, <2>3, <3>1 DEF CpCopying
    <3>2. CASE source' = target' \/ (IsPrefix(source', target') /\ Stat(tree, source').kind = "dir")
      BY <1>1, <1>2, <1>8, <3>2 DEF CpCopying
    <3> QED
      BY <2>1, <3>1, <3>2
  <2>5. Phase'
    BY <1>1, <1>2, <1>6, <1>8, <2>4 DEF Phase
  <2> QED
    BY <1>3, <2>5 DEF Secured
<1>9. CASE cmd.op = "mv"
  <2>1. \/ source' = target' \/ (IsPrefix(source', target') /\ Stat(tree, source').kind = "dir")
        \/ Apart(SourceEntry', TargetEntry') /\ Apart(SourceData', TargetEntry')
    BY <1>2, <1>4, <1>9 DEF Alias, Apart, Copying
  <2>2. Phase'
    BY <1>1, <1>2, <1>9, <2>1 DEF Phase
  <2> QED
    BY <1>3, <2>2 DEF Secured
<1>10. CASE cmd.op \notin Copying
  <2>1. Rmdirs'
    BY <1>1, <1>2, <1>5, <1>7, <1>10, PrefixOrder DEF Rmdirs
  <2>2. pc' \in {"mkdir", "rmdir", "rm", "touch"}
    BY <1>2, <1>5, <1>10 DEF Ops, Copying
  <2>3. tree' = begun' /\ source' = target'
    BY <1>1, <1>2, <1>10
  <2>4. Phase'
    BY <1>1, <1>6, <1>10, <2>1, <2>2, <2>3 DEF Phase, Copying
  <2> QED
    BY <1>3, <2>4 DEF Secured
<1> QED
  BY <1>8, <1>9, <1>10 DEF Copying

-----------------------------------------------------------------------------
(* The theorems on what survives. *)

LEMMA InitShallow == Init => Shallow(tree)
<1> SUFFICES ASSUME Init PROVE Shallow(tree)
  OBVIOUS
<1>1. PICK S \in SUBSET (Paths \ {Root}) :
        \E F \in SUBSET {p \in S : Children([q \in Paths |-> IF q \in S THEN Dir ELSE Absent], p) = {}},
           L \in {{}} \cup {{<<n>>} : n \in Names}, n \in Names :
          /\ L \subseteq F /\ <<n>> \notin L
          /\ L = {} => n = CHOOSE m \in Names : TRUE
          /\ tree = [p \in Paths |-> IF p \in L THEN Link(<<n>>)
                                     ELSE IF p \in F THEN File(p)
                                     ELSE IF p \in S \cup {Root} THEN Dir ELSE Absent]
  BY Zenon DEF Init
<1>2. PICK F \in SUBSET {p \in S : Children([q \in Paths |-> IF q \in S THEN Dir ELSE Absent], p) = {}},
           L \in {{}} \cup {{<<n>>} : n \in Names}, n \in Names :
          /\ L \subseteq F /\ <<n>> \notin L
          /\ L = {} => n = CHOOSE m \in Names : TRUE
          /\ tree = [p \in Paths |-> IF p \in L THEN Link(<<n>>)
                                     ELSE IF p \in F THEN File(p)
                                     ELSE IF p \in S \cup {Root} THEN Dir ELSE Absent]
  BY <1>1
<1>3. ASSUME NEW q \in Paths, tree[q].kind = "link" PROVE Len(q) = 1 /\ tree[q].of # Root
  <2>1. q \in L /\ tree[q] = Link(<<n>>)
    BY <1>2, <1>3, NodesAre
  <2>2. <<n>> \in Paths /\ <<n>> # Root
    BY <1>2, OneName
  <2>3. Len(q) = 1
    BY <1>2, <2>1, OneName
  <2> QED
    BY <2>1, <2>2, <2>3, NodesAre
<1> QED
  BY <1>3 DEF Shallow

LEMMA PhaseInit == Init => Secure(tree) /\ Phase
<1> SUFFICES ASSUME Init PROVE Secure(tree) /\ Phase
  OBVIOUS
<1>1. tree = begun /\ pc = "begin"
  BY Zenon DEF Init
<1>2. Shallow(tree)
  BY InitShallow
<1> QED
  BY <1>1, <1>2, SecureBegun DEF Phase, Ops, Copying

LEMMA SecureNextStep ==
  ASSUME Aliasing = FALSE
  PROVE  IInv /\ [Next]_vars => IInv'
<1> SUFFICES ASSUME IInv, [Next]_vars PROVE IInv'
  OBVIOUS
<1>1. Typed /\ Opened /\ Secure(tree) /\ Phase
  BY DEF IInv
<1>2. Typed' /\ Opened'
  BY <1>1, TypedNext
<1>3. CASE Begin \/ LastOperand \/ MvStops \/ CopyStops
  BY <1>1, <1>2, <1>3, BeginSecure DEF IInv, Secured
<1>4. CASE MvClears
  BY <1>1, <1>2, <1>4, MvClearsSecure DEF IInv, Secured
<1>5. CASE MvRenames
  BY <1>1, <1>2, <1>5, MvRenamesSecure DEF IInv, Secured
<1>6. CASE MvUnlinks
  BY <1>1, <1>2, <1>6, MvUnlinksSecure DEF IInv, Secured
<1>7. CASE CopyEnds
  BY <1>1, <1>2, <1>7, CopyEndsSecure DEF IInv, Secured
<1>8. CASE CopySkips \/ CopyDir \/ CopyParent \/ CopyOpens \/ CopyWrites
  <2>1. cmd.op \in {"cp", "mv"}
    BY <1>1, <1>8 DEF Typed, Copying, CopySkips, CopyDir, CopyParent, CopyOpens, CopyWrites
  <2>2. Secured
    BY <1>1, <1>8, <2>1, CpCopySecure, MvCopySecure
  <2> QED
    BY <1>2, <2>2 DEF IInv, Secured
<1>9. CASE Rm
  BY <1>1, <1>2, <1>9, RmSecure DEF IInv, Secured
<1>10. CASE Mkdir
  BY <1>1, <1>2, <1>10, MkdirSecure DEF IInv, Secured
<1>11. CASE Rmdir
  BY <1>1, <1>2, <1>11, RmdirSecure DEF IInv, Secured
<1>12. CASE Touch
  BY <1>1, <1>2, <1>12, TouchSecure DEF IInv, Secured
<1>13. CASE NextOperand
  BY <1>1, <1>2, <1>13, NextOperandSecure DEF IInv, Secured
<1>14. CASE UNCHANGED vars
  <2>1. Secure(tree)'
    BY <1>1, <1>14, SecureNext DEF vars, Steady
  <2>2. /\ Steady /\ pc' = pc /\ tree' = tree /\ todo' = todo /\ cmd' = cmd
        /\ begun' = begun /\ source' = source /\ target' = target
    BY <1>14 DEF vars, Steady
  <2>3. Phase'
    <3>1. /\ SourceEntry' = SourceEntry /\ SourceData' = SourceData
          /\ TargetEntry' = TargetEntry
      BY <2>2 DEF SourceEntry, SourceData, TargetEntry
    <3>2. Rmdirs => Rmdirs'
      BY <2>2, <3>1 DEF Rmdirs
    <3>3. /\ MvMoving(tree) => MvMoving(tree)'
          /\ NoneBelow(tree, TargetEntry) => NoneBelow(tree, TargetEntry)'
          /\ Resolved(tree) => Resolved(tree)'
      BY <2>2, MovingNext
    <3>4. /\ MvCopying(tree, todo, pc) => MvCopying(tree, todo, pc)'
          /\ Delivered(tree, << >>) => Delivered(tree, << >>)'
          /\ CpCopying(tree, todo, pc) => CpCopying(tree, todo, pc)'
      BY <2>2, CopyingNext
    <3> QED
      BY <1>1, <2>2, <3>1, <3>2, <3>3, <3>4 DEF Phase
  <2> QED
    BY <1>2, <2>1, <2>3 DEF IInv
<1> QED
  BY <1>3, <1>4, <1>5, <1>6, <1>7, <1>8, <1>9, <1>10, <1>11, <1>12, <1>13, <1>14
     DEF Next, Terminated

\* When cp and mv are not given the same file twice, the inductive invariant
\* holds throughout.
THEOREM Invariance ==
  ASSUME Aliasing = FALSE
  PROVE  Spec => []IInv
<1>1. Init => IInv
  BY TypedInit, PhaseInit DEF IInv
<1>2. IInv /\ [Next]_vars => IInv'
  BY SecureNextStep
<1> QED
  BY <1>1, <1>2, PTL DEF Spec

LEMMA SecureIs ==
  ASSUME Typed, Secure(tree)
  PROVE  OperandSurvives /\ NoClobberLosesNothing /\ NothingElseTouched
<1>1. OperandSurvives
  BY DEF Secure, OperandSurvives, CopyLeavesSource, Survives, SourceEntry, SourceData
<1>2. NoClobberLosesNothing
  BY DEF Secure, NoClobberLosesNothing, Survives
<1>3. NothingElseTouched
  BY DEF Secure, NothingElseTouched, SourceEntry, TargetEntry, TargetData
<1> QED
  BY <1>1, <1>2, <1>3

\* mv leaves each file it was to move whole somewhere, and cp leaves its sources
\* alone, whichever of their calls fails and whenever the program dies.
THEOREM OperandSafe ==
  ASSUME Aliasing = FALSE
  PROVE  Spec => []OperandSurvives
<1>1. IInv => OperandSurvives
  BY SecureIs DEF IInv
<1> QED
  BY <1>1, Invariance, PTL

\* With -n cp and mv lose no file, the destination's included.
THEOREM NothingClobbered ==
  ASSUME Aliasing = FALSE
  PROVE  Spec => []NoClobberLosesNothing
<1>1. IInv => NoClobberLosesNothing
  BY SecureIs DEF IInv
<1> QED
  BY <1>1, Invariance, PTL

\* No command changes a file or a link outside of its operands and the place it
\* copies or moves them to: rm, mv and rmdir act on links, not behind them.
THEOREM NothingElse ==
  ASSUME Aliasing = FALSE
  PROVE  Spec => []NothingElseTouched
<1>1. IInv => NothingElseTouched
  BY SecureIs DEF IInv
<1> QED
  BY <1>1, Invariance, PTL

-----------------------------------------------------------------------------
(* Where mv puts what it moves. *)

\* A destination of whose names only the first may be a link.
Home(t, d) == IF d = Root THEN Root ELSE Followed(t, <<d[1]>>) \o Tail(d)

\* Links lie in the working directory, or deeper than k names.
LinksOff(t, k) ==
  \A q \in Paths : t[q].kind = "link" => t[q].of # Root /\ (Len(q) = 1 \/ Len(q) > k)

LEMMA FirstName ==
  ASSUME NEW p \in AnyPath, p # Root
  PROVE  /\ p[1] \in Names /\ <<p[1]>> \in AnyPath /\ <<p[1]>> \in Paths /\ Len(<<p[1]>>) = 1
         /\ <<p[1]>> # Root /\ Tail(p) \in AnyPath /\ Len(Tail(p)) = Len(p) - 1
         /\ p = <<p[1]>> \o Tail(p) /\ Len(p) \in Nat \ {0}
<1>1. p \in Seq(Names) /\ Len(p) \in Nat \ {0} /\ p[1] \in Names
  BY PathParts DEF AnyPath
<1>2. /\ <<p[1]>> \in AnyPath /\ <<p[1]>> \in Paths /\ Len(<<p[1]>>) = 1 /\ <<p[1]>> # Root
  BY <1>1, OneName
<1>3. /\ Tail(p) \in Seq(Names) /\ Len(Tail(p)) = Len(p) - 1
      /\ \A i \in 1..(Len(p) - 1) : Tail(p)[i] = p[i + 1]
  BY <1>1
<1>4. p = <<p[1]>> \o Tail(p)
  <2>1. PICK a : a = <<p[1]>>
    OBVIOUS
  <2>2. PICK b : b = Tail(p)
    OBVIOUS
  <2>3. PICK c : c = a \o b
    OBVIOUS
  <2>4. a \in Seq(Names) /\ b \in Seq(Names) /\ Len(a) = 1 /\ a[1] = p[1]
    BY <1>1, <1>2, <1>3, <2>1, <2>2 DEF AnyPath
  <2>5. /\ c \in Seq(Names) /\ Len(c) = Len(a) + Len(b)
        /\ \A i \in 1..Len(a) + Len(b) : c[i] = IF i <= Len(a) THEN a[i] ELSE b[i - Len(a)]
    BY <2>3, <2>4, ConcatProperties
  <2>6. ASSUME NEW i \in 1..Len(p) PROVE c[i] = p[i]
    <3>1. i \in 1..Len(a) + Len(b)
      BY <1>1, <1>3, <2>2, <2>4
    <3>2. CASE i = 1
      BY <2>4, <2>5, <3>1, <3>2
    <3>3. CASE i # 1
      <4>1. i - 1 \in 1..(Len(p) - 1) /\ (i - 1) + 1 = i /\ ~ (i <= 1)
        BY <1>1, <3>3
      <4>2. c[i] = b[i - 1]
        BY <2>4, <2>5, <3>1, <4>1
      <4> QED
        BY <1>3, <2>2, <4>1, <4>2
    <3> QED
      BY <3>2, <3>3
  <2>7. Len(c) = Len(p)
    BY <1>1, <1>3, <2>2, <2>4, <2>5
  <2> QED
    BY <1>1, <2>1, <2>2, <2>3, <2>5, <2>6, <2>7, SeqEqual
<1> QED
  BY <1>1, <1>2, <1>3, <1>4 DEF AnyPath

LEMMA OneNameLeads ==
  ASSUME NEW t \in [Paths -> Node], NEW x \in AnyPath, Len(x) = 1
  PROVE  /\ x \in Paths /\ x # Root /\ Named(t, x) = x /\ Followed(t, x) \in AnyPath
         /\ t[x].kind = "link" => Followed(t, x) = t[x].of
         /\ t[x].kind # "link" => Followed(t, x) = x
<1>1. x # Root
  BY RootIsPath
<1>2. x \in Paths
  <2>1. Len(x) <= MaxDepth
    BY DepthAssumption
  <2> QED
    BY <2>1, PathIs
<1>3. Front(x) = Root
  BY <1>1, PathFront, PathParts
<1>4. Append(Front(x), Last(x)) = x
  BY <1>1, PathFront
<1>5. Followed(t, Front(x)) = Root
  BY <1>3, FollowedRoot
<1>6. PICK e : e = Named(t, x)
  OBVIOUS
<1>7. e = x
  <2>1. e = Append(Followed(t, Front(x)), Last(x))
    BY <1>1, <1>6, NamedIs
  <2> QED
    BY <1>3, <1>4, <1>5, <2>1
<1>8. At(t, x) = t[x]
  BY <1>2 DEF At
<1>9. ASSUME t[x].kind = "link" PROVE Followed(t, x) = t[x].of
  <2>1. At(t, Named(t, x)).kind = "link"
    BY <1>6, <1>7, <1>8, <1>9
  <2>2. Followed(t, x) = At(t, Named(t, x)).of
    BY <1>1, <2>1, NamedIs
  <2> QED
    BY <1>6, <1>7, <1>8, <2>2
<1>10. ASSUME t[x].kind # "link" PROVE Followed(t, x) = x
  <2>1. At(t, Named(t, x)).kind # "link"
    BY <1>6, <1>7, <1>8, <1>10
  <2>2. Followed(t, x) = Named(t, x)
    BY <1>1, <2>1, NamedIs
  <2> QED
    BY <1>6, <1>7, <2>2
<1>11. Followed(t, x) \in AnyPath
  BY FollowedType
<1> QED
  BY <1>1, <1>2, <1>6, <1>7, <1>9, <1>10, <1>11

LEMMA HomeIs ==
  ASSUME NEW t \in [Paths -> Node], NEW d \in AnyPath, NEW h, h = Home(t, d),
         LinksOff(t, Len(h))
  PROVE  /\ h \in AnyPath /\ Followed(t, d) = h /\ Len(h) >= Len(d) /\ Len(d) \in Nat
         /\ d # Root => IsPrefix(Followed(t, <<d[1]>>), h)
<1>1. CASE d = Root
  BY <1>1, RootIsPath, FollowedRoot DEF Home
<1>2. CASE d # Root
  <2>1. PICK x : x = <<d[1]>>
    OBVIOUS
  <2>2. PICK r : r = Tail(d)
    OBVIOUS
  <2>3. /\ x \in AnyPath /\ Len(x) = 1 /\ r \in AnyPath /\ Len(r) = Len(d) - 1
        /\ d = x \o r /\ Len(d) \in Nat \ {0} /\ x \in Paths
    BY <1>2, <2>1, <2>2, FirstName
  <2>4. PICK e : e = Followed(t, x)
    OBVIOUS
  <2>5. e \in AnyPath /\ e # Root
    <3>1. x # Root /\ e \in AnyPath
      BY <2>3, <2>4, OneNameLeads
    <3>2. CASE t[x].kind = "link"
      <4>1. e = t[x].of
        BY <2>3, <2>4, <3>2, OneNameLeads
      <4> QED
        BY <2>3, <3>1, <3>2, <4>1 DEF LinksOff
    <3>3. CASE t[x].kind # "link"
      BY <2>3, <2>4, <3>1, <3>3, OneNameLeads
    <3> QED
      BY <3>1, <3>2, <3>3
  <2>7. h = e \o r
    BY <1>2, <2>1, <2>2, <2>4 DEF Home
  <2>8. Len(e) \in Nat \ {0}
    BY <2>5, PathParts
  <2>9. h \in AnyPath /\ Len(h) = Len(e) + Len(r) /\ IsPrefix(e, h)
    <3>1. e \o r \in AnyPath /\ Len(e \o r) = Len(e) + Len(r) /\ IsPrefix(e, e \o r)
      BY <2>3, <2>5, Joined
    <3> QED
      BY <2>7, <3>1
  <2>10. ASSUME NEW s \in AnyPath, IsPrefix(s, r), s # Root
         PROVE  At(t, e \o s).kind # "link"
    <3>1. PICK c : c = e \o s
      OBVIOUS
    <3>2. Len(c) = Len(e) + Len(s)
      BY <2>5, <2>10, <3>1, Joined
    <3>3. Len(s) \in Nat \ {0} /\ Len(r) \in Nat /\ Len(s) <= Len(r)
      BY <2>3, <2>10, PathParts, PrefixIs
    <3>4. Len(c) # 1 /\ ~ (Len(c) > Len(h))
      BY <2>8, <2>9, <3>2, <3>3
    <3>5. At(t, c).kind # "link"
      BY <3>4, AtIs DEF LinksOff, Exists
    <3> QED
      BY <3>1, <3>5
  <2>11. Followed(t, x \o r) = e \o r
    BY <2>3, <2>4, <2>10, FollowedDown
  <2>12. Len(h) >= Len(d) /\ Len(d) \in Nat
    BY <2>3, <2>8, <2>9
  <2>13. Followed(t, d) = h
    BY <2>3, <2>7, <2>11
  <2>14. IsPrefix(Followed(t, <<d[1]>>), h)
    BY <2>1, <2>4, <2>9
  <2> QED
    BY <2>9, <2>12, <2>13, <2>14
<1> QED
  BY <1>1, <1>2

\* The same home, if its first name is the same.
LEMMA HomeSame ==
  ASSUME NEW t \in [Paths -> Node], NEW u \in [Paths -> Node], NEW d \in AnyPath,
         d # Root => SameLink(t[<<d[1]>>], u[<<d[1]>>])
  PROVE  Home(t, d) = Home(u, d)
<1>1. CASE d = Root
  BY <1>1 DEF Home
<1>2. CASE d # Root
  <2>1. PICK x : x = <<d[1]>>
    OBVIOUS
  <2>2. x \in AnyPath /\ Len(x) = 1
    BY <1>2, <2>1, FirstName
  <2>3. SameLink(t[x], u[x])
    BY <1>2, <2>1
  <2>4. Followed(t, x) = Followed(u, x)
    BY <2>2, <2>3, OneNameLeads DEF SameLink
  <2> QED
    BY <1>2, <2>1, <2>4 DEF Home
<1> QED
  BY <1>1, <1>2

\* Links lie in the working directory, or in the directory mv moves to.
DestLinks(t) ==
  \A q \in Paths : t[q].kind = "link" =>
    /\ t[q].of # Root
    /\ Len(q) = 1 \/ (destDir /\ q # Root /\ Front(q) = Home(t, cmd.dest))

\* mv has an operand in hand.
MvHand ==
  /\ Typed /\ source # Root /\ target # Root /\ cmd.op = "mv"
  /\ DestLinks(begun)
  /\ target = IF destDir THEN Append(cmd.dest, Last(source)) ELSE cmd.dest

\* The directory the target is in.
TargetHome == Home(begun, Front(target))

LEMMA Homes ==
  ASSUME MvHand
  PROVE  /\ Front(target) \in AnyPath /\ TargetHome \in AnyPath
         /\ destDir => Front(target) = cmd.dest
         /\ LinksOff(begun, Len(TargetHome))
         /\ TargetEntry # Root /\ Front(TargetEntry) = TargetHome
         /\ Len(TargetEntry) = Len(TargetHome) + 1
         /\ TargetEntry = Append(TargetHome, Last(target))
         /\ Len(TargetHome) \in Nat /\ Len(TargetHome) >= Len(Front(target))
         /\ Len(Front(target)) \in Nat
         /\ Front(target) # Root =>
              IsPrefix(Followed(begun, <<Front(target)[1]>>), TargetHome)
<1>1. /\ source \in AnyPath /\ source # Root /\ target \in AnyPath /\ target # Root
      /\ cmd.dest \in AnyPath /\ begun \in [Paths -> Node]
  BY DEF MvHand, Typed, IsTree
<1>2. PICK d : d = Front(target)
  OBVIOUS
<1>3. PICK h : h = Home(begun, d)
  OBVIOUS
<1>4. d \in AnyPath
  BY <1>1, <1>2, PathFront
<1>5. ASSUME destDir PROVE d = cmd.dest
  <2>1. target = Append(cmd.dest, Last(source)) /\ Last(source) \in Names
    BY <1>1, <1>5, PathFront DEF MvHand
  <2> QED
    BY <1>1, <1>2, <2>1, PathAppend
<1>6. LinksOff(begun, Len(h))
  <2> SUFFICES ASSUME NEW q \in Paths, begun[q].kind = "link"
               PROVE  begun[q].of # Root /\ (Len(q) = 1 \/ Len(q) > Len(h))
    BY DEF LinksOff
  <2>1. begun[q].of # Root
    BY DEF MvHand, DestLinks
  <2>2. CASE Len(q) = 1
    BY <2>1, <2>2
  <2>3. CASE Len(q) # 1
    <3>1. destDir /\ q # Root /\ Front(q) = Home(begun, cmd.dest)
      BY <2>3 DEF MvHand, DestLinks
    <3>2. Front(q) = h /\ q \in AnyPath
      BY <1>3, <1>5, <3>1, PathIs
    <3>3. Len(h) = Len(q) - 1 /\ Len(q) \in Nat
      BY <3>1, <3>2, PathFront
    <3> QED
      BY <2>1, <3>3
  <2> QED
    BY <2>2, <2>3
<1>7. /\ h \in AnyPath /\ Followed(begun, d) = h /\ Len(h) >= Len(d) /\ Len(d) \in Nat
      /\ d # Root => IsPrefix(Followed(begun, <<d[1]>>), h)
  BY <1>1, <1>3, <1>4, <1>6, HomeIs
<1>8. PICK n : n = Last(target)
  OBVIOUS
<1>9. n \in Names
  BY <1>1, <1>8, PathFront
<1>10. TargetEntry = Append(h, n)
  BY <1>1, <1>2, <1>7, <1>8, NamedIs DEF TargetEntry
<1>11. TargetEntry # Root /\ Front(TargetEntry) = h /\ Len(TargetEntry) = Len(h) + 1
  BY <1>7, <1>9, <1>10, PathAppend
<1>12. Len(h) \in Nat
  BY <1>7, PathParts
<1>13. TargetHome = h
  BY <1>2, <1>3 DEF TargetHome
<1>14. d # Root => IsPrefix(Followed(begun, <<d[1]>>), h)
  BY <1>7
<1>15. Front(target) # Root => IsPrefix(Followed(begun, <<Front(target)[1]>>), TargetHome)
  BY <1>2, <1>13, <1>14
<1>16. destDir => Front(target) = cmd.dest
  BY <1>2, <1>5
<1> QED
  BY <1>2, <1>4, <1>6, <1>7, <1>8, <1>10, <1>11, <1>12, <1>13, <1>15, <1>16

\* Of u only what lies at the two entries and below them is new, but for
\* directories.
Around(u) ==
  /\ IsTree(u)
  /\ \A q \in Paths : \/ IsPrefix(SourceEntry, q) \/ IsPrefix(TargetEntry, q)
                      \/ SameLink(begun[q], u[q])

Separate == Apart(SourceEntry, TargetEntry) /\ Apart(SourceData, TargetEntry)

LEMMA OneNameAbove ==
  ASSUME NEW a \in AnyPath, a # Root, NEW x \in AnyPath, Len(x) = 1, IsPrefix(a, x)
  PROVE  a = x
<1>1. x # Root
  BY RootIsPath
<1>2. Front(x) = Root
  BY <1>1, PathFront, PathParts
<1>3. ASSUME a # x PROVE FALSE
  <2>1. IsPrefix(a, Root)
    BY <1>2, <1>3, PrefixFront
  <2> QED
    BY <2>1, RootIsPath, PrefixOrder
<1> QED
  BY <1>3

LEMMA HomeStays ==
  ASSUME MvHand, Separate, NEW u, Around(u)
  PROVE  Home(u, Front(target)) = TargetHome
<1>1. PICK d : d = Front(target)
  OBVIOUS
<1>2. PICK h : h = TargetHome
  OBVIOUS
<1>3. PICK b : b = TargetEntry
  OBVIOUS
<1>4. /\ d \in AnyPath /\ h \in AnyPath /\ Len(h) \in Nat /\ Len(h) >= Len(d)
      /\ b # Root /\ Front(b) = h /\ Len(b) = Len(h) + 1 /\ Len(d) \in Nat
  BY <1>1, <1>2, <1>3, Homes
<1>5. /\ source \in AnyPath /\ source # Root /\ begun \in [Paths -> Node] /\ Typed
      /\ u \in [Paths -> Node] /\ target # Root
  BY DEF MvHand, Typed, Around, IsTree
<1>6. b \in AnyPath /\ SourceEntry \in AnyPath /\ SourceData \in AnyPath /\ SourceEntry # Root
  BY <1>3, <1>5, Entries
<1>7. ASSUME d # Root PROVE SameLink(begun[<<d[1]>>], u[<<d[1]>>])
  <2>1. PICK x : x = <<d[1]>>
    OBVIOUS
  <2>2. x \in AnyPath /\ x \in Paths /\ Len(x) = 1 /\ Len(d) \in Nat \ {0}
    BY <1>4, <1>7, <2>1, FirstName
  <2>3. ~ IsPrefix(b, x)
    <3>1. ~ (Len(b) <= Len(x))
      BY <1>4, <2>2
    <3> QED
      BY <1>6, <2>2, <3>1, PrefixIs
  <2>4. ASSUME IsPrefix(SourceEntry, x) PROVE FALSE
    <3>1. PICK a : a = SourceEntry
      OBVIOUS
    <3>2. a = x
      BY <1>6, <2>2, <2>4, <3>1, OneNameAbove
    <3>3. PICK e : e = Followed(begun, x)
      OBVIOUS
    <3>4. At(begun, x) = begun[x] /\ a = Named(begun, source)
      BY <2>2, <3>1 DEF At, SourceEntry
    <3>5. e = SourceData
      <4>1. CASE begun[x].kind = "link"
        <5>1. e = begun[x].of
          BY <1>5, <2>2, <3>3, <4>1, OneNameLeads
        <5>2. At(begun, Named(begun, source)).kind = "link"
          BY <3>2, <3>4, <4>1
        <5>3. SourceData = At(begun, Named(begun, source)).of
          BY <1>5, <5>2, NamedIs DEF SourceData
        <5> QED
          BY <3>2, <3>4, <5>1, <5>3
      <4>2. CASE begun[x].kind # "link"
        <5>1. e = x
          BY <1>5, <2>2, <3>3, <4>2, OneNameLeads
        <5>2. At(begun, Named(begun, source)).kind # "link"
          BY <3>2, <3>4, <4>2
        <5>3. SourceData = Named(begun, source)
          BY <1>5, <5>2, NamedIs DEF SourceData
        <5> QED
          BY <3>2, <3>4, <5>1, <5>3
      <4> QED
        BY <4>1, <4>2
    <3>6. IsPrefix(e, h)
      BY <1>1, <1>2, <1>7, <2>1, <3>3, Homes
    <3>7. IsPrefix(h, b)
      BY <1>4, <1>6, PathFront
    <3>8. IsPrefix(SourceData, b)
      BY <1>4, <1>6, <3>5, <3>6, <3>7, PrefixOrder
    <3> QED
      BY <1>3, <3>8 DEF Separate, Apart
  <2> QED
    BY <1>3, <2>1, <2>2, <2>3, <2>4 DEF Around
<1> QED
  BY <1>1, <1>4, <1>5, <1>7, HomeSame DEF TargetHome

\* No link is new but one at the target's entry.
NoNewLinks(u) ==
  \A q \in Paths : u[q].kind = "link" =>
    u[q] = begun[q] \/ (q = TargetEntry /\ u[q].of # Root)

LEMMA LinksStay ==
  ASSUME MvHand, Separate, NEW u, Around(u), NoNewLinks(u)
  PROVE  /\ destDir => DestLinks(u)
         /\ Named(u, target) = TargetEntry
<1>1. PICK d : d = Front(target)
  OBVIOUS
<1>2. PICK h : h = Home(u, d)
  OBVIOUS
<1>3. h = TargetHome
  BY <1>1, <1>2, HomeStays
<1>4. /\ d \in AnyPath /\ h \in AnyPath /\ Len(h) \in Nat
      /\ TargetEntry # Root /\ Front(TargetEntry) = h /\ Len(TargetEntry) = Len(h) + 1
      /\ TargetEntry = Append(h, Last(target))
      /\ LinksOff(begun, Len(h))
  BY <1>1, <1>3, Homes
<1>5. u \in [Paths -> Node] /\ target \in AnyPath /\ target # Root
  BY DEF Around, IsTree, MvHand, Typed
<1>6. LinksOff(u, Len(h))
  <2> SUFFICES ASSUME NEW q \in Paths, u[q].kind = "link"
               PROVE  u[q].of # Root /\ (Len(q) = 1 \/ Len(q) > Len(h))
    BY DEF LinksOff
  <2>1. CASE u[q] = begun[q]
    BY <1>4, <2>1 DEF LinksOff
  <2>2. CASE q = TargetEntry /\ u[q].of # Root
    BY <1>4, <2>2
  <2> QED
    BY <2>1, <2>2 DEF NoNewLinks
<1>7. Followed(u, d) = h
  BY <1>2, <1>4, <1>5, <1>6, HomeIs
<1>8. Named(u, target) = TargetEntry
  BY <1>1, <1>4, <1>5, <1>7, NamedIs
<1>9. ASSUME destDir PROVE DestLinks(u)
  <2>1. Home(u, cmd.dest) = h /\ Home(begun, cmd.dest) = h
    BY <1>1, <1>2, <1>3, <1>9, Homes DEF TargetHome
  <2> SUFFICES ASSUME NEW q \in Paths, u[q].kind = "link"
               PROVE  /\ u[q].of # Root
                      /\ Len(q) = 1 \/ (q # Root /\ Front(q) = h)
    BY <1>9, <2>1 DEF DestLinks
  <2>2. CASE u[q] = begun[q]
    BY <2>1, <2>2 DEF MvHand, DestLinks
  <2>3. CASE q = TargetEntry /\ u[q].of # Root
    BY <1>4, <2>3
  <2> QED
    BY <2>2, <2>3 DEF NoNewLinks
<1> QED
  BY <1>8, <1>9

-----------------------------------------------------------------------------
(* What has arrived. *)

\* Every file of the source is at its place.
Arrived(t) == Delivered(t, << >>)

\* The way to a file has no link on it.
LEMMA ReachedFile ==
  ASSUME NEW t, IsTree(t), NEW p \in AnyPath, NEW B \in AnyPath, Followed(t, p) = B,
         NEW r \in AnyPath, B \o r \in Paths, t[B \o r].kind = "file"
  PROVE  Followed(t, p \o r) = B \o r
<1>1. PICK c : c = B \o r
  OBVIOUS
<1>2. c \in AnyPath /\ c \in Paths /\ t[c].kind = "file" /\ t \in [Paths -> Node]
  BY <1>1, Joined DEF IsTree
<1>3. ASSUME NEW s \in AnyPath, IsPrefix(s, r), s # Root
      PROVE  At(t, Followed(t, p) \o s).kind # "link"
  <2>1. PICK e : e = B \o s
    OBVIOUS
  <2>2. e \in AnyPath /\ IsPrefix(e, c)
    BY <1>1, <1>3, <2>1, JoinedPrefix, Joined
  <2>3. e \in Paths /\ t[e].kind # "link"
    <3>1. CASE e = c
      BY <1>2, <3>1
    <3>2. CASE e # c
      BY <1>2, <2>2, <3>2, AncestorsAreDirs DEF Exists
    <3> QED
      BY <3>1, <3>2
  <2> QED
    BY <2>1, <2>3 DEF At
<1> QED
  BY <1>2, <1>3, FollowedDown

\* To have arrived, a file is where the target leads.
LEMMA ArrivesAt ==
  ASSUME Typed, NEW t, IsTree(t), NEW B \in AnyPath, Followed(t, target) = B,
         \A r \in AnyPath : SourceData \o r \in Paths /\ Whole(begun[SourceData \o r]) =>
           B \o r \in Paths /\ t[B \o r] = begun[SourceData \o r]
  PROVE  Arrived(t)
<1> SUFFICES ASSUME NEW r \in Paths, SourceData \o r \in Paths, Whole(begun[SourceData \o r])
             PROVE  At(t, Followed(t, target \o r)) = begun[SourceData \o r]
  BY DEF Arrived, Delivered
<1>1. r \in AnyPath /\ target \in AnyPath
  BY PathIs DEF Typed
<1>2. B \o r \in Paths /\ t[B \o r] = begun[SourceData \o r]
  BY <1>1
<1>3. t[B \o r].kind = "file"
  BY <1>2 DEF Whole
<1>4. Followed(t, target \o r) = B \o r
  BY <1>1, <1>2, <1>3, ReachedFile, SMTT(30)
<1> QED
  BY <1>2, <1>4 DEF At

\* A source that is its own target is at its place.
LEMMA StayedArrives ==
  ASSUME Typed, source # Root, source = target
  PROVE  Arrived(begun)
<1>1. IsTree(begun) /\ SourceData \in AnyPath /\ Followed(begun, target) = SourceData
  BY Entries DEF Typed, SourceData
<1> QED
  BY <1>1, ArrivesAt

\* While mv works, only what lies at the target is new.
LEMMA MovingAround ==
  ASSUME NEW t, IsTree(t), MvMoving(t)
  PROVE  Around(t) /\ NoNewLinks(t) /\ Separate
<1>1. CutLinks(begun, t, TargetEntry)
  BY CutsLinks
<1>2. ASSUME NEW q \in Paths
      PROVE  IsPrefix(TargetEntry, q) \/ SameLink(begun[q], t[q])
  BY <1>1 DEF CutLinks
<1>3. ASSUME NEW q \in Paths, t[q].kind = "link" PROVE t[q] = begun[q]
  BY <1>2, <1>3 DEF MvMoving, SameLink
<1>4. Around(t)
  BY <1>2 DEF Around
<1>5. NoNewLinks(t)
  BY <1>3 DEF NoNewLinks
<1> QED
  BY <1>4, <1>5 DEF MvMoving, Separate

LEMMA UnlinkedArrives ==
  ASSUME MvHand, MvMoving(tree), Resolved(tree), Delivered(tree, << >>),
         NEW u, Removed(tree, u, SourceEntry)
  PROVE  Arrived(u) /\ (destDir => DestLinks(u))
<1>1. /\ Typed /\ source # Root /\ target # Root /\ IsTree(tree) /\ IsTree(u)
      /\ tree \in [Paths -> Node] /\ u \in [Paths -> Node] /\ target \in AnyPath
  BY DEF MvHand, Typed, Removed, IsTree
<1>2. Around(tree) /\ NoNewLinks(tree) /\ Separate
  BY <1>1, MovingAround
<1>3. ASSUME NEW q \in Paths, ~ IsPrefix(SourceEntry, q) PROVE u[q] = tree[q]
  BY <1>3 DEF Removed
<1>4. Around(u)
  BY <1>1, <1>2, <1>3 DEF Around
<1>5. NoNewLinks(u)
  <2>1. ASSUME NEW q \in Paths, u[q].kind = "link" PROVE u[q] = tree[q]
    BY <2>1, NodesAre DEF Removed
  <2> QED
    BY <1>2, <2>1 DEF NoNewLinks
<1>6. PICK b : b = TargetEntry
  OBVIOUS
<1>7. Named(tree, target) = b /\ Named(u, target) = b /\ (destDir => DestLinks(u))
  BY <1>2, <1>4, <1>5, <1>6, LinksStay DEF MvHand
<1>8. b \in AnyPath /\ b # Root /\ SourceEntry \in AnyPath /\ SourceData \in AnyPath
  BY <1>1, <1>6, Entries
<1>9. ASSUME NEW c \in Paths, IsPrefix(b, c)
      PROVE  u[c] = tree[c] /\ u[c].kind # "link"
  <2>1. c \in AnyPath
    BY PathIs
  <2>2. ~ IsPrefix(SourceEntry, c)
    BY <1>2, <1>6, <1>8, <1>9, <2>1, ApartBelow DEF Separate, Apart
  <2>3. tree[c].kind # "link"
    BY <1>6, <1>9 DEF MvMoving
  <2> QED
    BY <1>3, <2>2, <2>3
<1>10. Followed(tree, target) = b /\ Followed(u, target) = b
  <2>1. IsPrefix(b, b)
    BY <1>8, PrefixOrder
  <2>2. At(tree, b).kind # "link" /\ At(u, b).kind # "link"
    BY <1>9, <2>1, AtIs DEF At, Absent
  <2>3. Followed(tree, target) = b
    BY <1>1, <1>7, <2>2, NamedIs
  <2>4. Followed(u, target) = b
    BY <1>1, <1>7, <2>2, NamedIs
  <2> QED
    BY <2>3, <2>4
<1>11. ASSUME NEW r \in AnyPath, SourceData \o r \in Paths, Whole(begun[SourceData \o r])
       PROVE  b \o r \in Paths /\ u[b \o r] = begun[SourceData \o r]
  <2>1. PICK n : n = begun[SourceData \o r]
    OBVIOUS
  <2>2. r \in Paths
    <3>1. Len(r) <= Len(SourceData \o r)
      <4>1. Len(SourceData \o r) = Len(SourceData) + Len(r)
        BY <1>8, Joined
      <4>2. Len(SourceData) \in Nat /\ Len(r) \in Nat
        BY <1>8, PathParts
      <4> QED
        BY <4>1, <4>2
    <3>2. Len(SourceData \o r) <= MaxDepth /\ Len(SourceData \o r) \in Nat /\ Len(r) \in Nat
      BY <1>8, <1>11, Joined, PathIs, PathParts
    <3>3. Len(r) <= MaxDepth
      BY <3>1, <3>2, DepthAssumption
    <3> QED
      BY <3>3, PathIs
  <2>3. At(tree, Followed(tree, target \o r)) = n
    BY <1>11, <2>1, <2>2 DEF Delivered, InHand
  <2>4. Followed(tree, target \o r) = b \o r
    BY <1>1, <1>10, Landing
  <2>5. n.kind = "file"
    BY <1>11, <2>1 DEF Whole
  <2>6. b \o r \in Paths /\ tree[b \o r] = n
    BY <1>1, <2>3, <2>4, <2>5, AtIs DEF Exists
  <2>7. IsPrefix(b, b \o r)
    BY <1>8, Joined
  <2> QED
    BY <1>9, <2>1, <2>6, <2>7
<1>12. Arrived(u)
  BY <1>1, <1>8, <1>10, <1>11, ArrivesAt
<1> QED
  BY <1>7, <1>12

\* The links of a renamed tree.
LEMMA RenamedLinks ==
  ASSUME MvHand, MvMoving(tree),
         NEW u, Moved(tree, u, SourceEntry, TargetEntry)
  PROVE  NoNewLinks(u)
<1>1. PICK a : a = SourceEntry
  OBVIOUS
<1>2. PICK b : b = TargetEntry
  OBVIOUS
<1>3. /\ Typed /\ source # Root /\ target # Root /\ IsTree(tree)
      /\ Separate /\ NoNewLinks(tree)
  BY MovingAround DEF MvHand, Typed
<1>4. a \in AnyPath /\ b \in AnyPath /\ a # Root /\ b # Root
  BY <1>1, <1>2, <1>3, Entries
<1>5. Apart(a, b)
  BY <1>1, <1>2, <1>3 DEF Separate
<1>6. ASSUME NEW q \in Paths, IsPrefix(a, q), tree[q].kind = "link"
      PROVE  tree[q] = begun[q] /\ begun[q].of # Root /\ q = a
  <2>1. q # b
    BY <1>5, <1>6 DEF Apart
  <2>2. tree[q] = begun[q]
    BY <1>2, <1>3, <1>6, <2>1 DEF NoNewLinks
  <2>3. begun[q].of # Root /\ (Len(q) = 1 \/ (destDir /\ q # Root /\ Front(q) = Home(begun, cmd.dest)))
    BY <1>6, <2>2 DEF MvHand, DestLinks
  <2>4. q \in AnyPath
    BY PathIs
  <2>5. CASE Len(q) = 1
    BY <1>4, <1>6, <2>2, <2>3, <2>4, <2>5, OneNameAbove
  <2>6. CASE destDir /\ q # Root /\ Front(q) = Home(begun, cmd.dest)
    <3>1. Front(q) = Front(b)
      BY <1>2, <2>6, Homes DEF TargetHome
    <3>2. ASSUME q # a PROVE FALSE
      <4>1. IsPrefix(a, Front(q))
        BY <1>4, <1>6, <2>4, <3>2, PrefixFront
      <4>2. IsPrefix(a, b)
        BY <1>4, <3>1, <4>1, PrefixFront
      <4> QED
        BY <1>5, <4>2 DEF Apart
    <3> QED
      BY <2>2, <2>3, <3>2
  <2> QED
    BY <2>3, <2>5, <2>6
<1> SUFFICES ASSUME NEW q \in Paths, u[q].kind = "link"
             PROVE  u[q] = begun[q] \/ (q = b /\ u[q].of # Root)
  BY <1>2 DEF NoNewLinks
<1>7. CASE u[q] = tree[q]
  BY <1>2, <1>3, <1>7 DEF NoNewLinks
<1>8. ASSUME NEW r \in AnyPath, q = b \o r, a \o r \in Paths, u[q] = tree[a \o r]
      PROVE  u[q] = begun[q] \/ (q = b /\ u[q].of # Root)
  <2>1. PICK c : c = a \o r
    OBVIOUS
  <2>2. c \in Paths /\ tree[c].kind = "link" /\ u[q] = tree[c]
    BY <1>8, <2>1
  <2>3. IsPrefix(a, c) /\ (c = a <=> r = Root) /\ b \o Root = b
    BY <1>4, <1>8, <2>1, Joined
  <2>4. c = a /\ u[q].of # Root
    BY <1>6, <2>2, <2>3
  <2>5. q = b
    BY <1>8, <2>3, <2>4
  <2> QED
    BY <2>4, <2>5
<1>9. \/ u[q] = tree[q]
      \/ \E r \in AnyPath : q = b \o r /\ a \o r \in Paths /\ u[q] = tree[a \o r]
  <2>1. Exists(u[q])
    BY DEF Exists
  <2> QED
    BY <1>1, <1>2, <2>1 DEF Moved
<1> QED
  BY <1>7, <1>8, <1>9

LEMMA RenamedArrives ==
  ASSUME MvHand, MvMoving(tree), NoneBelow(tree, TargetEntry),
         NEW u, Moved(tree, u, Named(tree, source), Named(tree, target))
  PROVE  Arrived(u) /\ (destDir => DestLinks(u))
<1>1. PICK a : a = SourceEntry
  OBVIOUS
<1>2. PICK b : b = TargetEntry
  OBVIOUS
<1>3. /\ Typed /\ source # Root /\ target # Root /\ IsTree(tree) /\ IsTree(begun)
      /\ source \in AnyPath /\ target \in AnyPath
      /\ Around(tree) /\ NoNewLinks(tree) /\ Separate
      /\ tree \in [Paths -> Node] /\ begun \in [Paths -> Node]
  BY MovingAround DEF MvHand, Typed, IsTree
<1>4. /\ a \in AnyPath /\ b \in AnyPath /\ a # Root /\ b # Root
      /\ SourceData \in AnyPath
  BY <1>1, <1>2, <1>3, Entries
<1>5. Apart(a, b) /\ Apart(SourceData, b)
  BY <1>1, <1>2, <1>3 DEF Separate
<1>6. Named(tree, source) = a
  <2>1. PICK e : e = Named(tree, source)
    OBVIOUS
  <2>2. e \in Paths /\ Exists(tree[e])
    BY <2>1 DEF Moved
  <2>3. ~ IsPrefix(b, e)
    BY <1>2, <2>2 DEF NoneBelow, Exists
  <2>4. CutLinks(begun, tree, b)
    BY <1>2, CutsLinks
  <2> QED
    BY <1>1, <1>3, <1>4, <2>1, <2>3, <2>4, NamedCut DEF SourceEntry
<1>7. Named(tree, target) = b
  BY <1>2, <1>3, LinksStay DEF MvHand
<1>8. Moved(tree, u, a, b)
  BY <1>6, <1>7
<1>9. IsTree(u) /\ u \in [Paths -> Node]
  BY <1>8 DEF Moved, IsTree
<1>10. ASSUME NEW q \in Paths, ~ IsPrefix(a, q), ~ IsPrefix(b, q)
       PROVE  u[q] = tree[q]
  BY <1>8, <1>10 DEF Moved
<1>11. Around(u)
  BY <1>1, <1>2, <1>3, <1>9, <1>10 DEF Around
<1>12. NoNewLinks(u)
  BY <1>1, <1>2, <1>8, RenamedLinks
<1>13. Named(u, target) = b /\ (destDir => DestLinks(u))
  BY <1>2, <1>3, <1>11, <1>12, LinksStay DEF MvHand
\* What a file of the operand was before, it is.
<1>14. ASSUME NEW c \in Paths, ~ IsPrefix(b, c), Whole(begun[c])
       PROVE  tree[c] = begun[c] /\ Exists(tree[c])
  BY <1>2, <1>14 DEF MvMoving, Outside, Whole, Exists
<1>15. a \in Paths /\ b \in Paths /\ u[b] = tree[a] /\ a = Named(begun, source)
  <2>1. a \in Paths /\ Exists(tree[a]) /\ b \in Paths
    BY <1>8 DEF Moved
  <2>2. Root \in AnyPath /\ a \o Root = a /\ b \o Root = b
    BY <1>4, Joined, RootIsPath
  <2>3. u[b] = tree[a]
    BY <1>8, <2>1, <2>2 DEF Moved
  <2> QED
    BY <1>1, <2>1, <2>3 DEF SourceEntry
<1>16. SameLink(begun[a], tree[a])
  <2>1. ~ IsPrefix(b, a)
    BY <1>5 DEF Apart
  <2> QED
    BY <1>2, <1>15, <2>1, CutsLinks DEF CutLinks
<1>17. CASE tree[a].kind = "link"
  <2>1. tree[a] = begun[a] /\ begun[a].kind = "link"
    BY <1>16, <1>17 DEF SameLink
  <2>2. SourceData = begun[a].of
    <3>1. At(begun, Named(begun, source)) = begun[a]
      BY <1>15 DEF At
    <3> QED
      BY <1>3, <2>1, <3>1, NamedIs DEF SourceData
  <2>3. Followed(u, target) = SourceData
    <3>1. At(u, Named(u, target)) = begun[a]
      BY <1>13, <1>15, <2>1 DEF At
    <3>2. Followed(u, target) = At(u, Named(u, target)).of
      BY <1>3, <1>9, <2>1, <3>1, NamedIs
    <3> QED
      BY <2>2, <3>1, <3>2
  <2>4. ASSUME NEW r \in AnyPath, SourceData \o r \in Paths, Whole(begun[SourceData \o r])
        PROVE  u[SourceData \o r] = begun[SourceData \o r]
    <3>1. PICK c : c = SourceData \o r
      OBVIOUS
    <3>2. c \in Paths /\ c \in AnyPath /\ Whole(begun[c]) /\ IsPrefix(SourceData, c)
      BY <1>4, <2>4, <3>1, Joined
    <3>3. ~ IsPrefix(b, c)
      BY <1>4, <1>5, <3>2, ApartBelow
    <3>4. ~ IsPrefix(a, c)
      <4>1. a # c
        BY <2>1, <3>2 DEF Whole
      <4>2. Exists(begun[c])
        BY <3>2 DEF Whole, Exists
      <4> QED
        BY <1>3, <1>4, <2>1, <3>2, <4>1, <4>2, AncestorsAreDirs
    <3> QED
      BY <1>10, <1>14, <3>1, <3>2, <3>3, <3>4
  <2>5. Arrived(u)
    BY <1>3, <1>4, <1>9, <2>3, <2>4, ArrivesAt
  <2> QED
    BY <1>13, <2>5
<1>18. CASE tree[a].kind # "link"
  <2>1. begun[a].kind # "link"
    BY <1>16, <1>18 DEF SameLink
  <2>2. SourceData = a
    <3>1. At(begun, Named(begun, source)) = begun[a]
      BY <1>15 DEF At
    <3>2. At(begun, Named(begun, source)).kind # "link"
      BY <2>1, <3>1
    <3>3. SourceData = Named(begun, source)
      BY <1>3, <3>2, NamedIs DEF SourceData
    <3> QED
      BY <1>15, <3>3
  <2>3. Followed(u, target) = b
    <3>1. At(u, Named(u, target)) = tree[a]
      BY <1>13, <1>15 DEF At
    <3>2. At(u, Named(u, target)).kind # "link"
      BY <1>18, <3>1
    <3>3. Followed(u, target) = Named(u, target)
      BY <1>3, <1>9, <3>2, NamedIs
    <3> QED
      BY <1>13, <3>3
  <2>4. ASSUME NEW r \in AnyPath, SourceData \o r \in Paths, Whole(begun[SourceData \o r])
        PROVE  b \o r \in Paths /\ u[b \o r] = begun[SourceData \o r]
    <3>1. PICK c : c = a \o r
      OBVIOUS
    <3>2. c \in Paths /\ c \in AnyPath /\ Whole(begun[c]) /\ IsPrefix(a, c)
      BY <1>4, <2>2, <2>4, <3>1, Joined
    <3>3. ~ IsPrefix(b, c)
      BY <1>4, <1>5, <3>2, ApartBelow
    <3>4. tree[c] = begun[c] /\ Exists(tree[c])
      BY <1>14, <3>2, <3>3
    <3>5. b \o r \in Paths /\ u[b \o r] = tree[a \o r]
      BY <1>8, <2>4, <3>1, <3>2, <3>4 DEF Moved
    <3> QED
      BY <2>2, <3>1, <3>4, <3>5
  <2>5. Arrived(u)
    BY <1>3, <1>4, <1>9, <2>3, <2>4, ArrivesAt
  <2> QED
    BY <1>13, <2>5
<1> QED
  BY <1>17, <1>18

-----------------------------------------------------------------------------
(* cp: what has been copied. *)

\* cp reads what was there, and writes straight down from where the target leads.
LEMMA CpReading ==
  ASSUME Typed, source # Root, target # Root, NEW t, IsTree(t), CpClean(t), Shallow(begun)
  PROVE  Readable(t) /\ Straight(t)
<1>1. /\ SourceData \in AnyPath /\ TargetData \in AnyPath
      /\ source \in AnyPath /\ target \in AnyPath
      /\ t \in [Paths -> Node] /\ begun \in [Paths -> Node]
  BY Entries DEF IsTree, Typed
<1>2. SameLinks(begun, t) /\ Apart(SourceData, TargetData)
  BY DEF CpClean
<1>3. Followed(t, source) = SourceData /\ Followed(t, target) = TargetData
  BY <1>1, <1>2, FollowedSame DEF SourceData, TargetData
<1>4. ASSUME NEW q \in Paths, IsPrefix(SourceData, q), begun[q].kind = "file"
      PROVE  t[q] = begun[q]
  <2>1. q \in AnyPath
    BY PathIs
  <2>2. ~ IsPrefix(TargetData, q)
    BY <1>1, <1>2, <1>4, <2>1, ApartBelow
  <2> QED
    BY <1>4, <2>2 DEF CpClean, Outside
<1>5. Readable(t)
  BY <1>3, <1>4, Reading
<1>6. Straight(t)
  BY <1>2, <1>3, CpLands DEF Straight
<1> QED
  BY <1>5, <1>6

\* What is not failed, is still at work.
LEMMA CopyAborts ==
  CopySkips \/ CopyDir \/ CopyParent \/ CopyOpens \/ CopyWrites =>
    /\ status' \in {status, 1} /\ (pc' = "operand" => status' = 1)
    /\ (pc = "copy" /\ ~ Refused) \/ pc \in {"open", "write"}
<1>1. CopySkips => status' = status /\ pc' = "copy"
  BY DEF CopySkips, Copied
<1>2. CopyDir => (status' = status /\ pc' = "copy") \/ status' = 1
  BY DEF CopyDir, Call, Copied, Abort
<1>3. CopyParent => (status' = status /\ pc' = "open") \/ status' = 1
  BY DEF CopyParent, Call, Goto, Abort
<1>4. CopyOpens => (status' = status /\ pc' = "write") \/ status' = 1
  BY DEF CopyOpens, Goto, Abort
<1>5. CopyWrites => (status' = status /\ pc' = "copy") \/ status' = 1
  BY DEF CopyWrites, Copied, Abort
<1>6. CopySkips \/ CopyDir \/ CopyParent \/ CopyOpens \/ CopyWrites =>
        (pc = "copy" /\ ~ Refused) \/ pc \in {"open", "write"}
  BY DEF CopySkips, CopyDir, CopyParent, CopyOpens, CopyWrites
<1> QED
  BY <1>1, <1>2, <1>3, <1>4, <1>5, <1>6

LEMMA CpCopyListed ==
  ASSUME Typed, Opened, Phase, cmd.op = "cp", ~ cmd.noClobber,
         Listed(todo), Delivered(tree, todo),
         CopySkips \/ CopyDir \/ CopyParent \/ CopyOpens \/ CopyWrites
  PROVE  pc' = "operand" \/ (Listed(todo') /\ Delivered(tree', todo'))
<1>1. /\ todo # << >>
      /\ (pc = "copy" /\ ~ Refused) \/ pc \in {"open", "write"}
      /\ IsTree(tree) /\ tree \in [Paths -> Node]
  BY DEF CopySkips, CopyDir, CopyParent, CopyOpens, CopyWrites, Typed, IsTree
<1>2. /\ CpClean(tree) /\ Shallow(tree) /\ Shallow(begun)
      /\ source # Root /\ target # Root
  BY <1>1, CpWork
<1>3. ~ CopySkips
  BY DEF CopySkips, Skip, Kept
<1>4. Readable(tree) /\ Straight(tree)
  BY <1>1, <1>2, CpReading
<1>5. CASE CopyDir
  <2>1. /\ Widened(tree, tree') /\ IsTree(tree')
        /\ \/ pc' = "operand"
           \/ \E more : EntriesOf(Head(todo), more) /\ todo' = more \o Tail(todo)
    BY <1>5, CopyDirTyped DEF Continued
  <2>2. Readable(tree') /\ Delivered(tree', todo)
    <3>1. CpClean(tree')
      BY <1>2, <2>1, CpWidened
    <3>2. Readable(tree')
      BY <1>2, <2>1, <3>1, CpReading
    <3>3. Delivered(tree', todo)
      BY <1>1, <2>1, DeliveredWidened
    <3> QED
      BY <3>2, <3>3
  <2>3. ASSUME NEW more, EntriesOf(Head(todo), more)
        PROVE  Listed(more \o Tail(todo)) /\ Delivered(tree', more \o Tail(todo))
    <3>1. Stat(tree, From).kind = "dir"
      BY <1>5 DEF CopyDir
    <3>2. Listed(more \o Tail(todo))
      BY <1>1, <2>3, EntriesApart
    <3> QED
      BY <1>1, <1>2, <1>4, <2>1, <2>2, <2>3, <3>1, <3>2, DeliveredEntries
  <2> QED
    BY <2>1, <2>3
<1>6. CASE CopyParent
  <2>1. /\ Widened(tree, tree')
        /\ pc' = "operand" \/ todo' = todo
    BY <1>6, CopyParentTyped
  <2>2. Delivered(tree', todo)
    BY <1>1, <2>1, DeliveredWidened
  <2> QED
    BY <2>1, <2>2
<1>7. PICK c : c = Followed(tree, To)
  OBVIOUS
<1>8. ASSUME NEW f, c \in Paths, Written(tree, tree', c, f)
      PROVE  /\ SameLinks(tree, tree') /\ IsTree(tree')
             /\ \A q \in Paths : tree'[q] = IF q = c THEN f ELSE tree[q]
  BY <1>1, <1>8, WrittenKeeps DEF Written
<1>9. CASE CopyOpens
  <2>1. \/ pc' = "operand"
        \/ todo' = todo /\ c \in Paths /\ Written(tree, tree', c, Torn)
    BY <1>7, <1>9, CopyOpensTyped
  <2>2. CASE todo' = todo /\ c \in Paths /\ Written(tree, tree', c, Torn)
    <3>1. /\ SameLinks(tree, tree') /\ IsTree(tree')
          /\ \A q \in Paths : tree'[q] = IF q = c THEN Torn ELSE tree[q]
      BY <1>8, <2>2
    <3>2. ASSUME NEW r \in Paths, SourceData \o r \in Paths, Whole(begun[SourceData \o r]),
                 ~ InHand(todo, r)
          PROVE  At(tree', Followed(tree', target \o r)) = begun[SourceData \o r]
      BY <1>1, <1>2, <1>4, <1>7, <3>1, <3>2, PathIs, DeliveredWritten
    <3>3. Delivered(tree', todo)
      BY <3>2 DEF Delivered
    <3> QED
      BY <2>2, <3>3
  <2> QED
    BY <2>1, <2>2
<1>10. CASE CopyWrites
  <2>1. \/ pc' = "operand"
        \/ /\ todo' = Tail(todo) /\ c \in Paths
           /\ Written(tree, tree', c, tree[Followed(tree, From)])
    BY <1>7, <1>10, CopyWritesTyped
  <2>2. CASE /\ todo' = Tail(todo) /\ c \in Paths
             /\ Written(tree, tree', c, tree[Followed(tree, From)])
    <3>1. PICK n : n = tree[Followed(tree, From)]
      OBVIOUS
    <3>2. /\ SameLinks(tree, tree') /\ IsTree(tree')
          /\ \A q \in Paths : tree'[q] = IF q = c THEN n ELSE tree[q]
      BY <1>8, <2>2, <3>1
    <3>3. Stat(tree, From).kind = "file"
      BY <1>10 DEF Opened, CopyWrites
    <3>4. Delivered(tree', Tail(todo))
      BY <1>1, <1>2, <1>4, <1>7, <2>2, <3>1, <3>2, <3>3, DeliveredCopied
    <3>5. Listed(Tail(todo))
      BY <1>1, ListedTail
    <3> QED
      BY <2>2, <3>4, <3>5
  <2> QED
    BY <2>1, <2>2
<1> QED
  BY <1>3, <1>5, <1>6, <1>9, <1>10

-----------------------------------------------------------------------------
(* The second inductive invariant. *)

\* A destination that is no directory is for one operand.
Single ==
  /\ pc = "begin" => source = Root /\ rest = cmd.operands
  /\ cmd.op \in Copying /\ ~ destDir /\ pc \notin {"begin", "done"} =>
       rest = << >> \/ (Len(rest) = 1 /\ source = Root)
  /\ cmd.op \in Copying /\ pc \notin {"begin", "operand", "done"} =>
       target = IF destDir THEN Append(cmd.dest, Last(source)) ELSE cmd.dest

\* Without a failure so far, what is done with is where it belongs, and what is
\* not is still listed.
Placed(t, list, step, code) ==
  code = 0 =>
    /\ cmd.op = "mv" /\ step \in {"begin", "operand"} /\ (destDir \/ source = Root) =>
         DestLinks(t)
    /\ cmd.op = "mv" /\ step \notin {"begin", "operand", "done"} => DestLinks(begun)
    /\ cmd.op = "cp" /\ ~ cmd.noClobber /\ step \in {"copy", "open", "write"} =>
         Listed(list) /\ Delivered(t, list)
    /\ cmd.op \in Copying /\ ~ cmd.noClobber /\ step = "operand" /\ source # Root =>
         Arrived(t)

Placing == Placed(tree, todo, pc, status)

LEMMA PlacingNext ==
  Steady /\ destDir' = destDir /\ Placed(tree', todo', pc', status') => Placing'
<1> SUFFICES ASSUME Steady, destDir' = destDir, Placed(tree', todo', pc', status')
             PROVE  Placing'
  OBVIOUS
<1>1. cmd' = cmd /\ begun' = begun /\ source' = source /\ target' = target
  BY DEF Steady
<1>2. SourceData' = SourceData
  BY <1>1 DEF SourceData
<1>3. Listed(todo') => Listed(todo)'
  BY <1>1 DEF Listed, IsMove
<1>4. Delivered(tree', todo') => Delivered(tree, todo)'
  BY <1>1, <1>2 DEF Delivered, InHand
<1>5. Arrived(tree') => Arrived(tree)'
  BY <1>1, <1>2 DEF Arrived, Delivered, InHand
<1>6. DestLinks(tree') => DestLinks(tree)'
  BY <1>1 DEF DestLinks
<1>7. DestLinks(begun) => DestLinks(begun)'
  BY <1>1 DEF DestLinks
<1> QED
  BY <1>1, <1>3, <1>4, <1>5, <1>6, <1>7 DEF Placing, Placed

-----------------------------------------------------------------------------
(* The steps of one operand. *)

LEMMA HandIs ==
  ASSUME Typed, Single, Placing, status = 0, cmd.op = "mv",
         pc \notin {"begin", "operand", "done"}
  PROVE  MvHand
<1>1. source # Root /\ target # Root
  BY DEF Typed
<1>2. DestLinks(begun)
  BY DEF Placing, Placed
<1>3. target = IF destDir THEN Append(cmd.dest, Last(source)) ELSE cmd.dest
  BY DEF Single, Copying
<1> QED
  BY <1>1, <1>2, <1>3 DEF MvHand

\* What is to be shown of mv.
LEMMA MvPlaced ==
  ASSUME cmd.op = "mv", NEW step, NEW t, NEW list,
         \/ step = "operand" /\ (destDir => DestLinks(t)) /\ source # Root
            /\ (cmd.noClobber \/ Arrived(t))
         \/ step \notin {"begin", "operand", "done"} /\ DestLinks(begun)
  PROVE  Placed(t, list, step, 0)
BY DEF Placed

LEMMA MvStopsPlaced ==
  ASSUME Typed, Phase, Single, Placing, MvStops
  PROVE  Placed(tree', todo', pc', status')
<1>1. CASE status' # 0
  BY <1>1 DEF Placed
<1>2. CASE status' = 0
  <2>1. pc = "mv" /\ tree' = tree /\ pc' = "operand" /\ status = 0
        /\ (source = target \/ cmd.noClobber)
    BY <1>2 DEF MvStops, Goto, Fail, Kept
  <2>2. cmd.op = "mv" /\ tree = begun
    BY <2>1 DEF Typed, Phase, Ops, Copying
  <2>3. MvHand
    BY <2>1, <2>2, HandIs
  <2>4. source # Root /\ DestLinks(begun)
    BY <2>3 DEF MvHand
  <2>5. cmd.noClobber \/ Arrived(begun)
    BY <2>1, <2>4, StayedArrives
  <2> QED
    BY <1>2, <2>1, <2>2, <2>4, <2>5, MvPlaced
<1> QED
  BY <1>1, <1>2

LEMMA MvClearsPlaced ==
  ASSUME Typed, Phase, Single, Placing, MvClears
  PROVE  Placed(tree', todo', pc', status')
<1>1. CASE status' # 0
  BY <1>1 DEF Placed
<1>2. CASE status' = 0
  <2>1. pc = "mv" /\ pc' = "rename" /\ status = 0
    BY <1>2 DEF MvClears, Call, Goto, Fail
  <2>2. cmd.op = "mv"
    BY <2>1 DEF Typed, Ops, Copying
  <2>3. DestLinks(begun)
    BY <2>1, <2>2, HandIs DEF MvHand
  <2> QED
    BY <1>2, <2>1, <2>2, <2>3, MvPlaced
<1> QED
  BY <1>1, <1>2

LEMMA MvRenamesPlaced ==
  ASSUME Typed, Phase, Single, Placing, MvRenames
  PROVE  Placed(tree', todo', pc', status')
<1>1. CASE status' # 0
  BY <1>1 DEF Placed
<1>2. CASE status' = 0
  <2>1. pc = "rename" /\ status = 0
    BY <1>2 DEF MvRenames, Call, Goto
  <2>2. cmd.op = "mv" /\ MvMoving(tree) /\ NoneBelow(tree, TargetEntry)
    BY <2>1 DEF Typed, Phase
  <2>3. MvHand /\ source # Root /\ DestLinks(begun)
    BY <2>1, <2>2, HandIs DEF MvHand
  <2>4. \/ pc' = "operand" /\ Moved(tree, tree', Named(tree, source), Named(tree, target))
        \/ pc' = "copy"
    BY MvRenamesTyped
  <2>5. CASE pc' = "copy"
    BY <1>2, <2>2, <2>3, <2>5, MvPlaced
  <2>6. CASE pc' = "operand" /\ Moved(tree, tree', Named(tree, source), Named(tree, target))
    <3>1. Arrived(tree') /\ (destDir => DestLinks(tree'))
      BY <2>2, <2>3, <2>6, RenamedArrives
    <3> QED
      BY <1>2, <2>2, <2>3, <2>6, <3>1, MvPlaced
  <2> QED
    BY <2>4, <2>5, <2>6
<1> QED
  BY <1>1, <1>2

LEMMA MvUnlinksPlaced ==
  ASSUME Typed, Phase, Single, Placing, MvUnlinks
  PROVE  Placed(tree', todo', pc', status')
<1>1. CASE status' # 0
  BY <1>1 DEF Placed
<1>2. CASE status' = 0
  <2>1. pc = "unlink" /\ status = 0
    BY <1>2 DEF MvUnlinks, Call, Goto, Fail
  <2>2. cmd.op = "mv" /\ MvMoving(tree) /\ Resolved(tree) /\ Delivered(tree, << >>)
    BY <2>1 DEF Typed, Phase
  <2>3. MvHand /\ source # Root
    BY <2>1, <2>2, HandIs DEF MvHand
  <2>4. pc' = "operand" /\ Removed(tree, tree', SourceEntry)
    BY <2>2, MvUnlinksTyped DEF Resolved
  <2>5. Arrived(tree') /\ (destDir => DestLinks(tree'))
    BY <2>2, <2>3, <2>4, UnlinkedArrives
  <2> QED
    BY <1>2, <2>2, <2>3, <2>4, <2>5, MvPlaced
<1> QED
  BY <1>1, <1>2

LEMMA CopyPlaced ==
  ASSUME Typed, Opened, Phase, Single, Placing,
         CopySkips \/ CopyDir \/ CopyParent \/ CopyOpens \/ CopyWrites
  PROVE  Placed(tree', todo', pc', status')
<1>1. CASE status' # 0
  BY <1>1 DEF Placed
<1>2. CASE status' = 0
  <2>1. status = 0 /\ pc' # "operand" /\ pc \in {"copy", "open", "write"}
    BY <1>2, CopyAborts
  <2>2. pc' \in {"copy", "open", "write"}
    <3>1. CopySkips => pc' = "copy"
      BY DEF CopySkips, Copied
    <3>2. CopyDir => pc' \in {"operand", "copy"}
      BY CopyDirTyped
    <3>3. CopyParent => pc' \in {"operand", "open"}
      BY CopyParentTyped
    <3>4. CopyOpens => pc' \in {"operand", "write"}
      BY CopyOpensTyped
    <3>5. CopyWrites => pc' \in {"operand", "copy"}
      BY CopyWritesTyped
    <3> QED
      BY <2>1, <3>1, <3>2, <3>3, <3>4, <3>5
  <2>3. CASE cmd.op = "mv"
    <3>1. DestLinks(begun)
      BY <2>1, <2>3, HandIs DEF MvHand
    <3> QED
      BY <1>2, <2>2, <2>3, <3>1, MvPlaced
  <2>4. CASE cmd.op = "cp"
    <3>1. CASE cmd.noClobber
      BY <2>2, <2>4, <3>1 DEF Placed
    <3>2. CASE ~ cmd.noClobber
      <4>1. Listed(todo) /\ Delivered(tree, todo)
        BY <2>1, <2>4, <3>2 DEF Placing, Placed
      <4>2. Listed(todo') /\ Delivered(tree', todo')
        BY <2>1, <2>4, <3>2, <4>1, CpCopyListed
      <4> QED
        BY <2>2, <2>4, <4>2 DEF Placed
    <3> QED
      BY <3>1, <3>2
  <2> QED
    BY <2>1, <2>3, <2>4 DEF Typed, Copying
<1> QED
  BY <1>1, <1>2

LEMMA CopyEndsPlaced ==
  ASSUME Typed, Phase, Single, Placing, CopyStops \/ CopyEnds
  PROVE  Placed(tree', todo', pc', status')
<1>1. CASE status' # 0
  BY <1>1 DEF Placed
<1>2. CASE status' = 0
  <2>1. /\ CopyEnds /\ status = 0 /\ pc = "copy" /\ todo = << >> /\ tree' = tree
        /\ pc' = IF cmd.op = "mv" THEN "unlink" ELSE "operand"
    BY <1>2 DEF CopyStops, CopyEnds, Abort, Goto
  <2>2. CASE cmd.op = "mv"
    <3>1. DestLinks(begun)
      BY <2>1, <2>2, HandIs DEF MvHand
    <3> QED
      BY <1>2, <2>1, <2>2, <3>1, MvPlaced
  <2>3. CASE cmd.op = "cp"
    <3>1. ~ cmd.noClobber => Arrived(tree)
      BY <2>1, <2>3 DEF Placing, Placed, Arrived
    <3> QED
      BY <2>1, <2>3, <3>1 DEF Placed
  <2> QED
    BY <2>1, <2>2, <2>3 DEF Typed, Copying
<1> QED
  BY <1>1, <1>2

-----------------------------------------------------------------------------
(* The steps, and the theorem on success. *)

LEMMA FirstListed ==
  Typed /\ source # Root /\ target # Root /\ todo = <<[from |-> source, to |-> target]>>
    => Listed(todo) /\ Delivered(tree, todo)
BY FirstMove

LEMMA FirstListedNext ==
  (Typed /\ source # Root /\ target # Root /\ todo = <<[from |-> source, to |-> target]>>
     => Listed(todo) /\ Delivered(tree, todo))'
BY FirstListed, PTL

LEMMA NextOperandPlaced ==
  ASSUME Typed, Single, Placing, NextOperand
  PROVE  Single' /\ Placing'
<1>1. /\ Typed' /\ source' # Root /\ target' # Root /\ tree' = tree /\ begun' = tree
      /\ cmd' = cmd /\ pc' \in {"copy"} \cup Ops /\ pc' \notin {"open", "write"}
  BY NextOperandTyped
<1>2. /\ pc = "operand" /\ rest # << >> /\ rest' = Tail(rest) /\ source' = Head(rest)
      /\ cmd.op \in Copying =>
           target' = IF destDir THEN Append(cmd.dest, Last(Head(rest))) ELSE cmd.dest
      /\ IF cmd.op = "cp"
         THEN todo' = <<[from |-> source', to |-> target']>> /\ pc' = "copy"
         ELSE pc' = cmd.op
      /\ destDir' = destDir /\ status' = status
  BY DEF NextOperand
<1>3. pc' \notin {"begin", "operand", "done"}
  BY <1>1 DEF Ops, Copying
<1>4. ASSUME cmd.op \in Copying, ~ destDir PROVE source = Root /\ rest' = << >>
  <2>1. Len(rest) = 1 /\ source = Root
    BY <1>2, <1>4 DEF Single
  <2>2. rest' = << >>
    BY <1>2, <2>1 DEF Typed
  <2> QED
    BY <2>1, <2>2
<1>5. Single'
  BY <1>1, <1>2, <1>3, <1>4 DEF Single
<1>6. CASE cmd.op = "mv"
  <2>1. ASSUME status = 0 PROVE DestLinks(begun)'
    <3>1. destDir \/ source = Root
      BY <1>4, <1>6 DEF Copying
    <3>2. DestLinks(tree)
      BY <1>2, <1>6, <2>1, <3>1 DEF Placing, Placed
    <3> QED
      BY <1>1, <1>2, <3>2 DEF DestLinks
  <2>2. cmd' = cmd /\ status' = status
    BY <1>1, <1>2
  <2> QED
    BY <1>3, <1>5, <1>6, <2>1, <2>2 DEF Placing, Placed
<1>7. CASE cmd.op = "cp"
  <2>1. Listed(todo)' /\ Delivered(tree, todo)'
    BY <1>1, <1>2, <1>7, FirstListedNext
  <2>2. cmd' = cmd
    BY <1>1
  <2> QED
    BY <1>3, <1>5, <1>7, <2>1, <2>2 DEF Placing, Placed
<1>8. CASE cmd.op \notin Copying
  <2>1. cmd' = cmd
    BY <1>1
  <2> QED
    BY <1>5, <1>8, <2>1 DEF Placing, Placed, Copying
<1> QED
  BY <1>5, <1>6, <1>7, <1>8 DEF Copying

LEMMA BeginPlaced ==
  ASSUME Typed, Single, Placing, Begin
  PROVE  Single' /\ Placing'
<1>1. /\ Steady /\ UNCHANGED <<rest, destDir>> /\ tree' = tree /\ cmd' = cmd /\ source' = source
  BY BeginTyped DEF Continued, Steady
<1>2. pc = "begin" /\ source = Root /\ rest = cmd.operands
  BY DEF Begin, Single
<1>3. CASE cmd.op \in Copying /\ Len(cmd.operands) > 1 /\ ~ destDir
  <2>1. pc' = "done"
    BY <1>3 DEF Begin, Fail
  <2>2. Single'
    BY <2>1 DEF Single
  <2>3. Placed(tree', todo', pc', status')
    BY <2>1 DEF Placed
  <2> QED
    BY <1>1, <2>2, <2>3, PlacingNext
<1>4. CASE ~ (cmd.op \in Copying /\ Len(cmd.operands) > 1 /\ ~ destDir)
  <2>1. pc' = "operand" /\ status' = status
    BY <1>4 DEF Begin, Goto
  <2>2. ASSUME cmd.op \in Copying, ~ destDir PROVE rest = << >> \/ Len(rest) = 1
    <3>1. ~ (Len(rest) > 1)
      BY <1>2, <1>4, <2>2
    <3>2. rest # << >> => Len(rest) \in Nat \ {0}
      BY EmptySeq DEF Typed
    <3>3. ASSUME rest # << >> PROVE Len(rest) = 1
      <4>1. Len(rest) \in Nat \ {0}
        BY <3>2, <3>3
      <4> QED
        BY <3>1, <4>1
    <3> QED
      BY <3>3
  <2>3. Single'
    BY <1>1, <1>2, <2>1, <2>2 DEF Single
  <2>4. Placed(tree', todo', pc', status')
    BY <1>1, <1>2, <2>1 DEF Placing, Placed
  <2> QED
    BY <1>1, <2>3, <2>4, PlacingNext
<1> QED
  BY <1>3, <1>4

\* An action on the operand in hand.
LEMMA SingleContinued ==
  ASSUME Single, Continued, pc \notin {"begin", "operand", "done"}
  PROVE  Single'
<1>1. /\ cmd' = cmd /\ source' = source /\ target' = target
      /\ rest' = rest /\ destDir' = destDir /\ pc' # "begin"
  BY DEF Continued, Steady
<1> QED
  BY <1>1 DEF Single

LEMMA LastPlaced ==
  ASSUME LastOperand
  PROVE  Single' /\ Placing'
<1>1. pc' = "done"
  BY DEF LastOperand, Goto, Fail
<1> QED
  BY <1>1 DEF Single, Placing, Placed

\* The other commands put nothing anywhere.
LEMMA OthersPlaced ==
  ASSUME cmd' = cmd, cmd.op \notin Copying, pc' # "begin"
  PROVE  Single' /\ Placing'
BY DEF Single, Placing, Placed, Copying

LEMMA PlacingStep ==
  IInv /\ Single /\ Placing /\ [Next]_vars => Single' /\ Placing'
<1> SUFFICES ASSUME IInv, Single, Placing, [Next]_vars PROVE Single' /\ Placing'
  OBVIOUS
<1>1. Typed /\ Opened /\ Phase
  BY DEF IInv
<1>2. CASE Begin
  BY <1>1, <1>2, BeginPlaced
<1>3. CASE NextOperand
  BY <1>1, <1>3, NextOperandPlaced
<1>4. CASE LastOperand
  BY <1>4, LastPlaced
<1>5. ASSUME Continued, pc \notin {"begin", "operand", "done"},
             Placed(tree', todo', pc', status')
      PROVE  Single' /\ Placing'
  BY <1>5, SingleContinued, PlacingNext DEF Continued
<1>6. CASE MvStops
  BY <1>1, <1>5, <1>6, BeginTyped, MvStopsPlaced DEF MvStops
<1>7. CASE MvClears
  BY <1>1, <1>5, <1>7, MvClearsTyped, MvClearsPlaced DEF MvClears
<1>8. CASE MvRenames
  BY <1>1, <1>5, <1>8, MvRenamesTyped, MvRenamesPlaced DEF MvRenames
<1>9. CASE MvUnlinks
  BY <1>1, <1>5, <1>9, MvUnlinksTyped, MvUnlinksPlaced DEF MvUnlinks
<1>10. CASE CopySkips \/ CopyDir \/ CopyParent \/ CopyOpens \/ CopyWrites
  <2>1. Continued
    BY <1>1, <1>10, CopyEndsTyped, CopyDirTyped, CopyParentTyped, CopyOpensTyped,
       CopyWritesTyped
  <2>2. pc \notin {"begin", "operand", "done"}
    BY <1>10, CopyAborts
  <2> QED
    BY <1>1, <1>5, <1>10, <2>1, <2>2, CopyPlaced
<1>11. CASE CopyStops \/ CopyEnds
  <2>1. Continued
    BY <1>1, <1>11, CopyEndsTyped, CopyStopsTyped
  <2>2. pc \notin {"begin", "operand", "done"}
    BY <1>11 DEF CopyStops, CopyEnds
  <2> QED
    BY <1>1, <1>5, <1>11, <2>1, <2>2, CopyEndsPlaced
<1>12. CASE Rm \/ Mkdir \/ Touch \/ Rmdir
  <2>1. cmd' = cmd /\ pc' # "begin"
    BY <1>1, <1>12, RmTyped, MkdirTyped, TouchTyped, RmdirTyped DEF Continued, Steady
  <2>2. cmd.op \notin Copying
    BY <1>1, <1>12 DEF Rm, Mkdir, Touch, Rmdir, Typed, Ops, Copying
  <2> QED
    BY <2>1, <2>2, OthersPlaced
<1>13. CASE UNCHANGED vars
  <2>1. /\ Steady /\ destDir' = destDir /\ tree' = tree /\ todo' = todo /\ pc' = pc
        /\ status' = status /\ cmd' = cmd /\ source' = source /\ target' = target
        /\ rest' = rest
    BY <1>13 DEF vars, Steady
  <2>2. Single'
    BY <2>1 DEF Single
  <2>3. Placed(tree', todo', pc', status')
    BY <2>1 DEF Placing
  <2> QED
    BY <2>1, <2>2, <2>3, PlacingNext
<1> QED
  BY <1>2, <1>3, <1>4, <1>6, <1>7, <1>8, <1>9, <1>10, <1>11, <1>12, <1>13
     DEF Next, Terminated

LEMMA PlacingInit == Init => Single /\ Placing
<1> SUFFICES ASSUME Init PROVE Single /\ Placing
  OBVIOUS
<1>1. pc = "begin" /\ source = Root /\ rest = cmd.operands
  BY Zenon DEF Init
<1>2. Shallow(tree)
  BY InitShallow
<1>3. DestLinks(tree)
  BY <1>2 DEF Shallow, DestLinks
<1>4. Single
  BY <1>1 DEF Single
<1>5. Placing
  BY <1>1, <1>3 DEF Placing, Placed
<1> QED
  BY <1>4, <1>5

LEMMA PlacingIs ==
  ASSUME Typed, Placing
  PROVE  SuccessMeansDone
<1> SUFFICES ASSUME pc = "operand", status = 0, cmd.op \in Copying, ~ cmd.noClobber,
                    source # Root,
                    NEW p \in FilesIn(SourceData)
             PROVE  At(tree, Followed(tree, target \o SubSeq(p, Len(SourceData) + 1, Len(p))))
                      = begun[p]
  BY DEF SuccessMeansDone, SourceData
<1>1. PICK b : b = SourceData
  OBVIOUS
<1>2. b \in AnyPath
  BY <1>1, FollowedType DEF Typed, IsTree, SourceData
<1>3. PICK r \in Paths : /\ r \in AnyPath /\ p = b \o r
                         /\ b \o r \in Paths /\ Whole(begun[b \o r])
  BY <1>1, <1>2, FileBelow
<1>4. PICK s : s = SubSeq(p, Len(b) + 1, Len(p))
  OBVIOUS
<1>5. s = r
  <2>1. IsPrefix(b, p) /\ p \in AnyPath
    BY <1>2, <1>3, Joined
  <2>2. s \in AnyPath /\ p = b \o s
    BY <1>2, <1>4, <2>1, RestOf
  <2> QED
    BY <1>2, <1>3, <2>2, JoinedSame
<1>6. Delivered(tree, << >>)
  BY DEF Placing, Placed, Arrived
<1>7. At(tree, Followed(tree, target \o r)) = begun[b \o r]
  BY <1>1, <1>3, <1>6 DEF Delivered, InHand
<1> QED
  BY <1>1, <1>3, <1>4, <1>5, <1>7

\* A cp or mv that reports no failure has put every file where it belongs.
THEOREM SuccessTrue ==
  ASSUME Aliasing = FALSE
  PROVE  Spec => []SuccessMeansDone
<1>1. Init => Single /\ Placing
  BY PlacingInit
<1>2. IInv /\ Single /\ Placing /\ [Next]_vars => Single' /\ Placing'
  BY PlacingStep
<1>3. IInv /\ Placing => SuccessMeansDone
  BY PlacingIs DEF IInv
<1> QED
  BY <1>1, <1>2, <1>3, Invariance, PTL DEF Spec

=============================================================================
