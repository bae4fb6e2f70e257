---------------------------- MODULE LayoutProofs ----------------------------
(***************************************************************************)
(* Where the nodes of a syntax tree are in the text that it stands for:    *)
(* facts about texts without their comments, about bracket depth, and      *)
(* about vectors of nodes that grow while a text is read.  They are about  *)
(* plain values, so that the proofs about Parser and about Compiler, which *)
(* has a Parser inside, both rest on them.                                 *)
(***************************************************************************)
EXTENDS Brackets, SequencesExt, SequenceTheorems, FiniteSetTheorems, WellFoundedInduction, TLAPS

-----------------------------------------------------------------------------
(* Induction over an interval, with sets for the predicates. *)

(* Every nonempty set of natural numbers has a least element. *)
LEMMA LeastNumber ==
  ASSUME NEW T, T \subseteq Nat, T # {}
  PROVE  \E x \in T : \A y \in T : x <= y
<1> DEFINE R == {ss \in Nat \X Nat : ss[1] < ss[2]}
<1>1. IsWellFoundedOn(R, Nat)
  BY NatLessThanWellFounded DEF OpToRel
<1> HIDE DEF R
<1>2. PICK x \in T : \A y \in T : <<y, x>> \notin R
  BY <1>1, WFMin
<1>3. ASSUME NEW y \in T PROVE x <= y
  <2> DEFINE pair == <<y, x>>
  <2>1. pair \in Nat \X Nat /\ pair[1] = y /\ pair[2] = x
    OBVIOUS
  <2>2. pair \notin R
    BY <1>2
  <2> HIDE DEF pair
  <2>3. ~(pair[1] < pair[2])
    BY <2>1, <2>2 DEF R
  <2> QED
    BY <2>1, <2>3
<1> QED
  BY <1>2, <1>3

LEMMA Induction ==
  ASSUME NEW n \in Nat, NEW T, 0 \in T, \A i \in 1 .. n : i - 1 \in T => i \in T
  PROVE  \A i \in 0 .. n : i \in T
<1> DEFINE bad == {i \in 0 .. n : i \notin T}
<1> SUFFICES ASSUME bad # {} PROVE FALSE
  OBVIOUS
<1>1. PICK i \in bad : \A j \in bad : i <= j
  <2>1. bad \subseteq Nat
    OBVIOUS
  <2> HIDE DEF bad
  <2> QED
    BY <2>1, LeastNumber
<1>2. i \in 1 .. n /\ i - 1 \in 0 .. n /\ i - 1 \notin bad
  BY <1>1
<1> QED
  BY <1>1, <1>2

LEMMA StrongInduction ==
  ASSUME NEW n \in Nat, NEW T,
         \A i \in 1 .. n : (\A j \in 1 .. i - 1 : j \in T) => i \in T
  PROVE  \A i \in 1 .. n : i \in T
<1> DEFINE bad == {i \in 1 .. n : i \notin T}
<1> SUFFICES ASSUME bad # {} PROVE FALSE
  OBVIOUS
<1>1. PICK i \in bad : \A j \in bad : i <= j
  <2>1. bad \subseteq Nat
    OBVIOUS
  <2> HIDE DEF bad
  <2> QED
    BY <2>1, LeastNumber
<1>2. \A j \in 1 .. i - 1 : j \in T
  BY <1>1
<1> QED
  BY <1>1, <1>2

-----------------------------------------------------------------------------
(* Facts about sequences. *)

LEMMA SeqTypes ==
  ASSUME NEW S, NEW s \in Seq(S)
  PROVE  /\ Len(s) \in Nat /\ DOMAIN s = 1 .. Len(s)
         /\ s # <<>> <=> Len(s) > 0
         /\ \A k \in DOMAIN s : s[k] \in S
<1>1. Len(s) \in Nat /\ DOMAIN s = 1 .. Len(s)
  BY LenProperties
<1>2. s # <<>> => Len(s) \in Nat \ {0}
  BY EmptySeq
<1>3. s = <<>> => Len(s) = 0
  BY EmptySeq
<1>4. \A k \in 1 .. Len(s) : s[k] \in S
  BY ElementOfSeq
<1> QED
  BY <1>1, <1>2, <1>3, <1>4

LEMMA Nested ==
  ASSUME NEW S, NEW T, S \subseteq T, NEW s \in Seq(Seq(S))
  PROVE  s \in Seq(Seq(T))
<1>1. \A x \in Seq(S) : x \in Seq(T)
  BY SeqMonotonic
<1>2. Seq(S) \subseteq Seq(T)
  BY <1>1
<1> QED
  BY <1>2, SeqMonotonic

LEMMA LastType ==
  ASSUME NEW S, NEW s \in Seq(S), s # <<>>
  PROVE  Last(s) = s[Len(s)] /\ Last(s) \in S /\ Len(s) \in Nat \ {0}
<1>1. Len(s) \in Nat \ {0}
  BY EmptySeq
<1> QED
  BY <1>1, ElementOfSeq DEF Last

LEMMA FrontType ==
  ASSUME NEW S, NEW s \in Seq(S), s # <<>>
  PROVE  /\ Front(s) \in Seq(S)
         /\ Len(Front(s)) = Len(s) - 1
         /\ \A k \in 1 .. Len(s) - 1 : Front(s)[k] = s[k]
<1> DEFINE n == Len(s) - 1
<1>1. Len(s) \in Nat \ {0}
  BY EmptySeq
<1>2. \A k \in 1 .. n : s[k] \in S
  BY <1>1, ElementOfSeq
<1>3. n \in Nat /\ Front(s) = SubSeq(s, 1, n)
  BY <1>1 DEF Front
<1> HIDE DEF n
<1>4. /\ SubSeq(s, 1, n) \in Seq(S)
      /\ Len(SubSeq(s, 1, n)) = IF 1 <= n THEN n - 1 + 1 ELSE 0
      /\ \A k \in 1 .. n - 1 + 1 : SubSeq(s, 1, n)[k] = s[1 + k - 1]
  BY <1>2, <1>3, SubSeqProperties
<1>5. \A k \in 1 .. n : k \in 1 .. n - 1 + 1 /\ 1 + k - 1 = k
  BY <1>3
<1>6. \A k \in 1 .. n : SubSeq(s, 1, n)[k] = s[k]
  BY <1>4, <1>5
<1>7. Len(SubSeq(s, 1, n)) = n
  BY <1>3, <1>4
<1> QED
  BY <1>3, <1>4, <1>6, <1>7 DEF n

LEMMA AppendType ==
  ASSUME NEW S, NEW s \in Seq(S), NEW x \in S
  PROVE  /\ Append(s, x) \in Seq(S) /\ Append(s, x) # <<>>
         /\ Len(Append(s, x)) = Len(s) + 1
         /\ \A k \in 1 .. Len(s) : Append(s, x)[k] = s[k]
         /\ Append(s, x)[Len(s) + 1] = x
<1>1. /\ Append(s, x) \in Seq(S)
      /\ Len(Append(s, x)) = Len(s) + 1
      /\ \A k \in 1 .. Len(s) : Append(s, x)[k] = s[k]
      /\ Append(s, x)[Len(s) + 1] = x
  BY AppendProperties
<1>2. Len(s) + 1 > 0
  BY LenProperties
<1> QED
  BY <1>1, <1>2, SeqTypes

(* A vector with its last element replaced: operations.push_back in the    *)
(* innermost call, or the next node of the innermost visit.                *)
LEMMA LastReplaced ==
  ASSUME NEW S, NEW s \in Seq(S), s # <<>>, NEW x \in S
  PROVE  /\ Append(Front(s), x) \in Seq(S) /\ Append(Front(s), x) # <<>>
         /\ Len(Append(Front(s), x)) = Len(s)
         /\ \A k \in 1 .. Len(s) - 1 : Append(Front(s), x)[k] = s[k]
         /\ Append(Front(s), x)[Len(s)] = x
<1>1. Len(s) \in Nat \ {0}
  BY EmptySeq
<1>2. Front(s) \in Seq(S) /\ Len(Front(s)) = Len(s) - 1
  BY FrontType
<1>3. \A k \in 1 .. Len(s) - 1 : Front(s)[k] = s[k]
  BY FrontType
<1> DEFINE f == Front(s)
<1> HIDE DEF f
<1>4. f \in Seq(S)
  BY <1>2 DEF f
<1>5. /\ Append(f, x) \in Seq(S) /\ Append(f, x) # <<>>
      /\ Len(Append(f, x)) = Len(f) + 1
      /\ \A k \in 1 .. Len(f) : Append(f, x)[k] = f[k]
      /\ Append(f, x)[Len(f) + 1] = x
  BY <1>4, AppendType
<1>6. Len(f) + 1 = Len(s) /\ Len(f) = Len(s) - 1
  BY <1>1, <1>2 DEF f
<1> QED
  BY <1>3, <1>5, <1>6 DEF f

-----------------------------------------------------------------------------
(* Facts about bracket depth. *)

LEMMA CountStep ==
  ASSUME NEW S, NEW t \in Seq(S), NEW i \in 0 .. Len(t), NEW c
  PROVE  /\ IsFiniteSet(Occurrences(t, i, c))
         /\ Cardinality(Occurrences(t, i, c)) \in Nat
         /\ i > 0 => Cardinality(Occurrences(t, i, c)) =
                       Cardinality(Occurrences(t, i - 1, c)) + (IF t[i] = c THEN 1 ELSE 0)
<1>1. ASSUME NEW n \in 0 .. Len(t)
      PROVE  /\ IsFiniteSet(Occurrences(t, n, c))
             /\ Cardinality(Occurrences(t, n, c)) \in Nat
  <2>1. IsFiniteSet(1 .. n)
    BY FS_Interval
  <2>2. Occurrences(t, n, c) \in SUBSET (1 .. n)
    BY DEF Occurrences
  <2> QED
    BY <2>1, <2>2, FS_Subset, FS_CardinalityType
<1>2. CASE i > 0
  <2>1. i - 1 \in 0 .. Len(t) /\ i \notin Occurrences(t, i - 1, c)
    BY <1>2 DEF Occurrences
  <2>2. CASE t[i] = c
    <3>1. Occurrences(t, i, c) = Occurrences(t, i - 1, c) \cup {i}
      BY <1>2, <2>2 DEF Occurrences
    <3> QED
      BY <1>1, <2>1, <2>2, <3>1, FS_AddElement
  <2>3. CASE t[i] # c
    <3>1. Occurrences(t, i, c) = Occurrences(t, i - 1, c)
      BY <1>2, <2>3 DEF Occurrences
    <3> QED
      BY <1>1, <2>1, <2>3, <3>1
  <2> QED
    BY <2>2, <2>3
<1> QED
  BY <1>1, <1>2

(* One character changes the depth by one or not at all. *)
LEMMA DepthStep ==
  ASSUME NEW S, NEW t \in Seq(S), NEW i \in 0 .. Len(t)
  PROVE  /\ Depth(t, i) \in Int
         /\ i > 0 => Depth(t, i) = Depth(t, i - 1) +
              (IF t[i] = "[" THEN 1 ELSE IF t[i] = "]" THEN -1 ELSE 0)
<1>1. CASE i = 0
  BY <1>1, CountStep DEF Depth
<1>2. CASE i > 0
  <2>1. i - 1 \in 0 .. Len(t)
    BY <1>2
  <2> QED
    BY <1>2, <2>1, CountStep DEF Depth
<1> QED
  BY <1>1, <1>2

LEMMA DepthOfNothing ==
  ASSUME NEW S, NEW t \in Seq(S)
  PROVE  Depth(t, 0) = 0
<1>1. Occurrences(t, 0, "[") = {} /\ Occurrences(t, 0, "]") = {}
  BY DEF Occurrences
<1>2. Cardinality({}) = 0
  BY FS_EmptySet
<1>3. /\ Cardinality(Occurrences(t, 0, "[")) = 0
      /\ Cardinality(Occurrences(t, 0, "]")) = 0
  BY <1>1, <1>2
<1> QED
  BY <1>3 DEF Depth

(* The depth at a place depends on the text before it alone. *)
LEMMA DepthOfPrefix ==
  ASSUME NEW s, NEW t, NEW n \in Nat, \A k \in 1 .. n : s[k] = t[k]
  PROVE  Depth(s, n) = Depth(t, n)
<1>1. \A c : Occurrences(s, n, c) = Occurrences(t, n, c)
  BY DEF Occurrences
<1> QED
  BY <1>1 DEF Depth

-----------------------------------------------------------------------------
(* The text without its comments. *)

LEMMA KeptStep ==
  ASSUME NEW S, NEW t \in Seq(S), NEW symbols
  PROVE  /\ Kept(t, symbols)[0] = <<>>
         /\ \A i \in 1 .. Len(t) :
              Kept(t, symbols)[i] = IF t[i] \in symbols
                                      THEN Append(Kept(t, symbols)[i-1], t[i])
                                      ELSE Kept(t, symbols)[i-1]
<1> DEFINE Is(f, m) ==
             f = [i \in 0 .. m |->
                    IF i = 0 THEN <<>>
                    ELSE IF t[i] \in symbols THEN Append(f[i-1], t[i])
                    ELSE f[i-1]]
           T == {m \in 0 .. Len(t) : \E f : Is(f, m)}
<1>1. Len(t) \in Nat
  BY LenProperties
<1>2. 0 \in T
  <2> DEFINE f == [i \in 0 .. 0 |-> <<>>]
  <2>1. Is(f, 0)
    OBVIOUS
  <2> HIDE DEF f, Is
  <2> QED
    BY <1>1, <2>1
<1>3. ASSUME NEW m \in 1 .. Len(t), m - 1 \in T
      PROVE  m \in T
  <2>1. PICK f : Is(f, m - 1)
    BY <1>3
  <2> DEFINE g == [i \in 0 .. m |->
                     IF i < m THEN f[i]
                     ELSE IF t[i] \in symbols THEN Append(f[i-1], t[i])
                     ELSE f[i-1]]
  <2>2. \A i \in 0 .. m - 1 : f[i] = IF i = 0 THEN <<>>
                                     ELSE IF t[i] \in symbols THEN Append(f[i-1], t[i])
                                     ELSE f[i-1]
    BY <2>1
  <2>3. \A i \in 0 .. m - 1 : g[i] = f[i]
    OBVIOUS
  <2>4. \A i \in 0 .. m : g[i] = IF i = 0 THEN <<>>
                                 ELSE IF t[i] \in symbols THEN Append(g[i-1], t[i])
                                 ELSE g[i-1]
    <3> SUFFICES ASSUME NEW i \in 0 .. m
                 PROVE  g[i] = IF i = 0 THEN <<>>
                               ELSE IF t[i] \in symbols THEN Append(g[i-1], t[i])
                               ELSE g[i-1]
      OBVIOUS
    <3>1. CASE i < m
      BY <2>2, <2>3, <3>1
    <3>2. CASE i = m
      <4>1. g[m] = IF t[m] \in symbols THEN Append(f[m-1], t[m]) ELSE f[m-1]
        OBVIOUS
      <4>2. g[m-1] = f[m-1]
        BY <2>3
      <4> QED
        BY <3>2, <4>1, <4>2
    <3> QED
      BY <3>1, <3>2
  <2>5. g = [i \in 0 .. m |-> g[i]]
    OBVIOUS
  <2> HIDE DEF g
  <2>6. Is(g, m)
    BY <2>4, <2>5
  <2> HIDE DEF Is
  <2> QED
    BY <2>6
<1> HIDE DEF Is
<1>4. Len(t) \in T
  <2> HIDE DEF T
  <2>1. \A m \in 1 .. Len(t) : m - 1 \in T => m \in T
    BY <1>3
  <2>2. \A m \in 0 .. Len(t) : m \in T
    BY <1>1, <1>2, <2>1, Induction
  <2> QED
    BY <1>1, <2>2
<1>5. PICK f : Is(f, Len(t))
  BY <1>4
<1>6. Is(Kept(t, symbols), Len(t))
  BY <1>5 DEF Kept, Is
<1> DEFINE k == Kept(t, symbols)
<1> HIDE DEF k
<1>7. k = [i \in 0 .. Len(t) |->
             IF i = 0 THEN <<>>
             ELSE IF t[i] \in symbols THEN Append(k[i-1], t[i])
             ELSE k[i-1]]
  BY <1>6 DEF Is, k
<1>8. k[0] = <<>>
  BY <1>1, <1>7
<1>9. ASSUME NEW i \in 1 .. Len(t)
      PROVE  k[i] = IF t[i] \in symbols THEN Append(k[i-1], t[i]) ELSE k[i-1]
  <2> DEFINE other == IF t[i] \in symbols THEN Append(k[i-1], t[i]) ELSE k[i-1]
  <2>1. i \in 0 .. Len(t) /\ i # 0
    BY <1>1
  <2>2. k[i] = IF i = 0 THEN <<>> ELSE other
    BY <1>7, <2>1
  <2> HIDE DEF other
  <2>3. k[i] = other
    BY <2>1, <2>2
  <2> QED
    BY <2>3 DEF other
<1> QED
  BY <1>8, <1>9 DEF k

LEMMA KeptType ==
  ASSUME NEW S, NEW t \in Seq(S), NEW symbols
  PROVE  \A i \in 0 .. Len(t) :
           Kept(t, symbols)[i] \in Seq(symbols) /\ Len(Kept(t, symbols)[i]) \in Nat
<1> DEFINE k == Kept(t, symbols)
           T == {i \in 0 .. Len(t) : k[i] \in Seq(symbols)}
<1>1. Len(t) \in Nat
  BY LenProperties
<1>2. /\ k[0] = <<>>
      /\ \A i \in 1 .. Len(t) : k[i] = IF t[i] \in symbols THEN Append(k[i-1], t[i]) ELSE k[i-1]
  BY KeptStep
<1> HIDE DEF k
<1>3. 0 \in T
  <2>1. <<>> \in Seq(symbols) /\ 0 \in 0 .. Len(t)
    BY <1>1
  <2> QED
    BY <1>2, <2>1
<1>4. ASSUME NEW i \in 1 .. Len(t), i - 1 \in T PROVE i \in T
  <2> DEFINE a == k[i-1]
  <2>1. a \in Seq(symbols) /\ k[i] = IF t[i] \in symbols THEN Append(a, t[i]) ELSE a
    BY <1>2, <1>4
  <2> HIDE DEF a
  <2>2. k[i] \in Seq(symbols)
    BY <2>1, AppendProperties
  <2> QED
    BY <1>1, <2>2
<1>5. \A i \in 0 .. Len(t) : i \in T
  <2> HIDE DEF T
  <2> QED
    BY <1>1, <1>3, <1>4, Induction
<1> QED
  BY <1>5, LenProperties DEF k

(* One sequence is the beginning of another. *)
Begins(a, b) == Len(a) <= Len(b) /\ \A n \in 1 .. Len(a) : b[n] = a[n]

(* What is kept of a prefix is a prefix of what is kept, and every prefix  *)
(* of what is kept is kept of some prefix.                                 *)
LEMMA KeptPrefix ==
  ASSUME NEW S, NEW t \in Seq(S), NEW symbols, NEW m \in 0 .. Len(t)
  PROVE  /\ \A i \in 0 .. m : Begins(Kept(t, symbols)[i], Kept(t, symbols)[m])
         /\ \A n \in 0 .. Len(Kept(t, symbols)[m]) :
              \E i \in 0 .. m : Len(Kept(t, symbols)[i]) = n
<1> DEFINE k == Kept(t, symbols)
           T == {l \in 0 .. m :
                   /\ \A i \in 0 .. l : /\ Len(k[i]) <= Len(k[l])
                                        /\ \A n \in 1 .. Len(k[i]) : k[l][n] = k[i][n]
                   /\ \A n \in 0 .. Len(k[l]) : \E i \in 0 .. l : Len(k[i]) = n}
<1>1. Len(t) \in Nat /\ m \in Nat
  BY LenProperties
<1>2. /\ k[0] = <<>>
      /\ \A i \in 1 .. m : k[i] = IF t[i] \in symbols THEN Append(k[i-1], t[i]) ELSE k[i-1]
  BY <1>1, KeptStep
<1>3. \A i \in 0 .. m : k[i] \in Seq(symbols) /\ Len(k[i]) \in Nat
  BY <1>1, KeptType
<1> HIDE DEF k
<1>4. 0 \in T
  <2>1. \A i \in 0 .. 0 : i = 0
    OBVIOUS
  <2>2. Len(k[0]) = 0
    BY <1>2
  <2> QED
    BY <1>1, <2>1, <2>2
<1>5. ASSUME NEW l \in 1 .. m, l - 1 \in T PROVE l \in T
  <2>1. \A i \in 0 .. l : i = l \/ i \in 0 .. l - 1
    OBVIOUS
  <2>2. l - 1 \in 0 .. m /\ l \in 0 .. m
    BY <1>1
  <2>3. CASE t[l] \in symbols
    <3> DEFINE a == k[l-1]
    <3>1. k[l] = Append(a, t[l]) /\ a \in Seq(symbols)
      BY <1>2, <1>3, <2>2, <2>3
    <3> HIDE DEF a
    <3>2. /\ Len(k[l]) = Len(a) + 1
          /\ \A n \in 1 .. Len(a) : k[l][n] = a[n]
      BY <2>3, <3>1, AppendProperties
    <3>3. Len(a) \in Nat
      BY <1>3, <2>2 DEF a
    <3>4. /\ \A i \in 0 .. l - 1 : /\ Len(k[i]) <= Len(a)
                                   /\ \A n \in 1 .. Len(k[i]) : a[n] = k[i][n]
          /\ \A n \in 0 .. Len(a) : \E i \in 0 .. l - 1 : Len(k[i]) = n
      BY <1>5 DEF a
    <3>5. \A i \in 0 .. l : /\ Len(k[i]) <= Len(k[l])
                            /\ \A n \in 1 .. Len(k[i]) : k[l][n] = k[i][n]
      <4> SUFFICES ASSUME NEW i \in 0 .. l
                   PROVE  /\ Len(k[i]) <= Len(k[l])
                          /\ \A n \in 1 .. Len(k[i]) : k[l][n] = k[i][n]
        OBVIOUS
      <4>1. CASE i = l
        BY <1>3, <2>2, <4>1
      <4>2. CASE i \in 0 .. l - 1
        <5>1. Len(k[i]) \in Nat /\ Len(k[i]) <= Len(a)
          BY <1>3, <3>4, <4>2
        <5> QED
          BY <3>2, <3>3, <3>4, <4>2, <5>1
      <4> QED
        BY <2>1, <4>1, <4>2
    <3>6. \A n \in 0 .. Len(k[l]) : \E i \in 0 .. l : Len(k[i]) = n
      <4> SUFFICES ASSUME NEW n \in 0 .. Len(k[l])
                   PROVE  \E i \in 0 .. l : Len(k[i]) = n
        OBVIOUS
      <4>1. CASE n = Len(k[l])
        <5>1. l \in 0 .. l
          OBVIOUS
        <5> QED
          BY <4>1, <5>1
      <4>2. CASE n # Len(k[l])
        <5>1. n \in 0 .. Len(a)
          BY <3>2, <3>3, <4>2
        <5>2. \A i \in 0 .. l - 1 : i \in 0 .. l
          OBVIOUS
        <5> QED
          BY <3>4, <5>1, <5>2
      <4> QED
        BY <4>1, <4>2
    <3> QED
      BY <2>2, <3>5, <3>6
  <2>4. CASE t[l] \notin symbols
    <3>1. k[l] = k[l-1]
      BY <1>2, <2>4
    <3>2. /\ \A i \in 0 .. l - 1 : /\ Len(k[i]) <= Len(k[l])
                                   /\ \A n \in 1 .. Len(k[i]) : k[l][n] = k[i][n]
          /\ \A n \in 0 .. Len(k[l]) : \E i \in 0 .. l - 1 : Len(k[i]) = n
      BY <1>5, <3>1
    <3>3. \A n \in 0 .. Len(k[l]) : \E i \in 0 .. l : Len(k[i]) = n
      <4>1. \A i \in 0 .. l - 1 : i \in 0 .. l
        OBVIOUS
      <4> QED
        BY <3>2, <4>1
    <3>4. Len(k[l]) <= Len(k[l])
      BY <1>3, <2>2
    <3> QED
      BY <2>1, <2>2, <3>2, <3>3, <3>4
  <2> QED
    BY <2>3, <2>4
<1>6. m \in T
  <2> HIDE DEF T
  <2> QED
    BY <1>1, <1>4, <1>5, Induction
<1>7. \A i \in 0 .. m : Begins(k[i], k[m])
  BY <1>6 DEF Begins
<1>8. \A n \in 0 .. Len(k[m]) : \E i \in 0 .. m : Len(k[i]) = n
  BY <1>6
<1> QED
  BY <1>7, <1>8 DEF k

(* Only tokens grow what is kept. *)
LEMMA KeptComments ==
  ASSUME NEW S, NEW t \in Seq(S), NEW symbols,
         NEW i \in 0 .. Len(t), NEW k \in i .. Len(t),
         \A j \in i + 1 .. k : t[j] \notin symbols
  PROVE  Kept(t, symbols)[k] = Kept(t, symbols)[i]
<1> DEFINE K == Kept(t, symbols)
           T == {d \in 0 .. k - i : K[i + d] = K[i]}
<1>1. Len(t) \in Nat
  BY LenProperties
<1>2. \A j \in 1 .. Len(t) : t[j] \notin symbols => K[j] = K[j - 1]
  BY KeptStep
<1> HIDE DEF K
<1>3. 0 \in T
  BY <1>1
<1>4. ASSUME NEW d \in 1 .. k - i, d - 1 \in T PROVE d \in T
  <2> DEFINE j == i + d
  <2>1. j \in 1 .. Len(t) /\ j \in i + 1 .. k /\ j - 1 = i + (d - 1)
    BY <1>1
  <2>2. K[j] = K[j - 1] /\ K[i + (d - 1)] = K[i]
    BY <1>2, <1>4, <2>1
  <2> QED
    BY <1>1, <2>1, <2>2
<1>5. k - i \in T
  <2>1. k - i \in Nat /\ k - i \in 0 .. k - i
    BY <1>1
  <2> HIDE DEF T
  <2> QED
    BY <1>3, <1>4, <2>1, Induction
<1> QED
  BY <1>1, <1>5 DEF K

(* One token is kept when a place of the text is left behind, and it is    *)
(* the next symbol of the whole.                                           *)
LEMMA KeptToken ==
  ASSUME NEW S, NEW t \in Seq(S), NEW symbols,
         NEW i \in 1 .. Len(t), t[i] \in symbols,
         NEW k \in i + 1 .. Len(t) + 1, \A j \in i + 1 .. k - 1 : t[j] \notin symbols,
         NEW n, n = Len(Kept(t, symbols)[i - 1]),
         NEW src, src = Kept(t, symbols)[Len(t)]
  PROVE  /\ n \in Nat /\ src \in Seq(symbols)
         /\ Len(Kept(t, symbols)[k - 1]) = n + 1
         /\ n + 1 <= Len(src) /\ src[n + 1] = t[i]
<1> DEFINE K == Kept(t, symbols)
           a == K[i - 1]
<1>1. Len(t) \in Nat /\ i - 1 \in 0 .. Len(t) /\ i \in 0 .. Len(t) /\ k - 1 \in i .. Len(t)
      /\ Len(t) \in 0 .. Len(t)
  BY LenProperties
<1>2. \A j \in 0 .. Len(t) : K[j] \in Seq(symbols) /\ Len(K[j]) \in Nat
  BY KeptType
<1>3. K[i] = Append(a, t[i]) /\ a \in Seq(symbols)
  BY <1>1, <1>2, KeptStep
<1>4. K[k - 1] = K[i]
  BY <1>1, KeptComments
<1>5. Begins(K[i], K[Len(t)])
  BY <1>1, KeptPrefix
<1> HIDE DEF K, a
<1>6. Len(K[i]) = Len(a) + 1 /\ K[i][Len(a) + 1] = t[i]
  BY <1>3, AppendProperties
<1>7. n = Len(a) /\ n \in Nat /\ src = K[Len(t)] /\ src \in Seq(symbols)
  <2>1. n = Len(a) /\ src = K[Len(t)]
    BY DEF K, a
  <2>2. Len(a) \in Nat
    BY <1>1, <1>2 DEF a
  <2> QED
    BY <1>1, <1>2, <2>1, <2>2
<1>8. n + 1 \in 1 .. Len(K[i])
  BY <1>6, <1>7
<1> QED
  BY <1>4, <1>5, <1>6, <1>7, <1>8 DEF K, Begins

(* Comments do not nest: as many loops are open behind a place of the text *)
(* as behind what is kept of the text up to there.                         *)
LEMMA KeptDepth ==
  ASSUME NEW S, NEW t \in Seq(S), NEW symbols, {"[", "]"} \subseteq symbols,
         NEW src, src = Kept(t, symbols)[Len(t)]
  PROVE  \A i \in 0 .. Len(t) :
           /\ Len(Kept(t, symbols)[i]) \in 0 .. Len(src)
           /\ Depth(src, Len(Kept(t, symbols)[i])) = Depth(t, i)
<1> DEFINE K == Kept(t, symbols)
           Same(i) == /\ Len(K[i]) \in 0 .. Len(src)
                      /\ Depth(src, Len(K[i])) = Depth(t, i)
           T == {i \in 0 .. Len(t) : Same(i)}
<1>1. Len(t) \in Nat /\ Len(t) \in 0 .. Len(t)
  BY LenProperties
<1>2. src \in Seq(symbols) /\ Len(src) \in Nat
  BY <1>1, KeptType
<1>3. 0 \in T
  <2>1. K[0] = <<>> /\ Len(K[0]) = 0
    BY KeptStep
  <2>2. Depth(src, 0) = 0 /\ Depth(t, 0) = 0
    BY <1>2, DepthOfNothing
  <2> QED
    BY <1>1, <1>2, <2>1, <2>2
<1>4. ASSUME NEW i \in 1 .. Len(t), i - 1 \in T PROVE i \in T
  <2> DEFINE n == Len(K[i - 1])
  <2>1. n \in 0 .. Len(src) /\ Depth(src, n) = Depth(t, i - 1)
    BY <1>4
  <2> SUFFICES i \in 0 .. Len(t) /\ Same(i)
    OBVIOUS
  <2> HIDE DEF T
  <2>2. i \in 0 .. Len(t) /\ i > 0
    BY <1>1
  <2>3. Depth(t, i) = Depth(t, i - 1) +
          (IF t[i] = "[" THEN 1 ELSE IF t[i] = "]" THEN -1 ELSE 0)
        /\ Depth(t, i) \in Int
    BY <2>2, DepthStep
  <2>4. CASE t[i] \in symbols
    <3> DEFINE a == K[i - 1]
    <3>1. K[i] = Append(a, t[i]) /\ a \in Seq(symbols) /\ n = Len(a)
      <4>1. i - 1 \in 0 .. Len(t)
        BY <1>1
      <4> QED
        BY <2>4, <4>1, KeptStep, KeptType
    <3>2. Len(K[i]) = n + 1 /\ n + 1 <= Len(src) /\ src[n + 1] = t[i]
      <4>1. Begins(K[i], src)
        BY <1>1, <2>2, KeptPrefix
      <4> HIDE DEF a, K
      <4>2. Len(K[i]) = Len(a) + 1 /\ K[i][Len(a) + 1] = t[i]
        BY <2>4, <3>1, AppendProperties
      <4>3. n + 1 \in 1 .. Len(K[i])
        BY <2>1, <3>1, <4>2
      <4> QED
        BY <3>1, <4>1, <4>2, <4>3 DEF Begins
    <3>3. n + 1 \in 0 .. Len(src) /\ n + 1 > 0 /\ (n + 1) - 1 = n
      BY <1>2, <2>1, <3>2
    <3>4. Depth(src, n + 1) = Depth(src, n) +
            (IF src[n + 1] = "[" THEN 1 ELSE IF src[n + 1] = "]" THEN -1 ELSE 0)
      BY <1>2, <3>3, DepthStep
    <3> QED
      BY <2>1, <2>2, <2>3, <3>2, <3>3, <3>4
  <2>5. CASE t[i] \notin symbols
    <3>1. K[i] = K[i - 1]
      BY <2>5, KeptStep
    <3>2. t[i] # "[" /\ t[i] # "]"
      BY <2>5
    <3>3. i - 1 \in 0 .. Len(t)
      BY <1>1
    <3>4. Depth(t, i - 1) \in Int
      BY <3>3, DepthStep
    <3>5. Depth(t, i) = Depth(t, i - 1)
      BY <2>3, <3>2, <3>4
    <3> QED
      BY <2>1, <2>2, <3>1, <3>5
  <2> QED
    BY <2>4, <2>5
<1>5. \A i \in 0 .. Len(t) : i \in T
  <2> HIDE DEF T
  <2> QED
    BY <1>1, <1>3, <1>4, Induction
<1> QED
  BY <1>5

(* What is kept of the first characters is the beginning of the whole. *)
LEMMA KeptBegins ==
  ASSUME NEW S, NEW t \in Seq(S), NEW symbols, NEW i \in 0 .. Len(t),
         NEW src, src = Kept(t, symbols)[Len(t)]
  PROVE  Kept(t, symbols)[i] = SubSeq(src, 1, Len(Kept(t, symbols)[i]))
<1> DEFINE a == Kept(t, symbols)[i]
           n == Len(a)
<1>1. Len(t) \in 0 .. Len(t)
  BY LenProperties
<1>2. a \in Seq(symbols) /\ n \in Nat /\ src \in Seq(symbols) /\ Len(src) \in Nat
  BY <1>1, KeptType
<1>3. n <= Len(src) /\ \A m \in 1 .. n : src[m] = a[m]
  <2>1. Begins(a, src)
    BY <1>1, KeptPrefix
  <2> QED
    BY <2>1 DEF Begins
<1> HIDE DEF a
<1> DEFINE b == SubSeq(src, 1, n)
<1>4. \A m \in 1 .. n : src[m] \in symbols
  BY <1>2, <1>3, ElementOfSeq
<1>5. /\ b \in Seq(symbols)
      /\ Len(b) = n
      /\ \A m \in 1 .. n : b[m] = src[m]
  <2> HIDE DEF n
  <2>1. /\ SubSeq(src, 1, n) \in Seq(symbols)
        /\ Len(SubSeq(src, 1, n)) = IF 1 <= n THEN n - 1 + 1 ELSE 0
        /\ \A m \in 1 .. n - 1 + 1 : SubSeq(src, 1, n)[m] = src[1 + m - 1]
    BY <1>2, <1>4, SubSeqProperties
  <2>2. \A m \in 1 .. n : m \in 1 .. n - 1 + 1 /\ 1 + m - 1 = m
    BY <1>2
  <2> QED
    BY <1>2, <2>1, <2>2
<1> HIDE DEF b
<1>6. \A m \in 1 .. n : a[m] = b[m]
  BY <1>3, <1>5
<1>7. a = b
  BY <1>2, <1>5, <1>6, SeqEqual
<1> QED
  BY <1>7 DEF a, b

-----------------------------------------------------------------------------
(* Pieces of a text that follow each other. *)

LEMMA Rising ==
  ASSUME NEW n \in Nat, NEW at, \A k \in 1 .. n + 1 : at[k] \in Int,
         \A k \in 1 .. n : at[k] <= at[k + 1]
  PROVE  \A k \in 1 .. n + 1 : at[1] <= at[k]
<1> DEFINE T == {d \in 0 .. n : at[1] <= at[d + 1]}
<1>1. 0 \in T
  OBVIOUS
<1>2. ASSUME NEW d \in 1 .. n, d - 1 \in T PROVE d \in T
  <2>1. (d - 1) + 1 = d /\ d + 1 \in 1 .. n + 1 /\ 1 \in 1 .. n + 1 /\ d \in 1 .. n + 1
    OBVIOUS
  <2> QED
    BY <1>2, <2>1
<1>3. \A d \in 0 .. n : d \in T
  <2> HIDE DEF T
  <2> QED
    BY <1>1, <1>2, Induction
<1>4. ASSUME NEW k \in 1 .. n + 1 PROVE at[1] <= at[k]
  <2>1. k - 1 \in 0 .. n /\ (k - 1) + 1 = k
    OBVIOUS
  <2>2. k - 1 \in T
    BY <1>3, <2>1
  <2> QED
    BY <2>1, <2>2
<1> QED
  BY <1>4

LEMMA FlattenPieces ==
  ASSUME NEW S, NEW src \in Seq(S), NEW n \in Nat,
         NEW at, \A k \in 1 .. n + 1 : at[k] \in 1 .. Len(src) + 1,
         \A k \in 1 .. n : at[k] <= at[k + 1],
         NEW pieces, pieces = [k \in 1 .. n |-> SubSeq(src, at[k], at[k + 1] - 1)]
  PROVE  FlattenSeq(pieces) = SubSeq(src, at[1], at[n + 1] - 1)
<1>1. Len(src) \in Nat
  BY LenProperties
<1>2. \A k \in 1 .. n + 1 : at[k] \in Int /\ at[1] <= at[k]
  <2>1. \A k \in 1 .. n + 1 : at[k] \in Int
    BY <1>1
  <2> QED
    BY <2>1, Rising
<1>3. \A k \in 1 .. n : SubSeq(src, at[k], at[k + 1] - 1) \in Seq(S)
  <2> SUFFICES ASSUME NEW k \in 1 .. n PROVE SubSeq(src, at[k], at[k + 1] - 1) \in Seq(S)
    OBVIOUS
  <2> DEFINE i == at[k]
             j == at[k + 1] - 1
  <2>1. i \in 1 .. Len(src) + 1 /\ j \in 0 .. Len(src)
    BY <1>1
  <2> HIDE DEF i, j
  <2>2. \A m \in i .. j : src[m] \in S
    <3>1. \A m \in i .. j : m \in 1 .. Len(src)
      BY <1>1, <2>1
    <3> QED
      BY <3>1, ElementOfSeq
  <2>3. SubSeq(src, i, j) \in Seq(S)
    BY <2>1, <2>2, SubSeqProperties
  <2> QED
    BY <2>3 DEF i, j
<1>4. pieces \in [1 .. n -> Seq(S)]
  BY <1>3
<1>5. pieces \in Seq(Seq(S)) /\ Len(pieces) = n
  <2> DEFINE T == Seq(S)
  <2> HIDE DEF T
  <2>1. pieces \in Seq(T) /\ Len(pieces) = n
    BY <1>4, LenProperties DEF T
  <2> QED
    BY <2>1 DEF T
<1>6. CASE n = 0
  <2>1. FlattenSeq(pieces) = pieces
    BY <1>5, <1>6 DEF FlattenSeq
  <2>2. pieces = <<>>
    BY <1>5, <1>6, EmptySeq
  <2> DEFINE i == at[1]
  <2>3. i \in Int /\ i - 1 < i
    BY <1>2
  <2> HIDE DEF i
  <2>4. SubSeq(src, i, i - 1) = <<>>
    BY <2>3, SubSeqEmpty
  <2>5. at[n + 1] = i
    BY <1>6 DEF i
  <2>6. SubSeq(src, at[1], at[n + 1] - 1) = SubSeq(src, i, i - 1)
    BY <2>5 DEF i
  <2> QED
    BY <2>1, <2>2, <2>4, <2>6
<1>7. CASE n # 0
  <2> DEFINE Is(f) ==
               f = [i \in 1 .. n |-> IF i = 1 THEN pieces[i] ELSE f[i - 1] \o pieces[i]]
             h == [i \in 1 .. n |-> SubSeq(src, at[1], at[i + 1] - 1)]
             T == {i \in 0 .. n : TRUE}
  <2>1. h[1] = pieces[1]
    BY <1>7
  <2>2. ASSUME NEW i \in 2 .. n PROVE h[i] = h[i - 1] \o pieces[i]
    <3> DEFINE p == at[1]
               q == at[i] - 1
               r == at[i + 1] - 1
    <3>1. /\ i \in 1 .. n + 1 /\ i + 1 \in 1 .. n + 1 /\ 1 \in 1 .. n + 1 /\ i \in 1 .. n
          /\ i - 1 \in 1 .. n /\ (i - 1) + 1 = i
      OBVIOUS
    <3>2. p \in 1 .. Len(src) + 1 /\ q \in p - 1 .. Len(src) /\ r \in q .. Len(src)
          /\ q + 1 = at[i]
      <4> DEFINE x == at[i]
                 y == at[i + 1]
      <4>1. /\ p \in 1 .. Len(src) + 1 /\ x \in 1 .. Len(src) + 1 /\ y \in 1 .. Len(src) + 1
            /\ p <= x /\ x <= y
        BY <1>2, <3>1
      <4>2. q = x - 1 /\ r = y - 1
        OBVIOUS
      <4> HIDE DEF x, y, p, q, r
      <4>3. q + 1 = x /\ q \in p - 1 .. Len(src) /\ r \in q .. Len(src)
        BY <1>1, <4>1, <4>2
      <4> QED
        BY <4>1, <4>3 DEF x
    <3>3. h[i] = SubSeq(src, p, r) /\ h[i - 1] = SubSeq(src, p, q)
          /\ pieces[i] = SubSeq(src, q + 1, r)
      BY <3>1, <3>2
    <3> HIDE DEF p, q, r, h
    <3>4. SubSeq(src, p, q) \o SubSeq(src, q + 1, r) = SubSeq(src, p, r)
      BY <3>2, ConcatAdjacentSubSeq
    <3> QED
      BY <3>3, <3>4
  <2>3. \A i \in 1 .. n : h[i] = IF i = 1 THEN pieces[i] ELSE h[i - 1] \o pieces[i]
    <3>1. \A i \in 1 .. n : i = 1 \/ i \in 2 .. n
      OBVIOUS
    <3> HIDE DEF h
    <3> QED
      BY <2>1, <2>2, <3>1
  <2>4. h = [i \in 1 .. n |-> h[i]]
    OBVIOUS
  <2>5. h[n] = SubSeq(src, at[1], at[n + 1] - 1)
    <3>1. n \in 1 .. n
      BY <1>7
    <3> QED
      BY <3>1
  <2> HIDE DEF h
  <2>6. Is(h)
    BY <2>3, <2>4
  <2> DEFINE flatten == CHOOSE f : Is(f)
  <2>7. Is(flatten)
    <3> HIDE DEF Is
    <3> QED
      BY <2>6
  <2>8. FlattenSeq(pieces) = flatten[n]
    BY <1>5, <1>7 DEF FlattenSeq
  <2> HIDE DEF flatten
  <2>9. \A i \in 1 .. n : flatten[i] = IF i = 1 THEN pieces[i] ELSE flatten[i - 1] \o pieces[i]
    BY <2>7
  <2> DEFINE U == {i \in 0 .. n : i > 0 => flatten[i] = h[i]}
  <2>10. 0 \in U
    OBVIOUS
  <2>11. ASSUME NEW i \in 1 .. n, i - 1 \in U PROVE i \in U
    <3>1. CASE i = 1
      BY <2>3, <2>9, <3>1
    <3>2. CASE i # 1
      <4>1. flatten[i - 1] = h[i - 1] /\ i \in 1 .. n
        BY <2>11, <3>2
      <4>2. flatten[i] = flatten[i - 1] \o pieces[i] /\ h[i] = h[i - 1] \o pieces[i]
        BY <2>3, <2>9, <3>2
      <4>3. flatten[i] = h[i]
        BY <4>1, <4>2
      <4> QED
        BY <4>3
    <3> QED
      BY <3>1, <3>2
  <2>12. n \in U
    <3>1. n \in 0 .. n
      OBVIOUS
    <3> HIDE DEF U
    <3> QED
      BY <2>10, <2>11, <3>1, Induction
  <2>13. flatten[n] = h[n]
    BY <1>7, <2>12
  <2> QED
    BY <2>5, <2>8, <2>13
<1> QED
  BY <1>6, <1>7

-----------------------------------------------------------------------------
(* Where nodes lie.  A vector of nodes has a position in `src', the text   *)
(* without comments, for each node and one for what comes behind the last; *)
(* `posn' has those of the Sequences.  `sym' has the symbol of each leaf.  *)

Until(at) == at[Len(at)]

(* A node stands for the text from p to q, not including q; a Loop owns    *)
(* one of the first `bound' Sequences, which lies between its brackets.    *)
NodeAt(node, p, q, bound, posn, src, sym) ==
  IF node.op = "Loop"
    THEN /\ node.inner \in 1 .. bound
         /\ posn[node.inner][1] = p + 1 /\ Until(posn[node.inner]) = q - 1
         /\ p + 1 <= q - 1
         /\ src[p] = "[" /\ src[q - 1] = "]"
    ELSE q = p + 1 /\ src[p] = sym[node.op] /\ src[p] \notin {"[", "]"}

Lies(vector, at, bound, posn, src, sym) ==
  /\ at \in Seq(1 .. Len(src) + 1)
  /\ Len(at) = Len(vector) + 1
  /\ \A k \in 1 .. Len(vector) : NodeAt(vector[k], at[k], at[k + 1], bound, posn, src, sym)

(* Every Sequence lies somewhere, its Loops own earlier ones. *)
Placed(trees, posn, src, sym) ==
  /\ posn \in Seq(Seq(1 .. Len(src) + 1))
  /\ Len(posn) = Len(trees)
  /\ \A s \in 1 .. Len(trees) : Lies(trees[s], posn[s], s - 1, posn, src, sym)

(* The vectors of the active calls, at the places `fat': the outermost     *)
(* begins with the text, each further one behind a bracket that follows    *)
(* what its caller has, and the innermost has come to the n-th symbol.     *)
Open(calls, fat, bound, posn, src, sym, n) ==
  /\ fat \in Seq(Seq(1 .. Len(src) + 1))
  /\ Len(fat) = Len(calls)
  /\ \A f \in 1 .. Len(calls) : Lies(calls[f], fat[f], bound, posn, src, sym)
  /\ fat[1][1] = 1
  /\ \A f \in 2 .. Len(calls) : /\ fat[f][1] = Until(fat[f - 1]) + 1
                                /\ src[Until(fat[f - 1])] = "["
  /\ Until(fat[Len(calls)]) = n + 1

(* How many loops end within the first n symbols. *)
Ends(src, n) == Cardinality(Occurrences(src, n, "]"))

(* The first n symbols have been read into these calls and Sequences, one  *)
(* Sequence for every loop that has ended.                                 *)
Read(calls, trees, src, sym, n) ==
  /\ \E posn, fat : /\ Placed(trees, posn, src, sym)
                    /\ Open(calls, fat, Len(trees), posn, src, sym, n)
  /\ Len(trees) = Ends(src, n)

(* The whole text is in the Sequence of the Program; the others are those  *)
(* of the loops.                                                           *)
Whole(trees, program, posn, src, sym) ==
  /\ Placed(trees, posn, src, sym)
  /\ Len(trees) = 1 + Ends(src, Len(src))
  /\ program \in 1 .. Len(trees)
  /\ posn[program][1] = 1 /\ Until(posn[program]) = Len(src) + 1

LEMMA EndsStep ==
  ASSUME NEW S, NEW src \in Seq(S), NEW n \in Nat
  PROVE  /\ Ends(src, 0) = 0
         /\ n + 1 <= Len(src) =>
              Ends(src, n + 1) = Ends(src, n) + (IF src[n + 1] = "]" THEN 1 ELSE 0)
<1>1. Ends(src, 0) = 0
  <2>1. Occurrences(src, 0, "]") = {}
    BY DEF Occurrences
  <2> QED
    BY <2>1, FS_EmptySet DEF Ends
<1>2. ASSUME n + 1 <= Len(src)
      PROVE  Ends(src, n + 1) = Ends(src, n) + (IF src[n + 1] = "]" THEN 1 ELSE 0)
  <2> DEFINE m == n + 1
  <2>1. Len(src) \in Nat
    BY LenProperties
  <2>2. m \in 0 .. Len(src) /\ m > 0 /\ m - 1 = n
    BY <1>2, <2>1
  <2> HIDE DEF m
  <2>3. Cardinality(Occurrences(src, m, "]")) =
          Cardinality(Occurrences(src, m - 1, "]")) + (IF src[m] = "]" THEN 1 ELSE 0)
    BY <2>2, CountStep
  <2> QED
    BY <2>2, <2>3 DEF Ends, m
<1> QED
  BY <1>1, <1>2

LEMMA LiesRising ==
  ASSUME NEW S, NEW src \in Seq(S), NEW N, NEW vector \in Seq(N),
         NEW at, NEW bound, NEW posn, NEW sym,
         Lies(vector, at, bound, posn, src, sym)
  PROVE  /\ Len(vector) \in Nat
         /\ \A k \in 1 .. Len(vector) + 1 : at[k] \in 1 .. Len(src) + 1 /\ at[1] <= at[k]
         /\ \A k \in 1 .. Len(vector) : at[k] < at[k + 1]
         /\ Until(at) = at[Len(vector) + 1]
         /\ Until(at) \in 1 .. Len(src) + 1 /\ at[1] <= Until(at)
<1> DEFINE n == Len(vector)
<1>1. n \in Nat /\ Len(src) \in Nat
  BY LenProperties
<1>2. at \in Seq(1 .. Len(src) + 1) /\ Len(at) = n + 1
      /\ \A k \in 1 .. n : NodeAt(vector[k], at[k], at[k + 1], bound, posn, src, sym)
  BY DEF Lies
<1> HIDE DEF n
<1>3. \A k \in 1 .. n + 1 : at[k] \in 1 .. Len(src) + 1
  BY <1>2, ElementOfSeq
<1>4. \A k \in 1 .. n : at[k] < at[k + 1]
  <2> SUFFICES ASSUME NEW k \in 1 .. n PROVE at[k] < at[k + 1]
    OBVIOUS
  <2> DEFINE p == at[k]
             q == at[k + 1]
  <2>1. p \in 1 .. Len(src) + 1 /\ q \in 1 .. Len(src) + 1
    BY <1>1, <1>3
  <2>2. NodeAt(vector[k], p, q, bound, posn, src, sym)
    BY <1>2
  <2> HIDE DEF p, q
  <2>3. q = p + 1 \/ p + 1 <= q - 1
    BY <2>2 DEF NodeAt
  <2>4. p < q
    BY <1>1, <2>1, <2>3
  <2> QED
    BY <2>4 DEF p, q
<1>5. \A k \in 1 .. n + 1 : at[k] \in Int
  BY <1>1, <1>3
<1>6. \A k \in 1 .. n : at[k] <= at[k + 1]
  <2>1. \A k \in 1 .. n : k \in 1 .. n + 1 /\ k + 1 \in 1 .. n + 1
    BY <1>1
  <2> QED
    BY <1>4, <1>5, <2>1
<1>7. \A k \in 1 .. n + 1 : at[1] <= at[k]
  BY <1>1, <1>5, <1>6, Rising
<1>8. n + 1 \in 1 .. n + 1 /\ Until(at) = at[n + 1]
  BY <1>1, <1>2 DEF Until
<1> QED
  BY <1>1, <1>3, <1>4, <1>7, <1>8 DEF n

LEMMA LiesNothing ==
  ASSUME NEW src, NEW p \in 1 .. Len(src) + 1, NEW bound, NEW posn, NEW sym
  PROVE  /\ Lies(<<>>, <<p>>, bound, posn, src, sym)
         /\ <<p>>[1] = p /\ Until(<<p>>) = p
<1>1. <<p>> \in Seq(1 .. Len(src) + 1) /\ Len(<<p>>) = 1 /\ <<p>>[1] = p
  OBVIOUS
<1>2. Len(<<>>) = 0 /\ 1 .. 0 = {}
  OBVIOUS
<1> QED
  BY <1>1, <1>2 DEF Lies, Until

(* What lies in the text stays there when Sequences are added. *)
LEMMA LiesKept ==
  ASSUME NEW vector, NEW at, NEW src, NEW sym, NEW posn, NEW more,
         NEW b \in Nat, NEW c \in Nat, b <= c,
         \A s \in 1 .. b : more[s] = posn[s],
         Lies(vector, at, b, posn, src, sym)
  PROVE  Lies(vector, at, c, more, src, sym)
<1>1. ASSUME NEW k \in 1 .. Len(vector)
      PROVE  NodeAt(vector[k], at[k], at[k + 1], c, more, src, sym)
  <2>1. NodeAt(vector[k], at[k], at[k + 1], b, posn, src, sym)
    BY DEF Lies
  <2>2. CASE vector[k].op = "Loop"
    <3>1. vector[k].inner \in 1 .. b
      BY <2>1, <2>2 DEF NodeAt
    <3>2. vector[k].inner \in 1 .. c /\ more[vector[k].inner] = posn[vector[k].inner]
      BY <3>1
    <3> QED
      BY <2>1, <2>2, <3>2 DEF NodeAt
  <2>3. CASE vector[k].op # "Loop"
    BY <2>1, <2>3 DEF NodeAt
  <2> QED
    BY <2>2, <2>3
<1> QED
  BY <1>1 DEF Lies

(* One more node. *)
LEMMA LiesMore ==
  ASSUME NEW S, NEW src \in Seq(S), NEW N, NEW vector \in Seq(N), NEW node \in N,
         NEW at, NEW bound, NEW posn, NEW sym,
         Lies(vector, at, bound, posn, src, sym),
         NEW q \in 1 .. Len(src) + 1,
         NodeAt(node, Until(at), q, bound, posn, src, sym)
  PROVE  /\ Lies(Append(vector, node), Append(at, q), bound, posn, src, sym)
         /\ Append(at, q)[1] = at[1] /\ Until(Append(at, q)) = q
<1> DEFINE n == Len(vector)
           v == Append(vector, node)
           a == Append(at, q)
           P == 1 .. Len(src) + 1
<1>1. at \in Seq(P) /\ Len(at) = n + 1
  BY DEF Lies
<1>2. n \in Nat
  BY LenProperties
<1>3. Len(v) = n + 1 /\ v[n + 1] = node /\ \A k \in 1 .. n : v[k] = vector[k]
  BY AppendProperties
<1> HIDE DEF P
<1>4. /\ a \in Seq(P) /\ Len(a) = n + 2 /\ a[n + 2] = q
      /\ \A k \in 1 .. n + 1 : a[k] = at[k]
  <2>1. /\ a \in Seq(P) /\ Len(a) = Len(at) + 1 /\ a[Len(at) + 1] = q
        /\ \A k \in 1 .. Len(at) : a[k] = at[k]
    BY <1>1, AppendProperties DEF P
  <2>2. (n + 1) + 1 = n + 2
    BY <1>2
  <2> QED
    BY <1>1, <2>1, <2>2
<1>5. \A k \in 1 .. n : NodeAt(vector[k], at[k], at[k + 1], bound, posn, src, sym)
  BY DEF Lies
<1>6. NodeAt(node, at[n + 1], q, bound, posn, src, sym)
  BY <1>1 DEF Until
<1> HIDE DEF n, v, a
<1>7. ASSUME NEW k \in 1 .. n + 1 PROVE NodeAt(v[k], a[k], a[k + 1], bound, posn, src, sym)
  <2>1. CASE k = n + 1
    <3>1. a[k] = at[n + 1] /\ a[k + 1] = q /\ v[k] = node
      BY <1>2, <1>3, <1>4, <2>1
    <3> QED
      BY <1>6, <3>1
  <2>2. CASE k # n + 1
    <3>1. k \in 1 .. n /\ k + 1 \in 1 .. n + 1
      BY <1>2, <2>2
    <3>2. a[k] = at[k] /\ a[k + 1] = at[k + 1] /\ v[k] = vector[k]
      BY <1>3, <1>4, <3>1
    <3> QED
      BY <1>5, <3>1, <3>2
  <2> QED
    BY <2>1, <2>2
<1>8. Lies(v, a, bound, posn, src, sym)
  <2>1. Len(a) = Len(v) + 1
    BY <1>2, <1>3, <1>4
  <2> QED
    BY <1>3, <1>4, <1>7, <2>1 DEF Lies, P
<1>9. a[1] = at[1] /\ Until(a) = q
  BY <1>2, <1>4 DEF Until
<1> QED
  BY <1>8, <1>9 DEF a, v

(* operations.push_back(node) in the innermost call. *)
LEMMA OpenMore ==
  ASSUME NEW S, NEW src \in Seq(S), NEW N,
         NEW calls \in Seq(Seq(N)), calls # <<>>, NEW node \in N,
         NEW fat, NEW bound, NEW posn, NEW sym, NEW n \in Nat, NEW m \in Nat,
         Open(calls, fat, bound, posn, src, sym, n), m + 1 \in 1 .. Len(src) + 1,
         NodeAt(node, n + 1, m + 1, bound, posn, src, sym)
  PROVE  Open(Append(Front(calls), Append(Last(calls), node)),
              Append(Front(fat), Append(Last(fat), m + 1)), bound, posn, src, sym, m)
<1> DEFINE d == Len(calls)
           P == 1 .. Len(src) + 1
           q == m + 1
           v == Append(Last(calls), node)
           a == Append(Last(fat), q)
           vs == Append(Front(calls), v)
           as == Append(Front(fat), a)
           SN == Seq(N)
           SP == Seq(P)
<1>1. d \in Nat \ {0} /\ Last(calls) = calls[d] /\ Last(calls) \in SN
  BY LastType
<1>2. /\ fat \in Seq(SP) /\ Len(fat) = d /\ fat[1][1] = 1
      /\ \A f \in 1 .. d : Lies(calls[f], fat[f], bound, posn, src, sym)
      /\ \A f \in 2 .. d : fat[f][1] = Until(fat[f - 1]) + 1 /\ src[Until(fat[f - 1])] = "["
      /\ Until(fat[d]) = n + 1
  BY DEF Open
<1>3. calls \in Seq(SN) /\ q \in P
  OBVIOUS
<1> HIDE DEF d, P, q, SN, SP
<1>4. fat # <<>> /\ Last(fat) = fat[d] /\ Last(fat) \in SP
  <2>1. fat # <<>>
    BY <1>1, <1>2, SeqTypes
  <2> QED
    BY <1>2, <2>1, LastType
<1>5. /\ Lies(v, a, bound, posn, src, sym)
      /\ a[1] = fat[d][1] /\ Until(a) = q
  <2> DEFINE x == calls[d]
             y == fat[d]
  <2>1. x \in Seq(N) /\ Lies(x, y, bound, posn, src, sym)
        /\ NodeAt(node, Until(y), q, bound, posn, src, sym)
    BY <1>1, <1>2 DEF SN, q
  <2> HIDE DEF x, y
  <2>2. /\ Lies(Append(x, node), Append(y, q), bound, posn, src, sym)
        /\ Append(y, q)[1] = y[1] /\ Until(Append(y, q)) = q
    BY <1>3, <2>1, LiesMore DEF P
  <2>3. v = Append(x, node) /\ a = Append(y, q)
    BY <1>1, <1>4 DEF x, y
  <2> QED
    BY <2>2, <2>3 DEF y
<1>6. v \in SN
  BY <1>1, AppendProperties DEF SN
<1>7. a \in SP
  BY <1>3, <1>4, AppendProperties DEF SP
<1> HIDE DEF v, a
<1>8. /\ Len(vs) = d /\ vs[d] = v
      /\ \A k \in 1 .. d - 1 : vs[k] = calls[k]
  BY <1>3, <1>6, LastReplaced DEF d
<1>9. /\ as \in Seq(SP) /\ Len(as) = d /\ as[d] = a
      /\ \A k \in 1 .. d - 1 : as[k] = fat[k]
  <2>1. /\ as \in Seq(SP) /\ Len(as) = Len(fat) /\ as[Len(fat)] = a
        /\ \A k \in 1 .. Len(fat) - 1 : as[k] = fat[k]
    <3>1. fat \in Seq(SP) /\ fat # <<>> /\ a \in SP
      BY <1>2, <1>4, <1>7
    <3> HIDE DEF vs
    <3> QED
      BY <3>1, LastReplaced
  <2> HIDE DEF as
  <2> QED
    BY <1>2, <2>1
<1> HIDE DEF vs, as
<1>10. \A f \in 1 .. d : Lies(vs[f], as[f], bound, posn, src, sym)
  <2> SUFFICES ASSUME NEW f \in 1 .. d PROVE Lies(vs[f], as[f], bound, posn, src, sym)
    OBVIOUS
  <2>1. CASE f = d
    BY <1>5, <1>8, <1>9, <2>1
  <2>2. CASE f # d
    <3>1. f \in 1 .. d - 1
      BY <1>1, <2>2
    <3> QED
      BY <1>2, <1>8, <1>9, <3>1
  <2> QED
    BY <2>1, <2>2
<1>11. as[1][1] = 1
  <2>1. CASE d = 1
    BY <1>2, <1>5, <1>9, <2>1
  <2>2. CASE d # 1
    <3>1. 1 \in 1 .. d - 1
      BY <1>1, <2>2
    <3> QED
      BY <1>2, <1>9, <3>1
  <2> QED
    BY <2>1, <2>2
<1>12. ASSUME NEW f \in 2 .. d
       PROVE  as[f][1] = Until(as[f - 1]) + 1 /\ src[Until(as[f - 1])] = "["
  <2>1. as[f - 1] = fat[f - 1]
    <3>1. f - 1 \in 1 .. d - 1
      BY <1>1
    <3> QED
      BY <1>9, <3>1
  <2>2. as[f][1] = fat[f][1]
    <3>1. CASE f = d
      BY <1>5, <1>9, <3>1
    <3>2. CASE f # d
      <4>1. f \in 1 .. d - 1
        BY <1>1, <3>2
      <4> QED
        BY <1>9, <4>1
    <3> QED
      BY <3>1, <3>2
  <2> QED
    BY <1>2, <2>1, <2>2
<1>13. Until(as[d]) = m + 1
  BY <1>5, <1>9 DEF q
<1> QED
  BY <1>8, <1>9, <1>10, <1>11, <1>12, <1>13 DEF Open, vs, as, v, a, q, SP, P

LEMMA ReadNothing ==
  ASSUME NEW S, NEW src \in Seq(S), NEW sym
  PROVE  Read(<< <<>> >>, <<>>, src, sym, 0)
<1> DEFINE P == 1 .. Len(src) + 1
<1>1. 1 \in P
  BY LenProperties
<1>2. Placed(<<>>, <<>>, src, sym)
  <2>1. \A T : <<>> \in Seq(T)
    OBVIOUS
  <2>2. Len(<<>>) = 0 /\ 1 .. 0 = {}
    OBVIOUS
  <2> QED
    BY <2>1, <2>2 DEF Placed
<1>3. Open(<< <<>> >>, << <<1>> >>, 0, <<>>, src, sym, 0)
  <2> DEFINE one == <<1>>
             none == <<>>
  <2>1. Lies(none, one, 0, <<>>, src, sym) /\ one[1] = 1 /\ Until(one) = 1
    BY <1>1, LiesNothing
  <2>2. one \in Seq(P)
    BY <1>1
  <2> HIDE DEF one, none, P
  <2>3. <<one>> \in Seq(Seq(P)) /\ Len(<<one>>) = 1 /\ <<one>>[1] = one
        /\ Len(<<none>>) = 1 /\ <<none>>[1] = none
    BY <2>2
  <2>4. 2 .. 1 = {} /\ \A f \in 1 .. 1 : f = 1
    OBVIOUS
  <2>5. Open(<<none>>, <<one>>, 0, <<>>, src, sym, 0)
    BY <2>1, <2>3, <2>4 DEF Open, P
  <2> QED
    BY <2>5 DEF one, none
<1>4. Len(<<>>) = 0 /\ Ends(src, 0) = 0
  BY EndsStep
<1> QED
  BY <1>2, <1>3, <1>4 DEF Read

(* The default branch of parse_sequence and parse_loop. *)
LEMMA ReadLeaf ==
  ASSUME NEW S, NEW src \in Seq(S), NEW N, NEW calls \in Seq(Seq(N)), calls # <<>>,
         NEW node \in N, NEW trees, NEW sym, NEW n \in Nat,
         Read(calls, trees, src, sym, n), n + 1 <= Len(src),
         node.op # "Loop", src[n + 1] = sym[node.op], src[n + 1] \notin {"[", "]"}
  PROVE  Read(Append(Front(calls), Append(Last(calls), node)), trees, src, sym, n + 1)
<1>1. PICK posn, fat : /\ Placed(trees, posn, src, sym)
                       /\ Open(calls, fat, Len(trees), posn, src, sym, n)
  BY DEF Read
<1> DEFINE m == n + 1
           b == Len(trees)
<1>2. NodeAt(node, m, m + 1, b, posn, src, sym)
  BY DEF NodeAt
<1>3. m \in Nat /\ m + 1 \in 1 .. Len(src) + 1
  BY LenProperties
<1>4. Open(calls, fat, b, posn, src, sym, n) /\ NodeAt(node, n + 1, m + 1, b, posn, src, sym)
  BY <1>1, <1>2
<1> HIDE DEF m, b
<1> DEFINE after == Append(Front(fat), Append(Last(fat), m + 1))
<1>5. Open(Append(Front(calls), Append(Last(calls), node)), after, b, posn, src, sym, m)
  BY <1>3, <1>4, OpenMore
<1> HIDE DEF after
<1>6. \E f : Open(Append(Front(calls), Append(Last(calls), node)), f, b, posn, src, sym, m)
  BY <1>5
<1>7. Len(trees) = Ends(src, n + 1)
  <2>1. Len(trees) = Ends(src, n) /\ Ends(src, n + 1) = Ends(src, n) + 0
    BY EndsStep DEF Read
  <2>2. Ends(src, n) \in Int
    <3>1. n \in 0 .. Len(src)
      BY LenProperties
    <3> QED
      BY <3>1, CountStep DEF Ends
  <2> QED
    BY <2>1, <2>2
<1> QED
  BY <1>1, <1>6, <1>7 DEF Read, m, b

(* LOOP_START: a new call, whose vector begins behind the bracket. *)
LEMMA ReadEnter ==
  ASSUME NEW S, NEW src \in Seq(S), NEW N, NEW calls \in Seq(Seq(N)), calls # <<>>,
         NEW trees, NEW sym, NEW n \in Nat,
         Read(calls, trees, src, sym, n), n + 1 <= Len(src), src[n + 1] = "["
  PROVE  Read(Append(calls, <<>>), trees, src, sym, n + 1)
<1>1. PICK posn, fat : /\ Placed(trees, posn, src, sym)
                       /\ Open(calls, fat, Len(trees), posn, src, sym, n)
  BY DEF Read
<1> DEFINE d == Len(calls)
           b == Len(trees)
           SN == Seq(N)
           SP == Seq(1 .. Len(src) + 1)
           none == <<>>
           a == <<n + 2>>
           vs == Append(calls, none)
           as == Append(fat, a)
<1>2. /\ d \in Nat \ {0} /\ n + 2 \in 1 .. Len(src) + 1 /\ none \in SN
      /\ a \in SP /\ calls \in Seq(SN)
  <2>1. n + 2 \in 1 .. Len(src) + 1
    BY LenProperties
  <2> QED
    BY <2>1, EmptySeq
<1>3. Lies(none, a, b, posn, src, sym) /\ a[1] = n + 2 /\ Until(a) = n + 2
  BY <1>2, LiesNothing
<1>4. /\ fat \in Seq(SP) /\ Len(fat) = d /\ fat[1][1] = 1
      /\ \A f \in 1 .. d : Lies(calls[f], fat[f], b, posn, src, sym)
      /\ \A f \in 2 .. d : fat[f][1] = Until(fat[f - 1]) + 1 /\ src[Until(fat[f - 1])] = "["
      /\ Until(fat[d]) = n + 1
  BY <1>1 DEF Open
<1> HIDE DEF d, b, SN, SP, none, a
<1>5. /\ Len(vs) = d + 1 /\ vs[d + 1] = none /\ \A k \in 1 .. d : vs[k] = calls[k]
  BY <1>2, AppendProperties DEF d
<1>6. /\ as \in Seq(SP) /\ Len(as) = d + 1 /\ as[d + 1] = a
      /\ \A k \in 1 .. d : as[k] = fat[k]
  BY <1>2, <1>4, AppendProperties
<1> HIDE DEF vs, as
<1>7. \A f \in 1 .. d + 1 : f = d + 1 \/ f \in 1 .. d
  BY <1>2
<1>8. \A f \in 1 .. d + 1 : Lies(vs[f], as[f], b, posn, src, sym)
  BY <1>3, <1>4, <1>5, <1>6, <1>7
<1>9. as[1][1] = 1 /\ Until(as[d + 1]) = (n + 1) + 1
  <2>1. 1 \in 1 .. d /\ n + 2 = (n + 1) + 1
    BY <1>2
  <2>2. as[1] = fat[1]
    BY <1>6, <2>1
  <2> QED
    BY <1>3, <1>4, <1>6, <2>1, <2>2
<1>10. ASSUME NEW f \in 2 .. d + 1
       PROVE  as[f][1] = Until(as[f - 1]) + 1 /\ src[Until(as[f - 1])] = "["
  <2>1. f - 1 \in 1 .. d /\ as[f - 1] = fat[f - 1]
    <3>1. f - 1 \in 1 .. d
      BY <1>2
    <3> QED
      BY <1>6, <3>1
  <2>2. CASE f = d + 1
    <3>1. f - 1 = d
      BY <1>2, <2>2
    <3>2. Until(as[f - 1]) = n + 1 /\ src[Until(as[f - 1])] = "["
      BY <1>4, <2>1, <3>1
    <3>3. n + 2 = (n + 1) + 1
      OBVIOUS
    <3>4. as[f] = a
      BY <1>6, <2>2
    <3> QED
      BY <1>3, <3>2, <3>3, <3>4
  <2>3. CASE f # d + 1
    <3>1. f \in 2 .. d /\ f \in 1 .. d
      BY <1>2, <2>3
    <3> QED
      BY <1>4, <1>6, <2>1, <3>1
  <2> QED
    BY <2>2, <2>3
<1>11. Open(vs, as, b, posn, src, sym, n + 1)
  BY <1>5, <1>6, <1>8, <1>9, <1>10 DEF Open, SP
<1>12. Len(trees) = Ends(src, n + 1)
  <2>1. Len(trees) = Ends(src, n) /\ Ends(src, n + 1) = Ends(src, n) + 0
    BY EndsStep DEF Read
  <2>2. Ends(src, n) \in Int
    <3>1. n \in 0 .. Len(src)
      BY LenProperties
    <3> QED
      BY <3>1, CountStep DEF Ends
  <2> QED
    BY <2>1, <2>2
<1> QED
  BY <1>1, <1>11, <1>12 DEF Read, vs, b, none

(* One more Sequence, made from a vector that lies in the text. *)
LEMMA PlacedMore ==
  ASSUME NEW src, NEW N, NEW trees \in Seq(Seq(N)), NEW vector \in Seq(N),
         NEW posn, NEW a, NEW sym,
         Placed(trees, posn, src, sym),
         Lies(vector, a, Len(trees), posn, src, sym)
  PROVE  Placed(Append(trees, vector), Append(posn, a), src, sym)
<1> DEFINE b == Len(trees)
           SN == Seq(N)
           SP == Seq(1 .. Len(src) + 1)
           ts == Append(trees, vector)
           more == Append(posn, a)
<1>1. /\ posn \in Seq(SP) /\ Len(posn) = b /\ a \in SP
      /\ \A s \in 1 .. b : Lies(trees[s], posn[s], s - 1, posn, src, sym)
  BY DEF Placed, Lies
<1>2. trees \in Seq(SN) /\ vector \in SN /\ b \in Nat
  BY LenProperties
<1> HIDE DEF b, SN, SP
<1>3. Len(ts) = b + 1 /\ ts[b + 1] = vector /\ \A s \in 1 .. b : ts[s] = trees[s]
  BY <1>2, AppendProperties DEF b
<1>4. /\ more \in Seq(SP) /\ Len(more) = b + 1 /\ more[b + 1] = a
      /\ \A s \in 1 .. b : more[s] = posn[s]
  BY <1>1, AppendProperties
<1> HIDE DEF ts, more
<1>5. ASSUME NEW s \in 1 .. b + 1 PROVE Lies(ts[s], more[s], s - 1, more, src, sym)
  <2>1. CASE s = b + 1
    <3>1. Lies(vector, a, b, more, src, sym)
      <4>1. Lies(vector, a, b, posn, src, sym) /\ b <= b
        BY <1>2 DEF b
      <4> QED
        BY <1>2, <1>4, <4>1, LiesKept
    <3>2. s - 1 = b
      BY <1>2, <2>1
    <3>3. ts[s] = vector
      BY <1>3, <2>1
    <3>4. more[s] = a
      BY <1>4, <2>1
    <3> QED
      BY <3>1, <3>2, <3>3, <3>4
  <2>2. CASE s # b + 1
    <3>1. s \in 1 .. b
      BY <1>2, <2>2
    <3> DEFINE e == s - 1
    <3>2. e \in Nat /\ e <= e /\ \A r \in 1 .. e : more[r] = posn[r]
      <4>1. e \in Nat /\ \A r \in 1 .. e : r \in 1 .. b
        BY <1>2, <3>1
      <4> QED
        BY <1>4, <4>1
    <3>3. Lies(trees[s], posn[s], e, posn, src, sym)
      BY <1>1, <3>1
    <3> HIDE DEF e
    <3>4. Lies(trees[s], posn[s], e, more, src, sym)
      BY <3>2, <3>3, LiesKept
    <3>5. ts[s] = trees[s]
      BY <1>3, <3>1
    <3>6. more[s] = posn[s]
      BY <1>4, <3>1
    <3> QED
      BY <3>4, <3>5, <3>6 DEF e
  <2> QED
    BY <2>1, <2>2
<1>6. Placed(ts, more, src, sym)
  BY <1>3, <1>4, <1>5 DEF Placed, SP
<1> QED
  BY <1>6 DEF ts, more

(* LOOP_END: the vector of the innermost call becomes a Sequence, and its  *)
(* Loop the next node of the caller.                                       *)
LEMMA ReadLeave ==
  ASSUME NEW S, NEW src \in Seq(S), NEW N, NEW calls \in Seq(Seq(N)), Len(calls) > 1,
         NEW trees \in Seq(Seq(N)), NEW sym, NEW n \in Nat,
         Read(calls, trees, src, sym, n), n + 1 <= Len(src), src[n + 1] = "]",
         NEW M, N \subseteq M, [op |-> "Loop", inner |-> Len(trees) + 1] \in M
  PROVE  Read(Append(Front(Front(calls)),
                     Append(Last(Front(calls)), [op |-> "Loop", inner |-> Len(trees) + 1])),
              Append(trees, Last(calls)), src, sym, n + 1)
<1>1. PICK posn, fat : /\ Placed(trees, posn, src, sym)
                       /\ Open(calls, fat, Len(trees), posn, src, sym, n)
  BY DEF Read
<1> DEFINE d == Len(calls)
           b == Len(trees)
           SN == Seq(N)
           SP == Seq(1 .. Len(src) + 1)
           vector == calls[d]
           a == fat[d]
           more == Append(posn, a)
           ts == Append(trees, vector)
           node == [op |-> "Loop", inner |-> b + 1]
           outer == Front(calls)
           ofat == Front(fat)
           p == Until(fat[d - 1])
<1>2. /\ d \in Nat /\ d > 1 /\ calls # <<>> /\ calls \in Seq(SN)
      /\ Last(calls) = vector /\ vector \in SN
  <2>1. d \in Nat /\ calls # <<>>
    BY SeqTypes
  <2> QED
    BY <2>1, LastType
<1>3. /\ fat \in Seq(SP) /\ Len(fat) = d /\ fat[1][1] = 1
      /\ \A f \in 1 .. d : Lies(calls[f], fat[f], b, posn, src, sym)
      /\ \A f \in 2 .. d : fat[f][1] = Until(fat[f - 1]) + 1 /\ src[Until(fat[f - 1])] = "["
      /\ Until(fat[d]) = n + 1
  BY <1>1 DEF Open
<1>4. d \in 1 .. d /\ d - 1 \in 1 .. d /\ d \in 2 .. d /\ 1 \in 1 .. d - 1
  BY <1>2
<1>5. Lies(vector, a, b, posn, src, sym)
  BY <1>3, <1>4
<1>6. /\ Placed(ts, more, src, sym)
      /\ Len(ts) = b + 1 /\ b \in Nat
      /\ \A s \in 1 .. b : more[s] = posn[s]
      /\ more[b + 1] = a
  <2>1. vector \in Seq(N)
    BY <1>2 DEF SN
  <2> HIDE DEF vector, a
  <2>2. Placed(Append(trees, vector), Append(posn, a), src, sym)
    <3>1. Placed(trees, posn, src, sym) /\ Lies(vector, a, Len(trees), posn, src, sym)
      BY <1>1, <1>5
    <3> HIDE DEF d, b, ts, more, SN, SP
    <3> QED
      BY <2>1, <3>1, PlacedMore
  <2>3. posn \in Seq(SP) /\ Len(posn) = b /\ a \in SP
    BY <1>1, <1>5 DEF Placed, Lies
  <2>4. trees \in Seq(SN) /\ vector \in SN /\ b \in Nat
    BY <1>2, LenProperties
  <2> HIDE DEF SN, SP
  <2>5. Len(ts) = b + 1
    BY <2>4, AppendProperties
  <2>6. /\ \A s \in 1 .. b : more[s] = posn[s]
        /\ more[b + 1] = a
    BY <2>3, AppendProperties
  <2> QED
    BY <2>2, <2>4, <2>5, <2>6
<1>7. /\ a[1] = p + 1 /\ src[p] = "[" /\ Until(a) = n + 1
      /\ a[1] <= Until(a)
  <2>1. a[1] <= Until(a)
    BY <1>2, <1>5, LiesRising DEF SN
  <2> QED
    BY <1>3, <1>4, <2>1
<1>8. p \in 1 .. Len(src) + 1
  <2> DEFINE v == calls[d - 1]
             w == fat[d - 1]
  <2>1. v \in Seq(N) /\ Lies(v, w, b, posn, src, sym)
    <3>1. v \in SN
      BY <1>2, <1>4, ElementOfSeq
    <3> QED
      BY <1>3, <1>4, <3>1 DEF SN
  <2> HIDE DEF v, w
  <2>2. Until(w) \in 1 .. Len(src) + 1
    BY <2>1, LiesRising
  <2> QED
    BY <2>2 DEF w
<1>9. /\ outer \in Seq(SN) /\ Len(outer) = d - 1 /\ \A f \in 1 .. d - 1 : outer[f] = calls[f]
  BY <1>2, FrontType
<1>10. /\ ofat \in Seq(SP) /\ Len(ofat) = d - 1 /\ \A f \in 1 .. d - 1 : ofat[f] = fat[f]
  <2>1. fat # <<>>
    BY <1>2, <1>3, SeqTypes
  <2> QED
    BY <1>3, <2>1, FrontType
<1> HIDE DEF d, b, SN, SP, vector, a, more, ts, outer, ofat, p
<1>11. Open(outer, ofat, b + 1, more, src, sym, p - 1)
  <2>1. \A f \in 1 .. d - 1 : f \in 1 .. d
    BY <1>2
  <2>2. ASSUME NEW f \in 1 .. d - 1 PROVE Lies(outer[f], ofat[f], b + 1, more, src, sym)
    <3>1. Lies(calls[f], fat[f], b, posn, src, sym)
      BY <1>3, <2>1
    <3>2. b <= b + 1 /\ b + 1 \in Nat
      BY <1>6
    <3>3. Lies(calls[f], fat[f], b + 1, more, src, sym)
      BY <1>6, <3>1, <3>2, LiesKept
    <3> QED
      BY <1>9, <1>10, <3>3
  <2>3. ASSUME NEW f \in 2 .. d - 1
        PROVE  ofat[f][1] = Until(ofat[f - 1]) + 1 /\ src[Until(ofat[f - 1])] = "["
    <3>1. f \in 2 .. d /\ f \in 1 .. d - 1 /\ f - 1 \in 1 .. d - 1
      BY <1>2
    <3>2. ofat[f] = fat[f] /\ ofat[f - 1] = fat[f - 1]
      BY <1>10, <3>1
    <3> QED
      BY <1>3, <3>1, <3>2
  <2>4. ofat[1][1] = 1
    BY <1>3, <1>4, <1>10
  <2>5. Until(ofat[d - 1]) = (p - 1) + 1
    <3>1. d - 1 \in 1 .. d - 1 /\ (p - 1) + 1 = p
      BY <1>2, <1>8
    <3>2. ofat[d - 1] = fat[d - 1]
      BY <1>10, <3>1
    <3> QED
      BY <3>1, <3>2 DEF p
  <2> QED
    BY <1>9, <1>10, <2>2, <2>3, <2>4, <2>5 DEF Open, SP
<1> DEFINE q == p - 1
           m == n + 1
           c == b + 1
<1>12. /\ q \in Nat /\ m \in Nat /\ m + 1 \in 1 .. Len(src) + 1
       /\ q + 1 = p /\ (m + 1) - 1 = n + 1
  BY <1>8, LenProperties
<1>13. NodeAt(node, q + 1, m + 1, c, more, src, sym)
  <2>1. node.op = "Loop" /\ node.inner = c /\ c \in 1 .. c
    BY <1>6
  <2>2. more[c][1] = (q + 1) + 1 /\ Until(more[c]) = (m + 1) - 1 /\ (q + 1) + 1 <= (m + 1) - 1
    BY <1>6, <1>7, <1>12
  <2>3. src[q + 1] = "[" /\ src[(m + 1) - 1] = "]"
    BY <1>7, <1>12
  <2> HIDE DEF node, q, m, c
  <2> QED
    BY <2>1, <2>2, <2>3 DEF NodeAt
<1>14. outer \in Seq(Seq(M)) /\ outer # <<>>
  <2>1. outer \in Seq(Seq(M))
    BY <1>9, Nested DEF SN
  <2>2. Len(outer) > 0
    BY <1>2, <1>9
  <2> QED
    BY <2>1, <2>2, SeqTypes
<1>15. node \in M
  BY DEF b
<1> HIDE DEF node, q, m, c
<1> DEFINE after == Append(Front(ofat), Append(Last(ofat), m + 1))
<1>16. Open(outer, ofat, c, more, src, sym, q)
  BY <1>11 DEF q, c
<1>17. Open(Append(Front(outer), Append(Last(outer), node)), after, c, more, src, sym, m)
  BY <1>12, <1>13, <1>14, <1>15, <1>16, OpenMore
<1> HIDE DEF after
<1>18. Read(Append(Front(outer), Append(Last(outer), node)), ts, src, sym, m)
  <2>1. b = Ends(src, n) /\ Ends(src, n + 1) = Ends(src, n) + 1
    BY EndsStep DEF Read, b
  <2>2. Len(ts) = Ends(src, m)
    BY <1>6, <2>1 DEF m
  <2> QED
    BY <1>6, <1>17, <2>2 DEF Read, c
<1>19. ts = Append(trees, Last(calls))
  BY <1>2 DEF ts
<1> QED
  BY <1>18, <1>19 DEF outer, node, m, b

(* The end of the input in parse_sequence. *)
LEMMA ReadAll ==
  ASSUME NEW S, NEW src \in Seq(S), NEW N, NEW calls \in Seq(Seq(N)), Len(calls) = 1,
         NEW trees \in Seq(Seq(N)), NEW sym,
         Read(calls, trees, src, sym, Len(src))
  PROVE  \E posn : Whole(Append(trees, calls[1]), Len(trees) + 1, posn, src, sym)
<1>1. PICK posn, fat : /\ Placed(trees, posn, src, sym)
                       /\ Open(calls, fat, Len(trees), posn, src, sym, Len(src))
  BY DEF Read
<1> DEFINE b == Len(trees)
           vector == calls[1]
           a == fat[1]
           more == Append(posn, a)
           ts == Append(trees, vector)
<1>2. Lies(vector, a, b, posn, src, sym) /\ a[1] = 1 /\ Until(a) = Len(src) + 1
  BY <1>1 DEF Open
<1>3. vector \in Seq(N)
  <2> DEFINE SN == Seq(N)
  <2> HIDE DEF SN
  <2>1. calls \in Seq(SN)
    BY DEF SN
  <2>2. 1 \in 1 .. Len(calls)
    OBVIOUS
  <2>3. calls[1] \in SN
    BY <2>1, <2>2, ElementOfSeq
  <2> QED
    BY <2>3 DEF SN
<1>4. /\ Placed(ts, more, src, sym)
      /\ Len(ts) = b + 1 /\ b \in Nat
      /\ more[b + 1] = a
  <2> HIDE DEF vector, a
  <2>1. Placed(Append(trees, vector), Append(posn, a), src, sym)
    <3>1. Placed(trees, posn, src, sym) /\ Lies(vector, a, Len(trees), posn, src, sym)
      BY <1>1, <1>2
    <3> HIDE DEF b, ts, more
    <3> QED
      BY <1>3, <3>1, PlacedMore
  <2> DEFINE SN == Seq(N)
             SP == Seq(1 .. Len(src) + 1)
  <2>2. posn \in Seq(SP) /\ Len(posn) = b /\ a \in SP
    BY <1>1, <1>2 DEF Placed, Lies
  <2>3. trees \in Seq(SN) /\ vector \in SN /\ b \in Nat
    BY <1>3, LenProperties
  <2> HIDE DEF SN, SP
  <2>4. Len(ts) = b + 1
    BY <2>3, AppendProperties
  <2>5. more[b + 1] = a
    BY <2>2, AppendProperties
  <2> QED
    BY <2>1, <2>3, <2>4, <2>5
<1> HIDE DEF b, vector, a, more, ts
<1>5. b + 1 \in 1 .. b + 1
  BY <1>4
<1>6. Whole(ts, b + 1, more, src, sym)
  <2>1. b = Ends(src, Len(src))
    BY DEF Read, b
  <2>2. b + 1 = 1 + Ends(src, Len(src))
    BY <1>4, <2>1
  <2> QED
    BY <1>2, <1>4, <1>5, <2>2 DEF Whole
<1> QED
  BY <1>6 DEF ts, vector, b

-----------------------------------------------------------------------------
(* Depth and places.  The text from p to q, not including q, closes what   *)
(* it opens and nothing else.                                              *)
Flat(src, p, q) ==
  /\ Depth(src, q - 1) = Depth(src, p - 1)
  /\ \A j \in p - 1 .. q - 1 : Depth(src, j) >= Depth(src, p - 1)

(* So does every Sequence of the first `bound'. *)
AllFlat(posn, bound, src) == \A c \in 1 .. bound : Flat(src, posn[c][1], Until(posn[c]))

LEMMA FlatNothing ==
  ASSUME NEW S, NEW src \in Seq(S), NEW p \in 1 .. Len(src) + 1
  PROVE  Flat(src, p, p)
<1>1. p - 1 \in 0 .. Len(src)
  BY LenProperties
<1>2. Depth(src, p - 1) \in Int
  BY <1>1, DepthStep
<1>3. \A j \in p - 1 .. p - 1 : j = p - 1
  BY <1>1
<1> QED
  BY <1>2, <1>3 DEF Flat

LEMMA FlatTogether ==
  ASSUME NEW S, NEW src \in Seq(S), NEW p \in 1 .. Len(src) + 1,
         NEW m \in 1 .. Len(src) + 1, NEW q \in 1 .. Len(src) + 1,
         Flat(src, p, m), Flat(src, m, q)
  PROVE  Flat(src, p, q)
<1>1. Len(src) \in Nat
  BY LenProperties
<1>2. ASSUME NEW j \in p - 1 .. q - 1 PROVE Depth(src, j) >= Depth(src, p - 1)
  <2>1. CASE j <= m - 1
    <3>1. j \in p - 1 .. m - 1
      BY <1>1, <2>1
    <3> QED
      BY <3>1 DEF Flat
  <2>2. CASE ~(j <= m - 1)
    <3>1. j \in m - 1 .. q - 1
      BY <1>1, <2>2
    <3>2. Depth(src, j) >= Depth(src, m - 1)
      BY <3>1 DEF Flat
    <3>3. Depth(src, m - 1) = Depth(src, p - 1)
      BY DEF Flat
    <3> QED
      BY <3>2, <3>3
  <2> QED
    BY <2>1, <2>2
<1> QED
  BY <1>2 DEF Flat

(* A pair of brackets around such a text, and the two are each other's     *)
(* partners.                                                               *)
LEMMA FlatPair ==
  ASSUME NEW S, NEW src \in Seq(S), NEW p \in 1 .. Len(src), NEW r \in 1 .. Len(src),
         p < r, src[p] = "[", src[r] = "]", Flat(src, p + 1, r)
  PROVE  /\ Flat(src, p, r + 1)
         /\ Matching(src, p) = r /\ Matching(src, r) = p
<1> DEFINE D(j) == Depth(src, j)
           d == D(p - 1)
<1>1. Len(src) \in Nat
  BY LenProperties
<1>2. \A j \in 0 .. Len(src) : D(j) \in Int
  BY DepthStep
<1>3. d \in Int /\ D(p) = d + 1
  <2>1. p \in 0 .. Len(src) /\ p > 0 /\ p - 1 \in 0 .. Len(src)
    BY <1>1
  <2>2. D(p) = D(p - 1) + 1
    BY <2>1, DepthStep
  <2> QED
    BY <1>2, <2>1, <2>2
<1>4. D(r - 1) = D(p) /\ \A j \in p .. r - 1 : D(j) >= D(p)
  <2>1. (p + 1) - 1 = p
    BY <1>1
  <2> QED
    BY <2>1 DEF Flat
<1>5. D(r) = d
  <2>1. r \in 0 .. Len(src) /\ r > 0
    BY <1>1
  <2>2. D(r) = D(r - 1) + (-1)
    BY <2>1, DepthStep
  <2> QED
    BY <1>3, <1>4, <2>2
<1> HIDE DEF D, d
<1>6. \A j \in p .. r - 1 : D(j) > d
  <2> SUFFICES ASSUME NEW j \in p .. r - 1 PROVE D(j) > d
    OBVIOUS
  <2>1. j \in 0 .. Len(src)
    BY <1>1
  <2> QED
    BY <1>2, <1>3, <1>4, <2>1
<1>7. Flat(src, p, r + 1)
  <2>1. (r + 1) - 1 = r
    BY <1>1
  <2>2. ASSUME NEW j \in p - 1 .. r PROVE D(j) >= d
    <3>1. CASE j = p - 1
      BY <1>3, <3>1 DEF d
    <3>2. CASE j = r
      BY <1>3, <1>5, <3>2
    <3>3. CASE j # p - 1 /\ j # r
      <4>1. j \in p .. r - 1
        BY <1>1, <3>3
      <4>2. D(j) > d /\ D(j) \in Int
        <5>1. j \in 0 .. Len(src)
          BY <1>1, <4>1
        <5> QED
          BY <1>2, <1>6, <4>1, <5>1
      <4> QED
        BY <1>3, <4>2
    <3> QED
      BY <3>1, <3>2, <3>3
  <2> QED
    BY <1>5, <2>1, <2>2 DEF Flat, D, d
<1>8. Matching(src, p) = r
  <2> DEFINE Closes(j) == D(j) = d /\ \A k \in p .. j - 1 : D(k) > d
  <2>1. r \in p + 1 .. Len(src) /\ Closes(r)
    BY <1>1, <1>5, <1>6
  <2>2. ASSUME NEW j \in p + 1 .. Len(src), Closes(j) PROVE j = r
    <3>1. CASE j < r
      <4>1. j \in p .. r - 1
        BY <1>1, <3>1
      <4> QED
        BY <1>3, <1>6, <2>2, <4>1
    <3>2. CASE j > r
      <4>1. r \in p .. j - 1
        BY <1>1, <3>2
      <4> QED
        BY <1>3, <1>5, <2>2, <4>1
    <3> QED
      BY <1>1, <3>1, <3>2
  <2>3. Matching(src, p) = CHOOSE j \in p + 1 .. Len(src) : Closes(j)
    BY DEF Matching, D, d
  <2> HIDE DEF Closes
  <2> QED
    BY <2>1, <2>2, <2>3
<1>9. Matching(src, r) = p
  <2> DEFINE Opens(j) == D(j - 1) = D(r) /\ \A k \in j .. r - 1 : D(k) > D(r)
  <2>1. p \in 1 .. r - 1 /\ Opens(p)
    BY <1>1, <1>5, <1>6 DEF d
  <2>2. ASSUME NEW j \in 1 .. r - 1, Opens(j) PROVE j = p
    <3>1. CASE j > p
      <4>1. j - 1 \in p .. r - 1
        BY <1>1, <3>1
      <4> QED
        BY <1>3, <1>5, <1>6, <2>2, <4>1
    <3>2. CASE j < p
      <4>1. p - 1 \in j .. r - 1
        BY <1>1, <3>2
      <4>2. D(p - 1) > D(r)
        BY <2>2, <4>1
      <4> QED
        BY <1>3, <1>5, <4>2 DEF d
    <3> QED
      BY <1>1, <3>1, <3>2
  <2>3. Matching(src, r) = CHOOSE j \in 1 .. r - 1 : Opens(j)
    BY DEF Matching, D
  <2> HIDE DEF Opens
  <2> QED
    BY <2>1, <2>2, <2>3
<1> QED
  BY <1>7, <1>8, <1>9

LEMMA FlatNode ==
  ASSUME NEW S, NEW src \in Seq(S), NEW node, NEW p \in 1 .. Len(src) + 1,
         NEW q \in 1 .. Len(src) + 1, NEW bound, NEW posn, NEW sym,
         NodeAt(node, p, q, bound, posn, src, sym), AllFlat(posn, bound, src)
  PROVE  /\ Flat(src, p, q)
         /\ node.op = "Loop" => Matching(src, p) = q - 1 /\ Matching(src, q - 1) = p
<1>1. Len(src) \in Nat
  BY LenProperties
<1>2. CASE node.op = "Loop"
  <2> DEFINE r == q - 1
             c == node.inner
  <2>1. /\ c \in 1 .. bound /\ posn[c][1] = p + 1 /\ Until(posn[c]) = r
        /\ p + 1 <= r /\ src[p] = "[" /\ src[r] = "]"
    BY <1>2 DEF NodeAt
  <2>2. Flat(src, p + 1, r)
    BY <2>1 DEF AllFlat
  <2>3. p \in 1 .. Len(src) /\ r \in 1 .. Len(src) /\ p < r /\ r + 1 = q
    <3>1. r \in Int /\ r + 1 = q /\ r <= Len(src)
      BY <1>1
    <3> HIDE DEF r
    <3> QED
      BY <1>1, <2>1, <3>1
  <2> HIDE DEF r, c
  <2>4. Flat(src, p, r + 1) /\ Matching(src, p) = r /\ Matching(src, r) = p
    BY <2>1, <2>2, <2>3, FlatPair
  <2> QED
    BY <2>3, <2>4 DEF r
<1>3. CASE node.op # "Loop"
  <2>1. q = p + 1 /\ src[p] # "[" /\ src[p] # "]"
    BY <1>3 DEF NodeAt
  <2>2. p \in 0 .. Len(src) /\ p > 0 /\ p - 1 \in 0 .. Len(src)
    BY <1>1, <2>1
  <2>3. Depth(src, p) = Depth(src, p - 1) /\ Depth(src, p - 1) \in Int
    <3>1. Depth(src, p - 1) \in Int
      BY <2>2, DepthStep
    <3>2. Depth(src, p) = Depth(src, p - 1) + 0
      BY <2>1, <2>2, DepthStep
    <3> QED
      BY <3>1, <3>2
  <2>4. q - 1 = p /\ \A j \in p - 1 .. p : j = p - 1 \/ j = p
    BY <1>1, <2>1
  <2> QED
    BY <1>3, <2>3, <2>4 DEF Flat
<1> QED
  BY <1>2, <1>3

LEMMA FlatVector ==
  ASSUME NEW S, NEW src \in Seq(S), NEW N, NEW vector \in Seq(N),
         NEW at, NEW bound, NEW posn, NEW sym,
         Lies(vector, at, bound, posn, src, sym), AllFlat(posn, bound, src)
  PROVE  \A k \in 1 .. Len(vector) + 1 : Flat(src, at[1], at[k])
<1> DEFINE n == Len(vector)
           T == {k \in 0 .. n : Flat(src, at[1], at[k + 1])}
<1>1. n \in Nat /\ \A k \in 1 .. n + 1 : at[k] \in 1 .. Len(src) + 1
  BY LiesRising
<1>2. 1 \in 1 .. n + 1
  BY <1>1
<1>3. 0 \in T
  <2>1. Flat(src, at[1], at[1])
    BY <1>1, <1>2, FlatNothing
  <2> QED
    BY <1>1, <2>1
<1>4. ASSUME NEW k \in 1 .. n, k - 1 \in T PROVE k \in T
  <2>1. k \in 1 .. n + 1 /\ k + 1 \in 1 .. n + 1 /\ (k - 1) + 1 = k
    BY <1>1
  <2> DEFINE a == at[1]
             p == at[k]
             q == at[k + 1]
             node == vector[k]
  <2>2. a \in 1 .. Len(src) + 1 /\ p \in 1 .. Len(src) + 1 /\ q \in 1 .. Len(src) + 1
    BY <1>1, <1>2, <2>1
  <2>3. Flat(src, a, p)
    BY <1>4, <2>1
  <2>4. NodeAt(node, p, q, bound, posn, src, sym)
    BY DEF Lies
  <2> HIDE DEF a, p, q, node, n, T
  <2>5. Flat(src, p, q)
    BY <2>2, <2>4, FlatNode
  <2>6. Flat(src, a, q)
    BY <2>2, <2>3, <2>5, FlatTogether
  <2> QED
    BY <1>1, <2>6 DEF a, q, T
<1>5. \A k \in 0 .. n : k \in T
  <2> HIDE DEF T, n
  <2> QED
    BY <1>1, <1>3, <1>4, Induction
<1>6. ASSUME NEW k \in 1 .. n + 1 PROVE Flat(src, at[1], at[k])
  <2>1. k - 1 \in 0 .. n /\ (k - 1) + 1 = k
    BY <1>1
  <2>2. k - 1 \in T
    BY <1>5, <2>1
  <2> QED
    BY <2>1, <2>2
<1> QED
  BY <1>6

LEMMA FlatSequences ==
  ASSUME NEW S, NEW src \in Seq(S), NEW N, NEW trees \in Seq(Seq(N)), NEW posn, NEW sym,
         Placed(trees, posn, src, sym)
  PROVE  AllFlat(posn, Len(trees), src)
<1> DEFINE n == Len(trees)
           SN == Seq(N)
           T == {s \in 1 .. n : Flat(src, posn[s][1], Until(posn[s]))}
<1>1. n \in Nat
  BY LenProperties
<1>2. ASSUME NEW s \in 1 .. n, \A c \in 1 .. s - 1 : c \in T PROVE s \in T
  <2> DEFINE vector == trees[s]
             at == posn[s]
             b == s - 1
  <2>1. vector \in Seq(N)
    <3>1. trees \in Seq(SN)
      OBVIOUS
    <3> HIDE DEF SN
    <3>2. trees[s] \in SN
      BY <3>1, ElementOfSeq
    <3> QED
      BY <3>2 DEF SN
  <2>2. Lies(vector, at, b, posn, src, sym)
    BY DEF Placed
  <2>3. AllFlat(posn, b, src)
    BY <1>2 DEF AllFlat
  <2> HIDE DEF vector, at, b, SN, T, n
  <2>4. /\ \A k \in 1 .. Len(vector) + 1 : Flat(src, at[1], at[k])
    BY <2>1, <2>2, <2>3, FlatVector
  <2>5. Until(at) = at[Len(vector) + 1] /\ Len(vector) \in Nat
    BY <2>1, <2>2, LiesRising
  <2>6. Len(vector) + 1 \in 1 .. Len(vector) + 1
    BY <2>5
  <2> QED
    BY <2>4, <2>5, <2>6 DEF at, T
<1>3. \A s \in 1 .. n : s \in T
  <2> HIDE DEF T, n
  <2> QED
    BY <1>1, <1>2, StrongInduction
<1> QED
  BY <1>3 DEF AllFlat

(* The text that has been parsed balances, and has as many openings as     *)
(* loops.                                                                  *)
LEMMA WholeBalances ==
  ASSUME NEW S, NEW src \in Seq(S), NEW N, NEW trees \in Seq(Seq(N)),
         NEW program, NEW posn, NEW sym,
         Whole(trees, program, posn, src, sym)
  PROVE  /\ Balanced(src)
         /\ Len(trees) = 1 + Cardinality(Occurrences(src, Len(src), "["))
<1> DEFINE n == Len(src)
<1>1. n \in Nat /\ n \in 0 .. n
  BY LenProperties
<1>2. /\ Placed(trees, posn, src, sym) /\ program \in 1 .. Len(trees)
      /\ posn[program][1] = 1 /\ Until(posn[program]) = n + 1
      /\ Len(trees) = 1 + Ends(src, n)
  BY DEF Whole
<1>3. Flat(src, 1, n + 1)
  <2>1. AllFlat(posn, Len(trees), src)
    BY <1>2, FlatSequences
  <2> QED
    BY <1>2, <2>1 DEF AllFlat
<1>4. Depth(src, 0) = 0
  BY DepthOfNothing
<1>5. (n + 1) - 1 = n /\ 1 - 1 = 0
  BY <1>1
<1>6. Depth(src, n) = 0 /\ \A j \in 0 .. n : Depth(src, j) >= 0
  BY <1>3, <1>4, <1>5 DEF Flat
<1>7. Balanced(src)
  BY <1>6 DEF Balanced, NeverNegative
<1>8. Cardinality(Occurrences(src, n, "[")) = Ends(src, n)
  <2>1. /\ Cardinality(Occurrences(src, n, "[")) \in Nat
        /\ Cardinality(Occurrences(src, n, "]")) \in Nat
    BY <1>1, CountStep
  <2> QED
    BY <1>6, <2>1 DEF Depth, Ends
<1> QED
  BY <1>2, <1>7, <1>8

=============================================================================
