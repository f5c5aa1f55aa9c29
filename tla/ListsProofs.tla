---------------------------- MODULE ListsProofs ----------------------------
(***************************************************************************)
(* What is left of a list when elements are taken out of it.  Without is a *)
(* recursive function: that it is defined, and what it computes, are shown *)
(* by inductions over sets of numbers, which rest on < being well-founded. *)
(***************************************************************************)
EXTENDS Lists, SequencesExt, WellFoundedInduction, SequenceTheorems, TLAPS

\* A set of numbers that has one has a least one.
LEMMA Least ==
    ASSUME NEW S, S \subseteq Nat, S # {}
    PROVE  \E k \in S : \A m \in S : k <= m
<1>1. PICK k \in S : \A m \in S : ~(<<m, k>> \in OpToRel(<, Nat))
    BY NatLessThanWellFounded, WFMin
<1>2. \A m \in S : ~(m < k)
    BY <1>1 DEF OpToRel
<1> QED
    BY <1>2

\* A set of numbers with 0 and each one's successor has all of them.
LEMMA Induction ==
    ASSUME NEW S, S \subseteq Nat, 0 \in S, \A k \in S : k + 1 \in S
    PROVE  S = Nat
<1> SUFFICES ASSUME Nat \ S # {} PROVE FALSE
    OBVIOUS
<1>1. PICK k \in Nat \ S : \A m \in Nat \ S : k <= m
    BY Least
<1>2. k # 0 /\ k - 1 \in Nat /\ k - 1 \in S
    BY <1>1
<1> QED
    BY <1>1, <1>2

-----------------------------------------------------------------------------
\* The function inside Without, and that it exists: each of its values is made
\* of the one before.
Body(f, s, M, i) ==
    IF i = 0 THEN <<>>
    ELSE IF s[i] \in M THEN f[i - 1]
    ELSE Append(f[i - 1], s[i])

\* What Without computes is the last value of such a function.
LEMMA Filtered ==
    ASSUME NEW s, NEW M, Len(s) \in Nat
    PROVE  \E f : /\ f = [i \in 0 .. Len(s) |-> Body(f, s, M, i)]
                  /\ Without(s, M) = f[Len(s)]
<1> DEFINE Is(f, k) == f = [i \in 0 .. k |-> Body(f, s, M, i)]
           S == {k \in Nat : \E f : Is(f, k)}
<1>1. 0 \in S
  <2>1. Is([i \in 0 .. 0 |-> <<>>], 0)
    BY DEF Body
  <2> QED
    BY <2>1
<1>2. ASSUME NEW k \in S PROVE k + 1 \in S
  <2>1. PICK f : Is(f, k)
    OBVIOUS
  <2> DEFINE g == [i \in 0 .. k + 1 |-> IF i <= k THEN f[i] ELSE Body(f, s, M, i)]
  <2>2. \A i \in 0 .. k + 1 : g[i] = Body(g, s, M, i)
    <3>1. \A i \in 0 .. k : f[i] = Body(f, s, M, i)
      BY <2>1
    <3> QED
      BY <3>1 DEF Body
  <2>3. Is(g, k + 1)
    BY <2>2
  <2> QED
    BY <2>3
<1>3. PICK f : Is(f, Len(s))
  <2>1. S = Nat
    <3> HIDE DEF S
    <3> QED BY <1>1, <1>2, Induction DEF S
  <2> QED
    BY <2>1
<1> DEFINE g == CHOOSE h : h = [i \in 0 .. Len(s) |-> Body(h, s, M, i)]
<1>4. g = [i \in 0 .. Len(s) |-> Body(g, s, M, i)]
    BY <1>3
<1>5. Without(s, M) = g[Len(s)]
    BY DEF Without, Body
<1> QED
    BY <1>4, <1>5

\* What is left: elements of the list, none of M and all the others, each as
\* often as before at most.
LEMMA WithoutProperties ==
    ASSUME NEW T, NEW s \in Seq(T), NEW M
    PROVE  /\ Without(s, M) \in Seq(T)
           /\ ToSet(Without(s, M)) = ToSet(s) \ M
           /\ IsInjective(s) => IsInjective(Without(s, M))
<1>1. Len(s) \in Nat /\ DOMAIN s = 1 .. Len(s) /\ s \in [1 .. Len(s) -> T]
    BY LenProperties
<1>2. PICK f : f = [i \in 0 .. Len(s) |-> Body(f, s, M, i)] /\ Without(s, M) = f[Len(s)]
    BY <1>1, Filtered
<1> DEFINE First(i) == {s[j] : j \in 1 .. i}
           Good(i) == /\ f[i] \in Seq(T)
                      /\ ToSet(f[i]) = First(i) \ M
                      /\ IsInjective(s) => IsInjective(f[i])
           S == {i \in Nat : i <= Len(s) => Good(i)}
<1>3. 0 \in S
  <2>1. f[0] = <<>>
    BY <1>1, <1>2 DEF Body
  <2>2. ToSet(<<>>) = {} /\ First(0) = {} /\ IsInjective(<<>>)
    BY DEF ToSet, IsInjective
  <2>3. f[0] \in Seq(T)
    BY <2>1
  <2>4. Good(0)
    BY <2>1, <2>2, <2>3, Zenon
  <2> QED
    BY <2>4
<1>4. ASSUME NEW i \in S PROVE i + 1 \in S
  <2> SUFFICES ASSUME i + 1 <= Len(s) PROVE Good(i + 1)
    OBVIOUS
  <2>1. i \in Nat /\ i + 1 \in 1 .. Len(s) /\ i \in 0 .. Len(s) /\ Good(i)
    BY <1>1
  <2>2. f[i + 1] = IF s[i + 1] \in M THEN f[i] ELSE Append(f[i], s[i + 1])
    <3>1. f[i + 1] = Body(f, s, M, i + 1)
      BY <1>1, <1>2, <2>1
    <3>2. i + 1 # 0 /\ (i + 1) - 1 = i
      BY <2>1
    <3> QED
      BY <3>1, <3>2, Zenon DEF Body
  <2>3. First(i + 1) = First(i) \cup {s[i + 1]}
    BY <2>1
  <2>4. CASE s[i + 1] \in M
    BY <2>1, <2>2, <2>3, <2>4
  <2>5. CASE s[i + 1] \notin M
    <3>1. s[i + 1] \in T
      BY <1>1, <2>1
    <3> DEFINE g == Append(f[i], s[i + 1])
    <3>2. /\ g \in Seq(T) /\ Len(g) = Len(f[i]) + 1 /\ Len(f[i]) \in Nat
          /\ \A j \in 1 .. Len(f[i]) : g[j] = f[i][j]
          /\ g[Len(f[i]) + 1] = s[i + 1]
      BY <2>1, <3>1, AppendProperties, LenProperties
    <3>3. DOMAIN g = 1 .. Len(f[i]) + 1 /\ DOMAIN f[i] = 1 .. Len(f[i])
      BY <2>1, <3>2, LenProperties
    <3> HIDE DEF g
    <3>4. ToSet(g) = ToSet(f[i]) \cup {s[i + 1]}
      <4>1. \A j \in DOMAIN g : g[j] \in ToSet(f[i]) \cup {s[i + 1]}
        <5> SUFFICES ASSUME NEW j \in DOMAIN g
                     PROVE  g[j] \in ToSet(f[i]) \cup {s[i + 1]}
          OBVIOUS
        <5>1. CASE j \in 1 .. Len(f[i])
          <6>1. g[j] = f[i][j] /\ j \in DOMAIN f[i]
            BY <3>2, <3>3, <5>1
          <6> QED
            BY <6>1 DEF ToSet
        <5>2. CASE j = Len(f[i]) + 1
          BY <3>2, <5>2
        <5> QED
          BY <3>2, <3>3, <5>1, <5>2
      <4>2. \A j \in DOMAIN f[i] : \E k \in DOMAIN g : g[k] = f[i][j]
        BY <3>2, <3>3
      <4>3. Len(f[i]) + 1 \in DOMAIN g
        BY <3>2, <3>3
      <4>4. ToSet(f[i]) \subseteq ToSet(g)
        BY <4>2 DEF ToSet
      <4>5. s[i + 1] \in ToSet(g)
        BY <3>2, <4>3 DEF ToSet
      <4>6. ToSet(g) \subseteq ToSet(f[i]) \cup {s[i + 1]}
        BY <4>1 DEF ToSet
      <4> QED
        BY <4>4, <4>5, <4>6
    <3>5. ASSUME IsInjective(s) PROVE IsInjective(g)
      <4>1. s[i + 1] \notin First(i)
        BY <1>1, <2>1, <3>5 DEF IsInjective
      <4>2. \A j \in 1 .. Len(f[i]) : f[i][j] # s[i + 1]
        BY <2>1, <3>3, <4>1 DEF ToSet
      <4>3. IsInjective(f[i])
        BY <2>1, <3>5
      <4> QED
        <5> SUFFICES ASSUME NEW a \in DOMAIN g, NEW b \in DOMAIN g, g[a] = g[b]
                     PROVE  a = b
          BY DEF IsInjective
        <5>1. CASE a \in 1 .. Len(f[i]) /\ b \in 1 .. Len(f[i])
          <6>1. f[i][a] = f[i][b]
            BY <3>2, <5>1
          <6> QED
            BY <3>3, <4>3, <5>1, <6>1 DEF IsInjective
        <5> QED
          <6>1. (a = Len(f[i]) + 1 /\ b \in 1 .. Len(f[i])) => FALSE
            BY <3>2, <4>2
          <6>2. (b = Len(f[i]) + 1 /\ a \in 1 .. Len(f[i])) => FALSE
            BY <3>2, <4>2
          <6> QED
            BY <3>2, <3>3, <5>1, <6>1, <6>2
    <3> QED
      BY <2>1, <2>2, <2>3, <2>5, <3>2, <3>4, <3>5 DEF g
  <2> QED
    BY <2>4, <2>5
<1>5. S = Nat
  <2> HIDE DEF S
  <2> QED
    BY <1>3, <1>4, Induction DEF S
<1>6. Good(Len(s))
  <2>1. Len(s) \in S
    BY <1>1, <1>5
  <2> QED
    BY <1>1, <2>1
<1>7. First(Len(s)) = ToSet(s)
    BY <1>1 DEF ToSet
<1> QED
    BY <1>2, <1>6, <1>7
=============================================================================
