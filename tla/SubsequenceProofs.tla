-------------------------- MODULE SubsequenceProofs --------------------------
(***************************************************************************)
(* What a filtered sequence is: the elements at the positions kept, in      *)
(* their order.                                                             *)
(*                                                                         *)
(* Subsequence is a recursive function, so this takes an induction.  The    *)
(* induction is by the smallest counterexample: a set of numbers that is    *)
(* not empty has a smallest member, which the library derives from the      *)
(* well-foundedness of the order of the numbers.                            *)
(***************************************************************************)
EXTENDS Subsequences, Integers, WellFoundedInduction, TLAPS

\* A set of numbers that is not empty has a smallest member.
LEMMA Smallest ==
    ASSUME NEW T, T \subseteq Nat, T # {}
    PROVE  \E m \in T : \A n \in T : m <= n
<1>1. IsWellFoundedOn(OpToRel(<, Nat), Nat)
  BY NatLessThanWellFounded
<1>2. PICK x \in T : \A y \in T : <<y, x>> \notin OpToRel(<, Nat)
  BY <1>1, WFMin
<1>3. \A y \in T : ~ (y < x)
  BY <1>2 DEF OpToRel
<1> QED BY <1>3

\* A set that holds 0 and, with every number below n, the next one, holds all
\* numbers up to n.
LEMMA UpTo ==
    ASSUME NEW n \in Nat, NEW S, 0 \in S,
           \A k \in 0 .. n - 1 : k \in S => k + 1 \in S
    PROVE  \A k \in 0 .. n : k \in S
<1> DEFINE T == {k \in 0 .. n : k \notin S}
<1> SUFFICES ASSUME T # {} PROVE FALSE
  OBVIOUS
<1>1. PICK m \in T : \A k \in T : m <= k
  <2>1. T \subseteq Nat
    OBVIOUS
  <2> HIDE DEF T
  <2> QED BY <2>1, Smallest
<1>2. m \in 0 .. n /\ m \notin S /\ m # 0
  OBVIOUS
<1>3. m - 1 \in 0 .. n - 1 /\ m - 1 + 1 = m /\ ~ (m <= m - 1)
  BY <1>2
<1>4. m - 1 \in S
  BY <1>1, <1>3
<1> QED BY <1>2, <1>3, <1>4

\* f starts with base and goes on by steps, n times.
Iterates(f, n, X, base, step) ==
    /\ f \in [0 .. n -> X]
    /\ f[0] = base
    /\ \A i \in 1 .. n : f[i] = step[i][f[i - 1]]

\* A value for 0 and a step from each value to the next make a function.
LEMMA Recursion ==
    ASSUME NEW n \in Nat, NEW X, NEW base \in X,
           NEW step \in [1 .. n -> [X -> X]]
    PROVE  \E f : Iterates(f, n, X, base, step)
<1> DEFINE Up(k, f) == /\ f \in [0 .. k -> X]
                       /\ f[0] = base
                       /\ \A i \in 1 .. k : f[i] = step[i][f[i - 1]]
           S == {k \in 0 .. n : \E f \in [0 .. k -> X] : Up(k, f)}
<1>1. 0 \in S
  <2> DEFINE f == [i \in 0 .. 0 |-> base]
  <2>1. f \in [0 .. 0 -> X] /\ f[0] = base
    OBVIOUS
  <2> HIDE DEF f
  <2>2. Up(0, f)
    BY <2>1
  <2> QED BY <2>1, <2>2
<1>2. ASSUME NEW k \in 0 .. n - 1, k \in S PROVE k + 1 \in S
  <2>1. PICK f \in [0 .. k -> X] : Up(k, f)
    BY <1>2
  <2> DEFINE g == [i \in 0 .. k + 1 |-> IF i = k + 1 THEN step[k + 1][f[k]] ELSE f[i]]
  <2>2. k + 1 \in 1 .. n /\ f[k] \in X /\ k \in Nat
    OBVIOUS
  <2>3. step[k + 1][f[k]] \in X
    BY <2>2
  <2>4. g \in [0 .. k + 1 -> X]
    BY <2>1, <2>2, <2>3
  <2>5. g[k + 1] = step[k + 1][f[k]] /\ \A i \in 0 .. k : g[i] = f[i]
    BY <2>2
  <2> HIDE DEF g
  <2>6. g[0] = base
    BY <2>1, <2>2, <2>5
  <2>7. ASSUME NEW i \in 1 .. k + 1 PROVE g[i] = step[i][g[i - 1]]
    <3>1. CASE i = k + 1
      BY <2>2, <2>5, <3>1
    <3>2. CASE i # k + 1
      <4>1. i \in 1 .. k /\ i \in 0 .. k /\ i - 1 \in 0 .. k
        BY <2>2, <3>2
      <4> QED BY <2>1, <2>5, <4>1
    <3> QED BY <3>1, <3>2
  <2>8. Up(k + 1, g)
    BY <2>4, <2>6, <2>7
  <2>9. k + 1 \in 0 .. n
    BY <2>2
  <2> HIDE DEF Up
  <2> QED BY <2>4, <2>8, <2>9
<1> HIDE DEF S
<1>3. \A k \in 0 .. n : k \in S
  BY <1>1, <1>2, UpTo
<1>4. n \in S
  BY <1>3
<1> QED BY <1>4 DEF S, Iterates

----------------------------------------------------------------------------
\* f[i] is what is left of the first i elements of s.
Filters(f, S, s, D) ==
    /\ f \in [0 .. Len(s) -> Seq(S)]
    /\ f[0] = <<>>
    /\ \A i \in 1 .. Len(s) :
         f[i] = IF i \in D THEN Append(f[i - 1], s[i]) ELSE f[i - 1]
    /\ Subsequence(s, D) = f[Len(s)]

\* The recursion that defines Subsequence has a solution, so it is one.
LEMMA SubsequenceUnfolds ==
    ASSUME NEW S, NEW s \in Seq(S), NEW D
    PROVE  \E f : Filters(f, S, s, D)
<1> DEFINE n == Len(s)
           step == [i \in 1 .. n |->
                      [q \in Seq(S) |-> IF i \in D THEN Append(q, s[i]) ELSE q]]
           Body(f) == [i \in 0 .. n |->
                         IF i = 0 THEN <<>>
                         ELSE IF i \in D THEN Append(f[i - 1], s[i])
                         ELSE f[i - 1]]
           whole == CHOOSE f : f = Body(f)
<1>1. n \in Nat /\ <<>> \in Seq(S)
  OBVIOUS
<1>2. step \in [1 .. n -> [Seq(S) -> Seq(S)]]
  OBVIOUS
<1>3. PICK g \in [0 .. n -> Seq(S)] :
        g[0] = <<>> /\ \A i \in 1 .. n : g[i] = step[i][g[i - 1]]
  <2> DEFINE X == Seq(S)
             base == <<>>
  <2>1. n \in Nat /\ base \in X /\ step \in [1 .. n -> [X -> X]]
    BY <1>1, <1>2
  <2> HIDE DEF n, X, base, step
  <2>2. \E g : Iterates(g, n, X, base, step)
    BY <2>1, Recursion
  <2> QED BY <2>2 DEF X, base, Iterates
<1>4. g = Body(g)
  <2>1. ASSUME NEW i \in 0 .. n
        PROVE  g[i] = IF i = 0 THEN <<>>
                      ELSE IF i \in D THEN Append(g[i - 1], s[i])
                      ELSE g[i - 1]
    <3>1. CASE i = 0
      BY <1>3, <3>1
    <3>2. CASE i # 0
      <4>1. i \in 1 .. n /\ i - 1 \in 0 .. n
        BY <1>1, <3>2
      <4>2. g[i - 1] \in Seq(S)
        BY <4>1
      <4> QED BY <1>3, <3>2, <4>1, <4>2
    <3> QED BY <3>1, <3>2
  <2> HIDE DEF n
  <2> QED BY <2>1
<1>5. whole = Body(whole)
  <2> HIDE DEF Body
  <2> QED BY <1>4
<1>6. Subsequence(s, D) = whole[n]
  BY DEF Subsequence
<1> HIDE DEF whole
<1>7. /\ whole[0] = <<>>
      /\ \A i \in 1 .. n :
           whole[i] = IF i \in D THEN Append(whole[i - 1], s[i]) ELSE whole[i - 1]
      /\ whole = [i \in 0 .. n |-> whole[i]]
  <2>1. whole = [i \in 0 .. n |-> IF i = 0 THEN <<>>
                                 ELSE IF i \in D THEN Append(whole[i - 1], s[i])
                                 ELSE whole[i - 1]]
    BY <1>5
  <2>2. 0 \in 0 .. n /\ \A i \in 1 .. n : i \in 0 .. n /\ i # 0
    BY <1>1
  <2> HIDE DEF n
  <2> QED BY <2>1, <2>2
<1>8. \A k \in 0 .. n : whole[k] \in Seq(S)
  <2> DEFINE T == {k \in 0 .. n : whole[k] \in Seq(S)}
  <2>1. 0 \in T
    BY <1>1, <1>7
  <2>2. ASSUME NEW k \in 0 .. n - 1, k \in T PROVE k + 1 \in T
    <3>1. k + 1 \in 1 .. n /\ k + 1 \in 0 .. n /\ k + 1 - 1 = k
      BY <1>1
    <3>2. s[k + 1] \in S /\ whole[k] \in Seq(S)
      BY <2>2, <3>1
    <3>3. Append(whole[k], s[k + 1]) \in Seq(S)
      BY <3>2
    <3> HIDE DEF n
    <3>4. whole[k + 1] = Append(whole[k], s[k + 1]) \/ whole[k + 1] = whole[k]
      <4>1. \A i \in 1 .. n : whole[i] = Append(whole[i - 1], s[i])
                              \/ whole[i] = whole[i - 1]
        BY <1>7
      <4> HIDE DEF n
      <4>2. \/ whole[k + 1] = Append(whole[k + 1 - 1], s[k + 1])
            \/ whole[k + 1] = whole[k + 1 - 1]
        BY <3>1, <4>1
      <4> QED BY <3>1, <4>2
    <3>5. whole[k + 1] \in Seq(S)
      BY <3>2, <3>3, <3>4
    <3> QED BY <3>1, <3>5
  <2> HIDE DEF T
  <2>3. \A k \in 0 .. n : k \in T
    BY <1>1, <2>1, <2>2, UpTo
  <2> QED BY <2>3 DEF T
<1>9. whole \in [0 .. n -> Seq(S)]
  <2> HIDE DEF n
  <2> QED BY <1>7, <1>8
<1> QED BY <1>6, <1>7, <1>9 DEF Filters

\* h lists, in order, the positions among the first n of s that are in D, and
\* q is s at these positions.
Lists(h, q, s, D, n) ==
    /\ h \in Seq(Nat) /\ Len(h) = Len(q)
    /\ \A k \in 1 .. Len(h) : h[k] \in 1 .. n /\ h[k] \in D /\ q[k] = s[h[k]]
    /\ \A k, l \in 1 .. Len(h) : k < l => h[k] < h[l]
    /\ \A d \in 1 .. n : d \in D => \E k \in 1 .. Len(h) : h[k] = d

\* A filtered sequence is the sequence at the positions kept, in their order.
LEMMA SubsequenceLists ==
    ASSUME NEW S, NEW s \in Seq(S), NEW D
    PROVE  /\ Subsequence(s, D) \in Seq(S)
           /\ \E h \in Seq(Nat) : Lists(h, Subsequence(s, D), s, D, Len(s))
<1>0. PICK f : Filters(f, S, s, D)
  BY SubsequenceUnfolds
<1>1. /\ f \in [0 .. Len(s) -> Seq(S)]
      /\ f[0] = <<>>
      /\ \A i \in 1 .. Len(s) :
           f[i] = IF i \in D THEN Append(f[i - 1], s[i]) ELSE f[i - 1]
      /\ Subsequence(s, D) = f[Len(s)]
  BY <1>0 DEF Filters
<1>2. Len(s) \in Nat
  OBVIOUS
<1> DEFINE T == {n \in 0 .. Len(s) : \E h \in Seq(Nat) : Lists(h, f[n], s, D, n)}
<1>3. 0 \in T
  <2>1. Lists(<<>>, f[0], s, D, 0)
    BY <1>1 DEF Lists
  <2>2. <<>> \in Seq(Nat) /\ 0 \in 0 .. Len(s)
    BY <1>2
  <2> QED BY <2>1, <2>2
<1>4. ASSUME NEW n \in 0 .. Len(s) - 1, n \in T PROVE n + 1 \in T
  <2>1. PICK h \in Seq(Nat) : Lists(h, f[n], s, D, n)
    BY <1>4
  <2>2. n + 1 \in 1 .. Len(s) /\ n + 1 \in 0 .. Len(s) /\ n + 1 - 1 = n /\ n \in Nat
    BY <1>2
  <2>3. f[n + 1] = IF n + 1 \in D THEN Append(f[n], s[n + 1]) ELSE f[n]
    BY <1>1, <2>2
  <2>4. CASE n + 1 \notin D
    <3>1. Lists(h, f[n + 1], s, D, n + 1)
      BY <2>1, <2>2, <2>3, <2>4 DEF Lists
    <3> QED BY <2>2, <3>1
  <2>5. CASE n + 1 \in D
    <3> DEFINE g == Append(h, n + 1)
               q == Append(f[n], s[n + 1])
    <3>1. f[n + 1] = q
      BY <2>3, <2>5
    <3>2. /\ Len(h) \in Nat /\ g \in Seq(Nat) /\ Len(g) = Len(h) + 1
          /\ g[Len(h) + 1] = n + 1 /\ \A k \in 1 .. Len(h) : g[k] = h[k]
      BY <2>2
    <3>3. /\ Len(q) = Len(h) + 1 /\ q[Len(h) + 1] = s[n + 1]
          /\ \A k \in 1 .. Len(h) : q[k] = f[n][k]
      <4>1. f[n] \in Seq(S)
        BY <1>1, <2>2
      <4>2. Len(f[n]) = Len(h)
        BY <2>1 DEF Lists
      <4> QED BY <4>1, <4>2
    <3> HIDE DEF g, q
    <3>4. \A k \in 1 .. Len(g) : k = Len(h) + 1 \/ k \in 1 .. Len(h)
      BY <3>2
    <3>5. \A k \in 1 .. Len(g) : g[k] \in 1 .. n + 1 /\ g[k] \in D /\ q[k] = s[g[k]]
      <4> SUFFICES ASSUME NEW k \in 1 .. Len(g)
                   PROVE  g[k] \in 1 .. n + 1 /\ g[k] \in D /\ q[k] = s[g[k]]
        OBVIOUS
      <4>1. CASE k = Len(h) + 1
        BY <2>2, <2>5, <3>2, <3>3, <4>1
      <4>2. CASE k \in 1 .. Len(h)
        <5>1. h[k] \in 1 .. n /\ h[k] \in D /\ f[n][k] = s[h[k]]
          BY <2>1, <4>2 DEF Lists
        <5>2. g[k] = h[k] /\ q[k] = f[n][k]
          BY <3>2, <3>3, <4>2
        <5> QED BY <2>2, <5>1, <5>2
      <4> QED BY <3>4, <4>1, <4>2
    <3>6. ASSUME NEW k \in 1 .. Len(g), NEW l \in 1 .. Len(g), k < l
          PROVE  g[k] < g[l]
      <4>1. k \in 1 .. Len(h)
        BY <3>2, <3>6
      <4>2. h[k] \in 1 .. n
        BY <2>1, <4>1 DEF Lists
      <4>3. CASE l = Len(h) + 1
        BY <2>2, <3>2, <4>1, <4>2, <4>3
      <4>4. CASE l # Len(h) + 1
        BY <2>1, <3>2, <3>4, <3>6, <4>1, <4>4 DEF Lists
      <4> QED BY <4>3, <4>4
    <3>7. ASSUME NEW d \in 1 .. n + 1, d \in D
          PROVE  \E k \in 1 .. Len(g) : g[k] = d
      <4>1. CASE d = n + 1
        BY <3>2, <4>1
      <4>2. CASE d # n + 1
        <5>1. PICK k \in 1 .. Len(h) : h[k] = d
          BY <2>1, <2>2, <3>7, <4>2 DEF Lists
        <5> QED BY <3>2, <5>1
      <4> QED BY <4>1, <4>2
    <3>8. Lists(g, q, s, D, n + 1)
      BY <3>2, <3>3, <3>5, <3>6, <3>7 DEF Lists
    <3> QED BY <2>2, <3>1, <3>2, <3>8
  <2> QED BY <2>4, <2>5
<1> HIDE DEF T
<1>5. \A n \in 0 .. Len(s) : n \in T
  BY <1>2, <1>3, <1>4, UpTo
<1>6. Len(s) \in T
  BY <1>2, <1>5
<1> QED BY <1>1, <1>2, <1>6 DEF T
=============================================================================
