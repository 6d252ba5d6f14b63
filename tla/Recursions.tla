------------------------------ MODULE Recursions ------------------------------
(***************************************************************************)
(* Induction and recursion over the natural numbers, stated for sets and    *)
(* functions, so that they can be cited: the set of the numbers for which    *)
(* something holds, and the function that makes one step of a recursion.    *)
(***************************************************************************)
EXTENDS Integers, TLAPS, NaturalsInduction, WellFoundedInduction

\* A set of natural numbers that is not empty has a least one.
LEMMA Least ==
  ASSUME NEW S, S \subseteq Nat, S # {}
  PROVE  \E n \in S : \A m \in S : n <= m
<1> DEFINE R == {ss \in Nat \X Nat : ss[1] < ss[2]}
<1>1. IsWellFoundedOn(R, Nat)
  BY NatLessThanWellFounded DEF OpToRel
<1>2. PICK n \in S : \A m \in S : <<m, n>> \notin R
  <2> HIDE DEF R
  <2> QED BY <1>1, WFMin
<1>3. ASSUME NEW m \in S PROVE n <= m
  <2>1. m \in Nat /\ n \in Nat
    OBVIOUS
  <2>2. m < n => <<m, n>> \in R
    BY <2>1
  <2> QED BY <1>2, <2>1, <2>2
<1> QED BY <1>3

\* Induction over the natural numbers, for a set that holds what is to be shown.
LEMMA Induction ==
  ASSUME NEW S, 0 \in S, \A n \in Nat : n \in S => n + 1 \in S
  PROVE  Nat \subseteq S
<1> SUFFICES ASSUME Nat \ S # {} PROVE FALSE
  OBVIOUS
<1>1. PICK n \in Nat \ S : \A m \in Nat \ S : n <= m
  BY Least
<1>2. n - 1 \in Nat /\ n - 1 \notin Nat \ S
  BY <1>1
<1> QED BY <1>1, <1>2

\* There is a function that starts with a and makes one step after the other.
Recurs(S, a, step) ==
  \E f \in [Nat -> S] : f[0] = a /\ \A n \in Nat : f[n + 1] = step[f[n]]

\* A step repeated from a has a function on the naturals that follows it.
LEMMA Recursion ==
  ASSUME NEW S, NEW a \in S, NEW step \in [S -> S]
  PROVE  Recurs(S, a, step)
<1> DEFINE Upto(n, g) == g \in [0 .. n -> S] /\ g[0] = a /\ \A i \in 1 .. n : g[i] = step[g[i - 1]]
           T == {n \in Nat : \E g : Upto(n, g)}
<1>1. 0 \in T
  <2>1. Upto(0, [i \in 0 .. 0 |-> a])
    OBVIOUS
  <2> QED BY <2>1
<1>2. ASSUME NEW n \in Nat, n \in T PROVE n + 1 \in T
  <2>1. PICK g : Upto(n, g)
    BY <1>2
  <2> DEFINE h == [i \in 0 .. n + 1 |-> IF i = n + 1 THEN step[g[n]] ELSE g[i]]
  <2>2. h \in [0 .. n + 1 -> S]
    BY <2>1
  <2>3. h[0] = a
    BY <2>1
  <2>4. ASSUME NEW i \in 1 .. n + 1 PROVE h[i] = step[h[i - 1]]
    <3>1. i - 1 \in 0 .. n /\ h[i - 1] = g[i - 1]
      OBVIOUS
    <3>2. CASE i = n + 1
      BY <3>1, <3>2
    <3>3. CASE i # n + 1
      <4>1. i \in 1 .. n /\ h[i] = g[i]
        BY <3>3
      <4> QED BY <2>1, <3>1, <4>1
    <3> QED BY <3>2, <3>3
  <2>5. Upto(n + 1, h)
    BY <2>2, <2>3, <2>4
  <2> QED BY <2>5
<1>3. Nat \subseteq T
  <2> HIDE DEF T
  <2> QED BY <1>1, <1>2, Induction
<1> DEFINE F == [n \in Nat |-> CHOOSE g : Upto(n, g)]
<1>4. ASSUME NEW n \in Nat PROVE Upto(n, F[n])
  BY <1>3
<1>5. ASSUME NEW n \in Nat, NEW g, NEW h, Upto(n, g), Upto(n, h)
      PROVE  \A i \in 0 .. n : g[i] = h[i]
  <2> DEFINE E == {i \in Nat : i <= n => g[i] = h[i]}
  <2>1. 0 \in E
    BY <1>5
  <2>2. ASSUME NEW i \in Nat, i \in E PROVE i + 1 \in E
    <3> SUFFICES ASSUME i + 1 <= n PROVE g[i + 1] = h[i + 1]
      OBVIOUS
    <3>1. i + 1 \in 1 .. n /\ g[i] = h[i] /\ (i + 1) - 1 = i
      BY <2>2
    <3> QED BY <1>5, <3>1
  <2>3. Nat \subseteq E
    <3> HIDE DEF E
    <3> QED BY <2>1, <2>2, Induction
  <2> QED BY <2>3
<1> DEFINE f == [n \in Nat |-> F[n][n]]
<1>6. f \in [Nat -> S]
  <2>1. ASSUME NEW n \in Nat PROVE F[n][n] \in S
    <3>1. F[n] \in [0 .. n -> S] /\ n \in 0 .. n
      <4> HIDE DEF F
      <4> QED BY <1>4
    <3> QED BY <3>1
  <2> QED BY <2>1
<1>7. ASSUME NEW n \in Nat PROVE f[n] = IF n = 0 THEN a ELSE step[f[n - 1]]
  <2>1. CASE n = 0
    BY <1>4, <2>1
  <2>2. CASE n # 0
    <3>1. n - 1 \in Nat /\ n \in 1 .. n /\ n - 1 \in 0 .. n - 1
      BY <2>2
    <3>2. Upto(n, F[n]) /\ Upto(n - 1, F[n - 1])
      BY <1>4, <3>1
    <3>3. Upto(n - 1, [i \in 0 .. n - 1 |-> F[n][i]])
      <4> DEFINE g == F[n]
                 h == [i \in 0 .. n - 1 |-> g[i]]
      <4>1. Upto(n, g)
        BY <3>2
      <4> HIDE DEF F, g
      <4>2. h \in [0 .. n - 1 -> S] /\ h[0] = a
        BY <3>1, <4>1
      <4>3. ASSUME NEW i \in 1 .. n - 1 PROVE h[i] = step[h[i - 1]]
        <5>1. i \in 1 .. n /\ i \in 0 .. n - 1 /\ i - 1 \in 0 .. n - 1
          OBVIOUS
        <5> QED BY <4>1, <5>1
      <4>4. Upto(n - 1, h)
        BY <4>2, <4>3
      <4> QED BY <4>4 DEF g
    <3>4. F[n][n - 1] = F[n - 1][n - 1]
      <4> HIDE DEF Upto, F
      <4>1. [i \in 0 .. n - 1 |-> F[n][i]][n - 1] = F[n - 1][n - 1]
        BY <1>5, <3>1, <3>2, <3>3
      <4> QED BY <3>1, <4>1
    <3>5. F[n][n] = step[F[n][n - 1]]
      BY <3>1, <3>2
    <3>6. f[n] = F[n][n] /\ f[n - 1] = F[n - 1][n - 1]
      <4> HIDE DEF F
      <4> QED BY <3>1
    <3> HIDE DEF f, F
    <3> QED BY <2>2, <3>4, <3>5, <3>6
  <2> QED BY <2>1, <2>2
<1> HIDE DEF f
<1>8. f[0] = a
  BY <1>7
<1>9. ASSUME NEW n \in Nat PROVE f[n + 1] = step[f[n]]
  <2>1. n + 1 \in Nat /\ n + 1 # 0 /\ (n + 1) - 1 = n
    OBVIOUS
  <2> QED BY <1>7, <2>1
<1> QED BY <1>6, <1>8, <1>9 DEF Recurs

\* The same for n steps, each of which may know its number.
Unrolls(S, a, step, n) ==
  \E f \in [0 .. n -> S] : f[0] = a /\ \A i \in 1 .. n : f[i] = step[<<i, f[i - 1]>>]

\* A step that is given its number, repeated n times from a, has a function on 0 .. n.
LEMMA Unrolling ==
  ASSUME NEW S, NEW a \in S, NEW n \in Nat, NEW step \in [(1 .. n) \X S -> S]
  PROVE  Unrolls(S, a, step, n)
<1> DEFINE Upto(k, f) ==
             f \in [0 .. k -> S] /\ f[0] = a /\ \A i \in 1 .. k : f[i] = step[<<i, f[i - 1]>>]
           T == {k \in Nat : k <= n => \E f : Upto(k, f)}
<1>1. 0 \in T
  <2>1. Upto(0, [i \in 0 .. 0 |-> a])
    OBVIOUS
  <2> QED BY <2>1
<1>2. ASSUME NEW k \in Nat, k \in T PROVE k + 1 \in T
  <2> SUFFICES ASSUME k + 1 <= n PROVE \E f : Upto(k + 1, f)
    OBVIOUS
  <2>1. PICK f : Upto(k, f)
    BY <1>2
  <2>2. f[k] \in S /\ k + 1 \in 1 .. n
    BY <2>1
  <2>3. step[<<k + 1, f[k]>>] \in S
    BY <2>2
  <2> DEFINE g == [i \in 0 .. k + 1 |-> IF i = k + 1 THEN step[<<k + 1, f[k]>>] ELSE f[i]]
  <2>4. g \in [0 .. k + 1 -> S] /\ g[0] = a
    BY <2>1, <2>3
  <2>5. ASSUME NEW i \in 1 .. k + 1 PROVE g[i] = step[<<i, g[i - 1]>>]
    <3>1. i - 1 \in 0 .. k /\ g[i - 1] = f[i - 1]
      OBVIOUS
    <3>2. CASE i = k + 1
      <4>1. i - 1 = k /\ g[i] = step[<<k + 1, f[k]>>]
        BY <3>2
      <4> HIDE DEF g
      <4> QED BY <3>1, <3>2, <4>1
    <3>3. CASE i # k + 1
      <4>1. i \in 1 .. k /\ g[i] = f[i]
        BY <3>3
      <4> QED BY <2>1, <3>1, <4>1
    <3> QED BY <3>2, <3>3
  <2>6. Upto(k + 1, g)
    BY <2>4, <2>5
  <2> QED BY <2>6
<1>3. n \in T
  <2> HIDE DEF T
  <2> QED BY <1>1, <1>2, Induction
<1> QED BY <1>3 DEF Unrolls
===============================================================================
