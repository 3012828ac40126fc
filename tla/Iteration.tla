------------------------------ MODULE Iteration ------------------------------
(***************************************************************************)
(* Induction over the natural numbers, from the fact that every set of     *)
(* them has a least one, and what follows from it for a function that is   *)
(* defined by its value at the number before.                              *)
(***************************************************************************)
EXTENDS Integers, WellFoundedInduction, TLAPS

\* A set of natural numbers has a least one.
LEMMA LeastNumber ==
  ASSUME NEW S, S \subseteq Nat, S # {}
  PROVE  \E least \in S : \A n \in S : least <= n
<1>1. IsWellFoundedOn(OpToRel(<, Nat), Nat)
  BY NatLessThanWellFounded
<1>2. PICK least \in S : \A n \in S : <<n, least>> \notin OpToRel(<, Nat)
  BY <1>1, WFMin
<1>3. \A n \in S : ~(n < least) /\ n \in Nat /\ least \in Nat
  BY <1>2 DEF OpToRel
<1>4. \A n \in S : least <= n
  BY <1>3
<1> QED  BY <1>4

\* What holds of 0 and of every successor holds of every number.
LEMMA Induction ==
  ASSUME NEW S, 0 \in S, \A n \in Nat : n \in S => n + 1 \in S
  PROVE  Nat \subseteq S
<1> SUFFICES ASSUME ~(Nat \subseteq S) PROVE FALSE
  OBVIOUS
<1> DEFINE T == {n \in Nat : n \notin S}
<1>1. PICK least \in T : \A n \in T : least <= n
  <2>1. T # {} /\ T \subseteq Nat
    OBVIOUS
  <2> HIDE DEF T
  <2> QED  BY <2>1, LeastNumber
<1>2. least \in Nat /\ least # 0 /\ least \notin S
  BY <1>1
<1>3. least - 1 \in Nat /\ least - 1 \notin T
  BY <1>1, <1>2
<1>4. least - 1 \in S
  BY <1>3
<1> QED  BY <1>2, <1>3, <1>4

\* Where a function is applied again and again, starting from start, what it comes to is
\* a function of the number of steps.
LEMMA StepsAreAFunction ==
  ASSUME NEW start, NEW step
  PROVE  \E walk : walk = [i \in Nat |-> IF i = 0 THEN start ELSE step[walk[i - 1]]]
<1> DEFINE Reaches(w, n) == w = [i \in 0..n |-> IF i = 0 THEN start ELSE step[w[i - 1]]]
           S == {n \in Nat : \E w : Reaches(w, n)}
           Choice(n) == CHOOSE w : Reaches(w, n)
           walk == [n \in Nat |-> Choice(n)[n]]
<1>1. \A n \in Nat : \E w : Reaches(w, n)
  <2>1. 0 \in S
    <3>1. Reaches([i \in 0..0 |-> start], 0)
      OBVIOUS
    <3> QED  BY <3>1
  <2>2. ASSUME NEW n \in Nat, n \in S PROVE n + 1 \in S
    <3>1. PICK w : Reaches(w, n)
      BY <2>2
    <3> DEFINE v == [i \in 0..(n + 1) |-> IF i = n + 1 THEN step[w[n]] ELSE w[i]]
    <3>2. ASSUME NEW i \in 0..(n + 1) PROVE v[i] = IF i = 0 THEN start ELSE step[v[i - 1]]
      <4>1. CASE i = n + 1
        BY <4>1
      <4>2. CASE i \in 0..n
        BY <3>1, <4>2
      <4> QED  BY <4>1, <4>2
    <3>3. Reaches(v, n + 1)
      <4>1. v = [i \in 0..(n + 1) |-> v[i]]
        OBVIOUS
      <4> HIDE DEF v
      <4> QED  BY <3>2, <4>1
    <3> HIDE DEF v, Reaches
    <3>4. \E w_1 : Reaches(w_1, n + 1)
      BY <3>3
    <3> QED  BY <3>4
  <2> HIDE DEF S
  <2>3. Nat \subseteq S
    BY <2>1, <2>2, Induction
  <2> QED  BY <2>3 DEF S
<1>2. ASSUME NEW m \in Nat, NEW n \in Nat, NEW v, NEW w, Reaches(v, m), Reaches(w, n)
      PROVE  \A i \in Nat : i <= m /\ i <= n => v[i] = w[i]
  <2> DEFINE T == {i \in Nat : i <= m /\ i <= n => v[i] = w[i]}
  <2>1. 0 \in T
    BY <1>2
  <2>2. ASSUME NEW i \in Nat, i \in T PROVE i + 1 \in T
    <3>1. ASSUME i + 1 <= m, i + 1 <= n PROVE v[i + 1] = w[i + 1]
      <4>1. v[i] = w[i] /\ i + 1 \in 0..m /\ i + 1 \in 0..n /\ i + 1 # 0 /\ (i + 1) - 1 = i
        BY <2>2, <3>1
      <4> QED  BY <1>2, <4>1
    <3> QED  BY <3>1
  <2> HIDE DEF T
  <2>3. Nat \subseteq T
    BY <2>1, <2>2, Induction
  <2> QED  BY <2>3 DEF T
<1>3. \A n \in Nat : Reaches(Choice(n), n)
  BY <1>1
<1> HIDE DEF Choice, Reaches
<1>4. ASSUME NEW n \in Nat PROVE walk[n] = IF n = 0 THEN start ELSE step[walk[n - 1]]
  <2>1. CASE n = 0
    BY <1>3, <2>1 DEF Reaches
  <2>2. CASE n # 0
    <3>1. n - 1 \in Nat /\ n \in 0..n /\ n - 1 <= n /\ n - 1 <= n - 1
      BY <2>2
    <3>2. Choice(n)[n - 1] = Choice(n - 1)[n - 1]
      BY <1>2, <1>3, <3>1
    <3>3. Choice(n)[n] = step[Choice(n)[n - 1]]
      BY <1>3, <2>2, <3>1 DEF Reaches
    <3> QED  BY <2>2, <3>1, <3>2, <3>3
  <2> QED  BY <2>1, <2>2
<1>5. walk = [n \in Nat |-> walk[n]]
  OBVIOUS
<1> HIDE DEF walk
<1>6. walk = [n \in Nat |-> IF n = 0 THEN start ELSE step[walk[n - 1]]]
  BY <1>4, <1>5
<1> QED  BY <1>6

\* What a walk that goes on to follow[o] until it stops comes to, from every o.
IsWalk(f, stops, result, follow) ==
  /\ f = [o \in Nat |-> f[o]]
  /\ \A o \in Nat : f[o] = IF o \in stops THEN result[o] ELSE f[follow[o]]

\* A function that is defined by its value further on is one, if it is known from some
\* number on and every step goes on.
LEMMA WalksAreFunctions ==
  ASSUME NEW stops, NEW result, NEW follow \in [Nat -> Nat], NEW bound \in Nat,
         \A o \in Nat : o > bound => o \in stops,
         \A o \in Nat : follow[o] > o
  PROVE  \E f : IsWalk(f, stops, result, follow)
<1> DEFINE Values == {result[o] : o \in Nat}
           first == [o \in Nat |-> result[o]]
           step == [g \in [Nat -> Values] |->
                      [o \in Nat |-> IF o \in stops THEN result[o] ELSE g[follow[o]]]]
           walk == CHOOSE w : w = [i \in Nat |-> IF i = 0 THEN first ELSE step[w[i - 1]]]
<1>1. walk = [i \in Nat |-> IF i = 0 THEN first ELSE step[walk[i - 1]]]
  <2> HIDE DEF first, step
  <2> QED  BY StepsAreAFunction
<1> HIDE DEF walk
<1>2. first \in [Nat -> Values] /\ step \in [[Nat -> Values] -> [Nat -> Values]]
  OBVIOUS
<1>3. \A g \in [Nat -> Values] : \A o \in Nat :
        step[g][o] = IF o \in stops THEN result[o] ELSE g[follow[o]]
  OBVIOUS
<1>4. \A o \in Nat : first[o] = result[o]
  OBVIOUS
<1> HIDE DEF first, step, Values
<1>5. \A n \in Nat : walk[n] \in [Nat -> Values] /\ walk[n + 1] = step[walk[n]]
  <2> DEFINE S == {n \in Nat : walk[n] \in [Nat -> Values]}
  <2>1. walk[0] = first /\ \A n \in Nat : walk[n + 1] = step[walk[n]]
    <3>1. \A n \in Nat : n + 1 \in Nat /\ n + 1 # 0 /\ (n + 1) - 1 = n
      OBVIOUS
    <3> QED  BY <1>1, <3>1
  <2>2. 0 \in S
    BY <1>2, <2>1
  <2>3. ASSUME NEW n \in Nat, n \in S PROVE n + 1 \in S
    <3>1. walk[n] \in [Nat -> Values] /\ walk[n + 1] = step[walk[n]]
      BY <2>1, <2>3
    <3>2. step[walk[n]] \in [Nat -> Values]
      BY <1>2, <3>1
    <3> QED  BY <3>1, <3>2
  <2> HIDE DEF S
  <2>4. Nat \subseteq S
    BY <2>2, <2>3, Induction
  <2> QED  BY <2>1, <2>4 DEF S
\* After n steps what lies within n of the bound does not change any more.
<1> DEFINE T == {n \in Nat : \A o \in Nat : o + n > bound => walk[n + 1][o] = walk[n][o]}
<1>6. 0 \in T
  <2>1. ASSUME NEW o \in Nat, o + 0 > bound PROVE walk[0 + 1][o] = walk[0][o]
    <3>1. o \in stops
      BY <2>1
    <3>2. walk[0] = first /\ walk[0 + 1][o] = result[o]
      BY <1>1, <1>3, <1>5, <3>1
    <3> QED  BY <1>4, <3>2
  <2> QED  BY <2>1
<1>7. ASSUME NEW n \in Nat, n \in T PROVE n + 1 \in T
  <2>1. ASSUME NEW o \in Nat, o + (n + 1) > bound PROVE walk[(n + 1) + 1][o] = walk[n + 1][o]
    <3>1. /\ walk[(n + 1) + 1][o] = IF o \in stops THEN result[o] ELSE walk[n + 1][follow[o]]
          /\ walk[n + 1][o] = IF o \in stops THEN result[o] ELSE walk[n][follow[o]]
      <4>1. ASSUME NEW m \in Nat
            PROVE  walk[m + 1][o] = IF o \in stops THEN result[o] ELSE walk[m][follow[o]]
        <5>1. walk[m] \in [Nat -> Values] /\ walk[m + 1] = step[walk[m]]
          BY <1>5
        <5>2. step[walk[m]][o] = IF o \in stops THEN result[o] ELSE walk[m][follow[o]]
          BY <1>3, <5>1
        <5> QED  BY <5>1, <5>2
      <4>2. n + 1 \in Nat
        OBVIOUS
      <4> QED  BY <4>1, <4>2
    <3>2. follow[o] \in Nat /\ follow[o] + n > bound
      BY <2>1
    <3>3. walk[n + 1][follow[o]] = walk[n][follow[o]]
      BY <1>7, <3>2
    <3> QED  BY <3>1, <3>3
  <2> QED  BY <2>1
<1> HIDE DEF T
<1>8. bound + 1 \in T
  BY <1>6, <1>7, Induction
<1> DEFINE f == walk[bound + 1]
<1>9. f \in [Nat -> Values] /\ \A o \in Nat : step[f][o] = f[o]
  <2>1. bound + 1 \in Nat /\ \A o \in Nat : o + (bound + 1) > bound
    OBVIOUS
  <2>2. \A o \in Nat : walk[(bound + 1) + 1][o] = walk[bound + 1][o]
    BY <1>8, <2>1 DEF T
  <2>3. walk[bound + 1] \in [Nat -> Values]
        /\ walk[(bound + 1) + 1] = step[walk[bound + 1]]
    BY <1>5, <2>1
  <2> QED  BY <2>2, <2>3
<1> HIDE DEF f
<1>10. \A o \in Nat : f[o] = IF o \in stops THEN result[o] ELSE f[follow[o]]
  BY <1>3, <1>9
<1>11. f = [o \in Nat |-> f[o]]
  BY <1>9
<1>12. IsWalk(f, stops, result, follow)
  BY <1>10, <1>11 DEF IsWalk
<1> QED  BY <1>12
\* What holds where a walk stops, and before every place it holds at, holds wherever the
\* walk starts.
LEMMA WalkInduction ==
  ASSUME NEW stops, NEW follow \in [Nat -> Nat], NEW bound \in Nat,
         \A o \in Nat : o > bound => o \in stops,
         \A o \in Nat : follow[o] > o,
         NEW Q,
         \A o \in Nat : o \in stops => o \in Q,
         \A o \in Nat : o \notin stops /\ follow[o] \in Q => o \in Q
  PROVE  Nat \subseteq Q
<1> DEFINE S == {n \in Nat : \A o \in Nat : o + n > bound => o \in Q}
<1>1. 0 \in S
  OBVIOUS
<1>2. ASSUME NEW n \in Nat, n \in S PROVE n + 1 \in S
  <2>1. ASSUME NEW o \in Nat, o + (n + 1) > bound PROVE o \in Q
    <3>1. follow[o] \in Nat /\ follow[o] + n > bound
      BY <2>1
    <3>2. follow[o] \in Q
      BY <1>2, <3>1
    <3> QED  BY <3>2
  <2> QED  BY <2>1
<1> HIDE DEF S
<1>3. Nat \subseteq S
  BY <1>1, <1>2, Induction
<1>4. ASSUME NEW o \in Nat PROVE o \in Q
  <2>1. bound + 1 \in S /\ o + (bound + 1) > bound
    BY <1>3
  <2> QED  BY <2>1 DEF S
<1> QED  BY <1>4
==============================================================================
