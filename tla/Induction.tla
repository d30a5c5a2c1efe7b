------------------------------ MODULE Induction ------------------------------
(***************************************************************************)
(* Induction and recursion over the naturals in a form without operator    *)
(* parameters: what is to be shown is given as the set of the numbers for  *)
(* which it holds, a step of a recursion as a function.                    *)
(***************************************************************************)
EXTENDS Integers, WellFoundedInduction, TLAPS

\* A set with 0 that is closed under successor has every natural number.
LEMMA SetInduction ==
    ASSUME NEW T, 0 \in T, \A n \in Nat : n \in T => n + 1 \in T
    PROVE  Nat \subseteq T
<1>. DEFINE R == {ss \in Nat \X Nat : ss[1] < ss[2]}
            U == Nat \ T
<1>. SUFFICES ASSUME U # {} PROVE FALSE
  OBVIOUS
<1>1. \A x, y \in Nat : y < x => <<y, x>> \in R
  OBVIOUS
<1>2. PICK x \in U : \A y \in U : ~(<<y, x>> \in R)
  <2>. HIDE DEF U, R
  <2>1. IsWellFoundedOn(R, Nat)
    BY NatLessThanWellFounded DEF R, OpToRel
  <2>. QED BY <2>1, WFMin DEF U
<1>. HIDE DEF R
<1>3. x \in Nat /\ x # 0
  OBVIOUS
<1>4. x - 1 \in Nat /\ x - 1 < x /\ x - 1 + 1 = x
  BY <1>3
<1>5. x - 1 \in U
  BY <1>3, <1>4
<1>. QED BY <1>1, <1>2, <1>3, <1>4, <1>5

\* A set of naturals with a member has a least one.
LEMMA LeastMember ==
    ASSUME NEW T, T \subseteq Nat, T # {}
    PROVE  \E m \in T : \A x \in T : m <= x
<1>. DEFINE R == {ss \in Nat \X Nat : ss[1] < ss[2]}
<1>1. \A x, y \in Nat : y < x => <<y, x>> \in R
  OBVIOUS
<1>2. IsWellFoundedOn(R, Nat)
  BY NatLessThanWellFounded DEF R, OpToRel
<1>. HIDE DEF R
<1>3. PICK m \in T : \A y \in T : ~(<<y, m>> \in R)
  BY <1>2, WFMin
<1>4. ASSUME NEW x \in T PROVE m <= x
  <2>1. x \in Nat /\ m \in Nat
    OBVIOUS
  <2>2. ~(x < m)
    BY <1>1, <1>3, <2>1
  <2>. QED BY <2>1, <2>2
<1>. QED BY <1>4

\* g is the recursion from s up to n that steps from g[i - 1] to g[i] by F[i].
Steps(g, n, s, F) == g = [i \in 0 .. n |-> IF i = 0 THEN s ELSE F[i][g[i - 1]]]

LEMMA Recursion ==
    ASSUME NEW n \in Nat, NEW s, NEW F
    PROVE  \E g : Steps(g, n, s, F)
<1>. DEFINE T == {m \in Nat : \E g : Steps(g, m, s, F)}
<1>1. 0 \in T
  <2>. DEFINE g == [i \in 0 .. 0 |-> s]
  <2>1. Steps(g, 0, s, F)
    BY DEF Steps
  <2>. HIDE DEF g
  <2>. QED BY <2>1
<1>2. ASSUME NEW m \in Nat, m \in T PROVE m + 1 \in T
  <2>1. PICK g : Steps(g, m, s, F)
    BY <1>2
  <2>. DEFINE f == [i \in 0 .. (m + 1) |-> IF i <= m THEN g[i] ELSE F[i][g[m]]]
  <2>2. Steps(f, m + 1, s, F)
    <3>. SUFFICES ASSUME NEW i \in 0 .. (m + 1)
                  PROVE  f[i] = IF i = 0 THEN s ELSE F[i][f[i - 1]]
      BY DEF Steps
    <3>1. CASE i <= m
      <4>1. i \in 0 .. m /\ (i # 0 => i - 1 \in 0 .. m /\ i - 1 \in 0 .. (m + 1) /\ i - 1 <= m)
        BY <3>1
      <4>2. f[i] = g[i] /\ (i # 0 => f[i - 1] = g[i - 1])
        BY <4>1
      <4>3. g[i] = IF i = 0 THEN s ELSE F[i][g[i - 1]]
        BY <2>1, <4>1 DEF Steps
      <4>. QED BY <4>2, <4>3
    <3>2. CASE i = m + 1
      <4>1. m \in 0 .. (m + 1) /\ m <= m /\ ~(i <= m) /\ i # 0 /\ i - 1 = m
        BY <3>2
      <4>. QED BY <4>1
    <3>. QED BY <3>1, <3>2
  <2>. HIDE DEF f
  <2>. QED BY <2>2
<1>. HIDE DEF T
<1>3. n \in T
  BY <1>1, <1>2, SetInduction
<1>. QED BY <1>3 DEF T

\* When every step maps the set S into itself, the values stay in S.
LEMMA RecursionIn ==
    ASSUME NEW n \in Nat, NEW S, NEW s \in S, NEW F \in [1 .. n -> [S -> S]]
    PROVE  \E g \in [0 .. n -> S] : Steps(g, n, s, F)
<1>1. PICK g : Steps(g, n, s, F)
  BY Recursion
<1>. DEFINE T == {m \in Nat : m <= n => g[m] \in S}
<1>2. 0 \in T
  <2>1. 0 \in 0 .. n
    OBVIOUS
  <2>. QED BY <1>1, <2>1 DEF Steps
<1>3. ASSUME NEW m \in Nat, m \in T PROVE m + 1 \in T
  <2>. SUFFICES ASSUME m + 1 <= n PROVE g[m + 1] \in S
    OBVIOUS
  <2>1. m + 1 \in 0 .. n /\ m + 1 \in 1 .. n /\ m + 1 # 0 /\ m + 1 - 1 = m /\ m <= n
    OBVIOUS
  <2>2. g[m + 1] = F[m + 1][g[m]] /\ g[m] \in S
    BY <1>1, <1>3, <2>1 DEF Steps
  <2>. QED BY <2>1, <2>2
<1>. HIDE DEF T
<1>4. Nat \subseteq T
  BY <1>2, <1>3, SetInduction
<1>5. \A m \in 0 .. n : g[m] \in S
  BY <1>4 DEF T
<1>6. g \in [0 .. n -> S]
  <2>1. g = [i \in 0 .. n |-> g[i]]
    BY <1>1 DEF Steps
  <2>. QED BY <1>5, <2>1
<1>. QED BY <1>1, <1>6

=============================================================================
