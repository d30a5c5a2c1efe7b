---------------------------- MODULE ShellProofs ----------------------------
(***************************************************************************)
(* Proofs about module Shell, for every size of cmd_buffer and argv, every *)
(* script and every line.                                                  *)
(***************************************************************************)
EXTENDS Shell, FiniteSetTheorems, SequenceTheorems, Induction, TLAPS
LOCAL INSTANCE SequencesExt

-----------------------------------------------------------------------------
(***************************************************************************)
(* The members of a set of numbers in their order.                         *)
(***************************************************************************)
Rising(a) == a \in Seq(Nat) /\ \A v, w \in 1 .. Len(a) : v < w => a[v] < a[w]

Members(a, n) == {a[v] : v \in 1 .. n}

Enumerates(a, S) == Rising(a) /\ S = Members(a, Len(a))

\* A rising sequence has as many members as places.
LEMMA RisingCard ==
    ASSUME NEW a, Rising(a), NEW w \in 0 .. Len(a)
    PROVE  IsFiniteSet(Members(a, w)) /\ Cardinality(Members(a, w)) = w
<1>1. a \in Seq(Nat) /\ Len(a) \in Nat
  BY DEF Rising
<1>. DEFINE T == {n \in Nat : n <= Len(a) => IsFiniteSet(Members(a, n)) /\ Cardinality(Members(a, n)) = n}
<1>2. 0 \in T
  <2>1. Members(a, 0) = {}
    BY DEF Members
  <2>. QED BY <2>1, FS_EmptySet
<1>3. ASSUME NEW n \in Nat, n \in T PROVE n + 1 \in T
  <2>. SUFFICES ASSUME n + 1 <= Len(a)
                PROVE  IsFiniteSet(Members(a, n + 1)) /\ Cardinality(Members(a, n + 1)) = n + 1
    OBVIOUS
  <2>1. IsFiniteSet(Members(a, n)) /\ Cardinality(Members(a, n)) = n
    BY <1>1, <1>3
  <2>2. Members(a, n + 1) = Members(a, n) \cup {a[n + 1]}
    <3>1. 1 .. (n + 1) = (1 .. n) \cup {n + 1}
      OBVIOUS
    <3>. QED BY <3>1 DEF Members
  <2>3. a[n + 1] \notin Members(a, n)
    <3>1. \A v \in 1 .. n : v \in 1 .. Len(a) /\ n + 1 \in 1 .. Len(a) /\ v < n + 1
      BY <1>1
    <3>2. \A v \in 1 .. n : a[v] < a[n + 1] /\ a[v] \in Nat /\ a[n + 1] \in Nat
      BY <1>1, <3>1 DEF Rising
    <3>. QED BY <3>2 DEF Members
  <2>. DEFINE A == Members(a, n)
              x == a[n + 1]
  <2>. HIDE DEF A, x
  <2>4. IsFiniteSet(A \cup {x}) /\ Cardinality(A \cup {x}) = Cardinality(A) + 1
    <3>1. IsFiniteSet(A) /\ x \notin A
      BY <2>1, <2>3 DEF A, x
    <3>. QED BY <3>1, FS_AddElement
  <2>. QED BY <2>1, <2>2, <2>4 DEF A, x
<1>. HIDE DEF T
<1>4. Nat \subseteq T
  BY <1>2, <1>3, SetInduction
<1>. QED BY <1>1, <1>4 DEF T

LEMMA EnumCard ==
    ASSUME NEW a, NEW S, Enumerates(a, S)
    PROVE  IsFiniteSet(S) /\ Cardinality(S) = Len(a) /\ Len(a) \in Nat
<1>1. Len(a) \in Nat
  BY DEF Enumerates, Rising
<1>2. Len(a) \in 0 .. Len(a)
  BY <1>1
<1>. QED BY <1>1, <1>2, RisingCard DEF Enumerates

LEMMA EnumAppend ==
    ASSUME NEW a, NEW S, Enumerates(a, S), NEW z \in Nat, \A x \in S : x < z
    PROVE  Enumerates(Append(a, z), S \cup {z})
<1>. DEFINE b == Append(a, z)
            n == Len(a)
<1>1. a \in Seq(Nat) /\ n \in Nat
  BY DEF Enumerates, Rising
<1>2. b \in Seq(Nat) /\ Len(b) = n + 1 /\ b[n + 1] = z /\ \A v \in 1 .. n : b[v] = a[v]
  BY <1>1, AppendProperties
<1>. HIDE DEF b
<1>3. \A v \in 1 .. n : a[v] \in S
  BY DEF Enumerates, Members
<1>4. ASSUME NEW v \in 1 .. Len(b), NEW w \in 1 .. Len(b), v < w PROVE b[v] < b[w]
  <2>1. CASE w = n + 1
    <3>1. v \in 1 .. n
      BY ONLY <1>1, <1>2, <1>4, <2>1
    <3>2. b[v] = a[v] /\ a[v] \in S
      BY ONLY <1>2, <1>3, <3>1
    <3>. QED BY <1>2, <2>1, <3>2
  <2>2. CASE w # n + 1
    <3>1. v \in 1 .. n /\ w \in 1 .. n
      <4>1. Len(b) = n + 1 /\ n \in Nat
        BY <1>1, <1>2
      <4>. QED BY ONLY <1>4, <2>2, <4>1
    <3>. QED BY <1>2, <1>4, <3>1 DEF Enumerates, Rising
  <2>. QED BY <2>1, <2>2
<1>5. S \cup {z} = Members(b, Len(b))
  <2>1. 1 .. (n + 1) = (1 .. n) \cup {n + 1}
    BY <1>1
  <2>. QED BY <1>2, <2>1 DEF Enumerates, Members
<1>. QED BY <1>2, <1>4, <1>5 DEF Enumerates, Rising, b

LEMMA EnumNone == Enumerates(<<>>, {})
BY DEF Enumerates, Rising, Members

UpTo(T, p) == {x \in T : x <= p}

\* Nth finds the members of a set in their order.
LEMMA NthOf ==
    ASSUME NEW T, T \subseteq Nat, NEW p \in Int, NEW a, Enumerates(a, UpTo(T, p)),
           NEW w \in 1 .. Len(a)
    PROVE  Nth(T, w) = a[w]
<1>. DEFINE Below(m) == {l \in T : l < m}
<1>1. Rising(a) /\ {x \in T : x <= p} = Members(a, Len(a)) /\ a \in Seq(Nat) /\ Len(a) \in Nat
  BY DEF Enumerates, Rising, UpTo
<1>2. \A v \in 1 .. Len(a) : a[v] \in T /\ a[v] <= p /\ a[v] \in Nat
  BY <1>1 DEF Members
<1>3. ASSUME NEW v \in 1 .. Len(a) PROVE Below(a[v]) = Members(a, v - 1)
  <2>1. ASSUME NEW x \in Below(a[v]) PROVE x \in Members(a, v - 1)
    <3>1. x \in T /\ x < a[v] /\ x \in Nat /\ x <= p
      BY <1>2
    <3>2. PICK y \in 1 .. Len(a) : a[y] = x
      BY <1>1, <3>1 DEF Members
    <3>3. y < v
      <4>1. v < y => a[v] < a[y]
        BY <1>1 DEF Rising
      <4>. QED BY <1>1, <1>2, <3>1, <3>2, <4>1
    <3>4. y \in 1 .. (v - 1)
      BY <1>1, <3>3
    <3>. QED BY <3>2, <3>4 DEF Members
  <2>2. ASSUME NEW x \in Members(a, v - 1) PROVE x \in Below(a[v])
    <3>1. PICK y \in 1 .. (v - 1) : a[y] = x
      BY DEF Members
    <3>2. y \in 1 .. Len(a) /\ y < v
      BY <1>1
    <3>. QED BY <1>1, <1>2, <3>1, <3>2 DEF Rising
  <2>. QED BY <2>1, <2>2
<1>4. \A v \in 1 .. Len(a) : Cardinality(Below(a[v])) = v - 1
  <2>1. \A v \in 1 .. Len(a) : v - 1 \in 0 .. Len(a)
    BY <1>1
  <2>. QED BY <1>1, <1>3, <2>1, RisingCard
<1>5. ASSUME NEW m \in T, Cardinality(Below(m)) = w - 1 PROVE m = a[w]
  <2>1. CASE m < a[w]
    <3>1. m <= p
      BY <1>2, <2>1
    <3>2. PICK v \in 1 .. Len(a) : a[v] = m
      BY <1>1, <3>1 DEF Members
    <3>3. v = w
      <4>1. v - 1 = w - 1
        BY <1>4, <1>5, <3>2
      <4>. QED BY ONLY <1>1, <4>1, v \in 1 .. Len(a), w \in 1 .. Len(a)
    <3>. QED BY <3>2, <3>3
  <2>2. CASE m > a[w]
    <3>1. Members(a, w) \subseteq Below(m)
      <4>1. ASSUME NEW y \in 1 .. w PROVE a[y] \in Below(m)
        <5>1. y \in 1 .. Len(a) /\ (y < w \/ y = w)
          BY <1>1
        <5>2. a[y] <= a[w]
          BY <1>1, <1>2, <5>1 DEF Rising
        <5>. QED BY <1>2, <2>2, <5>1, <5>2
      <4>. QED BY <4>1 DEF Members
    <3>2. IsFiniteSet(Below(m))
      <4>. DEFINE B == Below(m)
      <4>1. m \in Nat /\ \A x \in B : x \in Nat /\ x < m
        OBVIOUS
      <4>. HIDE DEF B
      <4>3. B \in SUBSET Nat /\ \A x \in B : x <= m
        BY <4>1
      <4>2. IsFiniteSet(B)
        BY <4>1, <4>3, FS_BoundedSetOfNaturals
      <4>. QED BY <4>2 DEF B
    <3>3. Cardinality(Members(a, w)) = w
      <4>1. w \in 0 .. Len(a)
        BY <1>1
      <4>. QED BY <1>1, <4>1, RisingCard
    <3>4. Cardinality(Members(a, w)) <= Cardinality(Below(m))
      <4>. DEFINE B == Below(m)
                  A == Members(a, w)
      <4>. HIDE DEF A, B
      <4>1. A \in SUBSET B /\ IsFiniteSet(B)
        BY <3>1, <3>2 DEF A, B
      <4>2. Cardinality(A) <= Cardinality(B)
        BY <4>1, FS_Subset
      <4>. QED BY <4>2 DEF A, B
    <3>. QED BY <1>1, <1>5, <3>3, <3>4
  <2>. QED BY <1>2, <2>1, <2>2
<1>. QED BY <1>2, <1>4, <1>5 DEF Nth

\* The same sequence, moved by d.
LEMMA EnumMoved ==
    ASSUME NEW a, NEW S, Enumerates(a, S), NEW d \in Int, \A x \in S : x + d \in Nat,
           NEW c, c = [v \in 1 .. Len(a) |-> a[v] + d]
    PROVE  Enumerates(c, {x + d : x \in S}) /\ Len(c) = Len(a)
<1>0. a \in Seq(Nat) /\ S = Members(a, Len(a))
  BY ONLY Enumerates(a, S) DEF Enumerates, Rising
<1>1. a \in Seq(Nat) /\ Len(a) \in Nat /\ \A v \in 1 .. Len(a) : a[v] \in S /\ a[v] \in Nat
  BY ONLY <1>0 DEF Members
<1>2. c \in Seq(Nat) /\ Len(c) = Len(a)
  BY <1>1
<1>3. Rising(c)
  BY <1>1, <1>2 DEF Enumerates, Rising
<1>4. {x + d : x \in S} = Members(c, Len(c))
  BY <1>1, <1>2 DEF Enumerates, Members
<1>. QED BY <1>2, <1>3, <1>4 DEF Enumerates

-----------------------------------------------------------------------------
(***************************************************************************)
(* FirstFrom.                                                              *)
(***************************************************************************)
LEMMA FirstFromIs ==
    ASSUME NEW M \in Nat, NEW b, DOMAIN b = 0 .. M, NEW p \in 0 .. M, NEW S, NEW q \in p .. M, b[q] \in S,
           \A r \in p .. (q - 1) : b[r] \notin S
    PROVE  FirstFrom(b, p, S) = q
<1>1. q \in DOMAIN b /\ q >= p /\ q \in Int
  OBVIOUS
<1>2. ASSUME NEW z \in DOMAIN b, z >= p, b[z] \in S, \A r \in p .. (z - 1) : b[r] \notin S
      PROVE  z = q
  <2>1. z \in Int /\ p \in Int
    BY <1>2
  <2>2. ~(z < q)
    <3>1. z < q => z \in p .. (q - 1)
      BY <1>1, <1>2, <2>1
    <3>. QED BY <1>2, <3>1
  <2>3. ~(q < z)
    <3>1. q < z => q \in p .. (z - 1)
      BY <1>1, <1>2, <2>1
    <3>. QED BY <1>2, <3>1
  <2>. QED BY <1>1, <2>1, <2>2, <2>3
<1>. QED BY <1>1, <1>2 DEF FirstFrom

\* There is a first place, when there is one at all.
LEMMA FirstPlace ==
    ASSUME NEW b, NEW S, NEW p \in Nat, NEW z \in Nat, p <= z, b[z] \in S
    PROVE  \E q \in p .. z : b[q] \in S /\ \A r \in p .. (q - 1) : b[r] \notin S
<1>. DEFINE T == {q \in p .. z : b[q] \in S}
<1>1. T \subseteq Nat /\ z \in T
  OBVIOUS
<1>2. \A x : x \in T <=> x \in p .. z /\ b[x] \in S
  OBVIOUS
<1>. HIDE DEF T
<1>3. PICK q \in T : \A x \in T : q <= x
  BY <1>1, LeastMember
<1>4. q \in p .. z /\ b[q] \in S /\ q \in Int /\ z \in Int /\ p \in Int
  BY <1>2
<1>5. ASSUME NEW r \in p .. (q - 1) PROVE b[r] \notin S
  <2>1. r \in p .. z /\ ~(q <= r)
    BY <1>4
  <2>. QED BY <1>2, <1>3, <2>1
<1>. QED BY <1>4, <1>5

-----------------------------------------------------------------------------
(***************************************************************************)
(* A round of parse_args.  b holds a string from lo up to its terminator   *)
(* at hi; s is the state after n rounds.                                   *)
(***************************************************************************)
Holds(b, M, C, lo, hi) ==
    /\ M \in Nat /\ b \in [0 .. M -> C] /\ NUL \in C
    /\ lo \in 0 .. M /\ hi \in lo .. M
    /\ b[hi] = NUL /\ \A m \in lo .. (hi - 1) : b[m] # NUL

\* Where words begin, and where they end: the place behind the last letter.
Begins(b, lo, hi) == {m \in lo .. (hi - 1) : b[m] # Blank /\ (m = lo \/ b[m - 1] = Blank)}

Stoppings(b, lo, hi) == {m \in (lo + 1) .. hi : b[m - 1] # Blank /\ (m = hi \/ b[m] = Blank)}

Cut(d, b, argv, stops) ==
    /\ Len(stops) = Len(argv)
    /\ \A w \in 1 .. Len(argv) :
          /\ argv[w] < stops[w] /\ d[stops[w]] = NUL
          /\ \A m \in argv[w] .. (stops[w] - 1) : d[m] = b[m] /\ b[m] # NUL

Rounds(d, p, argv, n, b, M, C, lo, hi) ==
    /\ d \in [0 .. M -> C] /\ p \in lo .. hi
    /\ p = lo \/ p = hi \/ b[p - 1] = Blank
    /\ \A m \in 0 .. M : m \notin lo .. (p - 1) => d[m] = b[m]
    /\ Len(argv) <= n /\ (p = hi \/ Len(argv) = n)
    /\ Enumerates(argv, {m \in Begins(b, lo, hi) : m < p})
    /\ \E stops : /\ Enumerates(stops, {m \in Stoppings(b, lo, hi) : m <= p})
                  /\ Cut(d, b, argv, stops)

Parse(d, p, argv) == [b |-> d, p |-> p, argv |-> argv]

\* The round that enters the word from q to e.
Parsed(d, q, e, argv) ==
    Parse([d EXCEPT ![e] = NUL], IF d[e] = NUL THEN e ELSE e + 1, Append(argv, q))

LEMMA BlankIsNotNul == Blank # NUL
BY DEF Blank, NUL

LEMMA HoldsFacts ==
    ASSUME NEW b, NEW M, NEW C, NEW lo, NEW hi, Holds(b, M, C, lo, hi)
    PROVE  /\ M \in Nat /\ lo \in Nat /\ hi \in Nat /\ lo <= hi /\ hi <= M
           /\ b \in [0 .. M -> C] /\ NUL \in C /\ b[hi] = NUL
           /\ \A m \in lo .. (hi - 1) : b[m] # NUL
BY DEF Holds

\* Which words a piece of the string from p to p2 adds.
LEMMA NoWordAdded ==
    ASSUME NEW b, NEW M, NEW C, NEW lo, NEW hi, Holds(b, M, C, lo, hi), NEW p \in lo .. hi,
           \A m \in p .. (hi - 1) : b[m] = Blank
    PROVE  /\ {m \in Begins(b, lo, hi) : m < hi} = {m \in Begins(b, lo, hi) : m < p}
           /\ {m \in Stoppings(b, lo, hi) : m <= hi} = {m \in Stoppings(b, lo, hi) : m <= p}
<1>0. lo \in Nat /\ hi \in Nat /\ p \in Nat /\ lo <= p /\ p <= hi
  BY HoldsFacts
<1>1. ASSUME NEW m \in Begins(b, lo, hi) PROVE m < hi <=> m < p
  <2>1. m \in lo .. (hi - 1) /\ b[m] # Blank
    BY DEF Begins
  <2>2. m >= p => m \in p .. (hi - 1)
    BY <1>0, <2>1
  <2>. QED BY <1>0, <2>1, <2>2
<1>2. ASSUME NEW m \in Stoppings(b, lo, hi) PROVE m <= hi <=> m <= p
  <2>1. m \in (lo + 1) .. hi /\ b[m - 1] # Blank
    BY DEF Stoppings
  <2>2. m > p => m - 1 \in p .. (hi - 1)
    BY <1>0, <2>1
  <2>. QED BY <1>0, <2>1, <2>2
<1>. QED BY <1>1, <1>2

LEMMA OneWordAdded ==
    ASSUME NEW b, NEW M, NEW C, NEW lo, NEW hi, Holds(b, M, C, lo, hi), NEW p \in lo .. hi,
           p = lo \/ b[p - 1] = Blank,
           NEW q \in p .. (hi - 1), \A m \in p .. (q - 1) : b[m] = Blank,
           NEW e \in (q + 1) .. hi, \A m \in q .. (e - 1) : b[m] # Blank, e = hi \/ b[e] = Blank,
           NEW p2, p2 = IF e = hi THEN e ELSE e + 1
    PROVE  /\ {m \in Begins(b, lo, hi) : m < p2} = {m \in Begins(b, lo, hi) : m < p} \cup {q}
           /\ {m \in Stoppings(b, lo, hi) : m <= p2} = {m \in Stoppings(b, lo, hi) : m <= p} \cup {e}
<1>0. lo \in Nat /\ hi \in Nat /\ p \in Nat /\ q \in Nat /\ e \in Nat
      /\ lo <= p /\ p <= q /\ q < e /\ e <= hi /\ e <= p2 /\ p2 <= hi /\ p2 <= e + 1 /\ p2 \in Nat
      /\ (p2 = e + 1 => e # hi)
  BY HoldsFacts
<1>1. q \in Begins(b, lo, hi)
  <2>1. q \in lo .. (hi - 1) /\ b[q] # Blank
    BY <1>0
  <2>2. q # p => q - 1 \in p .. (q - 1)
    BY <1>0
  <2>. QED BY <2>1, <2>2 DEF Begins
<1>2. e \in Stoppings(b, lo, hi)
  <2>1. e \in (lo + 1) .. hi /\ e - 1 \in q .. (e - 1)
    BY <1>0
  <2>. QED BY <2>1 DEF Stoppings
<1>3. ASSUME NEW m \in Begins(b, lo, hi), m < p2, ~(m < p) PROVE m = q
  <2>1. m \in lo .. (hi - 1) /\ b[m] # Blank /\ (m = lo \/ b[m - 1] = Blank) /\ m \in Int
    BY DEF Begins
  <2>2. ~(m < q)
    <3>1. m < q => m \in p .. (q - 1)
      BY <1>0, <1>3, <2>1
    <3>. QED BY <2>1, <3>1
  <2>3. ~(q < m /\ m < e)
    <3>1. q < m /\ m < e => m - 1 \in q .. (e - 1) /\ m # lo
      BY <1>0, <2>1
    <3>. QED BY <2>1, <3>1
  <2>4. ~(m >= e)
    <3>1. m >= e => m = e /\ e # hi
      BY <1>0, <1>3, <2>1
    <3>. QED BY <2>1, <3>1
  <2>. QED BY <1>0, <2>1, <2>2, <2>3, <2>4
<1>4. ASSUME NEW m \in Stoppings(b, lo, hi), m <= p2, ~(m <= p) PROVE m = e
  <2>1. m \in (lo + 1) .. hi /\ b[m - 1] # Blank /\ (m = hi \/ b[m] = Blank) /\ m \in Int
    BY DEF Stoppings
  <2>2. ~(m <= q)
    <3>1. m <= q => m - 1 \in p .. (q - 1)
      BY <1>0, <1>4, <2>1
    <3>. QED BY <2>1, <3>1
  <2>3. ~(q < m /\ m < e)
    <3>1. q < m /\ m < e => m \in q .. (e - 1) /\ m # hi
      BY <1>0, <2>1
    <3>. QED BY <2>1, <3>1
  <2>4. ~(m > e)
    <3>1. m > e => m - 1 = e /\ e # hi
      BY <1>0, <1>4, <2>1
    <3>. QED BY <2>1, <3>1
  <2>. QED BY <1>0, <2>1, <2>2, <2>3, <2>4
<1>5. q < p2 /\ e <= p2 /\ (\A m \in Begins(b, lo, hi) : m < p => m < p2)
      /\ (\A m \in Stoppings(b, lo, hi) : m <= p => m <= p2)
  BY <1>0 DEF Begins, Stoppings
<1>. QED BY <1>1, <1>2, <1>3, <1>4, <1>5

LEMMA ParseWordIs ==
    ASSUME NEW d, NEW p, NEW argv, NEW q, q = FirstFrom(d, p, Chars(d) \ {Blank}),
           NEW e, e = FirstFrom(d, q, {NUL, Blank})
    PROVE  ParseWord(Parse(d, p, argv)) =
              CASE d[p] = NUL -> Parse(d, p, argv)
                [] d[p] # NUL /\ d[q] = NUL -> Parse(d, q, argv)
                [] OTHER -> Parse([d EXCEPT ![e] = NUL], IF d[e] = NUL THEN e ELSE e + 1,
                                  Append(argv, q))
<1>. DEFINE s == Parse(d, p, argv)
<1>1. s.b = d /\ s.p = p /\ s.argv = argv /\ \A z : [s EXCEPT !.p = z] = Parse(d, z, argv)
  BY DEF Parse
<1>. HIDE DEF s
<1>2. ParseWord(s) = CASE d[p] = NUL -> s
                       [] d[p] # NUL /\ d[q] = NUL -> Parse(d, q, argv)
                       [] OTHER -> Parse([d EXCEPT ![e] = NUL], IF d[e] = NUL THEN e ELSE e + 1,
                                         Append(argv, q))
  BY <1>1 DEF ParseWord, Parse
<1>. QED BY <1>2 DEF s

LEMMA ParseNothing ==
    ASSUME NEW d, NEW p, NEW argv, d[p] = NUL
    PROVE  ParseWord(Parse(d, p, argv)) = Parse(d, p, argv)
<1>. DEFINE q == FirstFrom(d, p, Chars(d) \ {Blank})
            e == FirstFrom(d, q, {NUL, Blank})
<1>. HIDE DEF q, e
<1>1. q = FirstFrom(d, p, Chars(d) \ {Blank}) /\ e = FirstFrom(d, q, {NUL, Blank})
  BY DEF q, e
<1>. QED BY <1>1, ParseWordIs

LEMMA ParseBlanks ==
    ASSUME NEW d, NEW p, NEW argv, NEW q, q = FirstFrom(d, p, Chars(d) \ {Blank}), d[p] # NUL, d[q] = NUL
    PROVE  ParseWord(Parse(d, p, argv)) = Parse(d, q, argv)
<1>. DEFINE e == FirstFrom(d, q, {NUL, Blank})
            X == Parse(d, q, argv)
            Y == Parse([d EXCEPT ![e] = NUL], IF d[e] = NUL THEN e ELSE e + 1, Append(argv, q))
<1>1. ParseWord(Parse(d, p, argv)) = CASE d[p] = NUL -> Parse(d, p, argv)
                                       [] d[p] # NUL /\ d[q] = NUL -> X
                                       [] OTHER -> Y
  <2>. HIDE DEF e
  <2>1. e = FirstFrom(d, q, {NUL, Blank})
    BY DEF e
  <2>. QED BY ONLY <2>1, q = FirstFrom(d, p, Chars(d) \ {Blank}), ParseWordIs
<1>. HIDE DEF X, Y
<1>2. ParseWord(Parse(d, p, argv)) = X
  BY <1>1
<1>. QED BY <1>2 DEF X

LEMMA ParseOne ==
    ASSUME NEW d, NEW p, NEW argv, NEW q, q = FirstFrom(d, p, Chars(d) \ {Blank}), d[p] # NUL, d[q] # NUL,
           NEW e, e = FirstFrom(d, q, {NUL, Blank})
    PROVE  ParseWord(Parse(d, p, argv)) = Parsed(d, q, e, argv)
<1>. DEFINE X == Parse(d, q, argv)
            Y == Parse([d EXCEPT ![e] = NUL], IF d[e] = NUL THEN e ELSE e + 1, Append(argv, q))
<1>1. ParseWord(Parse(d, p, argv)) = CASE d[p] = NUL -> Parse(d, p, argv)
                                       [] d[p] # NUL /\ d[q] = NUL -> X
                                       [] OTHER -> Y
  BY ONLY e = FirstFrom(d, q, {NUL, Blank}), q = FirstFrom(d, p, Chars(d) \ {Blank}), ParseWordIs
<1>. HIDE DEF X, Y
<1>2. ParseWord(Parse(d, p, argv)) = Y
  BY <1>1
<1>. QED BY <1>2 DEF Y, Parsed

\* One more round.
LEMMA RoundKeeps ==
    ASSUME NEW b, NEW M, NEW C, NEW lo, NEW hi, Holds(b, M, C, lo, hi), NEW n \in Nat,
           NEW d, NEW p, NEW argv, Rounds(d, p, argv, n, b, M, C, lo, hi)
    PROVE  \E d2, p2, argv2 : /\ ParseWord(Parse(d, p, argv)) = Parse(d2, p2, argv2)
                              /\ Rounds(d2, p2, argv2, n + 1, b, M, C, lo, hi)
<1>0. /\ M \in Nat /\ lo \in Nat /\ hi \in Nat /\ lo <= hi /\ hi <= M
      /\ b \in [0 .. M -> C] /\ NUL \in C /\ b[hi] = NUL
      /\ \A m \in lo .. (hi - 1) : b[m] # NUL
  BY HoldsFacts
<1>1. /\ d \in [0 .. M -> C] /\ p \in lo .. hi
      /\ p = lo \/ p = hi \/ b[p - 1] = Blank
      /\ \A m \in 0 .. M : m \notin lo .. (p - 1) => d[m] = b[m]
      /\ Len(argv) <= n /\ (p = hi \/ Len(argv) = n)
      /\ Enumerates(argv, {m \in Begins(b, lo, hi) : m < p})
  BY DEF Rounds
<1>2. PICK stops : /\ Enumerates(stops, {m \in Stoppings(b, lo, hi) : m <= p})
                   /\ Cut(d, b, argv, stops)
  BY DEF Rounds
<1>3. Len(argv) \in Nat /\ Len(stops) \in Nat /\ argv \in Seq(Nat) /\ stops \in Seq(Nat)
  BY <1>1, <1>2 DEF Enumerates, Rising
<1>4. p \in Nat /\ p \in 0 .. M /\ DOMAIN d = 0 .. M
  BY <1>0, <1>1
<1>5. \A m \in p .. M : m \in 0 .. M /\ d[m] = b[m]
  <2>1. \A m \in p .. M : m \in 0 .. M /\ m \notin lo .. (p - 1)
    BY <1>0, <1>1, <1>4
  <2>. QED BY <1>1, <2>1
<1>6. CASE p = hi
  <2>1. d[p] = NUL
    BY <1>0, <1>4, <1>5, <1>6
  <2>2. ParseWord(Parse(d, p, argv)) = Parse(d, p, argv)
    BY <2>1, ParseNothing
  <2>3. Rounds(d, p, argv, n + 1, b, M, C, lo, hi)
    <3>1. Len(argv) <= n + 1
      BY <1>1, <1>3
    <3>. QED BY <1>1, <1>2, <1>6, <3>1 DEF Rounds
  <2>. QED BY <2>2, <2>3
<1>7. CASE p # hi
  <2>. DEFINE S == Chars(d) \ {Blank}
  <2>1. p < hi /\ p \in lo .. (hi - 1) /\ p \in p .. M
    BY <1>0, <1>1, <1>4, <1>7
  <2>2. d[p] # NUL
    BY <1>0, <1>5, <2>1
  <2>3. \A m \in 0 .. M : d[m] \in S <=> d[m] # Blank
    BY <1>4 DEF Chars
  <2>. HIDE DEF S
  <2>4. PICK q \in p .. hi : d[q] \in S /\ \A r \in p .. (q - 1) : d[r] \notin S
    <3>1. hi \in p .. M /\ hi \in 0 .. M /\ d[hi] = NUL
      BY <1>0, <1>4, <1>5, <2>1
    <3>2. d[hi] \in S
      BY <2>3, <3>1, BlankIsNotNul
    <3>3. p \in Nat /\ hi \in Nat /\ p <= hi
      BY <1>0, <1>4, <2>1
    <3>. QED BY ONLY <3>2, <3>3, FirstPlace
  <2>5. q \in Nat /\ p <= q /\ q <= hi /\ q \in p .. M /\ q \in 0 .. M
    BY <1>0, <1>4
  <2>6. FirstFrom(d, p, S) = q
    BY <1>0, <1>4, <2>4, <2>5, FirstFromIs
  <2>7. d[q] # Blank /\ d[q] = b[q] /\ \A m \in p .. (q - 1) : b[m] = Blank
    <3>1. \A m \in p .. (q - 1) : m \in 0 .. M /\ m \in p .. M
      BY <1>0, <1>4, <2>5
    <3>. QED BY <1>5, <2>3, <2>4, <2>5, <3>1
  <2>8. CASE q = hi
    <3>1. d[q] = NUL
      BY <1>0, <2>7, <2>8
    <3>2. ParseWord(Parse(d, p, argv)) = Parse(d, hi, argv)
      <4>1. q = FirstFrom(d, p, Chars(d) \ {Blank})
        BY <2>6 DEF S
      <4>2. ParseWord(Parse(d, p, argv)) = Parse(d, q, argv)
        BY ONLY <2>2, <3>1, <4>1, ParseBlanks
      <4>. QED BY <2>8, <4>2
    <3>3. /\ {m \in Begins(b, lo, hi) : m < hi} = {m \in Begins(b, lo, hi) : m < p}
          /\ {m \in Stoppings(b, lo, hi) : m <= hi} = {m \in Stoppings(b, lo, hi) : m <= p}
      BY <1>1, <2>7, <2>8, NoWordAdded
    <3>4. \A m \in 0 .. M : m \notin lo .. (hi - 1) => d[m] = b[m]
      <4>1. \A m \in 0 .. M : m \notin lo .. (hi - 1) => m \notin lo .. (p - 1)
        BY <1>0, <1>4, <2>1
      <4>. QED BY <1>1, <4>1
    <3>5. Len(argv) <= n + 1 /\ hi \in lo .. hi
      BY <1>0, <1>1, <1>3
    <3>6. Rounds(d, hi, argv, n + 1, b, M, C, lo, hi)
      BY <1>1, <1>2, <3>3, <3>4, <3>5 DEF Rounds
    <3>. QED BY <3>2, <3>6
  <2>9. CASE q # hi
    <3>. DEFINE Z == {NUL, Blank}
    <3>1. q \in p .. (hi - 1) /\ q \in lo .. (hi - 1) /\ q < hi
      BY <1>0, <1>4, <2>1, <2>5, <2>9
    <3>2. d[q] # NUL /\ d[q] \notin Z
      BY <1>0, <2>7, <3>1
    <3>. HIDE DEF Z
    <3>3. PICK e \in q .. hi : d[e] \in Z /\ \A r \in q .. (e - 1) : d[r] \notin Z
      <4>1. hi \in q .. M /\ d[hi] \in Z
        BY <1>0, <1>5, <2>1, <2>5 DEF Z
      <4>2. q \in Nat /\ hi \in Nat /\ q <= hi /\ d[hi] \in Z
        BY <1>0, <2>5, <4>1
      <4>. QED BY ONLY <4>2, FirstPlace
    <3>4. e \in Nat /\ q < e /\ e <= hi /\ e \in q .. M /\ e \in p .. M /\ e \in 0 .. M /\ e \in (q + 1) .. hi
      BY <1>0, <1>4, <2>5, <3>2, <3>3
    <3>5. FirstFrom(d, q, Z) = e
      BY <1>0, <1>4, <2>5, <3>3, <3>4, FirstFromIs
    <3>. DEFINE d2 == [d EXCEPT ![e] = NUL]
                p2 == IF e = hi THEN e ELSE e + 1
                argv2 == Append(argv, q)
                stops2 == Append(stops, e)
    <3>6. d[e] = b[e] /\ (d[e] = NUL <=> e = hi) /\ (e = hi \/ b[e] = Blank)
      <4>1. e # hi => e \in lo .. (hi - 1)
        BY <1>0, <1>4, <1>1, <2>5, <3>4
      <4>. QED BY <1>0, <1>5, <3>3, <3>4, <4>1 DEF Z
    <3>7. ParseWord(Parse(d, p, argv)) = Parse(d2, p2, argv2)
      <4>1. p2 = IF d[e] = NUL THEN e ELSE e + 1
        BY <3>6
      <4>2. d2 = [d EXCEPT ![e] = NUL]
        OBVIOUS
      <4>3. q = FirstFrom(d, p, Chars(d) \ {Blank}) /\ e = FirstFrom(d, q, {NUL, Blank})
        BY <2>6, <3>5 DEF S, Z
      <4>4. ParseWord(Parse(d, p, argv)) =
                Parse([d EXCEPT ![e] = NUL], IF d[e] = NUL THEN e ELSE e + 1, Append(argv, q))
        <5>1. d[q] # NUL
          BY <3>2
        <5>2. ParseWord(Parse(d, p, argv)) = Parsed(d, q, e, argv)
          BY ONLY <2>2, <4>3, <5>1, ParseOne
        <5>. QED BY <5>2 DEF Parsed
      <4>. QED BY <4>1, <4>4
    <3>8. \A m \in q .. (e - 1) : m \in 0 .. M /\ d[m] = b[m] /\ b[m] # Blank /\ b[m] # NUL
      <4>1. \A m \in q .. (e - 1) : m \in p .. M
        BY <1>0, <1>4, <2>5, <3>4
      <4>. QED BY <1>5, <3>3, <4>1 DEF Z
    <3>9. /\ {m \in Begins(b, lo, hi) : m < p2} = {m \in Begins(b, lo, hi) : m < p} \cup {q}
          /\ {m \in Stoppings(b, lo, hi) : m <= p2} = {m \in Stoppings(b, lo, hi) : m <= p} \cup {e}
      <4>1. \A m \in q .. (e - 1) : b[m] # Blank
        BY <3>8
      <4>2. p = lo \/ b[p - 1] = Blank
        BY <1>1, <1>7
      <4>. QED BY <1>1, <2>7, <3>1, <3>4, <3>6, <4>1, <4>2, OneWordAdded
    <3>10. Enumerates(argv2, {m \in Begins(b, lo, hi) : m < p2})
      <4>1. \A m \in {m \in Begins(b, lo, hi) : m < p} : m < q
        BY <1>0, <1>4, <2>5 DEF Begins
      <4>. DEFINE A == {m \in Begins(b, lo, hi) : m < p}
      <4>. HIDE DEF A
      <4>2. Enumerates(argv2, A \cup {q})
        BY <1>1, <2>5, <4>1, EnumAppend DEF A
      <4>. QED BY <3>9, <4>2 DEF A
    <3>11. Enumerates(stops2, {m \in Stoppings(b, lo, hi) : m <= p2})
      <4>1. \A m \in {m \in Stoppings(b, lo, hi) : m <= p} : m < e
        BY <1>0, <1>4, <2>5, <3>4 DEF Stoppings
      <4>. DEFINE A == {m \in Stoppings(b, lo, hi) : m <= p}
      <4>. HIDE DEF A
      <4>2. Enumerates(stops2, A \cup {e})
        BY <1>2, <3>4, <4>1, EnumAppend DEF A
      <4>. QED BY <3>9, <4>2 DEF A
    <3>12. d2 \in [0 .. M -> C] /\ d2[e] = NUL /\ \A m \in 0 .. M : m # e => d2[m] = d[m]
      BY <1>0, <1>1, <3>4
    <3>13. p2 \in lo .. hi /\ p2 >= e /\ p2 >= p /\ (p2 = lo \/ p2 = hi \/ b[p2 - 1] = Blank)
      BY <1>0, <1>4, <2>1, <2>5, <3>4, <3>6
    <3>. HIDE DEF d2
    <3>14. \A m \in 0 .. M : m \notin lo .. (p2 - 1) => d2[m] = b[m]
      <4>. SUFFICES ASSUME NEW m \in 0 .. M, m \notin lo .. (p2 - 1) PROVE d2[m] = b[m]
        OBVIOUS
      <4>1. m \notin lo .. (p - 1)
        BY <1>0, <1>4, <3>13
      <4>2. m = e => e = hi
        BY <1>0, <1>4, <2>1, <2>5, <3>4
      <4>. QED BY <1>0, <1>1, <3>12, <4>1, <4>2
    <3>15. /\ Len(argv2) = Len(argv) + 1 /\ argv2[Len(argv) + 1] = q
           /\ \A w \in 1 .. Len(argv) : argv2[w] = argv[w]
           /\ Len(stops2) = Len(stops) + 1 /\ stops2[Len(stops) + 1] = e
           /\ \A w \in 1 .. Len(stops) : stops2[w] = stops[w]
      BY <1>3, <2>5, <3>4, AppendProperties
    <3>. HIDE DEF argv2, stops2
    <3>16. Cut(d2, b, argv2, stops2)
      <4>1. Len(stops2) = Len(argv2)
        BY <1>2, <3>15 DEF Cut
      <4>2. ASSUME NEW w \in 1 .. Len(argv2)
            PROVE  /\ argv2[w] < stops2[w] /\ d2[stops2[w]] = NUL
                   /\ \A m \in argv2[w] .. (stops2[w] - 1) : d2[m] = b[m] /\ b[m] # NUL
        <5>1. CASE w = Len(argv) + 1
          <6>1. argv2[w] = q /\ stops2[w] = e
            BY <1>2, <3>15, <5>1 DEF Cut
          <6>2. \A m \in q .. (e - 1) : d2[m] = b[m] /\ b[m] # NUL
            <7>1. \A m \in q .. (e - 1) : m # e
              BY <2>5, <3>4
            <7>. QED BY <3>8, <3>12, <7>1
          <6>. QED BY <3>4, <3>12, <6>1, <6>2
        <5>2. CASE w # Len(argv) + 1
          <6>1. w \in 1 .. Len(argv) /\ w \in 1 .. Len(stops)
            BY <1>2, <1>3, <3>15, <5>2 DEF Cut
          <6>2. argv2[w] = argv[w] /\ stops2[w] = stops[w]
            BY <3>15, <6>1
          <6>3. /\ argv[w] < stops[w] /\ d[stops[w]] = NUL
                /\ \A m \in argv[w] .. (stops[w] - 1) : d[m] = b[m] /\ b[m] # NUL
            BY <1>2, <6>1 DEF Cut
          <6>4. argv[w] \in Nat /\ stops[w] \in Nat /\ stops[w] <= p
            BY <1>2, <1>3, <6>1 DEF Enumerates, Members
          <6>5. stops[w] \in 0 .. M /\ stops[w] # e
            BY <1>0, <1>4, <2>5, <3>4, <6>4
          <6>6. \A m \in argv[w] .. (stops[w] - 1) : m \in 0 .. M /\ m # e
            BY <1>0, <1>4, <2>5, <3>4, <6>4
          <6>. QED BY <3>12, <6>2, <6>3, <6>5, <6>6
        <5>. QED BY <5>1, <5>2
      <4>. QED BY <4>1, <4>2 DEF Cut
    <3>17. Len(argv2) <= n + 1 /\ Len(argv2) = n + 1
      BY <1>1, <1>3, <1>7, <3>15
    <3>. HIDE DEF p2
    <3>18. Rounds(d2, p2, argv2, n + 1, b, M, C, lo, hi)
      BY <3>10, <3>11, <3>12, <3>13, <3>14, <3>16, <3>17 DEF Rounds
    <3>. QED BY <3>7, <3>18
  <2>. QED BY <2>8, <2>9
<1>. QED BY <1>6, <1>7

-----------------------------------------------------------------------------
(***************************************************************************)
(* All the rounds.                                                         *)
(***************************************************************************)
Run(g, b, p) ==
    g = [n \in 0 .. MaxArgs |-> IF n = 0 THEN Parse(b, p, <<>>) ELSE ParseWord(g[n - 1])]

\* Before the first round.
LEMMA RoundsBegin ==
    ASSUME NEW b, NEW M, NEW C, NEW lo, NEW hi, Holds(b, M, C, lo, hi)
    PROVE  Rounds(b, lo, <<>>, 0, b, M, C, lo, hi)
<1>0. /\ M \in Nat /\ lo \in Nat /\ hi \in Nat /\ lo <= hi /\ hi <= M /\ b \in [0 .. M -> C]
  BY HoldsFacts
<1>1. {m \in Begins(b, lo, hi) : m < lo} = {}
  BY <1>0 DEF Begins
<1>2. {m \in Stoppings(b, lo, hi) : m <= lo} = {}
  BY <1>0 DEF Stoppings
<1>3. Cut(b, b, <<>>, <<>>)
  BY DEF Cut
<1>4. lo \in lo .. hi /\ Len(<<>>) = 0
  BY <1>0
<1>5. Enumerates(<<>>, {m \in Begins(b, lo, hi) : m < lo})
  BY <1>1, EnumNone
<1>6. Enumerates(<<>>, {m \in Stoppings(b, lo, hi) : m <= lo})
  BY <1>2, EnumNone
<1>7. \E stops : /\ Enumerates(stops, {m \in Stoppings(b, lo, hi) : m <= lo})
                 /\ Cut(b, b, <<>>, stops)
  BY ONLY <1>3, <1>6
<1>. DEFINE none == <<>>
<1>8. Len(none) <= 0 /\ Len(none) = 0
  BY <1>4
<1>. HIDE DEF none
<1>9. Rounds(b, lo, none, 0, b, M, C, lo, hi)
  <2>1. Enumerates(none, {m \in Begins(b, lo, hi) : m < lo})
    BY <1>5 DEF none
  <2>2. \E stops : /\ Enumerates(stops, {m \in Stoppings(b, lo, hi) : m <= lo})
                   /\ Cut(b, b, none, stops)
    BY <1>7 DEF none
  <2>. QED BY <1>0, <1>4, <1>8, <2>1, <2>2 DEF Rounds
<1>. QED BY <1>9 DEF none

\* The states between two rounds.
ParseStates(M, C) == [b : [0 .. M -> C], p : 0 .. M, argv : Seq(Nat)]

LEMMA RoundsState ==
    ASSUME NEW b, NEW M, NEW C, NEW lo, NEW hi, Holds(b, M, C, lo, hi), NEW n,
           NEW d, NEW p, NEW argv, Rounds(d, p, argv, n, b, M, C, lo, hi)
    PROVE  Parse(d, p, argv) \in ParseStates(M, C)
<1>0. /\ M \in Nat /\ lo \in Nat /\ hi \in Nat /\ lo <= hi /\ hi <= M
  BY HoldsFacts
<1>1. d \in [0 .. M -> C] /\ p \in lo .. hi /\ argv \in Seq(Nat)
  BY DEF Rounds, Enumerates, Rising
<1>2. p \in 0 .. M
  BY <1>0, <1>1
<1>. DEFINE D == [0 .. M -> C]
            Q == Seq(Nat)
<1>. HIDE DEF D, Q
<1>3. d \in D /\ argv \in Q
  BY <1>1 DEF D, Q
<1>4. Parse(d, p, argv) \in [b : D, p : 0 .. M, argv : Q]
  BY <1>2, <1>3 DEF Parse
<1>. QED BY <1>4 DEF ParseStates, D, Q

LEMMA RunExists ==
    ASSUME NEW b, NEW M, NEW C, NEW lo, NEW hi, Holds(b, M, C, lo, hi)
    PROVE  \E g : Run(g, b, lo)
<1>. DEFINE S == ParseStates(M, C)
            F == [n \in 1 .. MaxArgs |-> [s \in S |-> ParseWord(s)]]
            s0 == Parse(b, lo, <<>>)
<1>1. MaxArgs \in Nat
  BY ShellAssumption
<1>. HIDE DEF S
<1>2. \A n \in 1 .. MaxArgs : \A s \in S : F[n][s] = ParseWord(s)
  OBVIOUS
<1>. HIDE DEF F, s0
<1>3. PICK g : Steps(g, MaxArgs, s0, F)
  BY <1>1, Recursion
<1>. DEFINE Good(n) == \E d, p, argv : /\ g[n] = Parse(d, p, argv)
                                       /\ Rounds(d, p, argv, n, b, M, C, lo, hi)
            T == {n \in Nat : n <= MaxArgs => Good(n)}
<1>4. Good(0)
  <2>1. g[0] = s0
    <3>1. 0 \in 0 .. MaxArgs
      BY <1>1
    <3>. QED BY <1>3, <3>1 DEF Steps
  <2>. QED BY <2>1, RoundsBegin DEF s0
<1>5. ASSUME NEW n \in Nat, n + 1 <= MaxArgs, Good(n)
      PROVE  Good(n + 1) /\ g[n + 1] = ParseWord(g[n])
  <2>1. PICK d, p, argv : g[n] = Parse(d, p, argv) /\ Rounds(d, p, argv, n, b, M, C, lo, hi)
    BY <1>5
  <2>2. g[n] \in S
    BY <2>1, RoundsState DEF S
  <2>3. n + 1 \in 0 .. MaxArgs /\ n + 1 \in 1 .. MaxArgs /\ n + 1 # 0 /\ n + 1 - 1 = n
    BY <1>1, <1>5
  <2>4. g[n + 1] = F[n + 1][g[n]]
    <3>1. \A m \in 0 .. MaxArgs : g[m] = IF m = 0 THEN s0 ELSE F[m][g[m - 1]]
      BY ONLY <1>3 DEF Steps
    <3>. QED BY <2>3, <3>1
  <2>5. g[n + 1] = ParseWord(g[n])
    BY <1>2, <2>2, <2>3, <2>4
  <2>6. \E d2, p2, argv2 : /\ ParseWord(Parse(d, p, argv)) = Parse(d2, p2, argv2)
                           /\ Rounds(d2, p2, argv2, n + 1, b, M, C, lo, hi)
    BY <2>1, RoundKeeps
  <2>. QED BY <2>1, <2>5, <2>6
<1>. HIDE DEF Good
<1>6. 0 \in T
  BY <1>4
<1>7. ASSUME NEW n \in Nat, n \in T PROVE n + 1 \in T
  <2>1. n + 1 <= MaxArgs => n <= MaxArgs
    BY <1>1
  <2>. QED BY <1>5, <1>7, <2>1
<1>8. Nat \subseteq T
  <2>. HIDE DEF T
  <2>. QED BY <1>6, <1>7, SetInduction
<1>9. \A n \in 0 .. MaxArgs : Good(n)
  BY <1>1, <1>8
<1>10. ASSUME NEW n \in 0 .. MaxArgs, n # 0 PROVE F[n][g[n - 1]] = ParseWord(g[n - 1])
  <2>1. n - 1 \in Nat /\ n - 1 + 1 = n /\ n - 1 + 1 <= MaxArgs /\ n - 1 \in 0 .. MaxArgs
        /\ n \in 1 .. MaxArgs
    BY <1>1, <1>10
  <2>2. g[n - 1] \in S
    BY <1>9, <2>1, RoundsState DEF S, Good
  <2>. QED BY <1>2, <2>1, <2>2
<1>11. Run(g, b, lo)
  BY <1>3, <1>10 DEF Run, Steps, s0
<1>. QED BY <1>11

LEMMA ParseArgsRuns ==
    ASSUME NEW b, NEW lo, \E g : Run(g, b, lo)
    PROVE  \E g : Run(g, b, lo) /\ parse_args(b, lo) = g[MaxArgs]
<1>. DEFINE G == CHOOSE g : Run(g, b, lo)
<1>1. Run(G, b, lo)
  OBVIOUS
<1>2. parse_args(b, lo) = G[MaxArgs]
  BY DEF parse_args, Run, Parse
<1>. HIDE DEF G
<1>. QED BY <1>1, <1>2

LEMMA RunRounds ==
    ASSUME NEW b, NEW M, NEW C, NEW lo, NEW hi, Holds(b, M, C, lo, hi), NEW g, Run(g, b, lo)
    PROVE  \E d, p, argv : /\ g[MaxArgs] = Parse(d, p, argv)
                           /\ Rounds(d, p, argv, MaxArgs, b, M, C, lo, hi)
<1>1. MaxArgs \in Nat
  BY ShellAssumption
<1>2. \A n \in 0 .. MaxArgs : g[n] = IF n = 0 THEN Parse(b, lo, <<>>) ELSE ParseWord(g[n - 1])
  BY ONLY Run(g, b, lo) DEF Run
<1>. DEFINE Good(n) == \E d, p, argv : /\ g[n] = Parse(d, p, argv)
                                       /\ Rounds(d, p, argv, n, b, M, C, lo, hi)
            T == {n \in Nat : n <= MaxArgs => Good(n)}
<1>3. Good(0)
  <2>1. g[0] = Parse(b, lo, <<>>)
    BY <1>1, <1>2
  <2>. QED BY <2>1, RoundsBegin
<1>4. ASSUME NEW n \in Nat, n + 1 <= MaxArgs, Good(n)
      PROVE  Good(n + 1)
  <2>1. PICK d, p, argv : g[n] = Parse(d, p, argv) /\ Rounds(d, p, argv, n, b, M, C, lo, hi)
    BY <1>4
  <2>3. n + 1 \in 0 .. MaxArgs /\ n + 1 # 0 /\ n + 1 - 1 = n
    BY <1>1, <1>4
  <2>5. g[n + 1] = ParseWord(g[n])
    BY <1>2, <2>3
  <2>6. \E d2, p2, argv2 : /\ ParseWord(Parse(d, p, argv)) = Parse(d2, p2, argv2)
                           /\ Rounds(d2, p2, argv2, n + 1, b, M, C, lo, hi)
    BY <2>1, RoundKeeps
  <2>. QED BY <2>1, <2>5, <2>6
<1>. HIDE DEF Good
<1>5. 0 \in T
  BY <1>3
<1>6. ASSUME NEW n \in Nat, n \in T PROVE n + 1 \in T
  <2>1. n + 1 <= MaxArgs => n <= MaxArgs
    BY <1>1
  <2>. QED BY <1>4, <1>6, <2>1
<1>7. Nat \subseteq T
  <2>. HIDE DEF T
  <2>. QED BY <1>5, <1>6, SetInduction
<1>8. Good(MaxArgs)
  BY <1>1, <1>7
<1>. QED BY <1>8 DEF Good

LEMMA ParseArgsIs ==
    ASSUME NEW b, NEW M, NEW C, NEW lo, NEW hi, Holds(b, M, C, lo, hi)
    PROVE  \E d, p, argv : /\ parse_args(b, lo) = Parse(d, p, argv)
                           /\ Rounds(d, p, argv, MaxArgs, b, M, C, lo, hi)
<1>1. \E g : Run(g, b, lo)
  BY RunExists
<1>2. PICK g : Run(g, b, lo) /\ parse_args(b, lo) = g[MaxArgs]
  BY <1>1, ParseArgsRuns
<1>. QED BY <1>2, RunRounds

-----------------------------------------------------------------------------
(***************************************************************************)
(* The words of the text.                                                  *)
(***************************************************************************)
Starts(text) == {n \in 1 .. Len(text) : text[n] # Blank /\ (n = 1 \/ text[n - 1] = Blank)}

Finishes(text) == {n \in 1 .. Len(text) : text[n] # Blank /\ (n = Len(text) \/ text[n + 1] = Blank)}

LEMMA WordsAre ==
    ASSUME NEW text
    PROVE  Words(text) = [w \in 1 .. Min({MaxArgs, Cardinality(Starts(text))}) |->
                             SubSeq(text, Nth(Starts(text), w), Nth(Finishes(text), w))]
BY DEF Words, Starts, Finishes

\* The text of a string.
TextOf(b, lo, hi) == [n \in 1 .. (hi - lo) |-> b[lo + n - 1]]

LEMMA TextFacts ==
    ASSUME NEW b, NEW M, NEW C, NEW lo, NEW hi, Holds(b, M, C, lo, hi)
    PROVE  /\ TextOf(b, lo, hi) \in Seq(C) /\ Len(TextOf(b, lo, hi)) = hi - lo
           /\ \A n \in 1 .. (hi - lo) : TextOf(b, lo, hi)[n] = b[lo + n - 1]
<1>0. /\ M \in Nat /\ lo \in Nat /\ hi \in Nat /\ lo <= hi /\ hi <= M /\ b \in [0 .. M -> C]
  BY HoldsFacts
<1>1. \A n \in 1 .. (hi - lo) : lo + n - 1 \in 0 .. M
  BY <1>0
<1>2. \A n \in 1 .. (hi - lo) : b[lo + n - 1] \in C
  BY <1>0, <1>1
<1>3. hi - lo \in Nat
  BY <1>0
<1>. QED BY <1>2, <1>3 DEF TextOf

LEMMA StartsMoved ==
    ASSUME NEW b, NEW M, NEW C, NEW lo, NEW hi, Holds(b, M, C, lo, hi), NEW p \in lo .. hi,
           NEW text, text = TextOf(b, lo, hi)
    PROVE  {x + (1 - lo) : x \in {m \in Begins(b, lo, hi) : m < p}} = {n \in Starts(text) : n <= p - lo}
<1>0. lo \in Nat /\ hi \in Nat /\ p \in Nat /\ lo <= p /\ p <= hi
  BY HoldsFacts
<1>1. Len(text) = hi - lo /\ \A n \in 1 .. (hi - lo) : text[n] = b[lo + n - 1]
  BY TextFacts
<1>2. ASSUME NEW m \in Begins(b, lo, hi), m < p
      PROVE  m + (1 - lo) \in Starts(text) /\ m + (1 - lo) <= p - lo
  <2>1. m \in lo .. (hi - 1) /\ b[m] # Blank /\ (m = lo \/ b[m - 1] = Blank) /\ m \in Nat
    BY <1>0 DEF Begins
  <2>. DEFINE n == m + (1 - lo)
  <2>2. n \in 1 .. (hi - lo) /\ lo + n - 1 = m /\ n <= p - lo /\ (m = lo <=> n = 1)
        /\ (n # 1 => n - 1 \in 1 .. (hi - lo) /\ lo + (n - 1) - 1 = m - 1)
    BY <1>0, <1>2, <2>1
  <2>. HIDE DEF n
  <2>3. text[n] = b[m] /\ (n # 1 => text[n - 1] = b[m - 1])
    BY <1>1, <2>2
  <2>4. n \in Starts(text) /\ n <= p - lo
    BY <1>1, <2>1, <2>2, <2>3 DEF Starts
  <2>. QED BY <2>4 DEF n
<1>3. ASSUME NEW n \in Starts(text), n <= p - lo
      PROVE  \E m \in Begins(b, lo, hi) : m < p /\ n = m + (1 - lo)
  <2>1. n \in 1 .. (hi - lo) /\ text[n] # Blank /\ (n = 1 \/ text[n - 1] = Blank) /\ n \in Int
    BY <1>1 DEF Starts
  <2>. DEFINE m == n + lo - 1
  <2>2. m \in lo .. (hi - 1) /\ lo + n - 1 = m /\ m < p /\ (m = lo <=> n = 1) /\ n = m + (1 - lo)
        /\ (n # 1 => n - 1 \in 1 .. (hi - lo) /\ lo + (n - 1) - 1 = m - 1)
    BY <1>0, <1>3, <2>1
  <2>. HIDE DEF m
  <2>3. text[n] = b[m] /\ (n # 1 => text[n - 1] = b[m - 1])
    BY <1>1, <2>1, <2>2
  <2>4. m \in Begins(b, lo, hi)
    BY <2>1, <2>2, <2>3 DEF Begins
  <2>. QED BY <2>2, <2>4
<1>. DEFINE B == Begins(b, lo, hi)
            U == Starts(text)
<1>. HIDE DEF B, U
<1>4. /\ \A m \in B : m < p => m + (1 - lo) \in U /\ m + (1 - lo) <= p - lo
      /\ \A n \in U : n <= p - lo => \E m \in B : m < p /\ n = m + (1 - lo)
  BY <1>2, <1>3 DEF B, U
<1>5. {x + (1 - lo) : x \in {m \in B : m < p}} = {n \in U : n <= p - lo}
  BY ONLY <1>4
<1>. QED BY <1>5 DEF B, U

LEMMA FinishesMoved ==
    ASSUME NEW b, NEW M, NEW C, NEW lo, NEW hi, Holds(b, M, C, lo, hi), NEW p \in lo .. hi,
           NEW text, text = TextOf(b, lo, hi)
    PROVE  {x + (0 - lo) : x \in {m \in Stoppings(b, lo, hi) : m <= p}} = {n \in Finishes(text) : n <= p - lo}
<1>0. lo \in Nat /\ hi \in Nat /\ p \in Nat /\ lo <= p /\ p <= hi
  BY HoldsFacts
<1>1. Len(text) = hi - lo /\ \A n \in 1 .. (hi - lo) : text[n] = b[lo + n - 1]
  BY TextFacts
<1>2. ASSUME NEW m \in Stoppings(b, lo, hi), m <= p
      PROVE  m + (0 - lo) \in Finishes(text) /\ m + (0 - lo) <= p - lo
  <2>1. m \in (lo + 1) .. hi /\ b[m - 1] # Blank /\ (m = hi \/ b[m] = Blank) /\ m \in Nat
    BY <1>0 DEF Stoppings
  <2>. DEFINE n == m + (0 - lo)
  <2>2. n \in 1 .. (hi - lo) /\ lo + n - 1 = m - 1 /\ n <= p - lo /\ (m = hi <=> n = hi - lo)
        /\ (m # hi => n + 1 \in 1 .. (hi - lo) /\ lo + (n + 1) - 1 = m)
    BY <1>0, <1>2, <2>1
  <2>. HIDE DEF n
  <2>3. text[n] = b[m - 1] /\ (m # hi => text[n + 1] = b[m])
    BY <1>1, <2>2
  <2>4. n \in Finishes(text) /\ n <= p - lo
    BY <1>1, <2>1, <2>2, <2>3 DEF Finishes
  <2>. QED BY <2>4 DEF n
<1>3. ASSUME NEW n \in Finishes(text), n <= p - lo
      PROVE  \E m \in Stoppings(b, lo, hi) : m <= p /\ n = m + (0 - lo)
  <2>1. n \in 1 .. (hi - lo) /\ text[n] # Blank /\ (n = hi - lo \/ text[n + 1] = Blank) /\ n \in Int
    BY <1>1 DEF Finishes
  <2>. DEFINE m == n + lo
  <2>2. m \in (lo + 1) .. hi /\ lo + n - 1 = m - 1 /\ m <= p /\ (m = hi <=> n = hi - lo) /\ n = m + (0 - lo)
        /\ (m # hi => n + 1 \in 1 .. (hi - lo) /\ lo + (n + 1) - 1 = m)
    BY <1>0, <1>3, <2>1
  <2>. HIDE DEF m
  <2>3. text[n] = b[m - 1] /\ (m # hi => text[n + 1] = b[m])
    BY <1>1, <2>1, <2>2
  <2>4. m \in Stoppings(b, lo, hi)
    BY <2>1, <2>2, <2>3 DEF Stoppings
  <2>. QED BY <2>2, <2>4
<1>. DEFINE B == Stoppings(b, lo, hi)
            U == Finishes(text)
<1>. HIDE DEF B, U
<1>4. /\ \A m \in B : m <= p => m + (0 - lo) \in U /\ m + (0 - lo) <= p - lo
      /\ \A n \in U : n <= p - lo => \E m \in B : m <= p /\ n = m + (0 - lo)
  BY <1>2, <1>3 DEF B, U
<1>5. {x + (0 - lo) : x \in {m \in B : m <= p}} = {n \in U : n <= p - lo}
  BY ONLY <1>4
<1>. QED BY <1>5 DEF B, U

LEMMA MinOfTwo ==
    ASSUME NEW x \in Nat, NEW y \in Nat
    PROVE  Min({x, y}) = IF x <= y THEN x ELSE y
<1>. DEFINE m == IF x <= y THEN x ELSE y
<1>1. m \in {x, y} /\ \A z \in {x, y} : m <= z
  OBVIOUS
<1>2. \A n \in {x, y} : (\A z \in {x, y} : n <= z) => n = m
  OBVIOUS
<1>. HIDE DEF m
<1>3. Min({x, y}) = m
  BY <1>1, <1>2 DEF Min
<1>. QED BY <1>3 DEF m

\* As many words are found as argv has room for.
LEMMA WordCount ==
    ASSUME NEW b, NEW M, NEW C, NEW lo, NEW hi, Holds(b, M, C, lo, hi), NEW d, NEW p, NEW argv,
           Rounds(d, p, argv, MaxArgs, b, M, C, lo, hi), NEW text, text = TextOf(b, lo, hi),
           NEW c, Enumerates(c, {n \in Starts(text) : n <= p - lo}), Len(c) = Len(argv)
    PROVE  Min({MaxArgs, Cardinality(Starts(text))}) = Len(argv)
<1>0. lo \in Nat /\ hi \in Nat /\ p \in Nat /\ p <= hi /\ MaxArgs \in Nat
  BY HoldsFacts, ShellAssumption DEF Rounds
<1>1. Len(text) = hi - lo
  BY TextFacts
<1>. DEFINE S == Starts(text)
            A == {n \in S : n <= p - lo}
<1>2. S \subseteq 1 .. (hi - lo)
  BY <1>1 DEF Starts
<1>3. Enumerates(c, A)
  OBVIOUS
<1>4. p = hi => A = S
  BY <1>0, <1>2
<1>5. A \in SUBSET S
  OBVIOUS
<1>. HIDE DEF S, A
<1>6. IsFiniteSet(S) /\ Cardinality(S) \in Nat
  <2>1. IsFiniteSet(1 .. (hi - lo))
    BY <1>0, FS_Interval
  <2>2. IsFiniteSet(S)
    BY <1>2, <2>1, FS_Subset
  <2>. QED BY <2>2, FS_CardinalityType
<1>7. Cardinality(A) = Len(c) /\ Len(c) \in Nat
  BY <1>3, EnumCard
<1>8. Cardinality(A) <= Cardinality(S)
  BY <1>5, <1>6, FS_Subset
<1>9. Len(argv) <= MaxArgs /\ (p = hi \/ Len(argv) = MaxArgs)
  BY DEF Rounds
<1>10. (IF MaxArgs <= Cardinality(S) THEN MaxArgs ELSE Cardinality(S)) = Len(argv)
  BY <1>0, <1>4, <1>6, <1>7, <1>8, <1>9
<1>11. Min({MaxArgs, Cardinality(S)}) = IF MaxArgs <= Cardinality(S) THEN MaxArgs ELSE Cardinality(S)
  <2>. DEFINE k == Cardinality(S)
  <2>1. k \in Nat
    BY <1>6
  <2>. HIDE DEF k
  <2>2. Min({MaxArgs, k}) = IF MaxArgs <= k THEN MaxArgs ELSE k
    BY <1>0, <2>1, MinOfTwo
  <2>. QED BY <2>2 DEF k
<1>. QED BY <1>10, <1>11 DEF S

\* A word ends at the terminator that replaced the blank behind it.
Piece(d, b, x, y) == x < y /\ d[y] = NUL /\ \A m \in x .. (y - 1) : d[m] = b[m] /\ b[m] # NUL

LEMMA WordIsCut ==
    ASSUME NEW b, NEW M, NEW C, NEW lo, NEW hi, Holds(b, M, C, lo, hi), NEW d \in [0 .. M -> C],
           NEW x \in lo .. hi, NEW y \in lo .. hi, Piece(d, b, x, y), NEW text, text = TextOf(b, lo, hi)
    PROVE  CString(d, x) = SubSeq(text, x + (1 - lo), y + (0 - lo))
<1>0. /\ M \in Nat /\ lo \in Nat /\ hi \in Nat /\ lo <= hi /\ hi <= M /\ DOMAIN d = 0 .. M
      /\ x \in Nat /\ y \in Nat /\ lo <= x /\ y <= hi /\ x < y
  BY HoldsFacts DEF Piece
<1>1. FirstFrom(d, x, {NUL}) = y
  <2>1. x \in 0 .. M /\ y \in x .. M
    BY <1>0
  <2>2. d[y] \in {NUL} /\ \A r \in x .. (y - 1) : d[r] \notin {NUL}
    BY DEF Piece
  <2>. DEFINE Z == {NUL}
  <2>. HIDE DEF Z
  <2>3. d[y] \in Z /\ \A r \in x .. (y - 1) : d[r] \notin Z
    BY <2>2 DEF Z
  <2>4. FirstFrom(d, x, Z) = y
    BY <1>0, <2>1, <2>3, FirstFromIs
  <2>. QED BY <2>4 DEF Z
<1>2. CString(d, x) = [n \in 1 .. (y - x) |-> d[x + n - 1]]
  BY <1>1 DEF CString
<1>3. text \in Seq(C) /\ Len(text) = hi - lo /\ \A n \in 1 .. (hi - lo) : text[n] = b[lo + n - 1]
  BY TextFacts
<1>. DEFINE k == x + (1 - lo)
            l == y + (0 - lo)
<1>4. k \in 1 .. (Len(text) + 1) /\ l \in (k - 1) .. Len(text) /\ l - k + 1 = y - x /\ k \in Int /\ l \in Int
  BY ONLY <1>0, <1>3
<1>9. \A n \in 1 .. (y - x) : k + n - 1 \in 1 .. (hi - lo) /\ lo + (k + n - 1) - 1 = x + n - 1
                              /\ x + n - 1 \in x .. (y - 1)
  BY ONLY <1>0
<1>. HIDE DEF k, l
<1>. DEFINE word == SubSeq(text, k, l)
<1>5. word \in Seq(C) /\ Len(word) = l - k + 1 /\ \A n \in 1 .. (l - k + 1) : word[n] = text[k + n - 1]
  BY ONLY <1>3, <1>4, SubSeqProperties
<1>6. ASSUME NEW n \in 1 .. (y - x) PROVE d[x + n - 1] = word[n]
  <2>1. k + n - 1 \in 1 .. (hi - lo) /\ lo + (k + n - 1) - 1 = x + n - 1 /\ x + n - 1 \in x .. (y - 1)
    BY <1>9
  <2>2. text[k + n - 1] = b[lo + (k + n - 1) - 1]
    BY <1>3, <2>1
  <2>3. d[x + n - 1] = b[x + n - 1]
    BY <2>1 DEF Piece
  <2>. QED BY <1>4, <1>5, <2>1, <2>2, <2>3
<1>. HIDE DEF word
<1>7. word = [n \in 1 .. (y - x) |-> word[n]]
  BY <1>4, <1>5
<1>8. CString(d, x) = word
  BY <1>2, <1>6, <1>7
<1>. QED BY <1>8 DEF word, k, l

\* parse_args finds the words of the string and writes nowhere else.
LEMMA ParsesWords ==
    ASSUME NEW b, NEW M, NEW C, NEW lo, NEW hi, Holds(b, M, C, lo, hi)
    PROVE  /\ Args(b, lo) = Words(TextOf(b, lo, hi))
           /\ parse_args(b, lo).b \in [0 .. M -> C]
           /\ \A m \in 0 .. M : m \notin lo .. (hi - 1) => parse_args(b, lo).b[m] = b[m]
<1>0. /\ M \in Nat /\ lo \in Nat /\ hi \in Nat /\ lo <= hi /\ hi <= M
  BY HoldsFacts
<1>1. PICK d, p, argv : /\ parse_args(b, lo) = Parse(d, p, argv)
                        /\ Rounds(d, p, argv, MaxArgs, b, M, C, lo, hi)
  BY ParseArgsIs
<1>2. parse_args(b, lo).b = d /\ parse_args(b, lo).argv = argv
  BY <1>1 DEF Parse
<1>3. /\ d \in [0 .. M -> C] /\ p \in lo .. hi
      /\ \A m \in 0 .. M : m \notin lo .. (p - 1) => d[m] = b[m]
      /\ Enumerates(argv, {m \in Begins(b, lo, hi) : m < p})
  BY <1>1 DEF Rounds
<1>4. PICK stops : Enumerates(stops, {m \in Stoppings(b, lo, hi) : m <= p}) /\ Cut(d, b, argv, stops)
  BY <1>1 DEF Rounds
<1>5. \A m \in 0 .. M : m \notin lo .. (hi - 1) => d[m] = b[m]
  <2>1. \A m \in 0 .. M : m \notin lo .. (hi - 1) => m \notin lo .. (p - 1)
    BY <1>0, <1>3
  <2>. QED BY <1>3, <2>1
<1>. DEFINE text == TextOf(b, lo, hi)
            x(w) == argv[w] + (1 - lo)
            y(w) == stops[w] + (0 - lo)
            c1 == [w \in 1 .. Len(argv) |-> x(w)]
            c2 == [w \in 1 .. Len(stops) |-> y(w)]
<1>6. text = TextOf(b, lo, hi) /\ Len(stops) = Len(argv) /\ p - lo \in Int
  BY <1>0, <1>3, <1>4 DEF Cut
<1>. HIDE DEF text
<1>7. Enumerates(c1, {n \in Starts(text) : n <= p - lo}) /\ Len(c1) = Len(argv)
  <2>. DEFINE A == {m \in Begins(b, lo, hi) : m < p}
              k == 1 - lo
  <2>1. k \in Int /\ \A m \in A : m + k \in Nat
    BY <1>0 DEF Begins
  <2>2. {m + k : m \in A} = {n \in Starts(text) : n <= p - lo}
    BY <1>3, <1>6, StartsMoved
  <2>3. c1 = [w \in 1 .. Len(argv) |-> argv[w] + k] /\ Enumerates(argv, A)
    BY <1>3
  <2>. HIDE DEF c1, A, k
  <2>4. Enumerates(c1, {m + k : m \in A}) /\ Len(c1) = Len(argv)
    BY ONLY <2>1, <2>3, EnumMoved
  <2>. QED BY <2>2, <2>4
<1>8. Enumerates(c2, {n \in Finishes(text) : n <= p - lo}) /\ Len(c2) = Len(stops)
  <2>. DEFINE A == {m \in Stoppings(b, lo, hi) : m <= p}
              k == 0 - lo
  <2>1. k \in Int /\ \A m \in A : m + k \in Nat
    BY <1>0 DEF Stoppings
  <2>2. {m + k : m \in A} = {n \in Finishes(text) : n <= p - lo}
    BY <1>3, <1>6, FinishesMoved
  <2>3. c2 = [w \in 1 .. Len(stops) |-> stops[w] + k] /\ Enumerates(stops, A)
    BY <1>4
  <2>. HIDE DEF c2, A, k
  <2>4. Enumerates(c2, {m + k : m \in A}) /\ Len(c2) = Len(stops)
    BY ONLY <2>1, <2>3, EnumMoved
  <2>. QED BY <2>2, <2>4
<1>9. Min({MaxArgs, Cardinality(Starts(text))}) = Len(argv)
  <2>. HIDE DEF c1
  <2>. QED BY <1>1, <1>6, <1>7, WordCount
<1>10. ASSUME NEW w \in 1 .. Len(argv)
       PROVE  CString(d, argv[w]) = SubSeq(text, Nth(Starts(text), w), Nth(Finishes(text), w))
  <2>1. Nth(Starts(text), w) = x(w)
    <3>. DEFINE T == Starts(text)
                k == p - lo
    <3>1. T \subseteq Nat /\ k \in Int
      BY <1>6 DEF Starts
    <3>6. w \in 1 .. Len(c1)
      BY <1>6, <1>7, <1>8
    <3>2. c1[w] = x(w)
      BY <1>7
    <3>3. Enumerates(c1, UpTo(T, k))
      BY <1>7 DEF UpTo
    <3>. HIDE DEF c1, T, k
    <3>4. Nth(T, w) = c1[w]
      BY ONLY <3>1, <3>3, <3>6, NthOf
    <3>. QED BY <3>2, <3>4 DEF T
  <2>2. Nth(Finishes(text), w) = y(w)
    <3>. DEFINE T == Finishes(text)
                k == p - lo
    <3>1. T \subseteq Nat /\ k \in Int
      BY <1>6 DEF Finishes
    <3>6. w \in 1 .. Len(c2)
      BY <1>6, <1>7, <1>8
    <3>2. c2[w] = y(w)
      BY <1>6, <1>8
    <3>3. Enumerates(c2, UpTo(T, k))
      BY <1>8 DEF UpTo
    <3>. HIDE DEF c2, T, k
    <3>4. Nth(T, w) = c2[w]
      BY ONLY <3>1, <3>3, <3>6, NthOf
    <3>. QED BY <3>2, <3>4 DEF T
  <2>3. /\ argv[w] < stops[w] /\ d[stops[w]] = NUL
        /\ \A m \in argv[w] .. (stops[w] - 1) : d[m] = b[m] /\ b[m] # NUL
    BY <1>4 DEF Cut
  <2>4. argv[w] \in lo .. hi /\ stops[w] \in lo .. hi
    <3>1. argv[w] \in Begins(b, lo, hi) /\ stops[w] \in Stoppings(b, lo, hi)
      BY <1>3, <1>4, <1>6 DEF Enumerates, Members
    <3>. QED BY <1>0, <3>1 DEF Begins, Stoppings
  <2>5. CString(d, argv[w]) = SubSeq(text, x(w), y(w))
    <3>. DEFINE v == argv[w]
                z == stops[w]
    <3>1. v \in lo .. hi /\ z \in lo .. hi /\ Piece(d, b, v, z)
      BY <2>3, <2>4 DEF Piece
    <3>. HIDE DEF v, z
    <3>3. d \in [0 .. M -> C] /\ text = TextOf(b, lo, hi)
      BY <1>3, <1>6
    <3>4. CString(d, v) = SubSeq(text, v + (1 - lo), z + (0 - lo))
      BY ONLY Holds(b, M, C, lo, hi), <3>1, <3>3, WordIsCut
    <3>. QED BY <3>4 DEF v, z
  <2>. QED BY <2>1, <2>2, <2>5
<1>11. Args(b, lo) = Words(text)
  <2>1. Args(b, lo) = [w \in 1 .. Len(argv) |-> CString(d, argv[w])]
    BY <1>2 DEF Args
  <2>2. Words(text) = [w \in 1 .. Len(argv) |-> SubSeq(text, Nth(Starts(text), w), Nth(Finishes(text), w))]
    BY <1>9, WordsAre
  <2>. QED BY <1>10, <2>1, <2>2
<1>. QED BY <1>2, <1>3, <1>5, <1>6, <1>11

-----------------------------------------------------------------------------
(***************************************************************************)
(* The state of the shell.  What was typed is what cmd_buffer holds up to  *)
(* cmd_index; the script is run in batch mode, so that nothing prompts     *)
(* before the first prompt of kernel_main.                                 *)
(***************************************************************************)
Bytes == Letters \cup {Blank, NUL}

TypedInv ==
    /\ typed = [n \in 1 .. cmd_index |-> cmd_buffer[n - 1]]
    /\ \A n \in 0 .. (cmd_index - 1) : cmd_buffer[n] \in Letters \cup {Blank}

PromptInv ==
    /\ pc \in {"register", "script"} => prompts = 0
    /\ pc = "script" /\ i <= Len(Script) => shell_batch_mode
    /\ pc = "main" => prompts = 1 /\ ~shell_batch_mode

ShellInv ==
    /\ TypeOK
    /\ prog_table \in Seq(Names)
    /\ next \in Nat \ {0}
    /\ TypedInv
    /\ PromptInv

LEMMA Constants ==
    /\ CmdBufSize \in Nat /\ CmdBufSize - 1 \in Nat /\ MaxArgs \in Nat /\ MAX_PROGRAMS \in Nat
    /\ Letters \cup {Blank} \subseteq Bytes /\ NUL \in Bytes /\ NUL \notin Letters \cup {Blank}
BY ShellAssumption, BlankIsNotNul DEF Bytes

\* Struck now, Enter finds a string in cmd_buffer.
LEMMA TerminatedHolds ==
    ASSUME TypeOK, TypedInv
    PROVE  /\ Holds(Terminated, CmdBufSize - 1, Bytes, 0, cmd_index)
           /\ TextOf(Terminated, 0, cmd_index) = typed
<1>. DEFINE M == CmdBufSize - 1
<1>1. /\ M \in Nat /\ cmd_index \in 0 .. M /\ cmd_buffer \in [0 .. M -> Bytes] /\ NUL \in Bytes
  BY Constants DEF TypeOK, Bytes
<1>. HIDE DEF M
<1>2. /\ Terminated \in [0 .. M -> Bytes] /\ Terminated[cmd_index] = NUL
      /\ \A m \in 0 .. (cmd_index - 1) : Terminated[m] = cmd_buffer[m]
  BY <1>1 DEF Terminated
<1>3. \A m \in 0 .. (cmd_index - 1) : Terminated[m] # NUL
  BY <1>2, Constants DEF TypedInv
<1>4. 0 \in 0 .. M /\ cmd_index \in 0 .. M /\ cmd_index \in Nat
  BY <1>1
<1>5. Holds(Terminated, M, Bytes, 0, cmd_index)
  BY <1>1, <1>2, <1>3, <1>4 DEF Holds
<1>6. \A n \in 1 .. cmd_index : Terminated[0 + n - 1] = cmd_buffer[n - 1]
  <2>1. \A n \in 1 .. cmd_index : 0 + n - 1 = n - 1 /\ n - 1 \in 0 .. (cmd_index - 1)
    BY <1>4
  <2>. QED BY <1>2, <2>1
<1>7. TextOf(Terminated, 0, cmd_index) = typed
  <2>1. cmd_index - 0 = cmd_index
    BY <1>4
  <2>. QED BY <1>6, <2>1 DEF TextOf, TypedInv
<1>. QED BY <1>5, <1>7 DEF M

LEMMA EnterParses ==
    ASSUME TypeOK, TypedInv
    PROVE  /\ Args(Terminated, 0) = Words(typed)
           /\ parse_args(Terminated, 0).b \in [0 .. (CmdBufSize - 1) -> Bytes]
<1>. DEFINE M == CmdBufSize - 1
            t == Terminated
<1>1. Holds(t, M, Bytes, 0, cmd_index) /\ TextOf(t, 0, cmd_index) = typed
  BY TerminatedHolds
<1>. HIDE DEF M, t
<1>2. Args(t, 0) = Words(TextOf(t, 0, cmd_index)) /\ parse_args(t, 0).b \in [0 .. M -> Bytes]
  BY ONLY <1>1, ParsesWords
<1>3. Args(t, 0) = Words(typed)
  BY <1>1, <1>2
<1>. QED BY <1>2, <1>3 DEF M, t

\* The service table keeps its shape, whatever the words.
LEMMA ServicesKept ==
    ASSUME services \in [ServiceNames -> [enabled : BOOLEAN, running : BOOLEAN]], NEW args
    PROVE  prog_service(args) \in [ServiceNames -> [enabled : BOOLEAN, running : BOOLEAN]]
<1>. DEFINE R == [enabled : BOOLEAN, running : BOOLEAN]
<1>1. ASSUME NEW name, NEW v \in BOOLEAN
      PROVE  Set(name, "running", v) \in [ServiceNames -> R] /\ Set(name, "enabled", v) \in [ServiceNames -> R]
  <2>1. CASE \E s \in ServiceNames : name = <<s>>
    <3>1. PICK s \in ServiceNames : name = <<s>>
      BY <2>1
    <3>2. name[1] = s
      BY <3>1
    <3>3. services[s] \in R
      OBVIOUS
    <3>4. [services[s] EXCEPT !["running"] = v] \in R /\ [services[s] EXCEPT !["enabled"] = v] \in R
      BY <3>3
    <3>5. /\ Set(name, "running", v) = [services EXCEPT ![s] = [services[s] EXCEPT !["running"] = v]]
          /\ Set(name, "enabled", v) = [services EXCEPT ![s] = [services[s] EXCEPT !["enabled"] = v]]
      BY <2>1, <3>2 DEF Set
    <3>. HIDE DEF R
    <3>6. \A r \in R : [services EXCEPT ![s] = r] \in [ServiceNames -> R]
      BY DEF R
    <3>. QED BY <3>4, <3>5, <3>6
  <2>2. CASE ~ \E s \in ServiceNames : name = <<s>>
    BY <2>2 DEF Set
  <2>. QED BY <2>1, <2>2
<1>. HIDE DEF R
<1>2. /\ \A name : /\ Set(name, "running", TRUE) \in [ServiceNames -> R]
                   /\ Set(name, "running", FALSE) \in [ServiceNames -> R]
                   /\ Set(name, "enabled", TRUE) \in [ServiceNames -> R]
                   /\ Set(name, "enabled", FALSE) \in [ServiceNames -> R]
      /\ services \in [ServiceNames -> R]
  BY <1>1 DEF R
<1>3. prog_service(args) \in [ServiceNames -> R]
  BY <1>2 DEF prog_service
<1>. QED BY <1>3 DEF R

\* A command leaves the kernel in its place or stops it, and prompts once
\* unless it stopped or ran in batch mode.
LEMMA CommandKeeps ==
    ASSUME services \in [ServiceNames -> [enabled : BOOLEAN, running : BOOLEAN]],
           NEW args, NEW before, execute_command(args, before)
    PROVE  /\ services' \in [ServiceNames -> [enabled : BOOLEAN, running : BOOLEAN]]
           /\ \/ pc' = "halted"
              \/ pc' = pc /\ prompts' = IF shell_batch_mode THEN before ELSE before + 1
BY ServicesKept DEF execute_command, print_prompt

LEMMA InitInv == Init => ShellInv
<1>. SUFFICES ASSUME Init PROVE ShellInv
  OBVIOUS
<1>1. prog_table \in Seq(Names) /\ Len(prog_table) = 0
  BY DEF Init
<1>2. cmd_buffer \in [0 .. (CmdBufSize - 1) -> Letters \cup {Blank, NUL}] /\ cmd_index \in 0 .. (CmdBufSize - 1)
  BY Constants DEF Init
<1>3. services \in [ServiceNames -> [enabled : BOOLEAN, running : BOOLEAN]]
  BY DEF Init
<1>4. TypeOK
  <2>1. pc = "register" /\ shell_batch_mode = FALSE
    BY DEF Init
  <2>2. Len(prog_table) <= MAX_PROGRAMS /\ \A n \in 1 .. Len(prog_table) : prog_table[n] \in Names
    BY <1>1, Constants
  <2>. QED BY ONLY <1>2, <1>3, <2>1, <2>2 DEF TypeOK
<1>5. TypedInv
  BY DEF Init, TypedInv
<1>. QED BY <1>1, <1>4, <1>5 DEF Init, ShellInv, PromptInv

\* What the steps of the boot and of the script leave alone.
LEMMA EditKept ==
    ASSUME TypedInv, UNCHANGED edit
    PROVE  TypedInv'
BY DEF TypedInv, edit

LEMMA RegisterKeeps ==
    ASSUME ShellInv, program_register
    PROVE  ShellInv'
<1>1. /\ pc = "register" /\ next <= Len(Registered) /\ next' = next + 1
      /\ UNCHANGED <<pc, edit, script, i, start, shell_batch_mode, ran, services, prompts>>
      /\ prog_table' = IF Len(prog_table) >= MAX_PROGRAMS THEN prog_table
                       ELSE Append(prog_table, Registered[next])
  BY DEF program_register
<1>. DEFINE R == Names
            r == Registered[next]
            T == prog_table
<1>2. r \in R
  <2>1. next \in 1 .. Len(Registered)
    BY <1>1 DEF ShellInv, Registered
  <2>. QED BY <2>1 DEF Names
<1>3. T \in Seq(R) /\ Len(T) <= MAX_PROGRAMS /\ Len(T) \in Nat
  BY DEF ShellInv, TypeOK
<1>4. prog_table' = IF Len(T) >= MAX_PROGRAMS THEN T ELSE Append(T, r)
  BY <1>1
<1>. HIDE DEF R, r, T
<1>5. Append(T, r) \in Seq(R) /\ Len(Append(T, r)) = Len(T) + 1
  BY <1>2, <1>3, AppendProperties
<1>6. prog_table' \in Seq(R) /\ Len(prog_table') <= MAX_PROGRAMS
  BY <1>3, <1>4, <1>5, Constants
<1>7. \A n \in 1 .. Len(prog_table') : prog_table'[n] \in R
  BY <1>6
<1>8. TypeOK'
  BY <1>1, <1>6, <1>7 DEF ShellInv, TypeOK, R, edit
<1>9. TypedInv' /\ PromptInv'
  BY <1>1, EditKept DEF ShellInv, PromptInv
<1>10. next' \in Nat \ {0}
  BY <1>1 DEF ShellInv
<1>. QED BY <1>6, <1>8, <1>9, <1>10 DEF ShellInv, R

LEMMA ScriptBeginKeeps ==
    ASSUME ShellInv, ScriptBegin
    PROVE  ShellInv'
<1>1. Script # <<>> \/ Len(Script) = 0
  BY ShellAssumption
<1>2. TypeOK'
  BY DEF ShellInv, TypeOK, ScriptBegin, edit
<1>3. TypedInv'
  BY EditKept DEF ShellInv, ScriptBegin
<1>4. prompts' = 0 /\ pc' = "script"
  BY DEF ShellInv, PromptInv, ScriptBegin
<1>5. i' <= Len(Script) => shell_batch_mode'
  <2>1. CASE Script # <<>>
    BY <2>1 DEF ScriptBegin
  <2>2. CASE Script = <<>>
    <3>1. i' = 1 /\ Len(Script) = 0
      BY <2>2, <1>1 DEF ScriptBegin
    <3>. QED BY <3>1
  <2>. QED BY <2>1, <2>2
<1>6. PromptInv'
  BY <1>4, <1>5 DEF PromptInv
<1>. QED BY <1>2, <1>3, <1>6 DEF ShellInv, ScriptBegin

LEMMA ScriptCharKeeps ==
    ASSUME ShellInv, ScriptChar
    PROVE  ShellInv'
<1>. DEFINE b == [script EXCEPT ![i] = NUL]
<1>1. /\ pc = "script" /\ i <= Len(Script) /\ UNCHANGED <<edit, prog_table, next, shell_batch_mode>>
      /\ \/ UNCHANGED <<pc, services, prompts>>
         \/ execute_command(Args(b, start), prompts)
  BY DEF ScriptChar
<1>. HIDE DEF b
<1>2. prompts = 0 /\ shell_batch_mode
  BY <1>1 DEF ShellInv, PromptInv
<1>3. /\ services' \in [ServiceNames -> [enabled : BOOLEAN, running : BOOLEAN]]
      /\ pc' = "halted" \/ (pc' = "script" /\ prompts' = 0)
  <2>1. CASE UNCHANGED <<pc, services, prompts>>
    BY <1>1, <1>2, <2>1 DEF ShellInv, TypeOK
  <2>2. CASE execute_command(Args(b, start), prompts)
    BY <1>1, <1>2, <2>2, CommandKeeps DEF ShellInv, TypeOK
  <2>. QED BY <1>1, <2>1, <2>2
<1>4. TypeOK'
  BY <1>1, <1>3 DEF ShellInv, TypeOK, edit
<1>5. TypedInv'
  BY <1>1, EditKept DEF ShellInv
<1>6. PromptInv'
  BY <1>1, <1>2, <1>3 DEF PromptInv
<1>. QED BY <1>1, <1>4, <1>5, <1>6 DEF ShellInv

LEMMA ScriptEndKeeps ==
    ASSUME ShellInv, ScriptEnd
    PROVE  ShellInv'
<1>1. TypeOK'
  BY DEF ShellInv, TypeOK, ScriptEnd, edit
<1>2. TypedInv'
  BY EditKept DEF ShellInv, ScriptEnd
<1>3. PromptInv'
  BY DEF ShellInv, PromptInv, ScriptEnd
<1>. QED BY <1>1, <1>2, <1>3 DEF ShellInv, ScriptEnd

LEMMA InputCharKeeps ==
    ASSUME ShellInv, NEW c \in Letters \cup {Blank}, InputChar(c)
    PROVE  ShellInv'
<1>1. pc = "main" /\ UNCHANGED <<pc, boot, services, prompts>>
  BY DEF InputChar
<1>. DEFINE M == CmdBufSize - 1
<1>2. M \in Nat /\ cmd_index \in 0 .. M /\ cmd_buffer \in [0 .. M -> Bytes] /\ c \in Bytes
  BY Constants DEF ShellInv, TypeOK, Bytes
<1>3. CASE UNCHANGED edit
  BY <1>1, <1>3, EditKept DEF ShellInv, TypeOK, PromptInv, edit, boot
<1>4. CASE /\ cmd_index < M /\ cmd_buffer' = [cmd_buffer EXCEPT ![cmd_index] = c]
           /\ cmd_index' = cmd_index + 1 /\ typed' = Append(typed, c)
  <2>. HIDE DEF M
  <2>1. cmd_index' \in 0 .. M /\ cmd_buffer' \in [0 .. M -> Bytes]
    BY <1>2, <1>4
  <2>2. cmd_buffer'[cmd_index] = c /\ \A n \in 0 .. (cmd_index - 1) : cmd_buffer'[n] = cmd_buffer[n]
    BY <1>2, <1>4
  <2>3. TypeOK'
    BY <1>1, <2>1 DEF ShellInv, TypeOK, M, Bytes, boot
  <2>4. ASSUME NEW n \in 0 .. (cmd_index' - 1) PROVE cmd_buffer'[n] \in Letters \cup {Blank}
    <3>1. n = cmd_index \/ n \in 0 .. (cmd_index - 1)
      BY <1>2, <1>4
    <3>. QED BY <2>2, <3>1 DEF ShellInv, TypedInv
  <2>5. typed' = [n \in 1 .. cmd_index' |-> cmd_buffer'[n - 1]]
    <3>1. typed = [n \in 1 .. cmd_index |-> cmd_buffer[n - 1]] /\ cmd_index \in Nat
      BY <1>2 DEF ShellInv, TypedInv
    <3>2. typed \in Seq(Bytes) /\ Len(typed) = cmd_index
      <4>1. \A n \in 1 .. cmd_index : n - 1 \in 0 .. M
        BY <1>2
      <4>. QED BY <1>2, <3>1, <4>1
    <3>3. /\ typed' \in Seq(Bytes) /\ Len(typed') = cmd_index + 1 /\ typed'[cmd_index + 1] = c
          /\ \A n \in 1 .. cmd_index : typed'[n] = typed[n]
      <4>. DEFINE t == typed
      <4>. HIDE DEF t
      <4>1. t \in Seq(Bytes) /\ Len(t) = cmd_index /\ typed' = Append(t, c)
        BY <1>4, <3>2 DEF t
      <4>2. /\ Append(t, c) \in Seq(Bytes) /\ Len(Append(t, c)) = Len(t) + 1 /\ Append(t, c)[Len(t) + 1] = c
            /\ \A n \in 1 .. Len(t) : Append(t, c)[n] = t[n]
        BY ONLY <1>2, <4>1, AppendProperties
      <4>. QED BY <4>1, <4>2 DEF t
    <3>4. ASSUME NEW n \in 1 .. (cmd_index + 1) PROVE typed'[n] = cmd_buffer'[n - 1]
      <4>1. CASE n = cmd_index + 1
        BY <2>2, <3>1, <3>3, <4>1
      <4>2. CASE n # cmd_index + 1
        <5>1. n \in 1 .. cmd_index /\ n - 1 \in 0 .. (cmd_index - 1)
          BY <3>1, <4>2
        <5>. QED BY <2>2, <3>1, <3>3, <5>1
      <4>. QED BY <4>1, <4>2
    <3>5. typed' = [n \in 1 .. (cmd_index + 1) |-> typed'[n]]
      BY <3>1, <3>3
    <3>. QED BY <1>4, <3>4, <3>5
  <2>. QED BY <1>1, <2>3, <2>4, <2>5 DEF ShellInv, TypedInv, PromptInv, boot
<1>. QED BY <1>3, <1>4 DEF InputChar

LEMMA InputEraseKeeps ==
    ASSUME ShellInv, InputErase
    PROVE  ShellInv'
<1>1. pc = "main" /\ UNCHANGED <<pc, boot, cmd_buffer, services, prompts>>
  BY DEF InputErase
<1>. DEFINE M == CmdBufSize - 1
<1>2. M \in Nat /\ cmd_index \in 0 .. M /\ cmd_buffer \in [0 .. M -> Bytes]
  BY Constants DEF ShellInv, TypeOK, Bytes
<1>3. CASE UNCHANGED <<cmd_index, typed>>
  BY <1>1, <1>3, EditKept DEF ShellInv, TypeOK, PromptInv, edit, boot
<1>4. CASE cmd_index > 0 /\ cmd_index' = cmd_index - 1 /\ typed' = Front(typed)
  <2>. HIDE DEF M
  <2>1. cmd_index' \in 0 .. M
    BY <1>2, <1>4
  <2>2. TypeOK'
    BY <1>1, <2>1 DEF ShellInv, TypeOK, M, boot
  <2>3. \A n \in 0 .. (cmd_index' - 1) : cmd_buffer'[n] \in Letters \cup {Blank}
    <3>1. \A n \in 0 .. (cmd_index' - 1) : n \in 0 .. (cmd_index - 1)
      BY <1>2, <1>4
    <3>. QED BY <1>1, <3>1 DEF ShellInv, TypedInv
  <2>4. typed' = [n \in 1 .. cmd_index' |-> cmd_buffer'[n - 1]]
    <3>1. typed = [n \in 1 .. cmd_index |-> cmd_buffer[n - 1]] /\ cmd_index \in Nat
      BY <1>2 DEF ShellInv, TypedInv
    <3>2. typed \in Seq(Bytes) /\ Len(typed) = cmd_index
      <4>1. \A n \in 1 .. cmd_index : n - 1 \in 0 .. M
        BY <1>2
      <4>. QED BY <1>2, <3>1, <4>1
    <3>3. Front(typed) = [n \in 1 .. (cmd_index - 1) |-> typed[n]]
      <4>. DEFINE t == typed
                  k == cmd_index - 1
      <4>1. t \in Seq(Bytes) /\ Len(t) - 1 = k /\ 1 \in 1 .. (Len(t) + 1) /\ k \in (1 - 1) .. Len(t) /\ k \in Nat
        BY <1>2, <1>4, <3>2
      <4>. HIDE DEF t, k
      <4>2. /\ SubSeq(t, 1, k) \in Seq(Bytes) /\ Len(SubSeq(t, 1, k)) = k - 1 + 1
            /\ \A n \in 1 .. (k - 1 + 1) : SubSeq(t, 1, k)[n] = t[1 + n - 1]
        BY ONLY <4>1, SubSeqProperties
      <4>3. SubSeq(t, 1, k) = [n \in 1 .. k |-> t[n]]
        BY <4>1, <4>2
      <4>. QED BY <4>1, <4>3 DEF Front, t, k
    <3>4. \A n \in 1 .. (cmd_index - 1) : n \in 1 .. cmd_index
      BY <3>1
    <3>. QED BY <1>1, <1>4, <3>1, <3>3, <3>4
  <2>. QED BY <1>1, <2>2, <2>3, <2>4 DEF ShellInv, TypedInv, PromptInv, boot
<1>. QED BY <1>3, <1>4 DEF InputErase

LEMMA InputEnterKeeps ==
    ASSUME ShellInv, InputEnter
    PROVE  ShellInv'
<1>. DEFINE args == Args(Terminated, 0)
            after == parse_args(Terminated, 0).b
<1>1. /\ pc = "main" /\ execute_command(args, 0) /\ cmd_buffer' = after /\ cmd_index' = 0 /\ typed' = <<>>
      /\ UNCHANGED boot
  BY DEF InputEnter
<1>2. after \in [0 .. (CmdBufSize - 1) -> Letters \cup {Blank, NUL}]
  BY EnterParses DEF ShellInv, Bytes
<1>. HIDE DEF args, after
<1>3. /\ services' \in [ServiceNames -> [enabled : BOOLEAN, running : BOOLEAN]]
      /\ pc' = "halted" \/ (pc' = "main" /\ prompts' = 1)
  <2>1. ~shell_batch_mode /\ services \in [ServiceNames -> [enabled : BOOLEAN, running : BOOLEAN]]
    BY <1>1 DEF ShellInv, PromptInv, TypeOK
  <2>. QED BY <1>1, <2>1, CommandKeeps
<1>4. TypeOK'
  BY <1>1, <1>2, <1>3, Constants DEF ShellInv, TypeOK, boot
<1>5. TypedInv'
  BY <1>1 DEF TypedInv
<1>6. PromptInv'
  BY <1>1, <1>3 DEF ShellInv, PromptInv, boot
<1>. QED BY <1>1, <1>4, <1>5, <1>6 DEF ShellInv, boot

LEMMA NextInv == ShellInv /\ [Next]_vars => ShellInv'
<1>. SUFFICES ASSUME ShellInv, [Next]_vars PROVE ShellInv'
  OBVIOUS
<1>1. CASE Next
  BY <1>1, RegisterKeeps, ScriptBeginKeeps, ScriptCharKeeps, ScriptEndKeeps, InputCharKeeps,
     InputEraseKeeps, InputEnterKeeps DEF Next
<1>2. CASE UNCHANGED vars
  BY <1>2, EditKept DEF ShellInv, TypeOK, PromptInv, vars, edit
<1>. QED BY <1>1, <1>2

\* The invariant of the shell: what was typed is the front of cmd_buffer
\* and nothing has prompted inside the script, in every reachable state.
THEOREM ShellInvariant == Spec => []ShellInv
<1>. QED BY InitInv, NextInv, PTL DEF Spec

\* shell_input and parse_args keep cmd_index inside cmd_buffer and leave
\* only typed letters, blanks and terminators there; the program table does
\* not grow past its limit.
THEOREM ShellTypeOK == Spec => []TypeOK
<1>1. ShellInv => TypeOK
  BY DEF ShellInv
<1>. QED BY <1>1, ShellInvariant, PTL

\* While it waits for a line the shell has prompted once since the last one,
\* and never while it ran the boot script in batch mode.
THEOREM ShellOnePrompt == Spec => []OnePrompt
<1>1. ShellInv => OnePrompt
  BY DEF ShellInv, PromptInv, OnePrompt
<1>. QED BY <1>1, ShellInvariant, PTL

\* Whatever was typed, erased and left behind by earlier lines, Enter hands
\* the command the first MaxArgs words of the line: parse_args, which cuts
\* cmd_buffer in place, agrees with the definition of a word.
THEOREM ShellArgsAreWords == Spec => []ArgsAreWords
<1>1. ShellInv => ArgsAreWords
  BY EnterParses DEF ShellInv, ArgsAreWords
<1>. QED BY <1>1, ShellInvariant, PTL

-----------------------------------------------------------------------------
(***************************************************************************)
(* The script.  Behind s cuts of the text the commands of the lines before *)
(* them have run.                                                          *)
(***************************************************************************)
Cuts == {0, Len(Script) + 1} \cup {n \in 1 .. Len(Script) : Script[n] = NL}

Full == {l \in 1 .. Len(Lines(Script)) : Words(Lines(Script)[l]) # <<>>}

Commands(f) == [n \in 1 .. Len(f) |-> Words(Lines(Script)[f[n]])]

Progress(s, r) ==
    \E a, f : /\ Enumerates(a, UpTo(Cuts, s)) /\ Len(a) > 0 /\ a[Len(a)] = s
              /\ Enumerates(f, UpTo(Full, Len(a) - 1)) /\ r = Commands(f)

LEMMA CutsFacts ==
    /\ Cuts \subseteq Nat /\ IsFiniteSet(Cuts) /\ Cardinality(Cuts) \in Nat
    /\ \A n \in Cuts : n <= Len(Script) + 1
    /\ Len(Script) \in Nat
<1>1. Len(Script) \in Nat
  BY ShellAssumption
<1>2. Cuts \subseteq 0 .. (Len(Script) + 1)
  BY <1>1 DEF Cuts
<1>. DEFINE I == 0 .. (Len(Script) + 1)
<1>3. IsFiniteSet(I)
  BY <1>1, FS_Interval
<1>4. Cuts \in SUBSET I
  BY <1>2
<1>. HIDE DEF I
<1>5. IsFiniteSet(Cuts)
  BY <1>3, <1>4, FS_Subset
<1>6. Cardinality(Cuts) \in Nat
  BY <1>5, FS_CardinalityType
<1>. QED BY <1>1, <1>2, <1>5, <1>6

LEMMA LinesFacts ==
    ASSUME Cardinality(Cuts) >= 1
    PROVE  /\ Len(Lines(Script)) = Cardinality(Cuts) - 1
           /\ \A l \in 1 .. (Cardinality(Cuts) - 1) :
                 Lines(Script)[l] = SubSeq(Script, Nth(Cuts, l) + 1, Nth(Cuts, l + 1) - 1)
<1>. DEFINE k == Cardinality(Cuts) - 1
            F(l) == SubSeq(Script, Nth(Cuts, l) + 1, Nth(Cuts, l + 1) - 1)
<1>1. k \in Nat
  BY CutsFacts
<1>2. Lines(Script) = [l \in 1 .. k |-> F(l)]
  BY DEF Lines, Cuts
<1>. HIDE DEF k, F
<1>3. Len(Lines(Script)) = k /\ \A l \in 1 .. k : Lines(Script)[l] = F(l)
  BY <1>1, <1>2
<1>. QED BY <1>3 DEF k, F

LEMMA EnumOne == ASSUME NEW x \in Nat PROVE Enumerates(<<x>>, {x}) /\ Len(<<x>>) = 1 /\ <<x>>[1] = x
<1>1. <<x>> = Append(<<>>, x)
  OBVIOUS
<1>2. Enumerates(Append(<<>>, x), {} \cup {x})
  BY EnumNone, EnumAppend
<1>3. {} \cup {x} = {x}
  OBVIOUS
<1>. QED BY <1>1, <1>2, <1>3

\* Before the first line.
LEMMA ProgressBegin == Progress(0, <<>>)
<1>1. UpTo(Cuts, 0) = {0}
  BY CutsFacts DEF UpTo, Cuts
<1>2. UpTo(Full, 1 - 1) = {}
  <2>1. \A l \in Full : l \in Int /\ l >= 1
    BY DEF Full
  <2>. QED BY <2>1 DEF UpTo
<1>3. Commands(<<>>) = <<>>
  BY DEF Commands
<1>. DEFINE one == <<0>>
            none == <<>>
<1>4. Enumerates(one, UpTo(Cuts, 0)) /\ Len(one) = 1 /\ one[1] = 0
  BY <1>1, EnumOne
<1>5. Enumerates(none, UpTo(Full, 1 - 1)) /\ Commands(none) = none
  BY <1>2, <1>3, EnumNone
<1>. HIDE DEF one, none
<1>6. Progress(0, none)
  <2>1. Len(one) > 0 /\ one[Len(one)] = 0 /\ Len(one) - 1 = 1 - 1
    BY <1>4
  <2>2. Enumerates(none, UpTo(Full, Len(one) - 1)) /\ none = Commands(none)
    BY <1>5, <2>1
  <2>. QED BY ONLY <1>4, <2>1, <2>2 DEF Progress
<1>. QED BY <1>6 DEF none

\* The line from a cut to the next one.
LEMMA ProgressStep ==
    ASSUME NEW s, NEW r, Progress(s, r), s \in 0 .. Len(Script), NEW e \in s .. Len(Script),
           \A m \in s .. (e - 1) : Script[m + 1] # NL, e = Len(Script) \/ Script[e + 1] = NL,
           NEW words, words = Words(SubSeq(Script, s + 1, e))
    PROVE  Progress(e + 1, IF words = <<>> THEN r ELSE Append(r, words))
<1>0. Len(Script) \in Nat /\ s \in Nat /\ e \in Nat /\ s <= e /\ e <= Len(Script) /\ Cuts \subseteq Nat
  BY CutsFacts
<1>1. PICK a, f : /\ Enumerates(a, UpTo(Cuts, s)) /\ Len(a) > 0 /\ a[Len(a)] = s
                  /\ Enumerates(f, UpTo(Full, Len(a) - 1)) /\ r = Commands(f)
  BY DEF Progress
<1>. DEFINE l == Len(a)
            a2 == Append(a, e + 1)
<1>2. a \in Seq(Nat) /\ f \in Seq(Nat) /\ l \in Nat /\ l > 0 /\ Len(f) \in Nat
  BY <1>1 DEF Enumerates, Rising
<1>3. UpTo(Cuts, e + 1) = UpTo(Cuts, s) \cup {e + 1}
  <2>1. e + 1 \in Cuts
    BY <1>0 DEF Cuts
  <2>2. ASSUME NEW x \in Cuts, x <= e + 1, ~(x <= s) PROVE x = e + 1
    <3>1. x \in Nat /\ (x = 0 \/ x = Len(Script) + 1 \/ Script[x] = NL)
      BY <1>0 DEF Cuts
    <3>2. x # e + 1 => x - 1 \in s .. (e - 1) /\ x - 1 + 1 = x /\ x # 0 /\ x # Len(Script) + 1
      BY <1>0, <2>2, <3>1
    <3>. QED BY <3>1, <3>2
  <2>3. \A x \in Cuts : x <= s => x <= e + 1
    BY <1>0
  <2>4. \A x \in Cuts : x <= e + 1 <=> x <= s \/ x = e + 1
    BY <1>0, <2>2, <2>3
  <2>. QED BY <2>1, <2>4 DEF UpTo
<1>4. Enumerates(a2, UpTo(Cuts, e + 1))
  <2>. DEFINE A == UpTo(Cuts, s)
              z == e + 1
  <2>1. Enumerates(a, A) /\ z \in Nat /\ \A x \in A : x < z
    BY <1>0, <1>1 DEF UpTo
  <2>. HIDE DEF A, z
  <2>2. Enumerates(Append(a, z), A \cup {z})
    BY ONLY <2>1, EnumAppend
  <2>. QED BY <1>3, <2>2 DEF A, z
<1>5. Len(a2) = l + 1 /\ a2[l + 1] = e + 1 /\ a2[l] = s
  <2>1. e + 1 \in Nat /\ l \in 1 .. l
    BY <1>0, <1>2
  <2>. QED BY <1>1, <1>2, <2>1, AppendProperties
<1>. HIDE DEF a2, l
<1>6. Nth(Cuts, l) = s /\ Nth(Cuts, l + 1) = e + 1
  <2>1. e + 1 \in Int /\ l \in 1 .. Len(a2) /\ l + 1 \in 1 .. Len(a2)
    BY <1>0, <1>2, <1>5
  <2>. DEFINE z == e + 1
  <2>. HIDE DEF z
  <2>3. Cuts \subseteq Nat /\ z \in Int /\ Enumerates(a2, UpTo(Cuts, z))
    BY <1>0, <1>4, <2>1 DEF z
  <2>4. \A w \in 1 .. Len(a2) : Nth(Cuts, w) = a2[w]
    BY ONLY <2>3, NthOf
  <2>2. Nth(Cuts, l) = a2[l] /\ Nth(Cuts, l + 1) = a2[l + 1]
    BY ONLY <2>1, <2>4
  <2>. QED BY <1>5, <2>2
<1>7. l + 1 <= Cardinality(Cuts) /\ Cardinality(Cuts) \in Nat
  <2>. DEFINE A == UpTo(Cuts, e + 1)
  <2>1. A \in SUBSET Cuts
    BY DEF UpTo
  <2>2. Enumerates(a2, A)
    BY <1>4
  <2>. HIDE DEF A
  <2>3. Cardinality(A) = Len(a2)
    BY <2>2, EnumCard
  <2>4. Cardinality(A) <= Cardinality(Cuts)
    BY <2>1, CutsFacts, FS_Subset
  <2>. QED BY <1>5, <2>3, <2>4, CutsFacts
<1>8. l \in 1 .. Len(Lines(Script)) /\ Lines(Script)[l] = SubSeq(Script, s + 1, e)
  <2>1. l \in 1 .. (Cardinality(Cuts) - 1) /\ Cardinality(Cuts) >= 1 /\ e + 1 - 1 = e
    BY <1>0, <1>2, <1>7
  <2>2. Len(Lines(Script)) = Cardinality(Cuts) - 1
    BY <2>1, LinesFacts
  <2>3. Lines(Script)[l] = SubSeq(Script, Nth(Cuts, l) + 1, Nth(Cuts, l + 1) - 1)
    BY <2>1, LinesFacts
  <2>. QED BY <1>6, <2>1, <2>2, <2>3
<1>9. words = Words(Lines(Script)[l])
  BY <1>8
<1>10. l \in Full <=> words # <<>>
  BY <1>8, <1>9 DEF Full
<1>11. \A x \in Full : x \in Nat
  BY DEF Full
<1>12. Len(a2) > 0 /\ a2[Len(a2)] = e + 1 /\ Len(a2) - 1 = l
  BY <1>2, <1>5
<1>13. CASE words = <<>>
  <2>1. UpTo(Full, l) = UpTo(Full, l - 1)
    BY <1>2, <1>10, <1>11, <1>13 DEF UpTo
  <2>2. Enumerates(f, UpTo(Full, l))
    BY <1>1, <2>1 DEF l
  <2>3. Progress(e + 1, r)
    BY <1>1, <1>4, <1>12, <2>2 DEF Progress
  <2>. QED BY <1>13, <2>3
<1>14. CASE words # <<>>
  <2>. DEFINE f2 == Append(f, l)
  <2>1. UpTo(Full, l) = UpTo(Full, l - 1) \cup {l}
    BY <1>2, <1>10, <1>11, <1>14 DEF UpTo
  <2>2. Enumerates(f2, UpTo(Full, l))
    <3>. DEFINE A == UpTo(Full, l - 1)
    <3>1. Enumerates(f, A) /\ \A x \in A : x < l
      BY <1>1, <1>2, <1>11 DEF UpTo, l
    <3>. HIDE DEF A
    <3>2. Enumerates(Append(f, l), A \cup {l})
      BY ONLY <1>2, <3>1, EnumAppend
    <3>. QED BY <2>1, <3>2 DEF A
  <2>3. /\ f2 \in Seq(Nat) /\ Len(f2) = Len(f) + 1 /\ f2[Len(f) + 1] = l
        /\ \A n \in 1 .. Len(f) : f2[n] = f[n]
    BY ONLY <1>2, AppendProperties
  <2>. HIDE DEF f2
  <2>4. Commands(f2) = Append(r, words)
    <3>. DEFINE W(n) == Words(Lines(Script)[n])
                S == {W(f[n]) : n \in 1 .. Len(f)} \cup {words}
    <3>1. r = [n \in 1 .. Len(f) |-> W(f[n])]
      BY <1>1 DEF Commands
    <3>2. r \in Seq(S) /\ Len(r) = Len(f) /\ words \in S
      BY <1>2, <3>1
    <3>3. \A n \in 1 .. Len(f) : r[n] = W(f[n])
      BY <3>1
    <3>. HIDE DEF S
    <3>4. /\ Append(r, words) \in Seq(S) /\ Len(Append(r, words)) = Len(f) + 1
          /\ Append(r, words)[Len(f) + 1] = words /\ \A n \in 1 .. Len(f) : Append(r, words)[n] = r[n]
      BY <3>2, AppendProperties
    <3>5. Append(r, words) = [n \in 1 .. (Len(f) + 1) |-> Append(r, words)[n]]
      BY <3>4
    <3>6. ASSUME NEW n \in 1 .. (Len(f) + 1) PROVE Append(r, words)[n] = W(f2[n])
      <4>1. CASE n = Len(f) + 1
        BY <1>9, <2>3, <3>4, <4>1
      <4>2. CASE n # Len(f) + 1
        <5>1. n \in 1 .. Len(f)
          BY ONLY <1>2, <4>2, n \in 1 .. (Len(f) + 1)
        <5>. QED BY <2>3, <3>3, <3>4, <5>1
      <4>. QED BY <4>1, <4>2
    <3>. HIDE DEF W
    <3>7. Append(r, words) = [n \in 1 .. Len(f2) |-> W(f2[n])]
      BY <2>3, <3>5, <3>6
    <3>. QED BY <3>7 DEF Commands, W
  <2>5. Progress(e + 1, Append(r, words))
    BY <1>4, <1>12, <2>2, <2>4 DEF Progress
  <2>. QED BY <1>14, <2>5
<1>. QED BY <1>13, <1>14

\* Behind the last line.
LEMMA ProgressEnd ==
    ASSUME NEW r, Progress(Len(Script) + 1, r)
    PROVE  r = ScriptCommands
<1>. DEFINE z == Len(Script) + 1
<1>1. PICK a, f : /\ Enumerates(a, UpTo(Cuts, z)) /\ Len(a) > 0
                  /\ Enumerates(f, UpTo(Full, Len(a) - 1)) /\ r = Commands(f)
  BY DEF Progress
<1>2. UpTo(Cuts, z) = Cuts
  BY CutsFacts DEF UpTo
<1>3. Cardinality(Cuts) = Len(a) /\ Len(a) \in Nat
  BY <1>1, <1>2, EnumCard
<1>4. Len(Lines(Script)) = Len(a) - 1
  BY <1>1, <1>3, LinesFacts
<1>5. UpTo(Full, Len(a) - 1) = Full /\ Full \subseteq Nat /\ Len(a) - 1 \in Int
  BY <1>3, <1>4 DEF UpTo, Full
<1>6. Cardinality(Full) = Len(f)
  BY <1>1, <1>5, EnumCard
<1>. DEFINE k == Len(a) - 1
<1>7. Enumerates(f, UpTo(Full, k)) /\ k \in Int
  BY <1>1, <1>5
<1>. HIDE DEF k
<1>8. \A n \in 1 .. Len(f) : Nth(Full, n) = f[n]
  <2>. SUFFICES ASSUME NEW n \in 1 .. Len(f) PROVE Nth(Full, n) = f[n]
    OBVIOUS
  <2>1. Full \subseteq Nat
    BY <1>5
  <2>. QED BY ONLY <1>7, <2>1, n \in 1 .. Len(f), NthOf
<1>9. ScriptCommands = [n \in 1 .. Cardinality(Full) |-> Words(Lines(Script)[Nth(Full, n)])]
  BY DEF ScriptCommands, Full
<1>10. ScriptCommands = [n \in 1 .. Len(f) |-> Words(Lines(Script)[f[n]])]
  BY <1>6, <1>8, <1>9
<1>. QED BY <1>1, <1>10 DEF Commands

LEMMA NoWords ==
    ASSUME NEW text, Len(text) = 0
    PROVE  Words(text) = <<>>
<1>1. Starts(text) = {}
  BY DEF Starts
<1>2. Cardinality(Starts(text)) = 0
  BY <1>1, FS_EmptySet
<1>3. Min({MaxArgs, 0}) = 0
  <2>1. MaxArgs \in Nat /\ ~(MaxArgs <= 0)
    BY ShellAssumption
  <2>. QED BY <2>1, MinOfTwo
<1>4. Words(text) = [w \in 1 .. 0 |-> SubSeq(text, Nth(Starts(text), w), Nth(Finishes(text), w))]
  BY <1>2, <1>3, WordsAre
<1>. QED BY <1>4

LEMMA EmptyLine ==
    ASSUME NEW s \in 0 .. Len(Script)
    PROVE  Words(SubSeq(Script, s + 1, s)) = <<>>
<1>. DEFINE x == s + 1
            line == SubSeq(Script, x, s)
<1>1. Script \in Seq(STRING) /\ x \in 1 .. (Len(Script) + 1) /\ s \in (x - 1) .. Len(Script) /\ s - x + 1 = 0
  BY ShellAssumption, CutsFacts
<1>. HIDE DEF x
<1>2. Len(line) = s - x + 1
  BY ONLY <1>1, SubSeqProperties
<1>. HIDE DEF line
<1>3. Words(line) = <<>>
  BY <1>1, <1>2, NoWords
<1>. QED BY <1>3 DEF line, x

LEMMA EmptyScript ==
    ASSUME Script = <<>>
    PROVE  ScriptCommands = <<>>
<1>1. Len(Script) = 0
  OBVIOUS
<1>2. Words(SubSeq(Script, 0 + 1, 0)) = <<>>
  <2>1. 0 \in 0 .. Len(Script)
    BY <1>1
  <2>. QED BY <2>1, EmptyLine
<1>. DEFINE words == Words(SubSeq(Script, 0 + 1, 0))
            none == <<>>
<1>. HIDE DEF words, none
<1>3. words = Words(SubSeq(Script, 0 + 1, 0)) /\ words = <<>> /\ Progress(0, none)
  BY <1>2, ProgressBegin DEF words, none
<1>4. 0 \in 0 .. Len(Script) /\ 0 = Len(Script) /\ \A m \in 0 .. (0 - 1) : Script[m + 1] # NL
  BY <1>1
<1>5. Progress(0 + 1, IF words = <<>> THEN none ELSE Append(none, words))
  BY ONLY <1>3, <1>4, ProgressStep
<1>6. Progress(Len(Script) + 1, none)
  <2>1. 0 + 1 = Len(Script) + 1
    BY <1>1
  <2>. QED BY <1>3, <1>5, <2>1
<1>7. none = ScriptCommands
  BY ONLY <1>6, ProgressEnd
<1>. QED BY <1>7 DEF none

\* What is at place m of the copy that shell_run_script makes.
Source(m) == IF m < Len(Script) THEN Script[m + 1] ELSE NUL

Texts == {Source(m) : m \in 0 .. Len(Script)}

\* The copy is still the text from start on: the lines that were cut into
\* words lie before it.
Reading ==
    /\ script \in [0 .. Len(Script) -> Texts]
    /\ i \in 0 .. (Len(Script) + 1) /\ start \in 0 .. i
    /\ i = Len(Script) + 1 => start = i
    /\ \A m \in start .. Len(Script) : script[m] = Source(m)
    /\ \A m \in start .. (i - 1) : Source(m) \notin {NL, NUL}
    /\ Progress(start, ran)

ScriptInv ==
    /\ pc = "register" => start = 0 /\ ran = <<>>
    /\ pc = "script" /\ Script = <<>> => ran = <<>> /\ i = 1
    /\ pc = "script" /\ Script # <<>> => Reading
    /\ pc = "main" => ran = ScriptCommands

LEMMA SourceFacts ==
    /\ Len(Script) \in Nat /\ Source(Len(Script)) = NUL /\ NUL \in Texts
    /\ \A m \in 0 .. Len(Script) : Source(m) \in Texts
    /\ \A m \in 0 .. (Len(Script) - 1) : Source(m) = Script[m + 1] /\ Source(m) # NUL
<1>1. Len(Script) \in Nat
  BY CutsFacts
<1>2. \A m \in 0 .. (Len(Script) - 1) : m + 1 \in 1 .. Len(Script) /\ m < Len(Script)
  BY <1>1
<1>3. \A m \in 0 .. (Len(Script) - 1) : Script[m + 1] # NUL
  BY <1>2, ShellAssumption
<1>4. \A m \in 0 .. (Len(Script) - 1) : Source(m) = Script[m + 1]
  BY <1>2 DEF Source
<1>5. Source(Len(Script)) = NUL
  <2>1. ~(Len(Script) < Len(Script))
    BY <1>1
  <2>. QED BY <2>1 DEF Source
<1>6. NUL \in Texts /\ \A m \in 0 .. Len(Script) : Source(m) \in Texts
  BY <1>1, <1>5 DEF Texts
<1>. QED BY <1>1, <1>3, <1>4, <1>5, <1>6

\* The line that ends at i, found in the copy.
LEMMA LineFound ==
    ASSUME Reading, i <= Len(Script), NEW b, b = [script EXCEPT ![i] = NUL]
    PROVE  /\ Holds(b, Len(Script), Texts, start, i)
           /\ TextOf(b, start, i) = SubSeq(Script, start + 1, i)
           /\ b[start] = NUL <=> start = i
           /\ \A m \in (i + 1) .. Len(Script) : b[m] = Source(m)
<1>. DEFINE L == Len(Script)
<1>1. /\ L \in Nat /\ i \in 0 .. L /\ start \in 0 .. i /\ start \in 0 .. L /\ i \in start .. L
      /\ i \in Nat /\ start \in Nat
      /\ script \in [0 .. L -> Texts] /\ NUL \in Texts
  BY SourceFacts DEF Reading
<1>2. b \in [0 .. L -> Texts] /\ b[i] = NUL /\ \A m \in 0 .. L : m # i => b[m] = script[m]
  BY <1>1
<1>3. \A m \in start .. (i - 1) : b[m] = Source(m) /\ b[m] # NUL /\ Source(m) = Script[m + 1]
  <2>1. \A m \in start .. (i - 1) : m \in 0 .. L /\ m # i /\ m \in start .. L /\ m \in 0 .. (L - 1)
    BY <1>1
  <2>. QED BY <1>2, <2>1, SourceFacts DEF Reading
<1>4. \A m \in (i + 1) .. L : b[m] = Source(m)
  <2>1. \A m \in (i + 1) .. L : m \in 0 .. L /\ m # i /\ m \in start .. L
    BY <1>1
  <2>. QED BY <1>2, <2>1 DEF Reading
<1>5. Holds(b, L, Texts, start, i)
  BY <1>1, <1>2, <1>3 DEF Holds
<1>6. b[start] = NUL <=> start = i
  <2>1. start # i => start \in start .. (i - 1)
    BY <1>1
  <2>. QED BY <1>2, <1>3, <2>1
<1>7. TextOf(b, start, i) = SubSeq(Script, start + 1, i)
  <2>. DEFINE x == start + 1
              line == SubSeq(Script, x, i)
              k == i - start
  <2>1. Script \in Seq(STRING) /\ x \in 1 .. (Len(Script) + 1) /\ i \in (x - 1) .. Len(Script) /\ i - x + 1 = k
        /\ k \in Nat
    BY <1>1, ShellAssumption
  <2>2. \A n \in 1 .. k : start + n - 1 \in start .. (i - 1) /\ start + n - 1 + 1 = x + n - 1
    BY <1>1
  <2>. HIDE DEF x, k
  <2>3. line \in Seq(STRING) /\ Len(line) = i - x + 1 /\ \A n \in 1 .. (i - x + 1) : line[n] = Script[x + n - 1]
    BY ONLY <2>1, SubSeqProperties
  <2>. HIDE DEF line
  <2>4. line = [n \in 1 .. k |-> line[n]]
    BY <2>1, <2>3
  <2>5. \A n \in 1 .. k : line[n] = b[start + n - 1]
    BY <1>3, <2>1, <2>2, <2>3
  <2>6. TextOf(b, start, i) = [n \in 1 .. k |-> b[start + n - 1]]
    BY DEF TextOf, k
  <2>7. TextOf(b, start, i) = line
    BY <2>4, <2>5, <2>6
  <2>. QED BY <2>7 DEF line, x
<1>. QED BY <1>4, <1>5, <1>6, <1>7

LEMMA ScriptInvInit == Init => ScriptInv
BY DEF Init, ScriptInv

LEMMA ScriptBeginReads ==
    ASSUME ScriptInv, ScriptBegin
    PROVE  ScriptInv'
<1>1. start = 0 /\ ran = <<>> /\ start' = 0 /\ ran' = <<>> /\ pc' = "script"
  BY DEF ScriptInv, ScriptBegin
<1>2. ASSUME Script # <<>> PROVE Reading'
  <2>1. i' = 0 /\ Len(Script) \in Nat
    BY <1>2, SourceFacts DEF ScriptBegin
  <2>2. script' = [m \in 0 .. Len(Script) |-> Source(m)]
    BY DEF ScriptBegin, Source
  <2>3. script' \in [0 .. Len(Script) -> Texts] /\ \A m \in 0 .. Len(Script) : script'[m] = Source(m)
    BY <2>2, SourceFacts
  <2>4. Progress(start', ran')
    BY <1>1, ProgressBegin
  <2>5. i' \in 0 .. (Len(Script) + 1) /\ start' \in 0 .. i' /\ i' # Len(Script) + 1 /\ start' .. (i' - 1) = {}
    BY <1>1, <2>1
  <2>. QED BY <1>1, <2>3, <2>4, <2>5 DEF Reading
<1>3. Script = <<>> => i' = 1
  BY DEF ScriptBegin
<1>. QED BY <1>1, <1>2, <1>3 DEF ScriptInv

LEMMA ScriptCharReads ==
    ASSUME ShellInv, ScriptInv, ScriptChar
    PROVE  ScriptInv'
<1>. DEFINE b == [script EXCEPT ![i] = NUL]
            L == Len(Script)
            words == Args(b, start)
            after == parse_args(b, start).b
<1>1. pc = "script" /\ i <= L /\ i' = i + 1
  BY DEF ScriptChar
<1>2. Script # <<>> /\ Reading
  <2>1. Script = <<>> => i = 1 /\ Len(Script) = 0
    BY <1>1 DEF ScriptInv
  <2>. QED BY <1>1, <2>1 DEF ScriptInv
<1>3. L \in Nat /\ i \in 0 .. L /\ start \in 0 .. i /\ i + 1 \in 0 .. (L + 1) /\ i \in Nat /\ start \in Nat
      /\ start \in 0 .. L /\ i \in start .. L
  BY <1>1, <1>2, SourceFacts DEF Reading
<1>4. script[i] = Source(i)
  BY <1>2, <1>3 DEF Reading
<1>5. CASE script[i] \notin {NL, NUL}
  <2>1. UNCHANGED <<pc, script, start, ran>>
    BY <1>5 DEF ScriptChar
  <2>2. i # L
    BY <1>4, <1>5, SourceFacts
  <2>3. i + 1 \in 0 .. (L + 1) /\ start \in 0 .. (i + 1) /\ i + 1 # L + 1
    BY <1>3, <2>2
  <2>4. \A m \in start .. (i + 1 - 1) : Source(m) \notin {NL, NUL}
    <3>1. \A m \in start .. (i + 1 - 1) : m = i \/ m \in start .. (i - 1)
      BY <1>3
    <3>. QED BY <1>2, <1>4, <1>5, <3>1 DEF Reading
  <2>5. Reading'
    BY <1>1, <1>2, <2>1, <2>3, <2>4 DEF Reading
  <2>. QED BY <1>1, <1>2, <2>1, <2>5 DEF ScriptInv
<1>6. CASE script[i] \in {NL, NUL}
  <2>1. /\ start' = i + 1
        /\ IF b[start] = NUL
           THEN script' = b /\ UNCHANGED <<pc, ran, services, prompts>>
           ELSE /\ script' = after
                /\ ran' = IF words = <<>> THEN ran ELSE Append(ran, words)
                /\ execute_command(words, prompts)
    BY <1>6 DEF ScriptChar
  <2>. DEFINE line == SubSeq(Script, start + 1, i)
  <2>2. b = [script EXCEPT ![i] = NUL]
    OBVIOUS
  <2>. HIDE DEF b
  <2>3. /\ Holds(b, L, Texts, start, i) /\ TextOf(b, start, i) = line
        /\ b[start] = NUL <=> start = i
        /\ \A m \in (i + 1) .. L : b[m] = Source(m)
    BY <1>1, <1>2, <2>2, LineFound
  <2>4. /\ words = Words(line) /\ after \in [0 .. L -> Texts]
        /\ \A m \in 0 .. L : m \notin start .. (i - 1) => after[m] = b[m]
    <3>. DEFINE C == Texts
    <3>1. Holds(b, L, C, start, i)
      BY <2>3
    <3>. HIDE DEF L, C, b, words, after, line
    <3>2. /\ Args(b, start) = Words(TextOf(b, start, i)) /\ parse_args(b, start).b \in [0 .. L -> C]
          /\ \A m \in 0 .. L : m \notin start .. (i - 1) => parse_args(b, start).b[m] = b[m]
      BY ONLY <3>1, ParsesWords
    <3>. QED BY <2>3, <3>2 DEF C, words, after
  <2>. HIDE DEF words, after
  <2>5. b \in [0 .. L -> Texts]
    BY <2>3 DEF Holds
  <2>6. Progress(i + 1, IF Words(line) = <<>> THEN ran ELSE Append(ran, Words(line)))
    <3>. DEFINE w == Words(line)
    <3>1. Progress(start, ran)
      BY <1>2 DEF Reading
    <3>2. \A m \in start .. (i - 1) : Script[m + 1] # NL
      <4>1. \A m \in start .. (i - 1) : m \in 0 .. (L - 1)
        BY <1>3
      <4>. QED BY <1>2, <4>1, SourceFacts DEF Reading
    <3>3. i = L \/ Script[i + 1] = NL
      <4>1. i # L => i \in 0 .. (L - 1)
        BY <1>3
      <4>. QED BY <1>4, <1>6, <4>1, SourceFacts
    <3>4. w = Words(SubSeq(Script, start + 1, i))
      OBVIOUS
    <3>. HIDE DEF w
    <3>5. Progress(i + 1, IF w = <<>> THEN ran ELSE Append(ran, w))
      BY <1>3, <3>1, <3>2, <3>3, <3>4, ProgressStep
    <3>. QED BY <3>5 DEF w
  <2>7. /\ script' \in [0 .. L -> Texts] /\ \A m \in (i + 1) .. L : script'[m] = Source(m)
        /\ ran' = IF Words(line) = <<>> THEN ran ELSE Append(ran, Words(line))
        /\ pc' \in {"script", "halted"}
    <3>. HIDE DEF line
    <3>1. CASE start = i
      <4>1. Words(line) = <<>>
        <5>1. Words(SubSeq(Script, start + 1, start)) = <<>>
          BY <1>3, EmptyLine
        <5>. QED BY <3>1, <5>1 DEF line
      <4>2. script' = b /\ UNCHANGED <<pc, ran>>
        BY <2>1, <2>3, <3>1
      <4>. QED BY <1>1, <2>3, <2>5, <4>1, <4>2
    <3>2. CASE start # i
      <4>1. /\ script' = after /\ ran' = (IF words = <<>> THEN ran ELSE Append(ran, words))
            /\ execute_command(words, prompts)
        BY <2>1, <2>3, <3>2
      <4>2. \A m \in (i + 1) .. L : m \in 0 .. L /\ m \notin start .. (i - 1)
        BY <1>3
      <4>3. services \in [ServiceNames -> [enabled : BOOLEAN, running : BOOLEAN]]
        BY DEF ShellInv, TypeOK
      <4>4. pc' \in {"script", "halted"}
        BY <1>1, <4>1, <4>3, CommandKeeps
      <4>. QED BY <2>3, <2>4, <4>1, <4>2, <4>4
    <3>. QED BY <3>1, <3>2
  <2>. HIDE DEF line
  <2>8. Reading'
    <3>1. start' \in 0 .. i' /\ i' = i + 1 /\ i' \in 0 .. (L + 1) /\ start' = i' /\ start' .. (i' - 1) = {}
      BY <1>1, <1>3, <2>1
    <3>2. Progress(start', ran')
      BY <2>1, <2>6, <2>7
    <3>3. script' \in [0 .. L -> Texts] /\ \A m \in start' .. L : script'[m] = Source(m)
      BY <2>1, <2>7
    <3>. QED BY <3>1, <3>2, <3>3 DEF Reading
  <2>. QED BY <1>2, <2>7, <2>8 DEF ScriptInv
<1>. QED BY <1>5, <1>6

LEMMA ScriptEndReads ==
    ASSUME ScriptInv, ScriptEnd
    PROVE  ScriptInv'
<1>1. pc = "script" /\ i > Len(Script) /\ pc' = "main" /\ ran' = ran
  BY DEF ScriptEnd
<1>2. ran = ScriptCommands
  <2>1. CASE Script = <<>>
    BY <1>1, <2>1, EmptyScript DEF ScriptInv
  <2>2. CASE Script # <<>>
    <3>1. Reading
      BY <1>1, <2>2 DEF ScriptInv
    <3>2. start = Len(Script) + 1
      BY <1>1, <3>1, SourceFacts DEF Reading
    <3>3. Progress(Len(Script) + 1, ran)
      BY <3>1, <3>2 DEF Reading
    <3>. QED BY <3>3, ProgressEnd
  <2>. QED BY <2>1, <2>2
<1>. QED BY <1>1, <1>2 DEF ScriptInv

LEMMA ScriptInvNext == ShellInv /\ ScriptInv /\ [Next]_vars => ScriptInv'
<1>. SUFFICES ASSUME ShellInv, ScriptInv, [Next]_vars PROVE ScriptInv'
  OBVIOUS
<1>1. CASE program_register
  BY <1>1 DEF ScriptInv, program_register
<1>2. CASE \/ \E c \in Letters \cup {Blank} : InputChar(c)
           \/ InputErase
  BY <1>2 DEF ScriptInv, InputChar, InputErase, boot
<1>3. CASE InputEnter
  <2>. DEFINE args == Args(Terminated, 0)
  <2>1. pc = "main" /\ execute_command(args, 0) /\ UNCHANGED boot
    BY <1>3 DEF InputEnter
  <2>. HIDE DEF args
  <2>2. services \in [ServiceNames -> [enabled : BOOLEAN, running : BOOLEAN]]
    BY DEF ShellInv, TypeOK
  <2>3. pc' \in {"main", "halted"}
    BY <2>1, <2>2, CommandKeeps
  <2>. QED BY <2>1, <2>3 DEF ScriptInv, boot
<1>4. CASE UNCHANGED vars
  <2>1. Reading => Reading'
    BY <1>4 DEF Reading, vars
  <2>. QED BY <1>4, <2>1 DEF ScriptInv, vars
<1>. QED BY <1>1, <1>2, <1>3, <1>4, ScriptBeginReads, ScriptCharReads, ScriptEndReads DEF Next

\* shell_run_script ran the script line by line, the last one without a
\* newline included, and each command got the words of its own line: the
\* terminators that parse_args writes into the copy stay inside the line,
\* whatever the script, so that the lines behind it are read as written.
THEOREM ShellScriptRunsLines == Spec => []ScriptRunsLines
<1>1. Init => ShellInv /\ ScriptInv
  BY InitInv, ScriptInvInit
<1>2. ShellInv /\ ScriptInv /\ [Next]_vars => (ShellInv /\ ScriptInv)'
  BY NextInv, ScriptInvNext
<1>3. ScriptInv => ScriptRunsLines
  BY DEF ScriptInv, ScriptRunsLines
<1>. QED BY <1>1, <1>2, <1>3, PTL DEF Spec

=============================================================================
