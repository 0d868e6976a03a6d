---------------------------- MODULE TrafficProofs ----------------------------
(***************************************************************************)
(* TLAPS proofs about Traffic, for any users, protocols, days, amounts of  *)
(* traffic and mishaps, and for any calendar: traffic is counted once, the *)
(* counters of protocols, users and brigade add up, a counter of a period  *)
(* holds what was counted in it, and the quota is charged.                 *)
(*                                                                         *)
(* The sums and the calendar come first: what MapThenSumSet computes is    *)
(* found by induction over the subsets of a finite set, and what           *)
(* DaysBefore does by induction over numbers, both as the minimum of a     *)
(* well-founded order.                                                     *)
(***************************************************************************)
EXTENDS Traffic, FiniteSetTheorems, WellFoundedInduction, TLAPS

-----------------------------------------------------------------------------
(* Sums over finite sets.                                                  *)

\* A set of numbers has a least one.
LEMMA SmallestOf ==
    ASSUME NEW T, T \subseteq Nat, T # {}
    PROVE  \E n \in T : \A m \in T : n <= m
<1> DEFINE Less == OpToRel(<, Nat)
<1>1. IsWellFoundedOn(Less, Nat)
  BY NatLessThanWellFounded
<1>2. PICK n \in T : \A m \in T : <<m, n>> \notin Less
  <2> HIDE DEF Less
  <2> QED
    BY <1>1, WFMin
<1>3. \A m \in T : ~(m < n)
  BY <1>2 DEF OpToRel
<1> QED
  BY <1>3

\* A property of the subsets of a finite set that the empty one has, and a set has when
\* its proper subsets have it, is one of them all.
LEMMA SubsetInduction ==
    ASSUME NEW U, IsFiniteSet(U), NEW Good \in SUBSET SUBSET U,
           \A s \in SUBSET U : (\A x \in s : s \ {x} \in Good) => s \in Good
    PROVE  Good = SUBSET U
<1> SUFFICES ASSUME Good # SUBSET U
             PROVE  FALSE
  OBVIOUS
<1> DEFINE Bad == (SUBSET U) \ Good
           Less == StrictSubsetOrdering(U)
<1>1. Bad \subseteq FiniteSubsetsOf(U) /\ Bad # {}
  BY FS_Subset DEF FiniteSubsetsOf
<1>2. IsWellFoundedOn(Less, FiniteSubsetsOf(U))
  BY FS_StrictSubsetOrderingWellFounded
<1>3. PICK s \in Bad : \A r \in Bad : <<r, s>> \notin Less
  <2> HIDE DEF Less, Bad
  <2> QED
    BY <1>1, <1>2, WFMin
<1>4. ASSUME NEW x \in s
      PROVE  s \ {x} \in Good
  <2>1. s \ {x} \in SUBSET U /\ s \ {x} \subseteq s /\ s \ {x} # s
    OBVIOUS
  <2>2. <<s \ {x}, s>> \in Less
    BY <2>1 DEF StrictSubsetOrdering
  <2> QED
    BY <1>3, <2>1, <2>2
<1> QED
  BY <1>3, <1>4

\* What MapThenSumSet computes with.
IsSum(h, g, S) ==
    h = [s \in SUBSET S |-> IF s = {} THEN 0
                            ELSE LET x == CHOOSE x \in s : TRUE IN g[x] + h[s \ {x}]]

\* MapThenSumSet, down to its recursive function.
LEMMA SumUnfolded ==
    ASSUME NEW g, NEW S
    PROVE  SumOver(S, g) = (CHOOSE h : IsSum(h, g, S))[S]
  BY DEF SumOver, MapThenSumSet, MapThenFoldSet, IsSum

\* A set of numbers with 0, and with the successor of each, has all.
LEMMA NumberInduction ==
    ASSUME NEW Good \in SUBSET Nat, 0 \in Good, \A n \in Good : n + 1 \in Good
    PROVE  Good = Nat
<1> SUFFICES ASSUME Nat \ Good # {}
             PROVE  FALSE
  OBVIOUS
<1>1. PICK n \in Nat \ Good : \A m \in Nat \ Good : n <= m
  BY SmallestOf
<1>2. n - 1 \in Nat /\ n - 1 \notin Nat \ Good
  BY <1>1
<1>3. (n - 1) + 1 = n
  BY <1>1
<1> QED
  BY <1>1, <1>2, <1>3

\* The recursive function of MapThenSumSet exists, up to any number of elements.
LEMMA SumExists ==
    ASSUME NEW g, NEW S, IsFiniteSet(S)
    PROVE  \E h : IsSum(h, g, S)
<1> DEFINE c(s) == CHOOSE x \in s : TRUE
           D(n) == {s \in SUBSET S : Cardinality(s) <= n}
           Eq(h, n) == \A s \in D(n) : h[s] = IF s = {} THEN 0 ELSE g[c(s)] + h[s \ {c(s)}]
           Good == {n \in Nat : \E h : Eq(h, n)}
<1>1. \A s \in SUBSET S : /\ Cardinality(s) \in Nat /\ (Cardinality(s) = 0 <=> s = {})
                          /\ s # {} => /\ c(s) \in s
                                       /\ Cardinality(s \ {c(s)}) = Cardinality(s) - 1
  <2>1. ASSUME NEW s \in SUBSET S
        PROVE  IsFiniteSet(s) /\ Cardinality(s) \in Nat
    BY FS_Subset, FS_CardinalityType
  <2>2. ASSUME NEW s \in SUBSET S, s # {}
        PROVE  c(s) \in s /\ Cardinality(s \ {c(s)}) = Cardinality(s) - 1
    <3>1. c(s) \in s
      BY <2>2
    <3> HIDE DEF c
    <3> QED
      BY <2>1, <3>1, FS_RemoveElement
  <2>3. ASSUME NEW s \in SUBSET S
        PROVE  Cardinality(s) = 0 <=> s = {}
    BY <2>1, FS_EmptySet
  <2> HIDE DEF c
  <2> QED
    BY <2>1, <2>2, <2>3
<1> HIDE DEF c
<1>2. 0 \in Good
  <2> DEFINE h == [s \in D(0) |-> 0]
  <2>1. ASSUME NEW s \in D(0)
        PROVE  s = {}
    <3>1. Cardinality(s) \in Nat /\ (Cardinality(s) = 0 <=> s = {}) /\ Cardinality(s) <= 0
      BY <1>1
    <3> QED
      BY <3>1
  <2>2. Eq(h, 0)
    BY <2>1
  <2> QED
    BY <2>2
<1>3. ASSUME NEW n \in Good
      PROVE  n + 1 \in Good
  <2>1. PICK h : Eq(h, n)
    OBVIOUS
  <2> DEFINE k == [s \in D(n + 1) |-> IF s = {} THEN 0 ELSE g[c(s)] + h[s \ {c(s)}]]
  <2>2. \A s \in D(n + 1) : s # {} => s \ {c(s)} \in D(n)
    BY <1>1
  <2>3. \A s \in D(n) : s \in D(n + 1) /\ k[s] = h[s]
    BY <1>1, <2>1
  <2>4. Eq(k, n + 1)
    BY <2>2, <2>3
  <2>5. n + 1 \in Nat
    OBVIOUS
  <2>6. \E f : Eq(f, n + 1)
    <3> HIDE DEF k, Eq
    <3> QED
      BY <2>4
  <2> HIDE DEF Eq
  <2> QED
    BY <2>5, <2>6
<1>4. Cardinality(S) \in Good
  <2> HIDE DEF Good
  <2>1. Good = Nat
    <3>1. Good \in SUBSET Nat
      BY DEF Good
    <3> QED
      BY <1>2, <1>3, <3>1, NumberInduction
  <2> QED
    BY <2>1, FS_CardinalityType
<1>5. PICK h : Eq(h, Cardinality(S))
  BY <1>4
<1>6. SUBSET S = D(Cardinality(S))
  BY FS_Subset
<1> DEFINE k == [s \in SUBSET S |-> IF s = {} THEN 0 ELSE g[c(s)] + h[s \ {c(s)}]]
<1>7. \A s \in SUBSET S : k[s] = h[s]
  BY <1>5, <1>6
<1>8. \A s \in SUBSET S : s # {} => s \ {c(s)} \in SUBSET S
  OBVIOUS
<1>9. k = [s \in SUBSET S |-> IF s = {} THEN 0 ELSE g[c(s)] + k[s \ {c(s)}]]
  BY <1>7, <1>8
<1>10. IsSum(k, g, S)
  <2> HIDE DEF k
  <2> QED
    BY <1>9 DEF IsSum, c
<1> QED
  BY <1>10

\* Sums over subsets are the values of the function that sums over the set.
LEMMA SumOfSubset ==
    ASSUME NEW g, NEW S, IsFiniteSet(S), NEW h, IsSum(h, g, S)
    PROVE  \A T \in SUBSET S : SumOver(T, g) = h[T]
<1> SUFFICES ASSUME NEW T \in SUBSET S
             PROVE  SumOver(T, g) = h[T]
  OBVIOUS
<1> DEFINE k == CHOOSE f : IsSum(f, g, T)
           c(s) == CHOOSE x \in s : TRUE
           Good == {s \in SUBSET T : k[s] = h[s]}
<1>1. IsFiniteSet(T) /\ IsSum(k, g, T)
  BY FS_Subset, SumExists
<1>2. \A s \in SUBSET T :
         /\ k[s] = IF s = {} THEN 0 ELSE g[c(s)] + k[s \ {c(s)}]
         /\ h[s] = IF s = {} THEN 0 ELSE g[c(s)] + h[s \ {c(s)}]
  <2> HIDE DEF k
  <2>1. k = [s \in SUBSET T |-> IF s = {} THEN 0 ELSE g[c(s)] + k[s \ {c(s)}]]
    BY <1>1 DEF IsSum
  <2>2. h = [s \in SUBSET S |-> IF s = {} THEN 0 ELSE g[c(s)] + h[s \ {c(s)}]]
    BY DEF IsSum
  <2> HIDE DEF c
  <2>3. \A s \in SUBSET T : k[s] = IF s = {} THEN 0 ELSE g[c(s)] + k[s \ {c(s)}]
    BY <2>1
  <2>4. \A s \in SUBSET S : h[s] = IF s = {} THEN 0 ELSE g[c(s)] + h[s \ {c(s)}]
    BY <2>2
  <2> QED
    BY <2>3, <2>4
<1>3. \A s \in SUBSET T : s # {} => c(s) \in s
  OBVIOUS
<1> HIDE DEF k, c
<1>4. ASSUME NEW s \in SUBSET T, \A x \in s : s \ {x} \in Good
      PROVE  s \in Good
  <2>1. CASE s = {}
    BY <1>2, <2>1
  <2>2. CASE s # {}
    <3>1. s \ {c(s)} \in Good
      BY <1>3, <1>4, <2>2
    <3> QED
      BY <1>2, <2>2, <3>1
  <2> QED
    BY <2>1, <2>2
<1>5. Good = SUBSET T
  <2>1. Good \in SUBSET SUBSET T
    OBVIOUS
  <2> HIDE DEF Good
  <2> QED
    BY <1>1, <1>4, <2>1, SubsetInduction
<1>6. k[T] = h[T]
  BY <1>5
<1> QED
  BY <1>6, SumUnfolded DEF k

\* The sum of nothing.
LEMMA SumEmpty ==
    ASSUME NEW g
    PROVE  SumOver({}, g) = 0
<1>1. IsFiniteSet({})
  BY FS_EmptySet
<1>2. PICK h : IsSum(h, g, {})
  BY <1>1, SumExists
<1>3. h[{}] = 0
  BY <1>2 DEF IsSum
<1> QED
  BY <1>1, <1>2, <1>3, SumOfSubset

\* The sum of a set that is not empty takes some element out.
LEMMA SumChosen ==
    ASSUME NEW g, NEW S, IsFiniteSet(S), S # {}
    PROVE  \E x \in S : SumOver(S, g) = g[x] + SumOver(S \ {x}, g)
<1>1. PICK h : IsSum(h, g, S)
  BY SumExists
<1> DEFINE c == CHOOSE x \in S : TRUE
<1>2. h[S] = g[c] + h[S \ {c}] /\ c \in S
  BY <1>1 DEF IsSum
<1>3. SumOver(S, g) = h[S] /\ SumOver(S \ {c}, g) = h[S \ {c}]
  BY <1>1, SumOfSubset
<1> QED
  BY <1>2, <1>3

\* A sum of integers is one.
LEMMA SumInt ==
    ASSUME NEW g, NEW S, IsFiniteSet(S), \A x \in S : g[x] \in Int
    PROVE  SumOver(S, g) \in Int
<1> DEFINE Good == {s \in SUBSET S : SumOver(s, g) \in Int}
<1>1. ASSUME NEW s \in SUBSET S, \A x \in s : s \ {x} \in Good
      PROVE  s \in Good
  <2>1. CASE s = {}
    BY <2>1, SumEmpty
  <2>2. CASE s # {}
    <3>1. PICK x \in s : SumOver(s, g) = g[x] + SumOver(s \ {x}, g)
      BY <2>2, FS_Subset, SumChosen
    <3>2. SumOver(s \ {x}, g) \in Int /\ g[x] \in Int
      BY <1>1
    <3> QED
      BY <3>1, <3>2
  <2> QED
    BY <2>1, <2>2
<1>2. Good = SUBSET S
  <2>1. Good \in SUBSET SUBSET S
    OBVIOUS
  <2> HIDE DEF Good
  <2> QED
    BY <1>1, <2>1, SubsetInduction
<1> QED
  BY <1>2

\* Any element can be taken out.
LEMMA SumRemove ==
    ASSUME NEW g, NEW S, IsFiniteSet(S), \A x \in S : g[x] \in Int
    PROVE  \A x \in S : SumOver(S, g) = g[x] + SumOver(S \ {x}, g)
<1> DEFINE Good == {s \in SUBSET S : \A x \in s : SumOver(s, g) = g[x] + SumOver(s \ {x}, g)}
<1>0. \A s \in SUBSET S : IsFiniteSet(s) /\ SumOver(s, g) \in Int
  BY FS_Subset, SumInt
<1>1. ASSUME NEW s \in SUBSET S, \A x \in s : s \ {x} \in Good
      PROVE  s \in Good
  <2>1. ASSUME NEW x \in s
        PROVE  SumOver(s, g) = g[x] + SumOver(s \ {x}, g)
    <3>1. PICK c \in s : SumOver(s, g) = g[c] + SumOver(s \ {c}, g)
      BY <1>0, SumChosen
    <3>2. CASE c # x
      <4>1. SumOver(s \ {c}, g) = g[x] + SumOver((s \ {c}) \ {x}, g)
        BY <1>1, <3>2
      <4>2. SumOver(s \ {x}, g) = g[c] + SumOver((s \ {x}) \ {c}, g)
        BY <1>1, <3>2
      <4>3. (s \ {c}) \ {x} = (s \ {x}) \ {c}
        OBVIOUS
      <4>4. {g[c], g[x], SumOver((s \ {x}) \ {c}, g)} \subseteq Int
        BY <1>0
      <4>5. \A a, b, r \in Int : a + (b + r) = b + (a + r)
        OBVIOUS
      <4>6. g[c] + (g[x] + SumOver((s \ {x}) \ {c}, g)) =
               g[x] + (g[c] + SumOver((s \ {x}) \ {c}, g))
        BY <4>4, <4>5
      <4> QED
        BY <3>1, <4>1, <4>2, <4>3, <4>6, Zenon
    <3> QED
      BY <3>1, <3>2
  <2> QED
    BY <2>1
<1>2. Good = SUBSET S
  <2>1. Good \in SUBSET SUBSET S
    OBVIOUS
  <2> HIDE DEF Good
  <2> QED
    BY <1>1, <2>1, SubsetInduction
<1> QED
  BY <1>2

\* A sum with one element more.
LEMMA SumAdd ==
    ASSUME NEW g, NEW S, IsFiniteSet(S), NEW x, x \notin S, \A y \in S \cup {x} : g[y] \in Int
    PROVE  /\ SumOver(S \cup {x}, g) = g[x] + SumOver(S, g)
           /\ g[x] \in Int /\ SumOver(S, g) \in Int
<1>1. IsFiniteSet(S \cup {x}) /\ (S \cup {x}) \ {x} = S
  BY FS_AddElement
<1>2. SumOver(S \cup {x}, g) = g[x] + SumOver((S \cup {x}) \ {x}, g)
  BY <1>1, SumRemove
<1> QED
  BY <1>1, <1>2, SumInt

\* A finite set has a property that the empty set has, and that a subset keeps when an
\* element is added.
LEMMA AddingInduction ==
    ASSUME NEW U, IsFiniteSet(U), NEW Good \in SUBSET SUBSET U, {} \in Good,
           \A s \in Good : \A x \in U \ s : s \cup {x} \in Good
    PROVE  U \in Good
<1>1. ASSUME NEW s \in SUBSET U, \A x \in s : s \ {x} \in Good
      PROVE  s \in Good
  <2>1. CASE s # {}
    <3>1. PICK x \in s : TRUE
      BY <2>1
    <3>2. (s \ {x}) \cup {x} = s /\ x \in U \ (s \ {x}) /\ s \ {x} \in Good
      BY <1>1, <3>1
    <3>3. (s \ {x}) \cup {x} \in Good
      BY <3>2
    <3> QED
      BY <3>2, <3>3
  <2> QED
    BY <2>1
<1>2. Good = SUBSET U
  BY <1>1, SubsetInduction
<1> QED
  BY <1>2

\* A sum of zeroes.
LEMMA SumZero ==
    ASSUME NEW g, NEW S, IsFiniteSet(S), \A x \in S : g[x] = 0
    PROVE  SumOver(S, g) = 0
<1> DEFINE Good == {s \in SUBSET S : SumOver(s, g) = 0}
<1>1. {} \in Good
  BY SumEmpty
<1>2. ASSUME NEW s \in Good, NEW x \in S \ s
      PROVE  s \cup {x} \in Good
  <2>1. IsFiniteSet(s) /\ \A y \in s \cup {x} : g[y] \in Int
    BY FS_Subset
  <2>2. SumOver(s \cup {x}, g) = g[x] + SumOver(s, g)
    BY <2>1, SumAdd
  <2> QED
    BY <2>2
<1>3. S \in Good
  <2>1. Good \in SUBSET SUBSET S
    OBVIOUS
  <2> HIDE DEF Good
  <2> QED
    BY <1>1, <1>2, <2>1, AddingInduction
<1> QED
  BY <1>3

\* Sums add up element by element.
LEMMA SumPlus ==
    ASSUME NEW f, NEW g, NEW h, NEW S, IsFiniteSet(S),
           \A x \in S : f[x] \in Int /\ g[x] \in Int /\ h[x] = f[x] + g[x]
    PROVE  SumOver(S, h) = SumOver(S, f) + SumOver(S, g)
<1> DEFINE Good == {s \in SUBSET S : SumOver(s, h) = SumOver(s, f) + SumOver(s, g)}
<1>1. {} \in Good
  BY SumEmpty
<1>2. ASSUME NEW s \in Good, NEW x \in S \ s
      PROVE  s \cup {x} \in Good
  <2>1. IsFiniteSet(s) /\ \A y \in s \cup {x} : f[y] \in Int /\ g[y] \in Int /\ h[y] \in Int
    BY FS_Subset
  <2>2. /\ SumOver(s \cup {x}, f) = f[x] + SumOver(s, f)
        /\ SumOver(s \cup {x}, g) = g[x] + SumOver(s, g)
        /\ SumOver(s \cup {x}, h) = h[x] + SumOver(s, h)
        /\ {f[x], g[x], SumOver(s, f), SumOver(s, g)} \subseteq Int
    BY <2>1, SumAdd
  <2>3. \A a, b, c, d \in Int : (a + b) + (c + d) = (a + c) + (b + d)
    OBVIOUS
  <2>4. SumOver(s \cup {x}, h) = (f[x] + g[x]) + (SumOver(s, f) + SumOver(s, g))
    BY <2>2
  <2>5. (f[x] + g[x]) + (SumOver(s, f) + SumOver(s, g)) =
           (f[x] + SumOver(s, f)) + (g[x] + SumOver(s, g))
    BY <2>2, <2>3
  <2>6. SumOver(s \cup {x}, h) = SumOver(s \cup {x}, f) + SumOver(s \cup {x}, g)
    BY <2>2, <2>4, <2>5, Zenon
  <2> QED
    BY <2>6
<1>3. S \in Good
  <2>1. Good \in SUBSET SUBSET S
    OBVIOUS
  <2> HIDE DEF Good
  <2> QED
    BY <1>1, <1>2, <2>1, AddingInduction
<1> QED
  BY <1>3

\* Sums grow with their elements.
LEMMA SumAtMost ==
    ASSUME NEW f, NEW g, NEW S, IsFiniteSet(S),
           \A x \in S : f[x] \in Int /\ g[x] \in Int /\ f[x] <= g[x]
    PROVE  SumOver(S, f) <= SumOver(S, g)
<1> DEFINE Good == {s \in SUBSET S : SumOver(s, f) <= SumOver(s, g)}
<1>1. {} \in Good
  BY SumEmpty
<1>2. ASSUME NEW s \in Good, NEW x \in S \ s
      PROVE  s \cup {x} \in Good
  <2>1. IsFiniteSet(s) /\ \A y \in s \cup {x} : f[y] \in Int /\ g[y] \in Int
    BY FS_Subset
  <2>2. /\ SumOver(s \cup {x}, f) = f[x] + SumOver(s, f)
        /\ SumOver(s \cup {x}, g) = g[x] + SumOver(s, g)
        /\ {f[x], g[x], SumOver(s, f), SumOver(s, g)} \subseteq Int
    BY <2>1, SumAdd
  <2>3. \A a, b, c, d \in Int : a <= b /\ c <= d => a + c <= b + d
    OBVIOUS
  <2>4. f[x] <= g[x] /\ SumOver(s, f) <= SumOver(s, g)
    OBVIOUS
  <2>5. f[x] + SumOver(s, f) <= g[x] + SumOver(s, g)
    BY <2>2, <2>3, <2>4
  <2>6. SumOver(s \cup {x}, f) <= SumOver(s \cup {x}, g)
    BY <2>2, <2>5, Zenon
  <2> QED
    BY <2>6
<1>3. S \in Good
  <2>1. Good \in SUBSET SUBSET S
    OBVIOUS
  <2> HIDE DEF Good
  <2> QED
    BY <1>1, <1>2, <2>1, AddingInduction
<1> QED
  BY <1>3

\* Sums of the same elements are the same, whatever else the functions are.
LEMMA SumSame ==
    ASSUME NEW f, NEW g, NEW S, IsFiniteSet(S),
           \A x \in S : f[x] \in Int /\ f[x] = g[x]
    PROVE  SumOver(S, f) = SumOver(S, g)
<1>1. SumOver(S, f) <= SumOver(S, g) /\ SumOver(S, g) <= SumOver(S, f)
  BY SumAtMost
<1>2. SumOver(S, f) \in Int /\ SumOver(S, g) \in Int
  BY SumInt
<1> QED
  BY <1>1, <1>2

\* A sum of natural numbers is one.
LEMMA SumNat ==
    ASSUME NEW g, NEW S, IsFiniteSet(S), \A x \in S : g[x] \in Nat
    PROVE  SumOver(S, g) \in Nat
<1> DEFINE zero == [x \in S |-> 0]
<1>1. \A x \in S : zero[x] = 0 /\ zero[x] <= g[x] /\ zero[x] \in Int /\ g[x] \in Int
  OBVIOUS
<1> HIDE DEF zero
<1>2. SumOver(S, zero) = 0 /\ SumOver(S, zero) <= SumOver(S, g) /\ SumOver(S, g) \in Int
  BY <1>1, SumZero, SumAtMost, SumInt
<1> QED
  BY <1>2

-----------------------------------------------------------------------------
(* The calendar.                                                           *)

\* The months of a year.
NumMonths == Cardinality(Months)

\* CalendarAssumption, in the form the proofs use.
LEMMA MonthsTyped ==
    /\ NumMonths \in Nat /\ NumMonths >= 2 /\ Months = 1 .. NumMonths
    /\ \A m \in 1 .. NumMonths : MonthLengths[m] \in Nat \ {0}
  BY CalendarAssumption DEF NumMonths

\* Months follow each other without a gap.
LEMMA DaysBeforeNext ==
    /\ DaysBefore(1) = 0
    /\ \A m \in 1 .. NumMonths : DaysBefore(m + 1) = DaysBefore(m) + MonthLengths[m]
    /\ \A m \in 1 .. NumMonths + 1 : DaysBefore(m) \in Nat
<1>1. 1 .. 1 - 1 = {}
  BY SMT
<1>2. DaysBefore(1) = 0
  BY <1>1, SumEmpty DEF DaysBefore
<1>3. ASSUME NEW m \in 1 .. NumMonths + 1
      PROVE  /\ IsFiniteSet(1 .. m - 1) /\ \A k \in 1 .. m - 1 : MonthLengths[k] \in Nat
             /\ DaysBefore(m) \in Nat
  <2>1. IsFiniteSet(1 .. m - 1)
    BY <1>3, MonthsTyped, FS_Interval
  <2>2. \A k \in 1 .. m - 1 : MonthLengths[k] \in Nat
    BY <1>3, MonthsTyped
  <2> QED
    BY <2>1, <2>2, SumNat DEF DaysBefore
<1>4. ASSUME NEW m \in 1 .. NumMonths
      PROVE  DaysBefore(m + 1) = DaysBefore(m) + MonthLengths[m]
  <2>1. /\ 1 .. (m + 1) - 1 = (1 .. m - 1) \cup {m} /\ m \notin 1 .. m - 1
        /\ m \in 1 .. NumMonths + 1 /\ m + 1 \in 1 .. NumMonths + 1
    BY MonthsTyped
  <2>2. SumOver((1 .. m - 1) \cup {m}, MonthLengths) = MonthLengths[m] + SumOver(1 .. m - 1, MonthLengths)
    <3>1. \A k \in (1 .. m - 1) \cup {m} : k \in 1 .. NumMonths
      BY MonthsTyped
    <3>2. IsFiniteSet(1 .. m - 1) /\ \A k \in (1 .. m - 1) \cup {m} : MonthLengths[k] \in Int
      BY <1>3, <2>1, <3>1, MonthsTyped
    <3> QED
      BY <2>1, <3>2, SumAdd
  <2>3. MonthLengths[m] \in Nat /\ SumOver(1 .. m - 1, MonthLengths) \in Nat
    BY <1>3, <2>1, MonthsTyped DEF DaysBefore
  <2>4. DaysBefore(m + 1) = MonthLengths[m] + DaysBefore(m)
    BY <2>1, <2>2 DEF DaysBefore
  <2>5. DaysBefore(m) \in Nat
    BY <2>3 DEF DaysBefore
  <2> QED
    BY <2>3, <2>4, <2>5
<1> QED
  BY <1>2, <1>3, <1>4

\* A month begins after all those before it have ended.
LEMMA DaysBeforeGrows ==
    \A m, n \in 1 .. NumMonths + 1 : m < n => DaysBefore(m) + MonthLengths[m] <= DaysBefore(n)
<1> DEFINE Good == {d \in Nat : \A m \in 1 .. NumMonths : m + 1 + d <= NumMonths + 1 =>
                        DaysBefore(m) + MonthLengths[m] <= DaysBefore(m + 1 + d)}
<1>1. 0 \in Good
  BY MonthsTyped, DaysBeforeNext
<1>2. ASSUME NEW d \in Good
      PROVE  d + 1 \in Good
  <2> SUFFICES ASSUME NEW m \in 1 .. NumMonths, m + 1 + (d + 1) <= NumMonths + 1
               PROVE  DaysBefore(m) + MonthLengths[m] <= DaysBefore(m + 1 + (d + 1))
    OBVIOUS
  <2> DEFINE k == m + 1 + d
  <2>1. k \in 1 .. NumMonths /\ k + 1 = m + 1 + (d + 1) /\ k <= NumMonths + 1
    BY MonthsTyped
  <2>2. DaysBefore(m) + MonthLengths[m] <= DaysBefore(k)
    BY <2>1
  <2>3. DaysBefore(k + 1) = DaysBefore(k) + MonthLengths[k]
    BY <2>1, DaysBeforeNext
  <2>4. {MonthLengths[k], MonthLengths[m], DaysBefore(k), DaysBefore(m)} \subseteq Nat
    BY <2>1, MonthsTyped, DaysBeforeNext
  <2> HIDE DEF k
  <2> QED
    BY <2>1, <2>2, <2>3, <2>4
<1>3. Good = Nat
  <2>1. Good \in SUBSET Nat
    OBVIOUS
  <2> HIDE DEF Good
  <2> QED
    BY <1>1, <1>2, <2>1, NumberInduction
<1> SUFFICES ASSUME NEW m \in 1 .. NumMonths + 1, NEW n \in 1 .. NumMonths + 1, m < n
             PROVE  DaysBefore(m) + MonthLengths[m] <= DaysBefore(n)
  OBVIOUS
<1>4. (n - m) - 1 \in Nat /\ m + 1 + ((n - m) - 1) = n /\ m \in 1 .. NumMonths /\ n <= NumMonths + 1
  BY MonthsTyped
<1>5. (n - m) - 1 \in Good
  BY <1>3, <1>4
<1> QED
  BY <1>4, <1>5

\* A year has days.
LEMMA YearTyped == YearLength \in Nat \ {0} /\ YearLength = DaysBefore(NumMonths + 1)
<1>1. YearLength = DaysBefore(NumMonths + 1) /\ DaysBefore(NumMonths + 1) \in Nat /\ DaysBefore(1) = 0
  BY MonthsTyped, DaysBeforeNext DEF YearLength, NumMonths
<1>2. DaysBefore(1) + MonthLengths[1] <= DaysBefore(NumMonths + 1)
  BY MonthsTyped, DaysBeforeGrows
<1> QED
  BY <1>1, <1>2, MonthsTyped

\* Every time has a month, and one only.
LEMMA MonthIs ==
    ASSUME NEW t \in Int
    PROVE  /\ Month(t) \in 1 .. NumMonths
           /\ DaysBefore(Month(t)) <= t % YearLength /\ t % YearLength < DaysBefore(Month(t) + 1)
           /\ \A m \in 1 .. NumMonths : DaysBefore(m) <= t % YearLength /\ t % YearLength < DaysBefore(m + 1)
                                  => m = Month(t)
<1> DEFINE r == t % YearLength
           In(m) == DaysBefore(m) <= r /\ r < DaysBefore(m + 1)
<1>1. r \in Nat /\ r < DaysBefore(NumMonths + 1)
  BY YearTyped
<1> HIDE DEF r
<1>2. \E m \in 1 .. NumMonths : In(m)
  <2> DEFINE T == {m \in 1 .. NumMonths : r < DaysBefore(m + 1)}
  <2>1. NumMonths \in T /\ T \subseteq Nat
    BY <1>1, MonthsTyped
  <2>2. PICK m \in T : \A n \in T : m <= n
    <3> HIDE DEF T
    <3> QED
      BY <2>1, SmallestOf
  <2>3. CASE m = 1
    BY <1>1, <2>2, <2>3, DaysBeforeNext
  <2>4. CASE m # 1
    <3>1. m - 1 \in 1 .. NumMonths /\ (m - 1) + 1 = m
      BY <2>2, <2>4, MonthsTyped
    <3>2. ~(r < DaysBefore(m))
      <4>1. m - 1 \notin T
        BY <2>2, <3>1
      <4> QED
        BY <3>1, <4>1
    <3>3. DaysBefore(m) \in Nat
      BY <2>2, DaysBeforeNext, MonthsTyped
    <3> QED
      BY <1>1, <2>2, <3>2, <3>3
  <2> QED
    BY <2>3, <2>4
<1>3. ASSUME NEW m \in 1 .. NumMonths, NEW n \in 1 .. NumMonths, In(m), In(n), m < n
      PROVE  FALSE
  <2>1. DaysBefore(m) + MonthLengths[m] <= DaysBefore(n)
    BY <1>3, DaysBeforeGrows, MonthsTyped
  <2>2. DaysBefore(m + 1) = DaysBefore(m) + MonthLengths[m] /\ DaysBefore(m + 1) \in Nat
        /\ DaysBefore(n) \in Nat
    BY DaysBeforeNext, MonthsTyped
  <2> QED
    BY <1>1, <1>3, <2>1, <2>2
<1>4. \A m, n \in 1 .. NumMonths : In(m) /\ In(n) => m = n
  BY <1>3, MonthsTyped
<1>5. Month(t) = CHOOSE m \in 1 .. NumMonths : In(m)
  BY MonthsTyped DEF Month, r
<1>6. Month(t) \in 1 .. NumMonths /\ In(Month(t))
  BY <1>2, <1>5
<1> QED
  BY <1>4, <1>6 DEF r

\* Division with remainder, by a variable.
LEMMA Division ==
    ASSUME NEW t \in Int, NEW b \in Nat \ {0}
    PROVE  /\ t \div b \in Int /\ t % b \in Nat /\ t % b < b /\ t = (t \div b) * b + (t % b)
           /\ \A q \in Int, r \in Nat : r < b /\ t = q * b + r => t \div b = q /\ t % b = r
           /\ \A s \in Int : s <= t => s \div b <= t \div b
  OBVIOUS

\* A time is a day of a year.
LEMMA InYear ==
    ASSUME NEW t \in Int
    PROVE  /\ Year(t) \in Int /\ Year(t) * YearLength \in Int
           /\ t % YearLength \in Nat /\ t % YearLength < YearLength
           /\ t = Year(t) * YearLength + (t % YearLength)
<1>1. YearLength \in Nat \ {0}
  BY YearTyped
<1>2. \A b \in Nat \ {0} : /\ t \div b \in Int /\ (t \div b) * b \in Int
                           /\ t % b \in Nat /\ t % b < b /\ t = (t \div b) * b + (t % b)
  BY Division
<1> QED
  BY <1>1, <1>2 DEF Year

\* Years and weeks only go up.
LEMMA PeriodsGoUp ==
    ASSUME NEW s \in Int, NEW t \in Int, s <= t
    PROVE  /\ Year(s) <= Year(t) /\ Week(s) <= Week(t)
           /\ {Year(s), Year(t), Week(s), Week(t)} \subseteq Int
<1>1. YearLength \in Nat \ {0} /\ WeekLength \in Nat \ {0}
  BY YearTyped, CalendarAssumption
<1>2. \A b \in Nat \ {0} : s \div b <= t \div b /\ s \div b \in Int /\ t \div b \in Int
  BY Division
<1> QED
  BY <1>1, <1>2 DEF Year, Week

\* A month is the time from its first day to that of the next.
LEMMA MonthSpan ==
    ASSUME NEW t \in Int
    PROVE  /\ MonthStart(t) \in Int /\ NextMonthlyResetOn(t) \in Int
           /\ MonthStart(t) <= t /\ t < NextMonthlyResetOn(t)
           /\ \A s \in Int : SameMonth(s, t) <=> MonthStart(t) <= s /\ s < NextMonthlyResetOn(t)
<1> DEFINE m == Month(t)
           y == Year(t)
           z == y * YearLength
<1>1. m \in 1 .. NumMonths /\ y \in Int /\ t = z + (t % YearLength) /\ z \in Int /\ t % YearLength \in Nat
  BY MonthIs, InYear
<1>2. /\ DaysBefore(m) \in Nat /\ DaysBefore(m + 1) \in Nat /\ DaysBefore(m + 1) <= YearLength
      /\ YearLength \in Nat \ {0}
  <2>1. m \in 1 .. NumMonths + 1 /\ m + 1 \in 1 .. NumMonths + 1 /\ NumMonths + 1 \in 1 .. NumMonths + 1
    BY <1>1, MonthsTyped
  <2>2. m + 1 # NumMonths + 1 => DaysBefore(m + 1) + MonthLengths[m + 1] <= DaysBefore(NumMonths + 1)
                         /\ MonthLengths[m + 1] \in Nat
    BY <2>1, MonthsTyped, DaysBeforeGrows
  <2> QED
    BY <2>1, <2>2, DaysBeforeNext, YearTyped
<1>3. DaysBefore(m) <= t % YearLength /\ t % YearLength < DaysBefore(m + 1)
  BY MonthIs
<1>4. MonthStart(t) = z + DaysBefore(m) /\ NextMonthlyResetOn(t) = z + DaysBefore(m + 1)
  BY DEF MonthStart, NextMonthlyResetOn
<1>5. ASSUME NEW s \in Int, SameMonth(s, t)
      PROVE  MonthStart(t) <= s /\ s < NextMonthlyResetOn(t)
  <2>1. Year(s) = y /\ Month(s) = m
    BY <1>5 DEF SameMonth
  <2>2. s = z + (s % YearLength) /\ s % YearLength \in Nat
    BY <2>1, InYear
  <2>3. DaysBefore(m) <= s % YearLength /\ s % YearLength < DaysBefore(m + 1)
    BY <2>1, MonthIs
  <2> HIDE DEF m, z
  <2> QED
    BY <1>1, <1>2, <1>4, <2>2, <2>3
<1>6. ASSUME NEW s \in Int, MonthStart(t) <= s, s < NextMonthlyResetOn(t)
      PROVE  SameMonth(s, t)
  <2> DEFINE r == s - z
  <2>1. /\ r \in Nat /\ r < YearLength /\ s = z + r
        /\ DaysBefore(m) <= r /\ r < DaysBefore(m + 1)
    <3> HIDE DEF m, z
    <3> QED
      BY <1>1, <1>2, <1>4, <1>6
  <2>2. Year(s) = y /\ s % YearLength = r
    <3> HIDE DEF r, y
    <3> QED
      BY <1>1, <1>2, <2>1, Division DEF Year
  <2>3. Month(s) = m
    BY <1>1, <2>1, <2>2, MonthIs
  <2> QED
    BY <2>2, <2>3 DEF SameMonth
<1> HIDE DEF m, z
<1> QED
  BY <1>1, <1>2, <1>3, <1>4, <1>5, <1>6

\* A month has no gap.
LEMMA MonthHasNoGap ==
    ASSUME NEW r \in Int, NEW s \in Int, NEW t \in Int, r <= s, s <= t, SameMonth(r, t)
    PROVE  SameMonth(s, t)
<1>1. MonthStart(t) <= r /\ t < NextMonthlyResetOn(t) /\ MonthStart(t) \in Int
      /\ NextMonthlyResetOn(t) \in Int
  BY MonthSpan
<1>2. MonthStart(t) <= s /\ s < NextMonthlyResetOn(t)
  BY <1>1
<1> QED
  BY <1>2, MonthSpan

\* A quota is reset in a month that is not the one before.
LEMMA ResetIsBetweenMonths ==
    ASSUME NEW q \in Int, NEW s \in Int, NEW t \in Int,
           s < NextMonthlyResetOn(q), NextMonthlyResetOn(q) <= t
    PROVE  ~SameMonth(s, t)
<1> SUFFICES ASSUME SameMonth(s, t)
             PROVE  FALSE
  OBVIOUS
<1> DEFINE n == NextMonthlyResetOn(q)
<1>1. n \in Int /\ MonthStart(q) <= q /\ q < n /\ MonthStart(q) \in Int
  BY MonthSpan
<1>2. s <= n - 1 /\ n - 1 <= t /\ s <= n /\ n <= t /\ n - 1 \in Int /\ MonthStart(q) <= n - 1 /\ n - 1 < n
  <2> HIDE DEF n
  <2>1. s < n /\ n <= t
    BY DEF n
  <2> QED
    BY <1>1, <2>1
<1>3. SameMonth(n - 1, t) /\ SameMonth(n, t)
  <2> HIDE DEF n
  <2> QED
    BY <1>1, <1>2, MonthHasNoGap
<1>4. SameMonth(n - 1, q)
  BY <1>1, <1>2, MonthSpan
<1>5. SameMonth(n, q)
  BY <1>3, <1>4 DEF SameMonth
<1>6. n < n
  BY <1>1, <1>5, MonthSpan
<1> QED
  BY <1>1, <1>6

\* time.AddDate finds the next month on the last day of a month, when it does not end in
\* another one.
LEMMA DayAfter ==
    ASSUME NEW t \in Nat
    PROVE  /\ Year(t + 1) \in {Year(t), Year(t) + 1}
           /\ Month(t) # Month(t + 1) /\ Month(AddMonth(t)) = Month(NextMonthlyResetOn(t))
                => SameMonth(AddMonth(t), t + 1)
<1>1. Year(t + 1) \in {Year(t), Year(t) + 1}
  <2>1. \A b \in Nat \ {0} : (t + 1) \div b \in {t \div b, (t \div b) + 1}
    OBVIOUS
  <2> QED
    BY <2>1, YearTyped DEF Year
<1> SUFFICES ASSUME Month(t) # Month(t + 1), Month(AddMonth(t)) = Month(NextMonthlyResetOn(t))
             PROVE  Year(AddMonth(t)) = Year(t + 1)  /\ Month(AddMonth(t)) = Month(t + 1)
  BY <1>1 DEF SameMonth
<1> DEFINE u == t + 1
           a == AddMonth(t)
<1>2. u = NextMonthlyResetOn(t)
  <2>1. /\ ~SameMonth(u, t) /\ u \in Int /\ t \in Int
        /\ MonthStart(t) <= t /\ t < NextMonthlyResetOn(t)
        /\ NextMonthlyResetOn(t) \in Int /\ MonthStart(t) \in Int
    BY MonthSpan DEF SameMonth
  <2>2. ~(MonthStart(t) <= u /\ u < NextMonthlyResetOn(t))
    BY <2>1, MonthSpan
  <2> QED
    BY <2>1, <2>2
<1>3. u = MonthStart(u)
  <2>1. ~SameMonth(t, u) /\ MonthStart(u) \in Int /\ MonthStart(u) <= u /\ u < NextMonthlyResetOn(u)
        /\ NextMonthlyResetOn(u) \in Int
    BY MonthSpan DEF SameMonth
  <2>2. ~(MonthStart(u) <= t /\ t < NextMonthlyResetOn(u))
    BY <2>1, MonthSpan
  <2> QED
    BY <2>1, <2>2
<1>4. Day(t) \in Nat \ {0} /\ Day(t) <= YearLength
  <2>1. /\ t % YearLength \in Nat /\ t % YearLength < YearLength /\ YearLength \in Nat \ {0}
        /\ Month(t) \in 1 .. NumMonths /\ DaysBefore(Month(t)) <= t % YearLength
    BY YearTyped, InYear, MonthIs
  <2>2. DaysBefore(Month(t)) \in Nat
    BY <2>1, DaysBeforeNext, MonthsTyped
  <2> QED
    BY <2>1, <2>2 DEF Day
<1>5. a = u + Day(t) - 1 /\ a \in Int /\ u <= a /\ a < u + YearLength
  <2>1. a = NextMonthlyResetOn(t) + Day(t) - 1
    BY DEF AddMonth
  <2>2. YearLength \in Nat
    BY YearTyped
  <2> HIDE DEF a, u
  <2>3. u \in Nat
    BY DEF u
  <2> QED
    BY <1>2, <1>4, <2>1, <2>2, <2>3
<1>6. Month(a) = Month(u)
  BY <1>2
<1>7. Year(a) = Year(u)
  <2> DEFINE b == YearLength
  <2>1. b \in Nat \ {0} /\ Year(a) \in Int /\ Year(u) \in Int /\ Year(u) <= Year(a)
    BY <1>5, YearTyped, PeriodsGoUp
  <2>2. u = Year(u) * b + DaysBefore(Month(u)) /\ DaysBefore(Month(u)) \in Nat
    BY <1>3, MonthIs, DaysBeforeNext, MonthsTyped DEF MonthStart
  <2>3. a = Year(a) * b + (a % b) /\ a % b \in Nat /\ DaysBefore(Month(u)) <= a % b
    BY <1>5, <1>6, InYear, MonthIs
  <2>4. \A x, y \in Int : x < y => x * b + b <= y * b
    <3>1. \A x, y \in Int : x < y => (x + 1) * b <= y * b
      BY <2>1
    <3>2. \A x \in Int : (x + 1) * b = x * b + b
      BY <2>1
    <3> QED
      BY <3>1, <3>2
  <2>5. Year(u) < Year(a) => Year(u) * b + b <= Year(a) * b
    BY <2>1, <2>4
  <2>6. \A x \in Int : x * b \in Int
    BY <2>1
  <2> DEFINE Ya == Year(a) * b
             Yu == Year(u) * b
             r == a % b
             o == DaysBefore(Month(u))
  <2>7. Ya \in Int /\ Yu \in Int
    BY <2>1, <2>6
  <2>8. u = Yu + o /\ a = Ya + r /\ o <= r /\ o \in Nat /\ r \in Nat /\ a < u + b
        /\ (Year(u) < Year(a) => Yu + b <= Ya)
    BY <1>5, <2>2, <2>3, <2>5
  <2> HIDE DEF Ya, Yu, r, o, a, u, b
  <2>9. u \in Int /\ a \in Int
    BY <2>7, <2>8
  <2>10. ~(Year(u) < Year(a))
    BY <2>1, <2>7, <2>8, <2>9
  <2> QED
    BY <2>1, <2>10
<1> QED
  BY <1>6, <1>7

\* The month after a month starts on the day quotas are reset.
LEMMA MonthAfter ==
    ASSUME NEW t \in Int
    PROVE  Month(NextMonthlyResetOn(t)) = (Month(t) % NumMonths) + 1
<1> DEFINE m == Month(t)
           b == YearLength
           u == NextMonthlyResetOn(t)
<1>1. m \in 1 .. NumMonths /\ NumMonths \in Nat /\ b \in Nat \ {0} /\ Year(t) \in Int /\ u = Year(t) * b + DaysBefore(m + 1)
      /\ u \in Int
  BY MonthIs, MonthsTyped, YearTyped, InYear, MonthSpan DEF NextMonthlyResetOn
<1>2. \A q \in Int, r \in Nat : r < b /\ u = q * b + r => u % b = r
  BY <1>1, Division
<1>3. CASE m # NumMonths
  <2>1. m + 1 \in 1 .. NumMonths /\ m + 1 \in 1 .. NumMonths + 1 /\ NumMonths + 1 \in 1 .. NumMonths + 1 /\ m + 1 < NumMonths + 1
    BY <1>1, <1>3
  <2>2. /\ DaysBefore(m + 1) \in Nat /\ MonthLengths[m + 1] \in Nat \ {0}
        /\ DaysBefore(m + 1) + MonthLengths[m + 1] <= b
        /\ DaysBefore((m + 1) + 1) = DaysBefore(m + 1) + MonthLengths[m + 1]
    BY <2>1, DaysBeforeNext, DaysBeforeGrows, MonthsTyped, YearTyped
  <2>3. u % b = DaysBefore(m + 1)
    <3> DEFINE r == DaysBefore(m + 1)
    <3>1. r < b
      <4> HIDE DEF b
      <4> QED
        BY <1>1, <2>2
    <3> HIDE DEF r, b, u
    <3> QED
      BY <1>1, <1>2, <2>2, <3>1 DEF r
  <2>4. DaysBefore(m + 1) < DaysBefore((m + 1) + 1)
    BY <2>2
  <2>5. m + 1 = Month(u)
    <3> DEFINE k == m + 1
    <3>1. DaysBefore(k) <= u % YearLength /\ u % YearLength < DaysBefore(k + 1) /\ k \in 1 .. NumMonths
      BY <2>1, <2>2, <2>3, <2>4
    <3> HIDE DEF k, u
    <3>2. k = Month(u)
      BY <1>1, <3>1, MonthIs
    <3> QED
      BY <3>2 DEF k
  <2>6. m % NumMonths = m
    <3> HIDE DEF m
    <3> QED
      BY <1>1, <1>3
  <2> QED
    BY <2>5, <2>6
<1>4. CASE m = NumMonths
  <2>1. DaysBefore(m + 1) = b
    BY <1>4, YearTyped
  <2>2. u = (Year(t) + 1) * b + 0
    <3>1. \A y \in Int : y * b + b = (y + 1) * b + 0
      <4> HIDE DEF b
      <4> QED
        BY <1>1
    <3> QED
      BY <1>1, <2>1, <3>1
  <2>3. u % b = 0
    <3> HIDE DEF u
    <3> QED
      BY <1>1, <1>2, <2>2
  <2>4. DaysBefore(1) = 0 /\ 0 < DaysBefore(1 + 1) /\ 1 \in 1 .. NumMonths
    BY DaysBeforeNext, MonthsTyped
  <2>5. 1 = Month(u)
    <3> HIDE DEF u
    <3> QED
      BY <1>1, <2>3, <2>4, MonthIs
  <2>6. m % NumMonths = 0
    BY <1>1, <1>4
  <2> QED
    BY <2>5, <2>6
<1> QED
  BY <1>3, <1>4

\* In every calendar of equal years, periods have no gaps, later months start later and
\* come in order: what module Activity assumes of the days it looks at.
THEOREM CalendarIsRight == \A n \in Nat : CalendarGoesOn(0 .. n)
<1> SUFFICES ASSUME NEW n \in Nat
             PROVE  CalendarGoesOn(0 .. n)
  OBVIOUS
<1>1. ASSUME NEW r \in 0 .. n, NEW s \in 0 .. n, NEW t \in 0 .. n, r <= s, s <= t
      PROVE  /\ SameYear(r, t) => SameYear(s, t)
             /\ SameMonth(r, t) => SameMonth(s, t)
             /\ SameWeek(r, t) => SameWeek(s, t)
  <2>1. r \in Int /\ s \in Int /\ t \in Int
    OBVIOUS
  <2>2. SameMonth(r, t) => SameMonth(s, t)
    BY <1>1, <2>1, MonthHasNoGap
  <2>3. /\ Year(r) <= Year(s) /\ Year(s) <= Year(t) /\ Week(r) <= Week(s) /\ Week(s) <= Week(t)
        /\ {Year(r), Year(s), Year(t), Week(r), Week(s), Week(t)} \subseteq Int
    BY <1>1, <2>1, PeriodsGoUp
  <2>4. (Year(r) = Year(t) => Year(s) = Year(t)) /\ (Week(r) = Week(t) => Week(s) = Week(t))
    BY <2>3
  <2> QED
    BY <2>2, <2>4 DEF SameYear, SameWeek
<1>2. ASSUME NEW t \in 0 .. n
      PROVE  /\ Month(t) \in Months /\ MonthStart(t) \in 0 .. t
             /\ Month(NextMonthlyResetOn(t)) = (Month(t) % Cardinality(Months)) + 1
  <2>1. t \in Int /\ 0 <= t
    OBVIOUS
  <2>2. Month(t) \in Months /\ Month(NextMonthlyResetOn(t)) = (Month(t) % Cardinality(Months)) + 1
    BY <2>1, MonthIs, MonthAfter, MonthsTyped DEF NumMonths
  <2>3. MonthStart(t) \in Int /\ MonthStart(t) <= t
    BY <2>1, MonthSpan
  <2>4. MonthStart(t) >= 0
    <3> DEFINE y == Year(t)
               b == YearLength
               d == DaysBefore(Month(t))
    <3>1. b \in Nat \ {0} /\ d \in Nat /\ y \in Int
      <4>1. Month(t) \in 1 .. NumMonths + 1
        <5>1. Month(t) \in 1 .. NumMonths /\ NumMonths \in Nat
          BY <2>2, MonthsTyped
        <5> QED
          BY <5>1
      <4> QED
        BY <2>1, <4>1, YearTyped, DaysBeforeNext, InYear
    <3>2. y >= 0
      <4>1. \A c \in Nat \ {0} : t \div c >= 0
        BY <2>1
      <4> QED
        BY <4>1, YearTyped DEF Year
    <3>3. y * b >= 0 /\ y * b \in Int
      <4> HIDE DEF y, b
      <4> QED
        BY <3>1, <3>2
    <3>4. MonthStart(t) = y * b + d
      BY DEF MonthStart
    <3> DEFINE z == y * b
    <3> HIDE DEF y, b, d, z
    <3>5. z >= 0 /\ z \in Int /\ MonthStart(t) = z + d
      BY <3>3, <3>4 DEF z
    <3> QED
      BY <3>1, <3>5
  <2> QED
    BY <2>1, <2>2, <2>3, <2>4
<1>3. ASSUME NEW s \in 0 .. n, NEW t \in 0 .. n, s <= t, ~SameMonth(s, t)
      PROVE  MonthStart(s) < MonthStart(t)
  <2>1. s \in Int /\ t \in Int
    OBVIOUS
  <2>2. /\ MonthStart(s) \in Int /\ MonthStart(s) <= s /\ MonthStart(t) \in Int
        /\ t < NextMonthlyResetOn(t) /\ NextMonthlyResetOn(t) \in Int
        /\ (SameMonth(s, t) <=> MonthStart(t) <= s /\ s < NextMonthlyResetOn(t))
    BY <2>1, MonthSpan
  <2> QED
    BY <1>3, <2>1, <2>2
<1> QED
  BY <1>1, <1>2, <1>3 DEF CalendarGoesOn

-----------------------------------------------------------------------------
(* The counters and their types.                                           *)

\* The counter that counter f goes on from on day t, when the last collection was on
\* day b, or none.
Kept(b, t, f) ==
    LET longGap  == Year(t) \notin {Year(b), Year(b) + 1}
        newMonth == Month(b) # Month(t)
        lost     == longGap \/ (newMonth /\ ~SameMonth(AddMonth(b), t))
    IN IF f = "total" \/ b = Never \/ t <= b THEN f
       ELSE IF \/ f = "yearly"  /\ Year(b) # Year(t)
               \/ f = "monthly" /\ (newMonth \/ longGap)
               \/ f = "weekly"  /\ Week(b) # Week(t)
               \/ f = "prevDay" /\ (lost \/ (Day(b) # Day(t) /\ b + 1 # t))
               \/ f = "daily"
            THEN "none"
       ELSE IF f = "prevDay" /\ Day(b) # Day(t) THEN "daily"
       ELSE f

\* What is left of the counters on a later day, counter by counter.
LEMMA SwitchedFields ==
    ASSUME NEW c \in Counters, NEW t \in Nat, c.update # Never, c.update < t
    PROVE  /\ Switched(c, t) \in Counters
           /\ \A f \in Fields : Switched(c, t)[f] =
                IF Kept(c.update, t, f) = "none" THEN 0 ELSE c[Kept(c.update, t, f)]
<1> DEFINE b == c.update
           longGap  == Year(t) \notin {Year(b), Year(b) + 1}
           newMonth == Month(b) # Month(t)
           lost     == longGap \/ (newMonth /\ ~SameMonth(AddMonth(b), t))
           y == IF Year(b) = Year(t) THEN c.yearly ELSE 0
           m == IF newMonth \/ longGap THEN 0 ELSE c.monthly
           w == IF Week(b) = Week(t) THEN c.weekly ELSE 0
           d == IF Day(b) = Day(t) THEN IF lost THEN 0 ELSE c.prevDay
                ELSE IF b + 1 = t /\ ~lost THEN c.daily ELSE 0
<1> DEFINE F == {"update"} \cup Fields
           e1 == [c EXCEPT !["yearly"] = y]
           e2 == [e1 EXCEPT !["monthly"] = m]
           e3 == [e2 EXCEPT !["weekly"] = w]
           e4 == [e3 EXCEPT !["prevDay"] = d]
           e5 == [e4 EXCEPT !["daily"] = 0]
<1>1. c \in [F -> Int] /\ \A f \in F : c[f] \in Int
  BY DEF Counters
<1>2. {"yearly", "monthly", "weekly", "prevDay", "daily", "total", "update"} \subseteq F
  BY DEF Fields
<1>3. {y, m, w, d, 0} \subseteq Int
  BY <1>1, <1>2
<1>4. Switched(c, t) = e5
  <2>1. Switched(c, t) = [c EXCEPT !.yearly = y, !.monthly = m, !.weekly = w,
                                   !.prevDay = d, !.daily = 0]
    BY DEF Switched
  <2> HIDE DEF y, m, w, d
  <2> QED
    BY <1>1, <1>2, <2>1
<1>5. \A e \in [F -> Int], f \in F, v \in Int :
         /\ [e EXCEPT ![f] = v] \in [F -> Int]
         /\ [e EXCEPT ![f] = v][f] = v
         /\ \A g \in F \ {f} : [e EXCEPT ![f] = v][g] = e[g]
  <2> HIDE DEF F
  <2> QED
    OBVIOUS
<1> HIDE DEF F, y, m, w, d
<1>6. {e1, e2, e3, e4, e5} \subseteq [F -> Int]
  <2>1. e1 \in [F -> Int]
    BY <1>1, <1>2, <1>3, <1>5
  <2> HIDE DEF e1
  <2>2. e2 \in [F -> Int]
    BY <1>2, <1>3, <1>5, <2>1
  <2> HIDE DEF e2
  <2>3. e3 \in [F -> Int]
    BY <1>2, <1>3, <1>5, <2>2
  <2> HIDE DEF e3
  <2>4. e4 \in [F -> Int]
    BY <1>2, <1>3, <1>5, <2>3
  <2> HIDE DEF e4
  <2>5. e5 \in [F -> Int]
    BY <1>2, <1>3, <1>5, <2>4
  <2> QED
    BY <2>1, <2>2, <2>3, <2>4, <2>5
<1>7. /\ e1["yearly"] = y /\ \A g \in F \ {"yearly"} : e1[g] = c[g]
      /\ e2["monthly"] = m /\ \A g \in F \ {"monthly"} : e2[g] = e1[g]
      /\ e3["weekly"] = w /\ \A g \in F \ {"weekly"} : e3[g] = e2[g]
      /\ e4["prevDay"] = d /\ \A g \in F \ {"prevDay"} : e4[g] = e3[g]
      /\ e5["daily"] = 0 /\ \A g \in F \ {"daily"} : e5[g] = e4[g]
  <2>1. e1["yearly"] = y /\ \A g \in F \ {"yearly"} : e1[g] = c[g]
    BY <1>1, <1>2, <1>3, <1>5
  <2>2. e2["monthly"] = m /\ \A g \in F \ {"monthly"} : e2[g] = e1[g]
    BY <1>2, <1>3, <1>5, <1>6
  <2>3. e3["weekly"] = w /\ \A g \in F \ {"weekly"} : e3[g] = e2[g]
    BY <1>2, <1>3, <1>5, <1>6
  <2>4. e4["prevDay"] = d /\ \A g \in F \ {"prevDay"} : e4[g] = e3[g]
    BY <1>2, <1>3, <1>5, <1>6
  <2>5. e5["daily"] = 0 /\ \A g \in F \ {"daily"} : e5[g] = e4[g]
    BY <1>2, <1>3, <1>5, <1>6
  <2> QED
    BY <2>1, <2>2, <2>3, <2>4, <2>5
<1> HIDE DEF e1, e2, e3, e4, e5
<1>8. /\ e5["total"] = c["total"] /\ e5["yearly"] = y /\ e5["monthly"] = m
      /\ e5["weekly"] = w /\ e5["prevDay"] = d /\ e5["daily"] = 0 /\ e5["update"] = b
  BY <1>2, <1>7
<1>9. ASSUME NEW f \in Fields
      PROVE  e5[f] = IF Kept(b, t, f) = "none" THEN 0 ELSE c[Kept(b, t, f)]
  <2>1. b # Never /\ ~(t <= b)
    BY <1>1, <1>2
  <2>2. CASE f = "total"
    BY <1>8, <2>2 DEF Kept
  <2>3. CASE f = "yearly"
    BY <1>8, <2>1, <2>3 DEF Kept, y
  <2>4. CASE f = "monthly"
    BY <1>8, <2>1, <2>4 DEF Kept, m
  <2>5. CASE f = "weekly"
    BY <1>8, <2>1, <2>5 DEF Kept, w
  <2>6. CASE f = "daily"
    BY <1>8, <2>1, <2>6 DEF Kept
  <2>7. CASE f = "prevDay"
    BY <1>8, <2>1, <2>7 DEF Kept, d
  <2> QED
    BY <2>2, <2>3, <2>4, <2>5, <2>6, <2>7 DEF Fields
<1> QED
  BY <1>4, <1>6, <1>9 DEF F, Counters

\* What growth x adds to counter f.
Gained(b, t, f, x) ==
    IF t < b \/ (b = Never /\ f # "total") \/ (b # Never /\ f = "prevDay") THEN 0 ELSE x

\* A counter goes on from a counter or from none.
LEMMA KeptTyped ==
    ASSUME NEW b, NEW t, NEW f \in Fields
    PROVE  Kept(b, t, f) \in Fields \cup {"none"}
  BY DEF Kept, Fields

\* incDateSwitchRelated, counter by counter: the same for all counters that were updated
\* on the same day.
LEMMA CountedFields ==
    ASSUME NEW c \in Counters, NEW t \in Nat, NEW x \in Nat
    PROVE  /\ Counted(c, t, x) \in Counters
           /\ Counted(c, t, x).update = IF t < c.update THEN c.update ELSE t
           /\ \A f \in Fields : Counted(c, t, x)[f] =
                (IF Kept(c.update, t, f) = "none" THEN 0 ELSE c[Kept(c.update, t, f)])
                    + Gained(c.update, t, f, x)
<1> DEFINE b == c.update
           F == {"update"} \cup Fields
<1>1. c \in [F -> Int] /\ b \in Int /\ \A f \in F : c[f] \in Int
  BY DEF Counters
<1>2. "none" \notin Fields /\ "update" \notin Fields /\ "total" \in Fields /\ "prevDay" \in Fields
  BY DEF Fields
<1>3. ASSUME NEW d \in Counters, NEW S \in SUBSET Fields
      PROVE  LET e == [Inc(d, S, x) EXCEPT !.update = t]
             IN  /\ e \in Counters /\ e.update = t
                 /\ \A f \in Fields : e[f] = d[f] + (IF f \in S THEN x ELSE 0)
  <2> DEFINE i == Inc(d, S, x)
             e == [i EXCEPT !["update"] = t]
  <2>1. DOMAIN d = F /\ \A f \in F : d[f] \in Int /\ d[f] + x \in Int
    BY DEF Counters
  <2>2. i \in [F -> Int] /\ \A f \in Fields : i[f] = d[f] + (IF f \in S THEN x ELSE 0)
    <3>1. i = [f \in F |-> IF f \in S THEN d[f] + x ELSE d[f]]
      BY <2>1 DEF Inc
    <3>2. \A f \in F : i[f] = (IF f \in S THEN d[f] + x ELSE d[f]) /\ i[f] \in Int
      BY <2>1, <3>1
    <3>3. \A f \in Fields : i[f] = d[f] + (IF f \in S THEN x ELSE 0)
      <4> SUFFICES ASSUME NEW f \in Fields
                   PROVE  i[f] = d[f] + (IF f \in S THEN x ELSE 0)
        OBVIOUS
      <4>1. i[f] = IF f \in S THEN d[f] + x ELSE d[f]
        BY <3>2
      <4>2. d[f] \in Int
        BY <2>1
      <4> HIDE DEF i
      <4> QED
        BY <4>1, <4>2
    <3> QED
      BY <3>1, <3>2, <3>3
  <2>3. "update" \in F /\ t \in Int
    OBVIOUS
  <2> HIDE DEF i
  <2>4. e \in [F -> Int] /\ e["update"] = t /\ \A f \in F \ {"update"} : e[f] = i[f]
    BY <2>2, <2>3
  <2>5. e = [i EXCEPT !.update = t]
    BY <2>2, <2>3
  <2> HIDE DEF e
  <2>6. e \in Counters /\ e.update = t
    BY <2>4 DEF Counters
  <2>7. \A f \in Fields : e[f] = d[f] + (IF f \in S THEN x ELSE 0)
    BY <1>2, <2>2, <2>4
  <2> QED
    BY <2>5, <2>6, <2>7 DEF i
<1>4. CASE t < b
  <2>1. Counted(c, t, x) = c
    BY <1>4 DEF Counted
  <2>2. \A f \in Fields : Kept(b, t, f) = f /\ Gained(b, t, f, x) = 0
    BY <1>1, <1>4 DEF Kept, Gained
  <2> QED
    BY <1>1, <1>2, <1>4, <2>1, <2>2
<1>5. CASE ~(t < b) /\ b = Never
  <2>1. Counted(c, t, x) = [Inc(c, {"total"}, x) EXCEPT !.update = t]
    BY <1>5 DEF Counted
  <2>2. \A f \in Fields : Kept(b, t, f) = f /\ Gained(b, t, f, x) = IF f \in {"total"} THEN x ELSE 0
    BY <1>5 DEF Kept, Gained
  <2>3. {"total"} \in SUBSET Fields
    BY <1>2
  <2> QED
    BY <1>2, <1>3, <1>5, <2>1, <2>2, <2>3
<1>6. CASE ~(t < b) /\ b # Never
  <2> DEFINE d == IF b = t THEN c ELSE Switched(c, t)
             S == Fields \ {"prevDay"}
  <2>1. Counted(c, t, x) = [Inc(d, S, x) EXCEPT !.update = t]
    BY <1>6 DEF Counted
  <2>2. d \in Counters /\ \A f \in Fields : d[f] = IF Kept(b, t, f) = "none" THEN 0 ELSE c[Kept(b, t, f)]
    <3>1. CASE b = t
      <4>1. \A f \in Fields : Kept(b, t, f) = f
        BY <3>1 DEF Kept
      <4> QED
        BY <1>2, <3>1, <4>1
    <3>2. CASE b # t
      <4>1. b < t
        BY <1>1, <1>6, <3>2
      <4> QED
        BY <1>6, <3>2, <4>1, SwitchedFields
    <3> QED
      BY <3>1, <3>2
  <2>3. \A f \in Fields : Gained(b, t, f, x) = IF f \in S THEN x ELSE 0
    BY <1>6 DEF Gained
  <2> HIDE DEF d
  <2>4. S \in SUBSET Fields
    OBVIOUS
  <2> HIDE DEF S
  <2> QED
    BY <1>3, <1>6, <2>1, <2>2, <2>3, <2>4
<1> QED
  BY <1>4, <1>5, <1>6

\* Counters as collections make them.
WellCounted(c) ==
    /\ c \in Counters /\ \A f \in Fields : c[f] \in Nat
    /\ c.update \in 0 .. MaxDay \cup {Never}
    /\ c.update = Never => c = NoCounters

\* TypeOK, with counters as collections make them.
Types ==
    /\ TypeOK /\ WellCounted(brigade)
    /\ \A u \in User : WellCounted(userTotal[u]) /\ \A p \in Protocol : WellCounted(count[u][p])

\* Counters that were never updated.
LEMMA NoCountersWell ==
    /\ NoCounters \in Counters /\ WellCounted(NoCounters) /\ NoCounters.update = Never
    /\ NoCounters.update = -1 /\ NoCounters.total = 0 /\ \A f \in Fields : NoCounters[f] = 0
  BY DEF NoCounters, Counters, Fields, Never, WellCounted

\* A collection makes such counters of such counters.
LEMMA CountedWell ==
    ASSUME NEW c, WellCounted(c), NEW t \in 0 .. MaxDay, NEW x \in Nat
    PROVE  WellCounted(Counted(c, t, x))
<1> DEFINE b == c.update
           e == Counted(c, t, x)
<1>1. c \in Counters /\ b \in 0 .. MaxDay \cup {Never} /\ \A f \in Fields : c[f] \in Nat
  BY DEF WellCounted
<1>2. t \in Nat /\ MaxDay \in Nat /\ Never = -1
  BY BoundAssumption DEF Never
<1>3. CASE t < b
  BY <1>3 DEF Counted
<1>4. CASE ~(t < b)
  <2>1. /\ e \in Counters /\ e.update = t
        /\ \A f \in Fields : e[f] = (IF Kept(b, t, f) = "none" THEN 0 ELSE c[Kept(b, t, f)])
                                      + Gained(b, t, f, x)
    BY <1>1, <1>2, <1>4, CountedFields
  <2>2. ASSUME NEW f \in Fields
        PROVE  e[f] \in Nat
    <3>1. (IF Kept(b, t, f) = "none" THEN 0 ELSE c[Kept(b, t, f)]) \in Nat
      BY <1>1, KeptTyped
    <3>2. Gained(b, t, f, x) \in Nat
      BY DEF Gained
    <3> QED
      BY <2>1, <3>1, <3>2
  <2>3. t # Never
    BY <1>2
  <2>4. WellCounted(e)
    <3> HIDE DEF e
    <3> QED
      BY <2>1, <2>2, <2>3 DEF WellCounted
  <2> QED
    BY <2>4
<1> QED
  BY <1>3, <1>4

-----------------------------------------------------------------------------
(* What a collection does.                                                 *)

\* The growth of a peer, of a user and of the brigade that a collection counts.
Grown(listed, u, p) == IF <<u, p>> \in listed THEN Growth(u, p) ELSE 0
Spent(listed, u) == SumOver(Protocol, [p \in Protocol |-> Grown(listed, u, p)])
SpentByAll(listed) == SumOver(users, [u \in users |-> Spent(listed, u)])

\* A brigade has finitely many users.
LEMMA FiniteUsers == users \subseteq User => IsFiniteSet(users)
  BY BrigadeAssumption, FS_Subset

\* Nothing grows by less than 0, although the counters of the endpoint may.
LEMMA Spending ==
    ASSUME TypeOK, NEW listed
    PROVE  /\ \A u \in User : /\ Spent(listed, u) \in Nat
                              /\ \A p \in Protocol : Grown(listed, u, p) \in Nat
           /\ SpentByAll(listed) \in Nat
<1>1. ASSUME NEW u \in User, NEW p \in Protocol
      PROVE  Grown(listed, u, p) \in Nat
  <2>1. meter[u][p] \in Nat /\ seen[u][p] \in Nat
    BY DEF TypeOK
  <2> QED
    BY <2>1 DEF Grown, Growth
<1>2. ASSUME NEW u \in User
      PROVE  Spent(listed, u) \in Nat
  <2> DEFINE g == [p \in Protocol |-> Grown(listed, u, p)]
  <2>1. \A p \in Protocol : g[p] \in Nat
    BY <1>1
  <2> HIDE DEF g
  <2>2. SumOver(Protocol, g) \in Nat
    BY <2>1, BrigadeAssumption, SumNat
  <2> QED
    BY <2>2 DEF Spent, g
<1>3. SpentByAll(listed) \in Nat
  <2> DEFINE g == [u \in users |-> Spent(listed, u)]
  <2>1. users \subseteq User
    BY DEF TypeOK
  <2>2. \A u \in users : g[u] \in Nat
    BY <1>2, <2>1
  <2> HIDE DEF g
  <2>3. SumOver(users, g) \in Nat
    BY <2>1, <2>2, FiniteUsers, SumNat
  <2> QED
    BY <2>3 DEF SpentByAll, g
<1> QED
  BY <1>1, <1>2, <1>3

\* Collect, with names for the growth.
LEMMA CollectIs ==
    ASSUME NEW listed, Collect(listed)
    PROVE  /\ collections < MaxCollections /\ collections' = collections + 1
           /\ UNCHANGED <<clock, users, meter, passed, mishaps>>
           /\ count' = [u \in User |-> [p \in Protocol |->
                  IF u \in users THEN Counted(count[u][p], clock, Grown(listed, u, p))
                  ELSE count[u][p]]]
           /\ seen' = [u \in User |-> [p \in Protocol |->
                  IF <<u, p>> \in listed THEN meter[u][p] ELSE seen[u][p]]]
           /\ userTotal' = [u \in User |->
                  IF u \in users THEN Counted(userTotal[u], clock, Spent(listed, u))
                  ELSE userTotal[u]]
           /\ remaining' = [u \in User |->
                  IF u \in users THEN Remaining(u, Spent(listed, u)) ELSE remaining[u]]
           /\ resetOn' = [u \in User |-> IF u \in users /\ resetOn[u] <= clock
                                         THEN NextMonthlyResetOn(clock) ELSE resetOn[u]]
           /\ brigade' = Counted(brigade, clock, SpentByAll(listed))
           /\ IF clock < brigade.update THEN UNCHANGED <<log, days>>
              ELSE /\ days' = days \cup {clock}
                   /\ log' = IF brigade.update = Never THEN log
                             ELSE [log EXCEPT ![clock] = @ + SpentByAll(listed)]
  BY DEF Collect, Grown, Spent, SpentByAll, endpointVars, histVars

\* A quota is reset on a later day.
LEMMA ResetIsLater ==
    ASSUME NEW t \in Nat
    PROVE  NextMonthlyResetOn(t) \in Nat /\ t < NextMonthlyResetOn(t)
<1>1. NextMonthlyResetOn(t) \in Int /\ t < NextMonthlyResetOn(t)
  BY MonthSpan
<1> QED
  BY <1>1

\* The types hold at the start,
LEMMA TypesInit == Init => Types
<1> SUFFICES ASSUME Init
             PROVE  Types
  OBVIOUS
<1>1. 0 \in 0 .. MaxDay /\ 0 \in 0 .. MaxCollections /\ 0 \in 0 .. Limit
  BY BoundAssumption, QuotaAssumption
<1>2. TypeOK
  BY <1>1, NoCountersWell DEF Init, TypeOK, ForAll
<1>3. \A u \in User : userTotal[u] = NoCounters /\ \A p \in Protocol : count[u][p] = NoCounters
  BY DEF Init, ForAll
<1> QED
  BY <1>2, <1>3, NoCountersWell DEF Init, Types

\* after a collection,
LEMMA TypesCollect ==
    ASSUME Types, NEW listed, Collect(listed)
    PROVE  Types'
<1>1. TypeOK /\ WellCounted(brigade)
      /\ \A u \in User : WellCounted(userTotal[u]) /\ \A p \in Protocol : WellCounted(count[u][p])
  BY DEF Types
<1>2. clock \in 0 .. MaxDay /\ clock \in Nat /\ users \subseteq User
  <2>1. clock \in 0 .. MaxDay /\ users \subseteq User
    BY <1>1 DEF TypeOK
  <2> QED
    BY <2>1
<1>3. /\ \A u \in User : Spent(listed, u) \in Nat /\ \A p \in Protocol : Grown(listed, u, p) \in Nat
      /\ SpentByAll(listed) \in Nat
  BY <1>1, Spending
<1>4. ASSUME NEW u \in User
      PROVE  WellCounted(userTotal'[u]) /\ \A p \in Protocol : WellCounted(count'[u][p])
  <2>1. WellCounted(userTotal'[u])
    <3>1. userTotal'[u] \in {userTotal[u], Counted(userTotal[u], clock, Spent(listed, u))}
      BY CollectIs
    <3>2. WellCounted(Counted(userTotal[u], clock, Spent(listed, u)))
      BY <1>1, <1>2, <1>3, CountedWell
    <3> QED
      BY <1>1, <3>1, <3>2
  <2>2. ASSUME NEW p \in Protocol
        PROVE  WellCounted(count'[u][p])
    <3>1. count'[u][p] \in {count[u][p], Counted(count[u][p], clock, Grown(listed, u, p))}
      BY CollectIs
    <3>2. WellCounted(Counted(count[u][p], clock, Grown(listed, u, p)))
      BY <1>1, <1>2, <1>3, CountedWell
    <3> QED
      BY <1>1, <3>1, <3>2
  <2> QED
    BY <2>1, <2>2
<1>5. WellCounted(brigade')
  BY <1>1, <1>2, <1>3, CollectIs, CountedWell
<1>6. TypeOK'
  <2>1. count' \in [User -> [Protocol -> Counters]] /\ userTotal' \in [User -> Counters]
        /\ brigade' \in Counters
    <3>1. /\ count' = [u \in User |-> [p \in Protocol |-> count'[u][p]]]
          /\ userTotal' = [u \in User |-> userTotal'[u]]
      BY CollectIs
    <3> QED
      BY <1>4, <1>5, <3>1 DEF WellCounted
  <2>2. seen' \in [User -> [Protocol -> Nat]]
    <3>1. \A u \in User, p \in Protocol : meter[u][p] \in Nat /\ seen[u][p] \in Nat
      BY <1>1 DEF TypeOK
    <3>2. seen' = [u \in User |-> [p \in Protocol |->
                     IF <<u, p>> \in listed THEN meter[u][p] ELSE seen[u][p]]]
      BY CollectIs
    <3> QED
      BY <3>1, <3>2
  <2>3. remaining' \in [User -> 0 .. Limit]
    <3>1. \A u \in User : remaining[u] \in 0 .. Limit /\ Limit \in Nat
      BY <1>1, QuotaAssumption DEF TypeOK
    <3>2. \A u \in User : Remaining(u, Spent(listed, u)) \in 0 .. Limit
      BY <1>3, <3>1 DEF Remaining
    <3> QED
      BY <3>1, <3>2, CollectIs
  <2>4. resetOn' \in [User -> Nat]
    <3>1. \A u \in User : resetOn[u] \in Nat
      BY <1>1 DEF TypeOK
    <3> QED
      BY <1>2, <3>1, CollectIs, ResetIsLater
  <2>5. log' \in [0 .. MaxDay -> Nat] /\ days' \subseteq 0 .. MaxDay
    <3>1. log \in [0 .. MaxDay -> Nat] /\ days \subseteq 0 .. MaxDay
      BY <1>1 DEF TypeOK
    <3>2. [log EXCEPT ![clock] = @ + SpentByAll(listed)] \in [0 .. MaxDay -> Nat]
      BY <1>2, <1>3, <3>1
    <3> QED
      BY <1>2, <3>1, <3>2, CollectIs
  <2>6. collections' \in 0 .. MaxCollections
    <3>1. collections \in 0 .. MaxCollections /\ MaxCollections \in Nat
      BY <1>1, BoundAssumption DEF TypeOK
    <3> QED
      BY <3>1, CollectIs
  <2> QED
    BY <1>1, <2>1, <2>2, <2>3, <2>4, <2>5, <2>6, CollectIs DEF TypeOK
<1> QED
  BY <1>4, <1>5, <1>6 DEF Types

\* A step that is no collection.
Other ==
    \/ \E u \in User : CreateUser(u) \/ DeleteUser(u) \/ Restart(u)
    \/ \E u \in User, p \in Protocol : Pass(u, p)
    \/ Advance \/ ClockBack
    \/ UNCHANGED vars

\* and after every other step.
LEMMA TypesOther ==
    ASSUME Types, Other
    PROVE  Types'
<1>1. TypeOK /\ WellCounted(brigade)
      /\ \A u \in User : WellCounted(userTotal[u]) /\ \A p \in Protocol : WellCounted(count[u][p])
  BY DEF Types
<1>2. ASSUME NEW u \in User, CreateUser(u)
      PROVE  Types'
  <2>1. NextMonthlyResetOn(clock) \in Nat
    <3>1. clock \in 0 .. MaxDay
      BY <1>1 DEF TypeOK
    <3> QED
      BY <3>1, ResetIsLater
  <2>2. Limit \in 0 .. Limit
    BY QuotaAssumption
  <2>3. remaining' \in [User -> 0 .. Limit] /\ resetOn' \in [User -> Nat] /\ users' \subseteq User
    BY <1>1, <1>2, <2>1, <2>2 DEF CreateUser, TypeOK
  <2>4. TypeOK'
    BY <1>1, <1>2, <2>3 DEF CreateUser, TypeOK, endpointVars, histVars
  <2> QED
    BY <1>1, <1>2, <2>4 DEF CreateUser, Types, WellCounted
<1>3. ASSUME NEW u \in User, DeleteUser(u)
      PROVE  Types'
  <2>1. 0 \in 0 .. Limit
    BY QuotaAssumption
  <2>2. /\ users' \subseteq User /\ remaining' \in [User -> 0 .. Limit] /\ resetOn' \in [User -> Nat]
        /\ userTotal' \in [User -> Counters] /\ mishaps' \subseteq {"deleted", "restarted", "set back"}
    BY <1>1, <1>3, <2>1, NoCountersWell DEF DeleteUser, TypeOK, Mishap
  <2>3. /\ meter' \in [User -> [Protocol -> Nat]] /\ passed' \in [User -> [Protocol -> Nat]]
        /\ seen' \in [User -> [Protocol -> Nat]] /\ count' \in [User -> [Protocol -> Counters]]
    BY <1>1, <1>3, NoCountersWell DEF DeleteUser, TypeOK
  <2>4. UNCHANGED <<clock, brigade, log, days, collections>>
    BY <1>3 DEF DeleteUser, histVars
  <2>5. TypeOK'
    BY <1>1, <2>2, <2>3, <2>4 DEF TypeOK
  <2>6. /\ \A w \in User : userTotal'[w] \in {userTotal[w], NoCounters}
        /\ \A w \in User, p \in Protocol : count'[w][p] \in {count[w][p], NoCounters}
    BY <1>1, <1>3 DEF DeleteUser, TypeOK
  <2>7. \A w \in User : WellCounted(userTotal'[w]) /\ \A p \in Protocol : WellCounted(count'[w][p])
    BY <1>1, <2>6, NoCountersWell
  <2>8. WellCounted(brigade')
    BY <1>1, <2>4
  <2> QED
    BY <2>5, <2>7, <2>8 DEF Types
<1>4. ASSUME NEW u \in User, Restart(u)
      PROVE  Types'
  <2>1. /\ meter' \in [User -> [Protocol -> Nat]]
        /\ mishaps' \subseteq {"deleted", "restarted", "set back"}
    BY <1>1, <1>4 DEF Restart, TypeOK, Mishap
  <2>2. UNCHANGED <<clock, users, passed, seen, count, userTotal, remaining, resetOn, brigade,
                    log, days, collections>>
    BY <1>4 DEF Restart, quotaVars, histVars
  <2>3. TypeOK'
    BY <1>1, <2>1, <2>2 DEF TypeOK
  <2> QED
    BY <1>1, <2>2, <2>3 DEF Types, WellCounted
<1>5. ASSUME NEW u \in User, NEW p \in Protocol, Pass(u, p)
      PROVE  Types'
  <2>1. meter' \in [User -> [Protocol -> Nat]] /\ passed' \in [User -> [Protocol -> Nat]]
    <3>1. /\ meter \in [User -> [Protocol -> Nat]] /\ passed \in [User -> [Protocol -> Nat]]
          /\ meter' = [meter EXCEPT ![u] = [meter[u] EXCEPT ![p] = @ + 1]]
          /\ passed' = [passed EXCEPT ![u] = [passed[u] EXCEPT ![p] = @ + 1]]
      BY <1>1, <1>5 DEF Pass, TypeOK
    <3>2. \A f \in [Protocol -> Nat] : [f EXCEPT ![p] = @ + 1] \in [Protocol -> Nat]
      OBVIOUS
    <3> QED
      BY <3>1, <3>2
  <2>2. UNCHANGED <<clock, users, seen, count, userTotal, remaining, resetOn, brigade,
                    log, days, collections, mishaps>>
    BY <1>5 DEF Pass, quotaVars, histVars
  <2>3. TypeOK'
    BY <1>1, <2>1, <2>2 DEF TypeOK
  <2> QED
    BY <1>1, <2>2, <2>3 DEF Types, WellCounted
<1>6. ASSUME Advance \/ ClockBack
      PROVE  Types'
  <2>1. clock \in 0 .. MaxDay /\ MaxDay \in Nat
    BY <1>1, BoundAssumption DEF TypeOK
  <2>2. clock' \in 0 .. MaxDay /\ mishaps' \subseteq mishaps \cup {"set back"}
    <3>1. CASE Advance
      <4>1. PICK t \in clock + 1 .. MaxDay : clock' = t
        BY <3>1 DEF Advance
      <4>2. t \in 0 .. MaxDay
        BY <2>1
      <4> QED
        BY <3>1, <4>1, <4>2 DEF Advance
    <3>2. CASE ClockBack
      <4>1. PICK t \in 0 .. clock - 1 : clock' = t
        BY <3>2 DEF ClockBack
      <4>2. t \in 0 .. MaxDay
        BY <2>1
      <4> QED
        BY <3>2, <4>1, <4>2 DEF ClockBack, Mishap
    <3> QED
      BY <1>6, <3>1, <3>2
  <2>3. UNCHANGED <<users, meter, passed, seen, count, userTotal, remaining, resetOn, brigade,
                    log, days, collections>>
    BY <1>6 DEF Advance, ClockBack, endpointVars, quotaVars, histVars
  <2>4. TypeOK'
    BY <1>1, <2>2, <2>3 DEF TypeOK
  <2> QED
    BY <1>1, <2>3, <2>4 DEF Types, WellCounted
<1>7. ASSUME UNCHANGED vars
      PROVE  Types'
  BY <1>1, <1>7 DEF vars, endpointVars, quotaVars, histVars, Types, TypeOK, WellCounted
<1> QED
  BY <1>2, <1>3, <1>4, <1>5, <1>6, <1>7 DEF Other

-----------------------------------------------------------------------------
(* The counters add up.                                                    *)

\* What is left of counter f of c on day t.
Left(c, t, f) ==
    IF Kept(c.update, t, f) = "none" THEN 0 ELSE c[Kept(c.update, t, f)]

\* CountedFields, in the form a prover can instantiate.
LEMMA CountedField ==
    \A c \in Counters, t \in Nat, x \in Nat, f \in Fields :
        Counted(c, t, x)[f] = Left(c, t, f) + Gained(c.update, t, f, x)
  BY CountedFields DEF Left

\* A collection marks the counters, unless they have been marked on a later day.
LEMMA CountedUpdate ==
    \A c \in Counters, t \in Nat, x \in Nat :
        Counted(c, t, x).update = IF t < c.update THEN c.update ELSE t
  BY CountedFields

\* A counter that goes on from the sums goes on as the sum.
LEMMA CountedSum ==
    ASSUME NEW S, IsFiniteSet(S), NEW c, NEW x, NEW b, NEW t, NEW f \in Fields,
           \A s \in S : x[s] \in Nat /\ \A g \in Fields : c[s][g] \in Int
    PROVE  LET k == Kept(b, t, f)
               new == [s \in S |-> (IF k = "none" THEN 0 ELSE c[s][k]) + Gained(b, t, f, x[s])]
           IN  /\ \A s \in S : new[s] \in Int
               /\ SumOver(S, new) = (IF k = "none" THEN 0 ELSE SumOver(S, [s \in S |-> c[s][k]]))
                                     + Gained(b, t, f, SumOver(S, x))
<1> DEFINE k == Kept(b, t, f)
           A == [s \in S |-> IF k = "none" THEN 0 ELSE c[s][k]]
           B == [s \in S |-> Gained(b, t, f, x[s])]
           new == [s \in S |-> (IF k = "none" THEN 0 ELSE c[s][k]) + Gained(b, t, f, x[s])]
<1>1. k \in Fields \cup {"none"}
  BY KeptTyped
<1> HIDE DEF k
<1>2. \A s \in S : A[s] \in Int /\ B[s] \in Int /\ new[s] = A[s] + B[s]
  BY <1>1 DEF Gained
<1>3. SumOver(S, A) = IF k = "none" THEN 0 ELSE SumOver(S, [s \in S |-> c[s][k]])
  <2>1. CASE k = "none"
    <3>1. \A s \in S : A[s] = 0
      BY <2>1
    <3> HIDE DEF A
    <3> QED
      BY <2>1, <3>1, SumZero
  <2>2. CASE k # "none"
    <3>1. A = [s \in S |-> c[s][k]]
      BY <2>2
    <3> QED
      BY <2>2, <3>1
  <2> QED
    BY <2>1, <2>2
<1>4. SumOver(S, B) = Gained(b, t, f, SumOver(S, x))
  <2>1. CASE \A y \in Nat : Gained(b, t, f, y) = 0
    <3>1. SumOver(S, x) \in Nat
      BY SumNat
    <3>2. \A s \in S : B[s] = 0
      BY <2>1
    <3> HIDE DEF B
    <3> QED
      BY <2>1, <3>1, <3>2, SumZero
  <2>2. CASE \A y \in Nat : Gained(b, t, f, y) = y
    <3>1. SumOver(S, x) \in Nat
      BY SumNat
    <3>2. \A s \in S : B[s] \in Int /\ B[s] = x[s]
      BY <2>2
    <3> HIDE DEF B
    <3>3. SumOver(S, B) = SumOver(S, x)
      BY <3>2, SumSame
    <3> QED
      BY <2>2, <3>1, <3>3
  <2> QED
    BY <2>1, <2>2 DEF Gained
<1> HIDE DEF A, B, new
<1>5. SumOver(S, new) = SumOver(S, A) + SumOver(S, B)
  BY <1>2, SumPlus
<1>6. \A s \in S : new[s] \in Int
  BY <1>2
<1> QED
  BY <1>3, <1>4, <1>5, <1>6 DEF new, k

\* The protocols of a user are updated with him, and who is no user never was.
Together ==
    /\ \A u \in User, p \in Protocol : count[u][p].update = userTotal[u].update
    /\ \A u \in User \ users : userTotal[u].update = Never

\* UserSums, for what is left of users that are gone as well.
UserAdds ==
    \A u \in User, f \in Fields :
        userTotal[u][f] = SumOver(Protocol, [p \in Protocol |-> count[u][p][f]])

\* A collection keeps the counters of users the sums of their protocols'.
LEMMA UserAddsCollect ==
    ASSUME Types, Together, UserAdds, NEW listed, Collect(listed)
    PROVE  UserAdds'
<1> SUFFICES ASSUME NEW u \in User, NEW f \in Fields
             PROVE  userTotal'[u][f] = SumOver(Protocol, [p \in Protocol |-> count'[u][p][f]])
  BY DEF UserAdds
<1>1. /\ userTotal[u] \in Counters /\ \A p \in Protocol : count[u][p] \in Counters
      /\ \A g \in Fields : userTotal[u][g] \in Nat /\ \A p \in Protocol : count[u][p][g] \in Nat
  BY DEF Types, WellCounted
<1>2. clock \in Nat /\ Spent(listed, u) \in Nat /\ \A p \in Protocol : Grown(listed, u, p) \in Nat
  <2>1. TypeOK /\ clock \in 0 .. MaxDay
    BY DEF Types, TypeOK
  <2> QED
    BY <2>1, Spending
<1>3. CASE u \notin users
  <2>1. userTotal'[u] = userTotal[u] /\ \A p \in Protocol : count'[u][p] = count[u][p]
    BY <1>3, CollectIs
  <2>2. [p \in Protocol |-> count'[u][p][f]] = [p \in Protocol |-> count[u][p][f]]
    BY <2>1
  <2>3. userTotal[u][f] = SumOver(Protocol, [p \in Protocol |-> count[u][p][f]])
    BY DEF UserAdds
  <2> QED
    BY <2>1, <2>2, <2>3
<1>4. CASE u \in users
  <2> DEFINE b == userTotal[u].update
             k == Kept(b, clock, f)
             c == count[u]
             x == [p \in Protocol |-> Grown(listed, u, p)]
             new == [p \in Protocol |-> (IF k = "none" THEN 0 ELSE c[p][k]) + Gained(b, clock, f, x[p])]
  <2>1. \A p \in Protocol : c[p].update = b
    BY DEF Together
  <2>2. userTotal'[u] = Counted(userTotal[u], clock, SumOver(Protocol, x))
    BY <1>4, CollectIs DEF Spent
  <2>3. \A p \in Protocol : count'[u][p] = Counted(c[p], clock, x[p])
    BY <1>4, CollectIs
  <2>4. SumOver(Protocol, x) \in Nat /\ \A p \in Protocol : x[p] \in Nat
    BY <1>2 DEF Spent
  <2> HIDE DEF x
  <2>5. \A p \in Protocol : count'[u][p][f] = new[p]
    <3> SUFFICES ASSUME NEW p \in Protocol
                 PROVE  count'[u][p][f] = new[p]
      OBVIOUS
    <3>1. c[p] \in Counters /\ x[p] \in Nat /\ c[p].update = b
      BY <1>1, <2>1, <2>4
    <3>2. Counted(c[p], clock, x[p])[f] =
             (IF Kept(c[p].update, clock, f) = "none" THEN 0 ELSE c[p][Kept(c[p].update, clock, f)])
               + Gained(c[p].update, clock, f, x[p])
      BY <1>2, <3>1, CountedField DEF Left
    <3> HIDE DEF c, b
    <3> QED
      BY <2>3, <3>1, <3>2
  <2>6. [p \in Protocol |-> count'[u][p][f]] = new
    BY <2>5
  <2>7. userTotal'[u][f] = (IF k = "none" THEN 0 ELSE userTotal[u][k]) + Gained(b, clock, f, SumOver(Protocol, x))
    <3>1. Counted(userTotal[u], clock, SumOver(Protocol, x))[f] =
             (IF k = "none" THEN 0 ELSE userTotal[u][k]) + Gained(b, clock, f, SumOver(Protocol, x))
      BY <1>1, <1>2, <2>4, CountedField DEF Left
    <3> QED
      BY <2>2, <3>1
  <2>8. k # "none" => userTotal[u][k] = SumOver(Protocol, [p \in Protocol |-> c[p][k]])
    BY KeptTyped DEF UserAdds
  <2>9. SumOver(Protocol, new) =
           (IF k = "none" THEN 0 ELSE SumOver(Protocol, [p \in Protocol |-> c[p][k]]))
             + Gained(b, clock, f, SumOver(Protocol, x))
    <3>1. \A p \in Protocol : x[p] \in Nat /\ \A g \in Fields : c[p][g] \in Int
      BY <1>1, <2>4
    <3> HIDE DEF b, c
    <3> QED
      BY <3>1, BrigadeAssumption, CountedSum DEF k, new
  <2> HIDE DEF new, k, b, c
  <2> QED
    BY <2>6, <2>7, <2>8, <2>9
<1> QED
  BY <1>3, <1>4

\* As long as no clock is set back, users are updated when the brigade is.
Clocked ==
    NoClockSetBack =>
        /\ brigade.update <= clock
        /\ \A u \in User : userTotal[u].update \in {Never, brigade.update}

\* A counter that is not below the sum of others stays so, when each of these was
\* updated with it or never.
LEMMA CountedBelow ==
    ASSUME NEW S, IsFiniteSet(S), NEW c, NEW d \in Counters, NEW x, NEW t \in Nat,
           NEW f \in Fields, d.update <= t, \A g \in Fields : d[g] \in Nat,
           \A s \in S : /\ x[s] \in Nat /\ c[s] \in Counters /\ \A g \in Fields : c[s][g] \in Nat
                        /\ \/ c[s].update = d.update
                           \/ c[s].update = Never /\ \A g \in Fields : c[s][g] = 0,
           \A g \in Fields : SumOver(S, [s \in S |-> c[s][g]]) <= d[g]
    PROVE  SumOver(S, [s \in S |-> Counted(c[s], t, x[s])[f]]) <= Counted(d, t, SumOver(S, x))[f]
<1> DEFINE b == d.update
           k == Kept(b, t, f)
           new == [s \in S |-> (IF k = "none" THEN 0 ELSE c[s][k]) + Gained(b, t, f, x[s])]
           now == [s \in S |-> Counted(c[s], t, x[s])[f]]
           old == [s \in S |-> c[s][k]]
<1>1. k \in Fields \cup {"none"} /\ b \in Int
  <2>1. b \in Int
    BY DEF Counters
  <2> QED
    BY <2>1, KeptTyped
<1>2. ASSUME NEW s \in S
      PROVE  now[s] \in Int /\ new[s] \in Int /\ now[s] <= new[s]
  <2> DEFINE v == now[s]
             w == new[s]
  <2>1. c[s] \in Counters /\ x[s] \in Nat /\ \A g \in Fields : c[s][g] \in Nat
    OBVIOUS
  <2>2. v = Left(c[s], t, f) + Gained(c[s].update, t, f, x[s])
    BY <2>1, CountedField
  <2>3. w = (IF k = "none" THEN 0 ELSE c[s][k]) + Gained(b, t, f, x[s])
    OBVIOUS
  <2>4. Gained(b, t, f, x[s]) \in Nat /\ (IF k = "none" THEN 0 ELSE c[s][k]) \in Nat
    BY <1>1, <2>1 DEF Gained
  <2> HIDE DEF v, w
  <2>5. CASE c[s].update = b
    <3>1. v = w
      BY <2>2, <2>3, <2>5 DEF Left
    <3> QED
      BY <2>3, <2>4, <3>1 DEF v, w
  <2>6. CASE c[s].update # b
    <3>1. c[s].update = Never /\ b # Never /\ \A g \in Fields : c[s][g] = 0
      BY <2>6
    <3>2. Left(c[s], t, f) = 0
      BY <3>1, KeptTyped DEF Left
    <3>3. Gained(Never, t, f, x[s]) \in {0, Gained(b, t, f, x[s])}
      <4>1. b <= t
        OBVIOUS
      <4>2. ~(t < b)
        <5> HIDE DEF b
        <5> QED
          BY <1>1, <4>1
      <4> HIDE DEF b
      <4> QED
        BY <3>1, <4>2 DEF Gained
    <3>4. v = 0 + Gained(Never, t, f, x[s])
      BY <2>2, <3>1, <3>2
    <3> HIDE DEF k, b
    <3>5. v \in Int /\ w \in Int /\ v <= w
      BY <2>3, <2>4, <3>3, <3>4
    <3> QED
      BY <3>5 DEF v, w
  <2> QED
    BY <2>5, <2>6
<1>3. SumOver(S, now) <= SumOver(S, new) /\ SumOver(S, now) \in Int /\ SumOver(S, new) \in Int
  <2> HIDE DEF now, new
  <2> QED
    BY <1>2, SumAtMost, SumInt
<1>4. SumOver(S, new) = (IF k = "none" THEN 0 ELSE SumOver(S, old)) + Gained(b, t, f, SumOver(S, x))
  <2>1. \A s \in S : x[s] \in Nat /\ \A g \in Fields : c[s][g] \in Int
    OBVIOUS
  <2> HIDE DEF b
  <2> QED
    BY <2>1, CountedSum
<1>5. SumOver(S, x) \in Nat
  BY SumNat
<1>6. Counted(d, t, SumOver(S, x))[f] = Left(d, t, f) + Gained(b, t, f, SumOver(S, x))
  BY <1>5, CountedField
<1>7. /\ (IF k = "none" THEN 0 ELSE SumOver(S, old)) <= Left(d, t, f)
      /\ (IF k = "none" THEN 0 ELSE SumOver(S, old)) \in Int /\ Left(d, t, f) \in Int
  <2>1. CASE k = "none"
    BY <2>1 DEF Left
  <2>2. CASE k # "none"
    <3>1. SumOver(S, old) <= d[k] /\ \A s \in S : old[s] \in Int
      BY <1>1, <2>2
    <3> HIDE DEF old
    <3>2. SumOver(S, old) \in Int
      BY <3>1, SumInt
    <3> QED
      BY <1>1, <2>2, <3>1, <3>2 DEF Left
  <2> QED
    BY <2>1, <2>2
<1>8. Gained(b, t, f, SumOver(S, x)) \in Int
  BY <1>5 DEF Gained
<1> HIDE DEF k, b, old, new
<1>9. SumOver(S, now) <= Counted(d, t, SumOver(S, x))[f]
  <2> HIDE DEF now
  <2> QED
    BY <1>3, <1>4, <1>6, <1>7, <1>8
<1> QED
  BY <1>9

\* A collection keeps the counters of the brigade no less than the sum of the users'.
LEMMA BrigadeAbove ==
    ASSUME Types, NEW listed, Collect(listed), brigade.update <= clock,
           \A u \in User : userTotal[u].update \in {Never, brigade.update},
           \A g \in Fields : SumOver(users, [u \in users |-> userTotal[u][g]]) <= brigade[g]
    PROVE  \A f \in Fields : SumOver(users, [u \in users |-> userTotal'[u][f]]) <= brigade'[f]
<1> SUFFICES ASSUME NEW f \in Fields
             PROVE  SumOver(users, [u \in users |-> userTotal'[u][f]]) <= brigade'[f]
  OBVIOUS
<1> DEFINE x == [u \in users |-> Spent(listed, u)]
<1>1. /\ brigade \in Counters /\ \A g \in Fields : brigade[g] \in Nat
      /\ \A u \in User : /\ userTotal[u] \in Counters /\ \A g \in Fields : userTotal[u][g] \in Nat
                         /\ userTotal[u].update = Never => \A g \in Fields : userTotal[u][g] = 0
  BY NoCountersWell DEF Types, WellCounted
<1>2. clock \in Nat /\ users \subseteq User /\ IsFiniteSet(users)
  <2>1. clock \in 0 .. MaxDay /\ users \subseteq User
    BY DEF Types, TypeOK
  <2> QED
    BY <2>1, FiniteUsers
<1>3. \A u \in users : x[u] \in Nat
  BY <1>2, Spending DEF Types
<1>4. brigade' = Counted(brigade, clock, SumOver(users, x))
  BY CollectIs DEF SpentByAll
<1>5. [u \in users |-> userTotal'[u][f]] = [u \in users |-> Counted(userTotal[u], clock, x[u])[f]]
  <2>1. \A u \in users : userTotal'[u] = Counted(userTotal[u], clock, x[u])
    BY <1>2, CollectIs
  <2> QED
    BY <2>1
<1> HIDE DEF x
<1>6. \A u \in users : \/ userTotal[u].update = brigade.update
                       \/ userTotal[u].update = Never /\ \A g \in Fields : userTotal[u][g] = 0
  BY <1>1, <1>2
<1>9. SumOver(users, [u \in users |-> Counted(userTotal[u], clock, x[u])[f]])
        <= Counted(brigade, clock, SumOver(users, x))[f]
  <2>1. \A u \in users :
           /\ x[u] \in Nat /\ userTotal[u] \in Counters /\ \A g \in Fields : userTotal[u][g] \in Nat
           /\ \/ userTotal[u].update = brigade.update
              \/ userTotal[u].update = Never /\ \A g \in Fields : userTotal[u][g] = 0
    BY <1>1, <1>2, <1>3, <1>6
  <2> QED
    BY <1>1, <1>2, <2>1, CountedBelow
<1> QED
  BY <1>4, <1>5, <1>9

\* A sum that gets a summand 0, and a sum that loses a summand that is not negative.
LEMMA SumGrows ==
    ASSUME NEW f, NEW g, NEW S, IsFiniteSet(S), NEW x, x \notin S, g[x] = 0,
           \A s \in S : f[s] \in Int /\ g[s] = f[s]
    PROVE  SumOver(S \cup {x}, g) = SumOver(S, f)
<1>1. SumOver(S \cup {x}, g) = g[x] + SumOver(S, g)
  <2>1. \A s \in S \cup {x} : g[s] \in Int
    OBVIOUS
  <2> QED
    BY <2>1, SumAdd
<1>2. SumOver(S, f) = SumOver(S, g) /\ SumOver(S, g) \in Int
  BY SumSame, SumInt
<1> QED
  BY <1>1, <1>2

LEMMA SumShrinks ==
    ASSUME NEW f, NEW g, NEW S, IsFiniteSet(S), NEW x \in S,
           \A s \in S : f[s] \in Nat, \A s \in S \ {x} : g[s] = f[s]
    PROVE  SumOver(S \ {x}, g) <= SumOver(S, f)
<1>1. IsFiniteSet(S \ {x})
  BY FS_RemoveElement
<1>2. SumOver(S, f) = f[x] + SumOver(S \ {x}, f)
  <2>1. \A s \in S : f[s] \in Int
    OBVIOUS
  <2> QED
    BY <2>1, SumRemove
<1>3. SumOver(S \ {x}, f) = SumOver(S \ {x}, g) /\ SumOver(S \ {x}, f) \in Int
  BY <1>1, SumSame, SumInt
<1>4. f[x] \in Nat
  OBVIOUS
<1> QED
  BY <1>2, <1>3, <1>4

\* The inductive invariant of CountersAddUp.
Sums == Types /\ Together /\ Clocked /\ UserAdds /\ BrigadeSums

\* It implies CountersAddUp,
LEMMA SumsAreSums == Sums => CountersAddUp
<1> SUFFICES ASSUME Sums
             PROVE  UserSums /\ BrigadeSums
  BY DEF CountersAddUp
<1>1. users \subseteq User
  BY DEF Sums, Types, TypeOK
<1> QED
  BY <1>1 DEF Sums, UserAdds, UserSums

\* holds at the start,
LEMMA SumsInit == Init => Sums
<1> SUFFICES ASSUME Init
             PROVE  Sums
  OBVIOUS
<1>1. /\ users = {} /\ clock = 0 /\ brigade = NoCounters
      /\ \A u \in User : userTotal[u] = NoCounters /\ \A p \in Protocol : count[u][p] = NoCounters
  BY DEF Init, ForAll
<1>2. Together /\ Clocked
  BY <1>1, NoCountersWell DEF Together, Clocked, Never
<1>3. UserAdds
  <2> SUFFICES ASSUME NEW u \in User, NEW f \in Fields
               PROVE  userTotal[u][f] = SumOver(Protocol, [p \in Protocol |-> count[u][p][f]])
    BY DEF UserAdds
  <2> DEFINE g == [p \in Protocol |-> count[u][p][f]]
  <2>1. \A p \in Protocol : g[p] = 0
    BY <1>1, NoCountersWell
  <2> HIDE DEF g
  <2>2. SumOver(Protocol, g) = 0
    BY <2>1, SumZero, BrigadeAssumption
  <2> QED
    BY <1>1, <2>2, NoCountersWell DEF g
<1>4. BrigadeSums
  <2> SUFFICES ASSUME NEW f \in Fields
               PROVE  SumOver(users, [u \in users |-> userTotal[u][f]]) <= brigade[f]
    BY DEF BrigadeSums
  <2> DEFINE g == [u \in users |-> userTotal[u][f]]
  <2>1. SumOver({}, g) = 0
    BY SumEmpty
  <2> QED
    BY <1>1, <2>1, NoCountersWell
<1> QED
  BY <1>2, <1>3, <1>4, TypesInit DEF Sums

\* A collection updates all counters on one day.
LEMMA ClockedCollect ==
    ASSUME Types, Together, Clocked, NEW listed, Collect(listed)
    PROVE  Together' /\ Clocked'
<1>1. /\ clock \in Nat /\ users \subseteq User /\ Never = -1
      /\ brigade \in Counters /\ brigade.update \in Int
      /\ \A u \in User : /\ userTotal[u] \in Counters /\ userTotal[u].update \in Int
                         /\ \A p \in Protocol : count[u][p] \in Counters
  <2>1. clock \in 0 .. MaxDay /\ users \subseteq User
    BY DEF Types, TypeOK
  <2>2. \A c \in Counters : c.update \in Int
    BY DEF Counters
  <2> QED
    BY <2>1, <2>2 DEF Types, WellCounted, Never
<1>2. /\ SpentByAll(listed) \in Nat
      /\ \A u \in User : Spent(listed, u) \in Nat /\ \A p \in Protocol : Grown(listed, u, p) \in Nat
  BY Spending DEF Types
<1>3. \A c \in Counters, x \in Nat : Counted(c, clock, x).update = IF clock < c.update THEN c.update ELSE clock
  BY <1>1, CountedFields
<1>4. UNCHANGED <<clock, users, mishaps>>
  BY CollectIs
<1>5. \A u \in User : userTotal'[u].update =
          IF u \notin users \/ clock < userTotal[u].update THEN userTotal[u].update ELSE clock
  BY <1>1, <1>2, <1>3, CollectIs
<1>6. \A u \in User, p \in Protocol : count'[u][p].update =
          IF u \notin users \/ clock < count[u][p].update THEN count[u][p].update ELSE clock
  BY <1>1, <1>2, <1>3, CollectIs
<1>7. brigade'.update = IF clock < brigade.update THEN brigade.update ELSE clock
  BY <1>1, <1>2, <1>3, CollectIs
<1>8. Together'
  BY <1>4, <1>5, <1>6 DEF Together
<1>9. ASSUME NoClockSetBack
      PROVE  /\ brigade'.update <= clock
             /\ \A u \in User : userTotal'[u].update \in {Never, brigade'.update}
  <2>1. brigade.update <= clock /\ \A u \in User : userTotal[u].update \in {Never, brigade.update}
    BY <1>9 DEF Clocked
  <2>2. brigade'.update = clock
    BY <1>1, <1>7, <2>1
  <2>3. \A u \in User : userTotal'[u].update \in {Never, clock}
    BY <1>1, <1>5, <2>1 DEF Together
  <2> QED
    BY <1>1, <2>2, <2>3
<1>10. NoClockSetBack' = NoClockSetBack
  BY <1>4 DEF NoClockSetBack
<1>11. Clocked'
  BY <1>4, <1>9, <1>10 DEF Clocked
<1> QED
  BY <1>8, <1>11

\* A collection keeps the sums,
LEMMA SumsCollect ==
    ASSUME Sums, NEW listed, Collect(listed)
    PROVE  Sums'
<1>1. Types' /\ Together' /\ Clocked' /\ UserAdds'
  BY TypesCollect, ClockedCollect, UserAddsCollect DEF Sums
<1>2. ASSUME NoClockSetBack
      PROVE  \A f \in Fields : SumOver(users, [u \in users |-> userTotal'[u][f]]) <= brigade'[f]
  <2>1. /\ brigade.update <= clock /\ \A u \in User : userTotal[u].update \in {Never, brigade.update}
        /\ \A g \in Fields : SumOver(users, [u \in users |-> userTotal[u][g]]) <= brigade[g]
    BY <1>2 DEF Sums, Clocked, BrigadeSums
  <2> QED
    BY <2>1, BrigadeAbove DEF Sums
<1>3. users' = users /\ NoClockSetBack' = NoClockSetBack
  BY CollectIs DEF NoClockSetBack
<1>4. BrigadeSums'
  BY <1>2, <1>3 DEF BrigadeSums
<1> QED
  BY <1>1, <1>4 DEF Sums

\* and every other step does; a user who is created adds nothing.
LEMMA SumsOther ==
    ASSUME Sums, Other
    PROVE  Sums'
<1>1. /\ Types /\ TypeOK /\ Never = -1 /\ users \subseteq User /\ IsFiniteSet(users)
      /\ \A u \in User, f \in Fields : userTotal[u][f] \in Nat
  <2>1. Types /\ TypeOK /\ users \subseteq User
    BY DEF Sums, Types, TypeOK
  <2> QED
    BY <2>1, FiniteUsers DEF Never, Types, WellCounted
<1>2. Types'
  BY <1>1, TypesOther
<1>3. ASSUME NEW u \in User, DeleteUser(u)
      PROVE  Together' /\ Clocked' /\ UserAdds' /\ BrigadeSums'
  <2>1. /\ users' = users \ {u} /\ UNCHANGED <<clock, brigade>> /\ mishaps \subseteq mishaps'
        /\ u \in users
    BY <1>3 DEF DeleteUser, Mishap, histVars
  <2>2. \A w \in User : /\ userTotal'[w] = IF w = u THEN NoCounters ELSE userTotal[w]
                        /\ \A p \in Protocol : count'[w][p] = IF w = u THEN NoCounters ELSE count[w][p]
    BY <1>1, <1>3 DEF DeleteUser, TypeOK
  <2>3. NoClockSetBack' => NoClockSetBack
    BY <2>1 DEF NoClockSetBack
  <2>4. Together'
    BY <2>1, <2>2, NoCountersWell DEF Sums, Together
  <2>5. Clocked'
    BY <2>1, <2>2, <2>3, NoCountersWell DEF Sums, Clocked
  <2>6. UserAdds'
    <3> SUFFICES ASSUME NEW w \in User, NEW f \in Fields
                 PROVE  userTotal'[w][f] = SumOver(Protocol, [p \in Protocol |-> count'[w][p][f]])
      BY DEF UserAdds
    <3>1. CASE w = u
      <4> DEFINE g == [p \in Protocol |-> count'[w][p][f]]
      <4>1. \A p \in Protocol : g[p] = 0
        BY <2>2, <3>1, NoCountersWell
      <4> HIDE DEF g
      <4>2. SumOver(Protocol, g) = 0
        BY <4>1, SumZero, BrigadeAssumption
      <4> QED
        BY <2>2, <3>1, <4>2, NoCountersWell DEF g
    <3>2. CASE w # u
      <4>1. [p \in Protocol |-> count'[w][p][f]] = [p \in Protocol |-> count[w][p][f]]
        BY <2>2, <3>2
      <4>2. userTotal[w][f] = SumOver(Protocol, [p \in Protocol |-> count[w][p][f]])
        BY DEF Sums, UserAdds
      <4> QED
        BY <2>2, <3>2, <4>1, <4>2
    <3> QED
      BY <3>1, <3>2
  <2>7. BrigadeSums'
    <3> SUFFICES ASSUME NoClockSetBack', NEW f \in Fields
                 PROVE  SumOver(users', [w \in users' |-> userTotal'[w][f]]) <= brigade'[f]
      BY DEF BrigadeSums
    <3> DEFINE old == [w \in users |-> userTotal[w][f]]
               new == [w \in users' |-> userTotal'[w][f]]
    <3>1. \A w \in users : old[w] \in Nat
      BY <1>1
    <3>2. \A w \in users \ {u} : new[w] = old[w]
      BY <1>1, <2>1, <2>2
    <3>3. SumOver(users, old) <= brigade[f]
      BY <2>3 DEF Sums, BrigadeSums
    <3>4. SumOver(users, old) \in Nat /\ brigade[f] \in Nat
      <4> HIDE DEF old
      <4> QED
        BY <1>1, <3>1, SumNat DEF Types, WellCounted
    <3> HIDE DEF old, new
    <3>5. SumOver(users \ {u}, new) <= SumOver(users, old)
      BY <1>1, <2>1, <3>1, <3>2, SumShrinks
    <3>6. SumOver(users \ {u}, new) \in Int
      <4>1. IsFiniteSet(users \ {u}) /\ \A w \in users \ {u} : new[w] \in Int
        BY <1>1, <3>1, <3>2, FS_RemoveElement
      <4> QED
        BY <4>1, SumInt
    <3>7. SumOver(users', new) <= brigade'[f]
      BY <2>1, <3>3, <3>4, <3>5, <3>6
    <3> QED
      BY <3>7 DEF new
  <2> QED
    BY <2>4, <2>5, <2>6, <2>7
<1>4. ASSUME NEW u \in User, CreateUser(u)
      PROVE  Together' /\ Clocked' /\ UserAdds' /\ BrigadeSums'
  <2>1. users' = users \cup {u} /\ u \notin users /\ UNCHANGED <<clock, count, userTotal, brigade, mishaps>>
    BY <1>4 DEF CreateUser
  <2>2. Together' /\ Clocked' /\ UserAdds'
    BY <2>1 DEF Sums, Together, Clocked, UserAdds, NoClockSetBack
  <2>3. BrigadeSums'
    <3> SUFFICES ASSUME NoClockSetBack, NEW f \in Fields
                 PROVE  SumOver(users', [w \in users' |-> userTotal[w][f]]) <= brigade[f]
      BY <2>1 DEF BrigadeSums, NoClockSetBack
    <3> DEFINE old == [w \in users |-> userTotal[w][f]]
               new == [w \in users' |-> userTotal[w][f]]
    <3>1. \A w \in users : old[w] \in Int /\ new[w] = old[w]
      BY <1>1, <2>1
    <3>2. new[u] = 0
      <4>1. userTotal[u] = NoCounters
        BY <2>1 DEF Sums, Types, WellCounted, Together
      <4> QED
        BY <2>1, <4>1, NoCountersWell
    <3>3. SumOver(users, old) <= brigade[f]
      BY DEF Sums, BrigadeSums
    <3> HIDE DEF old, new
    <3>4. SumOver(users \cup {u}, new) = SumOver(users, old)
      BY <1>1, <2>1, <3>1, <3>2, SumGrows
    <3>5. SumOver(users', new) <= brigade[f]
      BY <2>1, <3>3, <3>4
    <3> QED
      BY <3>5 DEF new
  <2> QED
    BY <2>2, <2>3
<1>5. ASSUME UNCHANGED <<users, count, userTotal, brigade>>, mishaps \subseteq mishaps',
             NoClockSetBack' => clock <= clock'
      PROVE  Together' /\ Clocked' /\ UserAdds' /\ BrigadeSums'
  <2>1. NoClockSetBack' => NoClockSetBack
    BY <1>5 DEF NoClockSetBack
  <2>2. NoClockSetBack' => brigade.update <= clock'
    <3>1. {clock, clock', brigade.update} \subseteq Int
      <4>1. brigade \in Counters /\ clock \in 0 .. MaxDay /\ clock' \in 0 .. MaxDay
        BY <1>1, <1>2 DEF Types, TypeOK
      <4> QED
        BY <4>1 DEF Counters
    <3>2. NoClockSetBack' => brigade.update <= clock
      BY <2>1 DEF Sums, Clocked
    <3> QED
      BY <1>5, <3>1, <3>2
  <2> QED
    BY <1>5, <2>1, <2>2 DEF Sums, Together, Clocked, UserAdds, BrigadeSums
<1>6. ASSUME NEW u \in User, Restart(u) \/ \E p \in Protocol : Pass(u, p)
      PROVE  UNCHANGED <<users, count, userTotal, brigade, clock>> /\ mishaps \subseteq mishaps'
  BY <1>6 DEF Restart, Pass, Mishap, quotaVars, histVars
<1>7. ASSUME Advance \/ ClockBack \/ UNCHANGED vars
      PROVE  /\ UNCHANGED <<users, count, userTotal, brigade>> /\ mishaps \subseteq mishaps'
             /\ NoClockSetBack' => clock <= clock'
  <2>1. clock \in Int
    <3>1. clock \in 0 .. MaxDay
      BY <1>1 DEF TypeOK
    <3> QED
      BY <3>1
  <2>2. CASE Advance
    <3>1. PICK t \in clock + 1 .. MaxDay : clock' = t
      BY <2>2 DEF Advance
    <3>2. MaxDay \in Int
      BY BoundAssumption
    <3>3. clock <= clock'
      BY <2>1, <3>1, <3>2
    <3> QED
      BY <2>2, <3>3 DEF Advance, endpointVars, quotaVars, histVars
  <2>3. CASE ClockBack
    <3>1. ~NoClockSetBack'
      BY <2>3 DEF ClockBack, Mishap, NoClockSetBack
    <3> QED
      BY <2>3, <3>1 DEF ClockBack, Mishap, endpointVars, quotaVars, histVars
  <2>4. CASE UNCHANGED vars
    BY <2>1, <2>4 DEF vars, endpointVars, quotaVars, histVars
  <2> QED
    BY <1>7, <2>2, <2>3, <2>4
<1>8. clock \in Int
  <2>1. clock \in 0 .. MaxDay
    BY <1>1 DEF TypeOK
  <2> QED
    BY <2>1
<1>9. Together' /\ Clocked' /\ UserAdds' /\ BrigadeSums'
  BY <1>3, <1>4, <1>5, <1>6, <1>7, <1>8 DEF Other
<1> QED
  BY <1>2, <1>9 DEF Sums

-----------------------------------------------------------------------------
(* The counters of periods.                                                *)

\* What the history says of the days of the brigade's collections.
DaysKnown ==
    /\ brigade.update = Never => days = {}
    /\ brigade.update # Never => brigade.update \in days
    /\ \A t \in days : t <= brigade.update
    /\ \A t \in (0 .. MaxDay) \ days : log[t] = 0

\* The inductive invariant of PeriodsExact and YesterdayKnown.
Periods == Types /\ DaysKnown /\ PeriodsExact /\ YesterdayKnown

\* The maximum of a set of numbers.
LEMMA MaxIs ==
    ASSUME NEW S \in SUBSET Nat, NEW m \in S, \A t \in S : t <= m
    PROVE  Max(S) = m
<1>1. m >= m /\ \A t \in S : m >= t /\ t \in Int
  OBVIOUS
<1>2. \E x \in S : \A t \in S : x >= t
  BY <1>1
<1>3. Max(S) \in S /\ \A t \in S : Max(S) >= t
  BY <1>2 DEF Max
<1>4. Max(S) >= m /\ m >= Max(S) /\ Max(S) \in Int
  BY <1>1, <1>3
<1> QED
  BY <1>1, <1>4

\* It holds at the start,
LEMMA PeriodsInit == Init => Periods
<1> SUFFICES ASSUME Init
             PROVE  Periods
  OBVIOUS
<1>1. brigade.update = Never /\ days = {} /\ \A t \in 0 .. MaxDay : log[t] = 0
  BY NoCountersWell DEF Init
<1> QED
  BY <1>1, TypesInit DEF Periods, DaysKnown, PeriodsExact, YesterdayKnown

\* is kept by what is no collection,
LEMMA PeriodsOther ==
    ASSUME Periods, Other
    PROVE  Periods'
<1>1. UNCHANGED <<brigade, log, days>>
  BY DEF Other, CreateUser, DeleteUser, Restart, Pass, Advance, ClockBack, vars, histVars
<1> QED
  BY <1>1, TypesOther DEF Periods, DaysKnown, PeriodsExact, YesterdayKnown, Logged, DayBefore, Yesterday

\* What a collection adds to the history.
LEMMA CollectLogs ==
    ASSUME Types, DaysKnown, NEW listed, Collect(listed), ~(clock < brigade.update)
    PROVE  LET b == brigade.update
               x == SpentByAll(listed)
               y == IF b = Never THEN 0 ELSE x
           IN  /\ clock \in 0 .. MaxDay /\ b \in Int /\ b <= clock /\ x \in Nat /\ Never = -1
               /\ b # Never => b \in 0 .. MaxDay
               /\ brigade' = Counted(brigade, clock, x) /\ brigade'.update = clock
               /\ \A f \in Fields : brigade'[f] = Left(brigade, clock, f) + Gained(b, clock, f, x)
               /\ days' = days \cup {clock}
               /\ \A t \in 0 .. MaxDay : log[t] \in Nat /\ log'[t] \in Nat
               /\ log'[clock] = log[clock] + y
               /\ \A t \in (0 .. MaxDay) \ {clock} : log'[t] = log[t]
               /\ DaysKnown'
<1> DEFINE b == brigade.update
           x == SpentByAll(listed)
           y == IF b = Never THEN 0 ELSE x
<1>1. /\ TypeOK /\ clock \in 0 .. MaxDay /\ b \in Int /\ brigade \in Counters
      /\ log \in [0 .. MaxDay -> Nat] /\ days \subseteq 0 .. MaxDay
      /\ b # Never => b \in 0 .. MaxDay
  <2>1. TypeOK /\ WellCounted(brigade)
    BY DEF Types
  <2> QED
    BY <2>1 DEF TypeOK, WellCounted, Counters
<1>2. x \in Nat /\ clock \in Nat /\ b <= clock
  BY <1>1, Spending
<1>3. /\ brigade' = Counted(brigade, clock, x)
      /\ days' = days \cup {clock} /\ log' = IF b = Never THEN log ELSE [log EXCEPT ![clock] = @ + x]
  BY CollectIs
<1>4. brigade'.update = clock
  BY <1>1, <1>2, <1>3, CountedFields
<1>5. \A f \in Fields : brigade'[f] = Left(brigade, clock, f) + Gained(b, clock, f, x)
  <2> HIDE DEF x
  <2> QED
    BY <1>1, <1>2, <1>3, CountedField
<1>6. /\ \A t \in 0 .. MaxDay : log[t] \in Nat /\ log'[t] \in Nat
      /\ log'[clock] = log[clock] + y
      /\ \A t \in (0 .. MaxDay) \ {clock} : log'[t] = log[t]
  <2> HIDE DEF x, b
  <2> QED
    BY <1>1, <1>2, <1>3
<1>7. Never = -1 /\ clock # Never
  BY <1>2 DEF Never
<1>8. DaysKnown'
  <2>1. \A t \in days : t <= b /\ t \in Int
    BY <1>1 DEF DaysKnown
  <2>2. \A t \in days' : t <= clock
    <3> HIDE DEF b
    <3> QED
      BY <1>1, <1>2, <1>3, <2>1
  <2>3. \A t \in (0 .. MaxDay) \ days' : log'[t] = 0
    BY <1>3, <1>6 DEF DaysKnown
  <2> QED
    BY <1>3, <1>4, <1>7, <2>2, <2>3 DEF DaysKnown
<1> QED
  BY <1>1, <1>2, <1>3, <1>4, <1>5, <1>6, <1>7, <1>8

\* The log f of what was counted up to day b, and g, with x more on day u.
LogGrows(f, g, b, u, x) ==
    /\ \A t \in 0 .. MaxDay : f[t] \in Nat /\ g[t] \in Nat
    /\ \A t \in 0 .. MaxDay : b < t => f[t] = 0
    /\ \A t \in 0 .. MaxDay : t # u => g[t] = f[t]
    /\ g[u] = f[u] + x

\* A counter of a period goes on from c, which is what was logged in it or, when all its
\* days are later than b, the last one logged, 0.
LEMMA PeriodGoesOn ==
    ASSUME NEW f, NEW g, NEW D \in SUBSET (0 .. MaxDay), NEW b \in Int, NEW u \in D, NEW x \in Nat,
           NEW c, c = SumOver(D, f) \/ (c = 0 /\ \A t \in D : b < t), LogGrows(f, g, b, u, x)
    PROVE  SumOver(D, g) = c + x
<1>0. /\ \A t \in 0 .. MaxDay : f[t] \in Nat /\ g[t] \in Nat
      /\ \A t \in 0 .. MaxDay : b < t => f[t] = 0
      /\ \A t \in 0 .. MaxDay : t # u => g[t] = f[t]
      /\ g[u] = f[u] + x
  BY DEF LogGrows
<1>1. IsFiniteSet(D)
  <2>1. IsFiniteSet(0 .. MaxDay)
    BY BoundAssumption, FS_Interval
  <2> QED
    BY <2>1, FS_Subset
<1>2. \A t \in D : f[t] \in Int /\ g[t] \in Int
  BY <1>0
<1>3. SumOver(D, f) = f[u] + SumOver(D \ {u}, f) /\ SumOver(D, g) = g[u] + SumOver(D \ {u}, g)
  BY <1>1, <1>2, SumRemove
<1>4. SumOver(D \ {u}, f) = SumOver(D \ {u}, g) /\ SumOver(D \ {u}, f) \in Int
  <2>1. IsFiniteSet(D \ {u})
    BY <1>1, FS_RemoveElement
  <2>2. \A t \in D \ {u} : f[t] \in Int /\ f[t] = g[t]
    BY <1>0
  <2> QED
    BY <2>1, <2>2, SumSame, SumInt
<1>5. SumOver(D, g) = SumOver(D, f) + x
  <2>1. \A p, q \in Int : (p + x) + q = (p + q) + x
    OBVIOUS
  <2> QED
    BY <1>0, <1>2, <1>3, <1>4, <2>1
<1>6. SumOver(D, f) = c
  <2>1. CASE \A t \in D : b < t
    <3>1. \A t \in D : f[t] = 0
      BY <1>0, <2>1
    <3>2. SumOver(D, f) = 0
      BY <1>1, <3>1, SumZero
    <3> QED
      BY <3>2
  <2> QED
    BY <2>1
<1> QED
  BY <1>5, <1>6

\* and by a collection: on the day of the last one the counters grow with the log, and on
\* a later day what they start from is what the log holds of the new period.
LEMMA PeriodsCollect ==
    ASSUME Periods, NEW listed, Collect(listed)
    PROVE  Periods'
<1> DEFINE b == brigade.update
           x == SpentByAll(listed)
<1>1. Types /\ DaysKnown /\ PeriodsExact /\ YesterdayKnown /\ Types'
  BY TypesCollect DEF Periods
<1>2. CASE clock < b
  <2>1. UNCHANGED <<log, days, brigade>>
    BY <1>2, CollectIs DEF Counted
  <2> QED
    BY <1>1, <2>1 DEF Periods, DaysKnown, PeriodsExact, YesterdayKnown, Logged, DayBefore, Yesterday
<1>3. CASE ~(clock < b)
  <2>1. /\ clock \in 0 .. MaxDay /\ b \in Int /\ b <= clock /\ x \in Nat /\ Never = -1
        /\ b # Never => b \in 0 .. MaxDay
        /\ brigade'.update = clock
        /\ \A f \in Fields : brigade'[f] = Left(brigade, clock, f) + Gained(b, clock, f, x)
        /\ days' = days \cup {clock}
        /\ \A t \in 0 .. MaxDay : log[t] \in Nat /\ log'[t] \in Nat
        /\ log'[clock] = log[clock] + (IF b = Never THEN 0 ELSE x)
        /\ \A t \in (0 .. MaxDay) \ {clock} : log'[t] = log[t]
        /\ DaysKnown'
    BY <1>1, <1>3, CollectLogs
  <2> DEFINE Days == 0 .. MaxDay
  <2>2. IsFiniteSet(Days) /\ Days \subseteq Nat /\ clock \in Nat /\ days \subseteq Days
    <3>1. days \subseteq Days
      BY <1>1 DEF Types, TypeOK
    <3>2. IsFiniteSet(Days) /\ Days \subseteq Nat
      BY BoundAssumption, FS_Interval
    <3> HIDE DEF Days
    <3> QED
      BY <2>1, <3>1, <3>2 DEF Days
  <2>3. /\ {"daily", "weekly", "monthly", "yearly", "prevDay"} \subseteq Fields
        /\ \A f \in Fields : brigade[f] \in Nat
    BY <1>1 DEF Fields, Types, WellCounted
  <2>4. CASE b = Never
    <3>1. \A t \in Days : log'[t] = 0
      BY <1>1, <2>1, <2>4 DEF DaysKnown
    <3>2. \A T \in SUBSET Days : Logged(T)' = 0
      <4> SUFFICES ASSUME NEW T \in SUBSET Days
                   PROVE  SumOver(T, log') = 0
        BY DEF Logged
      <4>1. IsFiniteSet(T) /\ \A t \in T : log'[t] = 0
        BY <2>2, <3>1, FS_Subset
      <4> QED
        BY <4>1, SumZero
    <3>3. \A f \in {"daily", "weekly", "monthly", "yearly"} : brigade'[f] = 0
      <4>1. \A f \in Fields : brigade[f] = 0
        BY <1>1, <2>4, NoCountersWell DEF Types, WellCounted
      <4>2. \A f \in Fields \ {"total"} : Left(brigade, clock, f) = 0 /\ Gained(b, clock, f, x) = 0
        BY <2>4, <4>1 DEF Left, Kept, Gained
      <4> QED
        BY <2>1, <2>3, <4>2
    <3>4. PeriodsExact'
      BY <2>1, <3>1, <3>2, <3>3 DEF PeriodsExact
    <3>5. YesterdayKnown'
      <4>1. days' = {clock}
        BY <1>1, <2>1, <2>4 DEF DaysKnown
      <4> QED
        BY <2>1, <2>2, <4>1 DEF YesterdayKnown
    <3> QED
      BY <1>1, <2>1, <3>4, <3>5 DEF Periods
  <2>5. CASE b # Never
    <3>1. b \in Days /\ b \in Nat /\ \A t \in days : t <= b
      BY <1>1, <2>1, <2>2, <2>5 DEF DaysKnown
    <3>2. Gained(b, clock, "prevDay", x) = 0
          /\ \A f \in {"daily", "weekly", "monthly", "yearly"} : Gained(b, clock, f, x) = x
      BY <1>3, <2>5 DEF Gained
    <3>3. /\ \A t \in Days : log[t] \in Nat /\ log'[t] \in Nat
          /\ \A t \in Days : b < t => log[t] = 0
          /\ \A t \in Days : t # clock => log'[t] = log[t]
      <4> SUFFICES ASSUME NEW t \in Days, b < t
                   PROVE  log[t] = 0
        BY <2>1
      <4>1. t \notin days
        BY <2>2, <3>1
      <4> QED
        BY <1>1, <4>1 DEF DaysKnown
    <3>4. log'[clock] = log[clock] + x
      BY <2>1, <2>5
    <3>13. LogGrows(log, log', b, clock, x)
      BY <3>3, <3>4 DEF LogGrows
    <3>5. /\ brigade.daily  = log[b]
          /\ brigade.weekly = Logged({t \in Days : SameWeek(t, b)})
          /\ brigade.yearly = Logged({t \in Days : SameYear(t, b)})
          /\ (\A t \in days : Month(t) = Month(b) => Year(t) = Year(b))
                => brigade.monthly = Logged({t \in Days : SameMonth(t, b)})
      BY <1>1, <2>5 DEF PeriodsExact
    <3>6. brigade'.daily = log'[clock]
      <4>1. Left(brigade, clock, "daily") = log[clock]
        <5>1. CASE clock = b
          <6>1. Left(brigade, clock, "daily") = brigade["daily"]
            BY <2>1, <2>2, <5>1 DEF Left, Kept
          <6> QED
            BY <3>5, <5>1, <6>1
        <5>2. CASE clock # b
          <6>1. b < clock
            <7> HIDE DEF b
            <7> QED
              BY <2>1, <2>2, <5>2
          <6>2. ~(clock <= b)
            <7> HIDE DEF b
            <7> QED
              BY <2>1, <2>2, <6>1
          <6>3. Left(brigade, clock, "daily") = 0
            BY <2>5, <6>2 DEF Left, Kept
          <6> QED
            BY <2>1, <3>3, <6>1, <6>3
        <5> QED
          BY <5>1, <5>2
      <4> QED
        BY <2>1, <2>3, <3>2, <3>4, <4>1
    <3>7. brigade'.weekly = SumOver({t \in Days : SameWeek(t, clock)}, log')
      <4> DEFINE old == {t \in Days : SameWeek(t, b)}
                 new == {t \in Days : SameWeek(t, clock)}
                 same == Week(b) = Week(clock)
      <4>1. Left(brigade, clock, "weekly") = IF same THEN SumOver(old, log) ELSE 0
        <5>1. clock <= b => same
          <6>1. clock <= b => clock = b
            <7> HIDE DEF b
            <7> QED
              BY <2>1, <2>2
          <6> QED
            BY <6>1
        <5>2. brigade["weekly"] = SumOver(old, log)
          BY <3>5 DEF Logged
        <5> HIDE DEF old
        <5> QED
          BY <2>5, <5>1, <5>2 DEF Left, Kept
      <4>2. old \in SUBSET Days /\ new \in SUBSET Days /\ clock \in new /\ (same => new = old)
        BY <2>1 DEF SameWeek
      <4>3. ASSUME ~same, NEW t \in new, t <= b
            PROVE  FALSE
        <5>1. Week(t) = Week(clock) /\ t \in Int /\ b \in Int /\ clock \in Int
          BY <2>1, <2>2 DEF SameWeek
        <5>2. Week(t) <= Week(b) /\ Week(b) <= Week(clock)
              /\ {Week(t), Week(b), Week(clock)} \subseteq Int
          <6> HIDE DEF b, new
          <6> QED
            BY <2>1, <4>3, <5>1, PeriodsGoUp
        <5> QED
          BY <4>3, <5>1, <5>2
      <4>4. ~same => \A t \in new : b < t
        <5>1. new \subseteq Int /\ b \in Int
          BY <2>1, <2>2
        <5> HIDE DEF b, new
        <5> QED
          BY <4>3, <5>1
      <4> DEFINE c == IF same THEN SumOver(old, log) ELSE 0
      <4>5. c = SumOver(new, log) \/ (c = 0 /\ \A t \in new : b < t)
        <5> HIDE DEF old, new, same, b
        <5> QED
          BY <4>2, <4>4
      <4> HIDE DEF old, new, same, c
      <4>6. SumOver(new, log') = c + x
        <5>1. b \in Int /\ x \in Nat
          BY <2>1
        <5> HIDE DEF b, x
        <5> QED
          BY <3>13, <4>2, <4>5, <5>1, PeriodGoesOn
      <4> QED
        BY <2>1, <2>3, <3>2, <4>1, <4>6 DEF new, c
    <3>8. brigade'.yearly = SumOver({t \in Days : SameYear(t, clock)}, log')
      <4> DEFINE old == {t \in Days : SameYear(t, b)}
                 new == {t \in Days : SameYear(t, clock)}
                 same == Year(b) = Year(clock)
      <4>1. Left(brigade, clock, "yearly") = IF same THEN SumOver(old, log) ELSE 0
        <5>1. clock <= b => same
          <6>1. clock <= b => clock = b
            <7> HIDE DEF b
            <7> QED
              BY <2>1, <2>2
          <6> QED
            BY <6>1
        <5>2. brigade["yearly"] = SumOver(old, log)
          BY <3>5 DEF Logged
        <5> HIDE DEF old
        <5> QED
          BY <2>5, <5>1, <5>2 DEF Left, Kept
      <4>2. old \in SUBSET Days /\ new \in SUBSET Days /\ clock \in new /\ (same => new = old)
        BY <2>1 DEF SameYear
      <4>3. ASSUME ~same, NEW t \in new, t <= b
            PROVE  FALSE
        <5>1. Year(t) = Year(clock) /\ t \in Int /\ b \in Int /\ clock \in Int
          BY <2>1, <2>2 DEF SameYear
        <5>2. Year(t) <= Year(b) /\ Year(b) <= Year(clock)
              /\ {Year(t), Year(b), Year(clock)} \subseteq Int
          <6> HIDE DEF b, new
          <6> QED
            BY <2>1, <4>3, <5>1, PeriodsGoUp
        <5> QED
          BY <4>3, <5>1, <5>2
      <4>4. ~same => \A t \in new : b < t
        <5>1. new \subseteq Int /\ b \in Int
          BY <2>1, <2>2
        <5> HIDE DEF b, new
        <5> QED
          BY <4>3, <5>1
      <4> DEFINE c == IF same THEN SumOver(old, log) ELSE 0
      <4>5. c = SumOver(new, log) \/ (c = 0 /\ \A t \in new : b < t)
        <5> HIDE DEF old, new, same, b
        <5> QED
          BY <4>2, <4>4
      <4> HIDE DEF old, new, same, c
      <4>6. SumOver(new, log') = c + x
        <5>1. b \in Int /\ x \in Nat
          BY <2>1
        <5> HIDE DEF b, x
        <5> QED
          BY <3>13, <4>2, <4>5, <5>1, PeriodGoesOn
      <4> QED
        BY <2>1, <2>3, <3>2, <4>1, <4>6 DEF new, c
    <3>9. ASSUME \A t \in days' : Month(t) = Month(clock) => Year(t) = Year(clock)
          PROVE  brigade'.monthly = SumOver({t \in Days : SameMonth(t, clock)}, log')
      <4> DEFINE old == {t \in Days : SameMonth(t, b)}
                 new == {t \in Days : SameMonth(t, clock)}
                 same == Month(b) = Month(clock)
      <4>1. same => Year(b) = Year(clock)
        BY <1>1, <2>1, <2>5, <3>9 DEF DaysKnown
      <4>2. Left(brigade, clock, "monthly") = IF same THEN SumOver(old, log) ELSE 0
        <5>1. clock <= b => same
          <6>1. clock <= b => clock = b
            <7> HIDE DEF b
            <7> QED
              BY <2>1, <2>2
          <6> QED
            BY <6>1
        <5>2. same => brigade["monthly"] = SumOver(old, log)
          BY <2>1, <3>5, <3>9, <4>1 DEF Logged
        <5> HIDE DEF old
        <5> QED
          BY <2>5, <4>1, <5>1, <5>2 DEF Left, Kept
      <4>3. old \in SUBSET Days /\ new \in SUBSET Days /\ clock \in new /\ (same => new = old)
        BY <2>1, <4>1 DEF SameMonth
      <4>4. ASSUME ~same, NEW t \in new, t <= b
            PROVE  FALSE
        <5>1. SameMonth(t, clock) /\ t \in Int /\ b \in Int /\ clock \in Int
          BY <2>1, <2>2
        <5>2. SameMonth(b, clock)
          <6> HIDE DEF b, new
          <6> QED
            BY <2>1, <4>4, <5>1, MonthHasNoGap
        <5> QED
          BY <4>4, <5>2 DEF SameMonth
      <4>5. ~same => \A t \in new : b < t
        <5>1. new \subseteq Int /\ b \in Int
          BY <2>1, <2>2
        <5> HIDE DEF b, new
        <5> QED
          BY <4>4, <5>1
      <4> DEFINE c == IF same THEN SumOver(old, log) ELSE 0
      <4>6. c = SumOver(new, log) \/ (c = 0 /\ \A t \in new : b < t)
        <5> HIDE DEF old, new, same, b
        <5> QED
          BY <4>3, <4>5
      <4> HIDE DEF old, new, same, c
      <4>7. SumOver(new, log') = c + x
        <5>1. b \in Int /\ x \in Nat
          BY <2>1
        <5> HIDE DEF b, x
        <5> QED
          BY <3>13, <4>3, <4>6, <5>1, PeriodGoesOn
      <4> QED
        BY <2>1, <2>3, <3>2, <4>2, <4>7 DEF new, c
    <3>10. PeriodsExact'
      BY <2>1, <3>6, <3>7, <3>8, <3>9 DEF PeriodsExact, Logged
    <3>11. YesterdayKnown'
      <4>1. CASE clock = b
        <5>1. days' = days
          BY <1>1, <2>1, <2>5, <4>1 DEF DaysKnown
        <5>2. brigade'["prevDay"] = brigade["prevDay"]
          <6>1. Left(brigade, clock, "prevDay") = brigade["prevDay"]
            BY <4>1 DEF Left, Kept
          <6> QED
            BY <2>1, <2>3, <3>2, <6>1
        <5>3. Yesterday' = Yesterday
          <6>1. b > 0 => b - 1 \in Days \ {clock}
            <7> HIDE DEF b
            <7> QED
              BY <2>1, <2>2, <3>1, <4>1, BoundAssumption
          <6> QED
            BY <2>1, <4>1, <6>1 DEF Yesterday
        <5>4. DayBefore' = DayBefore
          BY <2>1, <4>1, <5>1 DEF DayBefore
        <5> QED
          BY <1>1, <2>1, <4>1, <5>1, <5>2, <5>3, <5>4 DEF YesterdayKnown
      <4>2. CASE clock # b
        <5>1. b < clock
          BY <2>1, <4>2
        <5>2. DayBefore' = b
          <6> DEFINE S == {t \in days' : t < clock}
          <6>1. b \in days
            BY <1>1, <2>5 DEF DaysKnown
          <6>2. b \in S /\ S \in SUBSET Nat /\ \A t \in S : t <= b
            <7>1. \A t \in S : t \in days \/ t = clock
              BY <2>1
            <7>2. \A t \in S : t < clock
              OBVIOUS
            <7>3. b \in S
              BY <2>1, <5>1, <6>1
            <7> HIDE DEF b, S
            <7> QED
              BY <2>1, <2>2, <3>1, <7>1, <7>2, <7>3
          <6> HIDE DEF S
          <6>3. Max(S) = b
            BY <6>2, MaxIs
          <6> QED
            BY <2>1, <6>3 DEF DayBefore, S
        <5> SUFFICES ASSUME Day(b) # Day(clock), Month(AddMonth(b)) = Month(NextMonthlyResetOn(b))
                     PROVE  brigade'.prevDay = Yesterday'
          BY <2>1, <5>2 DEF YesterdayKnown
        <5>3. Yesterday' = log[clock - 1] /\ clock - 1 \in Days
          <6>1. clock > 0 /\ clock - 1 \in Days \ {clock}
            <7> HIDE DEF b
            <7> QED
              BY <2>1, <2>2, <3>1, <5>1, BoundAssumption
          <6> QED
            BY <2>1, <6>1 DEF Yesterday
        <5>4. brigade'.prevDay = Left(brigade, clock, "prevDay")
          <6>1. Left(brigade, clock, "prevDay") \in Nat
            BY <2>3, KeptTyped DEF Left
          <6> QED
            BY <2>1, <2>3, <3>2, <6>1
        <5>5. ~(clock <= b)
          BY <2>1, <2>2, <5>1
        <5>6. CASE b + 1 = clock
          <6>1. Year(clock) \in {Year(b), Year(b) + 1}
                /\ (Month(b) # Month(clock) => SameMonth(AddMonth(b), clock))
            BY <3>1, <5>6, DayAfter
          <6>2. Left(brigade, clock, "prevDay") = brigade.daily
            BY <2>5, <5>5, <5>6, <6>1 DEF Left, Kept
          <6>3. clock - 1 = b
            BY <2>1, <5>6
          <6> QED
            BY <3>5, <5>3, <5>4, <6>2, <6>3
        <5>7. CASE b + 1 # clock
          <6>1. Left(brigade, clock, "prevDay") = 0
            BY <2>5, <5>5, <5>7 DEF Left, Kept
          <6>2. clock - 1 \notin days
            BY <2>1, <2>2, <3>1, <5>1, <5>7
          <6>3. log[clock - 1] = 0
            BY <1>1, <5>3, <6>2 DEF DaysKnown
          <6> QED
            BY <5>3, <5>4, <6>1, <6>3
        <5> QED
          BY <5>6, <5>7
      <4> QED
        BY <4>1, <4>2
    <3> QED
      BY <1>1, <2>1, <3>10, <3>11 DEF Periods
  <2> QED
    BY <2>4, <2>5
<1> QED
  BY <1>2, <1>3

-----------------------------------------------------------------------------
(* The quotas.                                                             *)

\* A quota is reset at the start of a month, after the user's last collection.
ResetsKnown ==
    \A u \in users :
        /\ \E q \in Nat : resetOn[u] = NextMonthlyResetOn(q)
        /\ NoClockSetBack => userTotal[u].update < resetOn[u]

\* The inductive invariant of QuotaCharged.
Quotas == Sums /\ DaysKnown /\ ResetsKnown /\ QuotaCharged

\* What a collection leaves of a quota.
LEMMA RemainingLeft ==
    ASSUME TypeOK, NEW u \in User, NEW x \in Nat
    PROVE  LET q == IF resetOn[u] <= clock THEN Limit ELSE remaining[u]
           IN  /\ q \in Nat /\ q <= Limit /\ Remaining(u, x) \in Nat
               /\ Remaining(u, x) = 0 \/ Remaining(u, x) = q - x
<1> DEFINE q == IF resetOn[u] <= clock THEN Limit ELSE remaining[u]
<1>1. q \in Nat /\ q <= Limit
  <2>1. remaining[u] \in 0 .. Limit /\ Limit \in Nat
    BY QuotaAssumption DEF TypeOK
  <2> QED
    BY <2>1
<1>2. Remaining(u, x) = IF q >= x THEN q - x ELSE 0
  BY DEF Remaining
<1> HIDE DEF q
<1>3. Remaining(u, x) \in Nat /\ (Remaining(u, x) = 0 \/ Remaining(u, x) = q - x)
  BY <1>1, <1>2
<1> QED
  BY <1>1, <1>3 DEF q

\* It holds at the start,
LEMMA QuotasInit == Init => Quotas
<1> SUFFICES ASSUME Init
             PROVE  Quotas
  OBVIOUS
<1>1. users = {} /\ DaysKnown
  BY PeriodsInit DEF Init, Periods
<1> QED
  BY <1>1, SumsInit DEF Quotas, ResetsKnown, QuotaCharged

\* is kept by what is no collection,
LEMMA QuotasOther ==
    ASSUME Quotas, Other
    PROVE  Quotas'
<1>1. Sums' /\ UNCHANGED <<brigade, log, days>> /\ Sums
  BY SumsOther DEF Quotas, Other, CreateUser, DeleteUser, Restart, Pass, Advance, ClockBack,
                   vars, histVars
<1>2. DaysKnown'
  BY <1>1 DEF Quotas, DaysKnown
<1>3. TypeOK /\ clock \in Nat
  <2>1. TypeOK /\ clock \in 0 .. MaxDay
    BY <1>1 DEF Sums, Types, TypeOK
  <2> QED
    BY <2>1
<1>4. NoClockSetBack' => NoClockSetBack
  BY DEF Other, CreateUser, DeleteUser, Restart, Pass, Advance, ClockBack, Mishap, NoClockSetBack, vars
<1>5. ASSUME NEW u \in User, CreateUser(u)
      PROVE  ResetsKnown' /\ QuotaCharged'
  <2>1. /\ users' = users \cup {u} /\ u \notin users /\ UNCHANGED userTotal
        /\ remaining' = [remaining EXCEPT ![u] = Limit]
        /\ resetOn' = [resetOn EXCEPT ![u] = NextMonthlyResetOn(clock)]
    BY <1>5 DEF CreateUser
  <2>2. /\ remaining'[u] = Limit /\ resetOn'[u] = NextMonthlyResetOn(clock)
        /\ \A w \in users : remaining'[w] = remaining[w] /\ resetOn'[w] = resetOn[w]
    BY <1>3, <2>1 DEF TypeOK
  <2>3. userTotal[u].update = Never /\ userTotal[u].monthly = 0
    <3>1. userTotal[u] = NoCounters
      BY <1>1, <2>1 DEF Sums, Types, WellCounted, Together
    <3>2. "monthly" \in Fields
      BY DEF Fields
    <3> QED
      BY <3>1, <3>2, NoCountersWell
  <2>4. userTotal[u].update < NextMonthlyResetOn(clock)
    <3>1. NextMonthlyResetOn(clock) \in Nat
      BY <1>3, ResetIsLater
    <3> QED
      BY <2>3, <3>1 DEF Never
  <2>5. ResetsKnown'
    BY <1>3, <1>4, <2>1, <2>2, <2>4 DEF Quotas, ResetsKnown
  <2>6. Limit - userTotal[u].monthly >= Limit
    BY <2>3, QuotaAssumption
  <2>7. QuotaCharged'
    BY <1>1, <1>4, <2>1, <2>2, <2>6 DEF Quotas, QuotaCharged
  <2> QED
    BY <2>5, <2>7
<1>6. ASSUME NEW u \in User, DeleteUser(u)
      PROVE  ResetsKnown' /\ QuotaCharged'
  <2>1. users' = users \ {u} /\ users \subseteq User
    BY <1>3, <1>6 DEF DeleteUser, TypeOK
  <2>2. \A w \in users' : /\ userTotal'[w] = userTotal[w] /\ remaining'[w] = remaining[w]
                          /\ resetOn'[w] = resetOn[w] /\ w \in users
    BY <1>3, <1>6, <2>1 DEF DeleteUser, TypeOK
  <2> QED
    BY <1>1, <1>4, <2>2 DEF Quotas, ResetsKnown, QuotaCharged
<1>7. ASSUME UNCHANGED <<users, userTotal, remaining, resetOn>>
      PROVE  ResetsKnown' /\ QuotaCharged'
  BY <1>1, <1>4, <1>7 DEF Quotas, ResetsKnown, QuotaCharged
<1>8. ResetsKnown' /\ QuotaCharged'
  BY <1>5, <1>6, <1>7 DEF Other, Restart, Pass, Advance, ClockBack, vars, quotaVars
<1> QED
  BY <1>1, <1>2, <1>8 DEF Quotas

\* A user's quota and his traffic of the month, as long as no clock is set back.
LEMMA ChargedCollect ==
    ASSUME Quotas, NoClockSetBack, NEW listed, Collect(listed), NEW u \in users
    PROVE  /\ userTotal'[u].update = clock /\ clock < resetOn'[u]
           /\ \E q \in Nat : resetOn'[u] = NextMonthlyResetOn(q)
           /\ (\A t, s \in days' : Month(t) = Month(s) => Year(t) = Year(s))
                => Limit - userTotal'[u].monthly >= remaining'[u] \/ remaining'[u] = 0
<1> DEFINE b == userTotal[u].update
           x == Spent(listed, u)
<1>1. /\ Types /\ TypeOK /\ clock \in Nat /\ u \in User /\ userTotal[u] \in Counters
      /\ \A f \in Fields : userTotal[u][f] \in Nat
      /\ b \in Int /\ x \in Nat /\ Never = -1 /\ "monthly" \in Fields /\ resetOn[u] \in Nat
      /\ b \in Nat \/ b = Never
  <2>1. Types /\ TypeOK /\ u \in User /\ clock \in 0 .. MaxDay /\ userTotal[u] \in Counters
        /\ b \in 0 .. MaxDay \cup {Never} /\ \A f \in Fields : userTotal[u][f] \in Nat
        /\ resetOn[u] \in Nat
    BY DEF Quotas, Sums, Types, TypeOK, WellCounted
  <2>2. x \in Nat
    BY <2>1, Spending
  <2> HIDE DEF x
  <2> QED
    BY <2>1, <2>2 DEF Never, Fields
<1>2. b \in {Never, brigade.update} /\ brigade.update <= clock /\ b <= clock
  <2>1. b \in {Never, brigade.update} /\ brigade.update <= clock
    BY <1>1 DEF Quotas, Sums, Clocked
  <2> HIDE DEF b
  <2> QED
    BY <1>1, <2>1
<1>3. /\ userTotal'[u] = Counted(userTotal[u], clock, x)
      /\ remaining'[u] = Remaining(u, x)
      /\ resetOn'[u] = IF resetOn[u] <= clock THEN NextMonthlyResetOn(clock) ELSE resetOn[u]
  BY <1>1, CollectIs
<1>4. userTotal'[u].update = clock
  <2>1. ~(clock < b)
    <3> HIDE DEF b
    <3> QED
      BY <1>1, <1>2
  <2> HIDE DEF x
  <2> QED
    BY <1>1, <1>3, <2>1, CountedUpdate
<1>5. clock < resetOn'[u] /\ \E q \in Nat : resetOn'[u] = NextMonthlyResetOn(q)
  <2>1. CASE resetOn[u] <= clock
    BY <1>1, <1>3, <2>1, ResetIsLater
  <2>2. CASE ~(resetOn[u] <= clock)
    BY <1>1, <1>3, <2>2 DEF Quotas, ResetsKnown
  <2> QED
    BY <2>1, <2>2
<1>6. PICK q \in Nat : resetOn[u] = NextMonthlyResetOn(q)
  BY DEF Quotas, ResetsKnown
<1>7. b < resetOn[u]
  BY DEF Quotas, ResetsKnown
<1>8. ASSUME \A t, s \in days' : Month(t) = Month(s) => Year(t) = Year(s)
      PROVE  Limit - userTotal'[u].monthly >= remaining'[u] \/ remaining'[u] = 0
  <2> DEFINE m == userTotal'[u].monthly
             l == Left(userTotal[u], clock, "monthly")
             r == remaining'[u]
             quota == IF resetOn[u] <= clock THEN Limit ELSE remaining[u]
             g == Gained(b, clock, "monthly", x)
  <2>1. m = l + g /\ l \in Nat /\ g \in Nat
    <3>1. l \in Nat
      BY <1>1, KeptTyped DEF Left
    <3>2. g \in Nat
      BY <1>1 DEF Gained
    <3>3. m = l + g
      <4> HIDE DEF x
      <4> QED
        BY <1>1, <1>3, CountedField
    <3> HIDE DEF m, l, g
    <3> QED
      BY <3>1, <3>2, <3>3
  <2>2. quota \in Nat /\ quota <= Limit /\ r \in Nat /\ (r = 0 \/ r = quota - x)
    <3> HIDE DEF x
    <3> QED
      BY <1>1, <1>3, RemainingLeft
  <2>3. Limit \in Nat
    BY QuotaAssumption
  <2>4. CASE b = Never
    <3>1. l = 0
      <4>1. userTotal[u] = NoCounters
        BY <1>1, <2>4 DEF Types, WellCounted
      <4>2. \A f \in Fields : userTotal[u][f] = 0
        BY <4>1, NoCountersWell
      <4> QED
        BY <1>1, <4>2, KeptTyped DEF Left
    <3>2. g = 0
      BY <2>4 DEF Gained
    <3> HIDE DEF m, l, g, r, quota, x
    <3>3. Limit - m >= r \/ r = 0
      BY <1>1, <2>1, <2>2, <2>3, <3>1, <3>2
    <3> QED
      BY <3>3 DEF m, r
  <2>5. CASE b # Never
    <3>1. b \in days /\ clock \in days' /\ days \subseteq days' /\ b \in Nat
      <4>1. b \in days
        BY <1>2, <2>5 DEF Quotas, DaysKnown
      <4>2. ~(clock < brigade.update)
        <5>1. b = brigade.update
          BY <1>2, <2>5
        <5> HIDE DEF b
        <5> QED
          BY <1>1, <1>2, <5>1
      <4> QED
        BY <1>1, <2>5, <4>1, <4>2, CollectIs
    <3>2. g \in {0, x}
      BY DEF Gained
    <3>3. CASE Month(b) = Month(clock)
      <4>1. SameMonth(b, clock)
        BY <1>8, <3>1, <3>3 DEF SameMonth
      <4>2. ~(resetOn[u] <= clock)
        <5>1. q \in Int /\ b \in Int /\ clock \in Int
          BY <1>1, <3>1
        <5> HIDE DEF b
        <5> QED
          BY <1>6, <1>7, <4>1, <5>1, ResetIsBetweenMonths
      <4>3. l = userTotal[u].monthly
        BY <4>1 DEF Left, Kept, SameMonth
      <4>4. Limit - userTotal[u].monthly >= remaining[u] \/ remaining[u] = 0
        <5>1. \A t, s \in days : Month(t) = Month(s) => Year(t) = Year(s)
          BY <1>8, <3>1
        <5> QED
          BY <5>1 DEF Quotas, QuotaCharged
      <4>5. quota = remaining[u]
        BY <4>2
      <4> HIDE DEF m, l, g, r, quota, x
      <4>6. Limit - m >= r \/ r = 0
        BY <1>1, <2>1, <2>2, <2>3, <3>2, <4>3, <4>4, <4>5
      <4> QED
        BY <4>6 DEF m, r
    <3>4. CASE Month(b) # Month(clock)
      <4>1. l = 0
        <5>1. ~(clock <= b)
          <6>1. b # clock
            BY <3>4
          <6> HIDE DEF b
          <6> QED
            BY <1>1, <1>2, <6>1
        <5> QED
          BY <2>5, <3>4, <5>1 DEF Left, Kept
      <4> HIDE DEF m, l, g, r, quota, x
      <4>2. Limit - m >= r \/ r = 0
        BY <1>1, <2>1, <2>2, <2>3, <3>2, <4>1
      <4> QED
        BY <4>2 DEF m, r
    <3> QED
      BY <3>3, <3>4
  <2> QED
    BY <2>4, <2>5
<1> QED
  BY <1>4, <1>5, <1>8

\* and by a collection.
LEMMA QuotasCollect ==
    ASSUME Quotas, NEW listed, Collect(listed)
    PROVE  Quotas'
<1>1. Sums /\ Sums' /\ DaysKnown /\ Types /\ TypeOK
  BY SumsCollect DEF Quotas, Sums, Types
<1>2. users' = users /\ mishaps' = mishaps /\ NoClockSetBack' = NoClockSetBack
  BY CollectIs DEF NoClockSetBack
<1>3. DaysKnown'
  <2>1. CASE clock < brigade.update
    <3>1. UNCHANGED <<log, days, brigade>>
      BY <2>1, CollectIs DEF Counted
    <3> QED
      BY <1>1, <3>1 DEF DaysKnown
  <2>2. CASE ~(clock < brigade.update)
    BY <1>1, <2>2, CollectLogs
  <2> QED
    BY <2>1, <2>2
<1>4. \A u \in users : \E q \in Nat : resetOn'[u] = NextMonthlyResetOn(q)
  <2> SUFFICES ASSUME NEW u \in users
               PROVE  \E q \in Nat : resetOn'[u] = NextMonthlyResetOn(q)
    OBVIOUS
  <2>1. resetOn'[u] = resetOn[u] \/ resetOn'[u] = NextMonthlyResetOn(clock)
    <3>1. u \in User
      BY <1>1 DEF TypeOK
    <3> QED
      BY <3>1, CollectIs
  <2>2. clock \in Nat
    <3>1. clock \in 0 .. MaxDay
      BY <1>1 DEF TypeOK
    <3> QED
      BY <3>1
  <2> QED
    BY <2>1, <2>2 DEF Quotas, ResetsKnown
<1>5. ResetsKnown'
  <2>1. NoClockSetBack => \A u \in users : userTotal'[u].update < resetOn'[u]
    BY ChargedCollect
  <2> QED
    BY <1>2, <1>4, <2>1 DEF ResetsKnown
<1>6. QuotaCharged'
  <2>1. ASSUME NoClockSetBack, \A t, s \in days' : Month(t) = Month(s) => Year(t) = Year(s), NEW u \in users
        PROVE  Limit - userTotal'[u].monthly >= remaining'[u] \/ remaining'[u] = 0
    BY <2>1, ChargedCollect
  <2> QED
    BY <1>2, <2>1 DEF QuotaCharged
<1> QED
  BY <1>1, <1>3, <1>5, <1>6 DEF Quotas

-----------------------------------------------------------------------------
(* Traffic is counted once.                                                *)

\* The types the proof needs: those of what is counted for one protocol.
PeerTypes ==
    /\ clock \in Nat /\ users \subseteq User
    /\ meter \in [User -> [Protocol -> Nat]] /\ passed \in [User -> [Protocol -> Nat]]
    /\ seen \in [User -> [Protocol -> Nat]] /\ count \in [User -> [Protocol -> Counters]]

\* What was counted and what the next collection would add is no more than what has
\* passed: a peer that was added again has lost what was not collected.
NotTwice == \A u \in User, p \in Protocol : count[u][p].total + Growth(u, p) <= passed[u][p]

\* As long as nothing restarts and no clock is set back a peer's counter only grows,
\* and nothing was counted in a time to come.
Steady ==
    mishaps \subseteq {"deleted"} =>
        \A u \in User, p \in Protocol :
            /\ count[u][p].total = seen[u][p] /\ seen[u][p] <= meter[u][p]
            /\ count[u][p].update <= clock

\* The inductive invariant of CountedOnce.
Counting == PeerTypes /\ NotTwice /\ Steady

-----------------------------------------------------------------------------

\* incDateSwitchRelated adds the growth to the total exactly once, or looks at nothing
\* in a time before the last collection.
LEMMA CountedTotal ==
    \A c \in Counters, t \in Nat, x \in Nat :
        /\ Counted(c, t, x) \in Counters
        /\ t < c.update => Counted(c, t, x) = c
        /\ ~(t < c.update) => /\ Counted(c, t, x).total = c.total + x
                              /\ Counted(c, t, x).update = t
<1> TAKE c \in Counters, t \in Nat, x \in Nat
<1>1. Counted(c, t, x) \in Counters
      /\ Counted(c, t, x).update = IF t < c.update THEN c.update ELSE t
  BY CountedFields
<1>2. "total" \in Fields
  BY DEF Fields
<1>3. Counted(c, t, x)["total"] = Left(c, t, "total") + Gained(c.update, t, "total", x)
  BY <1>2, CountedField
<1>4. Left(c, t, "total") = c["total"]
  BY DEF Left, Kept
<1>5. ~(t < c.update) => Gained(c.update, t, "total", x) = x
  BY DEF Gained
<1>6. t < c.update => Counted(c, t, x) = c
  BY DEF Counted
<1> QED
  BY <1>1, <1>3, <1>4, <1>5, <1>6

\* It holds at the start,
LEMMA CountingInit == Init => Counting
<1> SUFFICES ASSUME Init
             PROVE  Counting
  OBVIOUS
<1>1. \A u \in User, p \in Protocol :
         /\ meter[u][p] = 0 /\ passed[u][p] = 0 /\ seen[u][p] = 0
         /\ count[u][p] = NoCounters
  BY DEF Init, ForAll
<1>2. PeerTypes
  BY NoCountersWell DEF Init, ForAll, PeerTypes
<1>3. NotTwice
  BY <1>1, NoCountersWell DEF NotTwice, Growth
<1>4. Steady
  BY <1>1, NoCountersWell DEF Steady, Init
<1> QED
  BY <1>2, <1>3, <1>4 DEF Counting

\* A collection, for one protocol of one user.
LEMMA CollectOne ==
    ASSUME PeerTypes, NEW listed \in SUBSET (users \X Protocol), Collect(listed),
           NEW u \in User, NEW p \in Protocol
    PROVE  \/ /\ <<u, p>> \in listed /\ seen'[u][p] = meter[u][p]
              /\ count'[u][p] = Counted(count[u][p], clock, Growth(u, p))
           \/ /\ seen'[u][p] = seen[u][p]
              /\ count'[u][p] \in {count[u][p], Counted(count[u][p], clock, 0)}
<1>1. /\ count'[u][p] = IF u \in users
                        THEN Counted(count[u][p], clock,
                                     IF <<u, p>> \in listed THEN Growth(u, p) ELSE 0)
                        ELSE count[u][p]
      /\ seen'[u][p] = IF <<u, p>> \in listed THEN meter[u][p] ELSE seen[u][p]
  BY DEF Collect
<1>2. <<u, p>> \in listed => u \in users
  OBVIOUS
<1> QED
  BY <1>1, <1>2

\* is kept by a collection,
LEMMA CountingCollect ==
    ASSUME Counting, NEW listed \in SUBSET (users \X Protocol), Collect(listed)
    PROVE  Counting'
<1>1. PeerTypes /\ UNCHANGED <<clock, users, meter, passed, mishaps>>
  BY DEF Counting, Collect, endpointVars
<1>2. ASSUME NEW u \in User, NEW p \in Protocol
      PROVE  /\ count[u][p] \in Counters /\ count[u][p].total \in Int /\ count[u][p].update \in Int
             /\ {meter[u][p], seen[u][p], passed[u][p], Growth(u, p), clock} \subseteq Nat
  <2>1. count[u][p] \in Counters /\ {meter[u][p], seen[u][p], passed[u][p], clock} \subseteq Nat
    BY <1>1 DEF PeerTypes
  <2> QED
    BY <2>1 DEF Counters, Fields, Growth
<1>3. ASSUME NEW u \in User, NEW p \in Protocol
      PROVE  /\ count'[u][p] \in Counters /\ seen'[u][p] \in Nat
             /\ count'[u][p].total + Growth(u, p)' <= passed'[u][p]
             /\ mishaps' \subseteq {"deleted"} =>
                   /\ count'[u][p].total = seen'[u][p] /\ seen'[u][p] <= meter'[u][p]
                   /\ count'[u][p].update <= clock'
  <2>1. /\ count[u][p].total + Growth(u, p) <= passed[u][p]
        /\ mishaps \subseteq {"deleted"} =>
              /\ count[u][p].total = seen[u][p] /\ seen[u][p] <= meter[u][p]
              /\ count[u][p].update <= clock
    BY DEF Counting, NotTwice, Steady
  <2>2. ASSUME NEW x \in Nat, count'[u][p] = Counted(count[u][p], clock, x)
        PROVE  /\ count'[u][p] \in Counters
               /\ count'[u][p].total \in {count[u][p].total, count[u][p].total + x}
               /\ count[u][p].update <= clock =>
                     count'[u][p].total = count[u][p].total + x /\ count'[u][p].update = clock
    <3>1. /\ count[u][p] \in Counters /\ clock \in Nat
          /\ count[u][p].update \in Int /\ count[u][p].total \in Int
      BY <1>2
    <3>2. /\ Counted(count[u][p], clock, x) \in Counters
          /\ clock < count[u][p].update => Counted(count[u][p], clock, x) = count[u][p]
          /\ ~(clock < count[u][p].update) =>
                Counted(count[u][p], clock, x).total = count[u][p].total + x
          /\ ~(clock < count[u][p].update) => Counted(count[u][p], clock, x).update = clock
      BY <3>1, CountedTotal
    <3>3. count[u][p].update <= clock <=> ~(clock < count[u][p].update)
      BY <3>1
    <3> QED
      BY <2>2, <3>2, <3>3
  <2>3. meter'[u][p] = meter[u][p] /\ passed'[u][p] = passed[u][p] /\ clock' = clock
    BY <1>1
  <2>4. CASE /\ seen'[u][p] = meter[u][p]
             /\ count'[u][p] = Counted(count[u][p], clock, Growth(u, p))
    <3>1. Growth(u, p)' = 0
      BY <1>2, <2>3, <2>4 DEF Growth
    <3>2. mishaps \subseteq {"deleted"} => Growth(u, p) = meter[u][p] - seen[u][p]
      BY <2>1 DEF Growth
    <3>3. /\ count'[u][p] \in Counters
          /\ count'[u][p].total \in {count[u][p].total, count[u][p].total + Growth(u, p)}
          /\ count[u][p].update <= clock =>
                /\ count'[u][p].total = count[u][p].total + Growth(u, p)
                /\ count'[u][p].update = clock
      BY <1>2, <2>2, <2>4
    <3>4. count'[u][p].total <= passed[u][p]
      BY <1>2, <2>1, <3>3
    <3>5. count'[u][p].total + Growth(u, p)' <= passed'[u][p]
      BY <1>2, <2>3, <3>1, <3>3, <3>4
    <3> QED
      BY <1>1, <1>2, <2>1, <2>3, <2>4, <3>2, <3>3, <3>5
  <2>5. CASE /\ seen'[u][p] = seen[u][p]
             /\ count'[u][p] \in {count[u][p], Counted(count[u][p], clock, 0)}
    <3>1. Growth(u, p)' = Growth(u, p)
      BY <2>3, <2>5 DEF Growth
    <3>2. /\ count'[u][p] \in Counters /\ count'[u][p].total = count[u][p].total
          /\ count[u][p].update <= clock => count'[u][p].update <= clock
      BY <1>2, <2>2, <2>5
    <3> QED
      BY <1>1, <1>2, <2>1, <2>3, <2>5, <3>1, <3>2
  <2> QED
    BY <1>1, <2>4, <2>5, CollectOne
<1>4. PeerTypes'
  <2>1. /\ seen' = [u \in User |-> [p \in Protocol |-> seen'[u][p]]]
        /\ count' = [u \in User |-> [p \in Protocol |-> count'[u][p]]]
    BY DEF Collect
  <2> QED
    BY <1>1, <1>3, <2>1 DEF PeerTypes
<1> QED
  BY <1>3, <1>4 DEF Counting, NotTwice, Steady

\* and by every other step.
LEMMA CountingOther ==
    ASSUME Counting, Other
    PROVE  Counting'
<1>1. /\ PeerTypes /\ NotTwice /\ Steady
      /\ \A u \in User, p \in Protocol :
            /\ count[u][p] \in Counters /\ count[u][p].total \in Int /\ count[u][p].update \in Int
            /\ {meter[u][p], seen[u][p], passed[u][p], clock} \subseteq Nat
  <2>1. \A c \in Counters : c.total \in Int /\ c.update \in Int
    BY DEF Counters, Fields
  <2> QED
    BY <2>1 DEF Counting, PeerTypes
<1>2. ASSUME UNCHANGED <<meter, passed, seen, count>>, users' \subseteq User, mishaps \subseteq mishaps',
             clock' \in Nat, clock <= clock' \/ "set back" \in mishaps'
      PROVE  Counting'
  <2>1. PeerTypes' /\ NotTwice'
    BY <1>1, <1>2 DEF PeerTypes, NotTwice, Growth
  <2>2. Steady'
    <3>1. ASSUME mishaps' \subseteq {"deleted"}, NEW u \in User, NEW p \in Protocol
          PROVE  /\ count'[u][p].total = seen'[u][p] /\ seen'[u][p] <= meter'[u][p]
                 /\ count'[u][p].update <= clock'
      <4>1. mishaps \subseteq {"deleted"} /\ clock <= clock'
        BY <1>2, <3>1
      <4>2. /\ count[u][p].total = seen[u][p] /\ seen[u][p] <= meter[u][p]
            /\ count[u][p].update <= clock /\ count[u][p].update \in Int /\ clock \in Nat
        BY <1>1, <4>1 DEF Steady, PeerTypes
      <4>3. clock' \in Nat
        BY <1>2
      <4>4. count[u][p].update <= clock'
        BY <4>1, <4>2, <4>3
      <4> QED
        BY <1>2, <4>2, <4>4
    <3> QED
      BY <3>1 DEF Steady
  <2> QED
    BY <2>1, <2>2 DEF Counting
<1>3. ASSUME NEW u \in User, CreateUser(u)
      PROVE  Counting'
  BY <1>1, <1>2, <1>3 DEF CreateUser, endpointVars, PeerTypes
<1>4. ASSUME NEW u \in User, DeleteUser(u)
      PROVE  Counting'
  <2>1. \A p \in Protocol : /\ meter'[u][p] = 0 /\ passed'[u][p] = 0 /\ seen'[u][p] = 0
                            /\ count'[u][p] = NoCounters
    BY <1>1, <1>4 DEF DeleteUser, PeerTypes
  <2>2. \A w \in User \ {u} : /\ meter'[w] = meter[w] /\ passed'[w] = passed[w]
                               /\ seen'[w] = seen[w] /\ count'[w] = count[w]
    BY <1>1, <1>4 DEF DeleteUser, PeerTypes
  <2>3. mishaps' = mishaps \cup {"deleted"} /\ clock' = clock /\ users' \subseteq users
    BY <1>4 DEF DeleteUser, Mishap
  <2>4. PeerTypes'
    BY <1>1, <1>4, NoCountersWell DEF DeleteUser, PeerTypes
  <2>5. NotTwice'
    <3>1. ASSUME NEW w \in User, NEW p \in Protocol
          PROVE  count'[w][p].total + Growth(w, p)' <= passed'[w][p]
      <4>1. CASE w = u
        BY <2>1, <4>1, NoCountersWell DEF Growth
      <4>2. CASE w # u
        BY <1>1, <2>2, <4>2 DEF NotTwice, Growth
      <4> QED
        BY <4>1, <4>2
    <3> QED
      BY <3>1 DEF NotTwice
  <2>6. Steady'
    <3>1. ASSUME mishaps' \subseteq {"deleted"}, NEW w \in User, NEW p \in Protocol
          PROVE  /\ count'[w][p].total = seen'[w][p] /\ seen'[w][p] <= meter'[w][p]
                 /\ count'[w][p].update <= clock'
      <4>1. CASE w = u
        BY <1>1, <2>1, <2>3, <4>1, NoCountersWell DEF PeerTypes
      <4>2. CASE w # u
        BY <1>1, <2>2, <2>3, <3>1, <4>2 DEF Steady
      <4> QED
        BY <4>1, <4>2
    <3> QED
      BY <3>1 DEF Steady
  <2> QED
    BY <2>4, <2>5, <2>6 DEF Counting
<1>5. ASSUME NEW u \in User, Restart(u)
      PROVE  Counting'
  <2>1. \A w \in User, p \in Protocol : meter'[w][p] \in {meter[w][p], 0}
    BY <1>1, <1>5 DEF Restart, PeerTypes
  <2>2. "restarted" \in mishaps' /\ UNCHANGED <<clock, users, passed, seen, count>>
    BY <1>5 DEF Restart, Mishap, quotaVars
  <2>3. PeerTypes'
    BY <1>1, <1>5, <2>2 DEF Restart, PeerTypes
  <2>4. \A w \in User, p \in Protocol : Growth(w, p)' <= Growth(w, p) /\ Growth(w, p)' \in Nat
                                         /\ Growth(w, p) \in Nat
    BY <1>1, <2>1, <2>2 DEF Growth
  <2>5. NotTwice'
    BY <1>1, <2>2, <2>4 DEF NotTwice
  <2>6. Steady'
    BY <2>2 DEF Steady
  <2> QED
    BY <2>3, <2>5, <2>6 DEF Counting
<1>6. ASSUME NEW u \in User, NEW p \in Protocol, Pass(u, p)
      PROVE  Counting'
  <2>1. UNCHANGED <<clock, users, seen, count, mishaps>>
    BY <1>6 DEF Pass, quotaVars
  <2>2. PeerTypes'
    BY <1>1, <1>6, <2>1 DEF Pass, PeerTypes
  <2>3. \A w \in User, q \in Protocol :
           \/ meter'[w][q] = meter[w][q] /\ passed'[w][q] = passed[w][q]
           \/ meter'[w][q] = meter[w][q] + 1 /\ passed'[w][q] = passed[w][q] + 1
    BY <1>1, <1>6 DEF Pass, PeerTypes
  <2>4. NotTwice'
    <3>1. ASSUME NEW w \in User, NEW q \in Protocol
          PROVE  count'[w][q].total + Growth(w, q)' <= passed'[w][q]
      <4>1. /\ count[w][q].total + Growth(w, q) <= passed[w][q]
            /\ count[w][q].total \in Int
            /\ {meter[w][q], seen[w][q], passed[w][q]} \subseteq Nat
        BY <1>1 DEF NotTwice
      <4>2. count'[w][q] = count[w][q] /\ seen'[w][q] = seen[w][q]
        BY <2>1
      <4> QED
        BY <2>3, <4>1, <4>2 DEF Growth
    <3> QED
      BY <3>1 DEF NotTwice
  <2>5. Steady'
    BY <1>1, <2>1, <2>3 DEF Steady
  <2> QED
    BY <2>2, <2>4, <2>5 DEF Counting
<1>7. ASSUME Advance
      PROVE  Counting'
  <2>1. clock' \in Nat /\ clock <= clock'
    BY <1>1, <1>7, BoundAssumption DEF Advance, PeerTypes
  <2> QED
    BY <1>1, <1>2, <1>7, <2>1 DEF Advance, endpointVars, quotaVars, PeerTypes
<1>8. ASSUME ClockBack
      PROVE  Counting'
  <2>1. clock' \in Nat /\ "set back" \in mishaps' /\ mishaps \subseteq mishaps'
    <3>1. PICK t \in 0 .. clock - 1 : clock' = t
      BY <1>8 DEF ClockBack
    <3>2. clock' \in Nat
      BY <1>1, <3>1 DEF PeerTypes
    <3> QED
      BY <1>8, <3>2 DEF ClockBack, Mishap
  <2> QED
    BY <1>1, <1>2, <1>8, <2>1 DEF ClockBack, endpointVars, quotaVars, PeerTypes
<1>9. ASSUME UNCHANGED vars
      PROVE  Counting'
  BY <1>1, <1>2, <1>9 DEF vars, endpointVars, quotaVars, PeerTypes
<1> QED
  BY <1>3, <1>4, <1>5, <1>6, <1>7, <1>8, <1>9 DEF Other

-----------------------------------------------------------------------------
(* The theorems.                                                           *)

\* All that the steps keep: what is counted and still to be counted (Counting), that the
\* counters add up (Sums), what the counters of the brigade hold (Periods) and when
\* quotas are reset (Quotas).
IInv == Counting /\ Sums /\ Periods /\ Quotas

\* The inductive invariant.
THEOREM Invariance == Spec => []IInv
<1>1. Init => IInv
  BY CountingInit, SumsInit, PeriodsInit, QuotasInit DEF IInv
<1>2. IInv /\ [Next]_vars => IInv'
  <2> SUFFICES ASSUME IInv, [Next]_vars
               PROVE  IInv'
    OBVIOUS
  <2>1. CASE Other
    BY <2>1, CountingOther, SumsOther, PeriodsOther, QuotasOther DEF IInv
  <2>2. ASSUME NEW listed \in SUBSET (users \X Protocol), Collect(listed)
        PROVE  IInv'
    BY <2>2, CountingCollect, SumsCollect, PeriodsCollect, QuotasCollect DEF IInv
  <2> QED
    BY <2>1, <2>2 DEF Next, Other
<1> QED
  BY <1>1, <1>2, PTL DEF Spec

\* Every variable keeps its type; in particular no counter is ever below zero and no
\* quota above its limit.
THEOREM TypeCorrect == Spec => []TypeOK
<1>1. IInv => TypeOK
  BY DEF IInv, Sums, Types
<1> QED
  BY <1>1, Invariance, PTL

\* handleTrafficStat and incDateSwitchRelated count no traffic twice, whatever peers
\* are added again and left out of answers and whatever clock is set; and they count all
\* that was seen, as long as nothing restarts and no clock is set back.
THEOREM TrafficIsCountedOnce == Spec => []CountedOnce
<1>1. IInv => CountedOnce
  <2> SUFFICES ASSUME IInv, NEW u \in users, NEW p \in Protocol
               PROVE  /\ count[u][p].total <= passed[u][p]
                      /\ mishaps \subseteq {"deleted"} => count[u][p].total = seen[u][p]
    BY DEF CountedOnce
  <2>1. u \in User
    BY DEF IInv, Counting, PeerTypes
  <2>2. /\ count[u][p].total + Growth(u, p) <= passed[u][p]
        /\ mishaps \subseteq {"deleted"} => count[u][p].total = seen[u][p]
    BY <2>1 DEF IInv, Counting, NotTwice, Steady
  <2>3. {meter[u][p], seen[u][p], passed[u][p]} \subseteq Nat /\ count[u][p] \in Counters
    BY <2>1 DEF IInv, Counting, PeerTypes
  <2>4. count[u][p].total \in Int
    BY <2>3 DEF Counters, Fields
  <2>5. Growth(u, p) \in Nat
    BY <2>3 DEF Growth
  <2> QED
    BY <2>2, <2>3, <2>4, <2>5
<1> QED
  BY <1>1, Invariance, PTL

\* incDateSwitchRelated, called for each protocol, user and brigade by itself: in every
\* period a user's counters are the sum of those of his protocols and the brigade's are
\* no less than the sum of its users'.
THEOREM SumsAddUp == Spec => []CountersAddUp
<1>1. IInv => CountersAddUp
  BY SumsAreSums DEF IInv
<1> QED
  BY <1>1, Invariance, PTL

\* incDateSwitchRelated: after a gap of any length the brigade's daily, weekly, monthly
\* and yearly counters are what was counted in the period of the last collection.
THEOREM PeriodsAreExact == Spec => []PeriodsExact
<1>1. IInv => PeriodsExact
  BY DEF IInv, Periods
<1> QED
  BY <1>1, Invariance, PTL

\* incDateSwitchRelated: prevDay is what was counted the day before, unless AddDate finds
\* another month than the next or days of two months have one number.
THEOREM YesterdayIsKnown == Spec => []YesterdayKnown
<1>1. IInv => YesterdayKnown
  BY DEF IInv, Periods
<1> QED
  BY <1>1, Invariance, PTL

\* mergeStats: a quota is charged with no less than the traffic of the month.
THEOREM QuotasAreCharged == Spec => []QuotaCharged
<1>1. IInv => QuotaCharged
  BY DEF IInv, Quotas
<1> QED
  BY <1>1, Invariance, PTL

=============================================================================
