--------------------------- MODULE MessagesProofs ---------------------------
(***************************************************************************)
(* TLAPS proofs about Messages, for any limits, times to live and number   *)
(* of messages.                                                            *)
(***************************************************************************)
EXTENDS Messages, SequenceTheorems, FiniteSetTheorems, WellFoundedInduction, TLAPS

-----------------------------------------------------------------------------
(* Parts of a list.                                                        *)

\* A set of numbers with 0, and with the successor of each, has all.
LEMMA NumberInduction ==
    ASSUME NEW Good \in SUBSET Nat, 0 \in Good, \A n \in Good : n + 1 \in Good
    PROVE  Good = Nat
<1> DEFINE Less == OpToRel(<, Nat)
           Rest == Nat \ Good
<1> SUFFICES ASSUME Rest # {}
             PROVE  FALSE
  OBVIOUS
<1>1. PICK n \in Rest : \A m \in Rest : <<m, n>> \notin Less
  <2>1. IsWellFoundedOn(Less, Nat) /\ Rest \subseteq Nat
    BY NatLessThanWellFounded
  <2> HIDE DEF Less, Rest
  <2> QED
    BY <2>1, WFMin
<1>2. \A m \in Rest : ~(m < n)
  BY <1>1 DEF OpToRel
<1>3. n \in Nat /\ n \notin Good /\ \A m \in Nat : m < n => m \in Good
  BY <1>1, <1>2
<1>4. n # 0
  BY <1>3
<1>5. n - 1 \in Nat /\ n - 1 < n /\ (n - 1) + 1 = n
  BY <1>3, <1>4
<1> QED
  BY <1>3, <1>5

\* r has the messages of s at the positions p[1], p[2], ..., in their order.
Picks(r, s, p) ==
    /\ p \in [1 .. Len(r) -> 1 .. Len(s)]
    /\ \A i, j \in 1 .. Len(r) : i < j => p[i] < p[j]
    /\ \A i \in 1 .. Len(r) : r[i] = s[p[i]]

PartOf(r, s) == \E p : Picks(r, s, p)

\* Every list is a part of itself.
LEMMA PartOfItself ==
    ASSUME NEW s \in Seq(Message)
    PROVE  PartOf(s, s)
<1> DEFINE p == [i \in 1 .. Len(s) |-> i]
<1>1. Len(s) \in Nat
  BY LenProperties
<1>2. Picks(s, s, p)
  BY <1>1 DEF Picks
<1> QED
  BY <1>2 DEF PartOf

\* A part of a part is a part.
LEMMA PartOfPart ==
    ASSUME NEW r \in Seq(Message), NEW s \in Seq(Message), NEW t \in Seq(Message),
           PartOf(r, s), PartOf(s, t)
    PROVE  PartOf(r, t)
<1>1. PICK p : Picks(r, s, p)
  BY DEF PartOf
<1>2. PICK q : Picks(s, t, q)
  BY DEF PartOf
<1> DEFINE o == [i \in 1 .. Len(r) |-> q[p[i]]]
<1>3. \A i \in 1 .. Len(r) : p[i] \in 1 .. Len(s) /\ o[i] = q[p[i]] /\ q[p[i]] \in 1 .. Len(t)
  BY <1>1, <1>2 DEF Picks
<1>4. \A i, j \in 1 .. Len(r) : i < j => o[i] < o[j]
  BY <1>1, <1>2, <1>3 DEF Picks
<1>5. \A i \in 1 .. Len(r) : r[i] = t[o[i]]
  BY <1>1, <1>2, <1>3 DEF Picks
<1>6. o \in [1 .. Len(r) -> 1 .. Len(t)]
  BY <1>3
<1> HIDE DEF o
<1> QED
  BY <1>4, <1>5, <1>6 DEF PartOf, Picks

\* A message of a part is no further from either end of it than from that of the list.
LEMMA PartIsShorter ==
    ASSUME NEW r \in Seq(Message), NEW s \in Seq(Message), NEW p, Picks(r, s, p)
    PROVE  /\ \A i \in 1 .. Len(r) : i <= p[i] /\ (p[i] = Len(s) => i = Len(r))
           /\ Len(r) <= Len(s)
<1>1. Len(r) \in Nat /\ Len(s) \in Nat
  BY LenProperties
<1>2. /\ \A i \in 1 .. Len(r) : p[i] \in Int /\ 1 <= p[i] /\ p[i] <= Len(s)
      /\ \A i, j \in 1 .. Len(r) : i < j => p[i] < p[j]
  BY <1>1 DEF Picks
<1> DEFINE Good == {d \in Nat : d + 1 <= Len(r) => d + 1 <= p[d + 1]}
<1>3. 0 \in Good
  BY <1>1, <1>2
<1>4. ASSUME NEW d \in Good
      PROVE  d + 1 \in Good
  <2> SUFFICES ASSUME (d + 1) + 1 <= Len(r)
               PROVE  (d + 1) + 1 <= p[(d + 1) + 1]
    OBVIOUS
  <2>1. d + 1 \in 1 .. Len(r) /\ (d + 1) + 1 \in 1 .. Len(r) /\ d + 1 < (d + 1) + 1
    BY <1>1
  <2>2. d + 1 <= p[d + 1] /\ p[d + 1] < p[(d + 1) + 1]
    BY <1>2, <2>1
  <2> QED
    BY <1>2, <2>1, <2>2
<1>5. Good = Nat
  <2>1. Good \in SUBSET Nat
    OBVIOUS
  <2> HIDE DEF Good
  <2> QED
    BY <1>3, <1>4, <2>1, NumberInduction
<1>5a. \A d \in Nat : d + 1 <= Len(r) => d + 1 <= p[d + 1]
  <2>1. \A d \in Good : d + 1 <= Len(r) => d + 1 <= p[d + 1]
    OBVIOUS
  <2> HIDE DEF Good
  <2> QED
    BY <1>5, <2>1
<1> HIDE DEF Good
<1>6. ASSUME NEW i \in 1 .. Len(r)
      PROVE  i <= p[i]
  <2>1. i - 1 \in Nat /\ (i - 1) + 1 = i /\ i <= Len(r)
    BY <1>1
  <2>2. (i - 1) + 1 <= Len(r) => (i - 1) + 1 <= p[(i - 1) + 1]
    BY <1>5a, <2>1
  <2> QED
    BY <2>1, <2>2
<1>7. ASSUME NEW i \in 1 .. Len(r), p[i] = Len(s)
      PROVE  i = Len(r)
  <2>1. i # Len(r) => i + 1 \in 1 .. Len(r) /\ i < i + 1
    BY <1>1
  <2> QED
    BY <1>1, <1>2, <1>7, <2>1
<1>8. Len(r) <= Len(s)
  <2>1. Len(r) # 0 => Len(r) \in 1 .. Len(r)
    BY <1>1
  <2> QED
    BY <1>1, <1>2, <1>6, <2>1
<1> QED
  BY <1>6, <1>7, <1>8

\* SubSeq makes a part.
LEMMA SubSeqIsPart ==
    ASSUME NEW s \in Seq(Message), NEW m \in 1 .. Len(s) + 1, NEW n \in 0 .. Len(s), m <= n + 1
    PROVE  /\ SubSeq(s, m, n) \in Seq(Message)
           /\ Len(SubSeq(s, m, n)) = n - m + 1
           /\ \A i \in 1 .. n - m + 1 : SubSeq(s, m, n)[i] = s[m + i - 1]
           /\ PartOf(SubSeq(s, m, n), s)
<1>1. Len(s) \in Nat /\ m \in Int /\ n \in Int /\ \A i \in m .. n : s[i] \in Message
  <2>1. Len(s) \in Nat
    BY LenProperties
  <2>2. \A i \in m .. n : i \in 1 .. Len(s)
    BY <2>1
  <2> QED
    BY <2>1, <2>2, ElementOfSeq
<1>2. /\ SubSeq(s, m, n) \in Seq(Message)
      /\ Len(SubSeq(s, m, n)) = n - m + 1
      /\ \A i \in 1 .. n - m + 1 : SubSeq(s, m, n)[i] = s[m + i - 1]
  BY <1>1, SubSeqProperties
<1> DEFINE p == [i \in 1 .. n - m + 1 |-> m + i - 1]
<1>3. Picks(SubSeq(s, m, n), s, p)
  BY <1>1, <1>2 DEF Picks
<1> QED
  BY <1>2, <1>3 DEF PartOf

\* RemoveAt makes a part that has one message less.
LEMMA RemoveIsPart ==
    ASSUME NEW s \in Seq(Message), NEW k \in 1 .. Len(s)
    PROVE  /\ RemoveAt(s, k) \in Seq(Message)
           /\ Len(RemoveAt(s, k)) = Len(s) - 1
           /\ \A i \in 1 .. Len(s) - 1 : RemoveAt(s, k)[i] = IF i < k THEN s[i] ELSE s[i + 1]
           /\ PartOf(RemoveAt(s, k), s)
<1> DEFINE a == SubSeq(s, 1, k - 1)
           b == SubSeq(s, k + 1, Len(s))
<1>1. Len(s) \in Nat
  BY LenProperties
<1>2. /\ a \in Seq(Message) /\ Len(a) = k - 1
      /\ \A i \in 1 .. k - 1 : a[i] = s[i]
  <2>1. /\ 1 \in 1 .. Len(s) + 1 /\ k - 1 \in 0 .. Len(s) /\ 1 <= (k - 1) + 1 /\ (k - 1) - 1 + 1 = k - 1
        /\ \A i \in 1 .. k - 1 : 1 + i - 1 = i
    BY <1>1
  <2> HIDE DEF a
  <2>2. /\ SubSeq(s, 1, k - 1) \in Seq(Message)
        /\ Len(SubSeq(s, 1, k - 1)) = (k - 1) - 1 + 1
        /\ \A i \in 1 .. (k - 1) - 1 + 1 : SubSeq(s, 1, k - 1)[i] = s[1 + i - 1]
    BY <2>1, SubSeqIsPart
  <2> QED
    BY <2>1, <2>2 DEF a
<1>3. /\ b \in Seq(Message) /\ Len(b) = Len(s) - k
      /\ \A i \in 1 .. Len(s) - k : b[i] = s[k + i]
  <2>1. /\ k + 1 \in 1 .. Len(s) + 1 /\ Len(s) \in 0 .. Len(s) /\ k + 1 <= Len(s) + 1
        /\ Len(s) - (k + 1) + 1 = Len(s) - k
        /\ \A i \in 1 .. Len(s) - k : (k + 1) + i - 1 = k + i
    BY <1>1
  <2>2. /\ SubSeq(s, k + 1, Len(s)) \in Seq(Message)
        /\ Len(SubSeq(s, k + 1, Len(s))) = Len(s) - (k + 1) + 1
        /\ \A i \in 1 .. Len(s) - (k + 1) + 1 : SubSeq(s, k + 1, Len(s))[i] = s[(k + 1) + i - 1]
    BY <2>1, SubSeqIsPart
  <2> QED
    BY <2>1, <2>2
<1>4. RemoveAt(s, k) = a \o b
  BY DEF RemoveAt
<1> HIDE DEF a, b
<1>5. /\ a \o b \in Seq(Message) /\ Len(a \o b) = Len(a) + Len(b)
      /\ \A i \in 1 .. Len(a) + Len(b) : (a \o b)[i] = IF i <= Len(a) THEN a[i] ELSE b[i - Len(a)]
  BY <1>2, <1>3, ConcatProperties
<1>6. Len(a) + Len(b) = Len(s) - 1
  BY <1>1, <1>2, <1>3
<1>7. ASSUME NEW i \in 1 .. Len(s) - 1
      PROVE  (a \o b)[i] = IF i < k THEN s[i] ELSE s[i + 1]
  <2>1. CASE i < k
    <3>1. i \in 1 .. k - 1 /\ i <= Len(a) /\ i \in 1 .. Len(a) + Len(b)
      BY <1>1, <1>2, <1>6, <2>1
    <3> QED
      BY <1>2, <1>5, <2>1, <3>1
  <2>2. CASE ~(i < k)
    <3>1. /\ i - (k - 1) \in 1 .. Len(s) - k /\ ~(i <= Len(a)) /\ i \in 1 .. Len(a) + Len(b)
          /\ k + (i - (k - 1)) = i + 1
      BY <1>1, <1>2, <1>6, <2>2
    <3> QED
      BY <1>2, <1>3, <1>5, <2>2, <3>1
  <2> QED
    BY <2>1, <2>2
<1> DEFINE p == [i \in 1 .. Len(s) - 1 |-> IF i < k THEN i ELSE i + 1]
<1>8. p \in [1 .. Len(s) - 1 -> 1 .. Len(s)] /\ \A i, j \in 1 .. Len(s) - 1 : i < j => p[i] < p[j]
  BY <1>1
<1>9. \A i \in 1 .. Len(s) - 1 : (a \o b)[i] = s[p[i]]
  BY <1>7
<1> HIDE DEF p
<1>10. Picks(a \o b, s, p)
  BY <1>5, <1>6, <1>8, <1>9 DEF Picks
<1> QED
  BY <1>4, <1>5, <1>6, <1>7, <1>10 DEF PartOf

\* h is what n steps of F make of base, one after the other.
IsRun(h, n, S, base, F) ==
    h \in [0 .. n -> S] /\ h[0] = base /\ \A k \in 1 .. n : h[k] = F[<<k, h[k - 1]>>]

\* Every recursion over the first n numbers has a solution.
LEMMA RecursionExists ==
    ASSUME NEW S, NEW n \in Nat, NEW base \in S, NEW F \in [(1 .. n) \X S -> S]
    PROVE  \E h : IsRun(h, n, S, base, F)
<1> DEFINE Good == {m \in Nat : m <= n =>
                      \E h \in [0 .. m -> S] :
                        h[0] = base /\ \A k \in 1 .. m : h[k] = F[<<k, h[k - 1]>>]}
<1>1. 0 \in Good
  <2> DEFINE h == [k \in 0 .. 0 |-> base]
  <2>1. h \in [0 .. 0 -> S] /\ h[0] = base /\ \A k \in 1 .. 0 : h[k] = F[<<k, h[k - 1]>>]
    OBVIOUS
  <2> HIDE DEF h
  <2> QED
    BY <2>1
<1>2. ASSUME NEW m \in Good
      PROVE  m + 1 \in Good
  <2> SUFFICES ASSUME m + 1 <= n
               PROVE  \E h \in [0 .. m + 1 -> S] :
                        h[0] = base /\ \A k \in 1 .. m + 1 : h[k] = F[<<k, h[k - 1]>>]
    OBVIOUS
  <2>1. m \in Nat /\ m <= n /\ m + 1 \in 1 .. n /\ m \in 0 .. m
    OBVIOUS
  <2>2. PICK h \in [0 .. m -> S] : h[0] = base /\ \A k \in 1 .. m : h[k] = F[<<k, h[k - 1]>>]
    BY <2>1
  <2> HIDE DEF Good
  <2> DEFINE g == [k \in 0 .. m + 1 |-> IF k = m + 1 THEN F[<<m + 1, h[m]>>] ELSE h[k]]
  <2>3. h[m] \in S /\ F[<<m + 1, h[m]>>] \in S
    BY <2>1, <2>2
  <2>4. \A k \in 0 .. m : g[k] = h[k] /\ g[k] \in S
    BY <2>1, <2>2
  <2>5. g[m + 1] = F[<<m + 1, h[m]>>]
    BY <2>1
  <2>6. g \in [0 .. m + 1 -> S]
    BY <2>1, <2>2, <2>3
  <2> HIDE DEF g
  <2>7. g[0] = base
    BY <2>1, <2>2, <2>4
  <2>8. ASSUME NEW k \in 1 .. m + 1
        PROVE  g[k] = F[<<k, g[k - 1]>>]
    <3>1. CASE k = m + 1
      <4>1. k - 1 = m
        BY <2>1, <3>1
      <4> QED
        BY <2>1, <2>4, <2>5, <3>1, <4>1
    <3>2. CASE k # m + 1
      <4>1. k \in 1 .. m /\ k \in 0 .. m /\ k - 1 \in 0 .. m
        BY <2>1, <3>2
      <4> QED
        BY <2>2, <2>4, <4>1
    <3> QED
      BY <3>1, <3>2
  <2> QED
    BY <2>6, <2>7, <2>8
<1>3. Good = Nat
  <2>1. Good \in SUBSET Nat
    OBVIOUS
  <2> HIDE DEF Good
  <2> QED
    BY <1>1, <1>2, <2>1, NumberInduction
<1>4. n \in Good /\ n <= n
  BY <1>3
<1>5. \E h \in [0 .. n -> S] : h[0] = base /\ \A k \in 1 .. n : h[k] = F[<<k, h[k - 1]>>]
  BY <1>4
<1> QED
  BY <1>5 DEF IsRun

-----------------------------------------------------------------------------
(* Func.Filter.                                                            *)

\* The recursion of Kept.
IsKept(h, ms, P) ==
    h = [n \in 0 .. Len(ms) |->
           IF n = 0 THEN <<>>
           ELSE IF n \in P THEN Append(h[n - 1], ms[n]) ELSE h[n - 1]]

\* Kept takes the last list of its recursion.
LEMMA KeptUnfolded ==
    ASSUME NEW ms, NEW P
    PROVE  Kept(ms, P) = (CHOOSE h : IsKept(h, ms, P))[Len(ms)]
  BY DEF Kept, IsKept

\* The recursion has a solution.
LEMMA KeptExists ==
    ASSUME NEW ms \in Seq(Message), NEW P
    PROVE  \E h : IsKept(h, ms, P)
<1> DEFINE N == Len(ms)
           S == Seq(Message)
           F == [x \in (1 .. N) \X S |->
                   IF x[1] \in P THEN Append(x[2], ms[x[1]]) ELSE x[2]]
<1>1. N \in Nat /\ <<>> \in S
  BY LenProperties, EmptySeq
<1>2. \A i \in 1 .. N : ms[i] \in Message
  BY ElementOfSeq
<1>3. \A x \in (1 .. N) \X S : Append(x[2], ms[x[1]]) \in S
  BY <1>2, AppendProperties
<1>4. F \in [(1 .. N) \X S -> S]
  BY <1>3
<1>5. \A k \in 1 .. N, s \in S : F[<<k, s>>] = IF k \in P THEN Append(s, ms[k]) ELSE s
  OBVIOUS
<1> HIDE DEF N, S, F
<1>6. PICK h \in [0 .. N -> S] : h[0] = <<>> /\ \A k \in 1 .. N : h[k] = F[<<k, h[k - 1]>>]
  <2>1. N \in Nat
    BY <1>1
  <2>2. \E h : IsRun(h, N, S, <<>>, F)
    BY <1>1, <1>4, <2>1, RecursionExists
  <2> QED
    BY <2>2 DEF IsRun
<1>7. ASSUME NEW n \in 0 .. N
      PROVE  h[n] = IF n = 0 THEN <<>>
                    ELSE IF n \in P THEN Append(h[n - 1], ms[n]) ELSE h[n - 1]
  <2>1. n # 0 => n \in 1 .. N /\ n - 1 \in 0 .. N
    BY <1>1
  <2> QED
    BY <1>5, <1>6, <2>1
<1>8. h = [n \in 0 .. N |-> h[n]]
  BY <1>6
<1>9. h = [n \in 0 .. N |-> IF n = 0 THEN <<>>
                            ELSE IF n \in P THEN Append(h[n - 1], ms[n]) ELSE h[n - 1]]
  BY <1>7, <1>8
<1> QED
  BY <1>9 DEF N, IsKept

\* r has the messages of ms at those of the first n positions that are in P.
FilterOfFirst(n, r, ms, P) ==
    /\ r \in Seq(Message)
    /\ \E p : /\ p \in [1 .. Len(r) -> 1 .. n]
              /\ \A i, j \in 1 .. Len(r) : i < j => p[i] < p[j]
              /\ \A i \in 1 .. Len(r) : r[i] = ms[p[i]]
              /\ {p[i] : i \in 1 .. Len(r)} = P \cap (1 .. n)

\* A filter makes the part with exactly the messages it keeps.
LEMMA KeptIsPart ==
    ASSUME NEW ms \in Seq(Message), NEW P \in SUBSET DOMAIN ms
    PROVE  /\ Kept(ms, P) \in Seq(Message)
           /\ \E p : /\ Picks(Kept(ms, P), ms, p)
                     /\ {p[i] : i \in 1 .. Len(Kept(ms, P))} = P
<1> DEFINE h == CHOOSE g : IsKept(g, ms, P)
           N == Len(ms)
           Good == {n \in Nat : n <= N => FilterOfFirst(n, h[n], ms, P)}
<1>1. N \in Nat /\ DOMAIN ms = 1 .. N /\ \A i \in 1 .. N : ms[i] \in Message
  BY LenProperties, ElementOfSeq
<1>2. /\ h[0] = <<>>
      /\ \A n \in 1 .. N : h[n] = IF n \in P THEN Append(h[n - 1], ms[n]) ELSE h[n - 1]
  <2>1. IsKept(h, ms, P)
    BY KeptExists
  <2> HIDE DEF h
  <2>2. h = [n \in 0 .. N |-> IF n = 0 THEN <<>>
                              ELSE IF n \in P THEN Append(h[n - 1], ms[n]) ELSE h[n - 1]]
    BY <2>1 DEF IsKept
  <2>3. \A n \in 1 .. N : n \in 0 .. N /\ n # 0
    BY <1>1
  <2>4. 0 \in 0 .. N
    BY <1>1
  <2> QED
    BY <2>2, <2>3, <2>4
<1>3. Kept(ms, P) = h[N]
  BY KeptUnfolded
<1> HIDE DEF h, N
<1>4. 0 \in Good
  <2>1. h[0] \in Seq(Message) /\ Len(h[0]) = 0
    BY <1>2, EmptySeq
  <2> DEFINE p == [i \in 1 .. 0 |-> i]
  <2>2. /\ p \in [1 .. 0 -> 1 .. 0] /\ \A i, j \in 1 .. 0 : i < j => p[i] < p[j]
        /\ \A i \in 1 .. 0 : h[0][i] = ms[p[i]]
        /\ {p[i] : i \in 1 .. 0} = P \cap (1 .. 0)
    OBVIOUS
  <2> HIDE DEF p
  <2>3. FilterOfFirst(0, h[0], ms, P)
    BY <2>1, <2>2 DEF FilterOfFirst
  <2> QED
    BY <2>3
<1>5. ASSUME NEW n \in Good
      PROVE  n + 1 \in Good
  <2> SUFFICES ASSUME n + 1 <= N
               PROVE  FilterOfFirst(n + 1, h[n + 1], ms, P)
    <3>1. n + 1 \in Nat
      OBVIOUS
    <3> QED
      BY <3>1
  <2>1. n \in Nat /\ n <= N /\ n + 1 \in 1 .. N /\ (n + 1) - 1 = n
    BY <1>1
  <2>2. FilterOfFirst(n, h[n], ms, P)
    BY <2>1
  <2> HIDE DEF Good
  <2>3. h[n] \in Seq(Message) /\ Len(h[n]) \in Nat
    BY <2>2, LenProperties DEF FilterOfFirst
  <2>4. PICK p : /\ p \in [1 .. Len(h[n]) -> 1 .. n]
                 /\ \A i, j \in 1 .. Len(h[n]) : i < j => p[i] < p[j]
                 /\ \A i \in 1 .. Len(h[n]) : h[n][i] = ms[p[i]]
                 /\ {p[i] : i \in 1 .. Len(h[n])} = P \cap (1 .. n)
    BY <2>2 DEF FilterOfFirst
  <2>5. CASE n + 1 \notin P
    <3>1. h[n + 1] = h[n]
      BY <1>2, <2>1, <2>5
    <3>2. P \cap (1 .. n + 1) = P \cap (1 .. n) /\ p \in [1 .. Len(h[n]) -> 1 .. n + 1]
      <4>1. \A i \in 1 .. n + 1 : i = n + 1 \/ i \in 1 .. n
        BY <2>1
      <4>2. \A i \in 1 .. n : i \in 1 .. n + 1
        BY <2>1
      <4> QED
        BY <2>4, <2>5, <4>1, <4>2
    <3> QED
      BY <2>3, <2>4, <3>1, <3>2 DEF FilterOfFirst
  <2>6. CASE n + 1 \in P
    <3> DEFINE l == Len(h[n])
               q == [i \in 1 .. l + 1 |-> IF i = l + 1 THEN n + 1 ELSE p[i]]
    <3>1. h[n + 1] = Append(h[n], ms[n + 1])
      BY <1>2, <2>1, <2>6
    <3>2. /\ h[n + 1] \in Seq(Message) /\ Len(h[n + 1]) = l + 1
          /\ \A i \in 1 .. l : h[n + 1][i] = h[n][i]
          /\ h[n + 1][l + 1] = ms[n + 1]
      BY <1>1, <2>1, <2>3, <3>1, AppendProperties
    <3>3. /\ \A i \in 1 .. l : q[i] = p[i] /\ p[i] \in 1 .. n /\ i \in 1 .. l + 1
          /\ q[l + 1] = n + 1 /\ l + 1 \in 1 .. l + 1
          /\ \A i \in 1 .. l + 1 : i \in 1 .. l \/ i = l + 1
          /\ DOMAIN q = 1 .. l + 1 /\ q = [i \in 1 .. l + 1 |-> q[i]]
      BY <2>1, <2>3, <2>4
    <3> HIDE DEF l, q
    <3>4. \A i \in 1 .. l + 1 : q[i] \in 1 .. n + 1
      <4>1. n + 1 \in 1 .. n + 1 /\ \A i \in 1 .. n : i \in 1 .. n + 1
        BY <2>1
      <4> QED
        BY <3>3, <4>1
    <3>5. \A i, j \in 1 .. l + 1 : i < j => q[i] < q[j]
      <4>1. l \in Nat
        BY <2>3 DEF l
      <4>2. \A i, j \in 1 .. l : i < j => p[i] < p[j]
        BY <2>4 DEF l
      <4>3. \A i \in 1 .. l : p[i] \in Int /\ p[i] < n + 1
        <5>1. \A m \in 1 .. n : m \in Int /\ m < n + 1
          BY <2>1
        <5> QED
          BY <3>3, <5>1
      <4>4. \A i, j \in 1 .. l + 1 : i < j => i \in 1 .. l /\ (j \in 1 .. l \/ j = l + 1)
        BY <4>1
      <4> QED
        BY <3>3, <4>2, <4>3, <4>4
    <3>6. \A i \in 1 .. l + 1 : h[n + 1][i] = ms[q[i]]
      BY <2>4, <3>2, <3>3 DEF l
    <3>7. {q[i] : i \in 1 .. l + 1} = P \cap (1 .. n + 1)
      <4>1. {p[i] : i \in 1 .. l} = P \cap (1 .. n)
        BY <2>4 DEF l
      <4>2. {q[i] : i \in 1 .. l + 1} = {p[i] : i \in 1 .. l} \cup {n + 1}
        BY <3>3
      <4>3. P \cap (1 .. n + 1) = (P \cap (1 .. n)) \cup {n + 1}
        <5>1. \A i \in 1 .. n + 1 : i = n + 1 \/ i \in 1 .. n
          BY <2>1
        <5>2. n + 1 \in 1 .. n + 1 /\ \A i \in 1 .. n : i \in 1 .. n + 1
          BY <2>1
        <5> QED
          BY <2>6, <5>1, <5>2
      <4> QED
        BY <4>1, <4>2, <4>3
    <3>8. q \in [1 .. l + 1 -> 1 .. n + 1]
      BY <3>3, <3>4
    <3> QED
      BY <3>2, <3>5, <3>6, <3>7, <3>8 DEF FilterOfFirst
  <2> QED
    BY <2>5, <2>6
<1>6. Good = Nat
  <2>1. Good \in SUBSET Nat
    OBVIOUS
  <2> HIDE DEF Good
  <2> QED
    BY <1>4, <1>5, <2>1, NumberInduction
<1>7. FilterOfFirst(N, h[N], ms, P)
  <2>1. \A n \in Good : n <= N => FilterOfFirst(n, h[n], ms, P)
    OBVIOUS
  <2>2. N <= N
    BY <1>1
  <2> HIDE DEF Good
  <2> QED
    BY <1>1, <1>6, <2>1, <2>2
<1>8. P \cap (1 .. N) = P
  BY <1>1
<1> DEFINE r == h[N]
<1>9. r \in Seq(Message) /\ r = Kept(ms, P)
  BY <1>3, <1>7 DEF FilterOfFirst
<1>10. PICK p : /\ p \in [1 .. Len(r) -> 1 .. N]
                /\ \A i, j \in 1 .. Len(r) : i < j => p[i] < p[j]
                /\ \A i \in 1 .. Len(r) : r[i] = ms[p[i]]
                /\ {p[i] : i \in 1 .. Len(r)} = P
  <2> HIDE DEF r
  <2>1. FilterOfFirst(N, r, ms, P)
    BY <1>7 DEF r
  <2> QED
    BY <1>8, <2>1 DEF FilterOfFirst
<1> HIDE DEF r
<1>11. Picks(r, ms, p)
  BY <1>10 DEF N, Picks
<1>12. \E q : Picks(r, ms, q) /\ {q[i] : i \in 1 .. Len(r)} = P
  BY <1>10, <1>11
<1> QED
  BY <1>9, <1>12

-----------------------------------------------------------------------------
(* The trimming by position.                                               *)

\* A set of numbers that is not empty has a least.
LEMMA MinIsLeast ==
    ASSUME NEW S \in SUBSET Nat, S # {}
    PROVE  Min(S) \in S /\ \A y \in S : Min(S) <= y
<1> DEFINE Less == OpToRel(<, Nat)
<1>1. PICK n \in S : \A m \in S : <<m, n>> \notin Less
  <2>1. IsWellFoundedOn(Less, Nat)
    BY NatLessThanWellFounded
  <2> HIDE DEF Less
  <2> QED
    BY <2>1, WFMin
<1>2. \A m \in S : ~(m < n)
  BY <1>1 DEF OpToRel
<1>3. \A m \in S : n <= m
  BY <1>2
<1> QED
  BY <1>3 DEF Min

\* A set of the numbers up to n that is not empty has a greatest.
LEMMA MaxIsGreatest ==
    ASSUME NEW n \in Nat, NEW S \in SUBSET (1 .. n), S # {}
    PROVE  Max(S) \in S /\ \A y \in S : y <= Max(S)
<1> DEFINE T == {n - i : i \in S}
<1>1. T \in SUBSET Nat /\ T # {}
  <2>1. \A i \in S : i \in Int /\ n - i \in Nat
    OBVIOUS
  <2> QED
    BY <2>1
<1>2. PICK x \in T : \A y \in T : x <= y
  <2> HIDE DEF T
  <2> QED
    BY <1>1, MinIsLeast
<1>3. PICK i \in S : x = n - i
  OBVIOUS
<1> HIDE DEF T
<1>4. \A j \in S : n - i <= n - j
  <2>1. \A j \in S : n - j \in T
    BY DEF T
  <2> QED
    BY <1>2, <1>3, <2>1
<1>5. ASSUME NEW j \in S
      PROVE  j <= i
  <2>1. i \in Int /\ j \in Int
    OBVIOUS
  <2>2. n - i <= n - j
    BY <1>4
  <2> QED
    BY <2>1, <2>2
<1> QED
  BY <1>5 DEF Max

\* The place of the last message without TTL, 0 when there is none.
LastNoTtl(ms) == IF NoTtlAt(ms) = {} THEN 0 ELSE Max(NoTtlAt(ms))

\* Behind it there is no message without TTL.
LEMMA LastNoTtlIsLast ==
    ASSUME NEW ms \in Seq(Message)
    PROVE  /\ LastNoTtl(ms) \in 0 .. Len(ms)
           /\ LastNoTtl(ms) # 0 => LastNoTtl(ms) \in NoTtlAt(ms) /\ NoTtl(ms[LastNoTtl(ms)])
           /\ \A i \in 1 .. Len(ms) : NoTtl(ms[i]) => i <= LastNoTtl(ms)
<1>1. /\ Len(ms) \in Nat /\ NoTtlAt(ms) \in SUBSET (1 .. Len(ms))
      /\ \A i \in NoTtlAt(ms) : NoTtl(ms[i])
      /\ \A i \in 1 .. Len(ms) : NoTtl(ms[i]) => i \in NoTtlAt(ms)
  BY LenProperties DEF NoTtlAt
<1>2. CASE NoTtlAt(ms) = {}
  <2>1. \A i \in 1 .. Len(ms) : ~NoTtl(ms[i])
    BY <1>1, <1>2
  <2> QED
    BY <1>1, <1>2, <2>1 DEF LastNoTtl
<1>3. CASE NoTtlAt(ms) # {}
  <2>1. Max(NoTtlAt(ms)) \in NoTtlAt(ms) /\ \A i \in NoTtlAt(ms) : i <= Max(NoTtlAt(ms))
    BY <1>1, <1>3, MaxIsGreatest
  <2>2. Max(NoTtlAt(ms)) \in 1 .. Len(ms)
    BY <1>1, <2>1
  <2> QED
    BY <1>1, <1>3, <2>1, <2>2 DEF LastNoTtl
<1> QED
  BY <1>2, <1>3

\* How many messages the trimming takes out.
ToTrim(ms) == IF LastNoTtl(ms) > KeepNoTtl THEN LastNoTtl(ms) - KeepNoTtl ELSE 0

\* There is one offset for every position up to the last message without TTL, and all
\* but the last KeepNoTtl of them are used.
LEMMA OffsetsUsed ==
    ASSUME NEW ms \in Seq(Message)
    PROVE  /\ ToTrim(ms) \in 0 .. Len(ms)
           /\ Len(ToRemove(ms)) = ToTrim(ms)
           /\ DOMAIN ToRemove(ms) = 1 .. ToTrim(ms)
           /\ \A k \in 1 .. ToTrim(ms) :
                \E j \in 1 .. LastNoTtl(ms) :
                  ToRemove(ms)[k] = Min({i \in NoTtlAt(ms) : i >= j}) - j
           /\ \A k \in 1 .. ToTrim(ms) : ToRemove(ms)[k] \in Nat
<1> DEFINE L == LastNoTtl(ms)
           O == Offsets(ms)
           d == ToTrim(ms)
<1>1. /\ Len(ms) \in Nat /\ L \in 0 .. Len(ms) /\ KeepNoTtl \in Nat \ {0}
      /\ NoTtlAt(ms) \in SUBSET Nat
  <2>1. Len(ms) \in Nat
    BY LenProperties
  <2>2. \A i \in DOMAIN ms : i \in Nat
    BY <2>1, LenProperties
  <2> QED
    BY <2>1, <2>2, LastNoTtlIsLast, MessagesAssumption DEF NoTtlAt
<1>2. L # 0 => L \in NoTtlAt(ms)
  BY LastNoTtlIsLast
<1>3. O = [k \in 1 .. L |-> Min({i \in NoTtlAt(ms) : i >= k}) - k]
  BY DEF Offsets, LastNoTtl
<1>4. ASSUME NEW k \in 1 .. L
      PROVE  Min({i \in NoTtlAt(ms) : i >= k}) - k \in Nat
  <2> DEFINE S == {i \in NoTtlAt(ms) : i >= k}
  <2>1. L \in S /\ S \in SUBSET Nat
    BY <1>1, <1>2
  <2>2. \A i \in S : i \in Nat /\ i >= k
    BY <1>1
  <2> HIDE DEF S
  <2>3. Min(S) \in S
    BY <2>1, MinIsLeast
  <2>4. Min(S) - k \in Nat
    BY <1>1, <2>2, <2>3
  <2> QED
    BY <2>4 DEF S
<1>5. /\ O \in Seq(Nat) /\ Len(O) = L
      /\ \A k \in 1 .. L : O[k] = Min({i \in NoTtlAt(ms) : i >= k}) - k /\ O[k] \in Nat
  <2>1. L \in Nat /\ \A k \in 1 .. L : O[k] = Min({i \in NoTtlAt(ms) : i >= k}) - k /\ O[k] \in Nat
    BY <1>1, <1>3, <1>4
  <2>2. O = [k \in 1 .. L |-> O[k]]
    BY <1>3
  <2> HIDE DEF O, L
  <2>3. O \in [1 .. L -> Nat]
    BY <2>1, <2>2
  <2> QED
    BY <2>1, <2>3, IsASeq, LenProperties
<1>6. d \in 0 .. L /\ d <= Len(ms)
  BY <1>1 DEF ToTrim
<1>7. /\ Len(SubSeq(O, 1, L - KeepNoTtl)) = d
      /\ \A k \in 1 .. d : SubSeq(O, 1, L - KeepNoTtl)[k] = O[k]
  <2>1. CASE L > KeepNoTtl
    <3>1. d = L - KeepNoTtl /\ 1 \in 1 .. Len(O) + 1 /\ L - KeepNoTtl \in 0 .. Len(O)
      BY <1>1, <1>5, <2>1 DEF ToTrim
    <3>2. \A k \in 1 .. d : 1 + k - 1 = k
      BY <1>1
    <3> HIDE DEF O, L, d
    <3> QED
      BY <1>1, <1>5, <3>1, <3>2, SubSeqProperties
  <2>2. CASE ~(L > KeepNoTtl)
    <3>1. d = 0 /\ 1 > L - KeepNoTtl
      BY <1>1, <2>2 DEF ToTrim
    <3> HIDE DEF O, L, d
    <3> QED
      BY <1>1, <1>5, <3>1, SubSeqProperties
  <2> QED
    BY <2>1, <2>2
<1>8. ToRemove(ms) = [k \in 1 .. d |-> SubSeq(O, 1, L - KeepNoTtl)[(d - k) + 1]]
  BY <1>5, <1>7 DEF ToRemove, Reverse
<1> HIDE DEF O, L, d
<1>9. \A k \in 1 .. d : (d - k) + 1 \in 1 .. d /\ (d - k) + 1 \in 1 .. L
  BY <1>1, <1>6
<1>10. \A k \in 1 .. d : ToRemove(ms)[k] = O[(d - k) + 1]
  BY <1>7, <1>8, <1>9
<1>11. DOMAIN ToRemove(ms) = 1 .. d /\ \A k \in 1 .. d : ToRemove(ms)[k] \in Nat
  BY <1>5, <1>8, <1>9, <1>10
<1>12. Len(ToRemove(ms)) = d
  <2>1. ToRemove(ms) = [k \in 1 .. d |-> ToRemove(ms)[k]] /\ d \in Nat
    <3>1. ToRemove(ms) = [k \in 1 .. d |-> ToRemove(ms)[k]]
      BY <1>8, Zenon
    <3>2. d \in Nat
      BY <1>1, <1>6
    <3> QED
      BY <3>1, <3>2
  <2>2. ToRemove(ms) \in Seq(Nat)
    BY <1>11, <2>1, IsASeq
  <2>3. Len(ToRemove(ms)) \in Nat /\ 1 .. Len(ToRemove(ms)) = 1 .. d
    BY <1>11, <2>2, LenProperties
  <2> QED
    BY <2>1, <2>3
<1>13. \A k \in 1 .. d : \E j \in 1 .. L :
         ToRemove(ms)[k] = Min({i \in NoTtlAt(ms) : i >= j}) - j
  BY <1>5, <1>9, <1>10
<1>14. d \in 0 .. Len(ms)
  BY <1>1, <1>6
<1> QED
  BY <1>11, <1>12, <1>13, <1>14 DEF L, d

\* The recursion of TrimNoTtl.
IsTrim(h, ms) ==
    h = [k \in 0 .. Len(ToRemove(ms)) |->
           IF k = 0 THEN ms ELSE RemoveAt(h[k - 1], ToRemove(ms)[k] + 1)]

\* TrimNoTtl takes the last list of its recursion.
LEMMA TrimUnfolded ==
    ASSUME NEW ms
    PROVE  TrimNoTtl(ms) = (CHOOSE h : IsTrim(h, ms))[Len(ToRemove(ms))]
  BY DEF TrimNoTtl, IsTrim

\* As long as the list has the length it must have, h removes what the trimming does.
IsTrimming(h, ms) ==
    /\ h[0] = ms
    /\ \A k \in 1 .. ToTrim(ms) :
         h[k - 1] \in Seq(Message) /\ Len(h[k - 1]) = Len(ms) - (k - 1) =>
           h[k] = RemoveAt(h[k - 1], ToRemove(ms)[k] + 1)

\* When it does not panic, every removal is of a message that is there.
LEMMA TrimmingSteps ==
    ASSUME NEW ms \in Seq(Message), NEW h, IsTrimming(h, ms), ~TrimPanics(ms)
    PROVE  /\ \A k \in 0 .. ToTrim(ms) :
                h[k] \in Seq(Message) /\ Len(h[k]) = Len(ms) - k /\ PartOf(h[k], ms)
           /\ \A k \in 1 .. ToTrim(ms) :
                /\ ToRemove(ms)[k] + 1 \in 1 .. Len(h[k - 1])
                /\ h[k] = RemoveAt(h[k - 1], ToRemove(ms)[k] + 1)
<1> DEFINE d == ToTrim(ms)
           N == Len(ms)
           Good == {k \in Nat : k <= d =>
                      h[k] \in Seq(Message) /\ Len(h[k]) = N - k /\ PartOf(h[k], ms)}
<1>1. /\ N \in Nat /\ d \in 0 .. N
      /\ \A k \in 1 .. d : ToRemove(ms)[k] \in Nat /\ ToRemove(ms)[k] <= N - k
  <2>1. N \in Nat /\ d \in 0 .. N /\ DOMAIN ToRemove(ms) = 1 .. d
    BY LenProperties, OffsetsUsed
  <2>2. \A k \in 1 .. d : ToRemove(ms)[k] \in Nat
    BY OffsetsUsed
  <2>3. \A k \in 1 .. d : ~(ToRemove(ms)[k] > N - k)
    BY <2>1 DEF TrimPanics
  <2> HIDE DEF N, d
  <2> QED
    BY <2>1, <2>2, <2>3
<1>2. /\ h[0] = ms
      /\ \A k \in 1 .. d : h[k - 1] \in Seq(Message) /\ Len(h[k - 1]) = N - (k - 1) =>
                             h[k] = RemoveAt(h[k - 1], ToRemove(ms)[k] + 1)
  BY DEF IsTrimming
<1> HIDE DEF d
<1>3. ASSUME NEW k \in 1 .. d, h[k - 1] \in Seq(Message), Len(h[k - 1]) = N - (k - 1)
      PROVE  /\ ToRemove(ms)[k] + 1 \in 1 .. Len(h[k - 1])
             /\ h[k] = RemoveAt(h[k - 1], ToRemove(ms)[k] + 1)
             /\ h[k] \in Seq(Message) /\ Len(h[k]) = N - k /\ PartOf(h[k], h[k - 1])
  <2>1. /\ ToRemove(ms)[k] + 1 \in 1 .. Len(h[k - 1])
        /\ h[k] = RemoveAt(h[k - 1], ToRemove(ms)[k] + 1)
        /\ Len(h[k - 1]) - 1 = N - k
    BY <1>1, <1>2, <1>3
  <2> QED
    BY <1>3, <2>1, RemoveIsPart
<1>4. 0 \in Good
  BY <1>1, <1>2, PartOfItself
<1>5. ASSUME NEW k \in Good
      PROVE  k + 1 \in Good
  <2> SUFFICES ASSUME k + 1 <= d
               PROVE  /\ h[k + 1] \in Seq(Message) /\ Len(h[k + 1]) = N - (k + 1)
                      /\ PartOf(h[k + 1], ms)
    OBVIOUS
  <2>1. k + 1 \in 1 .. d /\ (k + 1) - 1 = k /\ k <= d
    BY <1>1
  <2>2. h[k] \in Seq(Message) /\ Len(h[k]) = N - k /\ PartOf(h[k], ms)
    BY <2>1
  <2> HIDE DEF Good, N
  <2>3. h[k + 1] \in Seq(Message) /\ Len(h[k + 1]) = N - (k + 1) /\ PartOf(h[k + 1], h[k])
    BY <1>3, <2>1, <2>2
  <2> QED
    BY <2>2, <2>3, PartOfPart
<1>6. \A k \in Nat : k <= d =>
        h[k] \in Seq(Message) /\ Len(h[k]) = N - k /\ PartOf(h[k], ms)
  <2>1. Good \in SUBSET Nat
    OBVIOUS
  <2>2. \A k \in Good : k <= d =>
          h[k] \in Seq(Message) /\ Len(h[k]) = N - k /\ PartOf(h[k], ms)
    OBVIOUS
  <2> HIDE DEF Good
  <2>3. Good = Nat
    BY <1>4, <1>5, <2>1, NumberInduction
  <2> QED
    BY <2>2, <2>3
<1>7. \A k \in 0 .. d : h[k] \in Seq(Message) /\ Len(h[k]) = N - k /\ PartOf(h[k], ms)
  BY <1>1, <1>6
<1>8. \A k \in 1 .. d : k - 1 \in 0 .. d
  BY <1>1
<1> QED
  BY <1>3, <1>7, <1>8 DEF d

\* What the trimming does, removal by removal.
LEMMA TrimSteps ==
    ASSUME NEW ms \in Seq(Message), ~TrimPanics(ms)
    PROVE  \E h : IsTrimming(h, ms) /\ TrimNoTtl(ms) = h[ToTrim(ms)]
<1> DEFINE d == ToTrim(ms)
           S == Seq(Message)
           F == [x \in (1 .. d) \X S |->
                   IF ToRemove(ms)[x[1]] + 1 \in 1 .. Len(x[2])
                   THEN RemoveAt(x[2], ToRemove(ms)[x[1]] + 1) ELSE <<>>]
<1>1. d \in Nat /\ ms \in S /\ <<>> \in S /\ Len(ToRemove(ms)) = d
  <2>1. Len(ms) \in Nat /\ d \in 0 .. Len(ms) /\ Len(ToRemove(ms)) = d
    BY LenProperties, OffsetsUsed
  <2> HIDE DEF d
  <2>2. d \in Nat
    BY <2>1
  <2> QED
    BY <2>1, <2>2, EmptySeq
<1>2. ASSUME NEW k \in 1 .. d, NEW s \in S, ToRemove(ms)[k] + 1 \in 1 .. Len(s)
      PROVE  RemoveAt(s, ToRemove(ms)[k] + 1) \in S
  BY <1>2, RemoveIsPart
<1>3. F \in [(1 .. d) \X S -> S]
  <2>1. \A x \in (1 .. d) \X S : x[1] \in 1 .. d /\ x[2] \in S
    OBVIOUS
  <2> HIDE DEF d, S
  <2> QED
    BY <1>1, <1>2, <2>1
<1>4. \A k \in 1 .. d, s \in S :
        F[<<k, s>>] = IF ToRemove(ms)[k] + 1 \in 1 .. Len(s)
                      THEN RemoveAt(s, ToRemove(ms)[k] + 1) ELSE <<>>
  <2> HIDE DEF d, S
  <2> QED
    OBVIOUS
<1> HIDE DEF S, F, d
<1>5. PICK h : IsRun(h, d, S, ms, F)
  <2>1. d \in Nat /\ ms \in S
    BY <1>1
  <2> QED
    BY <1>3, <2>1, RecursionExists
<1>6. /\ h[0] = ms /\ h = [k \in 0 .. d |-> h[k]]
      /\ \A k \in 1 .. d : h[k - 1] \in S /\ h[k] = F[<<k, h[k - 1]>>]
  <2>1. \A k \in 1 .. d : k - 1 \in 0 .. d
    BY <1>1
  <2> QED
    BY <1>5, <2>1 DEF IsRun
<1>7. \A k \in 1 .. d : ToRemove(ms)[k] \in Nat /\ ToRemove(ms)[k] <= Len(ms) - k
  <2>1. DOMAIN ToRemove(ms) = 1 .. d /\ \A k \in 1 .. d : ToRemove(ms)[k] \in Nat
    BY OffsetsUsed DEF d
  <2>2. \A k \in 1 .. d : ~(ToRemove(ms)[k] > Len(ms) - k)
    BY <2>1 DEF TrimPanics
  <2>3. Len(ms) \in Nat
    BY LenProperties
  <2> QED
    BY <1>1, <2>1, <2>2, <2>3
<1>8. IsTrimming(h, ms)
  <2>1. ASSUME NEW k \in 1 .. d, Len(h[k - 1]) = Len(ms) - (k - 1)
        PROVE  h[k] = RemoveAt(h[k - 1], ToRemove(ms)[k] + 1)
    <3>1. ToRemove(ms)[k] + 1 \in 1 .. Len(h[k - 1])
      <4>1. Len(ms) \in Nat
        BY LenProperties
      <4> QED
        BY <1>1, <1>7, <2>1, <4>1
    <3> QED
      BY <1>4, <1>6, <3>1
  <2> QED
    BY <1>6, <2>1 DEF IsTrimming, d
<1>9. \A k \in 1 .. d : h[k] = RemoveAt(h[k - 1], ToRemove(ms)[k] + 1)
  BY <1>8, TrimmingSteps DEF d
<1>10. h = [k \in 0 .. d |-> IF k = 0 THEN ms ELSE RemoveAt(h[k - 1], ToRemove(ms)[k] + 1)]
  <2>1. ASSUME NEW k \in 0 .. d
        PROVE  h[k] = IF k = 0 THEN ms ELSE RemoveAt(h[k - 1], ToRemove(ms)[k] + 1)
    <3>1. k # 0 => k \in 1 .. d
      BY <1>1
    <3> QED
      BY <1>6, <1>9, <3>1
  <2> QED
    BY <1>6, <2>1
<1>11. \E g : IsTrim(g, ms)
  BY <1>1, <1>10 DEF IsTrim
<1> DEFINE g == CHOOSE f : IsTrim(f, ms)
<1>12. IsTrim(g, ms)
  BY <1>11
<1>13. TrimNoTtl(ms) = g[d]
  BY <1>1, TrimUnfolded
<1> HIDE DEF g
<1>14. IsTrimming(g, ms)
  <2>1. g = [k \in 0 .. d |-> IF k = 0 THEN ms ELSE RemoveAt(g[k - 1], ToRemove(ms)[k] + 1)]
    BY <1>1, <1>12 DEF IsTrim
  <2>2. \A k \in 1 .. d : k \in 0 .. d /\ k # 0
    BY <1>1
  <2>3. 0 \in 0 .. d
    BY <1>1
  <2>4. g[0] = ms /\ \A k \in 1 .. d : g[k] = RemoveAt(g[k - 1], ToRemove(ms)[k] + 1)
    BY <2>1, <2>2, <2>3
  <2> QED
    BY <2>4 DEF IsTrimming, d
<1> QED
  BY <1>13, <1>14 DEF d

\* The trimming makes a part that is shorter by what it removes.
LEMMA TrimIsPart ==
    ASSUME NEW ms \in Seq(Message), ~TrimPanics(ms)
    PROVE  /\ TrimNoTtl(ms) \in Seq(Message)
           /\ Len(TrimNoTtl(ms)) = Len(ms) - ToTrim(ms)
           /\ PartOf(TrimNoTtl(ms), ms)
<1>1. PICK h : IsTrimming(h, ms) /\ TrimNoTtl(ms) = h[ToTrim(ms)]
  BY TrimSteps
<1>2. ToTrim(ms) \in 0 .. ToTrim(ms)
  BY LenProperties, OffsetsUsed
<1> QED
  BY <1>1, <1>2, TrimmingSteps

-----------------------------------------------------------------------------
(* The collection.                                                         *)

\* The order of creation.
InOrder(ms) ==
    \A i, j \in DOMAIN ms : i < j => ms[i].id < ms[j].id /\ ms[i].born <= ms[j].born

\* What a part has from its list.
LEMMA PartKeeps ==
    ASSUME NEW r \in Seq(Message), NEW s \in Seq(Message), PartOf(r, s)
    PROVE  /\ Len(r) <= Len(s)
           /\ \A i \in 1 .. Len(r) :
                \E j \in 1 .. Len(s) :
                  i <= j /\ (j = Len(s) => i = Len(r)) /\ r[i] = s[j]
           /\ InOrder(s) => InOrder(r)
<1>1. PICK p : Picks(r, s, p)
  BY DEF PartOf
<1>2. /\ \A i \in 1 .. Len(r) : p[i] \in 1 .. Len(s) /\ r[i] = s[p[i]]
      /\ \A i, j \in 1 .. Len(r) : i < j => p[i] < p[j]
  BY <1>1 DEF Picks
<1>3. /\ \A i \in 1 .. Len(r) : i <= p[i] /\ (p[i] = Len(s) => i = Len(r))
      /\ Len(r) <= Len(s)
  BY <1>1, PartIsShorter
<1>4. DOMAIN r = 1 .. Len(r) /\ DOMAIN s = 1 .. Len(s)
  BY LenProperties
<1>5. InOrder(s) => InOrder(r)
  BY <1>2, <1>4 DEF InOrder
<1> QED
  BY <1>2, <1>3, <1>5

\* What passes the first filter, and what passes the third.
LEMMA FiltersAreParts ==
    ASSUME NEW ms \in Seq(Message)
    PROVE  /\ Unexpired(ms) \in Seq(Message) /\ PartOf(Unexpired(ms), ms)
           /\ \A i \in 1 .. Len(Unexpired(ms)) : ~Expired(Unexpired(ms)[i])
           /\ NotTooOld(ms) \in Seq(Message) /\ PartOf(NotTooOld(ms), ms)
           /\ \A i \in 1 .. Len(NotTooOld(ms)) : ~TooOld(NotTooOld(ms)[i])
<1> DEFINE P == {i \in DOMAIN ms : ~Expired(ms[i])}
           Q == {i \in DOMAIN ms : ~TooOld(ms[i])}
<1>1. P \in SUBSET DOMAIN ms /\ \A i \in P : ~Expired(ms[i])
  OBVIOUS
<1>2. Q \in SUBSET DOMAIN ms /\ \A i \in Q : ~TooOld(ms[i])
  OBVIOUS
<1>3. Unexpired(ms) = Kept(ms, P) /\ NotTooOld(ms) = Kept(ms, Q)
  BY DEF Unexpired, NotTooOld
<1> HIDE DEF P, Q
<1>4. /\ Kept(ms, P) \in Seq(Message)
      /\ \E p : Picks(Kept(ms, P), ms, p) /\ {p[i] : i \in 1 .. Len(Kept(ms, P))} = P
  BY <1>1, KeptIsPart
<1>5. /\ Kept(ms, Q) \in Seq(Message)
      /\ \E p : Picks(Kept(ms, Q), ms, p) /\ {p[i] : i \in 1 .. Len(Kept(ms, Q))} = Q
  BY <1>2, KeptIsPart
<1>6. PartOf(Kept(ms, P), ms) /\ \A i \in 1 .. Len(Kept(ms, P)) : ~Expired(Kept(ms, P)[i])
  <2>1. PICK p : Picks(Kept(ms, P), ms, p) /\ {p[i] : i \in 1 .. Len(Kept(ms, P))} = P
    BY <1>4
  <2>2. \A i \in 1 .. Len(Kept(ms, P)) : p[i] \in P /\ Kept(ms, P)[i] = ms[p[i]]
    BY <2>1 DEF Picks
  <2> QED
    BY <1>1, <2>1, <2>2 DEF PartOf
<1>7. PartOf(Kept(ms, Q), ms) /\ \A i \in 1 .. Len(Kept(ms, Q)) : ~TooOld(Kept(ms, Q)[i])
  <2>1. PICK p : Picks(Kept(ms, Q), ms, p) /\ {p[i] : i \in 1 .. Len(Kept(ms, Q))} = Q
    BY <1>5
  <2>2. \A i \in 1 .. Len(Kept(ms, Q)) : p[i] \in Q /\ Kept(ms, Q)[i] = ms[p[i]]
    BY <2>1 DEF Picks
  <2> QED
    BY <1>2, <2>1, <2>2 DEF PartOf
<1> QED
  BY <1>3, <1>4, <1>5, <1>6, <1>7

\* lastN makes a part of at most KeepAll messages.
LEMMA LastNIsPart ==
    ASSUME NEW ms \in Seq(Message)
    PROVE  LastN(ms) \in Seq(Message) /\ PartOf(LastN(ms), ms) /\ Len(LastN(ms)) <= KeepAll
<1>1. Len(ms) \in Nat /\ KeepAll \in Nat \ {0}
  BY LenProperties, MessagesAssumption
<1>2. CASE Len(ms) < KeepAll
  BY <1>1, <1>2, PartOfItself DEF LastN
<1>3. CASE ~(Len(ms) < KeepAll)
  <2>1. /\ Len(ms) - KeepAll + 1 \in 1 .. Len(ms) + 1 /\ Len(ms) \in 0 .. Len(ms)
        /\ Len(ms) - KeepAll + 1 <= Len(ms) + 1
        /\ Len(ms) - (Len(ms) - KeepAll + 1) + 1 = KeepAll
    BY <1>1, <1>3
  <2>2. LastN(ms) = SubSeq(ms, Len(ms) - KeepAll + 1, Len(ms))
    BY <1>3 DEF LastN
  <2>3. /\ SubSeq(ms, Len(ms) - KeepAll + 1, Len(ms)) \in Seq(Message)
        /\ Len(SubSeq(ms, Len(ms) - KeepAll + 1, Len(ms)))
             = Len(ms) - (Len(ms) - KeepAll + 1) + 1
        /\ PartOf(SubSeq(ms, Len(ms) - KeepAll + 1, Len(ms)), ms)
    BY <2>1, SubSeqIsPart
  <2> QED
    BY <1>1, <2>1, <2>2, <2>3
<1> QED
  BY <1>2, <1>3

\* The trimming leaves no message without TTL behind the first KeepNoTtl: either there
\* is none, or the last message is one and the whole list is cut down to KeepNoTtl.
LEMMA TrimmedNoTtl ==
    ASSUME NEW ms \in Seq(Message), ~TrimPanics(ms),
           \A i \in 1 .. Len(ms) : NoTtl(ms[i]) => i <= KeepNoTtl \/ i = Len(ms)
    PROVE  \A i \in 1 .. Len(TrimNoTtl(ms)) : NoTtl(TrimNoTtl(ms)[i]) => i <= KeepNoTtl
<1> DEFINE t == TrimNoTtl(ms)
           L == LastNoTtl(ms)
<1>1. /\ Len(ms) \in Nat /\ KeepNoTtl \in Nat /\ L \in 0 .. Len(ms)
      /\ L # 0 => NoTtl(ms[L])
      /\ \A i \in 1 .. Len(ms) : NoTtl(ms[i]) => i <= L
  BY LenProperties, LastNoTtlIsLast, MessagesAssumption
<1>2. t \in Seq(Message) /\ Len(t) = Len(ms) - ToTrim(ms) /\ PartOf(t, ms)
  BY TrimIsPart
<1>3. Len(t) \in Nat
  BY <1>2, LenProperties
<1>4. \A i \in 1 .. Len(t) : \E j \in 1 .. Len(ms) : i <= j /\ t[i] = ms[j]
  BY <1>2, PartKeeps
<1> HIDE DEF t, L
<1> SUFFICES ASSUME NEW i \in 1 .. Len(t), NoTtl(t[i])
             PROVE  i <= KeepNoTtl
  BY DEF t
<1>5. i \in Int
  BY <1>3
<1>6. CASE L > KeepNoTtl
  <2>1. L = Len(ms)
    <3>1. L \in Int /\ L # 0 /\ L \in 1 .. Len(ms)
      BY <1>1, <1>6
    <3>2. NoTtl(ms[L])
      BY <1>1, <3>1
    <3>3. L <= KeepNoTtl \/ L = Len(ms)
      BY <3>1, <3>2
    <3> QED
      BY <1>1, <1>6, <3>1, <3>3
  <2>2. ToTrim(ms) = L - KeepNoTtl
    BY <1>6 DEF ToTrim, L
  <2>3. Len(t) = KeepNoTtl
    BY <1>1, <1>2, <2>1, <2>2
  <2> QED
    BY <1>3, <1>5, <2>3
<1>7. CASE ~(L > KeepNoTtl)
  <2>1. PICK j \in 1 .. Len(ms) : i <= j /\ t[i] = ms[j]
    BY <1>4, <1>5
  <2>2. NoTtl(ms[j])
    BY <2>1
  <2>3. j <= L /\ j \in Int /\ i \in Int
    BY <1>1, <1>3, <1>5, <2>1, <2>2
  <2>4. L \in Int /\ L <= KeepNoTtl
    BY <1>1, <1>7
  <2> QED
    BY <1>1, <2>1, <2>3, <2>4
<1> QED
  BY <1>6, <1>7

\* What the collection leaves.
LEMMA CleanupIsRight ==
    ASSUME IInv, ~CleanupPanics
    PROVE  /\ Cleanup \in Seq(Message)
           /\ Len(Cleanup) <= KeepAll
           /\ InOrder(Cleanup)
           /\ \A i \in 1 .. Len(Cleanup) :
                /\ ~Expired(Cleanup[i]) /\ ~TooOld(Cleanup[i])
                /\ NoTtl(Cleanup[i]) => i <= KeepNoTtl
                /\ \E j \in 1 .. Len(messages) : Cleanup[i] = messages[j]
<1> DEFINE u == Unexpired(messages)
           t == TrimNoTtl(u)
           n == NotTooOld(t)
           c == LastN(n)
<1>1. /\ messages \in Seq(Message) /\ InOrder(messages)
      /\ \A i \in 1 .. Len(messages) :
           NoTtl(messages[i]) => i <= KeepNoTtl \/ i = Len(messages)
      /\ Len(messages) \in Nat
      /\ KeepNoTtl \in Nat
  BY LenProperties, MessagesAssumption DEF IInv, TypeOK, ListInv, InOrder, NoTtlAt
<1>2. /\ u \in Seq(Message) /\ PartOf(u, messages)
      /\ \A i \in 1 .. Len(u) : ~Expired(u[i])
  BY <1>1, FiltersAreParts
<1>3. ~TrimPanics(u)
  BY DEF CleanupPanics
<1> HIDE DEF u
<1>4. /\ t \in Seq(Message) /\ PartOf(t, u)
  BY <1>2, <1>3, TrimIsPart
<1>5. \A i \in 1 .. Len(t) : NoTtl(t[i]) => i <= KeepNoTtl
  <2>1. ASSUME NEW i \in 1 .. Len(u), NoTtl(u[i])
        PROVE  i <= KeepNoTtl \/ i = Len(u)
    <3>1. Len(u) \in Nat
      BY <1>2, LenProperties
    <3>2. PICK j \in 1 .. Len(messages) :
            i <= j /\ (j = Len(messages) => i = Len(u)) /\ u[i] = messages[j]
      BY <1>1, <1>2, <3>1, PartKeeps
    <3>3. NoTtl(messages[j])
      BY <2>1, <3>2
    <3>4. j <= KeepNoTtl \/ j = Len(messages)
      BY <1>1, <3>3
    <3>5. i \in Int /\ j \in Int
      BY <1>1, <3>1
    <3> QED
      BY <1>1, <3>2, <3>4, <3>5
  <2> HIDE DEF t
  <2>2. \A i \in 1 .. Len(u) : NoTtl(u[i]) => i <= KeepNoTtl \/ i = Len(u)
    BY <2>1
  <2>3. \A i \in 1 .. Len(TrimNoTtl(u)) : NoTtl(TrimNoTtl(u)[i]) => i <= KeepNoTtl
    BY <1>2, <1>3, <2>2, TrimmedNoTtl
  <2> QED
    BY <2>3 DEF t
<1> HIDE DEF t
<1>6. /\ n \in Seq(Message) /\ PartOf(n, t)
      /\ \A i \in 1 .. Len(n) : ~TooOld(n[i])
  BY <1>4, FiltersAreParts
<1> HIDE DEF n
<1>7. c \in Seq(Message) /\ PartOf(c, n) /\ Len(c) <= KeepAll
  BY <1>6, LastNIsPart
<1>8. Cleanup = c
  BY DEF Cleanup, c, n, t, u
<1> HIDE DEF c
<1>9. PartOf(c, t) /\ PartOf(c, u) /\ PartOf(c, messages)
  <2>1. PartOf(c, t)
    BY <1>4, <1>6, <1>7, PartOfPart
  <2>2. PartOf(c, u)
    BY <1>2, <1>4, <1>7, <2>1, PartOfPart
  <2> QED
    BY <1>1, <1>2, <1>7, <2>1, <2>2, PartOfPart
<1>10. InOrder(c)
  BY <1>1, <1>7, <1>9, PartKeeps
<1>11. ASSUME NEW i \in 1 .. Len(c)
       PROVE  /\ ~Expired(c[i]) /\ ~TooOld(c[i])
              /\ NoTtl(c[i]) => i <= KeepNoTtl
              /\ \E j \in 1 .. Len(messages) : c[i] = messages[j]
  <2>1. \E j \in 1 .. Len(messages) : c[i] = messages[j]
    BY <1>1, <1>7, <1>9, PartKeeps
  <2>2. \E j \in 1 .. Len(u) : c[i] = u[j]
    BY <1>2, <1>7, <1>9, PartKeeps
  <2>3. \E j \in 1 .. Len(n) : c[i] = n[j]
    BY <1>6, <1>7, PartKeeps
  <2>4. PICK j \in 1 .. Len(t) : i <= j /\ c[i] = t[j]
    BY <1>4, <1>7, <1>9, PartKeeps
  <2>5. NoTtl(c[i]) => i <= KeepNoTtl
    <3>1. Len(t) \in Nat /\ Len(c) \in Nat
      BY <1>4, <1>7, LenProperties
    <3>2. NoTtl(c[i]) => j <= KeepNoTtl
      BY <1>5, <2>4
    <3> QED
      BY <1>1, <2>4, <3>1, <3>2
  <2> QED
    BY <1>2, <1>6, <2>1, <2>2, <2>3, <2>5
<1> QED
  BY <1>7, <1>8, <1>10, <1>11

-----------------------------------------------------------------------------
(* The list from one request to the next.                                  *)

\* r is a list a request may commit: what the collection leaves of the messages, some
\* of it now read, and in the place of the last, when last is TRUE, a new message.
Committed(r, last) ==
    /\ r \in Seq(Message)
    /\ InOrder(r)
    /\ Len(r) <= IF last THEN KeepAll + 1 ELSE KeepAll
    /\ \A i \in 1 .. Len(r) :
         /\ ~TooOld(r[i])
         /\ Expired(r[i]) => last /\ r[i].id = created + 1 /\ r[i].ttl < 0
         /\ \/ /\ NoTtl(r[i]) => i <= KeepNoTtl
               /\ \E j \in 1 .. Len(messages) :
                    /\ r[i].id = messages[j].id /\ r[i].born = messages[j].born
                    /\ messages[j].read => r[i].read
            \/ last /\ i = Len(r) /\ r[i].id = created + 1 /\ r[i].born = clock

\* The fields of a message.
LEMMA Fields ==
    \A m \in Message : /\ m.id \in Nat /\ m.born \in Nat /\ m.ttl \in Int /\ m.read \in BOOLEAN
                       /\ m.id \in 1 .. MaxMessages /\ m.born \in 0 .. MaxClock /\ m.ttl \in Ttls
<1>1. \A x \in Ttls : x \in Int
  BY MessagesAssumption
<1>2. MaxMessages \in Nat /\ MaxClock \in Nat
  BY MessagesAssumption
<1> QED
  BY <1>1, <1>2 DEF Message

\* Reading the list commits what the collection leaves.
LEMMA CleanupIsCommitted ==
    ASSUME IInv, ~CleanupPanics
    PROVE  Committed(Cleanup, FALSE)
  BY CleanupIsRight DEF Committed

\* Marking a message as read changes nothing else.
LEMMA MarkedIsCommitted ==
    ASSUME IInv, ~CleanupPanics, NEW id
    PROVE  Committed([i \in DOMAIN Cleanup |->
                        [Cleanup[i] EXCEPT !.read = @ \/ Cleanup[i].id = id]], FALSE)
<1> DEFINE c == Cleanup
           r == [i \in DOMAIN c |-> [c[i] EXCEPT !.read = @ \/ c[i].id = id]]
<1>1. Committed(c, FALSE)
  BY CleanupIsCommitted
<1>2. c \in Seq(Message)
  BY <1>1 DEF Committed
<1> HIDE DEF c
<1>3. Len(c) \in Nat /\ DOMAIN c = 1 .. Len(c) /\ \A i \in 1 .. Len(c) : c[i] \in Message
  BY <1>2, LenProperties, ElementOfSeq
<1>4. ASSUME NEW i \in 1 .. Len(c)
      PROVE  /\ r[i] \in Message
             /\ r[i].id = c[i].id /\ r[i].born = c[i].born /\ r[i].ttl = c[i].ttl
             /\ c[i].read => r[i].read
  <2>1. c[i] \in Message /\ r[i] = [c[i] EXCEPT !.read = @ \/ c[i].id = id]
    BY <1>3
  <2> HIDE DEF r
  <2>2. (c[i].read \/ c[i].id = id) \in BOOLEAN
    OBVIOUS
  <2> QED
    BY <2>1, <2>2 DEF Message
<1>5. r \in Seq(Message) /\ Len(r) = Len(c)
  <2>1. r = [i \in 1 .. Len(c) |-> r[i]]
    BY <1>3
  <2> HIDE DEF r
  <2>2. r \in [1 .. Len(c) -> Message]
    BY <1>4, <2>1
  <2> QED
    BY <1>3, <2>2, SeqDef, LenProperties
<1> HIDE DEF r
<1>6. DOMAIN r = 1 .. Len(c)
  BY <1>5, LenProperties
<1>7. InOrder(r)
  <2>1. \A i, j \in 1 .. Len(c) : i < j => c[i].id < c[j].id /\ c[i].born <= c[j].born
    BY <1>1, <1>3 DEF Committed, InOrder
  <2> QED
    BY <1>4, <1>6, <2>1 DEF InOrder
<1>8. Len(r) <= KeepAll
  BY <1>1, <1>5 DEF Committed
<1>9. ASSUME NEW i \in 1 .. Len(r)
      PROVE  /\ ~Expired(r[i]) /\ ~TooOld(r[i])
             /\ NoTtl(r[i]) => i <= KeepNoTtl
             /\ \E j \in 1 .. Len(messages) :
                  /\ r[i].id = messages[j].id /\ r[i].born = messages[j].born
                  /\ messages[j].read => r[i].read
  <2>1. i \in 1 .. Len(c)
    BY <1>5
  <2>2. /\ r[i].id = c[i].id /\ r[i].born = c[i].born /\ r[i].ttl = c[i].ttl
        /\ c[i].read => r[i].read
    BY <1>4, <2>1
  <2>3. /\ ~TooOld(c[i]) /\ ~Expired(c[i])
        /\ NoTtl(c[i]) => i <= KeepNoTtl
        /\ \E j \in 1 .. Len(messages) :
             /\ c[i].id = messages[j].id /\ c[i].born = messages[j].born
             /\ messages[j].read => c[i].read
    BY <1>1, <2>1 DEF Committed
  <2>4. NoTtl(r[i]) = NoTtl(c[i]) /\ Expired(r[i]) = Expired(c[i]) /\ TooOld(r[i]) = TooOld(c[i])
    BY <2>2 DEF NoTtl, Expired, TooOld
  <2> QED
    BY <2>2, <2>3, <2>4
<1>10. Committed(r, FALSE)
  BY <1>5, <1>7, <1>8, <1>9 DEF Committed
<1> QED
  BY <1>10 DEF r, c

\* A new message comes behind all others: none was created after it.
LEMMA CreatedIsCommitted ==
    ASSUME IInv, ~CleanupPanics, created < MaxMessages, NEW ttl \in Ttls
    PROVE  Committed(Append(Cleanup,
             [id |-> created + 1, born |-> clock, ttl |-> ttl, read |-> FALSE]), TRUE)
<1> DEFINE c == Cleanup
           m == [id |-> created + 1, born |-> clock, ttl |-> ttl, read |-> FALSE]
           r == Append(c, m)
<1>1. Committed(c, FALSE)
  BY CleanupIsCommitted
<1>2. /\ created \in Nat /\ clock \in Nat /\ ttl \in Int
      /\ Month \in Nat \ {0} /\ KeepAll \in Nat
      /\ \A i \in 1 .. Len(messages) : messages[i].id <= created /\ messages[i].born <= clock
  <2>1. messages \in Seq(Message) /\ DOMAIN messages = 1 .. Len(messages)
    BY LenProperties DEF IInv, TypeOK
  <2>2. \A x \in Ttls : x \in Int
    BY MessagesAssumption
  <2> QED
    BY <2>1, <2>2, MessagesAssumption DEF IInv, TypeOK, ListInv
<1>3. m \in Message
  <2>1. created + 1 \in 1 .. MaxMessages /\ clock \in 0 .. MaxClock
    BY MessagesAssumption DEF IInv, TypeOK
  <2> QED
    BY <2>1 DEF Message
<1>4. m.id = created + 1 /\ m.born = clock /\ ~TooOld(m) /\ (Expired(m) => m.ttl < 0)
  BY <1>2 DEF Expired, TooOld, NoTtl
<1>5. c \in Seq(Message) /\ Len(c) <= KeepAll
  BY <1>1 DEF Committed
<1> HIDE DEF c, m
<1>6. Len(c) \in Nat /\ DOMAIN c = 1 .. Len(c) /\ \A i \in 1 .. Len(c) : c[i] \in Message
  BY <1>5, LenProperties, ElementOfSeq
<1>7. /\ r \in Seq(Message) /\ Len(r) = Len(c) + 1
      /\ \A i \in 1 .. Len(c) : r[i] = c[i]
      /\ r[Len(c) + 1] = m
  BY <1>3, <1>5, AppendProperties
<1> HIDE DEF r
<1>8. DOMAIN r = 1 .. Len(c) + 1
  BY <1>7, LenProperties
<1>9. \A i \in 1 .. Len(c) : r[i].id <= created /\ r[i].born <= clock
  <2>1. \A i \in 1 .. Len(c) : \E j \in 1 .. Len(messages) :
          c[i].id = messages[j].id /\ c[i].born = messages[j].born
    BY <1>1 DEF Committed
  <2> QED
    BY <1>2, <1>7, <2>1
<1>10. \A i \in 1 .. Len(c) + 1 : i \in 1 .. Len(c) \/ i = Len(c) + 1
  BY <1>6
<1>11. InOrder(r)
  <2> SUFFICES ASSUME NEW i \in 1 .. Len(c) + 1, NEW j \in 1 .. Len(c) + 1, i < j
               PROVE  r[i].id < r[j].id /\ r[i].born <= r[j].born
    BY <1>8 DEF InOrder
  <2>1. i \in 1 .. Len(c)
    BY <1>6
  <2>2. CASE j \in 1 .. Len(c)
    <3>1. c[i].id < c[j].id /\ c[i].born <= c[j].born
      BY <1>1, <1>6, <2>1, <2>2 DEF Committed, InOrder
    <3> QED
      BY <1>7, <2>1, <2>2, <3>1
  <2>3. CASE j = Len(c) + 1
    <3>1. r[j].id = created + 1 /\ r[j].born = clock
      BY <1>4, <1>7, <2>3
    <3>2. r[i].id <= created /\ r[i].born <= clock /\ r[i].id \in Nat
      BY <1>6, <1>7, <1>9, <2>1, Fields
    <3> QED
      BY <1>2, <3>1, <3>2
  <2> QED
    BY <1>10, <2>2, <2>3
<1>12. Len(r) <= KeepAll + 1
  BY <1>2, <1>5, <1>6, <1>7
<1>13. ASSUME NEW i \in 1 .. Len(r)
       PROVE  /\ ~TooOld(r[i])
              /\ Expired(r[i]) => r[i].id = created + 1 /\ r[i].ttl < 0
              /\ \/ /\ NoTtl(r[i]) => i <= KeepNoTtl
                    /\ \E j \in 1 .. Len(messages) :
                         /\ r[i].id = messages[j].id /\ r[i].born = messages[j].born
                         /\ messages[j].read => r[i].read
                 \/ i = Len(r) /\ r[i].id = created + 1 /\ r[i].born = clock
  <2>1. CASE i \in 1 .. Len(c)
    <3>1. r[i] = c[i]
      BY <1>7, <2>1
    <3> QED
      BY <1>1, <2>1, <3>1 DEF Committed
  <2>2. CASE i = Len(c) + 1
    BY <1>4, <1>7, <2>2
  <2> QED
    BY <1>7, <1>10, <2>1, <2>2
<1>14. Committed(r, TRUE)
  BY <1>7, <1>11, <1>12, <1>13 DEF Committed
<1> QED
  BY <1>14 DEF r, m, c

\* Whatever a step makes of the list, a request may commit.
LEMMA StepCommits ==
    ASSUME IInv, [Next]_vars
    PROVE  /\ created' \in 0 .. MaxMessages /\ clock' \in 0 .. MaxClock
           /\ \/ messages' = messages /\ created' = created /\ clock <= clock'
              \/ clock' = clock /\ created' = created /\ Committed(messages', FALSE)
              \/ clock' = clock /\ created' = created + 1 /\ Committed(messages', TRUE)
<1>1. /\ created \in 0 .. MaxMessages /\ clock \in 0 .. MaxClock
      /\ MaxMessages \in Nat /\ MaxClock \in Nat
  BY MessagesAssumption DEF IInv, TypeOK
<1>2. CASE CreateMessage
  <2>1. PICK ttl \in Ttls : Transaction(Append(Cleanup,
           [id |-> created + 1, born |-> clock, ttl |-> ttl, read |-> FALSE]))
    BY <1>2 DEF CreateMessage
  <2>2. created < MaxMessages /\ created' = created + 1 /\ clock' = clock
    BY <1>2 DEF CreateMessage
  <2>3. Committed(messages', TRUE)
    BY <2>1, <2>2, CreatedIsCommitted DEF Transaction
  <2>4. created' \in 0 .. MaxMessages /\ clock' \in 0 .. MaxClock
    BY <1>1, <2>2
  <2> QED
    BY <2>2, <2>3, <2>4
<1>3. CASE GetMessages
  BY <1>1, <1>3, CleanupIsCommitted DEF GetMessages, Transaction
<1>4. CASE MarkAsRead
  <2>1. PICK id \in Ids(Cleanup) :
           Transaction([i \in DOMAIN Cleanup |->
             [Cleanup[i] EXCEPT !.read = @ \/ Cleanup[i].id = id]])
    BY <1>4 DEF MarkAsRead
  <2>2. Committed(messages', FALSE)
    BY <2>1, MarkedIsCommitted DEF Transaction
  <2> QED
    BY <1>1, <1>4, <2>2 DEF MarkAsRead
<1>5. CASE Tick
  <2>1. clock < MaxClock /\ clock' = clock + 1 /\ messages' = messages /\ created' = created
    BY <1>5 DEF Tick
  <2>2. created' \in 0 .. MaxMessages /\ clock' \in 0 .. MaxClock /\ clock <= clock'
    BY <1>1, <2>1
  <2> QED
    BY <2>1, <2>2
<1>6. CASE UNCHANGED vars
  BY <1>1, <1>6 DEF vars
<1> QED
  BY <1>2, <1>3, <1>4, <1>5, <1>6 DEF Next

-----------------------------------------------------------------------------
(* The inductive invariant.                                                *)

\* A brigade starts with no message.
LEMMA InvInit == Init => IInv
<1> SUFFICES ASSUME Init
             PROVE  IInv
  OBVIOUS
<1>1. messages = <<>> /\ created = 0 /\ clock = 0
  BY DEF Init
<1>2. messages \in Seq(Message) /\ DOMAIN messages = {}
  BY <1>1, EmptySeq
<1>3. created \in 0 .. MaxMessages /\ clock \in 0 .. MaxClock
  BY <1>1, MessagesAssumption
<1> QED
  BY <1>2, <1>3 DEF IInv, TypeOK, ListInv, NoTtlAt

\* Nothing in a committed list is newer than its last message, and only that one can
\* be without TTL behind the first KeepNoTtl.
LEMMA CommittedIsListInv ==
    ASSUME NEW r, NEW last \in BOOLEAN, IInv, Committed(r, last)
    PROVE  /\ \A i \in 1 .. Len(r) :
                r[i].id <= (IF last THEN created + 1 ELSE created) /\ r[i].born <= clock
           /\ \A i \in 1 .. Len(r) : NoTtl(r[i]) => i <= KeepNoTtl \/ i = Len(r)
<1>1. /\ created \in Nat /\ clock \in Nat
      /\ \A j \in 1 .. Len(messages) : /\ messages[j].id <= created /\ messages[j].born <= clock
                                       /\ messages[j].id \in Nat /\ messages[j].born \in Nat
  <2>1. messages \in Seq(Message) /\ DOMAIN messages = 1 .. Len(messages)
    BY LenProperties DEF IInv, TypeOK
  <2>2. \A j \in 1 .. Len(messages) : messages[j] \in Message
    BY <2>1, ElementOfSeq
  <2> QED
    BY <2>1, <2>2, Fields DEF IInv, TypeOK, ListInv
<1>2. ASSUME NEW i \in 1 .. Len(r)
      PROVE  r[i].id <= (IF last THEN created + 1 ELSE created) /\ r[i].born <= clock
  <2>1. CASE \E j \in 1 .. Len(messages) : r[i].id = messages[j].id /\ r[i].born = messages[j].born
    BY <1>1, <2>1
  <2>2. CASE last /\ r[i].id = created + 1 /\ r[i].born = clock
    BY <1>1, <2>2
  <2> QED
    BY <2>1, <2>2 DEF Committed
<1>3. \A i \in 1 .. Len(r) : NoTtl(r[i]) => i <= KeepNoTtl \/ i = Len(r)
  BY DEF Committed
<1> QED
  BY <1>2, <1>3

\* Every step keeps the invariant: what a request commits has it by StepCommits, and the
\* time only goes on.
LEMMA InvStep == IInv /\ [Next]_vars => IInv'
<1> SUFFICES ASSUME IInv, [Next]_vars
             PROVE  IInv'
  OBVIOUS
<1>1. /\ created' \in 0 .. MaxMessages /\ clock' \in 0 .. MaxClock
      /\ \/ messages' = messages /\ created' = created /\ clock <= clock'
         \/ clock' = clock /\ created' = created /\ Committed(messages', FALSE)
         \/ clock' = clock /\ created' = created + 1 /\ Committed(messages', TRUE)
  BY StepCommits
<1>2. CASE messages' = messages /\ created' = created /\ clock <= clock'
  <2>1. ASSUME NEW i \in DOMAIN messages
        PROVE  messages[i].born <= clock'
    <3>1. messages[i].born <= clock /\ clock \in Int /\ clock' \in Int
      BY <1>1 DEF IInv, TypeOK, ListInv
    <3>2. messages[i].born \in Nat
      <4>1. i \in 1 .. Len(messages) /\ messages \in Seq(Message)
        BY LenProperties DEF IInv, TypeOK
      <4> QED
        BY <4>1, ElementOfSeq, Fields
    <3> QED
      BY <1>2, <3>1, <3>2
  <2>2. TypeOK'
    BY <1>1, <1>2 DEF IInv, TypeOK
  <2>3. ListInv'
    BY <1>2, <2>1 DEF IInv, ListInv, NoTtlAt, NoTtl
  <2> QED
    BY <2>2, <2>3 DEF IInv
<1>3. ASSUME NEW last \in BOOLEAN, Committed(messages', last),
             clock' = clock, created' = IF last THEN created + 1 ELSE created
      PROVE  IInv'
  <2>1. messages' \in Seq(Message) /\ InOrder(messages')
    BY <1>3 DEF Committed
  <2>2. DOMAIN messages' = 1 .. Len(messages')
    BY <2>1, LenProperties
  <2>3. TypeOK'
    BY <1>1, <2>1 DEF TypeOK, InOrder
  <2>4. /\ \A i \in 1 .. Len(messages') : messages'[i].id <= created' /\ messages'[i].born <= clock'
        /\ \A i \in 1 .. Len(messages') :
             NoTtl(messages'[i]) => i <= KeepNoTtl \/ i = Len(messages')
    BY <1>3, CommittedIsListInv
  <2>5. \A i \in NoTtlAt(messages)' : i \in 1 .. Len(messages') /\ NoTtl(messages'[i])
    BY <2>2 DEF NoTtlAt, NoTtl
  <2>6. ListInv'
    BY <2>2, <2>4, <2>5 DEF ListInv
  <2> QED
    BY <2>3, <2>6 DEF IInv
<1> QED
  BY <1>1, <1>2, <1>3

\* The inductive invariant holds at all times.
THEOREM Invariance == Spec => []IInv
<1> QED
  BY InvInit, InvStep, PTL DEF Spec

\* The list holds messages, in the order of their creation.
THEOREM TypeCorrect == Spec => []TypeOK
<1>1. IInv => TypeOK
  BY DEF IInv
<1> QED
  BY <1>1, Invariance, PTL

\* A committed list holds nothing that is too old, or has expired without being born
\* expired, and keeps the limits.
LEMMA CommittedIsLimited ==
    ASSUME NEW r, NEW last \in BOOLEAN, IInv, Committed(r, last)
    PROVE  /\ \A i \in DOMAIN r : ~TooOld(r[i]) /\ (Expired(r[i]) => BornExpired(r[i]))
           /\ Len(r) <= KeepAll + 1
           /\ Cardinality(NoTtlAt(r)) <= KeepNoTtl + 1
<1>1. r \in Seq(Message) /\ DOMAIN r = 1 .. Len(r) /\ Len(r) \in Nat
  BY LenProperties DEF Committed
<1>2. KeepNoTtl \in Nat /\ KeepAll \in Nat
  BY MessagesAssumption
<1>3. \A i \in DOMAIN r : ~TooOld(r[i]) /\ (Expired(r[i]) => BornExpired(r[i]))
  <2>1. \A i \in DOMAIN r :
          ~TooOld(r[i]) /\ (Expired(r[i]) => r[i].id = created + 1 /\ r[i].ttl < 0)
    BY <1>1 DEF Committed
  <2>2. created \in Nat
    BY DEF IInv, TypeOK
  <2> QED
    BY <2>1, <2>2 DEF BornExpired
<1>4. Len(r) <= KeepAll + 1
  <2>1. IF last THEN Len(r) <= KeepAll + 1 ELSE Len(r) <= KeepAll
    BY DEF Committed
  <2> QED
    BY <1>1, <1>2, <2>1
<1>5. Cardinality(NoTtlAt(r)) <= KeepNoTtl + 1
  <2> DEFINE A == 1 .. KeepNoTtl
             B == A \cup {Len(r)}
  <2>1. NoTtlAt(r) \subseteq B
    <3>1. ASSUME NEW i \in 1 .. Len(r), NoTtl(r[i])
          PROVE  i \in B
      <4>1. i <= KeepNoTtl \/ i = Len(r)
        BY <3>1, CommittedIsListInv
      <4>2. i \in Int /\ 1 <= i
        <5>1. Len(r) \in Nat
          BY <1>1
        <5> QED
          BY <5>1
      <4>3. i <= KeepNoTtl => i \in A
        BY <1>2, <4>2
      <4> QED
        BY <4>1, <4>3
    <3> HIDE DEF B
    <3> QED
      BY <1>1, <3>1 DEF NoTtlAt
  <2>2. IsFiniteSet(A) /\ Cardinality(A) = KeepNoTtl
    BY <1>2, FS_Interval
  <2> HIDE DEF A
  <2>3. IsFiniteSet(B) /\ (Cardinality(B) = KeepNoTtl \/ Cardinality(B) = KeepNoTtl + 1)
    BY <2>2, FS_AddElement
  <2> HIDE DEF B
  <2>4. IsFiniteSet(NoTtlAt(r)) /\ Cardinality(NoTtlAt(r)) <= Cardinality(B)
    BY <2>1, <2>3, FS_Subset
  <2>5. Cardinality(NoTtlAt(r)) \in Nat
    BY <2>4, FS_CardinalityType
  <2> QED
    BY <1>2, <2>3, <2>4, <2>5
<1> QED
  BY <1>3, <1>4, <1>5

\* Whatever the layout, a committed list keeps the limits.  The trimming by position may
\* take the wrong messages, but never too few: it works on all that are up to the last
\* without TTL, and behind the first KeepNoTtl only the last of the list is without.
THEOREM ListIsLimited == Spec => LimitsHold
<1>1. ASSUME IInv, [Next]_vars, messages' # messages
      PROVE  /\ \A i \in DOMAIN messages' :
                  /\ ~TooOld(messages'[i])
                  /\ Expired(messages'[i]) => BornExpired(messages'[i])
             /\ Len(messages') <= KeepAll + 1
             /\ Cardinality(NoTtlAt(messages')) <= KeepNoTtl + 1
  <2>1. Committed(messages', FALSE) \/ Committed(messages', TRUE)
    BY <1>1, StepCommits
  <2> QED
    BY <1>1, <2>1, CommittedIsLimited
<1>2. IInv /\ [Next]_vars =>
        [messages' # messages =>
           /\ \A i \in DOMAIN messages' :
                /\ ~TooOld(messages'[i])
                /\ Expired(messages'[i]) => BornExpired(messages'[i])
           /\ Len(messages') <= KeepAll + 1
           /\ Cardinality(NoTtlAt(messages')) <= KeepNoTtl + 1]_vars
  BY <1>1
<1> QED
  BY <1>2, Invariance, PTL DEF Spec, LimitsHold

\* No message that was read is ever shown as unread, and none that was collected comes
\* back: what a request commits it made of the list as it is, and no identity is used
\* twice, as the last one given is the greatest.
THEOREM NothingIsBroughtBack == Spec => NothingComesBack
<1>1. ASSUME IInv, [Next]_vars
      PROVE  /\ \A id \in Ids(messages') : id \in Ids(messages) \/ id > created
             /\ \A i \in DOMAIN messages, j \in DOMAIN messages' :
                  messages[i].id = messages'[j].id /\ messages[i].read => messages'[j].read
  <2>1. /\ messages \in Seq(Message) /\ DOMAIN messages = 1 .. Len(messages)
        /\ Len(messages) \in Nat /\ created \in Nat
        /\ \A i \in 1 .. Len(messages) : messages[i].id \in Nat /\ messages[i].id <= created
    <3>1. messages \in Seq(Message) /\ DOMAIN messages = 1 .. Len(messages) /\ Len(messages) \in Nat
      BY <1>1, LenProperties DEF IInv, TypeOK
    <3>2. \A i \in 1 .. Len(messages) : messages[i] \in Message
      BY <3>1, ElementOfSeq
    <3> QED
      BY <1>1, <3>1, <3>2, Fields DEF IInv, TypeOK, ListInv
  <2>2. \A i, j \in 1 .. Len(messages) : messages[i].id = messages[j].id => i = j
    <3>1. \A i, j \in 1 .. Len(messages) : i < j => messages[i].id < messages[j].id
      BY <1>1, <2>1 DEF IInv, TypeOK
    <3>2. \A i, j \in 1 .. Len(messages) : i = j \/ i < j \/ j < i
      BY <2>1
    <3> QED
      BY <2>1, <3>1, <3>2
  <2>3. CASE messages' = messages
    BY <2>1, <2>2, <2>3 DEF Ids
  <2>4. CASE messages' # messages
    <3>1. PICK last \in BOOLEAN : Committed(messages', last)
      BY <1>1, <2>4, StepCommits
    <3>2. DOMAIN messages' = 1 .. Len(messages')
      BY <3>1, LenProperties DEF Committed
    <3>3. \A i \in 1 .. Len(messages') :
             \/ \E j \in 1 .. Len(messages) :
                  /\ messages'[i].id = messages[j].id
                  /\ messages[j].read => messages'[i].read
             \/ messages'[i].id = created + 1
      BY <3>1 DEF Committed
    <3>4. ASSUME NEW id \in Ids(messages')
          PROVE  id \in Ids(messages) \/ id > created
      <4>1. PICK i \in 1 .. Len(messages') : id = messages'[i].id
        BY <3>2 DEF Ids
      <4>2. CASE id = created + 1
        BY <2>1, <4>2
      <4>3. CASE \E j \in 1 .. Len(messages) : id = messages[j].id
        BY <2>1, <4>3 DEF Ids
      <4> QED
        BY <3>3, <4>1, <4>2, <4>3
    <3>5. ASSUME NEW i \in 1 .. Len(messages), NEW j \in 1 .. Len(messages'),
                 messages[i].id = messages'[j].id, messages[i].read
          PROVE  messages'[j].read
      <4>1. messages'[j].id # created + 1
        BY <2>1, <3>5
      <4>2. PICK k \in 1 .. Len(messages) :
               messages'[j].id = messages[k].id /\ (messages[k].read => messages'[j].read)
        BY <3>3, <4>1
      <4>3. k = i
        BY <2>2, <3>5, <4>2
      <4> QED
        BY <3>5, <4>2, <4>3
    <3> QED
      BY <2>1, <3>2, <3>4, <3>5
  <2> QED
    BY <2>3, <2>4
<1>2. IInv /\ [Next]_vars =>
        [/\ \A id \in Ids(messages') : id \in Ids(messages) \/ id > created
         /\ \A i \in DOMAIN messages, j \in DOMAIN messages' :
              messages[i].id = messages'[j].id /\ messages[i].read => messages'[j].read]_vars
  BY <1>1
<1> QED
  BY <1>2, Invariance, PTL DEF Spec, NothingComesBack

-----------------------------------------------------------------------------
(* The layout of the tests.                                                *)

\* Positions in order that are the same in all are the same one by one.
LEMMA SamePositions ==
    ASSUME NEW m \in Nat, NEW n \in Nat, NEW p \in [1 .. m -> Nat], NEW q \in [1 .. n -> Nat],
           \A i, j \in 1 .. m : i < j => p[i] < p[j],
           \A i, j \in 1 .. n : i < j => q[i] < q[j],
           {p[i] : i \in 1 .. m} = {q[i] : i \in 1 .. n}
    PROVE  m <= n /\ \A i \in 1 .. m : p[i] = q[i]
<1> DEFINE Good == {d \in Nat : \A i \in 1 .. m : i <= d => i <= n /\ p[i] = q[i]}
<1>1. /\ \A i \in 1 .. m : p[i] \in Int /\ \E j \in 1 .. n : q[j] = p[i]
      /\ \A i \in 1 .. n : q[i] \in Int /\ \E j \in 1 .. m : p[j] = q[i]
  <2>1. \A i \in 1 .. m : p[i] \in Int /\ p[i] \in {p[j] : j \in 1 .. m}
    OBVIOUS
  <2>2. \A i \in 1 .. n : q[i] \in Int /\ q[i] \in {q[j] : j \in 1 .. n}
    OBVIOUS
  <2>3. \A i \in 1 .. m : p[i] \in {q[j] : j \in 1 .. n}
    BY <2>1, Zenon
  <2>4. \A i \in 1 .. n : q[i] \in {p[j] : j \in 1 .. m}
    BY <2>2, Zenon
  <2> QED
    BY <2>1, <2>2, <2>3, <2>4
<1>2. 0 \in Good
  OBVIOUS
<1>3. ASSUME NEW d \in Good
      PROVE  d + 1 \in Good
  <2>1. d \in Nat /\ \A i \in 1 .. m : i <= d => i <= n /\ p[i] = q[i]
    OBVIOUS
  <2> SUFFICES ASSUME d + 1 <= m
               PROVE  d + 1 <= n /\ p[d + 1] = q[d + 1]
    <3>1. \A i \in 1 .. m : i <= d + 1 => i <= d \/ (i = d + 1 /\ d + 1 <= m)
      BY <2>1
    <3> QED
      BY <2>1, <3>1
  <2> HIDE DEF Good
  <2>2. d + 1 \in 1 .. m
    BY <2>1
  <2>3. PICK j \in 1 .. n : q[j] = p[d + 1]
    BY <1>1, <2>2
  <2>4. ~(j <= d)
    <3> SUFFICES ASSUME j <= d
                 PROVE  FALSE
      OBVIOUS
    <3>1. j \in 1 .. m /\ j < d + 1
      BY <2>1, <2>2
    <3>2. p[j] = q[j] /\ p[j] < p[d + 1]
      BY <2>1, <2>2, <3>1
    <3> QED
      BY <1>1, <2>2, <2>3, <3>1, <3>2
  <2>5. d + 1 <= n /\ d + 1 \in 1 .. n /\ (j = d + 1 \/ d + 1 < j)
    BY <2>1, <2>4
  <2>6. ~(d + 1 < j)
    <3> SUFFICES ASSUME d + 1 < j
                 PROVE  FALSE
      OBVIOUS
    <3>1. q[d + 1] < q[j]
      BY <2>5
    <3>2. PICK l \in 1 .. m : p[l] = q[d + 1]
      BY <1>1, <2>5
    <3>3. p[l] < p[d + 1] /\ p[l] \in Int /\ p[d + 1] \in Int
      BY <1>1, <2>2, <2>3, <3>1, <3>2
    <3>4. l < d + 1
      <4>1. l = d + 1 \/ d + 1 < l \/ l < d + 1
        BY <2>1
      <4>2. d + 1 < l => p[d + 1] < p[l]
        BY <2>2
      <4> QED
        BY <3>3, <4>1, <4>2
    <3>5. l <= d
      BY <2>1, <3>4
    <3>6. l <= n /\ p[l] = q[l]
      BY <2>1, <3>5
    <3>7. l \in 1 .. n
      BY <3>6
    <3>8. q[l] < q[d + 1]
      BY <2>5, <3>4, <3>7
    <3> QED
      BY <1>1, <2>5, <3>2, <3>6, <3>8
  <2> QED
    BY <2>3, <2>5, <2>6
<1>4. \A d \in Nat : \A i \in 1 .. m : i <= d => i <= n /\ p[i] = q[i]
  <2>1. Good \in SUBSET Nat
    OBVIOUS
  <2>2. \A d \in Good : \A i \in 1 .. m : i <= d => i <= n /\ p[i] = q[i]
    OBVIOUS
  <2> HIDE DEF Good
  <2>3. Good = Nat
    BY <1>2, <1>3, <2>1, NumberInduction
  <2> QED
    BY <2>2, <2>3
<1>5. \A i \in 1 .. m : i <= n /\ p[i] = q[i]
  <2>1. \A i \in 1 .. m : i <= m
    OBVIOUS
  <2> QED
    BY <1>4, <2>1
<1>6. m # 0 => m \in 1 .. m
  OBVIOUS
<1> QED
  BY <1>5, <1>6

\* Parts with the same positions are the same.
LEMMA SamePart ==
    ASSUME NEW ms \in Seq(Message), NEW r \in Seq(Message), NEW s \in Seq(Message),
           NEW p, NEW q, Picks(r, ms, p), Picks(s, ms, q),
           {p[i] : i \in 1 .. Len(r)} = {q[i] : i \in 1 .. Len(s)}
    PROVE  r = s
<1>1. Len(r) \in Nat /\ Len(s) \in Nat /\ Len(ms) \in Nat
  BY LenProperties
<1>2. /\ p \in [1 .. Len(r) -> 1 .. Len(ms)] /\ q \in [1 .. Len(s) -> 1 .. Len(ms)]
      /\ \A i, j \in 1 .. Len(r) : i < j => p[i] < p[j]
      /\ \A i, j \in 1 .. Len(s) : i < j => q[i] < q[j]
      /\ \A i \in 1 .. Len(r) : r[i] = ms[p[i]]
      /\ \A i \in 1 .. Len(s) : s[i] = ms[q[i]]
  BY DEF Picks
<1>3. p \in [1 .. Len(r) -> Nat] /\ q \in [1 .. Len(s) -> Nat]
  <2>1. \A i \in 1 .. Len(ms) : i \in Nat
    BY <1>1
  <2> QED
    BY <1>2, <2>1
<1>4. Len(r) <= Len(s) /\ \A i \in 1 .. Len(r) : p[i] = q[i]
  BY <1>1, <1>2, <1>3, SamePositions
<1>5. Len(s) <= Len(r)
  BY <1>1, <1>2, <1>3, SamePositions
<1>6. Len(r) = Len(s)
  BY <1>1, <1>4, <1>5
<1>7. \A i \in 1 .. Len(r) : r[i] = s[i]
  BY <1>2, <1>4, <1>6
<1> QED
  BY <1>6, <1>7, SeqEqual

\* In the layout of the tests the messages without TTL come first.
LEMMA GroupedFirst ==
    ASSUME NEW ms \in Seq(Message), Grouped(ms)
    PROVE  /\ NoTtlAt(ms) = 1 .. LastNoTtl(ms)
           /\ \A i \in 1 .. Len(ms) : NoTtl(ms[i]) <=> i <= LastNoTtl(ms)
<1> DEFINE L == LastNoTtl(ms)
<1>1. /\ Len(ms) \in Nat /\ DOMAIN ms = 1 .. Len(ms) /\ L \in 0 .. Len(ms)
      /\ L # 0 => L \in NoTtlAt(ms)
      /\ \A i \in 1 .. Len(ms) : NoTtl(ms[i]) => i <= L
  BY LenProperties, LastNoTtlIsLast
<1>2. \A i \in NoTtlAt(ms) : 1 .. i \subseteq NoTtlAt(ms)
  BY DEF Grouped
<1> HIDE DEF L
<1>3. 1 .. L \subseteq NoTtlAt(ms)
  BY <1>1, <1>2
<1>4. \A i \in NoTtlAt(ms) : i \in 1 .. Len(ms) /\ NoTtl(ms[i])
  BY <1>1 DEF NoTtlAt
<1>5. \A i \in NoTtlAt(ms) : i \in 1 .. L
  BY <1>1, <1>4
<1>6. \A i \in 1 .. Len(ms) : i <= L => i \in 1 .. L
  BY <1>1
<1>7. NoTtlAt(ms) = 1 .. L
  BY <1>3, <1>5
<1>8. \A i \in 1 .. Len(ms) : NoTtl(ms[i]) <=> i <= L
  BY <1>1, <1>3, <1>4, <1>6
<1> QED
  BY <1>7, <1>8 DEF L

\* Then every offset is 0 and the trimming takes the oldest messages without TTL, all
\* but the last KeepNoTtl.
LEMMA GroupedTrim ==
    ASSUME NEW ms \in Seq(Message), Grouped(ms)
    PROVE  /\ ~TrimPanics(ms)
           /\ \A i \in 1 .. Len(ms) - ToTrim(ms) : TrimNoTtl(ms)[i] = ms[i + ToTrim(ms)]
<1> DEFINE d == ToTrim(ms)
           N == Len(ms)
           L == LastNoTtl(ms)
<1>1. N \in Nat /\ d \in 0 .. N /\ L \in 0 .. N /\ DOMAIN ToRemove(ms) = 1 .. d
  BY LenProperties, OffsetsUsed, LastNoTtlIsLast
<1>2. NoTtlAt(ms) = 1 .. L
  BY GroupedFirst
<1> HIDE DEF d, N, L
<1>3. ASSUME NEW j \in 1 .. L
      PROVE  Min({i \in NoTtlAt(ms) : i >= j}) - j = 0
  <2> DEFINE S == {i \in 1 .. L : i >= j}
  <2>1. j \in S /\ S \in SUBSET Nat /\ \A i \in S : i \in Nat /\ i >= j
    BY <1>1
  <2> HIDE DEF S
  <2>2. Min(S) \in S /\ Min(S) <= j
    BY <2>1, MinIsLeast
  <2>3. j \in Nat
    BY <1>1
  <2>4. Min(S) = j
    <3>1. Min(S) \in Nat /\ Min(S) >= j
      BY <2>1, <2>2
    <3> QED
      BY <2>2, <2>3, <3>1
  <2>5. S = {i \in NoTtlAt(ms) : i >= j}
    BY <1>2 DEF S
  <2> QED
    BY <2>3, <2>4, <2>5
<1>4. \A k \in 1 .. d : ToRemove(ms)[k] = 0
  <2>1. \A k \in 1 .. d : \E j \in 1 .. L :
          ToRemove(ms)[k] = Min({i \in NoTtlAt(ms) : i >= j}) - j
    BY OffsetsUsed DEF d, L
  <2> QED
    BY <1>3, <2>1
<1>5. ~TrimPanics(ms)
  <2>1. \A k \in 1 .. d : ~(ToRemove(ms)[k] > N - k)
    BY <1>1, <1>4
  <2> QED
    BY <1>1, <2>1 DEF TrimPanics, N
<1>6. PICK h : IsTrimming(h, ms) /\ TrimNoTtl(ms) = h[d]
  BY <1>5, TrimSteps DEF d
<1>7. /\ \A k \in 0 .. d : h[k] \in Seq(Message) /\ Len(h[k]) = N - k
      /\ \A k \in 1 .. d : h[k] = RemoveAt(h[k - 1], ToRemove(ms)[k] + 1)
      /\ h[0] = ms
  BY <1>5, <1>6, TrimmingSteps DEF d, N, IsTrimming
<1> DEFINE Good == {k \in Nat : k <= d => \A i \in 1 .. N - k : h[k][i] = ms[i + k]}
<1>8. 0 \in Good
  <2>1. \A i \in 1 .. N - 0 : i + 0 = i
    BY <1>1
  <2> QED
    BY <1>7, <2>1
<1>9. ASSUME NEW k \in Good
      PROVE  k + 1 \in Good
  <2> SUFFICES ASSUME k + 1 <= d, NEW i \in 1 .. N - (k + 1)
               PROVE  h[k + 1][i] = ms[i + (k + 1)]
    OBVIOUS
  <2>2. k \in Nat /\ \A j \in 1 .. N - k : k <= d => h[k][j] = ms[j + k]
    OBVIOUS
  <2> HIDE DEF Good
  <2>1. /\ k <= d /\ k \in 0 .. d /\ k + 1 \in 1 .. d /\ (k + 1) - 1 = k
        /\ i + 1 \in 1 .. N - k /\ (i + 1) + k = i + (k + 1) /\ ~(i < 1)
        /\ i \in 1 .. (N - k) - 1 /\ 1 \in 1 .. N - k
    <3>1. d \in Int /\ d <= N
      BY <1>1
    <3>2. i \in Int /\ 1 <= i /\ i <= N - (k + 1)
      BY <1>1, <2>2
    <3> QED
      BY <1>1, <2>2, <3>1, <3>2
  <2>3. h[k + 1] = RemoveAt(h[k], 1)
    <3>1. ToRemove(ms)[k + 1] + 1 = 1
      BY <1>4, <2>1
    <3> QED
      BY <1>7, <2>1, <3>1
  <2>4. h[k] \in Seq(Message) /\ Len(h[k]) = N - k
    BY <1>7, <2>1
  <2>5. \A l \in 1 .. Len(h[k]) - 1 :
          RemoveAt(h[k], 1)[l] = IF l < 1 THEN h[k][l] ELSE h[k][l + 1]
    <3>1. 1 \in 1 .. Len(h[k])
      BY <2>1, <2>4
    <3> QED
      BY <2>4, <3>1, RemoveIsPart
  <2>6. RemoveAt(h[k], 1)[i] = h[k][i + 1]
    BY <2>1, <2>4, <2>5
  <2> QED
    BY <2>1, <2>2, <2>3, <2>6
<1>10. \A k \in Nat : k <= d => \A i \in 1 .. N - k : h[k][i] = ms[i + k]
  <2>1. Good \in SUBSET Nat
    OBVIOUS
  <2>2. \A k \in Good : k <= d => \A i \in 1 .. N - k : h[k][i] = ms[i + k]
    OBVIOUS
  <2> HIDE DEF Good
  <2>3. Good = Nat
    BY <1>8, <1>9, <2>1, NumberInduction
  <2> QED
    BY <2>2, <2>3
<1>11. d \in Nat /\ d <= d
  BY <1>1
<1> QED
  BY <1>5, <1>6, <1>10, <1>11 DEF d, N

\* How many messages without TTL are newer than the k-th that has not expired: those
\* behind it, as none of them has expired and the list is in order.
LEMMA NewerNoTtl ==
    ASSUME NEW ms \in Seq(Message), InOrder(ms), NEW u \in Seq(Message), NEW p,
           Picks(u, ms, p),
           {p[i] : i \in 1 .. Len(u)} = {i \in DOMAIN ms : ~Expired(ms[i])},
           Grouped(u), NEW k \in 1 .. Len(u), k <= LastNoTtl(u)
    PROVE  Cardinality({i \in NoTtlAt(ms) : ms[i].id > ms[p[k]].id}) = LastNoTtl(u) - k
<1> DEFINE a == LastNoTtl(u)
           R == {i \in NoTtlAt(ms) : ms[i].id > ms[p[k]].id}
           f == [l \in k + 1 .. a |-> p[l]]
<1>1. /\ Len(u) \in Nat /\ a \in 0 .. Len(u) /\ Len(ms) \in Nat
      /\ DOMAIN ms = 1 .. Len(ms)
  BY LenProperties, LastNoTtlIsLast
<1>2. /\ \A i \in 1 .. Len(u) : p[i] \in 1 .. Len(ms) /\ u[i] = ms[p[i]]
      /\ \A i, j \in 1 .. Len(u) : i < j => p[i] < p[j]
  BY DEF Picks
<1>3. \A i \in 1 .. Len(u) : NoTtl(u[i]) <=> i <= a
  BY GroupedFirst
<1>4. \A i \in 1 .. Len(ms) : ~Expired(ms[i]) => \E l \in 1 .. Len(u) : p[l] = i
  <2>1. \A i \in 1 .. Len(ms) : ~Expired(ms[i]) => i \in {p[l] : l \in 1 .. Len(u)}
    BY <1>1
  <2> QED
    BY <2>1
<1>5. /\ \A i \in 1 .. Len(ms) : ms[i].id \in Nat
      /\ \A i, j \in 1 .. Len(ms) : i < j => ms[i].id < ms[j].id
  <2>1. \A i \in 1 .. Len(ms) : ms[i] \in Message
    BY ElementOfSeq
  <2> QED
    BY <1>1, <2>1, Fields DEF InOrder
<1> HIDE DEF a
<1>6. k \in Nat /\ k <= a /\ a \in Nat /\ a <= Len(u)
  BY <1>1 DEF a
<1>7. \A l \in k + 1 .. a : l \in 1 .. Len(u) /\ k < l /\ l <= a
  BY <1>1, <1>6
<1>8. \A l \in 1 .. Len(u) : k < l /\ l <= a => l \in k + 1 .. a
  BY <1>1, <1>6
<1>9. \A i \in R : i \in 1 .. Len(ms) /\ NoTtl(ms[i]) /\ ms[i].id > ms[p[k]].id
  BY <1>1 DEF NoTtlAt
<1>10. \A i \in 1 .. Len(ms) : NoTtl(ms[i]) /\ ms[i].id > ms[p[k]].id => i \in R
  BY <1>1 DEF NoTtlAt
<1> HIDE DEF R
<1>11. ASSUME NEW l \in k + 1 .. a
       PROVE  p[l] \in R
  <2>1. p[l] \in 1 .. Len(ms) /\ NoTtl(ms[p[l]]) /\ p[k] < p[l] /\ p[k] \in 1 .. Len(ms)
    BY <1>2, <1>3, <1>7
  <2>2. ms[p[k]].id < ms[p[l]].id /\ ms[p[k]].id \in Nat /\ ms[p[l]].id \in Nat
    BY <1>5, <2>1
  <2>3. ms[p[l]].id > ms[p[k]].id
    BY <2>2
  <2> QED
    BY <1>10, <2>1, <2>3
<1>12. ASSUME NEW i \in R
       PROVE  \E l \in k + 1 .. a : p[l] = i
  <2>1. i \in 1 .. Len(ms) /\ NoTtl(ms[i]) /\ ms[i].id > ms[p[k]].id
    BY <1>9
  <2>2. ~Expired(ms[i])
    BY <2>1 DEF Expired
  <2>3. PICK l \in 1 .. Len(u) : p[l] = i
    BY <1>4, <2>1, <2>2
  <2>4. l <= a
    BY <1>2, <1>3, <2>1, <2>3
  <2>5. k < l
    <3> SUFFICES ASSUME ~(k < l)
                 PROVE  FALSE
      OBVIOUS
    <3>1. l = k \/ l < k
      BY <1>1
    <3>2. l < k => ms[p[l]].id < ms[p[k]].id
      BY <1>2, <1>5
    <3>3. ms[p[l]].id > ms[p[k]].id /\ ms[p[l]].id \in Nat /\ ms[p[k]].id \in Nat
      BY <1>2, <1>5, <2>1, <2>3
    <3> QED
      BY <3>1, <3>2, <3>3
  <2> QED
    BY <1>8, <2>3, <2>4, <2>5
<1>13. \A l, m \in k + 1 .. a : p[l] = p[m] => l = m
  <2> SUFFICES ASSUME NEW l \in k + 1 .. a, NEW m \in k + 1 .. a, p[l] = p[m], l # m
               PROVE  FALSE
    OBVIOUS
  <2>1. l < m \/ m < l
    BY <1>6
  <2>2. p[l] \in Int /\ p[m] \in Int
    BY <1>1, <1>2, <1>7
  <2> QED
    BY <1>2, <1>7, <2>1, <2>2
<1>14. f \in Bijection(k + 1 .. a, R)
  <2>1. f \in [k + 1 .. a -> R] /\ DOMAIN f = k + 1 .. a /\ \A l \in k + 1 .. a : f[l] = p[l]
    BY <1>11
  <2> HIDE DEF f
  <2>2. IsInjective(f)
    BY <1>13, <2>1 DEF IsInjective
  <2> QED
    BY <1>12, <2>1, <2>2 DEF Bijection, Injection, Surjection
<1>15. IsFiniteSet(k + 1 .. a) /\ Cardinality(k + 1 .. a) = a - k
  <2>1. k + 1 \in Int /\ a \in Int
    BY <1>6
  <2>2. /\ IsFiniteSet(k + 1 .. a)
        /\ Cardinality(k + 1 .. a) = IF k + 1 > a THEN 0 ELSE a - (k + 1) + 1
    BY <2>1, FS_Interval
  <2> QED
    BY <1>6, <2>2
<1>16. Cardinality(R) = Cardinality(k + 1 .. a)
  <2>1. ExistsBijection(k + 1 .. a, R)
    BY <1>14 DEF ExistsBijection
  <2> QED
    BY <1>15, <2>1, FS_Bijection
<1> QED
  BY <1>15, <1>16 DEF R, a

\* Then the collection keeps what MESSAGES.md promises: a message without TTL has fewer
\* than KeepNoTtl newer ones exactly when the trimming does not take it.
LEMMA GroupedIsPromised ==
    ASSUME IInv
    PROVE  GroupedAsPromised
<1> DEFINE ms == messages
           u == Unexpired(ms)
           t == TrimNoTtl(u)
           n == NotTooOld(t)
           P == {i \in DOMAIN ms : ~Expired(ms[i])}
           Q == {i \in DOMAIN t : ~TooOld(t[i])}
           newer(j) == Cardinality({i \in NoTtlAt(ms) : ms[i].id > ms[j].id})
           K == {j \in DOMAIN ms : /\ ~Expired(ms[j]) /\ ~TooOld(ms[j])
                                   /\ NoTtl(ms[j]) => newer(j) < KeepNoTtl}
           w == Kept(ms, K)
<1> SUFFICES ASSUME Grouped(u)
             PROVE  ~CleanupPanics /\ Cleanup = Promised(ms)
  BY DEF GroupedAsPromised, CollectedAsPromised
<1>1. /\ ms \in Seq(Message) /\ InOrder(ms) /\ Len(ms) \in Nat /\ DOMAIN ms = 1 .. Len(ms)
      /\ KeepNoTtl \in Nat \ {0}
  BY LenProperties, MessagesAssumption DEF IInv, TypeOK, InOrder
<1>2. Promised(ms) = LastN(w)
  BY DEF Promised
<1>3. Cleanup = LastN(n) /\ (CleanupPanics <=> TrimPanics(u))
  BY DEF Cleanup, CleanupPanics
<1>4. P \in SUBSET DOMAIN ms /\ K \in SUBSET DOMAIN ms /\ Q \in SUBSET DOMAIN t
  OBVIOUS
<1>5. /\ \A j \in P : j \in 1 .. Len(ms) /\ ~Expired(ms[j])
      /\ \A j \in 1 .. Len(ms) : ~Expired(ms[j]) => j \in P
      /\ \A j \in K : /\ j \in 1 .. Len(ms) /\ ~Expired(ms[j]) /\ ~TooOld(ms[j])
                      /\ NoTtl(ms[j]) => newer(j) < KeepNoTtl
      /\ \A j \in 1 .. Len(ms) :
           ~Expired(ms[j]) /\ ~TooOld(ms[j]) /\ (NoTtl(ms[j]) => newer(j) < KeepNoTtl) => j \in K
  BY <1>1
<1>6. u = Kept(ms, P) /\ n = Kept(t, Q)
  BY DEF Unexpired, NotTooOld
<1>7. PICK p : u \in Seq(Message) /\ Picks(u, ms, p) /\ {p[i] : i \in 1 .. Len(u)} = P
  <2> HIDE DEF u, P
  <2>1. /\ Kept(ms, P) \in Seq(Message)
        /\ \E p : Picks(Kept(ms, P), ms, p) /\ {p[i] : i \in 1 .. Len(Kept(ms, P))} = P
    BY <1>1, <1>4, KeptIsPart
  <2> QED
    BY <1>6, <2>1
<1>8. ~TrimPanics(u)
  BY <1>7, GroupedTrim
<1>9. /\ t \in Seq(Message) /\ Len(t) = Len(u) - ToTrim(u) /\ Len(t) \in Nat
      /\ DOMAIN t = 1 .. Len(t)
      /\ \A i \in 1 .. Len(u) - ToTrim(u) : t[i] = u[i + ToTrim(u)]
  BY <1>7, <1>8, TrimIsPart, GroupedTrim, LenProperties
<1>10. /\ \A i \in Q : i \in 1 .. Len(t) /\ ~TooOld(t[i])
       /\ \A i \in 1 .. Len(t) : ~TooOld(t[i]) => i \in Q
  BY <1>9
<1>11. \A k \in 1 .. Len(u) : k <= LastNoTtl(u) => newer(p[k]) = LastNoTtl(u) - k
  <2>1. Grouped(u)
    OBVIOUS
  <2> HIDE DEF u, ms
  <2>2. u \in Seq(Message) /\ Picks(u, ms, p)
    BY <1>7
  <2>3. {p[i] : i \in 1 .. Len(u)} = {i \in DOMAIN ms : ~Expired(ms[i])}
    BY <1>7
  <2>4. ms \in Seq(Message) /\ InOrder(ms)
    BY <1>1
  <2>5. ASSUME NEW k \in 1 .. Len(u), k <= LastNoTtl(u)
        PROVE  Cardinality({i \in NoTtlAt(ms) : ms[i].id > ms[p[k]].id}) = LastNoTtl(u) - k
    BY <2>1, <2>2, <2>3, <2>4, <2>5, NewerNoTtl
  <2> QED
    BY <2>5
<1> DEFINE a == LastNoTtl(u)
           d == ToTrim(u)
<1>12. /\ a \in 0 .. Len(u) /\ Len(u) \in Nat /\ \A i \in 1 .. Len(u) : NoTtl(u[i]) <=> i <= a
       /\ d = IF a > KeepNoTtl THEN a - KeepNoTtl ELSE 0
  BY <1>7, LastNoTtlIsLast, GroupedFirst, LenProperties DEF ToTrim
<1> HIDE DEF newer
<1>13. PICK o : Picks(n, t, o) /\ {o[i] : i \in 1 .. Len(n)} = Q /\ n \in Seq(Message)
  <2> HIDE DEF n, t, Q
  <2>1. /\ Kept(t, Q) \in Seq(Message)
        /\ \E o : Picks(Kept(t, Q), t, o) /\ {o[i] : i \in 1 .. Len(Kept(t, Q))} = Q
    BY <1>4, <1>9, KeptIsPart
  <2> QED
    BY <1>6, <2>1
<1>14. PICK x : Picks(w, ms, x) /\ {x[i] : i \in 1 .. Len(w)} = K /\ w \in Seq(Message)
  <2> HIDE DEF K
  <2> QED
    BY <1>1, <1>4, KeptIsPart
<1> DEFINE y == [i \in 1 .. Len(n) |-> p[o[i] + d]]
<1> HIDE DEF n, w, t, u, P, Q, K, a, d, ms
<1>15. /\ \A i \in 1 .. Len(u) : p[i] \in 1 .. Len(ms) /\ u[i] = ms[p[i]] /\ p[i] \in P
       /\ \A i, j \in 1 .. Len(u) : i < j => p[i] < p[j]
       /\ \A j \in P : \E i \in 1 .. Len(u) : p[i] = j
  <2>1. \A i \in 1 .. Len(u) : p[i] \in {p[l] : l \in 1 .. Len(u)}
    OBVIOUS
  <2>2. \A j \in {p[l] : l \in 1 .. Len(u)} : \E i \in 1 .. Len(u) : p[i] = j
    OBVIOUS
  <2> QED
    BY <1>7, <2>1, <2>2 DEF Picks
<1>16. /\ \A i \in 1 .. Len(n) : o[i] \in 1 .. Len(t) /\ n[i] = t[o[i]] /\ o[i] \in Q
       /\ \A i, j \in 1 .. Len(n) : i < j => o[i] < o[j]
       /\ \A j \in Q : \E i \in 1 .. Len(n) : o[i] = j
  <2>1. \A i \in 1 .. Len(n) : o[i] \in {o[l] : l \in 1 .. Len(n)}
    OBVIOUS
  <2>2. \A j \in {o[l] : l \in 1 .. Len(n)} : \E i \in 1 .. Len(n) : o[i] = j
    OBVIOUS
  <2> QED
    BY <1>13, <2>1, <2>2 DEF Picks
<1>17. /\ d \in Nat
       /\ \A i \in 1 .. Len(t) : /\ i + d \in 1 .. Len(u)
                                 /\ t[i] = u[i + d] /\ t[i] = ms[p[i + d]]
  <2>1. d \in Nat
    BY <1>1, <1>12
  <2>2. Len(t) = Len(u) - d /\ \A i \in 1 .. Len(u) - d : t[i] = u[i + d]
    BY <1>9 DEF d
  <2>3. \A i \in 1 .. Len(t) : i + d \in 1 .. Len(u) /\ t[i] = u[i + d]
    BY <1>12, <2>1, <2>2
  <2> QED
    BY <1>15, <2>1, <2>3
<1>18. Picks(n, ms, y)
  <2>1. \A i \in 1 .. Len(n) : y[i] = p[o[i] + d] /\ y[i] \in 1 .. Len(ms) /\ n[i] = ms[y[i]]
    BY <1>15, <1>16, <1>17
  <2>2. ASSUME NEW i \in 1 .. Len(n), NEW j \in 1 .. Len(n), i < j
        PROVE  y[i] < y[j]
    <3>1. o[i] < o[j] /\ o[i] \in 1 .. Len(t) /\ o[j] \in 1 .. Len(t)
      BY <1>16, <2>2
    <3>2. o[i] + d < o[j] + d /\ o[i] + d \in 1 .. Len(u) /\ o[j] + d \in 1 .. Len(u)
      BY <1>9, <1>17, <3>1
    <3> QED
      BY <1>15, <2>1, <3>2
  <2>3. y \in [1 .. Len(n) -> 1 .. Len(ms)]
    BY <2>1
  <2> HIDE DEF y
  <2> QED
    BY <2>1, <2>2, <2>3 DEF Picks
<1>19. ASSUME NEW i \in Q
       PROVE  p[i + d] \in K
  <2>1. i \in 1 .. Len(t) /\ i + d \in 1 .. Len(u) /\ t[i] = ms[p[i + d]] /\ u[i + d] = t[i]
    BY <1>10, <1>17
  <2>2. ~Expired(ms[p[i + d]]) /\ ~TooOld(ms[p[i + d]]) /\ p[i + d] \in 1 .. Len(ms)
    BY <1>5, <1>10, <1>15, <2>1
  <2>3. ASSUME NoTtl(ms[p[i + d]])
        PROVE  newer(p[i + d]) < KeepNoTtl
    <3>1. i + d <= a
      BY <1>12, <2>1, <2>3
    <3>2. newer(p[i + d]) = a - (i + d)
      BY <1>11, <2>1, <3>1 DEF a
    <3> QED
      BY <1>1, <1>9, <1>12, <2>1, <3>1, <3>2
  <2> QED
    BY <1>5, <2>2, <2>3
<1>20. ASSUME NEW j \in K
       PROVE  \E i \in Q : p[i + d] = j
  <2>1. j \in 1 .. Len(ms) /\ ~TooOld(ms[j]) /\ (NoTtl(ms[j]) => newer(j) < KeepNoTtl) /\ j \in P
    BY <1>5
  <2>2. PICK k \in 1 .. Len(u) : p[k] = j
    BY <1>15, <2>1
  <2>3. d < k
    <3>1. CASE k <= a
      <4>1. NoTtl(ms[j])
        BY <1>12, <1>15, <2>2, <3>1
      <4>2. a - k < KeepNoTtl
        BY <1>11, <2>1, <2>2, <3>1, <4>1 DEF a
      <4> QED
        BY <1>1, <1>12, <3>1, <4>2
    <3>2. CASE ~(k <= a)
      BY <1>1, <1>12, <3>2
    <3> QED
      BY <3>1, <3>2
  <2>4. k - d \in 1 .. Len(t) /\ (k - d) + d = k
    <3>1. Len(t) = Len(u) - d
      BY <1>9 DEF d
    <3> QED
      BY <1>12, <1>17, <2>3, <3>1
  <2>5. t[k - d] = ms[j]
    BY <1>17, <2>2, <2>4
  <2>6. k - d \in Q
    BY <1>10, <2>1, <2>4, <2>5
  <2> QED
    BY <2>2, <2>4, <2>6
<1>21. {y[i] : i \in 1 .. Len(n)} = K
  <2>1. \A i \in 1 .. Len(n) : y[i] = p[o[i] + d]
    OBVIOUS
  <2> HIDE DEF y
  <2>2. \A i \in 1 .. Len(n) : y[i] \in K
    BY <1>16, <1>19, <2>1
  <2>3. \A j \in K : \E i \in 1 .. Len(n) : y[i] = j
    BY <1>16, <1>20, <2>1
  <2> QED
    BY <2>2, <2>3
<1> HIDE DEF y
<1>22. n = w
  BY <1>1, <1>13, <1>14, <1>18, <1>21, SamePart
<1> QED
  BY <1>2, <1>3, <1>8, <1>22 DEF ms

\* On the layouts the tests try, the collection is right: for any limits, any list and
\* any time it keeps exactly the messages that MESSAGES.md promises.
THEOREM GroupedIsRight == Spec => []GroupedAsPromised
<1> QED
  BY GroupedIsPromised, Invariance, PTL

=============================================================================
