-------------------------- MODULE CollectivesProofs --------------------------
(***************************************************************************)
(* For any contexts, ranks and programs of calls: CollectivesInv is        *)
(* inductive and gives KeysClean, BarrierSafe and ResultCorrect.           *)
(***************************************************************************)
EXTENDS Collectives, FiniteSetTheorems, SequenceTheorems, WellFoundedInduction, TLAPS

-----------------------------------------------------------------------------
(* Numbers.                                                                *)

\* A set of numbers that is not empty has a least element.
LEMMA Least ==
  ASSUME NEW T \in SUBSET Nat, T # {}
  PROVE  \E x \in T : \A y \in T : x <= y
<1> DEFINE R == OpToRel(<, Nat)
<1>1. IsWellFoundedOn(R, Nat)
  BY NatLessThanWellFounded
<1>2. \A x, y \in Nat : x < y => <<x, y>> \in R
  BY DEF OpToRel
<1> HIDE DEF R
<1>3. PICK x \in T : \A y \in T : ~(<<y, x>> \in R)
  BY <1>1, WFMin
<1>4. \A y \in T : x <= y
  <2> SUFFICES ASSUME NEW y \in T PROVE ~(y < x)
    OBVIOUS
  <2>1. x \in Nat /\ y \in Nat
    OBVIOUS
  <2>2. QED
    BY <1>2, <1>3, <2>1
<1>5. QED
  BY <1>4

\* So has one that is bounded, a greatest.
LEMMA Greatest ==
  ASSUME NEW c \in Nat, NEW T \in SUBSET (0 .. c), T # {}
  PROVE  \E x \in T : \A y \in T : x >= y
<1> DEFINE U == {c - x : x \in T}
<1>1. U \in SUBSET Nat /\ U # {}
  <2>1. \A x \in T : c - x \in Nat
    OBVIOUS
  <2>2. PICK x : x \in T
    OBVIOUS
  <2>3. c - x \in U
    BY <2>2
  <2>4. QED
    BY <2>1, <2>3
<1>2. PICK u \in U : \A v \in U : u <= v
  BY <1>1, Least
<1>3. PICK x \in T : u = c - x
  OBVIOUS
<1>4. \A y \in T : c - y \in U
  OBVIOUS
<1> HIDE DEF U
<1>5. \A y \in T : x >= y
  BY <1>2, <1>3, <1>4
<1>6. QED
  BY <1>5

\* A set that holds 0, and the successors of its numbers, holds all of them.
LEMMA Induction ==
  ASSUME NEW S, 0 \in S, \A n \in Nat : n \in S => n + 1 \in S
  PROVE  Nat \subseteq S
<1> DEFINE T == Nat \ S
<1> SUFFICES ASSUME T # {} PROVE FALSE
  OBVIOUS
<1>1. T \in SUBSET Nat
  OBVIOUS
<1> HIDE DEF T
<1>2. PICK x \in T : \A y \in T : x <= y
  BY <1>1, Least
<1>3. x \in Nat /\ x \notin S /\ x # 0
  BY DEF T
<1>4. x - 1 \in Nat /\ x - 1 \notin T
  BY <1>2, <1>3
<1>5. QED
  BY <1>3, <1>4 DEF T

\* Min and Max are the least and the greatest of a set.
LEMMA MinLeast ==
  ASSUME NEW T \in SUBSET Nat, T # {}
  PROVE  Min(T) \in T /\ \A x \in T : Min(T) <= x
  BY Least DEF Min

LEMMA MaxGreatest ==
  ASSUME NEW c \in Nat, NEW T \in SUBSET (0 .. c), T # {}
  PROVE  Max(T) \in T /\ \A x \in T : Max(T) >= x
  BY Greatest DEF Max

-----------------------------------------------------------------------------
(* Shift.                                                                  *)

\* The values up to m of a function that doubles.
Doubling(f, m) == f = [k \in 0 .. m |-> IF k = 0 THEN 1 ELSE 2 * f[k - 1]]

LEMMA DoublingExists ==
  ASSUME NEW n \in Nat
  PROVE  \E f : Doubling(f, n)
<1> DEFINE S == {m \in Nat : \E f : Doubling(f, m)}
<1>1. 0 \in S
  <2> DEFINE f == [i \in 0 .. 0 |-> 1]
  <2>1. Doubling(f, 0)
    BY DEF Doubling
  <2> HIDE DEF f
  <2>2. QED
    BY <2>1
<1>2. ASSUME NEW m \in Nat, m \in S
      PROVE  m + 1 \in S
  <2>1. PICK f : Doubling(f, m)
    BY <1>2
  <2> DEFINE h == [i \in 0 .. m + 1 |-> IF i <= m THEN f[i] ELSE 2 * f[m]]
  <2>2. \A i \in 0 .. m : f[i] = IF i = 0 THEN 1 ELSE 2 * f[i - 1]
    BY <2>1 DEF Doubling
  <2>3. ASSUME NEW i \in 0 .. m + 1
        PROVE  h[i] = IF i = 0 THEN 1 ELSE 2 * h[i - 1]
    <3>1. CASE i <= m
      <4>1. i \in 0 .. m /\ (i # 0 => i - 1 \in 0 .. m + 1 /\ i - 1 <= m)
        BY <3>1
      <4>2. h[i] = f[i] /\ (i # 0 => h[i - 1] = f[i - 1])
        BY <3>1, <4>1
      <4> HIDE DEF h
      <4>3. QED
        BY <2>2, <4>1, <4>2
    <3>2. CASE ~(i <= m)
      <4>1. i = m + 1 /\ i # 0 /\ i - 1 = m /\ m \in 0 .. m + 1
        BY <3>2
      <4>2. h[i] = 2 * f[m] /\ h[m] = f[m]
        BY <3>2, <4>1
      <4> HIDE DEF h
      <4>3. QED
        BY <4>1, <4>2
    <3>3. QED
      BY <3>1, <3>2
  <2>4. h = [i \in 0 .. m + 1 |-> h[i]]
    OBVIOUS
  <2> HIDE DEF h
  <2>5. Doubling(h, m + 1)
    BY <2>3, <2>4, Zenon DEF Doubling
  <2>6. QED
    BY <2>5
<1>3. Nat \subseteq S
  <2> HIDE DEF S
  <2>1. QED
    BY <1>1, <1>2, Induction
<1>4. QED
  BY <1>3

\* Two of them agree.
LEMMA DoublingUnique ==
  ASSUME NEW k \in Nat, NEW m \in Nat, NEW n \in Nat, NEW f, NEW g, k <= m, k <= n,
         Doubling(f, m), Doubling(g, n)
  PROVE  f[k] = g[k]
<1> DEFINE S == {j \in Nat : j <= m /\ j <= n => f[j] = g[j]}
<1>1. /\ \A j \in 0 .. m : f[j] = IF j = 0 THEN 1 ELSE 2 * f[j - 1]
      /\ \A j \in 0 .. n : g[j] = IF j = 0 THEN 1 ELSE 2 * g[j - 1]
  BY DEF Doubling
<1>2. 0 \in S
  BY <1>1
<1>3. ASSUME NEW j \in Nat, j \in S
      PROVE  j + 1 \in S
  <2> SUFFICES ASSUME j + 1 <= m, j + 1 <= n PROVE f[j + 1] = g[j + 1]
    OBVIOUS
  <2>1. f[j] = g[j] /\ j + 1 \in 0 .. m /\ j + 1 \in 0 .. n /\ j + 1 # 0 /\ (j + 1) - 1 = j
    BY <1>3
  <2>2. f[j + 1] = 2 * f[j] /\ g[j + 1] = 2 * g[j]
    BY <1>1, <2>1
  <2>3. QED
    BY <2>1, <2>2
<1>4. Nat \subseteq S
  <2> HIDE DEF S
  <2>1. QED
    BY <1>2, <1>3, Induction
<1>5. QED
  BY <1>4

\* Shift is the function that its definition describes.
LEMMA ShiftDef ==
  Shift[0] = 1 /\ \A k \in Nat : Shift[k + 1] = 2 * Shift[k]
<1> DEFINE Is(f) == f = [k \in Nat |-> IF k = 0 THEN 1 ELSE 2 * f[k - 1]]
           part(k) == CHOOSE f : Doubling(f, k)
           h == [k \in Nat |-> part(k)[k]]
<1>1. \A k \in Nat : Doubling(part(k), k)
  BY DoublingExists
<1> HIDE DEF part
<1>2. ASSUME NEW k \in Nat
      PROVE  h[k] = IF k = 0 THEN 1 ELSE 2 * h[k - 1]
  <2>1. part(k)[k] = IF k = 0 THEN 1 ELSE 2 * part(k)[k - 1]
    BY <1>1 DEF Doubling
  <2>2. k # 0 => k - 1 \in Nat /\ k - 1 <= k
    OBVIOUS
  <2>3. k # 0 => part(k)[k - 1] = part(k - 1)[k - 1]
    BY <1>1, <2>2, DoublingUnique
  <2>4. h[k] = part(k)[k] /\ (k # 0 => h[k - 1] = part(k - 1)[k - 1])
    BY <2>2
  <2> HIDE DEF h
  <2>5. QED
    BY <2>1, <2>3, <2>4
<1>3. h = [k \in Nat |-> h[k]]
  OBVIOUS
<1> HIDE DEF h
<1>4. Is(h)
  BY <1>2, <1>3, Zenon
<1>5. Shift = CHOOSE f : Is(f)
  BY DEF Shift
<1>6. Is(Shift)
  <2> HIDE DEF Is
  <2>1. QED
    BY <1>4, <1>5
<1>7. \A k \in Nat : Shift[k] = IF k = 0 THEN 1 ELSE 2 * Shift[k - 1]
  BY <1>6
<1>8. ASSUME NEW k \in Nat PROVE Shift[k + 1] = 2 * Shift[k]
  <2>1. k + 1 \in Nat /\ k + 1 # 0 /\ (k + 1) - 1 = k
    OBVIOUS
  <2>2. QED
    BY <1>7, <2>1
<1>9. QED
  BY <1>7, <1>8

\* It grows.
LEMMA ShiftGrows ==
  \A k \in Nat : Shift[k] \in Nat /\ Shift[k] > k
<1> DEFINE S == {k \in Nat : Shift[k] \in Nat /\ Shift[k] > k}
<1>1. 0 \in S
  BY ShiftDef
<1>2. ASSUME NEW k \in Nat, k \in S PROVE k + 1 \in S
  BY <1>2, ShiftDef
<1>3. Nat \subseteq S
  <2> HIDE DEF S
  <2>1. QED
    BY <1>1, <1>2, Induction
<1>4. QED
  BY <1>3

LEMMA ShiftMonotone ==
  ASSUME NEW k \in Nat, NEW m \in Nat, k < m
  PROVE  2 * Shift[k] <= Shift[m]
<1> DEFINE S == {j \in Nat : 2 * Shift[k] <= Shift[k + 1 + j]}
<1>1. 0 \in S
  <2>1. k + 1 + 0 = k + 1
    OBVIOUS
  <2>2. Shift[k + 1 + 0] = 2 * Shift[k] /\ Shift[k] \in Nat
    BY <2>1, ShiftDef, ShiftGrows
  <2>3. QED
    BY <2>2
<1>2. ASSUME NEW j \in Nat, j \in S PROVE j + 1 \in S
  <2>1. k + 1 + j \in Nat /\ k + 1 + (j + 1) = (k + 1 + j) + 1
    OBVIOUS
  <2>2. Shift[k + 1 + (j + 1)] = 2 * Shift[k + 1 + j]
    BY <2>1, ShiftDef
  <2>3. Shift[k] \in Nat /\ Shift[k + 1 + j] \in Nat
    BY <2>1, ShiftGrows
  <2>4. QED
    BY <1>2, <2>2, <2>3
<1>3. Nat \subseteq S
  <2> HIDE DEF S
  <2>1. QED
    BY <1>1, <1>2, Induction
<1>4. m - k - 1 \in Nat /\ k + 1 + (m - k - 1) = m
  OBVIOUS
<1>5. m - k - 1 \in S
  BY <1>3, <1>4
<1>6. QED
  BY <1>4, <1>5

\* The round in which the offset has come to the size of the world.
LEMMA RoundsFacts ==
  ASSUME NEW n \in Nat
  PROVE  /\ Rounds(n) \in Nat /\ Shift[Rounds(n)] >= n
         /\ \A k \in Nat : k < Rounds(n) => Shift[k] < n
<1> DEFINE T == {k \in 0..n : Shift[k] >= n}
<1>1. T \in SUBSET Nat /\ n \in T
  BY ShiftGrows
<1>2. Rounds(n) = Min(T)
  BY DEF Rounds
<1>3. Min(T) \in T /\ \A x \in T : Min(T) <= x
  <2> HIDE DEF T
  <2>1. QED
    BY <1>1, MinLeast
<1>4. ASSUME NEW k \in Nat, k < Min(T)
      PROVE  Shift[k] < n
  <2>1. k \notin T /\ k \in 0..n /\ Shift[k] \in Nat
    BY <1>3, <1>4, ShiftGrows
  <2>2. QED
    BY <2>1
<1>5. QED
  BY <1>2, <1>3, <1>4

-----------------------------------------------------------------------------
(* Ranks.                                                                  *)

\* The remainder of a number below twice the divisor.
LEMMA ModOnce ==
  ASSUME NEW n \in Nat \ {0}, NEW x \in 0 .. (2 * n - 1)
  PROVE  x % n = IF x < n THEN x ELSE x - n
  OBVIOUS

LEMMA RankFacts ==
  ASSUME NEW n \in Nat \ {0}, NEW r \in 0 .. (n - 1), NEW s \in 0 .. n
  PROVE  /\ PrevRank(n, r, s) = IF r >= s THEN r - s ELSE r - s + n
         /\ s < n => NextRank(n, r, s) = IF r + s < n THEN r + s ELSE r + s - n
         /\ s < n => RingOffset(s, r, n) = IF r >= s THEN r - s ELSE r - s + n
<1>1. PICK x \in 0 .. (2 * n - 1) : x = r - s + n
  OBVIOUS
<1>2. x % n = IF x < n THEN x ELSE x - n
  BY ModOnce
<1>3. s < n => (r + s) % n = IF r + s < n THEN r + s ELSE r + s - n
  <2> SUFFICES ASSUME s < n PROVE (r + s) % n = IF r + s < n THEN r + s ELSE r + s - n
    OBVIOUS
  <2>1. PICK y \in 0 .. (2 * n - 1) : y = r + s
    OBVIOUS
  <2>2. y % n = IF y < n THEN y ELSE y - n
    BY ModOnce
  <2>3. QED
    BY <2>1, <2>2
<1>4. PrevRank(n, r, s) = x % n /\ RingOffset(s, r, n) = x % n
  BY <1>1 DEF PrevRank, RingOffset
<1>5. NextRank(n, r, s) = (r + s) % n
  BY DEF NextRank
<1>6. QED
  BY <1>1, <1>2, <1>3, <1>4, <1>5

\* A step, and the steps of a call: each at most once, and none with oneself.
StepSet(n, r) == [do : {"send", "recv"}, rank : (0 .. (n - 1)) \ {r}]

IsSteps(S, n, r) ==
  S \in Seq(StepSet(n, r)) /\ \A i, j \in 1 .. Len(S) : S[i] = S[j] => i = j

\* Each send of the steps S of rank r is received by the steps T(s) of rank s.
Answered(S, r, T, s) ==
  \A i \in 1 .. Len(S) : S[i] = SendTo(s) => \E j \in 1 .. Len(T) : T[j] = RecvFrom(r)

LEMMA StepFacts ==
  /\ \A q : /\ SendTo(q).do = "send" /\ RecvFrom(q).do = "recv"
            /\ SendTo(q).rank = q /\ RecvFrom(q).rank = q
  /\ \A q, s : SendTo(q) # RecvFrom(s)
  /\ \A q, s : (SendTo(q) = SendTo(s) \/ RecvFrom(q) = RecvFrom(s)) => q = s
  /\ \A n, r : \A q \in (0 .. (n - 1)) \ {r} :
       SendTo(q) \in StepSet(n, r) /\ RecvFrom(q) \in StepSet(n, r)
<1>1. \A q : /\ SendTo(q).do = "send" /\ RecvFrom(q).do = "recv"
             /\ SendTo(q).rank = q /\ RecvFrom(q).rank = q
  BY DEF SendTo, RecvFrom
<1>2. \A n, r : \A q \in (0 .. (n - 1)) \ {r} :
       SendTo(q) \in StepSet(n, r) /\ RecvFrom(q) \in StepSet(n, r)
  BY DEF SendTo, RecvFrom, StepSet
<1>3. \A q, s : SendTo(q) # RecvFrom(s)
  BY <1>1
<1>4. \A q, s : (SendTo(q) = SendTo(s) \/ RecvFrom(q) = RecvFrom(s)) => q = s
  <2>1. ASSUME NEW q, NEW s, SendTo(q) = SendTo(s) PROVE q = s
    <3>1. SendTo(q).rank = SendTo(s).rank
      BY <2>1
    <3>2. QED
      BY <1>1, <3>1
  <2>2. ASSUME NEW q, NEW s, RecvFrom(q) = RecvFrom(s) PROVE q = s
    <3>1. RecvFrom(q).rank = RecvFrom(s).rank
      BY <2>2
    <3>2. QED
      BY <1>1, <3>1
  <2>3. QED
    BY <2>1, <2>2
<1>5. QED
  BY <1>1, <1>2, <1>3, <1>4

\* A step is a send or a receive.
LEMMA StepKind ==
  ASSUME NEW n, NEW r, NEW x \in StepSet(n, r)
  PROVE  /\ x.rank \in (0 .. (n - 1)) \ {r}
         /\ x.do = "send" => x = SendTo(x.rank)
         /\ x.do = "recv" => x = RecvFrom(x.rank)
         /\ x.do \in {"send", "recv"}
  BY DEF StepSet, SendTo, RecvFrom

-----------------------------------------------------------------------------
(* Barrier.                                                                *)

LEMMA HalfFacts ==
  ASSUME NEW i \in Nat \ {0}
  PROVE  /\ (i - 1) \div 2 \in Nat
         /\ i % 2 \in {0, 1}
         /\ i = 2 * ((i - 1) \div 2) + (IF i % 2 = 1 THEN 1 ELSE 2)
  OBVIOUS

\* The steps: step 2k + 1 sends, step 2k + 2 receives, at offset Shift[k].
LEMMA BarrierRounds ==
  ASSUME NEW n \in Nat \ {0}, NEW r \in 0 .. (n - 1)
  PROVE  /\ Len(BarrierSteps(n, r)) = 2 * Rounds(n)
         /\ \A k \in 0 .. (Rounds(n) - 1) :
              /\ Shift[k] \in 1 .. (n - 1)
              /\ 2 * k + 1 \in 1 .. (2 * Rounds(n)) /\ 2 * k + 2 \in 1 .. (2 * Rounds(n))
              /\ BarrierSteps(n, r)[2 * k + 1] = SendTo(NextRank(n, r, Shift[k]))
              /\ BarrierSteps(n, r)[2 * k + 2] = RecvFrom(PrevRank(n, r, Shift[k]))
         /\ \A i \in 1 .. (2 * Rounds(n)) : \E k \in 0 .. (Rounds(n) - 1) :
              i = 2 * k + 1 \/ i = 2 * k + 2
<1> DEFINE S == BarrierSteps(n, r)
<1>1. Rounds(n) \in Nat /\ Shift[Rounds(n)] >= n /\ \A k \in Nat : k < Rounds(n) => Shift[k] < n
  BY RoundsFacts
<1>2. Len(S) = 2 * Rounds(n)
  BY <1>1 DEF BarrierSteps
<1>3. ASSUME NEW k \in 0 .. (Rounds(n) - 1)
      PROVE  /\ Shift[k] \in 1 .. (n - 1)
             /\ 2 * k + 1 \in 1 .. (2 * Rounds(n)) /\ 2 * k + 2 \in 1 .. (2 * Rounds(n))
             /\ S[2 * k + 1] = SendTo(NextRank(n, r, Shift[k]))
             /\ S[2 * k + 2] = RecvFrom(PrevRank(n, r, Shift[k]))
  <2>1. k \in Nat /\ 2 * k + 1 \in 1 .. (2 * Rounds(n)) /\ 2 * k + 2 \in 1 .. (2 * Rounds(n))
    BY <1>1
  <2>2. Shift[k] \in Nat /\ Shift[k] > k /\ Shift[k] < n
    BY <1>1, <2>1, ShiftGrows
  <2>3. /\ (2 * k + 1 - 1) \div 2 = k /\ (2 * k + 1) % 2 = 1
        /\ (2 * k + 2 - 1) \div 2 = k /\ (2 * k + 2) % 2 = 0
    BY <2>1
  <2>4. QED
    BY <2>1, <2>2, <2>3 DEF BarrierSteps
<1>4. ASSUME NEW i \in 1 .. (2 * Rounds(n))
      PROVE  \E k \in 0 .. (Rounds(n) - 1) : i = 2 * k + 1 \/ i = 2 * k + 2
  <2> DEFINE k == (i - 1) \div 2
  <2>1. k \in Nat /\ (i = 2 * k + 1 \/ i = 2 * k + 2)
    BY HalfFacts
  <2> HIDE DEF k
  <2>2. k \in 0 .. (Rounds(n) - 1)
    BY <1>1, <2>1
  <2>3. QED
    BY <2>1, <2>2
<1>5. QED
  BY <1>2, <1>3, <1>4

\* Each rank sends and receives once per round, to and from different ranks.
LEMMA BarrierIsSteps ==
  ASSUME NEW n \in Nat \ {0}, NEW r \in 0 .. (n - 1)
  PROVE  IsSteps(BarrierSteps(n, r), n, r)
<1> DEFINE S == BarrierSteps(n, r)
           R == Rounds(n)
<1>1. R \in Nat
  BY RoundsFacts
<1>2. /\ Len(S) = 2 * R
      /\ \A k \in 0 .. (R - 1) :
           /\ Shift[k] \in 1 .. (n - 1)
           /\ 2 * k + 1 \in 1 .. (2 * R) /\ 2 * k + 2 \in 1 .. (2 * R)
           /\ S[2 * k + 1] = SendTo(NextRank(n, r, Shift[k]))
           /\ S[2 * k + 2] = RecvFrom(PrevRank(n, r, Shift[k]))
      /\ \A i \in 1 .. (2 * R) : \E k \in 0 .. (R - 1) : i = 2 * k + 1 \/ i = 2 * k + 2
  BY BarrierRounds
<1>3. ASSUME NEW k \in 0 .. (R - 1)
      PROVE  /\ NextRank(n, r, Shift[k]) \in (0 .. (n - 1)) \ {r}
             /\ PrevRank(n, r, Shift[k]) \in (0 .. (n - 1)) \ {r}
             /\ NextRank(n, r, Shift[k]) = IF r + Shift[k] < n THEN r + Shift[k] ELSE r + Shift[k] - n
             /\ PrevRank(n, r, Shift[k]) = IF r >= Shift[k] THEN r - Shift[k] ELSE r - Shift[k] + n
  <2>1. PICK s \in 1 .. (n - 1) : s = Shift[k]
    BY <1>2
  <2>2. s \in 0 .. n /\ s < n
    OBVIOUS
  <2>3. /\ NextRank(n, r, s) = IF r + s < n THEN r + s ELSE r + s - n
        /\ PrevRank(n, r, s) = IF r >= s THEN r - s ELSE r - s + n
    BY <2>2, RankFacts
  <2>4. /\ NextRank(n, r, s) \in (0 .. (n - 1)) \ {r}
        /\ PrevRank(n, r, s) \in (0 .. (n - 1)) \ {r}
    BY <2>3
  <2>5. QED
    BY <2>1, <2>3, <2>4
<1>4. ASSUME NEW k \in 0 .. (R - 1)
      PROVE  S[2 * k + 1] \in StepSet(n, r) /\ S[2 * k + 2] \in StepSet(n, r)
  <2>1. /\ SendTo(NextRank(n, r, Shift[k])) \in StepSet(n, r)
        /\ RecvFrom(PrevRank(n, r, Shift[k])) \in StepSet(n, r)
    BY <1>3, StepFacts
  <2>2. QED
    BY <1>2, <2>1
<1>5. S \in Seq(StepSet(n, r))
  <2>1. S = [i \in 1 .. (2 * R) |-> S[i]]
    BY DEF BarrierSteps
  <2> HIDE DEF S
  <2>2. \A i \in 1 .. (2 * R) : S[i] \in StepSet(n, r)
    BY <1>2, <1>4
  <2> HIDE DEF R
  <2>3. 2 * R \in Nat
    BY <1>1
  <2>4. [i \in 1 .. (2 * R) |-> S[i]] \in Seq(StepSet(n, r))
    BY <2>2, <2>3
  <2>5. QED
    BY <2>1, <2>4
<1>6. ASSUME NEW k \in 0 .. (R - 1), NEW l \in 0 .. (R - 1), k # l
      PROVE  /\ NextRank(n, r, Shift[k]) # NextRank(n, r, Shift[l])
             /\ PrevRank(n, r, Shift[k]) # PrevRank(n, r, Shift[l])
  <2>1. PICK x \in 1 .. (n - 1), y \in 1 .. (n - 1) : x = Shift[k] /\ y = Shift[l]
    BY <1>2
  <2>2. x # y
    <3>1. k \in Nat /\ l \in Nat /\ (k < l \/ l < k)
      BY <1>6, <1>1
    <3>2. 2 * x <= y \/ 2 * y <= x
      BY <2>1, <3>1, ShiftMonotone
    <3>3. QED
      BY <3>2
  <2>3. QED
    BY <2>1, <2>2, <1>3
<1>7. ASSUME NEW i \in 1 .. Len(S), NEW j \in 1 .. Len(S), S[i] = S[j]
      PROVE  i = j
  <2>1. PICK k \in 0 .. (R - 1) : i = 2 * k + 1 \/ i = 2 * k + 2
    BY <1>2
  <2>2. PICK l \in 0 .. (R - 1) : j = 2 * l + 1 \/ j = 2 * l + 2
    BY <1>2
  <2>3. CASE i = 2 * k + 1 /\ j = 2 * l + 1
    <3>1. S[i] = SendTo(NextRank(n, r, Shift[k])) /\ S[j] = SendTo(NextRank(n, r, Shift[l]))
      BY <1>2, <2>3
    <3>2. NextRank(n, r, Shift[k]) = NextRank(n, r, Shift[l])
      BY <1>7, <3>1, StepFacts, ZenonT(60)
    <3>3. QED
      BY <1>6, <2>3, <3>2
  <2>4. CASE i = 2 * k + 2 /\ j = 2 * l + 2
    <3>1. S[i] = RecvFrom(PrevRank(n, r, Shift[k])) /\ S[j] = RecvFrom(PrevRank(n, r, Shift[l]))
      BY <1>2, <2>4
    <3>2. PrevRank(n, r, Shift[k]) = PrevRank(n, r, Shift[l])
      BY <1>7, <3>1, StepFacts, ZenonT(60)
    <3>3. QED
      BY <1>6, <2>4, <3>2
  <2>5. CASE i = 2 * k + 1 /\ j = 2 * l + 2
    <3>1. S[i] = SendTo(NextRank(n, r, Shift[k])) /\ S[j] = RecvFrom(PrevRank(n, r, Shift[l]))
      BY <1>2, <2>5
    <3>2. QED
      BY <1>7, <3>1, StepFacts
  <2>6. CASE i = 2 * k + 2 /\ j = 2 * l + 1
    <3>1. S[i] = RecvFrom(PrevRank(n, r, Shift[k])) /\ S[j] = SendTo(NextRank(n, r, Shift[l]))
      BY <1>2, <2>6
    <3>2. QED
      BY <1>7, <3>1, StepFacts
  <2>7. QED
    BY <2>1, <2>2, <2>3, <2>4, <2>5, <2>6
<1>8. QED
  BY <1>5, <1>7 DEF IsSteps

\* Who is sent to at an offset receives at it.
LEMMA BarrierAnswered ==
  ASSUME NEW n \in Nat \ {0}, NEW r \in 0 .. (n - 1), NEW q \in 0 .. (n - 1)
  PROVE  Answered(BarrierSteps(n, r), r, BarrierSteps(n, q), q)
<1> DEFINE S == BarrierSteps(n, r)
           T == BarrierSteps(n, q)
           R == Rounds(n)
<1> SUFFICES ASSUME NEW i \in 1 .. Len(S), S[i] = SendTo(q)
             PROVE  \E j \in 1 .. Len(T) : T[j] = RecvFrom(r)
  BY DEF Answered
<1>1. PICK k \in 0 .. (R - 1) : i = 2 * k + 1 \/ i = 2 * k + 2
  BY BarrierRounds
<1>2. PICK s \in 1 .. (n - 1) : s = Shift[k]
  BY BarrierRounds
<1>3. i = 2 * k + 1 /\ q = NextRank(n, r, s)
  <2>1. /\ S[2 * k + 1] = SendTo(NextRank(n, r, s))
        /\ S[2 * k + 2] = RecvFrom(PrevRank(n, r, s))
    BY <1>2, BarrierRounds
  <2>2. i # 2 * k + 2
    BY <2>1, StepFacts
  <2>3. i = 2 * k + 1
    BY <1>1, <2>2
  <2>4. SendTo(NextRank(n, r, s)) = SendTo(q)
    BY <2>1, <2>3
  <2>5. QED
    BY <2>3, <2>4, StepFacts
<1>4. s \in 0 .. n /\ s < n
  OBVIOUS
<1>5. r = PrevRank(n, q, s)
  <2>1. q = IF r + s < n THEN r + s ELSE r + s - n
    BY <1>3, <1>4, RankFacts
  <2>2. PrevRank(n, q, s) = IF q >= s THEN q - s ELSE q - s + n
    BY <1>4, RankFacts
  <2>3. QED
    BY <2>1, <2>2
<1>6. T[2 * k + 2] = RecvFrom(r) /\ 2 * k + 2 \in 1 .. Len(T)
  BY <1>2, <1>5, BarrierRounds
<1>7. QED
  BY <1>6

-----------------------------------------------------------------------------
(* Broadcast.                                                              *)

\* The stride Shift[k] divides virtual rank v.
Divides(k, v) == \E a \in Nat : v = a * Shift[k]

LEMMA ModDivides ==
  ASSUME NEW x \in Nat, NEW d \in Nat \ {0}
  PROVE  x % d = 0 <=> \E a \in Nat : x = a * d
<1>1. PICK e \in Nat : e = x \div d
  OBVIOUS
<1>2. ASSUME NEW a \in Nat, x = a * d PROVE x % d = 0
  BY <1>2, SMTT(30)
<1>3. x % d = 0 => x = d * (x \div d)
  BY SMT
<1>4. d * e = e * d
  OBVIOUS
<1>5. x % d = 0 => x = e * d
  BY <1>1, <1>3, <1>4
<1>6. QED
  BY <1>2, <1>5

LEMMA DividesFacts ==
  ASSUME NEW k \in Nat, NEW v \in Nat
  PROVE  /\ Divides(k, v) <=> v % Shift[k] = 0
         /\ Divides(k + 1, v) => Divides(k, v)
         /\ Divides(k, v) /\ v # 0 => Shift[k] <= v
         /\ Divides(k + 1, v) => Divides(k, v + Shift[k]) /\ ~Divides(k + 1, v + Shift[k])
<1>1. PICK d \in Nat \ {0} : d = Shift[k]
  BY ShiftGrows
<1>2. Shift[k + 1] = 2 * d
  BY <1>1, ShiftDef
<1>3. Divides(k, v) <=> v % Shift[k] = 0
  BY <1>1, ModDivides DEF Divides
<1>4. ASSUME NEW a \in Nat, v = a * (2 * d)
      PROVE  v = (2 * a) * d /\ v + d = (2 * a + 1) * d
  BY <1>4, SMTT(30)
<1>5. Divides(k + 1, v) => Divides(k, v) /\ Divides(k, v + Shift[k])
  <2> SUFFICES ASSUME Divides(k + 1, v) PROVE Divides(k, v) /\ Divides(k, v + Shift[k])
    OBVIOUS
  <2>1. PICK a \in Nat : v = a * (2 * d)
    BY <1>2 DEF Divides
  <2>2. 2 * a \in Nat /\ 2 * a + 1 \in Nat
    OBVIOUS
  <2>3. QED
    BY <1>1, <1>4, <2>1, <2>2 DEF Divides
<1>6. Divides(k, v) /\ v # 0 => Shift[k] <= v
  <2> SUFFICES ASSUME Divides(k, v), v # 0 PROVE d <= v
    BY <1>1
  <2>1. PICK a \in Nat : v = a * d
    BY <1>1 DEF Divides
  <2>2. QED
    BY <2>1, SMTT(30)
<1>7. ASSUME Divides(k + 1, v), Divides(k + 1, v + Shift[k])
      PROVE  FALSE
  <2>1. PICK a \in Nat : v = a * (2 * d)
    BY <1>2, <1>7 DEF Divides
  <2>2. PICK b \in Nat : v + d = b * (2 * d)
    BY <1>1, <1>2, <1>7 DEF Divides
  <2>3. d = (2 * (b - a)) * d
    BY <2>1, <2>2, SMTT(30)
  <2>4. PICK c \in Int : c = 2 * (b - a)
    OBVIOUS
  <2>5. d = c * d
    BY <2>3, <2>4
  <2>6. c = 1
    BY <2>5, SMTT(30)
  <2>7. QED
    BY <2>4, <2>6
<1>8. QED
  BY <1>3, <1>5, <1>6, <1>7

LEMMA DividesDown ==
  ASSUME NEW k \in Nat, NEW m \in Nat, NEW v \in Nat, k <= m, Divides(m, v)
  PROVE  Divides(k, v)
<1> DEFINE S == {j \in Nat : j <= m => Divides(m - j, v)}
<1>1. 0 \in S
  <2>1. m - 0 = m
    OBVIOUS
  <2>2. QED
    BY <2>1
<1>2. ASSUME NEW j \in Nat, j \in S PROVE j + 1 \in S
  <2> SUFFICES ASSUME j + 1 <= m PROVE Divides(m - (j + 1), v)
    OBVIOUS
  <2>1. PICK i \in Nat : i = m - (j + 1)
    OBVIOUS
  <2>2. m - j = i + 1 /\ j <= m
    BY <2>1
  <2>3. Divides(i + 1, v)
    BY <1>2, <2>2
  <2>4. QED
    BY <2>1, <2>3, DividesFacts
<1>3. Nat \subseteq S
  <2> HIDE DEF S
  <2>1. QED
    BY <1>1, <1>2, Induction
<1>4. m - k \in Nat /\ m - k <= m /\ m - (m - k) = k
  OBVIOUS
<1>5. m - k \in S
  BY <1>3, <1>4
<1>6. QED
  BY <1>4, <1>5

\* The largest stride is the largest power of two that is not above n.
LEMMA BitFloorFacts ==
  ASSUME NEW n \in Nat \ {0}
  PROVE  BitFloor(n) \in Nat /\ \A k \in Nat : Shift[k] <= n => k <= BitFloor(n)
<1> DEFINE T == {k \in 0..n : Shift[k] <= n}
<1>1. T \in SUBSET (0 .. n) /\ 0 \in T
  BY ShiftDef
<1>2. \A k \in Nat : Shift[k] <= n => k \in T
  BY ShiftGrows
<1>3. BitFloor(n) = Max(T)
  BY DEF BitFloor
<1> HIDE DEF T
<1>4. Max(T) \in T /\ \A x \in T : Max(T) >= x
  BY <1>1, MaxGreatest
<1>5. PICK m \in 0 .. n : m = BitFloor(n) /\ \A x \in T : m >= x
  BY <1>1, <1>3, <1>4
<1>6. \A k \in Nat : Shift[k] <= n => k <= m
  BY <1>2, <1>5
<1>7. QED
  BY <1>5, <1>6

\* The turn of a virtual rank: the greatest stride that divides it.
LEMMA TurnFacts ==
  ASSUME NEW n \in Nat \ {0}, NEW v \in 0 .. (n - 1)
  PROVE  /\ Turn(n, v) \in Nat
         /\ v # 0 => Divides(Turn(n, v), v) /\ ~Divides(Turn(n, v) + 1, v)
<1>1. BitFloor(n) \in Nat /\ \A k \in Nat : Shift[k] <= n => k <= BitFloor(n)
  BY BitFloorFacts
<1>2. CASE v = 0
  BY <1>1, <1>2 DEF Turn
<1>3. CASE v # 0
  <2> DEFINE B == BitFloor(n)
             T == {k \in 0 .. B : v % Shift[k] = 0}
  <2>1. Turn(n, v) = Max(T)
    BY <1>3 DEF Turn
  <2>2. \A k \in Nat : Divides(k, v) <=> v % Shift[k] = 0
    BY DividesFacts
  <2>3. 0 \in T
    <3>1. Divides(0, v)
      <4>1. v = v * Shift[0] /\ v \in Nat
        BY ShiftDef
      <4>2. QED
        BY <4>1 DEF Divides
    <3>2. QED
      BY <1>1, <2>2, <3>1
  <2>4. ASSUME NEW k \in Nat, Divides(k, v) PROVE k \in T
    <3>1. Shift[k] <= v /\ Shift[k] \in Nat
      BY <1>3, <2>4, DividesFacts, ShiftGrows
    <3>2. k <= B
      BY <1>1, <3>1
    <3>3. QED
      BY <1>1, <2>2, <2>4, <3>2
  <2>5. \A k \in T : k \in Nat /\ Divides(k, v)
    BY <1>1, <2>2
  <2>6. T \in SUBSET (0 .. B)
    OBVIOUS
  <2> HIDE DEF T, B
  <2>7. B \in Nat
    BY <1>1 DEF B
  <2>8. Max(T) \in T /\ \A x \in T : Max(T) >= x
    BY <2>3, <2>6, <2>7, MaxGreatest
  <2>9. Max(T) \in Nat /\ Divides(Max(T), v)
    BY <2>5, <2>8
  <2>10. ~Divides(Max(T) + 1, v)
    <3> SUFFICES ASSUME Divides(Max(T) + 1, v) PROVE FALSE
      OBVIOUS
    <3>1. Max(T) + 1 \in T
      BY <2>4, <2>9
    <3>2. QED
      BY <2>8, <2>9, <3>1
  <2>11. QED
    BY <2>1, <2>9, <2>10
<1>4. QED
  BY <1>2, <1>3

LEMMA TurnUnique ==
  ASSUME NEW n \in Nat \ {0}, NEW v \in 1 .. (n - 1), NEW k \in Nat,
         Divides(k, v), ~Divides(k + 1, v)
  PROVE  Turn(n, v) = k
<1>1. PICK t \in Nat : t = Turn(n, v) /\ Divides(t, v) /\ ~Divides(t + 1, v)
  BY TurnFacts
<1>2. ~(t < k)
  <2> SUFFICES ASSUME t < k PROVE FALSE
    OBVIOUS
  <2>1. t + 1 \in Nat /\ t + 1 <= k
    OBVIOUS
  <2>2. QED
    BY <1>1, <2>1, DividesDown
<1>3. ~(k < t)
  <2> SUFFICES ASSUME k < t PROVE FALSE
    OBVIOUS
  <2>1. k + 1 \in Nat /\ k + 1 <= t
    OBVIOUS
  <2>2. QED
    BY <1>1, <2>1, DividesDown
<1>4. QED
  BY <1>1, <1>2, <1>3

\* The strides at which it sends do not leave the world.
LEMMA SendsFacts ==
  ASSUME NEW n \in Nat \ {0}, NEW v \in 0 .. (n - 1)
  PROVE  /\ Sends(n, v) \in 0 .. Turn(n, v)
         /\ \A k \in Nat : k < Sends(n, v) => v + Shift[k] < n
<1>1. PICK t \in Nat : t = Turn(n, v)
  BY TurnFacts
<1> DEFINE T == {k \in 0 .. t : k = t \/ v + Shift[k] >= n}
<1>2. Sends(n, v) = Min(T)
  BY <1>1 DEF Sends
<1>3. T \in SUBSET Nat /\ t \in T
  OBVIOUS
<1>4. \A k \in 0 .. t : k \notin T => ~(v + Shift[k] >= n)
  OBVIOUS
<1>5. T \subseteq 0 .. t
  OBVIOUS
<1> HIDE DEF T
<1>6. Min(T) \in T /\ \A x \in T : Min(T) <= x
  BY <1>3, MinLeast
<1>7. PICK m \in 0 .. t : m = Sends(n, v) /\ \A x \in T : m <= x
  BY <1>2, <1>5, <1>6
<1>8. ASSUME NEW k \in Nat, k < m PROVE v + Shift[k] < n
  <2>1. k \in 0 .. t /\ k \notin T
    BY <1>7, <1>8
  <2>2. Shift[k] \in Nat
    BY ShiftGrows
  <2>3. QED
    BY <1>4, <2>1, <2>2
<1>9. QED
  BY <1>1, <1>7, <1>8

\* What a rank does: the root only sends; another rank receives first, and then
\* only sends, at strides that shrink.
LEMMA BroadcastParts ==
  ASSUME NEW n \in Nat \ {0}, NEW root \in 0 .. (n - 1), NEW r \in 0 .. (n - 1)
  PROVE  LET S == BroadcastSteps(n, r, root)
             v == RingOffset(root, r, n)
             m == Sends(n, v)
             first == IF r = root THEN 0 ELSE 1
         IN  /\ v \in 0 .. (n - 1) /\ (v = 0 <=> r = root)
             /\ m \in Nat /\ Len(S) = first + m
             /\ S = [i \in 1 .. first + m |-> S[i]]
             /\ r # root => S[1] = RecvFrom(PrevRank(n, r, Shift[Turn(n, v)]))
             /\ \A i \in 1 .. m :
                  /\ m - i \in Nat /\ m - i < m
                  /\ S[first + i] = SendTo(NextRank(n, r, Shift[m - i]))
<1> DEFINE S == BroadcastSteps(n, r, root)
           v == RingOffset(root, r, n)
           m == Sends(n, v)
           first == IF r = root THEN 0 ELSE 1
           receive == <<RecvFrom(PrevRank(n, r, Shift[Turn(n, v)]))>>
           send == [i \in 1 .. m |-> SendTo(NextRank(n, r, Shift[m - i]))]
<1>1. root \in 0 .. n /\ root < n
  OBVIOUS
<1>2. v = IF r >= root THEN r - root ELSE r - root + n
  BY <1>1, RankFacts
<1>3. v \in 0 .. (n - 1) /\ (v = 0 <=> r = root)
  BY <1>2
<1>4. m \in Nat
  <2>1. Turn(n, v) \in Nat /\ Sends(n, v) \in 0 .. Turn(n, v)
    BY <1>3, TurnFacts, SendsFacts
  <2>2. QED
    BY <2>1
<1>5. S = IF v = 0 THEN send ELSE receive \o send
  BY DEF BroadcastSteps
<1>6. CASE r = root
  <2>1. S = send /\ first = 0
    BY <1>3, <1>5, <1>6
  <2> HIDE DEF v, S
  <2>2. Len(send) = m /\ send = [i \in 1 .. 0 + m |-> send[i]]
    BY <1>4
  <2>3. \A i \in 1 .. m : /\ m - i \in Nat /\ m - i < m
                          /\ send[0 + i] = SendTo(NextRank(n, r, Shift[m - i]))
    BY <1>4
  <2> HIDE DEF send
  <2>4. Len(S) = first + m
    BY <1>4, <2>1, <2>2
  <2>5. QED
    BY <1>3, <1>4, <1>6, <2>1, <2>2, <2>3, <2>4 DEF v, S
<1>7. CASE r # root
  <2>1. S = receive \o send /\ first = 1
    BY <1>3, <1>5, <1>7
  <2>2. PICK x : x = RecvFrom(PrevRank(n, r, Shift[Turn(n, v)]))
    OBVIOUS
  <2> HIDE DEF v, S
  <2>3. Len(send) = m /\ send \in Seq({send[i] : i \in 1 .. m})
    BY <1>4
  <2>4. \A i \in 1 .. m : /\ m - i \in Nat /\ m - i < m
                          /\ send[i] = SendTo(NextRank(n, r, Shift[m - i]))
    BY <1>4
  <2>5. receive = <<x>>
    BY <2>2
  <2> HIDE DEF send, receive
  <2>6. PICK X : send \in Seq(X)
    BY <2>3
  <2>7. send \in Seq(X \cup {x}) /\ <<x>> \in Seq(X \cup {x}) /\ Len(<<x>>) = 1
    BY <2>6
  <2>8. /\ <<x>> \o send \in Seq(X \cup {x})
        /\ Len(<<x>> \o send) = 1 + m
        /\ \A i \in 1 .. 1 + m : (<<x>> \o send)[i] = IF i <= 1 THEN <<x>>[i] ELSE send[i - 1]
    BY <2>3, <2>7, ConcatProperties
  <2>9. S = <<x>> \o send
    BY <2>1, <2>5
  <2>10. S \in Seq(X \cup {x}) /\ Len(S) = first + m
    BY <2>1, <2>8, <2>9
  <2>11. S = [i \in 1 .. first + m |-> S[i]]
    BY <2>10
  <2>12. S[1] = x
    BY <1>4, <2>8, <2>9
  <2>13. \A i \in 1 .. m : S[1 + i] = send[i]
    <3> SUFFICES ASSUME NEW i \in 1 .. m PROVE S[1 + i] = send[i]
      OBVIOUS
    <3>1. 1 + i \in 1 .. 1 + m /\ ~(1 + i <= 1) /\ (1 + i) - 1 = i
      BY <1>4
    <3>2. QED
      BY <2>8, <2>9, <3>1
  <2>14. QED
    BY <1>3, <1>4, <1>7, <2>1, <2>2, <2>4, <2>10, <2>11, <2>12, <2>13 DEF v, S
<1>8. QED
  BY <1>6, <1>7

\* The ranks that it sends to, and the stride of each.
LEMMA BroadcastTargets ==
  ASSUME NEW n \in Nat \ {0}, NEW root \in 0 .. (n - 1), NEW r \in 0 .. (n - 1),
         NEW k \in Nat, k < Sends(n, RingOffset(root, r, n))
  PROVE  LET v == RingOffset(root, r, n)
             q == NextRank(n, r, Shift[k])
         IN  /\ Shift[k] \in 1 .. (n - 1)
             /\ q \in (0 .. (n - 1)) \ {r}
             /\ q = IF r + Shift[k] < n THEN r + Shift[k] ELSE r + Shift[k] - n
             /\ q # root
             /\ RingOffset(root, q, n) = v + Shift[k]
             /\ Turn(n, v + Shift[k]) = k
             /\ PrevRank(n, q, Shift[k]) = r
<1>1. root \in 0 .. n /\ root < n
  OBVIOUS
<1>2. PICK v \in 0 .. (n - 1) : /\ v = RingOffset(root, r, n)
                                /\ v = IF r >= root THEN r - root ELSE r - root + n
  <2>1. RingOffset(root, r, n) = IF r >= root THEN r - root ELSE r - root + n
    BY <1>1, RankFacts
  <2>2. QED
    BY <2>1
<1>3. PICK s \in Nat \ {0} : s = Shift[k] /\ v + s < n
  <2>1. Shift[k] \in Nat \ {0}
    BY ShiftGrows
  <2>2. v + Shift[k] < n
    BY <1>2, SendsFacts
  <2>3. QED
    BY <2>1, <2>2
<1>4. s \in 1 .. (n - 1) /\ s \in 0 .. n /\ s < n
  BY <1>3
<1>5. PICK q \in (0 .. (n - 1)) \ {r} : /\ q = NextRank(n, r, s)
                                        /\ q = IF r + s < n THEN r + s ELSE r + s - n
  <2>1. NextRank(n, r, s) = IF r + s < n THEN r + s ELSE r + s - n
    BY <1>4, RankFacts
  <2>2. NextRank(n, r, s) \in (0 .. (n - 1)) \ {r}
    BY <2>1, <1>4
  <2>3. QED
    BY <2>1, <2>2
<1>6. q # root
  BY <1>2, <1>3, <1>5
<1>7. RingOffset(root, q, n) = v + s
  <2>1. RingOffset(root, q, n) = IF q >= root THEN q - root ELSE q - root + n
    BY <1>1, RankFacts
  <2>2. QED
    BY <1>2, <1>3, <1>5, <2>1
<1>8. PrevRank(n, q, s) = r
  <2>1. PrevRank(n, q, s) = IF q >= s THEN q - s ELSE q - s + n
    BY <1>4, RankFacts
  <2>2. QED
    BY <1>5, <2>1
<1>9. Divides(k + 1, v)
  <2>1. CASE v = 0
    <3>1. v = 0 * Shift[k + 1]
      BY <2>1, ShiftGrows
    <3>2. QED
      BY <3>1 DEF Divides
  <2>2. CASE v # 0
    <3>1. PICK t \in Nat : t = Turn(n, v) /\ Divides(t, v)
      BY <2>2, TurnFacts
    <3>2. k + 1 <= t
      <4>1. Sends(n, v) \in 0 .. t
        BY <3>1, SendsFacts
      <4>2. QED
        BY <1>2, <4>1
    <3>3. k + 1 \in Nat /\ v \in Nat
      OBVIOUS
    <3>4. QED
      BY <3>1, <3>2, <3>3, DividesDown
  <2>3. QED
    BY <2>1, <2>2
<1>10. Turn(n, v + s) = k
  <2>1. v \in Nat /\ v + s \in 1 .. (n - 1)
    BY <1>3
  <2>2. Divides(k, v + s) /\ ~Divides(k + 1, v + s)
    BY <1>3, <1>9, <2>1, DividesFacts
  <2>3. QED
    BY <2>1, <2>2, TurnUnique
<1>11. QED
  BY <1>2, <1>3, <1>4, <1>5, <1>6, <1>7, <1>8, <1>10

\* The rank that it receives from.
LEMMA BroadcastSource ==
  ASSUME NEW n \in Nat \ {0}, NEW root \in 0 .. (n - 1), NEW r \in 0 .. (n - 1), r # root
  PROVE  PrevRank(n, r, Shift[Turn(n, RingOffset(root, r, n))]) \in (0 .. (n - 1)) \ {r}
<1>1. PICK v \in 1 .. (n - 1) : v = RingOffset(root, r, n)
  <2>1. root \in 0 .. n /\ root < n
    OBVIOUS
  <2>2. RingOffset(root, r, n) = IF r >= root THEN r - root ELSE r - root + n
    BY <2>1, RankFacts
  <2>3. QED
    BY <2>2
<1>2. PICK t \in Nat : t = Turn(n, v) /\ Divides(t, v)
  BY TurnFacts
<1>3. PICK s \in 1 .. (n - 1) : s = Shift[t]
  <2>1. Shift[t] <= v /\ Shift[t] \in Nat /\ Shift[t] > t
    BY <1>2, DividesFacts, ShiftGrows
  <2>2. QED
    BY <2>1
<1>4. PrevRank(n, r, s) = IF r >= s THEN r - s ELSE r - s + n
  BY RankFacts
<1>5. PrevRank(n, r, s) \in (0 .. (n - 1)) \ {r}
  BY <1>4
<1>6. QED
  BY <1>1, <1>2, <1>3, <1>5

\* What the steps of a broadcast are: sends, after one receive if the rank is
\* not the root.
BroadcastShape(S, n, r, root) ==
  LET first == IF r = root THEN 0 ELSE 1
  IN  /\ Len(S) >= first
      /\ r # root => \E q \in (0 .. (n - 1)) \ {r} : S[1] = RecvFrom(q)
      /\ \A i \in 1 .. Len(S) : i > first =>
           \E q \in (0 .. (n - 1)) \ {r} : q # root /\ S[i] = SendTo(q)

LEMMA BroadcastIsSteps ==
  ASSUME NEW n \in Nat \ {0}, NEW root \in 0 .. (n - 1), NEW r \in 0 .. (n - 1)
  PROVE  /\ IsSteps(BroadcastSteps(n, r, root), n, r)
         /\ BroadcastShape(BroadcastSteps(n, r, root), n, r, root)
<1>1. PICK S, v, m, first :
        /\ S = BroadcastSteps(n, r, root) /\ v = RingOffset(root, r, n) /\ m = Sends(n, v)
        /\ first = IF r = root THEN 0 ELSE 1
  OBVIOUS
<1>2. /\ m \in Nat /\ Len(S) = first + m
      /\ S = [i \in 1 .. first + m |-> S[i]]
      /\ r # root => S[1] = RecvFrom(PrevRank(n, r, Shift[Turn(n, v)]))
      /\ \A i \in 1 .. m :
           /\ m - i \in Nat /\ m - i < m
           /\ S[first + i] = SendTo(NextRank(n, r, Shift[m - i]))
  BY <1>1, BroadcastParts
<1>3. first \in {0, 1} /\ (first = 1 <=> r # root)
  BY <1>1
<1>4. ASSUME NEW k \in Nat, k < m
      PROVE  LET q == NextRank(n, r, Shift[k])
             IN  /\ q \in (0 .. (n - 1)) \ {r} /\ q # root
                 /\ Shift[k] \in 1 .. (n - 1)
                 /\ q = IF r + Shift[k] < n THEN r + Shift[k] ELSE r + Shift[k] - n
  BY <1>1, <1>4, BroadcastTargets
<1>5. ASSUME NEW i \in 1 .. Len(S), i > first
      PROVE  \E k \in Nat : /\ k < m /\ k = m - (i - first)
                            /\ S[i] = SendTo(NextRank(n, r, Shift[k]))
  <2>1. PICK j \in 1 .. m : j = i - first /\ first + j = i
    BY <1>2, <1>3, <1>5
  <2>2. m - j \in Nat /\ m - j < m /\ S[first + j] = SendTo(NextRank(n, r, Shift[m - j]))
    BY <1>2
  <2>3. QED
    BY <2>1, <2>2
<1>6. ASSUME r # root
      PROVE  \E q \in (0 .. (n - 1)) \ {r} : S[1] = RecvFrom(q)
  BY <1>1, <1>2, <1>6, BroadcastSource
<1>7. ASSUME NEW i \in 1 .. Len(S), i > first
      PROVE  \E q \in (0 .. (n - 1)) \ {r} : q # root /\ S[i] = SendTo(q)
  <2>1. PICK k \in Nat : k < m /\ S[i] = SendTo(NextRank(n, r, Shift[k]))
    BY <1>5, <1>7
  <2>2. QED
    BY <1>4, <2>1
<1>8. BroadcastShape(S, n, r, root)
  <2>1. Len(S) >= first
    BY <1>2, <1>3
  <2>2. QED
    BY <1>1, <1>6, <1>7, <2>1 DEF BroadcastShape
<1>9. ASSUME NEW i \in 1 .. Len(S)
      PROVE  S[i] \in StepSet(n, r)
  <2>1. CASE i > first
    <3>1. PICK q \in (0 .. (n - 1)) \ {r} : S[i] = SendTo(q)
      BY <1>7, <2>1
    <3>2. QED
      BY <3>1, StepFacts
  <2>2. CASE ~(i > first)
    <3>1. i = 1 /\ r # root
      BY <1>3, <2>2
    <3>2. PICK q \in (0 .. (n - 1)) \ {r} : S[1] = RecvFrom(q)
      BY <1>6, <3>1
    <3>3. QED
      BY <3>1, <3>2, StepFacts
  <2>3. QED
    BY <2>1, <2>2
<1>10. S \in Seq(StepSet(n, r))
  <2>1. PICK l \in Nat : l = first + m /\ Len(S) = l
    BY <1>2, <1>3
  <2>2. S = [i \in 1 .. l |-> S[i]] /\ \A i \in 1 .. l : S[i] \in StepSet(n, r)
    BY <1>2, <1>9, <2>1
  <2>3. [i \in 1 .. l |-> S[i]] \in Seq(StepSet(n, r))
    BY <2>1, <2>2
  <2>4. QED
    BY <2>2, <2>3
<1>11. ASSUME NEW k \in Nat, NEW l \in Nat, k < m, l < m, k # l
       PROVE  NextRank(n, r, Shift[k]) # NextRank(n, r, Shift[l])
  <2>1. PICK x \in 1 .. (n - 1) : x = Shift[k] /\ NextRank(n, r, Shift[k]) = IF r + x < n THEN r + x ELSE r + x - n
    BY <1>4, <1>11
  <2>2. PICK y \in 1 .. (n - 1) : y = Shift[l] /\ NextRank(n, r, Shift[l]) = IF r + y < n THEN r + y ELSE r + y - n
    BY <1>4, <1>11
  <2>3. k < l \/ l < k
    BY <1>11
  <2>4. 2 * x <= y \/ 2 * y <= x
    BY <2>1, <2>2, <2>3, ShiftMonotone
  <2>5. QED
    BY <2>1, <2>2, <2>4
<1>12. ASSUME NEW i \in 1 .. Len(S), NEW j \in 1 .. Len(S), S[i] = S[j]
       PROVE  i = j
  <2>1. CASE i > first /\ j > first
    <3>1. PICK k \in Nat : k < m /\ k = m - (i - first) /\ S[i] = SendTo(NextRank(n, r, Shift[k]))
      BY <1>5, <2>1
    <3>2. PICK l \in Nat : l < m /\ l = m - (j - first) /\ S[j] = SendTo(NextRank(n, r, Shift[l]))
      BY <1>5, <2>1
    <3>3. NextRank(n, r, Shift[k]) = NextRank(n, r, Shift[l])
      <4>1. PICK a, b : a = NextRank(n, r, Shift[k]) /\ b = NextRank(n, r, Shift[l])
        OBVIOUS
      <4>2. SendTo(a) = SendTo(b)
        BY <1>12, <3>1, <3>2, <4>1, Zenon
      <4>3. a = b
        BY <4>2, StepFacts
      <4>4. QED
        BY <4>1, <4>3
    <3>4. k = l
      BY <1>11, <3>1, <3>2, <3>3
    <3>5. QED
      BY <1>2, <1>3, <3>1, <3>2, <3>4
  <2>2. CASE ~(i > first) /\ ~(j > first)
    BY <1>3, <2>2
  <2>3. ASSUME NEW a \in 1 .. Len(S), NEW b \in 1 .. Len(S), a > first, ~(b > first)
        PROVE  S[a] # S[b]
    <3>1. b = 1 /\ r # root
      BY <1>3, <2>3
    <3>2. PICK q : S[b] = RecvFrom(q)
      BY <1>6, <3>1
    <3>3. PICK p : S[a] = SendTo(p)
      BY <1>7, <2>3
    <3>4. QED
      BY <3>2, <3>3, StepFacts
  <2>4. QED
    BY <1>12, <2>1, <2>2, <2>3
<1>13. QED
  BY <1>1, <1>8, <1>10, <1>12 DEF IsSteps

LEMMA BroadcastAnswered ==
  ASSUME NEW n \in Nat \ {0}, NEW root \in 0 .. (n - 1),
         NEW r \in 0 .. (n - 1), NEW q \in 0 .. (n - 1)
  PROVE  Answered(BroadcastSteps(n, r, root), r, BroadcastSteps(n, q, root), q)
<1>1. PICK S, v, m, first :
        /\ S = BroadcastSteps(n, r, root) /\ v = RingOffset(root, r, n) /\ m = Sends(n, v)
        /\ first = IF r = root THEN 0 ELSE 1
  OBVIOUS
<1>2. /\ m \in Nat /\ Len(S) = first + m
      /\ r # root => S[1] = RecvFrom(PrevRank(n, r, Shift[Turn(n, v)]))
      /\ \A i \in 1 .. m :
           /\ m - i \in Nat /\ m - i < m
           /\ S[first + i] = SendTo(NextRank(n, r, Shift[m - i]))
  BY <1>1, BroadcastParts
<1> SUFFICES ASSUME NEW i \in 1 .. Len(S), S[i] = SendTo(q)
             PROVE  \E j \in 1 .. Len(BroadcastSteps(n, q, root)) :
                      BroadcastSteps(n, q, root)[j] = RecvFrom(r)
  BY <1>1 DEF Answered
<1>3. first \in {0, 1} /\ (first = 1 <=> r # root)
  BY <1>1
<1>4. i > first
  <2> SUFFICES ASSUME ~(i > first) PROVE FALSE
    OBVIOUS
  <2>1. i = 1 /\ r # root
    BY <1>3
  <2>2. QED
    BY <1>2, <2>1, StepFacts
<1>5. PICK k \in Nat : k < m /\ q = NextRank(n, r, Shift[k])
  <2>1. PICK j \in 1 .. m : first + j = i
    BY <1>2, <1>3, <1>4
  <2>2. m - j \in Nat /\ m - j < m /\ S[i] = SendTo(NextRank(n, r, Shift[m - j]))
    BY <1>2, <2>1
  <2>3. q = NextRank(n, r, Shift[m - j])
    BY <2>2, StepFacts
  <2>4. QED
    BY <2>2, <2>3
<1>6. /\ q # root /\ RingOffset(root, q, n) = v + Shift[k]
      /\ Turn(n, v + Shift[k]) = k /\ PrevRank(n, q, Shift[k]) = r
  BY <1>1, <1>5, BroadcastTargets
<1>7. BroadcastSteps(n, q, root)[1] = RecvFrom(PrevRank(n, q, Shift[Turn(n, RingOffset(root, q, n))]))
  BY <1>6, BroadcastParts
<1>8. 1 \in 1 .. Len(BroadcastSteps(n, q, root))
  <2>1. PICK w : w = Sends(n, RingOffset(root, q, n)) /\ w \in Nat /\ Len(BroadcastSteps(n, q, root)) = 1 + w
    BY <1>6, BroadcastParts
  <2>2. QED
    BY <2>1
<1>9. QED
  BY <1>6, <1>7, <1>8

-----------------------------------------------------------------------------
(* The algorithms that loop over the ranks.                                *)

\* Place i of the loop has the rank Others(n, r)[i], and each other rank is at
\* one place.
LEMMA OthersFacts ==
  ASSUME NEW n \in Nat \ {0}, NEW r \in 0 .. (n - 1)
  PROVE  /\ \A i \in 1 .. (n - 1) : Others(n, r)[i] \in (0 .. (n - 1)) \ {r}
         /\ \A i, j \in 1 .. (n - 1) : Others(n, r)[i] = Others(n, r)[j] => i = j
         /\ \A q \in (0 .. (n - 1)) \ {r} : \E i \in 1 .. (n - 1) : Others(n, r)[i] = q
<1>1. \A i \in 1 .. (n - 1) : Others(n, r)[i] = IF i <= r THEN i - 1 ELSE i
  BY DEF Others
<1>2. \A i \in 1 .. (n - 1) : Others(n, r)[i] \in (0 .. (n - 1)) \ {r}
  BY <1>1
<1>3. \A i, j \in 1 .. (n - 1) : Others(n, r)[i] = Others(n, r)[j] => i = j
  BY <1>1
<1>4. ASSUME NEW q \in (0 .. (n - 1)) \ {r}
      PROVE  \E i \in 1 .. (n - 1) : Others(n, r)[i] = q
  <2>1. CASE q < r
    <3>1. q + 1 \in 1 .. (n - 1) /\ q + 1 <= r /\ (q + 1) - 1 = q
      BY <2>1
    <3>2. QED
      BY <1>1, <3>1
  <2>2. CASE q > r
    <3>1. q \in 1 .. (n - 1) /\ ~(q <= r)
      BY <2>2
    <3>2. QED
      BY <1>1, <3>1
  <2>3. QED
    BY <2>1, <2>2
<1>5. QED
  BY <1>2, <1>3, <1>4

\* The other ranks are all sent to, and only sent to; or received from.
AllSent(S, n, r) ==
  /\ S \in Seq(StepSet(n, r)) /\ Len(S) = n - 1
  /\ \A i \in 1 .. Len(S) : \E q \in (0 .. (n - 1)) \ {r} : S[i] = SendTo(q)
  /\ \A q \in (0 .. (n - 1)) \ {r} : \E i \in 1 .. Len(S) : S[i] = SendTo(q)
  /\ \A i, j \in 1 .. Len(S) : S[i] = S[j] => i = j

AllReceived(S, n, r) ==
  /\ S \in Seq(StepSet(n, r)) /\ Len(S) = n - 1
  /\ \A i \in 1 .. Len(S) : \E q \in (0 .. (n - 1)) \ {r} : S[i] = RecvFrom(q)
  /\ \A q \in (0 .. (n - 1)) \ {r} : \E i \in 1 .. Len(S) : S[i] = RecvFrom(q)
  /\ \A i, j \in 1 .. Len(S) : S[i] = S[j] => i = j

LEMMA SendAllFacts ==
  ASSUME NEW n \in Nat \ {0}, NEW r \in 0 .. (n - 1)
  PROVE  AllSent(SendAll(n, r), n, r)
<1>1. PICK l \in Nat : l = n - 1
  OBVIOUS
<1>2. PICK o : /\ o = Others(n, r)
               /\ \A i \in 1 .. l : o[i] \in (0 .. (n - 1)) \ {r}
               /\ \A i, j \in 1 .. l : o[i] = o[j] => i = j
               /\ \A q \in (0 .. (n - 1)) \ {r} : \E i \in 1 .. l : o[i] = q
  BY <1>1, OthersFacts
<1>3. PICK S : S = [i \in 1 .. l |-> SendTo(o[i])]
  OBVIOUS
<1>4. S = SendAll(n, r)
  BY <1>1, <1>2, <1>3 DEF SendAll
<1>5. \A i \in 1 .. l : S[i] = SendTo(o[i]) /\ S[i] \in StepSet(n, r)
  BY <1>2, <1>3, StepFacts
<1>6. S \in Seq(StepSet(n, r)) /\ Len(S) = l
  BY <1>3, <1>5
<1>7. \A i, j \in 1 .. l : S[i] = S[j] => i = j
  BY <1>2, <1>5, StepFacts
<1>8. \A i \in 1 .. l : \E q \in (0 .. (n - 1)) \ {r} : S[i] = SendTo(q)
  BY <1>2, <1>5
<1>9. \A q \in (0 .. (n - 1)) \ {r} : \E i \in 1 .. l : S[i] = SendTo(q)
  BY <1>2, <1>5
<1>10. QED
  BY <1>1, <1>4, <1>6, <1>7, <1>8, <1>9 DEF AllSent

LEMMA RecvAllFacts ==
  ASSUME NEW n \in Nat \ {0}, NEW r \in 0 .. (n - 1)
  PROVE  AllReceived(RecvAll(n, r), n, r)
<1>1. PICK l \in Nat : l = n - 1
  OBVIOUS
<1>2. PICK o : /\ o = Others(n, r)
               /\ \A i \in 1 .. l : o[i] \in (0 .. (n - 1)) \ {r}
               /\ \A i, j \in 1 .. l : o[i] = o[j] => i = j
               /\ \A q \in (0 .. (n - 1)) \ {r} : \E i \in 1 .. l : o[i] = q
  BY <1>1, OthersFacts
<1>3. PICK S : S = [i \in 1 .. l |-> RecvFrom(o[i])]
  OBVIOUS
<1>4. S = RecvAll(n, r)
  BY <1>1, <1>2, <1>3 DEF RecvAll
<1>5. \A i \in 1 .. l : S[i] = RecvFrom(o[i]) /\ S[i] \in StepSet(n, r)
  BY <1>2, <1>3, StepFacts
<1>6. S \in Seq(StepSet(n, r)) /\ Len(S) = l
  BY <1>3, <1>5
<1>7. \A i, j \in 1 .. l : S[i] = S[j] => i = j
  BY <1>2, <1>5, StepFacts
<1>8. \A i \in 1 .. l : \E q \in (0 .. (n - 1)) \ {r} : S[i] = RecvFrom(q)
  BY <1>2, <1>5
<1>9. \A q \in (0 .. (n - 1)) \ {r} : \E i \in 1 .. l : S[i] = RecvFrom(q)
  BY <1>2, <1>5
<1>10. QED
  BY <1>1, <1>4, <1>6, <1>7, <1>8, <1>9 DEF AllReceived

\* The places of a rank in an AllGather.
LEMMA AllGatherFacts ==
  ASSUME NEW n \in Nat \ {0}, NEW r \in 0 .. (n - 1)
  PROVE  LET S == AllGatherSteps(n, r)
         IN  /\ IsSteps(S, n, r)
             /\ \A q \in (0 .. (n - 1)) \ {r} :
                  /\ \E i \in 1 .. Len(S) : S[i] = SendTo(q)
                  /\ \E i \in 1 .. Len(S) : S[i] = RecvFrom(q)
<1>1. PICK A, B, S : A = SendAll(n, r) /\ B = RecvAll(n, r) /\ S = A \o B
  OBVIOUS
<1>2. S = AllGatherSteps(n, r)
  BY <1>1 DEF AllGatherSteps
<1>3. AllSent(A, n, r) /\ AllReceived(B, n, r)
  BY <1>1, SendAllFacts, RecvAllFacts
<1>4. PICK l \in Nat : l = n - 1
  OBVIOUS
<1>5. A \in Seq(StepSet(n, r)) /\ B \in Seq(StepSet(n, r)) /\ Len(A) = l /\ Len(B) = l
  BY <1>3, <1>4 DEF AllSent, AllReceived
<1>6. /\ S \in Seq(StepSet(n, r))
      /\ Len(S) = l + l
      /\ \A i \in 1 .. (l + l) : S[i] = IF i <= l THEN A[i] ELSE B[i - l]
  BY <1>1, <1>5, ConcatProperties
<1>7. \A i \in 1 .. l : i \in 1 .. Len(S) /\ S[i] = A[i]
  BY <1>6
<1>8. \A i \in 1 .. l : i + l \in 1 .. Len(S) /\ S[i + l] = B[i]
  <2> SUFFICES ASSUME NEW i \in 1 .. l PROVE i + l \in 1 .. Len(S) /\ S[i + l] = B[i]
    OBVIOUS
  <2>1. i + l \in 1 .. (l + l) /\ ~(i + l <= l) /\ (i + l) - l = i
    OBVIOUS
  <2>2. QED
    BY <1>6, <2>1
<1>9. ASSUME NEW i \in 1 .. Len(S)
      PROVE  \/ i \in 1 .. l /\ S[i] = A[i]
             \/ i - l \in 1 .. l /\ S[i] = B[i - l]
  BY <1>6
<1>10. ASSUME NEW i \in 1 .. Len(S), NEW j \in 1 .. Len(S), S[i] = S[j]
       PROVE  i = j
  <2>1. ASSUME NEW a \in 1 .. l, NEW b \in 1 .. l PROVE A[a] # B[b]
    <3>1. PICK p : A[a] = SendTo(p)
      BY <1>3, <1>5 DEF AllSent
    <3>2. PICK q : B[b] = RecvFrom(q)
      BY <1>3, <1>5 DEF AllReceived
    <3>3. QED
      BY <3>1, <3>2, StepFacts
  <2>2. CASE i \in 1 .. l /\ j \in 1 .. l
    <3>1. S[i] = A[i] /\ S[j] = A[j]
      BY <1>7, <2>2
    <3>2. \A a, b \in 1 .. l : A[a] = A[b] => a = b
      BY <1>3, <1>5 DEF AllSent
    <3>3. QED
      BY <1>10, <2>2, <3>1, <3>2
  <2>3. CASE i - l \in 1 .. l /\ j - l \in 1 .. l
    <3>1. S[i] = B[i - l] /\ S[j] = B[j - l]
      BY <1>6, <2>3
    <3>2. \A a, b \in 1 .. l : B[a] = B[b] => a = b
      BY <1>3, <1>5 DEF AllReceived
    <3>3. i - l = j - l
      BY <1>10, <2>3, <3>1, <3>2
    <3>4. QED
      BY <3>3
  <2>4. QED
    BY <1>9, <1>10, <2>1, <2>2, <2>3
<1>11. IsSteps(S, n, r)
  BY <1>6, <1>10 DEF IsSteps
<1>12. ASSUME NEW q \in (0 .. (n - 1)) \ {r}
       PROVE  /\ \E i \in 1 .. Len(S) : S[i] = SendTo(q)
              /\ \E i \in 1 .. Len(S) : S[i] = RecvFrom(q)
  <2>1. PICK i \in 1 .. l : A[i] = SendTo(q)
    BY <1>3, <1>5 DEF AllSent
  <2>2. PICK j \in 1 .. l : B[j] = RecvFrom(q)
    BY <1>3, <1>5 DEF AllReceived
  <2>3. QED
    BY <1>7, <1>8, <2>1, <2>2
<1>13. QED
  BY <1>2, <1>11, <1>12

\* A sequence of one step.
LEMMA OneStep ==
  ASSUME NEW n \in Nat \ {0}, NEW r \in 0 .. (n - 1), NEW x \in StepSet(n, r)
  PROVE  IsSteps(<<x>>, n, r) /\ Len(<<x>>) = 1 /\ <<x>>[1] = x
  BY DEF IsSteps

-----------------------------------------------------------------------------
(* The steps of a call.                                                    *)

\* The calls of a context that send or receive, and their steps at rank r.
Talks(c) == {n \in DOMAIN Program[c] : Program[c][n].op \notin Creation}

StepsOf(c, n, r) == Steps(c, r, Program[c][n])

\* A call of a vector form without buffers, which returns at once.
Skips(c, n) == Program[c][n].op \in Vectors /\ Program[c][n].size = 0

LEMMA ContextsFacts ==
  ASSUME NEW c \in Ctx
  PROVE  /\ WorldSize(c) \in Nat \ {0} /\ WorldSize(c) = Len(Members[c])
         /\ Rank(c) = 0 .. (WorldSize(c) - 1)
         /\ \A r \in Rank(c) : PartyOf(c, r) \in Party
         /\ \A r, q \in Rank(c) : PartyOf(c, r) = PartyOf(c, q) => r = q
         /\ Len(Program[c]) \in Nat /\ DOMAIN Program[c] = 1 .. Len(Program[c])
<1>1. Members[c] \in Seq(Party) /\ IsInjective(Members[c]) /\ WorldSize(c) > 0
  BY CollectivesAssumption
<1>2. Program[c] \in Seq(Call)
  BY CollectivesAssumption
<1>3. WorldSize(c) = Len(Members[c]) /\ Len(Members[c]) \in Nat /\ WorldSize(c) \in Nat \ {0}
  BY <1>1 DEF WorldSize
<1>4. \A r \in Rank(c) : r + 1 \in 1 .. Len(Members[c])
  BY <1>3 DEF Rank
<1>5. \A r \in Rank(c) : PartyOf(c, r) \in Party
  BY <1>1, <1>4 DEF PartyOf
<1>6. ASSUME NEW r \in Rank(c), NEW q \in Rank(c), PartyOf(c, r) = PartyOf(c, q)
      PROVE  r = q
  <2>1. r + 1 \in DOMAIN Members[c] /\ q + 1 \in DOMAIN Members[c]
    BY <1>1, <1>4
  <2>2. r + 1 = q + 1
    BY <1>1, <1>6, <2>1 DEF IsInjective, PartyOf
  <2>3. QED
    BY <1>3, <2>2 DEF Rank
<1>7. QED
  BY <1>2, <1>3, <1>5, <1>6 DEF Rank

LEMMA CallFacts ==
  ASSUME NEW c \in Ctx, NEW n \in DOMAIN Program[c]
  PROVE  LET call == Program[c][n]
         IN  /\ call \in Call /\ call.op \in Op /\ call.size \in Nat /\ call.suffix \in Nat
             /\ call.child \in Ctx
             /\ call.root \in Rank(c) /\ call.peer \in Rank(c)
             /\ call.op = "p2p" => call.root # call.peer
             /\ call.op = "spawn" => Members[call.child] = Members[c]
             /\ call.op = "subworld" => Range(Members[call.child]) \subseteq Range(Members[c])
<1>1. Program[c] \in Seq(Call)
  BY CollectivesAssumption
<1>2. Program[c][n] \in Call
  BY <1>1
<1>3. QED
  BY <1>2, CollectivesAssumption DEF Call

\* What the steps are for each kind of call.
LEMMA StepsCases ==
  ASSUME NEW c \in Ctx, NEW n \in Talks(c), NEW r \in Rank(c)
  PROVE  LET call == Program[c][n]
             N == WorldSize(c)
             op == ImplOf(call.op)
             S == StepsOf(c, n, r)
         IN  /\ op \in {"barrier", "bcast", "allgather", "gather", "scatter", "p2p"}
             /\ op \notin {"allgather", "gather"} => call.op = op /\ call.op \notin Vectors
             /\ op = "allgather" => call.op \in {"allgather", "allgatherv"}
             /\ op = "gather" => call.op \in {"gather", "gatherv"}
             /\ Skips(c, n) => S = <<>>
             /\ ~Skips(c, n) =>
                  /\ op = "barrier" => S = BarrierSteps(N, r)
                  /\ op = "bcast" => S = BroadcastSteps(N, r, call.root)
                  /\ op = "allgather" => S = AllGatherSteps(N, r)
                  /\ op = "gather" => S = GatherSteps(N, r, call.root)
                  /\ op = "scatter" => S = ScatterSteps(N, r, call.root)
                  /\ op = "p2p" => S = P2PSteps(r, call.root, call.peer)
<1>1. PICK call : call = Program[c][n] /\ call.op \in Op /\ call.op \notin Creation
  BY CallFacts DEF Talks
<1>2. PICK op : op = ImplOf(call.op)
  OBVIOUS
<1>3. /\ op \in {"barrier", "bcast", "allgather", "gather", "scatter", "p2p"}
      /\ op \notin {"allgather", "gather"} => call.op = op /\ call.op \notin Vectors
      /\ op = "allgather" => call.op \in {"allgather", "allgatherv"}
      /\ op = "gather" => call.op \in {"gather", "gatherv"}
  BY <1>1, <1>2 DEF ImplOf, Op, Vectors, Creation
<1>4. Skips(c, n) <=> call.op \in Vectors /\ call.size = 0
  BY <1>1 DEF Skips
<1>5. StepsOf(c, n, r) = Steps(c, r, call)
  BY <1>1 DEF StepsOf
<1>6. call.op \in Vectors /\ call.size = 0 => Steps(c, r, call) = <<>>
  BY <1>2, <1>3 DEF Steps
<1>7. ASSUME ~(call.op \in Vectors /\ call.size = 0)
      PROVE  /\ op = "barrier" => Steps(c, r, call) = BarrierSteps(WorldSize(c), r)
             /\ op = "bcast" => Steps(c, r, call) = BroadcastSteps(WorldSize(c), r, call.root)
             /\ op = "allgather" => Steps(c, r, call) = AllGatherSteps(WorldSize(c), r)
             /\ op = "gather" => Steps(c, r, call) = GatherSteps(WorldSize(c), r, call.root)
             /\ op = "scatter" => Steps(c, r, call) = ScatterSteps(WorldSize(c), r, call.root)
             /\ op = "p2p" => Steps(c, r, call) = P2PSteps(r, call.root, call.peer)
  BY <1>2, <1>3, <1>7 DEF Steps
<1>8. QED
  BY <1>1, <1>2, <1>3, <1>4, <1>5, <1>6, <1>7

\* Whatever the call, no step is made twice, and a send is received.
LEMMA StepsFacts ==
  ASSUME NEW c \in Ctx, NEW n \in Talks(c), NEW r \in Rank(c), NEW q \in Rank(c)
  PROVE  /\ IsSteps(StepsOf(c, n, r), WorldSize(c), r)
         /\ Answered(StepsOf(c, n, r), r, StepsOf(c, n, q), q)
<1>1. PICK call, N, op, S, T :
        /\ call = Program[c][n] /\ N = WorldSize(c) /\ op = ImplOf(call.op)
        /\ S = StepsOf(c, n, r) /\ T = StepsOf(c, n, q)
  OBVIOUS
<1>2. N \in Nat \ {0} /\ r \in 0 .. (N - 1) /\ q \in 0 .. (N - 1)
  BY <1>1, ContextsFacts
<1>3. call.root \in 0 .. (N - 1) /\ call.peer \in 0 .. (N - 1) /\ (call.op = "p2p" => call.root # call.peer)
  BY <1>1, CallFacts, ContextsFacts DEF Talks
<1>4. CASE Skips(c, n)
  <2>1. S = <<>>
    BY <1>1, <1>4, StepsCases
  <2>2. QED
    BY <1>1, <2>1 DEF IsSteps, Answered
<1>5. CASE ~Skips(c, n)
  <2>1. CASE op = "barrier"
    <3>1. S = BarrierSteps(N, r) /\ T = BarrierSteps(N, q)
      BY <1>1, <1>5, <2>1, StepsCases
    <3>2. QED
      BY <1>1, <1>2, <3>1, BarrierIsSteps, BarrierAnswered
  <2>2. CASE op = "bcast"
    <3>1. S = BroadcastSteps(N, r, call.root) /\ T = BroadcastSteps(N, q, call.root)
      BY <1>1, <1>5, <2>2, StepsCases
    <3>2. IsSteps(S, N, r)
      BY <1>2, <1>3, <3>1, BroadcastIsSteps
    <3>3. Answered(S, r, T, q)
      BY <1>2, <1>3, <3>1, BroadcastAnswered
    <3>4. QED
      BY <1>1, <3>2, <3>3
  <2>3. CASE op = "allgather"
    <3>1. S = AllGatherSteps(N, r) /\ T = AllGatherSteps(N, q)
      BY <1>1, <1>5, <2>3, StepsCases
    <3>2. IsSteps(S, N, r)
      BY <1>2, <3>1, AllGatherFacts
    <3>3. \A s \in (0 .. (N - 1)) \ {q} : \E i \in 1 .. Len(T) : T[i] = RecvFrom(s)
      BY <1>2, <3>1, AllGatherFacts
    <3>4. Answered(S, r, T, q)
      <4> SUFFICES ASSUME NEW i \in 1 .. Len(S), S[i] = SendTo(q)
                   PROVE  \E j \in 1 .. Len(T) : T[j] = RecvFrom(r)
        BY DEF Answered
      <4>1. S[i] \in StepSet(N, r)
        BY <3>2 DEF IsSteps
      <4>2. q # r
        BY <4>1, StepKind, StepFacts
      <4>3. QED
        BY <1>2, <3>3, <4>2
    <3>5. QED
      BY <1>1, <3>2, <3>4
  <2>4. CASE op = "gather"
    <3>1. S = GatherSteps(N, r, call.root) /\ T = GatherSteps(N, q, call.root)
      BY <1>1, <1>5, <2>4, StepsCases
    <3>2. CASE r = call.root
      <4>1. AllReceived(S, N, r)
        BY <1>2, <3>1, <3>2, RecvAllFacts DEF GatherSteps
      <4>2. IsSteps(S, N, r)
        BY <4>1 DEF AllReceived, IsSteps
      <4>3. Answered(S, r, T, q)
        BY <4>1, StepFacts DEF AllReceived, Answered
      <4>4. QED
        BY <1>1, <4>2, <4>3
    <3>3. CASE r # call.root
      <4>1. S = <<SendTo(call.root)>>
        BY <3>1, <3>3 DEF GatherSteps
      <4>2. SendTo(call.root) \in StepSet(N, r)
        BY <1>3, <3>3, StepFacts
      <4>3. IsSteps(S, N, r) /\ Len(S) = 1 /\ S[1] = SendTo(call.root)
        BY <1>2, <4>1, <4>2, OneStep
      <4>4. Answered(S, r, T, q)
        <5> SUFFICES ASSUME NEW i \in 1 .. Len(S), S[i] = SendTo(q)
                     PROVE  \E j \in 1 .. Len(T) : T[j] = RecvFrom(r)
          BY DEF Answered
        <5>1. i = 1
          BY <4>3
        <5>2. q = call.root
          BY <4>3, <5>1, StepFacts
        <5>3. AllReceived(T, N, q)
          BY <1>2, <3>1, <5>2, RecvAllFacts DEF GatherSteps
        <5>4. QED
          BY <1>2, <3>3, <5>2, <5>3 DEF AllReceived
      <4>5. QED
        BY <1>1, <4>3, <4>4
    <3>4. QED
      BY <3>2, <3>3
  <2>5. CASE op = "scatter"
    <3>1. S = ScatterSteps(N, r, call.root) /\ T = ScatterSteps(N, q, call.root)
      BY <1>1, <1>5, <2>5, StepsCases
    <3>2. CASE r = call.root
      <4>1. AllSent(S, N, r)
        BY <1>2, <3>1, <3>2, SendAllFacts DEF ScatterSteps
      <4>2. IsSteps(S, N, r)
        BY <4>1 DEF AllSent, IsSteps
      <4>3. Answered(S, r, T, q)
        <5> SUFFICES ASSUME NEW i \in 1 .. Len(S), S[i] = SendTo(q)
                     PROVE  \E j \in 1 .. Len(T) : T[j] = RecvFrom(r)
          BY DEF Answered
        <5>1. S[i] \in StepSet(N, r)
          BY <4>1 DEF AllSent
        <5>2. q # r
          BY <5>1, StepKind, StepFacts
        <5>3. T = <<RecvFrom(r)>>
          BY <3>1, <3>2, <5>2 DEF ScatterSteps
        <5>4. RecvFrom(r) \in StepSet(N, q)
          BY <1>2, <5>2, StepFacts
        <5>5. Len(T) = 1 /\ T[1] = RecvFrom(r)
          BY <1>2, <5>3, <5>4, OneStep
        <5>6. QED
          BY <5>5
      <4>4. QED
        BY <1>1, <4>2, <4>3
    <3>3. CASE r # call.root
      <4>1. S = <<RecvFrom(call.root)>>
        BY <3>1, <3>3 DEF ScatterSteps
      <4>2. RecvFrom(call.root) \in StepSet(N, r)
        BY <1>3, <3>3, StepFacts
      <4>3. IsSteps(S, N, r) /\ Len(S) = 1 /\ S[1] = RecvFrom(call.root)
        BY <1>2, <4>1, <4>2, OneStep
      <4>4. Answered(S, r, T, q)
        BY <4>3, StepFacts DEF Answered
      <4>5. QED
        BY <1>1, <4>3, <4>4
    <3>4. QED
      BY <3>2, <3>3
  <2>6. CASE op = "p2p"
    <3>1. S = P2PSteps(r, call.root, call.peer) /\ T = P2PSteps(q, call.root, call.peer)
      BY <1>1, <1>5, <2>6, StepsCases
    <3>2. call.root # call.peer
      BY <1>1, <1>3, <2>6, StepsCases
    <3>3. CASE r = call.root
      <4>1. S = <<SendTo(call.peer)>>
        BY <3>1, <3>2, <3>3 DEF P2PSteps
      <4>2. SendTo(call.peer) \in StepSet(N, r)
        BY <1>3, <3>2, <3>3, StepFacts
      <4>3. IsSteps(S, N, r) /\ Len(S) = 1 /\ S[1] = SendTo(call.peer)
        BY <1>2, <4>1, <4>2, OneStep
      <4>4. Answered(S, r, T, q)
        <5> SUFFICES ASSUME NEW i \in 1 .. Len(S), S[i] = SendTo(q)
                     PROVE  \E j \in 1 .. Len(T) : T[j] = RecvFrom(r)
          BY DEF Answered
        <5>1. i = 1
          BY <4>3
        <5>2. q = call.peer
          BY <4>3, <5>1, StepFacts
        <5>3. T = <<RecvFrom(r)>>
          BY <3>1, <3>2, <3>3, <5>2 DEF P2PSteps
        <5>4. RecvFrom(r) \in StepSet(N, q)
          BY <1>2, <3>2, <3>3, <5>2, StepFacts
        <5>5. Len(T) = 1 /\ T[1] = RecvFrom(r)
          BY <1>2, <5>3, <5>4, OneStep
        <5>6. QED
          BY <5>5
      <4>5. QED
        BY <1>1, <4>3, <4>4
    <3>4. CASE r = call.peer
      <4>1. S = <<RecvFrom(call.root)>>
        BY <3>1, <3>2, <3>4 DEF P2PSteps
      <4>2. RecvFrom(call.root) \in StepSet(N, r)
        BY <1>3, <3>2, <3>4, StepFacts
      <4>3. IsSteps(S, N, r) /\ Len(S) = 1 /\ S[1] = RecvFrom(call.root)
        BY <1>2, <4>1, <4>2, OneStep
      <4>4. Answered(S, r, T, q)
        BY <4>3, StepFacts DEF Answered
      <4>5. QED
        BY <1>1, <4>3, <4>4
    <3>5. CASE r # call.root /\ r # call.peer
      <4>1. S = <<>>
        BY <3>1, <3>5 DEF P2PSteps
      <4>2. QED
        BY <1>1, <4>1 DEF IsSteps, Answered
    <3>6. QED
      BY <3>3, <3>4, <3>5
  <2>7. op \in {"barrier", "bcast", "allgather", "gather", "scatter", "p2p"}
    BY <1>1, StepsCases
  <2>8. QED
    BY <2>1, <2>2, <2>3, <2>4, <2>5, <2>6, <2>7
<1>6. QED
  BY <1>4, <1>5

-----------------------------------------------------------------------------
(* The invariant.                                                          *)

\* The calls that use counter_, p2p_counter_ and child_counter_, and how many
\* there are among the first n.
Collective(c) == {n \in Talks(c) : Program[c][n].op # "p2p" /\ ~Skips(c, n)}

P2Ps(c, src, dst) ==
  {n \in Talks(c) : Program[c][n].op = "p2p" /\ Program[c][n].root = src /\ Program[c][n].peer = dst}

Spawns(c) == {n \in DOMAIN Program[c] : Program[c][n].op = "spawn"}

Number(T, n) == Cardinality(T \cap (1 .. n))

\* The key of the n-th call of a context with the given id, which all its ranks
\* use, and the message that rank r sends to rank q in it.
EventKey(name, c, n) ==
  LET call == Program[c][n]
  IN  IF call.op = "p2p"
      THEN <<name, Number(P2Ps(c, call.root, call.peer), n), call.root, call.peer>>
      ELSE <<name, Number(Collective(c), n), ImplOf(call.op)>>

Val(c, n, r, q) ==
  LET call == Program[c][n]
  IN  CASE call.op = "barrier" -> Empty
        [] call.op = "scatter" -> Input(c, n, q)
        [] call.op = "bcast" -> Input(c, n, call.root)
        [] OTHER -> Given(c, n, r)

Msg(name, c, n, r, q) == [key |-> EventKey(name, c, n), val |-> Val(c, n, r, q)]

\* The number of steps that a thread has made in its current call, the k-th,
\* with the steps x left: a message is stored before ThrottleWindowWait.
MadeAt(k, x, p, t) ==
  IF k \in Talks(t[1])
  THEN Len(StepsOf(t[1], k, t[2])) - Len(x) + (IF p = "throttle" THEN 1 ELSE 0)
  ELSE 0

Made(C, T, P) == [t \in Thread |-> MadeAt(C[t], T[t], P[t], t)]

\* With the numbers C of calls and M of steps, t has made step i of call n.
Past(C, M, t, n, i) == n < C[t] \/ (n = C[t] /\ i <= M[t])

\* Step i of rank r and step j of rank q are the two ends of a message.
Ends(c, n, r, i, q, j) ==
  /\ i \in 1 .. Len(StepsOf(c, n, r)) /\ StepsOf(c, n, r)[i] = SendTo(q)
  /\ j \in 1 .. Len(StepsOf(c, n, q)) /\ StepsOf(c, n, q)[j] = RecvFrom(r)

OnWay(C, M, c, n, r, i, q, j) ==
  Ends(c, n, r, i, q, j) /\ Past(C, M, <<c, r>>, n, i) /\ ~Past(C, M, <<c, q>>, n, j)

\* What is in a msg_db_ has been sent and not been received, ...
Origin(I, C, M, p, s, m, c, n, r, q, i, j) ==
  /\ c \in Ctx /\ n \in Talks(c) /\ r \in Rank(c) /\ q \in Rank(c)
  /\ i \in 1 .. Len(StepsOf(c, n, r)) /\ j \in 1 .. Len(StepsOf(c, n, q))
  /\ OnWay(C, M, c, n, r, i, q, j)
  /\ PartyOf(c, r) = p /\ PartyOf(c, q) = s /\ m = Msg(I[<<c, r>>], c, n, r, q)

DbSound(I, C, M, D) ==
  \A p, s \in Party : \A m \in D[p][s] :
    \E c, n, r, q, i, j : Origin(I, C, M, p, s, m, c, n, r, q, i, j)

\* ... and all of it is there.
DbComplete(I, C, M, D) ==
  \A c \in Ctx : \A n \in Talks(c) : \A r, q \in Rank(c) :
    \A i \in 1 .. Len(StepsOf(c, n, r)), j \in 1 .. Len(StepsOf(c, n, q)) :
      OnWay(C, M, c, n, r, i, q, j) =>
        Msg(I[<<c, r>>], c, n, r, q) \in D[PartyOf(c, r)][PartyOf(c, q)]

\* Nothing is received before it is sent.
Causal(C, M) ==
  \A c \in Ctx : \A n \in Talks(c) : \A r, q \in Rank(c) :
    \A i \in 1 .. Len(StepsOf(c, n, r)), j \in 1 .. Len(StepsOf(c, n, q)) :
      Ends(c, n, r, i, q, j) /\ Past(C, M, <<c, q>>, n, j) => Past(C, M, <<c, r>>, n, i)

\* After round k of a barrier, the ranks up to Shift[k + 1] - 1 behind are in it.
BarrierKnown(C, M) ==
  \A c \in Ctx : \A n \in Talks(c) : Program[c][n].op = "barrier" =>
    \A r, q \in Rank(c) : \A k \in 0 .. (Rounds(WorldSize(c)) - 1) :
      Past(C, M, <<c, r>>, n, 2 * k + 2) /\ RingOffset(q, r, WorldSize(c)) < Shift[k + 1] =>
        C[<<c, q>>] >= n

\* A call has the input of its rank, and what was sent to it.
PlaceOf(c, n, q) == IF Program[c][n].op = "bcast" THEN Program[c][n].root ELSE q

GotAt(C, M, G, t) ==
  LET c == t[1]
      r == t[2]
      n == C[t]
  IN  /\ HasInput(Program[c][n], r) => G[t][r] = Given(c, n, r)
      /\ \A j \in 1 .. Len(StepsOf(c, n, r)) : \A q \in Rank(c) :
           j <= M[t] /\ StepsOf(c, n, r)[j] = RecvFrom(q) =>
             G[t][PlaceOf(c, n, q)] = Val(c, n, q, r)

GotKnown(P, C, M, G) == \A t \in Thread : P[t] # "idle" => GotAt(C, M, G, t)

\* The steps that are left are the last ones of the call.
RunAt(k, x, p, t) ==
  /\ k \in Nat /\ k <= Len(Program[t[1]])
  /\ x \in Seq(StepSet(WorldSize(t[1]), t[2]))
  /\ p \in {"idle", "step", "throttle"}
  /\ p = "idle" => x = <<>>
  /\ p = "throttle" => x # <<>>
  /\ p # "idle" =>
       LET S == StepsOf(t[1], k, t[2])
       IN  /\ k \in Talks(t[1])
           /\ Len(x) <= Len(S)
           /\ \A i \in 1 .. Len(x) : x[i] = S[Len(S) - Len(x) + i]

Runs(C, T, P) ==
  /\ C \in [Thread -> Nat] /\ DOMAIN T = Thread /\ DOMAIN P = Thread
  /\ \A t \in Thread : RunAt(C[t], T[t], P[t], t)

\* A context that is not used, or has made its calls.
Over(C, P, c) == \A r \in Rank(c) : C[<<c, r>>] = Len(Program[c]) /\ P[<<c, r>>] = "idle"

Live(I, C, P) ==
  \A t \in Thread : I[t] = <<>> => (C[t] = 0 /\ P[t] = "idle") \/ Over(C, P, t[1])

\* The counters a, b and v of a thread that has begun k calls.
CountedAt(k, a, b, v, t) ==
  /\ a = Number(Collective(t[1]), k)
  /\ b = Number(Spawns(t[1]), k)
  /\ \A q \in Rank(t[1]) :
       /\ v[<<t[2], q>>] = Number(P2Ps(t[1], t[2], q), k)
       /\ v[<<q, t[2]>>] = Number(P2Ps(t[1], q, t[2]), k)

Counted(C, P, A, B, V) ==
  \A t \in Thread : Over(C, P, t[1]) \/ CountedAt(C[t], A[t], B[t], V[t], t)

EventKnown(I, C, T, V) ==
  \A t \in Thread : T[t] # <<>> => V[t] = EventKey(I[t], t[1], C[t])

\* The id of a context that Spawn or SubWorld has made at a rank comes from the
\* id of its parent at the same party.
MadeBy(I, C, t, d, n, u) ==
  /\ d \in Ctx /\ n \in Making(d) /\ u \in Rank(d)
  /\ Program[d][n].child = t[1] /\ PartyOf(d, u) = PartyOf(t[1], t[2])
  /\ I[<<d, u>>] # <<>> /\ C[<<d, u>>] >= n
  /\ I[t] = Append(I[<<d, u>>], Name(d, n))

Ids(I, C) ==
  \A t \in Thread : I[t] # <<>> =>
    IF t[1] \in Spawned
    THEN \E d, n, u : MadeBy(I, C, t, d, n, u)
    ELSE I[t] = <<t[1]>>

\* The id of a context is the same at its ranks, and tells it from the others.
IdsAgree(I) ==
  \A t, u \in Thread : I[t] # <<>> /\ I[u] # <<>> => (I[t] = I[u] <=> t[1] = u[1])

Acked(D, S, A) ==
  \A p, q \in Party : IsFiniteSet(D[p][q]) /\ S[p][q] = A[p][q] + Cardinality(D[p][q])

IdTypes(I) == I \in [Thread -> Seq(Ctx \cup Nat)]

Typed ==
  /\ IdTypes(id)
  /\ counter \in [Thread -> Nat] /\ children \in [Thread -> Nat]
  /\ \A t \in Thread : counter[t] <= calls[t]
  /\ DOMAIN p2p = Thread /\ \A t \in Thread : p2p[t] \in [Rank(t[1]) \X Rank(t[1]) -> Nat]
  /\ DOMAIN event = Thread
  /\ wcount \in [Thread -> Nat]
  /\ DOMAIN got = Thread /\ \A t \in Thread : DOMAIN got[t] = Rank(t[1])
  /\ DOMAIN db = Party /\ \A p \in Party : DOMAIN db[p] = Party
  /\ sent \in [Party -> [Party -> Nat]] /\ acks \in [Party -> [Party -> Nat]]

CollectivesInv ==
  /\ Typed /\ Runs(calls, todo, pc) /\ Live(id, calls, pc)
  /\ Counted(calls, pc, counter, children, p2p) /\ EventKnown(id, calls, todo, event)
  /\ Ids(id, calls) /\ IdsAgree(id) /\ Acked(db, sent, acks)
  /\ DbSound(id, calls, Made(calls, todo, pc), db) /\ DbComplete(id, calls, Made(calls, todo, pc), db)
  /\ Causal(calls, Made(calls, todo, pc)) /\ BarrierKnown(calls, Made(calls, todo, pc))
  /\ GotKnown(pc, calls, Made(calls, todo, pc), got)

-----------------------------------------------------------------------------
(* Keys.                                                                   *)

LEMMA NumberFacts ==
  ASSUME NEW T, NEW n \in Nat
  PROVE  /\ Number(T, 0) = 0
         /\ Number(T, n) \in 0 .. n
         /\ Number(T, n + 1) = Number(T, n) + (IF n + 1 \in T THEN 1 ELSE 0)
<1>1. T \cap (1 .. 0) = {}
  OBVIOUS
<1>2. Number(T, 0) = 0
  BY <1>1, FS_EmptySet DEF Number
<1>3. IsFiniteSet(1 .. n) /\ Cardinality(1 .. n) = n
  BY FS_Interval
<1>4. PICK A : A = T \cap (1 .. n)
  OBVIOUS
<1>5. IsFiniteSet(A) /\ Cardinality(A) <= n /\ Cardinality(A) \in Nat
  <2>1. A \in SUBSET (1 .. n)
    BY <1>4
  <2>2. IsFiniteSet(A) /\ Cardinality(A) <= Cardinality(1 .. n)
    BY <1>3, <2>1, FS_Subset
  <2>3. QED
    BY <1>3, <2>2, FS_CardinalityType
<1>6. CASE n + 1 \in T
  <2>1. T \cap (1 .. (n + 1)) = A \cup {n + 1}
    BY <1>4, <1>6
  <2>2. n + 1 \notin A
    BY <1>4
  <2>3. Cardinality(A \cup {n + 1}) = Cardinality(A) + 1
    BY <1>5, <2>2, FS_AddElement
  <2>4. Number(T, n) = Cardinality(A) /\ Number(T, n + 1) = Cardinality(A \cup {n + 1})
    BY <1>4, <2>1 DEF Number
  <2>5. QED
    BY <1>2, <1>5, <1>6, <2>3, <2>4
<1>7. CASE n + 1 \notin T
  <2>1. T \cap (1 .. (n + 1)) = A
    BY <1>4, <1>7
  <2>2. Number(T, n) = Cardinality(A) /\ Number(T, n + 1) = Cardinality(A)
    BY <1>4, <2>1 DEF Number
  <2>3. QED
    BY <1>2, <1>5, <1>7, <2>2
<1>8. QED
  BY <1>6, <1>7

LEMMA NumberUnique ==
  ASSUME NEW T, NEW n \in Nat, NEW m \in Nat, n \in T, m \in T, n # 0, m # 0,
         Number(T, n) = Number(T, m)
  PROVE  n = m
<1>1. ASSUME NEW a \in Nat, NEW b \in Nat, a < b, b \in T
      PROVE  Number(T, a) < Number(T, b)
  <2>1. IsFiniteSet(1 .. b)
    BY FS_Interval
  <2>2. PICK A, B : A = T \cap (1 .. a) /\ B = T \cap (1 .. b)
    OBVIOUS
  <2>3. B \in SUBSET (1 .. b) /\ A \in SUBSET (B \ {b}) /\ b \in B
    BY <1>1, <2>2
  <2>4. IsFiniteSet(B)
    BY <2>1, <2>3, FS_Subset
  <2>5. IsFiniteSet(B \ {b}) /\ Cardinality(B \ {b}) = Cardinality(B) - 1
    BY <2>3, <2>4, FS_RemoveElement
  <2>6. Cardinality(A) <= Cardinality(B \ {b}) /\ IsFiniteSet(A)
    BY <2>3, <2>5, FS_Subset
  <2>7. Cardinality(A) \in Nat /\ Cardinality(B) \in Nat
    BY <2>4, <2>6, FS_CardinalityType
  <2>8. Cardinality(A) < Cardinality(B)
    BY <2>5, <2>6, <2>7
  <2>9. QED
    BY <2>2, <2>8 DEF Number
<1>2. Number(T, n) \in Nat /\ Number(T, m) \in Nat
  <2>1. Number(T, n) \in 0 .. n /\ Number(T, m) \in 0 .. m
    BY NumberFacts
  <2>2. QED
    BY <2>1
<1>3. ~(n < m) /\ ~(m < n)
  BY <1>1, <1>2
<1>4. QED
  BY <1>3

\* A call is in at most one of the sequences that are numbered.
LEMMA Numbered ==
  ASSUME NEW c \in Ctx, NEW n \in Talks(c), ~Skips(c, n)
  PROVE  /\ n \in Nat /\ n # 0
         /\ IF Program[c][n].op = "p2p"
            THEN n \in P2Ps(c, Program[c][n].root, Program[c][n].peer)
            ELSE n \in Collective(c)
<1>1. n \in 1 .. Len(Program[c]) /\ Len(Program[c]) \in Nat
  BY ContextsFacts DEF Talks
<1>2. QED
  BY <1>1 DEF P2Ps, Collective

\* The calls of a context have different keys, and so have contexts with
\* different ids.
LEMMA KeyFacts ==
  ASSUME NEW c \in Ctx, NEW d \in Ctx, NEW n \in Talks(c), NEW m \in Talks(d),
         NEW a, NEW b, ~Skips(c, n), ~Skips(d, m), EventKey(a, c, n) = EventKey(b, d, m)
  PROVE  a = b /\ (c = d => n = m)
<1>1. PICK x, y : x = Program[c][n] /\ y = Program[d][m]
  OBVIOUS
<1>2. PICK k, l, e, f : /\ k = Number(P2Ps(c, x.root, x.peer), n) /\ l = Number(Collective(c), n)
                        /\ e = Number(P2Ps(d, y.root, y.peer), m) /\ f = Number(Collective(d), m)
  OBVIOUS
<1>3. /\ EventKey(a, c, n) = IF x.op = "p2p" THEN <<a, k, x.root, x.peer>>
                             ELSE <<a, l, ImplOf(x.op)>>
      /\ EventKey(b, d, m) = IF y.op = "p2p" THEN <<b, e, y.root, y.peer>>
                             ELSE <<b, f, ImplOf(y.op)>>
  BY <1>1, <1>2 DEF EventKey
<1>4. n \in Nat /\ m \in Nat /\ n # 0 /\ m # 0
  BY Numbered
<1>5. CASE x.op = "p2p" /\ y.op = "p2p"
  <2>1. <<a, k, x.root, x.peer>> = <<b, e, y.root, y.peer>>
    BY <1>3, <1>5
  <2>2. a = b /\ k = e /\ x.root = y.root /\ x.peer = y.peer
    BY <2>1
  <2>3. n \in P2Ps(c, x.root, x.peer) /\ m \in P2Ps(d, y.root, y.peer)
    BY <1>1, <1>5, Numbered
  <2>4. c = d => n = m
    BY <1>2, <1>4, <2>2, <2>3, NumberUnique
  <2>5. QED
    BY <2>2, <2>4
<1>6. CASE x.op # "p2p" /\ y.op # "p2p"
  <2>1. <<a, l, ImplOf(x.op)>> = <<b, f, ImplOf(y.op)>>
    BY <1>3, <1>6
  <2>2. a = b /\ l = f
    BY <2>1
  <2>3. n \in Collective(c) /\ m \in Collective(d)
    BY <1>1, <1>6, Numbered
  <2>4. c = d => n = m
    BY <1>2, <1>4, <2>2, <2>3, NumberUnique
  <2>5. QED
    BY <2>2, <2>4
<1>7. CASE x.op = "p2p" /\ y.op # "p2p"
  <2>1. <<a, k, x.root, x.peer>> = <<b, f, ImplOf(y.op)>>
    BY <1>3, <1>7
  <2>2. QED
    BY <2>1
<1>8. CASE x.op # "p2p" /\ y.op = "p2p"
  <2>1. <<a, l, ImplOf(x.op)>> = <<b, e, y.root, y.peer>>
    BY <1>3, <1>8
  <2>2. QED
    BY <2>1
<1>9. QED
  BY <1>5, <1>6, <1>7, <1>8

\* Both ends of a message are in a call with steps; one end determines the other.
LEMMA EndsFacts ==
  ASSUME NEW c \in Ctx, NEW n \in Talks(c), NEW r \in Rank(c), NEW q \in Rank(c),
         NEW i, NEW j, Ends(c, n, r, i, q, j)
  PROVE  /\ ~Skips(c, n)
         /\ i \in Nat /\ j \in Nat /\ i >= 1 /\ j >= 1
         /\ r # q
         /\ \A s \in Rank(c) : \A k : Ends(c, n, r, i, s, k) => s = q /\ k = j
         /\ \A s \in Rank(c) : \A k : Ends(c, n, s, k, q, j) => s = r /\ k = i
         /\ \A k, l : Ends(c, n, r, k, q, l) => k = i /\ l = j
<1>1. PICK S, T : S = StepsOf(c, n, r) /\ T = StepsOf(c, n, q)
  OBVIOUS
<1>2. IsSteps(S, WorldSize(c), r) /\ IsSteps(T, WorldSize(c), q)
  BY <1>1, StepsFacts
<1>3. Len(S) \in Nat /\ Len(T) \in Nat
  BY <1>2 DEF IsSteps
<1>4. i \in 1 .. Len(S) /\ j \in 1 .. Len(T) /\ S[i] = SendTo(q) /\ T[j] = RecvFrom(r)
  BY <1>1 DEF Ends
<1>5. i \in Nat /\ j \in Nat /\ i >= 1 /\ j >= 1
  BY <1>3, <1>4
<1>6. ~Skips(c, n)
  <2> SUFFICES ASSUME Skips(c, n) PROVE FALSE
    OBVIOUS
  <2>1. S = <<>>
    BY <1>1, StepsCases
  <2>2. QED
    BY <1>4, <2>1
<1>7. r # q
  <2>1. S[i] \in StepSet(WorldSize(c), r)
    BY <1>2, <1>4 DEF IsSteps
  <2>2. S[i].rank # r
    BY <2>1, StepKind
  <2>3. QED
    BY <1>4, <2>2, StepFacts
<1>8. ASSUME NEW s \in Rank(c), NEW k, Ends(c, n, r, i, s, k)
      PROVE  s = q /\ k = j
  <2>1. S[i] = SendTo(s) /\ k \in 1 .. Len(StepsOf(c, n, s)) /\ StepsOf(c, n, s)[k] = RecvFrom(r)
    BY <1>1, <1>8 DEF Ends
  <2>2. s = q
    BY <1>4, <2>1, StepFacts
  <2>3. k \in 1 .. Len(T) /\ T[k] = T[j]
    BY <1>1, <1>4, <2>1, <2>2
  <2>4. QED
    BY <1>2, <1>4, <2>2, <2>3 DEF IsSteps
<1>9. ASSUME NEW s \in Rank(c), NEW k, Ends(c, n, s, k, q, j)
      PROVE  s = r /\ k = i
  <2>1. T[j] = RecvFrom(s) /\ k \in 1 .. Len(StepsOf(c, n, s)) /\ StepsOf(c, n, s)[k] = SendTo(q)
    BY <1>1, <1>9 DEF Ends
  <2>2. s = r
    BY <1>4, <2>1, StepFacts
  <2>3. k \in 1 .. Len(S) /\ S[k] = S[i]
    BY <1>1, <1>4, <2>1, <2>2
  <2>4. QED
    BY <1>2, <1>4, <2>2, <2>3 DEF IsSteps
<1>10. ASSUME NEW k, NEW l, Ends(c, n, r, k, q, l)
       PROVE  k = i /\ l = j
  <2>1. k \in 1 .. Len(S) /\ S[k] = S[i] /\ l \in 1 .. Len(T) /\ T[l] = T[j]
    BY <1>1, <1>4, <1>10 DEF Ends
  <2>2. QED
    BY <1>2, <1>4, <2>1 DEF IsSteps
<1>11. QED
  BY <1>5, <1>6, <1>7, <1>8, <1>9, <1>10

-----------------------------------------------------------------------------
(* Messages, in a state with ids I, numbers C of calls and M of steps, and *)
(* program counters P.                                                     *)

LEMMA ThreadFacts ==
  /\ \A c \in Ctx : \A r \in Rank(c) : <<c, r>> \in Thread
  /\ \A t \in Thread : t[1] \in Ctx /\ t[2] \in Rank(t[1]) /\ t = <<t[1], t[2]>>
<1>1. \A c \in Ctx : \A r \in Rank(c) : <<c, r>> \in Thread
  BY DEF Thread
<1>2. ASSUME NEW t \in Thread
      PROVE  t[1] \in Ctx /\ t[2] \in Rank(t[1]) /\ t = <<t[1], t[2]>>
  <2>1. PICK c \in Ctx : t \in {<<c, r>> : r \in Rank(c)}
    BY DEF Thread
  <2>2. PICK r \in Rank(c) : t = <<c, r>>
    BY <2>1
  <2>3. t[1] = c /\ t[2] = r
    BY <2>2
  <2>4. QED
    BY <2>2, <2>3
<1>3. QED
  BY <1>1, <1>2

\* A thread is in a call, or has made all its steps.
Steady(C, M, P) ==
  /\ C \in [Thread -> Nat] /\ M \in [Thread -> Nat]
  /\ \A t \in Thread :
       /\ C[t] <= Len(Program[t[1]])
       /\ C[t] \in Talks(t[1]) => M[t] <= Len(StepsOf(t[1], C[t], t[2]))
       /\ C[t] \in Talks(t[1]) /\ P[t] = "idle" => M[t] = Len(StepsOf(t[1], C[t], t[2]))

\* The steps of a call are a sequence.
LEMMA StepsLength ==
  ASSUME NEW c \in Ctx, NEW n \in Talks(c), NEW r \in Rank(c)
  PROVE  /\ Len(StepsOf(c, n, r)) \in Nat
         /\ StepsOf(c, n, r) \in Seq(StepSet(WorldSize(c), r))
         /\ n \in 1 .. Len(Program[c]) /\ n \in Nat /\ n # 0
<1>1. IsSteps(StepsOf(c, n, r), WorldSize(c), r)
  BY StepsFacts
<1>2. n \in 1 .. Len(Program[c]) /\ Len(Program[c]) \in Nat
  BY ContextsFacts DEF Talks
<1>3. QED
  BY <1>1, <1>2 DEF IsSteps

\* Who has sent what is not received has an id.
LEMMA OnWayNamed ==
  ASSUME NEW I, NEW C, NEW M, NEW P, NEW c \in Ctx, NEW n \in Talks(c), NEW r \in Rank(c),
         NEW q \in Rank(c), NEW i, NEW j, OnWay(C, M, c, n, r, i, q, j),
         Steady(C, M, P), Live(I, C, P)
  PROVE  I[<<c, r>>] # <<>>
<1> SUFFICES ASSUME I[<<c, r>>] = <<>> PROVE FALSE
  OBVIOUS
<1>1. PICK t, u : t = <<c, r>> /\ u = <<c, q>> /\ t \in Thread /\ u \in Thread /\ t[1] = c /\ u[1] = c /\ u[2] = q
  <2>1. <<c, r>> \in Thread /\ <<c, q>> \in Thread
    BY ThreadFacts
  <2>2. QED
    BY <2>1
<1>2. n \in Nat /\ n # 0 /\ n \in 1 .. Len(Program[c]) /\ Len(Program[c]) \in Nat
  BY StepsLength, ContextsFacts
<1>3. C[t] \in Nat /\ C[u] \in Nat /\ M[u] \in Nat
  BY <1>1 DEF Steady
<1>4. Past(C, M, t, n, i) /\ ~Past(C, M, u, n, j) /\ j \in 1 .. Len(StepsOf(c, n, q))
  BY <1>1 DEF OnWay, Ends
<1>5. C[t] # 0
  BY <1>2, <1>3, <1>4 DEF Past
<1>6. Over(C, P, c)
  BY <1>1, <1>5 DEF Live
<1>7. C[u] = Len(Program[c]) /\ P[u] = "idle"
  BY <1>1, <1>6 DEF Over
<1>8. C[u] = n
  BY <1>2, <1>3, <1>4, <1>7 DEF Past
<1>9. M[u] = Len(StepsOf(c, n, q))
  BY <1>1, <1>7, <1>8 DEF Steady
<1>10. Len(StepsOf(c, n, q)) \in Nat
  BY StepsLength
<1>11. QED
  BY <1>3, <1>4, <1>8, <1>9, <1>10 DEF Past

\* Between two parties there is one message of a key.
LEMMA SameMessage ==
  ASSUME NEW I, NEW c \in Ctx, NEW d \in Ctx, NEW n \in Talks(c), NEW m \in Talks(d),
         NEW r \in Rank(c), NEW q \in Rank(c), NEW s \in Rank(d), NEW u \in Rank(d),
         NEW i, NEW j, NEW k, NEW l,
         Ends(c, n, r, i, q, j), Ends(d, m, s, k, u, l), IdsAgree(I),
         I[<<c, r>>] # <<>>, I[<<d, s>>] # <<>>,
         PartyOf(c, r) = PartyOf(d, s), PartyOf(c, q) = PartyOf(d, u),
         EventKey(I[<<c, r>>], c, n) = EventKey(I[<<d, s>>], d, m)
  PROVE  c = d /\ n = m /\ r = s /\ q = u /\ i = k /\ j = l
<1>1. ~Skips(c, n) /\ ~Skips(d, m)
  BY EndsFacts
<1>2. I[<<c, r>>] = I[<<d, s>>] /\ (c = d => n = m)
  BY <1>1, KeyFacts
<1>3. c = d
  <2>1. PICK x, y : x = <<c, r>> /\ y = <<d, s>> /\ x \in Thread /\ y \in Thread /\ x[1] = c /\ y[1] = d
    BY ThreadFacts
  <2>2. QED
    BY <1>2, <2>1 DEF IdsAgree
<1>4. n = m /\ r = s /\ q = u
  BY <1>2, <1>3, ContextsFacts
<1>5. Ends(c, n, r, k, q, l)
  BY <1>3, <1>4
<1>6. k = i /\ l = j
  BY <1>5, EndsFacts
<1>7. QED
  BY <1>3, <1>4, <1>6

\* A thread begins a call after it has made the steps of the one before: no
\* step is made by that.
SamePast(C, M, E, F) ==
  \A c \in Ctx : \A n \in Talks(c) : \A r \in Rank(c) : \A i \in 1 .. Len(StepsOf(c, n, r)) :
    Past(E, F, <<c, r>>, n, i) <=> Past(C, M, <<c, r>>, n, i)

LEMMA BeginPast ==
  ASSUME NEW C, NEW M, NEW P, NEW E, NEW F, NEW t \in Thread, Steady(C, M, P),
         P[t] = "idle", E = [C EXCEPT ![t] = @ + 1], F \in [Thread -> Nat],
         E[t] \in Talks(t[1]) => F[t] = 0, \A u \in Thread : u # t => F[u] = M[u]
  PROVE  SamePast(C, M, E, F)
<1> SUFFICES ASSUME NEW c \in Ctx, NEW n \in Talks(c), NEW r \in Rank(c),
                    NEW i \in 1 .. Len(StepsOf(c, n, r))
             PROVE  Past(E, F, <<c, r>>, n, i) <=> Past(C, M, <<c, r>>, n, i)
  BY DEF SamePast
<1>1. PICK u : u = <<c, r>> /\ u \in Thread /\ u[1] = c /\ u[2] = r
  BY ThreadFacts, ZenonT(60)
<1>2. n \in Nat /\ Len(StepsOf(c, n, r)) \in Nat
  BY StepsLength
<1>3. C[u] \in Nat /\ M[u] \in Nat /\ DOMAIN C = Thread
  BY <1>1 DEF Steady
<1>4. CASE u # t
  <2>1. E[u] = C[u] /\ F[u] = M[u]
    BY <1>1, <1>3, <1>4
  <2>2. QED
    BY <1>1, <2>1 DEF Past
<1>5. CASE u = t
  <2>1. E[u] = C[u] + 1
    BY <1>1, <1>3, <1>5
  <2>2. n = E[u] => F[u] = 0
    BY <1>1, <1>5
  <2>3. n = C[u] => M[u] = Len(StepsOf(c, n, r))
    BY <1>1, <1>5 DEF Steady
  <2>4. QED
    BY <1>1, <1>2, <1>3, <2>1, <2>2, <2>3 DEF Past
<1>6. QED
  BY <1>4, <1>5

\* Ids that are there stay.
LEMMA SameMessages ==
  ASSUME NEW C, NEW M, NEW E, NEW F, NEW P, NEW I, NEW J, NEW D, SamePast(C, M, E, F),
         Steady(C, M, P), Live(I, C, P),
         \A t \in Thread : I[t] # <<>> => J[t] = I[t]
  PROVE  /\ DbSound(I, C, M, D) => DbSound(J, E, F, D)
         /\ DbComplete(I, C, M, D) => DbComplete(J, E, F, D)
         /\ Causal(C, M) => Causal(E, F)
<1>1. ASSUME NEW c \in Ctx, NEW n \in Talks(c), NEW r \in Rank(c), NEW q \in Rank(c),
             NEW i \in 1 .. Len(StepsOf(c, n, r)), NEW j \in 1 .. Len(StepsOf(c, n, q))
      PROVE  /\ Past(E, F, <<c, r>>, n, i) <=> Past(C, M, <<c, r>>, n, i)
             /\ Past(E, F, <<c, q>>, n, j) <=> Past(C, M, <<c, q>>, n, j)
             /\ OnWay(E, F, c, n, r, i, q, j) <=> OnWay(C, M, c, n, r, i, q, j)
             /\ OnWay(C, M, c, n, r, i, q, j) => J[<<c, r>>] = I[<<c, r>>]
  <2>1. /\ Past(E, F, <<c, r>>, n, i) <=> Past(C, M, <<c, r>>, n, i)
        /\ Past(E, F, <<c, q>>, n, j) <=> Past(C, M, <<c, q>>, n, j)
    BY DEF SamePast
  <2>2. OnWay(E, F, c, n, r, i, q, j) <=> OnWay(C, M, c, n, r, i, q, j)
    BY <2>1 DEF OnWay
  <2>3. OnWay(C, M, c, n, r, i, q, j) => J[<<c, r>>] = I[<<c, r>>]
    BY OnWayNamed, ThreadFacts
  <2>4. QED
    BY <2>1, <2>2, <2>3
<1>2. ASSUME DbSound(I, C, M, D) PROVE DbSound(J, E, F, D)
  <2> SUFFICES ASSUME NEW p \in Party, NEW s \in Party, NEW m \in D[p][s]
               PROVE  \E c, n, r, q, i, j : Origin(J, E, F, p, s, m, c, n, r, q, i, j)
    BY DEF DbSound
  <2>1. PICK c, n, r, q, i, j : Origin(I, C, M, p, s, m, c, n, r, q, i, j)
    BY <1>2 DEF DbSound
  <2>2. OnWay(E, F, c, n, r, i, q, j) /\ J[<<c, r>>] = I[<<c, r>>]
    BY <1>1, <2>1 DEF Origin
  <2>3. Origin(J, E, F, p, s, m, c, n, r, q, i, j)
    BY <2>1, <2>2 DEF Origin
  <2>4. QED
    BY <2>3
<1>3. ASSUME DbComplete(I, C, M, D) PROVE DbComplete(J, E, F, D)
  <2> SUFFICES ASSUME NEW c \in Ctx, NEW n \in Talks(c), NEW r \in Rank(c), NEW q \in Rank(c),
                      NEW i \in 1 .. Len(StepsOf(c, n, r)), NEW j \in 1 .. Len(StepsOf(c, n, q)),
                      OnWay(E, F, c, n, r, i, q, j)
               PROVE  Msg(J[<<c, r>>], c, n, r, q) \in D[PartyOf(c, r)][PartyOf(c, q)]
    BY DEF DbComplete
  <2>1. OnWay(C, M, c, n, r, i, q, j) /\ J[<<c, r>>] = I[<<c, r>>]
    BY <1>1
  <2>2. Msg(I[<<c, r>>], c, n, r, q) \in D[PartyOf(c, r)][PartyOf(c, q)]
    BY <1>3, <2>1 DEF DbComplete
  <2>3. QED
    BY <2>1, <2>2
<1>4. ASSUME Causal(C, M) PROVE Causal(E, F)
  <2> SUFFICES ASSUME NEW c \in Ctx, NEW n \in Talks(c), NEW r \in Rank(c), NEW q \in Rank(c),
                      NEW i \in 1 .. Len(StepsOf(c, n, r)), NEW j \in 1 .. Len(StepsOf(c, n, q)),
                      Ends(c, n, r, i, q, j), Past(E, F, <<c, q>>, n, j)
               PROVE  Past(E, F, <<c, r>>, n, i)
    BY DEF Causal
  <2>1. Past(C, M, <<c, q>>, n, j)
    BY <1>1
  <2>2. Past(C, M, <<c, r>>, n, i)
    BY <1>4, <2>1 DEF Causal
  <2>3. QED
    BY <1>1, <2>2
<1>5. QED
  BY <1>2, <1>3, <1>4

\* A thread makes its next step, and no other.
Makes(M, F, t) == F = [M EXCEPT ![t] = @ + 1]

LEMMA StepPast ==
  ASSUME NEW C, NEW M, NEW P, NEW F, NEW t \in Thread, NEW u \in Thread, NEW n \in Nat, NEW i \in Nat,
         Steady(C, M, P), Makes(M, F, t)
  PROVE  Past(C, F, u, n, i) <=>
           Past(C, M, u, n, i) \/ (u = t /\ n = C[t] /\ i = M[t] + 1)
<1>1. C[u] \in Nat /\ M[u] \in Nat /\ DOMAIN M = Thread
  BY DEF Steady
<1>2. CASE u = t
  <2>1. F[u] = M[u] + 1
    BY <1>1, <1>2 DEF Makes
  <2>2. QED
    BY <1>1, <1>2, <2>1 DEF Past
<1>3. CASE u # t
  <2>1. F[u] = M[u]
    BY <1>1, <1>3 DEF Makes
  <2>2. QED
    BY <1>3, <2>1 DEF Past
<1>4. QED
  BY <1>2, <1>3

\* Thread t, of rank r in context c, is in call n and makes step i, which is x.
AtStep(C, M, t, c, r, n, i, x) ==
  /\ t \in Thread /\ t = <<c, r>> /\ c \in Ctx /\ r \in Rank(c)
  /\ n = C[t] /\ n \in Talks(c)
  /\ i = M[t] + 1 /\ i \in 1 .. Len(StepsOf(c, n, r)) /\ StepsOf(c, n, r)[i] = x

\* A send meets no message with its key.
LEMMA SendFresh ==
  ASSUME NEW I, NEW C, NEW M, NEW P, NEW D, NEW t, NEW c, NEW r, NEW n, NEW i, NEW q \in Rank(c),
         Steady(C, M, P), Live(I, C, P), IdsAgree(I), DbSound(I, C, M, D),
         AtStep(C, M, t, c, r, n, i, SendTo(q)), I[t] # <<>>,
         NEW m \in D[PartyOf(c, r)][PartyOf(c, q)]
  PROVE  m.key # EventKey(I[t], c, n)
<1> SUFFICES ASSUME m.key = EventKey(I[t], c, n) PROVE FALSE
  OBVIOUS
<1>1. /\ t \in Thread /\ t = <<c, r>> /\ c \in Ctx /\ r \in Rank(c) /\ n = C[t] /\ n \in Talks(c)
      /\ i = M[t] + 1 /\ i \in 1 .. Len(StepsOf(c, n, r)) /\ StepsOf(c, n, r)[i] = SendTo(q)
  BY DEF AtStep
<1>2. PartyOf(c, r) \in Party /\ PartyOf(c, q) \in Party
  BY <1>1, ContextsFacts
<1>3. PICK d, k, s, u, e, f : Origin(I, C, M, PartyOf(c, r), PartyOf(c, q), m, d, k, s, u, e, f)
  BY <1>2 DEF DbSound
<1>4. /\ d \in Ctx /\ k \in Talks(d) /\ s \in Rank(d) /\ u \in Rank(d)
      /\ OnWay(C, M, d, k, s, e, u, f) /\ Ends(d, k, s, e, u, f) /\ Past(C, M, <<d, s>>, k, e)
      /\ PartyOf(d, s) = PartyOf(c, r) /\ PartyOf(d, u) = PartyOf(c, q)
      /\ m.key = EventKey(I[<<d, s>>], d, k)
  BY <1>3 DEF Origin, OnWay, Msg
<1>5. I[<<d, s>>] # <<>>
  BY <1>4, OnWayNamed
<1>6. PICK j \in 1 .. Len(StepsOf(c, n, q)) : StepsOf(c, n, q)[j] = RecvFrom(r)
  BY <1>1, StepsFacts DEF Answered
<1>7. Ends(c, n, r, i, q, j)
  BY <1>1, <1>6 DEF Ends
<1>8. c = d /\ n = k /\ r = s /\ i = e
  BY <1>1, <1>4, <1>5, <1>7, SameMessage
<1>9. Past(C, M, t, n, i)
  BY <1>1, <1>4, <1>8
<1>10. M[t] \in Nat /\ C[t] \in Nat
  BY <1>1 DEF Steady
<1>11. QED
  BY <1>1, <1>9, <1>10 DEF Past

\* A message m from party a to party b is stored, or taken.
Puts(D, E, a, b, m) ==
  \A p, s \in Party : E[p][s] = IF p = a /\ s = b THEN D[p][s] \cup {m} ELSE D[p][s]

Takes(D, E, a, b, m) ==
  \A p, s \in Party : E[p][s] = IF p = a /\ s = b THEN D[p][s] \ {m} ELSE D[p][s]

\* A send puts its message on the way.
LEMMA SendDb ==
  ASSUME NEW I, NEW C, NEW M, NEW P, NEW F, NEW D, NEW E, NEW t, NEW c, NEW r, NEW n, NEW i,
         NEW q \in Rank(c), Steady(C, M, P), Causal(C, M),
         DbSound(I, C, M, D), DbComplete(I, C, M, D),
         AtStep(C, M, t, c, r, n, i, SendTo(q)), Makes(M, F, t),
         Puts(D, E, PartyOf(c, r), PartyOf(c, q), Msg(I[t], c, n, r, q))
  PROVE  Causal(C, F) /\ DbSound(I, C, F, E) /\ DbComplete(I, C, F, E)
<1> USE DEF Puts
<1>1. /\ t \in Thread /\ t = <<c, r>> /\ c \in Ctx /\ r \in Rank(c) /\ n = C[t] /\ n \in Talks(c)
      /\ i = M[t] + 1 /\ i \in 1 .. Len(StepsOf(c, n, r)) /\ StepsOf(c, n, r)[i] = SendTo(q)
  BY DEF AtStep
<1>2. PICK j \in 1 .. Len(StepsOf(c, n, q)) : StepsOf(c, n, q)[j] = RecvFrom(r)
  BY <1>1, StepsFacts DEF Answered
<1>3. Ends(c, n, r, i, q, j)
  BY <1>1, <1>2 DEF Ends
<1>4. M[t] \in Nat /\ C[t] \in Nat /\ ~Past(C, M, t, n, i)
  <2>1. M[t] \in Nat /\ C[t] \in Nat
    BY <1>1 DEF Steady
  <2>2. QED
    BY <1>1, <2>1 DEF Past
<1>5. ~Past(C, M, <<c, q>>, n, j)
  BY <1>1, <1>2, <1>3, <1>4 DEF Causal
\* The receiving ends are as before.
<1>6. ASSUME NEW d \in Ctx, NEW k \in Talks(d), NEW s \in Rank(d), NEW u \in Rank(d), NEW e, NEW f,
             Ends(d, k, s, e, u, f)
      PROVE  /\ Past(C, F, <<d, u>>, k, f) <=> Past(C, M, <<d, u>>, k, f)
             /\ Past(C, F, <<d, s>>, k, e) <=>
                  Past(C, M, <<d, s>>, k, e) \/ (d = c /\ k = n /\ s = r /\ e = i /\ u = q /\ f = j)
  <2>1. e \in Nat /\ f \in Nat /\ k \in Nat
    BY <1>6, EndsFacts, StepsLength
  <2>2. PICK x, y : x = <<d, s>> /\ y = <<d, u>> /\ x \in Thread /\ y \in Thread
    BY ThreadFacts
  <2>3. /\ Past(C, F, y, k, f) <=> Past(C, M, y, k, f) \/ (y = t /\ k = n /\ f = i)
        /\ Past(C, F, x, k, e) <=> Past(C, M, x, k, e) \/ (x = t /\ k = n /\ e = i)
    <3>1. \A z \in Thread, l \in Nat, o \in Nat :
            Past(C, F, z, l, o) <=> Past(C, M, z, l, o) \/ (z = t /\ l = C[t] /\ o = M[t] + 1)
      BY <1>1, StepPast
    <3>2. QED
      BY <1>1, <2>1, <2>2, <3>1
  <2>4. ~(y = t /\ k = n /\ f = i)
    <3> SUFFICES ASSUME y = t, k = n, f = i PROVE FALSE
      OBVIOUS
    <3>1. d = c /\ u = r
      BY <1>1, <2>2
    <3>2. StepsOf(c, n, r)[i] = RecvFrom(s)
      BY <1>6, <3>1 DEF Ends
    <3>3. QED
      BY <1>1, <3>2, StepFacts
  <2>5. x = t /\ k = n /\ e = i => d = c /\ s = r /\ u = q /\ f = j
    <3> SUFFICES ASSUME x = t, k = n, e = i PROVE d = c /\ s = r /\ u = q /\ f = j
      OBVIOUS
    <3>1. d = c /\ s = r
      BY <1>1, <2>2
    <3>2. Ends(c, n, r, i, u, f) /\ u \in Rank(c)
      BY <1>6, <3>1
    <3>3. QED
      BY <1>1, <1>3, <3>1, <3>2, EndsFacts
  <2>6. d = c /\ s = r => x = t
    BY <1>1, <2>2
  <2>7. QED
    BY <2>2, <2>3, <2>4, <2>5, <2>6
<1>7. Causal(C, F)
  <2> SUFFICES ASSUME NEW d \in Ctx, NEW k \in Talks(d), NEW s \in Rank(d), NEW u \in Rank(d),
                      NEW e \in 1 .. Len(StepsOf(d, k, s)), NEW f \in 1 .. Len(StepsOf(d, k, u)),
                      Ends(d, k, s, e, u, f), Past(C, F, <<d, u>>, k, f)
               PROVE  Past(C, F, <<d, s>>, k, e)
    BY DEF Causal
  <2>1. Past(C, M, <<d, u>>, k, f)
    BY <1>6
  <2>2. Past(C, M, <<d, s>>, k, e)
    BY <2>1 DEF Causal
  <2>3. QED
    BY <1>6, <2>2
<1>8. OnWay(C, F, c, n, r, i, q, j)
  BY <1>1, <1>3, <1>5, <1>6 DEF OnWay
<1>9. DbSound(I, C, F, E)
  <2> SUFFICES ASSUME NEW p \in Party, NEW s \in Party, NEW m \in E[p][s]
               PROVE  \E d, k, v, u, e, f : Origin(I, C, F, p, s, m, d, k, v, u, e, f)
    BY DEF DbSound
  <2>1. CASE m \in D[p][s]
    <3>1. PICK d, k, v, u, e, f : Origin(I, C, M, p, s, m, d, k, v, u, e, f)
      BY <2>1 DEF DbSound
    <3>2. /\ d \in Ctx /\ k \in Talks(d) /\ v \in Rank(d) /\ u \in Rank(d) /\ Ends(d, k, v, e, u, f)
          /\ Past(C, M, <<d, v>>, k, e) /\ ~Past(C, M, <<d, u>>, k, f)
      BY <3>1 DEF Origin, OnWay
    <3>3. OnWay(C, F, d, k, v, e, u, f)
      BY <1>6, <3>2 DEF OnWay
    <3>4. Origin(I, C, F, p, s, m, d, k, v, u, e, f)
      BY <3>1, <3>3 DEF Origin
    <3>5. QED
      BY <3>4
  <2>2. CASE m \notin D[p][s]
    <3>1. p = PartyOf(c, r) /\ s = PartyOf(c, q) /\ m = Msg(I[t], c, n, r, q)
      BY <2>2
    <3>2. Origin(I, C, F, p, s, m, c, n, r, q, i, j)
      BY <1>1, <1>2, <1>8, <3>1 DEF Origin
    <3>3. QED
      BY <3>2
  <2>3. QED
    BY <2>1, <2>2
<1>10. DbComplete(I, C, F, E)
  <2> SUFFICES ASSUME NEW d \in Ctx, NEW k \in Talks(d), NEW s \in Rank(d), NEW u \in Rank(d),
                      NEW e \in 1 .. Len(StepsOf(d, k, s)), NEW f \in 1 .. Len(StepsOf(d, k, u)),
                      OnWay(C, F, d, k, s, e, u, f)
               PROVE  Msg(I[<<d, s>>], d, k, s, u) \in E[PartyOf(d, s)][PartyOf(d, u)]
    BY DEF DbComplete
  <2>1. Ends(d, k, s, e, u, f) /\ Past(C, F, <<d, s>>, k, e) /\ ~Past(C, F, <<d, u>>, k, f)
    BY DEF OnWay
  <2>2. PartyOf(d, s) \in Party /\ PartyOf(d, u) \in Party
    BY ContextsFacts
  <2>3. D[PartyOf(d, s)][PartyOf(d, u)] \subseteq E[PartyOf(d, s)][PartyOf(d, u)]
    BY <2>2
  <2>4. CASE Past(C, M, <<d, s>>, k, e)
    <3>1. OnWay(C, M, d, k, s, e, u, f)
      BY <1>6, <2>1, <2>4 DEF OnWay
    <3>2. Msg(I[<<d, s>>], d, k, s, u) \in D[PartyOf(d, s)][PartyOf(d, u)]
      BY <3>1 DEF DbComplete
    <3>3. QED
      BY <2>3, <3>2
  <2>5. CASE ~Past(C, M, <<d, s>>, k, e)
    <3>1. d = c /\ k = n /\ s = r /\ u = q
      BY <1>6, <2>1, <2>5
    <3>2. Msg(I[<<d, s>>], d, k, s, u) = Msg(I[t], c, n, r, q)
      BY <1>1, <3>1
    <3>3. E[PartyOf(d, s)][PartyOf(d, u)] = D[PartyOf(d, s)][PartyOf(d, u)] \cup {Msg(I[t], c, n, r, q)}
      BY <2>2, <3>1
    <3>4. QED
      BY <3>2, <3>3
  <2>6. QED
    BY <2>4, <2>5
<1>11. QED
  BY <1>7, <1>9, <1>10

\* What a receive finds is what was sent to it, and it takes no other message.
LEMMA RecvDb ==
  ASSUME NEW I, NEW C, NEW M, NEW P, NEW F, NEW D, NEW E, NEW t, NEW c, NEW q, NEW n, NEW j,
         NEW r \in Rank(c), NEW m \in D[PartyOf(c, r)][PartyOf(c, q)],
         Steady(C, M, P), Live(I, C, P), IdsAgree(I), Causal(C, M),
         DbSound(I, C, M, D), DbComplete(I, C, M, D),
         AtStep(C, M, t, c, q, n, j, RecvFrom(r)), Makes(M, F, t),
         I[t] # <<>>, m.key = EventKey(I[t], c, n),
         Takes(D, E, PartyOf(c, r), PartyOf(c, q), m)
  PROVE  /\ m.val = Val(c, n, r, q)
         /\ C[<<c, r>>] >= n
         /\ \E i : Ends(c, n, r, i, q, j) /\ Past(C, M, <<c, r>>, n, i)
         /\ Causal(C, F) /\ DbSound(I, C, F, E) /\ DbComplete(I, C, F, E)
<1> USE DEF Takes
<1>1. /\ t \in Thread /\ t = <<c, q>> /\ c \in Ctx /\ q \in Rank(c) /\ n = C[t] /\ n \in Talks(c)
      /\ j = M[t] + 1 /\ j \in 1 .. Len(StepsOf(c, n, q)) /\ StepsOf(c, n, q)[j] = RecvFrom(r)
  BY DEF AtStep
<1>2. PartyOf(c, r) \in Party /\ PartyOf(c, q) \in Party
  BY <1>1, ContextsFacts
\* The message comes from the other end of this step.
<1>3. PICK i : Origin(I, C, M, PartyOf(c, r), PartyOf(c, q), m, c, n, r, q, i, j)
  <2>1. PICK d, k, s, u, e, f : Origin(I, C, M, PartyOf(c, r), PartyOf(c, q), m, d, k, s, u, e, f)
    BY <1>2 DEF DbSound
  <2>2. /\ d \in Ctx /\ k \in Talks(d) /\ s \in Rank(d) /\ u \in Rank(d)
        /\ OnWay(C, M, d, k, s, e, u, f) /\ Ends(d, k, s, e, u, f)
        /\ PartyOf(d, s) = PartyOf(c, r) /\ PartyOf(d, u) = PartyOf(c, q)
        /\ m.key = EventKey(I[<<d, s>>], d, k)
    BY <2>1 DEF Origin, OnWay, Msg
  <2>3. I[<<d, s>>] # <<>> /\ ~Skips(d, k)
    BY <2>2, OnWayNamed, EndsFacts
  <2>4. ~Skips(c, n)
    <3> SUFFICES ASSUME Skips(c, n) PROVE FALSE
      OBVIOUS
    <3>1. StepsOf(c, n, q) = <<>>
      BY <1>1, StepsCases
    <3>2. QED
      BY <1>1, <3>1
  <2>5. I[t] = I[<<d, s>>] /\ (c = d => n = k)
    BY <1>1, <2>2, <2>3, <2>4, KeyFacts
  <2>6. c = d
    <3>1. PICK x : x = <<d, s>> /\ x \in Thread /\ x[1] = d /\ t[1] = c
      BY <1>1, <2>2, ThreadFacts
    <3>2. QED
      BY <1>1, <2>3, <2>5, <3>1 DEF IdsAgree
  <2>7. n = k /\ r = s /\ q = u
    BY <1>1, <2>2, <2>5, <2>6, ContextsFacts
  <2>8. StepsOf(c, n, q)[f] = RecvFrom(r) /\ f \in 1 .. Len(StepsOf(c, n, q))
    BY <2>2, <2>6, <2>7 DEF Ends
  <2>9. f = j
    <3>1. IsSteps(StepsOf(c, n, q), WorldSize(c), q)
      BY <1>1, StepsFacts
    <3>2. QED
      BY <1>1, <2>8, <3>1 DEF IsSteps
  <2>10. QED
    BY <2>1, <2>6, <2>7, <2>9
<1>4. /\ OnWay(C, M, c, n, r, i, q, j) /\ Ends(c, n, r, i, q, j) /\ Past(C, M, <<c, r>>, n, i)
      /\ m = Msg(I[<<c, r>>], c, n, r, q) /\ I[<<c, r>>] # <<>>
  <2>1. /\ OnWay(C, M, c, n, r, i, q, j) /\ Ends(c, n, r, i, q, j) /\ Past(C, M, <<c, r>>, n, i)
        /\ m = Msg(I[<<c, r>>], c, n, r, q)
    BY <1>3 DEF Origin, OnWay
  <2>2. QED
    BY <1>1, <2>1, OnWayNamed
<1>5. m.val = Val(c, n, r, q)
  BY <1>4 DEF Msg
<1>6. C[<<c, r>>] >= n
  <2>1. C[<<c, r>>] \in Nat /\ n \in Nat
    BY <1>1, ThreadFacts DEF Steady
  <2>2. QED
    BY <1>4, <2>1 DEF Past
\* The sending ends are as before.
<1>7. ASSUME NEW d \in Ctx, NEW k \in Talks(d), NEW s \in Rank(d), NEW u \in Rank(d), NEW e, NEW f,
             Ends(d, k, s, e, u, f)
      PROVE  /\ Past(C, F, <<d, s>>, k, e) <=> Past(C, M, <<d, s>>, k, e)
             /\ Past(C, F, <<d, u>>, k, f) <=>
                  Past(C, M, <<d, u>>, k, f) \/ (d = c /\ k = n /\ s = r /\ e = i /\ u = q /\ f = j)
  <2>1. e \in Nat /\ f \in Nat /\ k \in Nat
    BY <1>7, EndsFacts, StepsLength
  <2>2. PICK x, y : x = <<d, s>> /\ y = <<d, u>> /\ x \in Thread /\ y \in Thread
    BY ThreadFacts
  <2>3. /\ Past(C, F, y, k, f) <=> Past(C, M, y, k, f) \/ (y = t /\ k = n /\ f = j)
        /\ Past(C, F, x, k, e) <=> Past(C, M, x, k, e) \/ (x = t /\ k = n /\ e = j)
    <3>1. \A z \in Thread, l \in Nat, o \in Nat :
            Past(C, F, z, l, o) <=> Past(C, M, z, l, o) \/ (z = t /\ l = C[t] /\ o = M[t] + 1)
      BY <1>1, StepPast
    <3>2. QED
      BY <1>1, <2>1, <2>2, <3>1
  <2>4. ~(x = t /\ k = n /\ e = j)
    <3> SUFFICES ASSUME x = t, k = n, e = j PROVE FALSE
      OBVIOUS
    <3>1. d = c /\ s = q
      BY <1>1, <2>2
    <3>2. StepsOf(c, n, q)[j] = SendTo(u)
      BY <1>7, <3>1 DEF Ends
    <3>3. QED
      BY <1>1, <3>2, StepFacts
  <2>5. y = t /\ k = n /\ f = j => d = c /\ s = r /\ u = q /\ e = i
    <3> SUFFICES ASSUME y = t, k = n, f = j PROVE d = c /\ s = r /\ u = q /\ e = i
      OBVIOUS
    <3>1. d = c /\ u = q
      BY <1>1, <2>2
    <3>2. Ends(c, n, s, e, q, j) /\ s \in Rank(c)
      BY <1>7, <3>1
    <3>3. QED
      BY <1>1, <1>4, <3>1, <3>2, EndsFacts
  <2>6. d = c /\ u = q => y = t
    BY <1>1, <2>2
  <2>7. QED
    BY <2>2, <2>3, <2>4, <2>5, <2>6
<1>8. Causal(C, F)
  <2> SUFFICES ASSUME NEW d \in Ctx, NEW k \in Talks(d), NEW s \in Rank(d), NEW u \in Rank(d),
                      NEW e \in 1 .. Len(StepsOf(d, k, s)), NEW f \in 1 .. Len(StepsOf(d, k, u)),
                      Ends(d, k, s, e, u, f), Past(C, F, <<d, u>>, k, f)
               PROVE  Past(C, F, <<d, s>>, k, e)
    BY DEF Causal
  <2>1. CASE Past(C, M, <<d, u>>, k, f)
    <3>1. Past(C, M, <<d, s>>, k, e)
      BY <2>1 DEF Causal
    <3>2. QED
      BY <1>7, <3>1
  <2>2. CASE d = c /\ k = n /\ s = r /\ e = i
    <3>1. Past(C, M, <<d, s>>, k, e)
      BY <1>4, <2>2
    <3>2. QED
      BY <1>7, <3>1
  <2>3. QED
    BY <1>7, <2>1, <2>2
\* Any other message is left.
<1>9. ASSUME NEW p \in Party, NEW v \in Party, NEW l, NEW d, NEW k, NEW s, NEW u, NEW e, NEW f,
             Origin(I, C, M, p, v, l, d, k, s, u, e, f)
      PROVE  OnWay(C, F, d, k, s, e, u, f) <=> ~(p = PartyOf(c, r) /\ v = PartyOf(c, q) /\ l = m)
  <2>1. /\ d \in Ctx /\ k \in Talks(d) /\ s \in Rank(d) /\ u \in Rank(d)
        /\ OnWay(C, M, d, k, s, e, u, f) /\ Ends(d, k, s, e, u, f)
        /\ Past(C, M, <<d, s>>, k, e) /\ ~Past(C, M, <<d, u>>, k, f)
        /\ PartyOf(d, s) = p /\ PartyOf(d, u) = v /\ l = Msg(I[<<d, s>>], d, k, s, u)
    BY <1>9 DEF Origin, OnWay
  <2>2. OnWay(C, F, d, k, s, e, u, f) <=> ~(d = c /\ k = n /\ s = r /\ e = i /\ u = q /\ f = j)
    BY <1>7, <2>1 DEF OnWay
  <2>3. d = c /\ k = n /\ s = r /\ e = i /\ u = q /\ f = j =>
          p = PartyOf(c, r) /\ v = PartyOf(c, q) /\ l = m
    BY <1>4, <2>1
  <2>4. ASSUME p = PartyOf(c, r), v = PartyOf(c, q), l = m
        PROVE  d = c /\ k = n /\ s = r /\ e = i /\ u = q /\ f = j
    <3>1. EventKey(I[<<d, s>>], d, k) = EventKey(I[<<c, r>>], c, n)
      BY <1>4, <2>1, <2>4 DEF Msg
    <3>2. I[<<d, s>>] # <<>>
      BY <2>1, OnWayNamed
    <3>3. PartyOf(d, s) = PartyOf(c, r) /\ PartyOf(d, u) = PartyOf(c, q)
      BY <2>1, <2>4
    <3>4. Ends(d, k, s, e, u, f) /\ Ends(c, n, r, i, q, j) /\ I[<<c, r>>] # <<>>
      BY <1>4, <2>1
    <3>5. c \in Ctx /\ n \in Talks(c) /\ q \in Rank(c)
      BY <1>1
    <3>6. d \in Ctx /\ k \in Talks(d) /\ s \in Rank(d) /\ u \in Rank(d)
      BY <2>1
    <3>7. QED
      BY <3>1, <3>2, <3>3, <3>4, <3>5, <3>6, SameMessage
  <2>5. QED
    BY <2>2, <2>3, <2>4
<1>10. DbSound(I, C, F, E)
  <2> SUFFICES ASSUME NEW p \in Party, NEW v \in Party, NEW l \in E[p][v]
               PROVE  \E d, k, s, u, e, f : Origin(I, C, F, p, v, l, d, k, s, u, e, f)
    BY DEF DbSound
  <2>1. l \in D[p][v] /\ ~(p = PartyOf(c, r) /\ v = PartyOf(c, q) /\ l = m)
    OBVIOUS
  <2>2. PICK d, k, s, u, e, f : Origin(I, C, M, p, v, l, d, k, s, u, e, f)
    BY <2>1 DEF DbSound
  <2>3. OnWay(C, F, d, k, s, e, u, f)
    BY <1>9, <2>1, <2>2
  <2>4. Origin(I, C, F, p, v, l, d, k, s, u, e, f)
    BY <2>2, <2>3 DEF Origin
  <2>5. QED
    BY <2>4
<1>11. DbComplete(I, C, F, E)
  <2> SUFFICES ASSUME NEW d \in Ctx, NEW k \in Talks(d), NEW s \in Rank(d), NEW u \in Rank(d),
                      NEW e \in 1 .. Len(StepsOf(d, k, s)), NEW f \in 1 .. Len(StepsOf(d, k, u)),
                      OnWay(C, F, d, k, s, e, u, f)
               PROVE  Msg(I[<<d, s>>], d, k, s, u) \in E[PartyOf(d, s)][PartyOf(d, u)]
    BY DEF DbComplete
  <2>1. PICK p, v, l : p = PartyOf(d, s) /\ v = PartyOf(d, u) /\ l = Msg(I[<<d, s>>], d, k, s, u)
    OBVIOUS
  <2>2. p \in Party /\ v \in Party
    BY <2>1, ContextsFacts
  <2>3. Ends(d, k, s, e, u, f) /\ Past(C, F, <<d, s>>, k, e) /\ ~Past(C, F, <<d, u>>, k, f)
    BY DEF OnWay
  <2>4. OnWay(C, M, d, k, s, e, u, f)
    BY <1>7, <2>3 DEF OnWay
  <2>5. l \in D[p][v]
    BY <2>1, <2>4 DEF DbComplete
  <2>6. Origin(I, C, M, p, v, l, d, k, s, u, e, f)
    BY <2>1, <2>4 DEF Origin
  <2>7. ~(p = PartyOf(c, r) /\ v = PartyOf(c, q) /\ l = m)
    BY <1>9, <2>2, <2>6
  <2>8. l \in E[p][v]
    BY <2>2, <2>5, <2>7
  <2>9. QED
    BY <2>1, <2>8
<1>12. QED
  BY <1>4, <1>5, <1>6, <1>8, <1>10, <1>11

-----------------------------------------------------------------------------
(* Barriers.                                                               *)

LEMMA RingSplit ==
  ASSUME NEW n \in Nat \ {0}, NEW r \in 0 .. (n - 1), NEW q \in 0 .. (n - 1), NEW s \in 1 .. (n - 1)
  PROVE  /\ PrevRank(n, r, s) \in 0 .. (n - 1)
         /\ NextRank(n, PrevRank(n, r, s), s) = r
         /\ RingOffset(q, r, n) \in 0 .. (n - 1)
         /\ RingOffset(q, r, n) = 0 => q = r
         /\ RingOffset(q, r, n) >= s =>
              RingOffset(q, PrevRank(n, r, s), n) = RingOffset(q, r, n) - s
<1>1. PICK p : p = PrevRank(n, r, s)
  OBVIOUS
<1>2. p = IF r >= s THEN r - s ELSE r - s + n
  BY <1>1, RankFacts
<1>3. p \in 0 .. (n - 1)
  BY <1>2
<1>4. NextRank(n, p, s) = IF p + s < n THEN p + s ELSE p + s - n
  BY <1>3, RankFacts
<1>5. NextRank(n, p, s) = r
  BY <1>2, <1>3, <1>4
<1>6. /\ RingOffset(q, r, n) = IF r >= q THEN r - q ELSE r - q + n
      /\ RingOffset(q, p, n) = IF p >= q THEN p - q ELSE p - q + n
  BY <1>3, RankFacts
<1>7. QED
  BY <1>1, <1>2, <1>3, <1>5, <1>6

LEMMA BarrierCall ==
  ASSUME NEW c \in Ctx, NEW n \in Talks(c), NEW r \in Rank(c), Program[c][n].op = "barrier"
  PROVE  StepsOf(c, n, r) = BarrierSteps(WorldSize(c), r)
<1>1. ImplOf(Program[c][n].op) = "barrier" /\ ~Skips(c, n)
  BY DEF ImplOf, Skips, Vectors
<1>2. QED
  BY <1>1, StepsCases

LEMMA BarrierBegin ==
  ASSUME NEW C, NEW M, NEW P, NEW E, NEW F, SamePast(C, M, E, F), Steady(C, M, P),
         \A t \in Thread : E[t] \in Nat /\ E[t] >= C[t], BarrierKnown(C, M)
  PROVE  BarrierKnown(E, F)
<1> SUFFICES ASSUME NEW c \in Ctx, NEW n \in Talks(c), Program[c][n].op = "barrier",
                    NEW r \in Rank(c), NEW q \in Rank(c), NEW k \in 0 .. (Rounds(WorldSize(c)) - 1),
                    Past(E, F, <<c, r>>, n, 2 * k + 2),
                    RingOffset(q, r, WorldSize(c)) < Shift[k + 1]
             PROVE  E[<<c, q>>] >= n
  BY DEF BarrierKnown
<1>1. StepsOf(c, n, r) = BarrierSteps(WorldSize(c), r)
  BY BarrierCall
<1>2. WorldSize(c) \in Nat \ {0} /\ r \in 0 .. (WorldSize(c) - 1)
  BY ContextsFacts
<1>3. 2 * k + 2 \in 1 .. Len(StepsOf(c, n, r))
  BY <1>1, <1>2, BarrierRounds
<1>4. Past(C, M, <<c, r>>, n, 2 * k + 2)
  BY <1>3 DEF SamePast
<1>5. C[<<c, q>>] >= n
  BY <1>4 DEF BarrierKnown
<1>6. <<c, q>> \in Thread
  BY ThreadFacts
<1>7. C[<<c, q>>] \in Nat /\ E[<<c, q>>] \in Nat /\ E[<<c, q>>] >= C[<<c, q>>] /\ n \in Nat
  BY <1>6, StepsLength DEF Steady
<1>8. QED
  BY <1>5, <1>7

\* The receive of round k: its sender knows the ranks that are up to Shift[k] - 1
\* behind it.
LEMMA BarrierStep ==
  ASSUME NEW C, NEW M, NEW P, NEW F, NEW t, NEW c, NEW r, NEW n, NEW j, NEW x,
         Steady(C, M, P), BarrierKnown(C, M), AtStep(C, M, t, c, r, n, j, x), Makes(M, F, t),
         \A p \in Rank(c) : x = RecvFrom(p) =>
           \E i : Ends(c, n, p, i, r, j) /\ Past(C, M, <<c, p>>, n, i)
  PROVE  BarrierKnown(C, F)
<1>1. /\ t \in Thread /\ t = <<c, r>> /\ c \in Ctx /\ r \in Rank(c) /\ n = C[t] /\ n \in Talks(c)
      /\ j = M[t] + 1 /\ j \in 1 .. Len(StepsOf(c, n, r)) /\ StepsOf(c, n, r)[j] = x
  BY DEF AtStep
<1> SUFFICES ASSUME NEW d \in Ctx, NEW o \in Talks(d), Program[d][o].op = "barrier",
                    NEW s \in Rank(d), NEW q \in Rank(d), NEW k \in 0 .. (Rounds(WorldSize(d)) - 1),
                    Past(C, F, <<d, s>>, o, 2 * k + 2),
                    RingOffset(q, s, WorldSize(d)) < Shift[k + 1]
             PROVE  C[<<d, q>>] >= o
  BY DEF BarrierKnown
<1>2. o \in Nat /\ n \in Nat /\ M[t] \in Nat /\ WorldSize(d) \in Nat \ {0}
  BY <1>1, StepsLength, ContextsFacts DEF Steady
<1>3. k \in Nat /\ Rounds(WorldSize(d)) \in Nat /\ k < Rounds(WorldSize(d))
  <2>1. Rounds(WorldSize(d)) \in Nat
    BY <1>2, RoundsFacts
  <2>2. QED
    BY <2>1
<1>4. CASE Past(C, M, <<d, s>>, o, 2 * k + 2)
  BY <1>4 DEF BarrierKnown
<1>5. CASE ~Past(C, M, <<d, s>>, o, 2 * k + 2)
  <2>1. <<d, s>> = t /\ o = n /\ 2 * k + 2 = j
    <3>1. \A z \in Thread, l \in Nat, i \in Nat :
            Past(C, F, z, l, i) <=> Past(C, M, z, l, i) \/ (z = t /\ l = C[t] /\ i = M[t] + 1)
      BY <1>1, StepPast
    <3>2. <<d, s>> \in Thread /\ 2 * k + 2 \in Nat
      BY <1>3, ThreadFacts
    <3>3. QED
      BY <1>1, <1>2, <1>5, <3>1, <3>2
  <2>2. d = c /\ s = r
    BY <1>1, <2>1
  <2>3. PICK N, h : N = WorldSize(c) /\ h = Shift[k]
    OBVIOUS
  <2>4. r \in 0 .. (N - 1) /\ q \in 0 .. (N - 1) /\ N \in Nat \ {0}
    BY <1>2, <2>2, <2>3, ContextsFacts
  <2>5. StepsOf(c, n, r) = BarrierSteps(N, r)
    BY <1>1, <2>1, <2>2, <2>3, BarrierCall
  <2>6. PICK p : p = PrevRank(N, r, h)
    OBVIOUS
  <2>7. /\ h \in 1 .. (N - 1) /\ x = RecvFrom(p)
    <3>1. h \in 1 .. (N - 1) /\ BarrierSteps(N, r)[2 * k + 2] = RecvFrom(p)
      BY <2>2, <2>3, <2>4, <2>6, BarrierRounds
    <3>2. QED
      BY <1>1, <2>1, <2>5, <3>1
  <2>8. p \in 0 .. (N - 1) /\ NextRank(N, p, h) = r
    BY <2>4, <2>6, <2>7, RingSplit
  <2>9. p \in Rank(c)
    BY <1>1, <2>3, <2>8, ContextsFacts
  <2>10. PICK i : Ends(c, n, p, i, r, j) /\ Past(C, M, <<c, p>>, n, i)
    BY <2>7, <2>9
  <2>11. i = 2 * k + 1
    <3>1. StepsOf(c, n, p) = BarrierSteps(N, p)
      BY <1>1, <2>1, <2>2, <2>3, <2>9, BarrierCall
    <3>2. /\ BarrierSteps(N, p)[2 * k + 1] = SendTo(r) /\ Len(BarrierSteps(N, p)) = 2 * Rounds(N)
          /\ 2 * k + 1 \in 1 .. (2 * Rounds(N))
      BY <2>2, <2>3, <2>4, <2>8, BarrierRounds
    <3>3. Ends(c, n, p, 2 * k + 1, r, j)
      BY <1>1, <2>7, <3>1, <3>2 DEF Ends
    <3>4. QED
      BY <1>1, <2>9, <2>10, <3>3, EndsFacts
  <2>12. C[<<c, p>>] \in Nat /\ M[<<c, p>>] \in Nat /\ C[<<c, p>>] >= n
    <3>1. C[<<c, p>>] \in Nat /\ M[<<c, p>>] \in Nat
      BY <1>1, <2>9, ThreadFacts DEF Steady
    <3>2. QED
      BY <1>2, <2>10, <3>1 DEF Past
  <2>13. RingOffset(q, r, N) < 2 * h /\ h \in Nat
    <3>1. Shift[k + 1] = 2 * Shift[k]
      BY <1>3, ShiftDef
    <3>2. QED
      BY <2>2, <2>3, <2>4, <2>7, <3>1
  <2>14. CASE k = 0
    <3>1. h = 1
      BY <2>3, <2>14, ShiftDef
    <3>2. RingOffset(q, r, N) \in 0 .. (N - 1)
      BY <2>4, <2>7, RingSplit
    <3>3. CASE RingOffset(q, r, N) = 0
      <4>1. q = r
        BY <2>4, <2>7, <3>3, RingSplit
      <4>2. QED
        BY <1>1, <1>2, <2>1, <2>2, <4>1
    <3>4. CASE RingOffset(q, r, N) # 0
      <4>1. RingOffset(q, r, N) = 1
        BY <2>13, <3>1, <3>2, <3>4
      <4>2. RingOffset(q, p, N) = 0
        <5>1. RingOffset(q, r, N) >= h
          BY <3>1, <4>1
        <5>2. RingOffset(q, p, N) = RingOffset(q, r, N) - h
          BY <2>4, <2>6, <2>7, <5>1, RingSplit
        <5>3. QED
          BY <3>1, <4>1, <5>2
      <4>3. q = p
        BY <2>4, <2>7, <2>8, <4>2, RingSplit
      <4>4. QED
        BY <2>1, <2>2, <2>12, <4>3
    <3>5. QED
      BY <3>3, <3>4
  <2>15. CASE k # 0
    <3>1. PICK l : l = k - 1 /\ l \in Nat /\ l \in 0 .. (Rounds(WorldSize(c)) - 1)
      BY <1>3, <2>2, <2>15
    <3>2. Shift[l + 1] = h
      BY <1>3, <2>3, <3>1
    <3>3. Past(C, M, <<c, r>>, n, 2 * l + 2) /\ Past(C, M, <<c, p>>, n, 2 * l + 2)
      <4>1. 2 * l + 2 <= 2 * k + 1 /\ 2 * l + 2 <= M[t]
        BY <1>1, <1>2, <1>3, <2>1, <3>1
      <4>2. Past(C, M, <<c, r>>, n, 2 * l + 2)
        BY <1>1, <4>1 DEF Past
      <4>3. Past(C, M, <<c, p>>, n, 2 * k + 1)
        BY <2>10, <2>11
      <4>4. 2 * l + 2 \in Nat /\ 2 * k + 1 \in Nat
        BY <1>3, <3>1
      <4>5. QED
        BY <2>12, <4>1, <4>2, <4>3, <4>4 DEF Past
    <3>4. CASE RingOffset(q, r, N) < h
      <4>1. Program[c][n].op = "barrier" /\ q \in Rank(c)
        BY <2>1, <2>2
      <4>2. RingOffset(q, r, WorldSize(c)) < Shift[l + 1]
        BY <2>3, <3>2, <3>4
      <4>3. C[<<c, q>>] >= n
        BY <1>1, <3>1, <3>3, <4>1, <4>2 DEF BarrierKnown
      <4>4. QED
        BY <2>1, <2>2, <4>3
    <3>5. CASE ~(RingOffset(q, r, N) < h)
      <4>1. Program[c][n].op = "barrier" /\ q \in Rank(c)
        BY <2>1, <2>2
      <4>2. RingOffset(q, r, N) \in 0 .. (N - 1) /\ RingOffset(q, r, N) >= h
        <5>1. RingOffset(q, r, N) \in 0 .. (N - 1)
          BY <2>4, <2>7, RingSplit
        <5>2. QED
          BY <2>13, <3>5, <5>1
      <4>3. RingOffset(q, p, N) = RingOffset(q, r, N) - h
        BY <2>4, <2>6, <2>7, <4>2, RingSplit
      <4>4. RingOffset(q, p, N) < h
        BY <2>13, <4>2, <4>3
      <4>5. RingOffset(q, p, WorldSize(c)) < Shift[l + 1]
        BY <2>3, <3>2, <4>4
      <4>6. C[<<c, q>>] >= n
        BY <1>1, <2>9, <3>1, <3>3, <4>1, <4>5 DEF BarrierKnown
      <4>7. QED
        BY <2>1, <2>2, <4>6
    <3>6. QED
      BY <3>4, <3>5
  <2>16. QED
    BY <2>14, <2>15
<1>6. QED
  BY <1>4, <1>5

-----------------------------------------------------------------------------
(* Values.                                                                 *)

LEMMA BroadcastCall ==
  ASSUME NEW c \in Ctx, NEW n \in Talks(c), NEW r \in Rank(c), Program[c][n].op = "bcast"
  PROVE  BroadcastShape(StepsOf(c, n, r), WorldSize(c), r, Program[c][n].root)
<1>1. ImplOf(Program[c][n].op) = "bcast" /\ ~Skips(c, n)
  BY DEF ImplOf, Skips, Vectors
<1>2. StepsOf(c, n, r) = BroadcastSteps(WorldSize(c), r, Program[c][n].root)
  BY <1>1, StepsCases
<1>3. /\ WorldSize(c) \in Nat \ {0} /\ r \in 0 .. (WorldSize(c) - 1)
      /\ Program[c][n].root \in 0 .. (WorldSize(c) - 1)
  BY ContextsFacts, CallFacts DEF Talks
<1>4. QED
  BY <1>2, <1>3, BroadcastIsSteps

\* A receive of Broadcast is the first step of a rank that is not the root.
LEMMA BroadcastReceive ==
  ASSUME NEW c \in Ctx, NEW n \in Talks(c), NEW r \in Rank(c), Program[c][n].op = "bcast",
         NEW j \in 1 .. Len(StepsOf(c, n, r)), NEW q, StepsOf(c, n, r)[j] = RecvFrom(q)
  PROVE  r # Program[c][n].root /\ j = 1
<1>1. BroadcastShape(StepsOf(c, n, r), WorldSize(c), r, Program[c][n].root)
  BY BroadcastCall
<1>2. PICK first : first = IF r = Program[c][n].root THEN 0 ELSE 1
  OBVIOUS
<1>3. j > first => \E s : StepsOf(c, n, r)[j] = SendTo(s)
  BY <1>1, <1>2 DEF BroadcastShape
<1>4. ~(j > first)
  BY <1>3, StepFacts
<1>5. Len(StepsOf(c, n, r)) \in Nat
  BY StepsLength
<1>6. QED
  BY <1>2, <1>4, <1>5

\* The other threads are where they were.
LEMMA GotOthers ==
  ASSUME NEW P, NEW C, NEW M, NEW G, NEW Q, NEW E, NEW F, NEW H, NEW t, GotKnown(P, C, M, G),
         \A u \in Thread : u # t =>
           Q[u] = P[u] /\ E[u] = C[u] /\ F[u] = M[u] /\ H[u] = G[u],
         t \in Thread /\ Q[t] # "idle" => GotAt(E, F, H, t)
  PROVE  GotKnown(Q, E, F, H)
<1> SUFFICES ASSUME NEW u \in Thread, Q[u] # "idle" PROVE GotAt(E, F, H, u)
  BY DEF GotKnown
<1>1. CASE u = t
  BY <1>1
<1>2. CASE u # t
  <2>1. Q[u] = P[u] /\ E[u] = C[u] /\ F[u] = M[u] /\ H[u] = G[u]
    BY <1>2
  <2>2. GotAt(C, M, G, u)
    BY <2>1 DEF GotKnown
  <2>3. QED
    BY <2>1, <2>2 DEF GotAt
<1>3. QED
  BY <1>1, <1>2

LEMMA GotSend ==
  ASSUME NEW C, NEW M, NEW P, NEW F, NEW G, NEW t, NEW c, NEW r, NEW n, NEW i, NEW q,
         Steady(C, M, P), AtStep(C, M, t, c, r, n, i, SendTo(q)), Makes(M, F, t), GotAt(C, M, G, t)
  PROVE  GotAt(C, F, G, t)
<1>1. /\ t \in Thread /\ t = <<c, r>> /\ c \in Ctx /\ r \in Rank(c) /\ n = C[t] /\ n \in Talks(c)
      /\ i = M[t] + 1 /\ i \in 1 .. Len(StepsOf(c, n, r)) /\ StepsOf(c, n, r)[i] = SendTo(q)
      /\ t[1] = c /\ t[2] = r
  BY DEF AtStep
<1>2. F[t] = M[t] + 1 /\ M[t] \in Nat
  BY <1>1 DEF Makes, Steady
<1>3. /\ HasInput(Program[c][n], r) => G[t][r] = Given(c, n, r)
      /\ \A j \in 1 .. Len(StepsOf(c, n, r)) : \A s \in Rank(c) :
           j <= M[t] /\ StepsOf(c, n, r)[j] = RecvFrom(s) => G[t][PlaceOf(c, n, s)] = Val(c, n, s, r)
  BY <1>1 DEF GotAt
<1>4. ASSUME NEW j \in 1 .. Len(StepsOf(c, n, r)), NEW s \in Rank(c),
             j <= F[t], StepsOf(c, n, r)[j] = RecvFrom(s)
      PROVE  G[t][PlaceOf(c, n, s)] = Val(c, n, s, r)
  <2>1. j # i
    BY <1>1, <1>4, StepFacts
  <2>2. Len(StepsOf(c, n, r)) \in Nat
    BY <1>1, StepsLength
  <2>3. j <= M[t]
    BY <1>1, <1>2, <1>4, <2>1, <2>2
  <2>4. QED
    BY <1>3, <1>4, <2>3
<1>5. QED
  BY <1>1, <1>3, <1>4 DEF GotAt

\* No receive overwrites another one, or the rank's own input.
LEMMA GotRecv ==
  ASSUME NEW C, NEW M, NEW P, NEW F, NEW G, NEW H, NEW t, NEW c, NEW q, NEW n, NEW i, NEW r \in Rank(c),
         Steady(C, M, P), AtStep(C, M, t, c, q, n, i, RecvFrom(r)), Makes(M, F, t), GotAt(C, M, G, t),
         \A s \in Rank(c) : H[t][s] = IF s = PlaceOf(c, n, r) THEN Val(c, n, r, q) ELSE G[t][s]
  PROVE  GotAt(C, F, H, t)
<1>1. /\ t \in Thread /\ t = <<c, q>> /\ c \in Ctx /\ q \in Rank(c) /\ n = C[t] /\ n \in Talks(c)
      /\ i = M[t] + 1 /\ i \in 1 .. Len(StepsOf(c, n, q)) /\ StepsOf(c, n, q)[i] = RecvFrom(r)
      /\ t[1] = c /\ t[2] = q
  BY DEF AtStep
<1>2. F[t] = M[t] + 1 /\ M[t] \in Nat
  BY <1>1 DEF Makes, Steady
<1>3. /\ HasInput(Program[c][n], q) => G[t][q] = Given(c, n, q)
      /\ \A j \in 1 .. Len(StepsOf(c, n, q)) : \A s \in Rank(c) :
           j <= M[t] /\ StepsOf(c, n, q)[j] = RecvFrom(s) => G[t][PlaceOf(c, n, s)] = Val(c, n, s, q)
  BY <1>1 DEF GotAt
<1>4. IsSteps(StepsOf(c, n, q), WorldSize(c), q) /\ Len(StepsOf(c, n, q)) \in Nat
  BY <1>1, StepsFacts, StepsLength
<1>5. Program[c][n].root \in Rank(c)
  BY <1>1, CallFacts DEF Talks
<1>6. ASSUME HasInput(Program[c][n], q)
      PROVE  H[t][q] = Given(c, n, q)
  <2>1. q # PlaceOf(c, n, r)
    <3>1. CASE Program[c][n].op = "bcast"
      BY <1>1, <3>1, BroadcastReceive DEF PlaceOf
    <3>2. CASE Program[c][n].op # "bcast"
      <4>1. StepsOf(c, n, q)[i] \in StepSet(WorldSize(c), q)
        BY <1>1, <1>4 DEF IsSteps
      <4>2. q # r
        BY <1>1, <4>1, StepKind, StepFacts
      <4>3. QED
        BY <3>2, <4>2 DEF PlaceOf
    <3>3. QED
      BY <3>1, <3>2
  <2>2. QED
    BY <1>1, <1>3, <1>6, <2>1
<1>7. ASSUME NEW j \in 1 .. Len(StepsOf(c, n, q)), NEW s \in Rank(c),
             j <= F[t], StepsOf(c, n, q)[j] = RecvFrom(s)
      PROVE  H[t][PlaceOf(c, n, s)] = Val(c, n, s, q)
  <2>1. PlaceOf(c, n, s) \in Rank(c)
    BY <1>5 DEF PlaceOf
  <2>2. CASE j = i
    <3>1. s = r
      BY <1>1, <1>7, <2>2, StepFacts
    <3>2. QED
      BY <2>1, <3>1
  <2>3. CASE j # i
    <3>1. j <= M[t]
      BY <1>1, <1>2, <1>4, <1>7, <2>3
    <3>2. G[t][PlaceOf(c, n, s)] = Val(c, n, s, q)
      BY <1>3, <1>7, <3>1
    <3>3. PlaceOf(c, n, s) # PlaceOf(c, n, r)
      <4>1. CASE Program[c][n].op = "bcast"
        <5>1. j = 1 /\ i = 1
          BY <1>1, <1>7, <4>1, BroadcastReceive
        <5>2. QED
          BY <2>3, <5>1
      <4>2. CASE Program[c][n].op # "bcast"
        <5>1. StepsOf(c, n, q)[j] # StepsOf(c, n, q)[i]
          BY <1>1, <1>4, <1>7, <2>3 DEF IsSteps
        <5>2. s # r
          BY <1>1, <1>7, <5>1
        <5>3. QED
          BY <4>2, <5>2 DEF PlaceOf
      <4>3. QED
        BY <4>1, <4>2
    <3>4. QED
      BY <2>1, <3>2, <3>3
  <2>4. QED
    BY <2>2, <2>3
<1>8. QED
  BY <1>1, <1>6, <1>7 DEF GotAt

\* What a thread sends: Value, with what it has got.
ValueOf(c, n, r, g, q) ==
  LET call == Program[c][n]
  IN  CASE call.op = "barrier" -> Empty
        [] call.op = "scatter" -> Input(c, n, q)
        [] call.op = "bcast" /\ r # call.root -> g[call.root]
        [] OTHER -> g[r]

LEMMA ValueSent ==
  ASSUME NEW C, NEW M, NEW P, NEW G, NEW t, NEW c, NEW r, NEW n, NEW i, NEW q \in Rank(c),
         Steady(C, M, P), AtStep(C, M, t, c, r, n, i, SendTo(q)), GotAt(C, M, G, t)
  PROVE  ValueOf(c, n, r, G[t], q) = Val(c, n, r, q)
<1>1. /\ t \in Thread /\ t = <<c, r>> /\ c \in Ctx /\ r \in Rank(c) /\ n = C[t] /\ n \in Talks(c)
      /\ i = M[t] + 1 /\ i \in 1 .. Len(StepsOf(c, n, r)) /\ StepsOf(c, n, r)[i] = SendTo(q)
      /\ t[1] = c /\ t[2] = r
  BY DEF AtStep
<1>2. M[t] \in Nat
  BY <1>1 DEF Steady
<1>3. /\ HasInput(Program[c][n], r) => G[t][r] = Given(c, n, r)
      /\ \A j \in 1 .. Len(StepsOf(c, n, r)) : \A s \in Rank(c) :
           j <= M[t] /\ StepsOf(c, n, r)[j] = RecvFrom(s) => G[t][PlaceOf(c, n, s)] = Val(c, n, s, r)
  BY <1>1 DEF GotAt
<1>4. PICK call : call = Program[c][n] /\ call.op \in Op \ Creation /\ call.root \in Rank(c)
  BY <1>1, CallFacts DEF Talks
<1>5. CASE call.op \in {"barrier", "scatter"}
  BY <1>4, <1>5 DEF ValueOf, Val
<1>6. CASE call.op = "bcast"
  <2>1. Val(c, n, r, q) = Input(c, n, call.root)
    BY <1>4, <1>6 DEF Val
  <2>2. CASE r = call.root
    <3>1. G[t][r] = Given(c, n, r)
      BY <1>3, <1>4, <2>2 DEF HasInput
    <3>2. Given(c, n, r) = Input(c, n, r)
      BY <1>4, <1>6 DEF Given, Vectors
    <3>3. ValueOf(c, n, r, G[t], q) = G[t][r]
      BY <1>4, <1>6, <2>2 DEF ValueOf
    <3>4. QED
      BY <2>1, <2>2, <3>1, <3>2, <3>3
  <2>3. CASE r # call.root
    <3>1. ValueOf(c, n, r, G[t], q) = G[t][call.root]
      BY <1>4, <1>6, <2>3 DEF ValueOf
    <3>2. BroadcastShape(StepsOf(c, n, r), WorldSize(c), r, call.root)
      BY <1>1, <1>4, <1>6, BroadcastCall
    <3>3. PICK s \in (0 .. (WorldSize(c) - 1)) \ {r} : StepsOf(c, n, r)[1] = RecvFrom(s)
      BY <2>3, <3>2 DEF BroadcastShape
    <3>4. s \in Rank(c)
      BY <1>1, <3>3, ContextsFacts
    <3>5. i # 1
      BY <1>1, <3>3, StepFacts
    <3>6. Len(StepsOf(c, n, r)) \in Nat
      BY <1>1, StepsLength
    <3>7. 1 <= M[t] /\ 1 \in 1 .. Len(StepsOf(c, n, r))
      BY <1>1, <1>2, <3>5, <3>6
    <3>8. G[t][PlaceOf(c, n, s)] = Val(c, n, s, r)
      BY <1>3, <3>3, <3>4, <3>7
    <3>9. PlaceOf(c, n, s) = call.root /\ Val(c, n, s, r) = Input(c, n, call.root)
      BY <1>4, <1>6 DEF PlaceOf, Val
    <3>10. QED
      BY <2>1, <3>1, <3>8, <3>9
  <2>4. QED
    BY <2>2, <2>3
<1>7. CASE call.op \notin {"barrier", "scatter", "bcast"}
  <2>1. ValueOf(c, n, r, G[t], q) = G[t][r] /\ Val(c, n, r, q) = Given(c, n, r)
    BY <1>4, <1>7 DEF ValueOf, Val
  <2>2. HasInput(call, r)
    <3>1. CASE call.op = "p2p"
      <4>1. ImplOf(call.op) = "p2p" /\ ~Skips(c, n)
        BY <1>4, <3>1 DEF ImplOf, Skips, Vectors
      <4>2. StepsOf(c, n, r) = P2PSteps(r, call.root, call.peer)
        BY <1>1, <1>4, <4>1, StepsCases
      <4>3. r = call.root
        <5> SUFFICES ASSUME r # call.root PROVE FALSE
          OBVIOUS
        <5>1. CASE r = call.peer
          <6>1. StepsOf(c, n, r) = <<RecvFrom(call.root)>>
            BY <4>2, <5>1 DEF P2PSteps
          <6>2. i = 1 /\ StepsOf(c, n, r)[1] = RecvFrom(call.root)
            BY <1>1, <6>1
          <6>3. QED
            BY <1>1, <6>2, StepFacts
        <5>2. CASE r # call.peer
          <6>1. StepsOf(c, n, r) = <<>>
            BY <4>2, <5>2 DEF P2PSteps
          <6>2. QED
            BY <1>1, <6>1
        <5>3. QED
          BY <5>1, <5>2
      <4>4. QED
        BY <4>3 DEF HasInput
    <3>2. CASE call.op # "p2p"
      <4>1. call.op \in {"allgather", "gather", "allgatherv", "gatherv"}
        BY <1>4, <1>7, <3>2 DEF Op, Vectors, Creation
      <4>2. ImplOf(call.op) \in {"allgather", "gather"}
        BY <4>1 DEF ImplOf
      <4>3. QED
        BY <4>2 DEF HasInput
    <3>3. QED
      BY <3>1, <3>2
  <2>3. QED
    BY <1>3, <1>4, <2>1, <2>2
<1>8. QED
  BY <1>5, <1>6, <1>7

-----------------------------------------------------------------------------
(* Ids.                                                                    *)

LEMMA NameFacts ==
  ASSUME NEW c \in Ctx, NEW n \in Making(c)
  PROVE  /\ n \in Nat \ {0} /\ n - 1 \in Nat /\ n \in DOMAIN Program[c]
         /\ Name(c, n) \in Nat
         /\ Program[c][n].op = "spawn" => Name(c, n) = Number(Spawns(c), n - 1)
         /\ Program[c][n].op = "subworld" => Name(c, n) = Program[c][n].suffix
         /\ Program[c][n].child \in Ctx /\ Program[c][n].child \in Spawned
<1>1. n \in DOMAIN Program[c] /\ Program[c][n].op \in Creation
  BY DEF Making
<1>2. n \in Nat \ {0} /\ n - 1 \in Nat /\ n \in 1 .. Len(Program[c]) /\ Len(Program[c]) \in Nat
  BY <1>1, ContextsFacts
<1>3. Program[c][n].op = "spawn" => Name(c, n) = Number(Spawns(c), n - 1)
  <2>1. {k \in 1 .. (n - 1) : Program[c][k].op = "spawn"} = Spawns(c) \cap (1 .. (n - 1))
    <3>1. 1 .. (n - 1) \subseteq DOMAIN Program[c]
      BY <1>2, ContextsFacts
    <3>2. QED
      BY <3>1 DEF Spawns
  <2>2. QED
    BY <2>1 DEF Name, Number
<1>4. Number(Spawns(c), n - 1) \in Nat
  BY <1>2, NumberFacts
<1>5. Program[c][n].op = "subworld" => Name(c, n) = Program[c][n].suffix
  BY DEF Name
<1>6. Program[c][n].child \in Ctx /\ Program[c][n].suffix \in Nat
  BY <1>1, CallFacts
<1>7. Program[c][n].op \in {"spawn", "subworld"}
  BY <1>1 DEF Creation
<1>8. Program[c][n].child \in Spawned
  BY <1>1, <1>6 DEF Spawned
<1>9. QED
  BY <1>1, <1>2, <1>3, <1>4, <1>5, <1>6, <1>7, <1>8

LEMMA NameUnique ==
  ASSUME NEW c \in Ctx, NEW n \in Making(c), NEW m \in Making(c), Name(c, n) = Name(c, m)
  PROVE  n = m
<1> SUFFICES ASSUME n # m PROVE FALSE
  OBVIOUS
<1>1. <<c, n>> # <<c, m>> /\ <<c, m>> # <<c, n>>
  OBVIOUS
<1>2. Program[c][n].op # "subworld" /\ Program[c][m].op # "subworld"
  BY <1>1, NamesAssumption
<1>3. Program[c][n].op = "spawn" /\ Program[c][m].op = "spawn"
  BY <1>2 DEF Making, Creation
<1>4. n \in Spawns(c) /\ m \in Spawns(c)
  BY <1>3, NameFacts DEF Spawns
<1>5. PICK a, b : a = n - 1 /\ b = m - 1 /\ a \in Nat /\ b \in Nat /\ n = a + 1 /\ m = b + 1
  BY NameFacts
<1>6. Number(Spawns(c), a) = Number(Spawns(c), b)
  BY <1>3, <1>5, NameFacts
<1>7. Number(Spawns(c), n) = Number(Spawns(c), a) + 1 /\ Number(Spawns(c), m) = Number(Spawns(c), b) + 1
  BY <1>4, <1>5, NumberFacts
<1>8. Number(Spawns(c), n) = Number(Spawns(c), m)
  BY <1>6, <1>7
<1>9. QED
  BY <1>4, <1>8, NumberUnique, NameFacts

\* A context is made by one call.
LEMMA OneMaker ==
  ASSUME NEW c \in Ctx, NEW d \in Ctx, NEW n \in Making(c), NEW m \in Making(d),
         Program[c][n].child = Program[d][m].child
  PROVE  c = d /\ n = m
<1>1. <<c, n>> = <<d, m>>
  BY NamesAssumption
<1>2. QED
  BY <1>1

\* Thread t has the context of rank r in c and is about to make w's by call n.
Maker(I, C, t, c, r, n, w) ==
  /\ c \in Ctx /\ r \in Rank(c) /\ t = <<c, r>> /\ I[t] # <<>>
  /\ n \in Making(c) /\ C[t] \in Nat /\ C[t] < n
  /\ w \in Thread /\ Program[c][n].child = w[1] /\ PartyOf(w[1], w[2]) = PartyOf(c, r)

LEMMA IdsFresh ==
  ASSUME NEW I, NEW C, NEW t, NEW c, NEW r, NEW n, NEW w, Ids(I, C), Maker(I, C, t, c, r, n, w)
  PROVE  I[w] = <<>>
<1> SUFFICES ASSUME I[w] # <<>> PROVE FALSE
  OBVIOUS
<1>1. /\ c \in Ctx /\ r \in Rank(c) /\ t = <<c, r>> /\ n \in Making(c) /\ C[t] \in Nat /\ C[t] < n
      /\ w \in Thread /\ Program[c][n].child = w[1] /\ PartyOf(w[1], w[2]) = PartyOf(c, r)
  BY DEF Maker
<1>2. w[1] \in Spawned
  BY <1>1, NameFacts
<1>3. PICK d, m, u : MadeBy(I, C, w, d, m, u)
  BY <1>1, <1>2 DEF Ids
<1>4. /\ d \in Ctx /\ m \in Making(d) /\ u \in Rank(d) /\ Program[d][m].child = w[1]
      /\ PartyOf(d, u) = PartyOf(w[1], w[2]) /\ C[<<d, u>>] >= m
  BY <1>3 DEF MadeBy
<1>5. d = c /\ m = n
  BY <1>1, <1>4, OneMaker
<1>6. u = r
  BY <1>1, <1>4, <1>5, ContextsFacts
<1>7. n \in Nat
  BY <1>1, NameFacts
<1>8. QED
  BY <1>1, <1>4, <1>5, <1>6, <1>7

\* The id of a context that was made has a part for each of its ancestors.
LEMMA MadeLonger ==
  ASSUME NEW I, NEW C, NEW t \in Thread, NEW d, NEW n, NEW u,
         IdTypes(I), MadeBy(I, C, t, d, n, u)
  PROVE  Len(I[t]) # 1
<1>1. d \in Ctx /\ n \in Making(d) /\ u \in Rank(d) /\ I[<<d, u>>] # <<>> /\ I[t] = Append(I[<<d, u>>], Name(d, n))
  BY DEF MadeBy
<1>2. PICK s \in Seq(Ctx \cup Nat) : s = I[<<d, u>>]
  BY <1>1, ThreadFacts DEF IdTypes
<1>3. Name(d, n) \in Ctx \cup Nat
  BY <1>1, NameFacts
<1>4. Len(s) \in Nat \ {0}
  BY <1>1, <1>2, EmptySeq
<1>5. Len(Append(s, Name(d, n))) = Len(s) + 1
  BY <1>3, AppendProperties
<1>6. QED
  BY <1>1, <1>2, <1>4, <1>5

Named(I, J, w, name) == J = [I EXCEPT ![w] = name]

Later(C, E) == \A u \in Thread : C[u] \in Nat /\ E[u] \in Nat /\ E[u] >= C[u]

\* There may be a new id; the others have stayed.
Grown(I, J, E) ==
  /\ IdTypes(J) /\ Ids(J, E) /\ IdsAgree(J)
  /\ \A u \in Thread : I[u] # <<>> => J[u] = I[u]

LEMMA IdsMade ==
  ASSUME NEW I, NEW J, NEW C, NEW E, NEW t, NEW c, NEW r, NEW n, NEW w, NEW name,
         IdTypes(I), Ids(I, C), IdsAgree(I), Maker(I, C, t, c, r, n, w),
         name = Append(I[t], Name(c, n)), Named(I, J, w, name), Later(C, E), E[t] >= n
  PROVE  Grown(I, J, E)
<1>1. /\ c \in Ctx /\ r \in Rank(c) /\ t = <<c, r>> /\ I[t] # <<>> /\ n \in Making(c)
      /\ w \in Thread /\ Program[c][n].child = w[1] /\ PartyOf(w[1], w[2]) = PartyOf(c, r)
      /\ t \in Thread /\ t[1] = c
  BY ThreadFacts DEF Maker
<1>2. I[w] = <<>> /\ w # t
  BY <1>1, IdsFresh
<1>3. name = Append(I[t], Name(c, n))
  OBVIOUS
<1>4. name \in Seq(Ctx \cup Nat) /\ name # <<>> /\ Len(name) # 1 /\ I[t] \in Seq(Ctx \cup Nat)
  <2>1. I[t] \in Seq(Ctx \cup Nat) /\ Name(c, n) \in Ctx \cup Nat
    BY <1>1, NameFacts DEF IdTypes
  <2>2. name \in Seq(Ctx \cup Nat) /\ name # <<>> /\ Len(name) = Len(I[t]) + 1
    BY <1>3, <2>1, AppendProperties
  <2>3. Len(I[t]) \in Nat \ {0}
    BY <1>1, <2>1, EmptySeq
  <2>4. QED
    BY <2>1, <2>2, <2>3
<1>5. J[w] = name /\ \A u \in Thread : u # w => J[u] = I[u]
  BY <1>1, <1>3 DEF Named, IdTypes
<1>6. IdTypes(J)
  BY <1>1, <1>3, <1>4 DEF Named, IdTypes
<1>7. \A u \in Thread : I[u] # <<>> => J[u] = I[u]
  BY <1>2, <1>5
<1>8. w[1] \in Spawned
  BY <1>1, NameFacts
\* Another thread has this id if and only if it is of the same context.
<1>9. ASSUME NEW v \in Thread, I[v] # <<>>
      PROVE  I[v] = name <=> v[1] = w[1]
  <2>1. CASE v[1] \notin Spawned
    <3>1. I[v] = <<v[1]>>
      BY <1>9, <2>1 DEF Ids
    <3>2. I[v] # name
      <4>1. \A a : Len(<<a>>) = 1
        OBVIOUS
      <4>2. Len(I[v]) = 1 /\ Len(name) # 1
        BY <1>4, <3>1, <4>1, Zenon
      <4>3. QED
        BY <4>2, Zenon
    <3>3. QED
      BY <1>8, <2>1, <3>2
  <2>2. CASE v[1] \in Spawned
    <3>1. PICK d, m, u : MadeBy(I, C, v, d, m, u)
      BY <1>9, <2>2 DEF Ids
    <3>2. /\ d \in Ctx /\ m \in Making(d) /\ u \in Rank(d) /\ Program[d][m].child = v[1]
          /\ I[<<d, u>>] # <<>> /\ I[v] = Append(I[<<d, u>>], Name(d, m))
      BY <3>1 DEF MadeBy
    <3>3. PICK x : x = <<d, u>> /\ x \in Thread /\ x[1] = d
      BY <3>2, ThreadFacts
    <3>4. I[x] = I[t] <=> d = c
      BY <1>1, <3>2, <3>3 DEF IdsAgree
    <3>5. I[x] \in Seq(Ctx \cup Nat) /\ Name(d, m) \in Ctx \cup Nat /\ Name(c, n) \in Ctx \cup Nat
      BY <1>1, <3>2, <3>3, NameFacts DEF IdTypes
    <3>6. I[v] = name <=> I[x] = I[t] /\ Name(d, m) = Name(c, n)
      <4>1. name = Append(I[t], Name(c, n)) /\ I[v] = Append(I[x], Name(d, m))
        BY <1>3, <3>2, <3>3, Zenon
      <4>2. I[t] \in Seq(Ctx \cup Nat) /\ I[x] \in Seq(Ctx \cup Nat)
        BY <1>4, <3>5, Zenon
      <4>3. PICK a \in Seq(Ctx \cup Nat), b \in Seq(Ctx \cup Nat) : a = I[x] /\ b = I[t]
        BY <4>2
      <4>4. PICK e \in Ctx \cup Nat, f \in Ctx \cup Nat : e = Name(d, m) /\ f = Name(c, n)
        BY <3>5
      <4>5. Append(a, e) = Append(b, f) <=> a = b /\ e = f
        BY AppendInjective
      <4>6. QED
        BY <4>1, <4>3, <4>4, <4>5, Zenon
    <3>7. d = c /\ Name(d, m) = Name(c, n) => m = n
      BY <1>1, <3>2, NameUnique
    <3>8. v[1] = w[1] => d = c /\ m = n
      BY <1>1, <3>2, OneMaker
    <3>9. QED
      BY <1>1, <3>2, <3>4, <3>6, <3>7, <3>8
  <2>3. QED
    BY <2>1, <2>2
<1>10. IdsAgree(J)
  <2> SUFFICES ASSUME NEW a \in Thread, NEW b \in Thread, J[a] # <<>>, J[b] # <<>>
               PROVE  J[a] = J[b] <=> a[1] = b[1]
    BY DEF IdsAgree
  <2>1. CASE a # w /\ b # w
    BY <1>5, <2>1 DEF IdsAgree
  <2>2. CASE a = w /\ b # w
    <3>1. J[b] = I[b] /\ J[a] = name
      BY <1>5, <2>2
    <3>2. I[b] = name <=> b[1] = w[1]
      BY <1>9, <3>1
    <3>3. QED
      BY <2>2, <3>1, <3>2
  <2>3. CASE a # w /\ b = w
    <3>1. J[a] = I[a] /\ J[b] = name
      BY <1>5, <2>3
    <3>2. I[a] = name <=> a[1] = w[1]
      BY <1>9, <3>1
    <3>3. QED
      BY <2>3, <3>1, <3>2
  <2>4. QED
    BY <2>1, <2>2, <2>3
<1>11. ASSUME NEW v \in Thread, J[v] # <<>>, v[1] \in Spawned
       PROVE  \E d, m, u : MadeBy(J, E, v, d, m, u)
  <2>1. CASE v = w
    <3>1. E[<<c, r>>] >= n /\ J[<<c, r>>] = I[t]
      BY <1>1, <1>2, <1>5
    <3>2. MadeBy(J, E, v, c, n, r)
      BY <1>1, <1>3, <1>5, <2>1, <3>1 DEF MadeBy
    <3>3. QED
      BY <3>2
  <2>2. CASE v # w
    <3>1. J[v] = I[v]
      BY <1>5, <2>2
    <3>2. PICK d, m, u : MadeBy(I, C, v, d, m, u)
      BY <1>11, <3>1 DEF Ids
    <3>3. d \in Ctx /\ m \in Making(d) /\ u \in Rank(d) /\ I[<<d, u>>] # <<>> /\ C[<<d, u>>] >= m
      BY <3>2 DEF MadeBy
    <3>4. PICK x : x = <<d, u>> /\ x \in Thread
      BY <3>3, ThreadFacts
    <3>5. J[x] = I[x]
      BY <1>7, <3>3, <3>4
    <3>6. m \in Nat
      BY <3>3, NameFacts
    <3>7. E[x] >= m
      BY <3>3, <3>4, <3>6 DEF Later
    <3>8. MadeBy(J, E, v, d, m, u)
      BY <3>1, <3>2, <3>4, <3>5, <3>7 DEF MadeBy
    <3>9. QED
      BY <3>8
  <2>3. QED
    BY <2>1, <2>2
<1>12. ASSUME NEW v \in Thread, J[v] # <<>>, v[1] \notin Spawned
       PROVE  J[v] = <<v[1]>>
  <2>1. J[v] = I[v]
    BY <1>5, <1>8, <1>12
  <2>2. QED
    BY <1>12, <2>1 DEF Ids
<1>13. Ids(J, E)
  BY <1>11, <1>12 DEF Ids
<1>14. QED
  BY <1>6, <1>7, <1>10, <1>13 DEF Grown

\* A context from the factory.
LEMMA IdsCreated ==
  ASSUME NEW I, NEW J, NEW C, NEW t \in Thread,
         IdTypes(I), Ids(I, C), IdsAgree(I), I[t] = <<>>, t[1] \notin Spawned, Named(I, J, t, <<t[1]>>)
  PROVE  /\ IdTypes(J) /\ Ids(J, C) /\ IdsAgree(J)
         /\ \A u \in Thread : I[u] # <<>> => J[u] = I[u]
<1>1. PICK name : name = <<t[1]>> /\ name \in Seq(Ctx \cup Nat) /\ name # <<>> /\ Len(name) = 1
  <2>1. t[1] \in Ctx
    BY ThreadFacts
  <2>2. \A a \in Ctx : <<a>> \in Seq(Ctx \cup Nat) /\ <<a>> # <<>> /\ Len(<<a>>) = 1
    OBVIOUS
  <2>3. QED
    BY <2>1, <2>2
<1>2. J[t] = name /\ \A u \in Thread : u # t => J[u] = I[u]
  BY <1>1 DEF Named, IdTypes
<1>3. IdTypes(J)
  BY <1>1 DEF Named, IdTypes
<1>4. \A u \in Thread : I[u] # <<>> => J[u] = I[u]
  BY <1>2
<1>5. ASSUME NEW v \in Thread, I[v] # <<>>
      PROVE  I[v] = name <=> v[1] = t[1]
  <2>1. CASE v[1] \notin Spawned
    <3>1. I[v] = <<v[1]>>
      BY <1>5, <2>1 DEF Ids
    <3>2. \A a, b : <<a>> = <<b>> <=> a = b
      OBVIOUS
    <3>3. QED
      BY <1>1, <3>1, <3>2
  <2>2. CASE v[1] \in Spawned
    <3>1. PICK d, m, u : MadeBy(I, C, v, d, m, u)
      BY <1>5, <2>2 DEF Ids
    <3>2. Len(I[v]) # 1
      BY <3>1, MadeLonger
    <3>3. I[v] # name
      <4>1. Len(I[v]) # 1 /\ Len(name) = 1
        BY <1>1, <3>2, Zenon
      <4>2. QED
        BY <4>1, Zenon
    <3>4. v[1] # t[1]
      BY <2>2
    <3>5. QED
      BY <3>3, <3>4
  <2>3. QED
    BY <2>1, <2>2
<1>6. IdsAgree(J)
  <2> SUFFICES ASSUME NEW a \in Thread, NEW b \in Thread, J[a] # <<>>, J[b] # <<>>
               PROVE  J[a] = J[b] <=> a[1] = b[1]
    BY DEF IdsAgree
  <2>1. CASE a # t /\ b # t
    BY <1>2, <2>1 DEF IdsAgree
  <2>2. CASE a = t /\ b # t
    <3>1. J[b] = I[b] /\ J[a] = name
      BY <1>2, <2>2
    <3>2. I[b] = name <=> b[1] = t[1]
      BY <1>5, <3>1
    <3>3. QED
      BY <2>2, <3>1, <3>2
  <2>3. CASE a # t /\ b = t
    <3>1. J[a] = I[a] /\ J[b] = name
      BY <1>2, <2>3
    <3>2. I[a] = name <=> a[1] = t[1]
      BY <1>5, <3>1
    <3>3. QED
      BY <2>3, <3>1, <3>2
  <2>4. QED
    BY <2>1, <2>2, <2>3
<1>7. Ids(J, C)
  <2>1. ASSUME NEW v \in Thread, J[v] # <<>>, v[1] \in Spawned
        PROVE  \E d, m, u : MadeBy(J, C, v, d, m, u)
    <3>1. J[v] = I[v]
      BY <1>2, <2>1
    <3>2. PICK d, m, u : MadeBy(I, C, v, d, m, u)
      BY <2>1, <3>1 DEF Ids
    <3>3. d \in Ctx /\ m \in Making(d) /\ u \in Rank(d) /\ I[<<d, u>>] # <<>>
      BY <3>2 DEF MadeBy
    <3>4. J[<<d, u>>] = I[<<d, u>>]
      BY <1>4, <3>3, ThreadFacts
    <3>5. MadeBy(J, C, v, d, m, u)
      BY <3>1, <3>2, <3>4 DEF MadeBy
    <3>6. QED
      BY <3>5
  <2>2. ASSUME NEW v \in Thread, J[v] # <<>>, v[1] \notin Spawned
        PROVE  J[v] = <<v[1]>>
    <3>1. CASE v = t
      BY <1>1, <1>2, <3>1
    <3>2. CASE v # t
      BY <1>2, <2>2, <3>2 DEF Ids
    <3>3. QED
      BY <3>1, <3>2
  <2>3. QED
    BY <2>1, <2>2 DEF Ids
<1>8. QED
  BY <1>3, <1>4, <1>6, <1>7

\* A call that makes no context.
LEMMA IdsLater ==
  ASSUME NEW I, NEW C, NEW E, Ids(I, C),
         \A u \in Thread : C[u] \in Nat /\ E[u] \in Nat /\ E[u] >= C[u]
  PROVE  Ids(I, E)
<1>1. ASSUME NEW v \in Thread, I[v] # <<>>, v[1] \in Spawned
      PROVE  \E d, m, u : MadeBy(I, E, v, d, m, u)
  <2>1. PICK d, m, u : MadeBy(I, C, v, d, m, u)
    BY <1>1 DEF Ids
  <2>2. d \in Ctx /\ m \in Making(d) /\ u \in Rank(d) /\ C[<<d, u>>] >= m
    BY <2>1 DEF MadeBy
  <2>3. <<d, u>> \in Thread /\ m \in Nat
    BY <2>2, ThreadFacts, NameFacts
  <2>4. E[<<d, u>>] >= m
    BY <2>2, <2>3
  <2>5. MadeBy(I, E, v, d, m, u)
    BY <2>1, <2>4 DEF MadeBy
  <2>6. QED
    BY <2>5
<1>2. QED
  BY <1>1 DEF Ids

-----------------------------------------------------------------------------
(* The progress of the threads.                                            *)

\* A thread has made no more steps than its call has, and all of them when it
\* is idle.
LEMMA MadeBound ==
  ASSUME NEW k, NEW x, NEW p, NEW t \in Thread, RunAt(k, x, p, t)
  PROVE  /\ MadeAt(k, x, p, t) \in Nat
         /\ k \in Talks(t[1]) => MadeAt(k, x, p, t) <= Len(StepsOf(t[1], k, t[2]))
         /\ k \in Talks(t[1]) /\ p = "idle" => MadeAt(k, x, p, t) = Len(StepsOf(t[1], k, t[2]))
<1>1. CASE k \notin Talks(t[1])
  BY <1>1 DEF MadeAt
<1>2. CASE k \in Talks(t[1])
  <2>1. PICK L : L = Len(StepsOf(t[1], k, t[2])) /\ L \in Nat
    BY <1>2, StepsLength, ThreadFacts
  <2>2. MadeAt(k, x, p, t) = L - Len(x) + (IF p = "throttle" THEN 1 ELSE 0)
    BY <1>2, <2>1 DEF MadeAt
  <2>3. x \in Seq(StepSet(WorldSize(t[1]), t[2])) /\ Len(x) \in Nat
    BY DEF RunAt
  <2>4. CASE p = "idle"
    <3>1. Len(x) = 0
      BY <2>4 DEF RunAt
    <3>2. QED
      BY <2>1, <2>2, <2>4, <3>1
  <2>5. CASE p # "idle"
    <3>1. Len(x) <= L /\ (p = "throttle" => x # <<>>)
      BY <2>1, <2>5 DEF RunAt
    <3>2. p = "throttle" => Len(x) > 0
      BY <2>3, <3>1, EmptySeq
    <3>3. QED
      BY <2>1, <2>2, <2>3, <2>5, <3>1, <3>2
  <2>6. QED
    BY <2>4, <2>5
<1>3. QED
  BY <1>1, <1>2

LEMMA RunsSteady ==
  ASSUME NEW C, NEW T, NEW P, Runs(C, T, P)
  PROVE  Steady(C, Made(C, T, P), P)
<1>1. C \in [Thread -> Nat] /\ \A t \in Thread : RunAt(C[t], T[t], P[t], t)
  BY DEF Runs
<1>2. \A t \in Thread : Made(C, T, P)[t] = MadeAt(C[t], T[t], P[t], t)
  BY DEF Made
<1>3. \A t \in Thread :
        /\ MadeAt(C[t], T[t], P[t], t) \in Nat
        /\ C[t] \in Talks(t[1]) => MadeAt(C[t], T[t], P[t], t) <= Len(StepsOf(t[1], C[t], t[2]))
        /\ C[t] \in Talks(t[1]) /\ P[t] = "idle" =>
             MadeAt(C[t], T[t], P[t], t) = Len(StepsOf(t[1], C[t], t[2]))
  BY <1>1, MadeBound
<1>4. Made(C, T, P) \in [Thread -> Nat]
  BY <1>3 DEF Made
<1>5. \A t \in Thread : C[t] <= Len(Program[t[1]])
  BY <1>1 DEF RunAt
<1>6. QED
  BY <1>1, <1>2, <1>3, <1>4, <1>5 DEF Steady

\* The step that a thread is at.
LEMMA RunsStep ==
  ASSUME NEW C, NEW T, NEW P, NEW t \in Thread, Runs(C, T, P), P[t] # "idle", T[t] # <<>>
  PROVE  /\ Head(T[t]) \in StepSet(WorldSize(t[1]), t[2])
         /\ P[t] = "step" =>
              AtStep(C, Made(C, T, P), t, t[1], t[2], C[t], Made(C, T, P)[t] + 1, Head(T[t]))
<1>1. RunAt(C[t], T[t], P[t], t) /\ C \in [Thread -> Nat]
  BY DEF Runs
<1>2. PICK k, x, S : k = C[t] /\ x = T[t] /\ S = StepsOf(t[1], C[t], t[2])
  OBVIOUS
<1>3. /\ k \in Talks(t[1]) /\ Len(x) <= Len(S) /\ \A i \in 1 .. Len(x) : x[i] = S[Len(S) - Len(x) + i]
      /\ x \in Seq(StepSet(WorldSize(t[1]), t[2])) /\ x # <<>>
  BY <1>1, <1>2 DEF RunAt
<1>4. Len(S) \in Nat /\ Len(x) \in Nat \ {0}
  <2>1. Len(S) \in Nat
    BY <1>2, <1>3, StepsLength, ThreadFacts
  <2>2. QED
    BY <1>3, <2>1, EmptySeq
<1>5. Head(x) = x[1] /\ Head(x) \in StepSet(WorldSize(t[1]), t[2])
  BY <1>3, HeadTailProperties
<1>6. ASSUME P[t] = "step"
      PROVE  AtStep(C, Made(C, T, P), t, t[1], t[2], C[t], Made(C, T, P)[t] + 1, Head(T[t]))
  <2>1. PICK m : m = Made(C, T, P)[t]
    OBVIOUS
  <2>2. m = Len(S) - Len(x)
    BY <1>2, <1>3, <1>4, <1>6, <2>1 DEF Made, MadeAt
  <2>3. m + 1 \in 1 .. Len(S) /\ S[m + 1] = Head(x)
    <3>1. x[1] = S[Len(S) - Len(x) + 1]
      BY <1>3, <1>4
    <3>2. QED
      BY <1>3, <1>4, <1>5, <2>2, <3>1
  <2>4. t[1] \in Ctx /\ t[2] \in Rank(t[1]) /\ t = <<t[1], t[2]>>
    BY ThreadFacts
  <2>5. QED
    BY <1>2, <1>3, <2>1, <2>3, <2>4 DEF AtStep
<1>7. QED
  BY <1>2, <1>5, <1>6

\* Where t has the steps y left and is at p afterwards.
Moves(T, U, t, y) == DOMAIN U = DOMAIN T /\ U[t] = y /\ \A u \in Thread : u # t => U[u] = T[u]

Moved(C, T, P, E, U, Q, t, m) ==
  /\ Runs(E, U, Q) /\ Made(E, U, Q)[t] = m
  /\ \A u \in Thread : u # t => Made(E, U, Q)[u] = Made(C, T, P)[u]

LEMMA RunsMoves ==
  ASSUME NEW C, NEW T, NEW P, NEW E, NEW U, NEW Q, NEW t, NEW k, NEW y, NEW p, t \in Thread,
         Runs(C, T, P), E \in [Thread -> Nat], Moves(C, E, t, k), Moves(T, U, t, y), Moves(P, Q, t, p),
         RunAt(k, y, p, t)
  PROVE  Moved(C, T, P, E, U, Q, t, MadeAt(k, y, p, t))
<1>1. \A u \in Thread : u # t => E[u] = C[u] /\ U[u] = T[u] /\ Q[u] = P[u]
  BY DEF Moves
<1>2. E[t] = k /\ U[t] = y /\ Q[t] = p
  BY DEF Moves
<1>3. Runs(E, U, Q)
  <2>1. \A u \in Thread : RunAt(C[u], T[u], P[u], u)
    BY DEF Runs
  <2>2. ASSUME NEW u \in Thread PROVE RunAt(E[u], U[u], Q[u], u)
    <3>1. CASE u = t
      BY <1>2, <3>1
    <3>2. CASE u # t
      BY <1>1, <2>1, <3>2
    <3>3. QED
      BY <3>1, <3>2
  <2>3. DOMAIN U = Thread /\ DOMAIN Q = Thread
    BY DEF Moves, Runs
  <2>4. QED
    BY <2>2, <2>3 DEF Runs
<1>4. Made(E, U, Q)[t] = MadeAt(k, y, p, t)
  BY <1>2 DEF Made
<1>5. \A u \in Thread : u # t => Made(E, U, Q)[u] = Made(C, T, P)[u]
  BY <1>1 DEF Made
<1>6. QED
  BY <1>3, <1>4, <1>5 DEF Moved

LEMMA MakesFacts ==
  ASSUME NEW M, NEW F, NEW t \in Thread, M \in [Thread -> Nat], F \in [Thread -> Nat],
         F[t] = M[t] + 1, \A u \in Thread : u # t => F[u] = M[u]
  PROVE  Makes(M, F, t)
  BY DEF Makes

LEMMA SameFacts ==
  ASSUME NEW M, NEW F, M \in [Thread -> Nat], F \in [Thread -> Nat], \A u \in Thread : F[u] = M[u]
  PROVE  F = M
  OBVIOUS

\* The message of a send is stored.
LEMMA RunsSend ==
  ASSUME NEW C, NEW T, NEW P, NEW Q, NEW t \in Thread, Runs(C, T, P),
         P[t] = "step", T[t] # <<>>, Moves(P, Q, t, "throttle")
  PROVE  Runs(C, T, Q) /\ Makes(Made(C, T, P), Made(C, T, Q), t)
<1>1. RunAt(C[t], T[t], P[t], t) /\ C \in [Thread -> Nat]
  BY DEF Runs
<1>2. RunAt(C[t], T[t], "throttle", t)
  BY <1>1 DEF RunAt
<1>3. Moves(C, C, t, C[t]) /\ Moves(T, T, t, T[t])
  BY DEF Moves
<1>4. /\ Runs(C, T, Q) /\ Made(C, T, Q)[t] = MadeAt(C[t], T[t], "throttle", t)
      /\ \A u \in Thread : u # t => Made(C, T, Q)[u] = Made(C, T, P)[u]
  <2>1. PICK k, y, p : k = C[t] /\ y = T[t] /\ p = "throttle"
    OBVIOUS
  <2>2. Moves(C, C, t, k) /\ Moves(T, T, t, y) /\ Moves(P, Q, t, p) /\ RunAt(k, y, p, t)
    BY <1>2, <1>3, <2>1
  <2>3. Moved(C, T, P, C, T, Q, t, MadeAt(k, y, p, t))
    BY <1>1, <2>2, RunsMoves
  <2>4. QED
    BY <2>1, <2>3 DEF Moved
<1>5. Made(C, T, P) \in [Thread -> Nat] /\ Made(C, T, Q) \in [Thread -> Nat]
  BY <1>4, RunsSteady DEF Steady
<1>6. Made(C, T, Q)[t] = Made(C, T, P)[t] + 1
  <2>1. C[t] \in Talks(t[1]) /\ Len(T[t]) \in Nat
    BY <1>1 DEF RunAt
  <2>2. PICK L : L = Len(StepsOf(t[1], C[t], t[2])) /\ L \in Nat
    BY <2>1, StepsLength, ThreadFacts
  <2>3. Made(C, T, Q)[t] = L - Len(T[t]) + 1 /\ Made(C, T, P)[t] = L - Len(T[t]) + 0
    BY <1>4, <2>1, <2>2 DEF Made, MadeAt
  <2>4. QED
    BY <2>1, <2>2, <2>3
<1>7. QED
  BY <1>4, <1>5, <1>6, MakesFacts

\* A send that waits in ThrottleWindowWait, or a receive, is done.
Did(C, T, P, U, Q, t) ==
  /\ Runs(C, U, Q)
  /\ P[t] = "step" => Makes(Made(C, T, P), Made(C, U, Q), t)
  /\ P[t] = "throttle" => Made(C, U, Q) = Made(C, T, P)

LEMMA RunsTail ==
  ASSUME NEW C, NEW T, NEW P, NEW U, NEW Q, NEW t \in Thread, Runs(C, T, P),
         P[t] # "idle", T[t] # <<>>, Moves(T, U, t, Tail(T[t])), Moves(P, Q, t, "step")
  PROVE  Did(C, T, P, U, Q, t)
<1>1. RunAt(C[t], T[t], P[t], t) /\ C \in [Thread -> Nat]
  BY DEF Runs
<1>2. PICK x, y, S : x = T[t] /\ y = Tail(T[t]) /\ S = StepsOf(t[1], C[t], t[2])
  OBVIOUS
<1>3. /\ C[t] \in Talks(t[1]) /\ Len(x) <= Len(S) /\ \A i \in 1 .. Len(x) : x[i] = S[Len(S) - Len(x) + i]
      /\ x \in Seq(StepSet(WorldSize(t[1]), t[2])) /\ x # <<>>
      /\ C[t] \in Nat /\ C[t] <= Len(Program[t[1]]) /\ P[t] \in {"step", "throttle"}
  BY <1>1, <1>2 DEF RunAt
<1>4. /\ y \in Seq(StepSet(WorldSize(t[1]), t[2])) /\ Len(y) = Len(x) - 1
      /\ \A i \in 1 .. Len(y) : y[i] = x[i + 1]
  BY <1>2, <1>3, HeadTailProperties
<1>5. Len(S) \in Nat /\ Len(x) \in Nat \ {0}
  <2>1. Len(S) \in Nat
    BY <1>2, <1>3, StepsLength, ThreadFacts
  <2>2. QED
    BY <1>3, <2>1, EmptySeq
<1>6. Len(y) <= Len(S) /\ \A i \in 1 .. Len(y) : y[i] = S[Len(S) - Len(y) + i]
  <2>1. Len(y) <= Len(S)
    BY <1>3, <1>4, <1>5
  <2>2. ASSUME NEW i \in 1 .. Len(y) PROVE y[i] = S[Len(S) - Len(y) + i]
    <3>1. i + 1 \in 1 .. Len(x) /\ Len(S) - Len(x) + (i + 1) = Len(S) - Len(y) + i
      BY <1>4, <1>5
    <3>2. QED
      BY <1>3, <1>4, <3>1
  <2>3. QED
    BY <2>1, <2>2
<1>7. RunAt(C[t], y, "step", t)
  BY <1>2, <1>3, <1>4, <1>6 DEF RunAt
<1>8. Moves(C, C, t, C[t])
  BY DEF Moves
<1>9. /\ Runs(C, U, Q) /\ Made(C, U, Q)[t] = MadeAt(C[t], y, "step", t)
      /\ \A u \in Thread : u # t => Made(C, U, Q)[u] = Made(C, T, P)[u]
  <2>1. PICK k, p : k = C[t] /\ p = "step"
    OBVIOUS
  <2>2. Moves(C, C, t, k) /\ Moves(T, U, t, y) /\ Moves(P, Q, t, p) /\ RunAt(k, y, p, t)
    BY <1>2, <1>7, <1>8, <2>1
  <2>3. Moved(C, T, P, C, U, Q, t, MadeAt(k, y, p, t))
    BY <1>1, <2>2, RunsMoves
  <2>4. QED
    BY <2>1, <2>3 DEF Moved
<1>10. Made(C, T, P) \in [Thread -> Nat] /\ Made(C, U, Q) \in [Thread -> Nat]
  BY <1>9, RunsSteady DEF Steady
<1>11. /\ Made(C, U, Q)[t] = Len(S) - Len(y) + 0
       /\ Made(C, T, P)[t] = Len(S) - Len(x) + (IF P[t] = "throttle" THEN 1 ELSE 0)
  <2>1. Made(C, U, Q)[t] = Len(S) - Len(y) + 0
    BY <1>2, <1>3, <1>9 DEF MadeAt
  <2>2. Made(C, T, P)[t] = MadeAt(C[t], x, P[t], t)
    BY <1>2 DEF Made
  <2>3. QED
    BY <1>2, <1>3, <2>1, <2>2 DEF MadeAt
<1>12. P[t] = "step" => Made(C, U, Q)[t] = Made(C, T, P)[t] + 1
  BY <1>4, <1>5, <1>11
<1>13. P[t] = "throttle" => Made(C, U, Q)[t] = Made(C, T, P)[t]
  BY <1>4, <1>5, <1>11
<1>14. P[t] = "step" => Makes(Made(C, T, P), Made(C, U, Q), t)
  BY <1>9, <1>10, <1>12, MakesFacts
<1>15. P[t] = "throttle" => Made(C, U, Q) = Made(C, T, P)
  <2> SUFFICES ASSUME P[t] = "throttle" PROVE Made(C, U, Q) = Made(C, T, P)
    OBVIOUS
  <2>1. \A u \in Thread : Made(C, U, Q)[u] = Made(C, T, P)[u]
    BY <1>9, <1>13
  <2>2. QED
    BY <1>10, <2>1, SameFacts
<1>16. QED
  BY <1>9, <1>14, <1>15 DEF Did

LEMMA RunsReturn ==
  ASSUME NEW C, NEW T, NEW P, NEW Q, NEW t \in Thread, Runs(C, T, P),
         P[t] = "step", T[t] = <<>>, Moves(P, Q, t, "idle")
  PROVE  Runs(C, T, Q) /\ Made(C, T, Q) = Made(C, T, P)
<1>1. RunAt(C[t], T[t], P[t], t) /\ C \in [Thread -> Nat]
  BY DEF Runs
<1>2. RunAt(C[t], T[t], "idle", t)
  BY <1>1 DEF RunAt
<1>3. Moves(C, C, t, C[t]) /\ Moves(T, T, t, T[t])
  BY DEF Moves
<1>4. /\ Runs(C, T, Q) /\ Made(C, T, Q)[t] = MadeAt(C[t], T[t], "idle", t)
      /\ \A u \in Thread : u # t => Made(C, T, Q)[u] = Made(C, T, P)[u]
  <2>1. PICK k, y, p : k = C[t] /\ y = T[t] /\ p = "idle"
    OBVIOUS
  <2>2. Moves(C, C, t, k) /\ Moves(T, T, t, y) /\ Moves(P, Q, t, p) /\ RunAt(k, y, p, t)
    BY <1>2, <1>3, <2>1
  <2>3. Moved(C, T, P, C, T, Q, t, MadeAt(k, y, p, t))
    BY <1>1, <2>2, RunsMoves
  <2>4. QED
    BY <2>1, <2>3 DEF Moved
<1>5. Made(C, T, Q)[t] = Made(C, T, P)[t]
  BY <1>4 DEF Made, MadeAt
<1>6. Made(C, T, P) \in [Thread -> Nat] /\ Made(C, T, Q) \in [Thread -> Nat]
  BY <1>4, RunsSteady DEF Steady
<1>7. \A u \in Thread : Made(C, T, Q)[u] = Made(C, T, P)[u]
  BY <1>4, <1>5
<1>8. QED
  BY <1>4, <1>6, <1>7, SameFacts

\* What t has to do in its k-th call.
Enters(t, k, y, p) ==
  IF k \in Talks(t[1]) THEN y = StepsOf(t[1], k, t[2]) /\ p = "step" ELSE y = <<>> /\ p = "idle"

\* A call begins: no step of it is made.
Began(C, T, P, E, U, Q, t) ==
  /\ Runs(E, U, Q) /\ SamePast(C, Made(C, T, P), E, Made(E, U, Q))
  /\ E[t] = C[t] + 1 /\ E[t] \in DOMAIN Program[t[1]]
  /\ \A u \in Thread : u # t => E[u] = C[u] /\ Made(E, U, Q)[u] = Made(C, T, P)[u]
  /\ \A u \in Thread : C[u] \in Nat /\ E[u] \in Nat /\ E[u] >= C[u]
  /\ Made(E, U, Q)[t] = 0

LEMMA RunsBegin ==
  ASSUME NEW C, NEW T, NEW P, NEW E, NEW U, NEW Q, NEW t \in Thread, NEW y, NEW p, Runs(C, T, P),
         P[t] = "idle", C[t] < Len(Program[t[1]]), Makes(C, E, t),
         Moves(T, U, t, y), Moves(P, Q, t, p), Enters(t, E[t], y, p)
  PROVE  Began(C, T, P, E, U, Q, t)
<1> USE DEF Makes, Enters
<1>1. C \in [Thread -> Nat] /\ \A u \in Thread : RunAt(C[u], T[u], P[u], u)
  BY DEF Runs
<1>2. t[1] \in Ctx /\ t[2] \in Rank(t[1]) /\ Len(Program[t[1]]) \in Nat
      /\ DOMAIN Program[t[1]] = 1 .. Len(Program[t[1]])
  BY ThreadFacts, ContextsFacts
<1>3. PICK k \in Nat : k = C[t] + 1
  BY <1>1
<1>4. E \in [Thread -> Nat] /\ E[t] = k /\ \A u \in Thread : u # t => E[u] = C[u]
  BY <1>1, <1>3
<1>5. Moves(C, E, t, k)
  BY <1>1, <1>4 DEF Moves
<1>6. k \in 1 .. Len(Program[t[1]]) /\ k <= Len(Program[t[1]])
  BY <1>1, <1>2, <1>3
<1>7. RunAt(k, y, p, t) /\ MadeAt(k, y, p, t) = 0
  <2>1. CASE k \in Talks(t[1])
    <3>1. y = StepsOf(t[1], k, t[2]) /\ p = "step"
      BY <1>4, <2>1
    <3>2. y \in Seq(StepSet(WorldSize(t[1]), t[2])) /\ Len(y) \in Nat
      BY <1>2, <2>1, <3>1, StepsLength
    <3>3. Len(y) <= Len(y) /\ \A i \in 1 .. Len(y) : y[i] = y[Len(y) - Len(y) + i]
      BY <3>2
    <3>4. RunAt(k, y, p, t)
      BY <1>6, <2>1, <3>1, <3>2, <3>3 DEF RunAt
    <3>5. MadeAt(k, y, p, t) = Len(y) - Len(y) + 0
      BY <2>1, <3>1 DEF MadeAt
    <3>6. QED
      BY <3>2, <3>4, <3>5
  <2>2. CASE k \notin Talks(t[1])
    <3>1. y = <<>> /\ p = "idle"
      BY <1>4, <2>2
    <3>2. y \in Seq(StepSet(WorldSize(t[1]), t[2]))
      BY <3>1
    <3>3. RunAt(k, y, p, t)
      BY <1>6, <3>1, <3>2 DEF RunAt
    <3>4. QED
      BY <2>2, <3>3 DEF MadeAt
  <2>3. QED
    BY <2>1, <2>2
<1>8. /\ Runs(E, U, Q) /\ Made(E, U, Q)[t] = 0
      /\ \A u \in Thread : u # t => Made(E, U, Q)[u] = Made(C, T, P)[u]
  <2>1. Moved(C, T, P, E, U, Q, t, MadeAt(k, y, p, t))
    BY <1>4, <1>5, <1>7, RunsMoves
  <2>2. QED
    BY <1>7, <2>1 DEF Moved
<1>9. Made(E, U, Q) \in [Thread -> Nat] /\ Steady(C, Made(C, T, P), P)
  BY <1>8, RunsSteady DEF Steady
<1>10. SamePast(C, Made(C, T, P), E, Made(E, U, Q))
  BY <1>8, <1>9, BeginPast
<1>11. \A u \in Thread : C[u] \in Nat /\ E[u] \in Nat /\ E[u] >= C[u]
  BY <1>1, <1>3, <1>4
<1>12. QED
  BY <1>2, <1>3, <1>4, <1>6, <1>8, <1>10, <1>11 DEF Began

-----------------------------------------------------------------------------
(* What a step of t leaves.                                                *)

\* The thread can make a step.
Active(C, P, t) == t \in Thread /\ ~(C[t] = Len(Program[t[1]]) /\ P[t] = "idle")

\* Two states of the threads differ at t only.
Apart(C, P, E, Q, t) == \A u \in Thread : u # t => E[u] = C[u] /\ Q[u] = P[u]

LEMMA OverKept ==
  ASSUME NEW C, NEW P, NEW E, NEW Q, NEW t, NEW d, Active(C, P, t), Apart(C, P, E, Q, t),
         d \in Ctx, Over(C, P, d)
  PROVE  d # t[1] /\ Over(E, Q, d)
<1>1. t \in Thread /\ t[2] \in Rank(t[1]) /\ t = <<t[1], t[2]>>
  BY ThreadFacts DEF Active
<1>2. d # t[1]
  <2> SUFFICES ASSUME d = t[1] PROVE FALSE
    OBVIOUS
  <2>1. C[<<d, t[2]>>] = Len(Program[d]) /\ P[<<d, t[2]>>] = "idle"
    BY <1>1 DEF Over
  <2>2. QED
    BY <1>1, <2>1 DEF Active
<1>3. ASSUME NEW r \in Rank(d) PROVE E[<<d, r>>] = Len(Program[d]) /\ Q[<<d, r>>] = "idle"
  <2>1. PICK u : u = <<d, r>> /\ u \in Thread /\ u[1] = d
    BY ThreadFacts
  <2>2. E[u] = C[u] /\ Q[u] = P[u]
    BY <1>2, <2>1 DEF Apart
  <2>3. QED
    BY <2>1, <2>2 DEF Over
<1>4. QED
  BY <1>2, <1>3 DEF Over

LEMMA LiveKept ==
  ASSUME NEW I, NEW J, NEW C, NEW P, NEW E, NEW Q, NEW t, Live(I, C, P), Active(C, P, t),
         Apart(C, P, E, Q, t), J[t] # <<>>, \A u \in Thread : I[u] # <<>> => J[u] = I[u]
  PROVE  Live(J, E, Q)
<1> SUFFICES ASSUME NEW u \in Thread, J[u] = <<>>
             PROVE  (E[u] = 0 /\ Q[u] = "idle") \/ Over(E, Q, u[1])
  BY DEF Live
<1>1. I[u] = <<>> /\ u # t
  OBVIOUS
<1>2. E[u] = C[u] /\ Q[u] = P[u] /\ u[1] \in Ctx
  BY <1>1, ThreadFacts DEF Apart
<1>3. CASE C[u] = 0 /\ P[u] = "idle"
  BY <1>2, <1>3
<1>4. CASE Over(C, P, u[1])
  BY <1>2, <1>4, OverKept
<1>5. QED
  BY <1>1, <1>3, <1>4 DEF Live

\* A thread that is in a call, or begins one, has a context.
LEMMA LiveNamed ==
  ASSUME NEW I, NEW C, NEW P, NEW t, Live(I, C, P), t \in Thread, P[t] # "idle"
  PROVE  I[t] # <<>> /\ Active(C, P, t)
<1>1. Active(C, P, t)
  BY DEF Active
<1>2. Apart(C, P, C, P, t)
  BY DEF Apart
<1>3. ~Over(C, P, t[1])
  <2> SUFFICES ASSUME Over(C, P, t[1]) PROVE FALSE
    OBVIOUS
  <2>1. t[1] \in Ctx
    BY ThreadFacts
  <2>2. QED
    BY <1>1, <1>2, <2>1, OverKept
<1>4. QED
  BY <1>1, <1>3 DEF Live

LEMMA CountedHere ==
  ASSUME NEW C, NEW P, NEW A, NEW B, NEW V, NEW t, Counted(C, P, A, B, V), Active(C, P, t)
  PROVE  CountedAt(C[t], A[t], B[t], V[t], t)
<1>1. Apart(C, P, C, P, t) /\ t \in Thread /\ t[1] \in Ctx
  BY ThreadFacts DEF Apart, Active
<1>2. ~Over(C, P, t[1])
  BY <1>1, OverKept
<1>3. QED
  BY <1>1, <1>2 DEF Counted

LEMMA CountedKept ==
  ASSUME NEW C, NEW P, NEW A, NEW B, NEW V, NEW E, NEW Q, NEW K, NEW L, NEW W, NEW t,
         Counted(C, P, A, B, V), Active(C, P, t), Apart(C, P, E, Q, t),
         \A u \in Thread : u # t => K[u] = A[u] /\ L[u] = B[u] /\ W[u] = V[u],
         CountedAt(E[t], K[t], L[t], W[t], t)
  PROVE  Counted(E, Q, K, L, W)
<1> SUFFICES ASSUME NEW u \in Thread
             PROVE  Over(E, Q, u[1]) \/ CountedAt(E[u], K[u], L[u], W[u], u)
  BY DEF Counted
<1>1. CASE u = t
  BY <1>1
<1>2. CASE u # t
  <2>1. E[u] = C[u] /\ K[u] = A[u] /\ L[u] = B[u] /\ W[u] = V[u] /\ u[1] \in Ctx
    BY <1>2, ThreadFacts DEF Apart
  <2>2. CASE Over(C, P, u[1])
    BY <2>1, <2>2, OverKept
  <2>3. CASE CountedAt(C[u], A[u], B[u], V[u], u)
    BY <2>1, <2>3
  <2>4. QED
    BY <2>2, <2>3 DEF Counted
<1>3. QED
  BY <1>1, <1>2

\* The next call counts where it belongs.
LEMMA CountedNext ==
  ASSUME NEW t, NEW k, NEW a, NEW b, NEW v, NEW e, NEW f, NEW w, t \in Thread, k \in Nat,
         CountedAt(k, a, b, v, t),
         e = a + (IF k + 1 \in Collective(t[1]) THEN 1 ELSE 0),
         f = b + (IF k + 1 \in Spawns(t[1]) THEN 1 ELSE 0),
         \A q \in Rank(t[1]) :
           /\ w[<<t[2], q>>] = v[<<t[2], q>>] + (IF k + 1 \in P2Ps(t[1], t[2], q) THEN 1 ELSE 0)
           /\ w[<<q, t[2]>>] = v[<<q, t[2]>>] + (IF k + 1 \in P2Ps(t[1], q, t[2]) THEN 1 ELSE 0)
  PROVE  CountedAt(k + 1, e, f, w, t)
<1>1. \A T : Number(T, k + 1) = Number(T, k) + (IF k + 1 \in T THEN 1 ELSE 0)
  BY NumberFacts
<1>2. e = Number(Collective(t[1]), k + 1)
  BY <1>1 DEF CountedAt
<1>3. f = Number(Spawns(t[1]), k + 1)
  BY <1>1 DEF CountedAt
<1>4. ASSUME NEW q \in Rank(t[1])
      PROVE  /\ w[<<t[2], q>>] = Number(P2Ps(t[1], t[2], q), k + 1)
             /\ w[<<q, t[2]>>] = Number(P2Ps(t[1], q, t[2]), k + 1)
  <2>1. v[<<t[2], q>>] = Number(P2Ps(t[1], t[2], q), k) /\ v[<<q, t[2]>>] = Number(P2Ps(t[1], q, t[2]), k)
    BY DEF CountedAt
  <2>2. QED
    BY <1>1, <2>1
<1>5. QED
  BY <1>2, <1>3, <1>4 DEF CountedAt

LEMMA EventKept ==
  ASSUME NEW I, NEW J, NEW C, NEW P, NEW T, NEW V, NEW E, NEW Q, NEW U, NEW W, NEW t,
         EventKnown(I, C, T, V), Apart(C, P, E, Q, t), Runs(C, T, P), Live(I, C, P),
         \A u \in Thread : I[u] # <<>> => J[u] = I[u],
         \A u \in Thread : u # t => U[u] = T[u] /\ W[u] = V[u],
         t \in Thread /\ U[t] # <<>> => W[t] = EventKey(J[t], t[1], E[t])
  PROVE  EventKnown(J, E, U, W)
<1> SUFFICES ASSUME NEW u \in Thread, U[u] # <<>>, u # t
             PROVE  W[u] = EventKey(J[u], u[1], E[u])
  BY DEF EventKnown
<1>1. U[u] = T[u] /\ W[u] = V[u] /\ E[u] = C[u]
  BY DEF Apart
<1>2. W[u] = EventKey(I[u], u[1], C[u])
  BY <1>1 DEF EventKnown
<1>3. P[u] # "idle"
  <2>1. RunAt(C[u], T[u], P[u], u)
    BY DEF Runs
  <2>2. QED
    BY <1>1, <2>1 DEF RunAt
<1>4. J[u] = I[u]
  BY <1>3, LiveNamed
<1>5. QED
  BY <1>1, <1>2, <1>4

-----------------------------------------------------------------------------
(* The steps of Next.                                                      *)

\* The step that t is at.
LEMMA HereFacts ==
  ASSUME CollectivesInv, NEW t \in Thread, pc[t] = "step", todo[t] # <<>>
  PROVE  LET c == t[1]
             r == t[2]
             x == Head(todo[t])
             M == Made(calls, todo, pc)
         IN  /\ c \in Ctx /\ r \in Rank(c) /\ t = <<c, r>> /\ calls[t] \in Talks(c)
             /\ x.rank \in Rank(c)
             /\ x.do = "send" => AtStep(calls, M, t, c, r, calls[t], M[t] + 1, SendTo(x.rank))
             /\ x.do = "recv" => AtStep(calls, M, t, c, r, calls[t], M[t] + 1, RecvFrom(x.rank))
             /\ id[t] # <<>> /\ Active(calls, pc, t)
             /\ event[t] = EventKey(id[t], c, calls[t])
             /\ GotAt(calls, M, got, t)
<1>1. /\ Runs(calls, todo, pc) /\ Live(id, calls, pc) /\ EventKnown(id, calls, todo, event)
      /\ GotKnown(pc, calls, Made(calls, todo, pc), got)
  BY DEF CollectivesInv
<1>2. PICK x, M : x = Head(todo[t]) /\ M = Made(calls, todo, pc)
  OBVIOUS
<1>3. x \in StepSet(WorldSize(t[1]), t[2])
      /\ AtStep(calls, M, t, t[1], t[2], calls[t], M[t] + 1, x)
  BY <1>1, <1>2, RunsStep
<1>4. t[1] \in Ctx /\ t[2] \in Rank(t[1]) /\ t = <<t[1], t[2]>>
  BY ThreadFacts
<1>5. x.rank \in Rank(t[1])
  BY <1>3, <1>4, StepKind, ContextsFacts
<1>6. /\ x.do = "send" => AtStep(calls, M, t, t[1], t[2], calls[t], M[t] + 1, SendTo(x.rank))
      /\ x.do = "recv" => AtStep(calls, M, t, t[1], t[2], calls[t], M[t] + 1, RecvFrom(x.rank))
  BY <1>3, StepKind
<1>7. calls[t] \in Talks(t[1])
  BY <1>3 DEF AtStep
<1>8. id[t] # <<>> /\ Active(calls, pc, t)
  BY <1>1, LiveNamed
<1>9. event[t] = EventKey(id[t], t[1], calls[t])
  BY <1>1 DEF EventKnown
<1>10. GotAt(calls, M, got, t)
  BY <1>1, <1>2 DEF GotKnown
<1>11. QED
  BY <1>2, <1>4, <1>5, <1>6, <1>7, <1>8, <1>9, <1>10

LEMMA SendStep ==
  ASSUME CollectivesInv, NEW t \in Thread, SendAsyncInternal(t)
  PROVE  CollectivesInv'
<1>1. /\ Typed /\ Runs(calls, todo, pc) /\ Live(id, calls, pc)
      /\ Counted(calls, pc, counter, children, p2p) /\ EventKnown(id, calls, todo, event)
      /\ Ids(id, calls) /\ IdsAgree(id) /\ Acked(db, sent, acks)
      /\ DbSound(id, calls, Made(calls, todo, pc), db) /\ DbComplete(id, calls, Made(calls, todo, pc), db)
      /\ Causal(calls, Made(calls, todo, pc)) /\ BarrierKnown(calls, Made(calls, todo, pc))
      /\ GotKnown(pc, calls, Made(calls, todo, pc), got)
  BY DEF CollectivesInv
<1>2. /\ pc[t] = "step" /\ todo[t] # <<>> /\ Head(todo[t]).do = "send"
      /\ pc' = [pc EXCEPT ![t] = "throttle"]
      /\ id' = id /\ children' = children /\ calls' = calls /\ counter' = counter /\ p2p' = p2p
      /\ event' = event /\ todo' = todo /\ got' = got
  BY DEF SendAsyncInternal, ctxVars, makeVars
<1>3. PICK C, M, I, D, c, r, n, q, a, b :
        /\ C = calls /\ M = Made(calls, todo, pc) /\ I = id /\ D = db
        /\ c = t[1] /\ r = t[2] /\ n = calls[t] /\ q = Head(todo[t]).rank
        /\ a = PartyOf(t[1], t[2]) /\ b = PartyOf(t[1], Head(todo[t]).rank)
  OBVIOUS
<1>4. /\ c \in Ctx /\ r \in Rank(c) /\ t = <<c, r>> /\ n \in Talks(c) /\ q \in Rank(c)
      /\ AtStep(C, M, t, c, r, n, M[t] + 1, SendTo(q)) /\ I[t] # <<>> /\ Active(C, pc, t)
      /\ event[t] = EventKey(I[t], c, n) /\ GotAt(C, M, got, t)
  BY <1>2, <1>3, HereFacts
<1>5. a \in Party /\ b \in Party /\ a = PartyOf(c, r) /\ b = PartyOf(c, q)
  BY <1>3, <1>4, ContextsFacts
<1>6. Steady(C, M, pc)
  BY <1>1, <1>3, RunsSteady
<1>7. \A m \in D[a][b] : m.key # event[t]
  BY <1>1, <1>3, <1>4, <1>5, <1>6, SendFresh, ZenonT(60)
<1>8. Value(t, q) = Val(c, n, r, q)
  <2>1. Value(t, q) = ValueOf(c, n, r, got[t], q)
    BY <1>3 DEF Value, ValueOf, Current
  <2>2. ValueOf(c, n, r, got[t], q) = Val(c, n, r, q)
    BY <1>4, <1>6, ValueSent
  <2>3. QED
    BY <2>1, <2>2
<1>9. [key |-> event[t], val |-> Value(t, q)] = Msg(I[t], c, n, r, q)
  BY <1>4, <1>8 DEF Msg
<1>10. PICK m : m = Msg(I[t], c, n, r, q)
  OBVIOUS
<1>11. /\ db' = [db EXCEPT ![a][b] = @ \cup {m}] /\ acks' = acks
       /\ sent' = [sent EXCEPT ![a][b] = @ + 1] /\ wcount' = [wcount EXCEPT ![t] = sent[a][b] + 1]
       /\ m \notin D[a][b]
  <2>1. Store(a, b, event[t], Value(t, q))
    BY <1>3 DEF SendAsyncInternal
  <2>2. sent' = [sent EXCEPT ![a][b] = @ + 1] /\ wcount' = [wcount EXCEPT ![t] = sent[a][b] + 1]
    BY <1>3 DEF SendAsyncInternal
  <2>3. db' = [db EXCEPT ![a][b] = @ \cup {m}] /\ acks' = acks
    BY <1>3, <1>7, <1>9, <1>10, <2>1 DEF Store
  <2>4. m.key = event[t]
    BY <1>4, <1>10 DEF Msg
  <2>5. QED
    BY <1>7, <2>2, <2>3, <2>4
<1>12. Puts(D, db', a, b, m)
  BY <1>1, <1>3, <1>5, <1>11 DEF Typed, Puts
<1>13. Moves(pc, pc', t, "throttle") /\ Apart(C, pc, C, pc', t)
  <2>1. DOMAIN pc = Thread
    BY <1>1 DEF Runs
  <2>2. QED
    BY <1>2, <2>1 DEF Moves, Apart
<1>14. Runs(calls, todo, pc') /\ Makes(M, Made(calls, todo, pc'), t)
  BY <1>1, <1>2, <1>3, <1>13, RunsSend
<1>15. PICK F, E : F = Made(calls, todo, pc') /\ E = db'
  OBVIOUS
<1>16. Causal(C, F) /\ DbSound(I, C, F, E) /\ DbComplete(I, C, F, E)
  <2>1. Puts(D, E, PartyOf(c, r), PartyOf(c, q), Msg(I[t], c, n, r, q))
    BY <1>5, <1>10, <1>12, <1>15
  <2>2. Makes(M, F, t) /\ Causal(C, M) /\ DbSound(I, C, M, D) /\ DbComplete(I, C, M, D)
    BY <1>1, <1>3, <1>14, <1>15
  <2>3. PICK i : i = M[t] + 1
    OBVIOUS
  <2>4. AtStep(C, M, t, c, r, n, i, SendTo(q)) /\ q \in Rank(c)
    BY <1>4, <2>3
  <2>5. QED
    BY <1>6, <2>1, <2>2, <2>4, SendDb
<1>17. BarrierKnown(C, F)
  <2>1. \A p \in Rank(c) : SendTo(q) # RecvFrom(p)
    BY StepFacts
  <2>2. Makes(M, F, t) /\ BarrierKnown(C, M)
    BY <1>1, <1>3, <1>14, <1>15
  <2>3. QED
    BY <1>4, <1>6, <2>1, <2>2, BarrierStep
<1>18. GotKnown(pc', C, F, got)
  <2>1. Makes(M, F, t) /\ GotKnown(pc, C, M, got)
    BY <1>1, <1>3, <1>14, <1>15
  <2>2. GotAt(C, F, got, t)
    BY <1>4, <1>6, <2>1, GotSend
  <2>3. \A u \in Thread : u # t => pc'[u] = pc[u] /\ C[u] = C[u] /\ F[u] = M[u] /\ got[u] = got[u]
    <3>1. M \in [Thread -> Nat]
      BY <1>6 DEF Steady
    <3>2. QED
      BY <1>13, <2>1, <3>1 DEF Makes, Apart
  <2>4. QED
    BY <2>1, <2>2, <2>3, GotOthers
<1>19. Live(I, C, pc')
  BY <1>1, <1>3, <1>4, <1>13, LiveKept
<1>20. Counted(C, pc', counter, children, p2p)
  <2>1. CountedAt(C[t], counter[t], children[t], p2p[t], t)
    BY <1>1, <1>3, <1>4, CountedHere
  <2>2. QED
    BY <1>1, <1>3, <1>4, <1>13, <2>1, CountedKept
<1>21. Acked(db', sent', acks')
  <2> SUFFICES ASSUME NEW p \in Party, NEW s \in Party
               PROVE  IsFiniteSet(db'[p][s]) /\ sent'[p][s] = acks'[p][s] + Cardinality(db'[p][s])
    BY DEF Acked
  <2>1. IsFiniteSet(D[p][s]) /\ sent[p][s] = acks[p][s] + Cardinality(D[p][s])
    BY <1>1, <1>3 DEF Acked
  <2>2. sent[p][s] \in Nat /\ acks[p][s] \in Nat /\ Cardinality(D[p][s]) \in Nat
    BY <1>1, <2>1, FS_CardinalityType DEF Typed
  <2>3. CASE p = a /\ s = b
    <3>1. db'[p][s] = D[p][s] \cup {m} /\ m \notin D[p][s]
      BY <1>11, <1>12, <2>3 DEF Puts
    <3>2. IsFiniteSet(D[p][s] \cup {m}) /\ Cardinality(D[p][s] \cup {m}) = Cardinality(D[p][s]) + 1
      BY <2>1, <3>1, FS_AddElement
    <3>3. sent'[p][s] = sent[p][s] + 1
      <4>1. sent \in [Party -> [Party -> Nat]]
        BY <1>1 DEF Typed
      <4>2. QED
        BY <1>5, <1>11, <2>3, <4>1
    <3>4. acks'[p][s] = acks[p][s] /\ Cardinality(db'[p][s]) = Cardinality(D[p][s]) + 1
      BY <1>11, <3>1, <3>2
    <3>5. sent'[p][s] = acks'[p][s] + Cardinality(db'[p][s])
      BY <2>1, <2>2, <3>3, <3>4
    <3>6. QED
      BY <3>1, <3>2, <3>5
  <2>4. CASE ~(p = a /\ s = b)
    <3>1. db'[p][s] = D[p][s] /\ sent'[p][s] = sent[p][s]
      <4>1. db'[p][s] = D[p][s]
        BY <1>12, <2>4 DEF Puts
      <4>2. sent'[p][s] = sent[p][s]
        BY <1>1, <1>11, <2>4 DEF Typed
      <4>3. QED
        BY <4>1, <4>2
    <3>2. QED
      BY <1>11, <2>1, <3>1
  <2>5. QED
    BY <2>3, <2>4
<1>22. Typed'
  <2>1. sent' \in [Party -> [Party -> Nat]] /\ wcount' \in [Thread -> Nat]
    <3>1. sent \in [Party -> [Party -> Nat]] /\ wcount \in [Thread -> Nat]
      BY <1>1 DEF Typed
    <3>2. QED
      BY <1>5, <1>11, <3>1
  <2>2. DOMAIN db' = Party /\ \A p \in Party : DOMAIN db'[p] = Party
    BY <1>1, <1>5, <1>11 DEF Typed
  <2>3. QED
    BY <1>1, <1>2, <1>11, <2>1, <2>2 DEF Typed
<1>23. /\ calls' = C /\ id' = I /\ Made(calls', todo', pc') = F /\ db' = E
  BY <1>2, <1>3, <1>15
<1>24. QED
  BY <1>1, <1>2, <1>3, <1>14, <1>16, <1>17, <1>18, <1>19, <1>20, <1>21, <1>22, <1>23
  DEF CollectivesInv

LEMMA RecvStep ==
  ASSUME CollectivesInv, NEW t \in Thread, RecvInternal(t)
  PROVE  CollectivesInv'
<1>1. /\ Typed /\ Runs(calls, todo, pc) /\ Live(id, calls, pc)
      /\ Counted(calls, pc, counter, children, p2p) /\ EventKnown(id, calls, todo, event)
      /\ Ids(id, calls) /\ IdsAgree(id) /\ Acked(db, sent, acks)
      /\ DbSound(id, calls, Made(calls, todo, pc), db) /\ DbComplete(id, calls, Made(calls, todo, pc), db)
      /\ Causal(calls, Made(calls, todo, pc)) /\ BarrierKnown(calls, Made(calls, todo, pc))
      /\ GotKnown(pc, calls, Made(calls, todo, pc), got)
  BY DEF CollectivesInv
<1>2. /\ pc[t] = "step" /\ todo[t] # <<>> /\ Head(todo[t]).do = "recv"
      /\ todo' = [todo EXCEPT ![t] = Tail(@)]
      /\ id' = id /\ children' = children /\ calls' = calls /\ counter' = counter /\ p2p' = p2p
      /\ event' = event /\ pc' = pc /\ wcount' = wcount /\ sent' = sent
  BY DEF RecvInternal, ctxVars, makeVars
<1>3. PICK C, M, I, D, c, r, n, q, a, b :
        /\ C = calls /\ M = Made(calls, todo, pc) /\ I = id /\ D = db
        /\ c = t[1] /\ r = t[2] /\ n = calls[t] /\ q = Head(todo[t]).rank
        /\ a = PartyOf(t[1], Head(todo[t]).rank) /\ b = PartyOf(t[1], t[2])
  OBVIOUS
<1>4. /\ c \in Ctx /\ r \in Rank(c) /\ t = <<c, r>> /\ n \in Talks(c) /\ q \in Rank(c)
      /\ AtStep(C, M, t, c, r, n, M[t] + 1, RecvFrom(q)) /\ I[t] # <<>> /\ Active(C, pc, t)
      /\ event[t] = EventKey(I[t], c, n) /\ GotAt(C, M, got, t)
  BY <1>2, <1>3, HereFacts
<1>5. a \in Party /\ b \in Party /\ a = PartyOf(c, q) /\ b = PartyOf(c, r)
  BY <1>3, <1>4, ContextsFacts
<1>6. Steady(C, M, pc)
  BY <1>1, <1>3, RunsSteady, SMTT(30)
<1>7. PICK m \in D[a][b] :
        /\ m.key = event[t]
        /\ db' = [db EXCEPT ![a][b] = @ \ {m}]
        /\ acks' = [acks EXCEPT ![a][b] = @ + 1]
        /\ got' = [got EXCEPT ![t][Place(t, q)] = m.val]
  BY <1>3 DEF RecvInternal
<1>8. Takes(D, db', a, b, m)
  BY <1>1, <1>3, <1>5, <1>7 DEF Typed, Takes
<1>9. Moves(todo, todo', t, Tail(todo[t])) /\ Moves(pc, pc, t, "step")
  <2>1. DOMAIN todo = Thread
    BY <1>1 DEF Runs
  <2>2. QED
    BY <1>2, <2>1 DEF Moves
<1>10. Runs(calls, todo', pc) /\ Makes(M, Made(calls, todo', pc), t)
  <2>1. PICK P : P = pc
    OBVIOUS
  <2>2. Did(calls, todo, P, todo', P, t)
    BY <1>1, <1>2, <1>9, <2>1, RunsTail
  <2>3. QED
    BY <1>2, <1>3, <2>1, <2>2 DEF Did
<1>11. PICK F, E, i : F = Made(calls, todo', pc) /\ E = db' /\ i = M[t] + 1
  OBVIOUS
<1>12. AtStep(C, M, t, c, r, n, i, RecvFrom(q)) /\ Makes(M, F, t)
  BY <1>4, <1>10, <1>11
<1>13. /\ m.val = Val(c, n, q, r)
       /\ \E j : Ends(c, n, q, j, r, i) /\ Past(C, M, <<c, q>>, n, j)
       /\ Causal(C, F) /\ DbSound(I, C, F, E) /\ DbComplete(I, C, F, E)
  <2>1. Takes(D, E, PartyOf(c, q), PartyOf(c, r), m) /\ m \in D[PartyOf(c, q)][PartyOf(c, r)]
    BY <1>5, <1>7, <1>8, <1>11
  <2>2. m.key = EventKey(I[t], c, n) /\ I[t] # <<>> /\ q \in Rank(c)
    BY <1>4, <1>7
  <2>3. Causal(C, M) /\ DbSound(I, C, M, D) /\ DbComplete(I, C, M, D) /\ Live(I, C, pc) /\ IdsAgree(I)
    BY <1>1, <1>3
  <2>4. QED
    BY <1>6, <1>12, <2>1, <2>2, <2>3, RecvDb
<1>14. BarrierKnown(C, F)
  <2>1. BarrierKnown(C, M)
    BY <1>1, <1>3
  <2>2. \A p \in Rank(c) : RecvFrom(q) = RecvFrom(p) =>
          \E j : Ends(c, n, p, j, r, i) /\ Past(C, M, <<c, p>>, n, j)
    <3> SUFFICES ASSUME NEW p \in Rank(c), RecvFrom(q) = RecvFrom(p)
                 PROVE  \E j : Ends(c, n, p, j, r, i) /\ Past(C, M, <<c, p>>, n, j)
      OBVIOUS
    <3>1. p = q
      BY StepFacts
    <3>2. QED
      BY <1>13, <3>1
  <2>3. QED
    BY <1>6, <1>12, <2>1, <2>2, BarrierStep
<1>15. Place(t, q) = PlaceOf(c, n, q)
  BY <1>3 DEF Place, PlaceOf, Current
<1>16. PlaceOf(c, n, q) \in Rank(c)
  <2>1. Program[c][n].root \in Rank(c)
    BY <1>4, CallFacts DEF Talks
  <2>2. QED
    BY <1>4, <2>1 DEF PlaceOf
<1>17. /\ \A s \in Rank(c) : got'[t][s] = IF s = PlaceOf(c, n, q) THEN m.val ELSE got[t][s]
       /\ \A u \in Thread : u # t => got'[u] = got[u]
       /\ DOMAIN got' = Thread /\ \A u \in Thread : DOMAIN got'[u] = Rank(u[1])
  <2>1. DOMAIN got = Thread /\ (\A u \in Thread : DOMAIN got[u] = Rank(u[1])) /\ t[1] = c
    BY <1>1, <1>3 DEF Typed
  <2>2. PICK x : x = PlaceOf(c, n, q) /\ x \in Rank(c)
    BY <1>16
  <2>3. got' = [got EXCEPT ![t] = [got[t] EXCEPT ![x] = m.val]]
    BY <1>7, <1>15, <2>2
  <2>4. got'[t] = [got[t] EXCEPT ![x] = m.val] /\ (\A u \in Thread : u # t => got'[u] = got[u])
        /\ DOMAIN got' = Thread
    BY <2>1, <2>3
  <2>5. \A s \in Rank(c) : got'[t][s] = IF s = x THEN m.val ELSE got[t][s]
    BY <2>1, <2>4
  <2>6. \A u \in Thread : DOMAIN got'[u] = Rank(u[1])
    BY <2>1, <2>4
  <2>7. QED
    BY <2>2, <2>4, <2>5, <2>6
<1>18. GotKnown(pc, C, F, got')
  <2>1. PICK H : H = got'
    OBVIOUS
  <2>2. \A s \in Rank(c) : H[t][s] = IF s = PlaceOf(c, n, q) THEN Val(c, n, q, r) ELSE got[t][s]
    BY <1>13, <1>17, <2>1
  <2>3. GotAt(C, F, H, t)
    BY <1>4, <1>6, <1>12, <2>2, GotRecv
  <2>4. \A u \in Thread : u # t => pc[u] = pc[u] /\ C[u] = C[u] /\ F[u] = M[u] /\ H[u] = got[u]
    <3>1. M \in [Thread -> Nat]
      BY <1>6 DEF Steady
    <3>2. QED
      BY <1>12, <1>17, <2>1, <3>1 DEF Makes
  <2>5. GotKnown(pc, C, M, got)
    BY <1>1, <1>3
  <2>6. GotKnown(pc, C, F, H)
    BY <2>3, <2>4, <2>5, GotOthers
  <2>7. QED
    BY <2>1, <2>6
<1>19. EventKnown(I, C, todo', event)
  <2>1. \A u \in Thread : todo'[u] # <<>> => todo[u] # <<>>
    <3>1. DOMAIN todo = Thread
      BY <1>1 DEF Runs
    <3>2. QED
      BY <1>2, <3>1
  <2>2. QED
    BY <1>1, <1>3, <2>1 DEF EventKnown
<1>20. Acked(db', sent', acks')
  <2> SUFFICES ASSUME NEW p \in Party, NEW s \in Party
               PROVE  IsFiniteSet(db'[p][s]) /\ sent'[p][s] = acks'[p][s] + Cardinality(db'[p][s])
    BY DEF Acked
  <2>1. IsFiniteSet(D[p][s]) /\ sent[p][s] = acks[p][s] + Cardinality(D[p][s])
    BY <1>1, <1>3 DEF Acked
  <2>2. sent[p][s] \in Nat /\ acks[p][s] \in Nat /\ Cardinality(D[p][s]) \in Nat
    BY <1>1, <2>1, FS_CardinalityType DEF Typed
  <2>3. acks \in [Party -> [Party -> Nat]]
    BY <1>1 DEF Typed
  <2>4. CASE p = a /\ s = b
    <3>1. db'[p][s] = D[p][s] \ {m} /\ m \in D[p][s]
      BY <1>7, <1>8, <2>4 DEF Takes
    <3>2. IsFiniteSet(D[p][s] \ {m}) /\ Cardinality(D[p][s] \ {m}) = Cardinality(D[p][s]) - 1
      BY <2>1, <3>1, FS_RemoveElement
    <3>3. acks'[p][s] = acks[p][s] + 1
      BY <1>5, <1>7, <2>3, <2>4
    <3>4. sent'[p][s] = sent[p][s] /\ Cardinality(db'[p][s]) = Cardinality(D[p][s]) - 1
      BY <1>2, <3>1, <3>2
    <3>5. sent'[p][s] = acks'[p][s] + Cardinality(db'[p][s])
      BY <2>1, <2>2, <3>3, <3>4
    <3>6. QED
      BY <3>1, <3>2, <3>5
  <2>5. CASE ~(p = a /\ s = b)
    <3>1. db'[p][s] = D[p][s]
      BY <1>8, <2>5 DEF Takes
    <3>2. acks'[p][s] = acks[p][s]
      BY <1>5, <1>7, <2>3, <2>5
    <3>3. QED
      BY <1>2, <2>1, <3>1, <3>2
  <2>6. QED
    BY <2>4, <2>5
<1>21. Typed'
  <2>1. acks' \in [Party -> [Party -> Nat]]
    <3>1. acks \in [Party -> [Party -> Nat]]
      BY <1>1 DEF Typed
    <3>2. QED
      BY <1>5, <1>7, <3>1
  <2>2. DOMAIN db' = Party /\ \A p \in Party : DOMAIN db'[p] = Party
    BY <1>1, <1>5, <1>7 DEF Typed
  <2>3. QED
    BY <1>1, <1>2, <1>17, <2>1, <2>2 DEF Typed
<1>22. calls' = C /\ id' = I /\ Made(calls', todo', pc') = F /\ db' = E /\ Runs(calls', todo', pc')
  BY <1>2, <1>3, <1>10, <1>11
<1>23. QED
  BY <1>1, <1>2, <1>3, <1>13, <1>14, <1>18, <1>19, <1>20, <1>21, <1>22
  DEF CollectivesInv

LEMMA RunWaits ==
  ASSUME NEW k, NEW x, NEW p, NEW t, RunAt(k, x, p, t)
  PROVE  (p = "idle" => x = <<>>) /\ (p = "throttle" => x # <<>>)
  BY DEF RunAt

LEMMA WaitStep ==
  ASSUME CollectivesInv, NEW t \in Thread, ThrottleWindowWait(t)
  PROVE  CollectivesInv'
<1>1. /\ Typed /\ Runs(calls, todo, pc) /\ Live(id, calls, pc)
      /\ Counted(calls, pc, counter, children, p2p) /\ EventKnown(id, calls, todo, event)
      /\ Ids(id, calls) /\ IdsAgree(id) /\ Acked(db, sent, acks)
      /\ DbSound(id, calls, Made(calls, todo, pc), db) /\ DbComplete(id, calls, Made(calls, todo, pc), db)
      /\ Causal(calls, Made(calls, todo, pc)) /\ BarrierKnown(calls, Made(calls, todo, pc))
      /\ GotKnown(pc, calls, Made(calls, todo, pc), got)
  BY DEF CollectivesInv
<1>2. /\ pc[t] = "throttle" /\ todo' = [todo EXCEPT ![t] = Tail(@)] /\ pc' = [pc EXCEPT ![t] = "step"]
      /\ id' = id /\ children' = children /\ calls' = calls /\ counter' = counter /\ p2p' = p2p
      /\ event' = event /\ wcount' = wcount /\ got' = got /\ db' = db /\ sent' = sent /\ acks' = acks
  BY DEF ThrottleWindowWait, ctxVars, makeVars, chanVars
<1>3. PICK C, I : C = calls /\ I = id
  OBVIOUS
<1>4. todo[t] # <<>> /\ DOMAIN todo = Thread /\ DOMAIN pc = Thread
  <2>1. RunAt(calls[t], todo[t], pc[t], t) /\ DOMAIN todo = Thread /\ DOMAIN pc = Thread
    BY <1>1 DEF Runs
  <2>2. QED
    BY <1>2, <2>1, RunWaits
<1>5. Moves(todo, todo', t, Tail(todo[t])) /\ Moves(pc, pc', t, "step") /\ Apart(C, pc, C, pc', t)
  BY <1>2, <1>4 DEF Moves, Apart
<1>6. Runs(calls, todo', pc') /\ Made(calls, todo', pc') = Made(calls, todo, pc)
  <2>1. pc[t] # "idle"
    BY <1>2
  <2>2. PICK T, U, P, Q : T = todo /\ U = todo' /\ P = pc /\ Q = pc'
    OBVIOUS
  <2>3. /\ Runs(C, T, P) /\ P[t] # "idle" /\ T[t] # <<>>
        /\ Moves(T, U, t, Tail(T[t])) /\ Moves(P, Q, t, "step")
    BY <1>1, <1>3, <1>4, <1>5, <2>1, <2>2
  <2>4. Did(C, T, P, U, Q, t)
    BY <2>3, RunsTail
  <2>5. QED
    BY <1>2, <1>3, <2>2, <2>4 DEF Did
<1>7. I[t] # <<>> /\ Active(C, pc, t)
  BY <1>1, <1>2, <1>3, LiveNamed
<1>8. Live(I, C, pc')
  BY <1>1, <1>3, <1>5, <1>7, LiveKept
<1>9. Counted(C, pc', counter, children, p2p)
  <2>1. CountedAt(C[t], counter[t], children[t], p2p[t], t)
    BY <1>1, <1>3, <1>7, CountedHere
  <2>2. QED
    BY <1>1, <1>3, <1>5, <1>7, <2>1, CountedKept
<1>10. EventKnown(I, C, todo', event)
  <2>1. \A u \in Thread : todo'[u] # <<>> => todo[u] # <<>>
    BY <1>2, <1>4
  <2>2. QED
    BY <1>1, <1>3, <2>1 DEF EventKnown
<1>11. GotKnown(pc', calls, Made(calls, todo, pc), got)
  <2>1. \A u \in Thread : pc'[u] # "idle" => pc[u] # "idle"
    BY <1>2, <1>4
  <2>2. QED
    BY <1>1, <2>1 DEF GotKnown
<1>12. Typed'
  BY <1>1, <1>2 DEF Typed
<1>13. QED
  BY <1>1, <1>2, <1>3, <1>6, <1>8, <1>9, <1>10, <1>11, <1>12 DEF CollectivesInv

LEMMA ReturnStep ==
  ASSUME CollectivesInv, NEW t \in Thread, Return(t)
  PROVE  CollectivesInv'
<1>1. /\ Typed /\ Runs(calls, todo, pc) /\ Live(id, calls, pc)
      /\ Counted(calls, pc, counter, children, p2p) /\ EventKnown(id, calls, todo, event)
      /\ Ids(id, calls) /\ IdsAgree(id) /\ Acked(db, sent, acks)
      /\ DbSound(id, calls, Made(calls, todo, pc), db) /\ DbComplete(id, calls, Made(calls, todo, pc), db)
      /\ Causal(calls, Made(calls, todo, pc)) /\ BarrierKnown(calls, Made(calls, todo, pc))
      /\ GotKnown(pc, calls, Made(calls, todo, pc), got)
  BY DEF CollectivesInv
<1>2. /\ pc[t] = "step" /\ todo[t] = <<>> /\ pc' = [pc EXCEPT ![t] = "idle"]
      /\ id' = id /\ children' = children /\ calls' = calls /\ counter' = counter /\ p2p' = p2p
      /\ event' = event /\ todo' = todo /\ wcount' = wcount /\ got' = got
      /\ db' = db /\ sent' = sent /\ acks' = acks
  BY DEF Return, Returning, ctxVars, makeVars, chanVars
<1>3. PICK C, I : C = calls /\ I = id
  OBVIOUS
<1>4. DOMAIN pc = Thread
  BY <1>1 DEF Runs
<1>5. Moves(pc, pc', t, "idle") /\ Apart(C, pc, C, pc', t)
  BY <1>2, <1>4 DEF Moves, Apart
<1>6. Runs(calls, todo, pc') /\ Made(calls, todo, pc') = Made(calls, todo, pc)
  BY <1>1, <1>2, <1>5, RunsReturn
<1>7. I[t] # <<>> /\ Active(C, pc, t)
  BY <1>1, <1>2, <1>3, LiveNamed
<1>8. Live(I, C, pc')
  BY <1>1, <1>3, <1>5, <1>7, LiveKept
<1>9. Counted(C, pc', counter, children, p2p)
  <2>1. CountedAt(C[t], counter[t], children[t], p2p[t], t)
    BY <1>1, <1>3, <1>7, CountedHere
  <2>2. QED
    BY <1>1, <1>3, <1>5, <1>7, <2>1, CountedKept
<1>10. GotKnown(pc', calls, Made(calls, todo, pc), got)
  <2>1. \A u \in Thread : pc'[u] # "idle" => pc[u] # "idle"
    BY <1>2, <1>4
  <2>2. QED
    BY <1>1, <2>1 DEF GotKnown
<1>11. Typed'
  BY <1>1, <1>2 DEF Typed
<1>12. QED
  BY <1>1, <1>2, <1>3, <1>6, <1>8, <1>9, <1>10, <1>11 DEF CollectivesInv

LEMMA CreateStep ==
  ASSUME CollectivesInv, NEW t \in Thread, CreateContext(t)
  PROVE  CollectivesInv'
<1>1. /\ Typed /\ Runs(calls, todo, pc) /\ Live(id, calls, pc)
      /\ Counted(calls, pc, counter, children, p2p) /\ EventKnown(id, calls, todo, event)
      /\ Ids(id, calls) /\ IdsAgree(id) /\ Acked(db, sent, acks)
      /\ DbSound(id, calls, Made(calls, todo, pc), db) /\ DbComplete(id, calls, Made(calls, todo, pc), db)
      /\ Causal(calls, Made(calls, todo, pc)) /\ BarrierKnown(calls, Made(calls, todo, pc))
      /\ GotKnown(pc, calls, Made(calls, todo, pc), got)
  BY DEF CollectivesInv
<1>2. /\ id[t] = <<>> /\ t[1] \notin Spawned /\ id' = [id EXCEPT ![t] = <<t[1]>>]
      /\ children' = children /\ calls' = calls /\ counter' = counter /\ p2p' = p2p
      /\ event' = event /\ todo' = todo /\ pc' = pc /\ wcount' = wcount /\ got' = got
      /\ db' = db /\ sent' = sent /\ acks' = acks
  BY DEF CreateContext, chanVars
<1>3. PICK I, J, C, M : I = id /\ J = id' /\ C = calls /\ M = Made(calls, todo, pc)
  OBVIOUS
<1>4. Named(I, J, t, <<t[1]>>) /\ IdTypes(I)
  BY <1>1, <1>2, <1>3 DEF Named, Typed
<1>5. IdTypes(J) /\ Ids(J, C) /\ IdsAgree(J) /\ \A u \in Thread : I[u] # <<>> => J[u] = I[u]
  BY <1>1, <1>2, <1>3, <1>4, IdsCreated
<1>6. Steady(C, M, pc) /\ SamePast(C, M, C, M)
  BY <1>1, <1>3, RunsSteady DEF SamePast
<1>7. DbSound(J, C, M, db) /\ DbComplete(J, C, M, db)
  BY <1>1, <1>3, <1>5, <1>6, SameMessages
<1>8. Live(J, C, pc)
  BY <1>1, <1>3, <1>5 DEF Live
<1>9. EventKnown(J, C, todo, event)
  <2> SUFFICES ASSUME NEW u \in Thread, todo[u] # <<>>
               PROVE  event[u] = EventKey(J[u], u[1], C[u])
    BY DEF EventKnown
  <2>1. pc[u] # "idle"
    BY <1>1, RunWaits DEF Runs
  <2>2. J[u] = I[u]
    BY <1>1, <1>3, <1>5, <2>1, LiveNamed
  <2>3. QED
    BY <1>1, <1>3, <2>2 DEF EventKnown
<1>10. Typed'
  BY <1>1, <1>2, <1>3, <1>5 DEF Typed
<1>11. QED
  BY <1>1, <1>2, <1>3, <1>5, <1>7, <1>8, <1>9, <1>10 DEF CollectivesInv

\* What holds after t has begun its next call, with id' at the ids that were
\* there, and y and p for the steps of it.
LEMMA CallStep ==
  ASSUME CollectivesInv, NEW t \in Thread, NEW y, NEW p,
         pc[t] = "idle", id[t] # <<>>, calls[t] < Len(Program[t[1]]),
         calls' = [calls EXCEPT ![t] = @ + 1], Moves(todo, todo', t, y), Moves(pc, pc', t, p),
         Enters(t, calls[t] + 1, y, p),
         \A u \in Thread : id[u] # <<>> => id'[u] = id[u]
  PROVE  LET M == Made(calls, todo, pc)
             F == Made(calls', todo', pc')
         IN  /\ Runs(calls', todo', pc') /\ Live(id', calls', pc')
             /\ DbSound(id', calls', F, db) /\ DbComplete(id', calls', F, db)
             /\ Causal(calls', F) /\ BarrierKnown(calls', F)
             /\ Active(calls, pc, t) /\ Apart(calls, pc, calls', pc', t)
             /\ calls'[t] = calls[t] + 1 /\ calls'[t] \in DOMAIN Program[t[1]]
             /\ \A u \in Thread : calls[u] \in Nat /\ calls'[u] \in Nat /\ calls'[u] >= calls[u]
             /\ \A u \in Thread : u # t => F[u] = M[u]
             /\ F[t] = 0
             /\ CountedAt(calls[t], counter[t], children[t], p2p[t], t)
             /\ t[1] \in Ctx /\ t[2] \in Rank(t[1]) /\ t = <<t[1], t[2]>>
<1>1. /\ Typed /\ Runs(calls, todo, pc) /\ Live(id, calls, pc)
      /\ Counted(calls, pc, counter, children, p2p) /\ EventKnown(id, calls, todo, event)
      /\ Ids(id, calls) /\ IdsAgree(id) /\ Acked(db, sent, acks)
      /\ DbSound(id, calls, Made(calls, todo, pc), db) /\ DbComplete(id, calls, Made(calls, todo, pc), db)
      /\ Causal(calls, Made(calls, todo, pc)) /\ BarrierKnown(calls, Made(calls, todo, pc))
      /\ GotKnown(pc, calls, Made(calls, todo, pc), got)
  BY DEF CollectivesInv
<1>2. PICK C, T, P, I, E, U, Q, J, M, F :
        /\ C = calls /\ T = todo /\ P = pc /\ I = id /\ M = Made(calls, todo, pc)
        /\ E = calls' /\ U = todo' /\ Q = pc' /\ J = id' /\ F = Made(calls', todo', pc')
  OBVIOUS
<1>3. /\ Runs(C, T, P) /\ P[t] = "idle" /\ C[t] < Len(Program[t[1]]) /\ E = [C EXCEPT ![t] = @ + 1]
      /\ Moves(T, U, t, y) /\ Moves(P, Q, t, p) /\ M = Made(C, T, P) /\ F = Made(E, U, Q)
      /\ Live(I, C, P) /\ DbSound(I, C, M, db) /\ DbComplete(I, C, M, db) /\ Causal(C, M) /\ BarrierKnown(C, M)
      /\ I[t] # <<>> /\ (\A u \in Thread : I[u] # <<>> => J[u] = I[u])
      /\ Counted(C, P, counter, children, p2p)
  BY <1>1, <1>2
<1>4. E[t] = C[t] + 1 /\ C[t] \in Nat
  BY <1>3 DEF Runs
<1>5. Enters(t, E[t], y, p) /\ Makes(C, E, t)
  BY <1>2, <1>3, <1>4 DEF Makes
<1>6. /\ Runs(E, U, Q) /\ SamePast(C, M, E, F) /\ E[t] \in DOMAIN Program[t[1]]
      /\ (\A u \in Thread : u # t => E[u] = C[u] /\ F[u] = M[u])
      /\ (\A u \in Thread : C[u] \in Nat /\ E[u] \in Nat /\ E[u] >= C[u])
      /\ F[t] = 0
  <2>1. Began(C, T, P, E, U, Q, t)
    BY <1>3, <1>5, RunsBegin
  <2>2. QED
    BY <1>3, <2>1 DEF Began
<1>7. Steady(C, M, P)
  BY <1>3, RunsSteady
<1>8. t[1] \in Ctx /\ t[2] \in Rank(t[1]) /\ t = <<t[1], t[2]>> /\ Len(Program[t[1]]) \in Nat
  BY ThreadFacts, ContextsFacts
<1>9. Active(C, P, t) /\ Apart(C, P, E, Q, t)
  <2>1. C[t] # Len(Program[t[1]])
    BY <1>3, <1>4, <1>8
  <2>2. \A u \in Thread : u # t => Q[u] = P[u]
    BY <1>3 DEF Moves
  <2>3. QED
    BY <1>6, <2>1, <2>2 DEF Active, Apart
<1>10. DbSound(J, E, F, db) /\ DbComplete(J, E, F, db) /\ Causal(E, F)
  BY <1>3, <1>6, <1>7, SameMessages
<1>11. BarrierKnown(E, F)
  BY <1>3, <1>6, <1>7, BarrierBegin
<1>12. Live(J, E, Q)
  BY <1>3, <1>9, LiveKept
<1>13. CountedAt(C[t], counter[t], children[t], p2p[t], t)
  BY <1>3, <1>9, CountedHere
<1>14. QED
  BY <1>2, <1>4, <1>6, <1>8, <1>9, <1>10, <1>11, <1>12, <1>13

\* Other threads than t have what they had.
Kept(X, Y, t) == \A u \in Thread : u # t => Y[u] = X[u]

\* The counters after the next call of t, the (k + 1)-th.
Counts(t, k, a, b, v, e, f, w) ==
  /\ e = a + (IF k + 1 \in Collective(t[1]) THEN 1 ELSE 0)
  /\ f = b + (IF k + 1 \in Spawns(t[1]) THEN 1 ELSE 0)
  /\ \A q \in Rank(t[1]) :
       /\ w[<<t[2], q>>] = v[<<t[2], q>>] + (IF k + 1 \in P2Ps(t[1], t[2], q) THEN 1 ELSE 0)
       /\ w[<<q, t[2]>>] = v[<<q, t[2]>>] + (IF k + 1 \in P2Ps(t[1], q, t[2]) THEN 1 ELSE 0)

LEMMA CountedStep ==
  ASSUME NEW C, NEW P, NEW A, NEW B, NEW V, NEW E, NEW Q, NEW K, NEW L, NEW W, NEW t,
         Counted(C, P, A, B, V), Active(C, P, t), Apart(C, P, E, Q, t),
         Kept(A, K, t), Kept(B, L, t), Kept(V, W, t), C[t] \in Nat, E[t] = C[t] + 1,
         Counts(t, C[t], A[t], B[t], V[t], K[t], L[t], W[t])
  PROVE  Counted(E, Q, K, L, W)
<1>1. t \in Thread
  BY DEF Active
<1>2. PICK k, a, b, v, e, f, w :
        k = C[t] /\ a = A[t] /\ b = B[t] /\ v = V[t] /\ e = K[t] /\ f = L[t] /\ w = W[t]
  OBVIOUS
<1>3. CountedAt(k, a, b, v, t) /\ k \in Nat /\ Counts(t, k, a, b, v, e, f, w)
  BY <1>2, CountedHere
<1>4. CountedAt(k + 1, e, f, w, t)
  BY <1>1, <1>3, CountedNext DEF Counts
<1>5. CountedAt(E[t], K[t], L[t], W[t], t)
  BY <1>2, <1>4
<1>6. \A u \in Thread : u # t => K[u] = A[u] /\ L[u] = B[u] /\ W[u] = V[u]
  BY DEF Kept
<1>7. QED
  BY <1>5, <1>6, CountedKept

LEMMA EventStep ==
  ASSUME NEW I, NEW J, NEW C, NEW P, NEW T, NEW V, NEW E, NEW Q, NEW U, NEW W, NEW t,
         EventKnown(I, C, T, V), Apart(C, P, E, Q, t), Runs(C, T, P), Live(I, C, P),
         \A u \in Thread : I[u] # <<>> => J[u] = I[u], Kept(T, U, t), Kept(V, W, t),
         U[t] # <<>> => W[t] = EventKey(J[t], t[1], E[t])
  PROVE  EventKnown(J, E, U, W)
<1>1. \A u \in Thread : u # t => U[u] = T[u] /\ W[u] = V[u]
  BY DEF Kept
<1>2. QED
  BY <1>1, EventKept

LEMMA GotStep ==
  ASSUME NEW P, NEW C, NEW M, NEW G, NEW Q, NEW E, NEW F, NEW H, NEW t, GotKnown(P, C, M, G),
         Apart(C, P, E, Q, t), Kept(M, F, t), Kept(G, H, t), Q[t] # "idle" => GotAt(E, F, H, t)
  PROVE  GotKnown(Q, E, F, H)
<1>1. \A u \in Thread : u # t => Q[u] = P[u] /\ E[u] = C[u] /\ F[u] = M[u] /\ H[u] = G[u]
  BY DEF Kept, Apart
<1> SUFFICES ASSUME NEW u \in Thread, Q[u] # "idle" PROVE GotAt(E, F, H, u)
  BY DEF GotKnown
<1>2. CASE u = t
  BY <1>2
<1>3. CASE u # t
  <2>1. GotAt(C, M, G, u)
    BY <1>1, <1>3 DEF GotKnown
  <2>2. QED
    BY <1>1, <1>3, <2>1 DEF GotAt
<1>4. QED
  BY <1>2, <1>3

\* A call of Spawn or SubWorld, given what it does to the ids.
LEMMA MakingStep ==
  ASSUME CollectivesInv, NEW t \in Thread, pc[t] = "idle", id[t] # <<>>, calls[t] < Len(Program[t[1]]),
         Program[t[1]][calls[t] + 1].op \in Creation, calls' = [calls EXCEPT ![t] = @ + 1],
         children' \in [Thread -> Nat], \A u \in Thread : u # t => children'[u] = children[u],
         children'[t] = children[t] + (IF calls[t] + 1 \in Spawns(t[1]) THEN 1 ELSE 0),
         IdTypes(id'), Ids(id', calls'), IdsAgree(id'), \A u \in Thread : id[u] # <<>> => id'[u] = id[u],
         UNCHANGED <<counter, p2p, event, todo, pc, wcount, got, chanVars>>
  PROVE  CollectivesInv'
<1>1. /\ Typed /\ Runs(calls, todo, pc) /\ Live(id, calls, pc)
      /\ Counted(calls, pc, counter, children, p2p) /\ EventKnown(id, calls, todo, event)
      /\ Ids(id, calls) /\ IdsAgree(id) /\ Acked(db, sent, acks)
      /\ DbSound(id, calls, Made(calls, todo, pc), db) /\ DbComplete(id, calls, Made(calls, todo, pc), db)
      /\ Causal(calls, Made(calls, todo, pc)) /\ BarrierKnown(calls, Made(calls, todo, pc))
      /\ GotKnown(pc, calls, Made(calls, todo, pc), got)
  BY DEF CollectivesInv
<1>2. /\ counter' = counter /\ p2p' = p2p /\ event' = event /\ todo' = todo /\ pc' = pc
      /\ wcount' = wcount /\ got' = got /\ db' = db /\ sent' = sent /\ acks' = acks
  BY DEF chanVars
<1>3. todo[t] = <<>>
  BY <1>1, RunWaits DEF Runs
<1>4. calls[t] + 1 \notin Talks(t[1]) /\ calls[t] + 1 \notin Collective(t[1])
      /\ \A a, b : calls[t] + 1 \notin P2Ps(t[1], a, b)
  BY DEF Talks, Collective, P2Ps
<1>5. PICK y, p : y = <<>> /\ p = "idle"
  OBVIOUS
<1>6. Moves(todo, todo', t, y) /\ Moves(pc, pc', t, p) /\ Enters(t, calls[t] + 1, y, p)
  BY <1>2, <1>3, <1>4, <1>5 DEF Moves, Enters
<1>7. PICK F : F = Made(calls', todo', pc')
  OBVIOUS
<1>8. /\ Runs(calls', todo', pc') /\ Live(id', calls', pc')
      /\ DbSound(id', calls', F, db) /\ DbComplete(id', calls', F, db)
      /\ Causal(calls', F) /\ BarrierKnown(calls', F)
      /\ Active(calls, pc, t) /\ Apart(calls, pc, calls', pc', t)
      /\ calls'[t] = calls[t] + 1
      /\ (\A u \in Thread : calls[u] \in Nat /\ calls'[u] \in Nat /\ calls'[u] >= calls[u])
      /\ (\A u \in Thread : u # t => F[u] = Made(calls, todo, pc)[u])
      /\ CountedAt(calls[t], counter[t], children[t], p2p[t], t)
      /\ t[1] \in Ctx /\ t[2] \in Rank(t[1])
  BY <1>6, <1>7, CallStep
<1>9. \A q \in Rank(t[1]) : p2p[t][<<t[2], q>>] \in Nat /\ p2p[t][<<q, t[2]>>] \in Nat
  <2>1. p2p[t] \in [Rank(t[1]) \X Rank(t[1]) -> Nat]
    BY <1>1 DEF Typed
  <2>2. QED
    BY <1>8, <2>1
<1>10. PICK C, P, A, B, V, E, Q, K, L, W :
         /\ C = calls /\ P = pc /\ A = counter /\ B = children /\ V = p2p
         /\ E = calls' /\ Q = pc' /\ K = counter' /\ L = children' /\ W = p2p'
  OBVIOUS
<1>11. Counted(calls', pc', counter', children', p2p')
  <2>1. Kept(A, K, t) /\ Kept(B, L, t) /\ Kept(V, W, t)
    BY <1>2, <1>10 DEF Kept
  <2>2. A[t] \in Nat /\ B[t] \in Nat /\ K[t] = A[t] /\ W[t] = V[t] /\ C[t] \in Nat /\ E[t] = C[t] + 1
    BY <1>1, <1>2, <1>8, <1>10 DEF Typed
  <2>3. Counts(t, C[t], A[t], B[t], V[t], K[t], L[t], W[t])
    <3>1. K[t] = A[t] + (IF C[t] + 1 \in Collective(t[1]) THEN 1 ELSE 0)
      BY <1>4, <1>10, <2>2
    <3>2. L[t] = B[t] + (IF C[t] + 1 \in Spawns(t[1]) THEN 1 ELSE 0)
      BY <1>10
    <3>3. \A q \in Rank(t[1]) :
            /\ W[t][<<t[2], q>>] = V[t][<<t[2], q>>] + (IF C[t] + 1 \in P2Ps(t[1], t[2], q) THEN 1 ELSE 0)
            /\ W[t][<<q, t[2]>>] = V[t][<<q, t[2]>>] + (IF C[t] + 1 \in P2Ps(t[1], q, t[2]) THEN 1 ELSE 0)
      BY <1>4, <1>9, <1>10, <2>2
    <3>4. QED
      BY <3>1, <3>2, <3>3 DEF Counts
  <2>4. Counted(C, P, A, B, V) /\ Active(C, P, t) /\ Apart(C, P, E, Q, t)
    BY <1>1, <1>8, <1>10
  <2>5. Counted(E, Q, K, L, W)
    BY <2>1, <2>2, <2>3, <2>4, CountedStep
  <2>6. QED
    BY <1>10, <2>5
<1>12. EventKnown(id', calls', todo', event') /\ GotKnown(pc', calls', F, got)
  <2>1. PICK I, J, T, X, M : I = id /\ J = id' /\ T = todo /\ X = event /\ M = Made(calls, todo, pc)
    OBVIOUS
  <2>2. /\ EventKnown(I, C, T, X) /\ Runs(C, T, P) /\ Live(I, C, P) /\ Apart(C, P, E, Q, t)
        /\ GotKnown(P, C, M, got) /\ T[t] = <<>> /\ Q[t] = "idle"
        /\ \A u \in Thread : I[u] # <<>> => J[u] = I[u]
    BY <1>1, <1>2, <1>3, <1>8, <1>10, <2>1
  <2>3. Kept(T, T, t) /\ Kept(X, X, t) /\ Kept(got, got, t) /\ Kept(M, F, t)
    BY <1>8, <2>1 DEF Kept
  <2>4. EventKnown(J, E, T, X)
    BY <2>2, <2>3, EventStep
  <2>5. GotKnown(Q, E, F, got)
    BY <2>2, <2>3, GotStep
  <2>6. QED
    BY <1>2, <1>10, <2>1, <2>4, <2>5
<1>13. Typed'
  <2>1. \A u \in Thread : counter'[u] <= calls'[u]
    <3> SUFFICES ASSUME NEW u \in Thread PROVE counter'[u] <= calls'[u]
      OBVIOUS
    <3>1. counter[u] \in Nat /\ counter[u] <= calls[u] /\ counter'[u] = counter[u]
      BY <1>1, <1>2 DEF Typed
    <3>2. QED
      BY <1>8, <3>1
  <2>2. QED
    BY <1>1, <1>2, <2>1 DEF Typed
<1>14. QED
  BY <1>1, <1>2, <1>7, <1>8, <1>11, <1>12, <1>13 DEF CollectivesInv

LEMMA SpawnStep ==
  ASSUME CollectivesInv, NEW t \in Thread, Spawn(t)
  PROVE  CollectivesInv'
<1>1. /\ Typed /\ Runs(calls, todo, pc) /\ Live(id, calls, pc)
      /\ Counted(calls, pc, counter, children, p2p) /\ EventKnown(id, calls, todo, event)
      /\ Ids(id, calls) /\ IdsAgree(id) /\ Acked(db, sent, acks)
      /\ DbSound(id, calls, Made(calls, todo, pc), db) /\ DbComplete(id, calls, Made(calls, todo, pc), db)
      /\ Causal(calls, Made(calls, todo, pc)) /\ BarrierKnown(calls, Made(calls, todo, pc))
      /\ GotKnown(pc, calls, Made(calls, todo, pc), got)
  BY DEF CollectivesInv
<1>2. PICK c, r, n, d, w :
        /\ c = t[1] /\ r = t[2] /\ n = calls[t] + 1 /\ d = Program[t[1]][calls[t] + 1].child
        /\ w = <<d, r>>
  OBVIOUS
<1>3. /\ pc[t] = "idle" /\ id[t] # <<>> /\ calls[t] < Len(Program[t[1]])
      /\ Program[t[1]][calls[t] + 1].op = "spawn" /\ calls' = [calls EXCEPT ![t] = @ + 1]
      /\ id' = [id EXCEPT ![w] = SpawnId(t)]
      /\ children' = [children EXCEPT ![t] = @ + 1]
      /\ UNCHANGED <<counter, p2p, event, todo, pc, wcount, got, chanVars>>
  BY <1>2 DEF Spawn, Calls
<1>4. c \in Ctx /\ r \in Rank(c) /\ t = <<c, r>>
  BY <1>2, ThreadFacts
<1>5. calls \in [Thread -> Nat] /\ calls[t] \in Nat
  BY <1>1 DEF Runs
<1>6. n \in DOMAIN Program[c] /\ n \in Making(c) /\ n \in Spawns(c) /\ Program[c][n].op = "spawn" /\ n \in Nat
  <2>1. n \in DOMAIN Program[c] /\ Program[c][n].op = "spawn" /\ n \in Nat
    BY <1>2, <1>3, <1>4, <1>5, ContextsFacts
  <2>2. QED
    BY <2>1 DEF Making, Creation, Spawns
<1>7. d \in Ctx /\ Members[d] = Members[c] /\ d = Program[c][n].child
  BY <1>2, <1>4, <1>6, CallFacts
<1>8. r \in Rank(d) /\ PartyOf(d, r) = PartyOf(c, r)
  BY <1>4, <1>7 DEF Rank, WorldSize, PartyOf
<1>9. w \in Thread /\ w[1] = d /\ w[2] = r
  BY <1>2, <1>7, <1>8, ThreadFacts
<1>10. PICK I, J, C, E : I = id /\ J = id' /\ C = calls /\ E = calls'
  OBVIOUS
<1>11. Maker(I, C, t, c, r, n, w)
  <2>1. C[t] \in Nat /\ C[t] < n
    BY <1>2, <1>5, <1>10
  <2>2. QED
    BY <1>3, <1>4, <1>6, <1>7, <1>8, <1>9, <1>10, <2>1 DEF Maker
<1>12. (\A u \in Thread : C[u] \in Nat /\ E[u] \in Nat /\ E[u] >= C[u]) /\ E[t] >= n
  BY <1>2, <1>3, <1>5, <1>10
<1>13. children[t] = Name(c, n)
  <2>1. Active(calls, pc, t)
    <3>1. Len(Program[t[1]]) \in Nat
      BY <1>2, <1>4, ContextsFacts
    <3>2. QED
      BY <1>3, <1>5, <3>1 DEF Active
  <2>2. CountedAt(calls[t], counter[t], children[t], p2p[t], t)
    BY <1>1, <2>1, CountedHere
  <2>3. children[t] = Number(Spawns(c), calls[t])
    BY <1>2, <2>2 DEF CountedAt
  <2>4. calls[t] = n - 1
    BY <1>2, <1>5
  <2>5. QED
    BY <1>4, <1>6, <2>3, <2>4, NameFacts
<1>14. Named(I, J, w, Append(I[t], Name(c, n)))
  <2>1. SpawnId(t) = Append(I[t], Name(c, n))
    BY <1>10, <1>13 DEF SpawnId
  <2>2. J = [I EXCEPT ![w] = SpawnId(t)]
    BY <1>3, <1>10
  <2>3. QED
    BY <2>1, <2>2 DEF Named
<1>15. Grown(I, J, E)
  <2>1. IdTypes(I) /\ Ids(I, C) /\ IdsAgree(I) /\ Later(C, E) /\ E[t] >= n
    BY <1>1, <1>10, <1>12 DEF Typed, Later
  <2>2. PICK name : name = Append(I[t], Name(c, n))
    OBVIOUS
  <2>3. Named(I, J, w, name)
    BY <1>14, <2>2
  <2>4. QED
    BY <1>11, <2>1, <2>2, <2>3, IdsMade
<1>16. /\ children' \in [Thread -> Nat] /\ (\A u \in Thread : u # t => children'[u] = children[u])
       /\ children'[t] = children[t] + (IF calls[t] + 1 \in Spawns(t[1]) THEN 1 ELSE 0)
  <2>1. children \in [Thread -> Nat]
    BY <1>1 DEF Typed
  <2>2. QED
    BY <1>2, <1>3, <1>6, <2>1
<1>17. Program[t[1]][calls[t] + 1].op \in Creation
  BY <1>3 DEF Creation
<1>18. IdTypes(id') /\ Ids(id', calls') /\ IdsAgree(id') /\ \A u \in Thread : id[u] # <<>> => id'[u] = id[u]
  BY <1>10, <1>15 DEF Grown
<1>19. QED
  BY <1>3, <1>16, <1>17, <1>18, MakingStep

LEMMA SubWorldStep ==
  ASSUME CollectivesInv, NEW t \in Thread, SubWorld(t)
  PROVE  CollectivesInv'
<1>1. /\ Typed /\ Runs(calls, todo, pc) /\ Live(id, calls, pc)
      /\ Counted(calls, pc, counter, children, p2p) /\ EventKnown(id, calls, todo, event)
      /\ Ids(id, calls) /\ IdsAgree(id) /\ Acked(db, sent, acks)
      /\ DbSound(id, calls, Made(calls, todo, pc), db) /\ DbComplete(id, calls, Made(calls, todo, pc), db)
      /\ Causal(calls, Made(calls, todo, pc)) /\ BarrierKnown(calls, Made(calls, todo, pc))
      /\ GotKnown(pc, calls, Made(calls, todo, pc), got)
  BY DEF CollectivesInv
<1>2. PICK c, r, n, d, w :
        /\ c = t[1] /\ r = t[2] /\ n = calls[t] + 1 /\ d = Program[t[1]][calls[t] + 1].child
        /\ w = <<d, NewRank(t[1], t[2], d)>>
  OBVIOUS
<1>3. /\ pc[t] = "idle" /\ id[t] # <<>> /\ calls[t] < Len(Program[t[1]])
      /\ Program[t[1]][calls[t] + 1].op = "subworld" /\ calls' = [calls EXCEPT ![t] = @ + 1]
      /\ id' = IF PartyOf(c, r) \in Range(Members[d])
               THEN [id EXCEPT ![w] = Append(id[t], Program[t[1]][calls[t] + 1].suffix)] ELSE id
      /\ children' = children
      /\ UNCHANGED <<counter, p2p, event, todo, pc, wcount, got, chanVars>>
  BY <1>2 DEF SubWorld, Calls
<1>4. c \in Ctx /\ r \in Rank(c) /\ t = <<c, r>>
  BY <1>2, ThreadFacts
<1>5. calls \in [Thread -> Nat] /\ calls[t] \in Nat
  BY <1>1 DEF Runs
<1>6. /\ n \in DOMAIN Program[c] /\ n \in Making(c) /\ n \notin Spawns(c)
      /\ Program[c][n].op = "subworld" /\ n \in Nat
  <2>1. n \in DOMAIN Program[c] /\ n \in Nat
    <3>1. Len(Program[c]) \in Nat /\ DOMAIN Program[c] = 1 .. Len(Program[c])
      BY <1>4, ContextsFacts
    <3>2. calls[t] < Len(Program[c]) /\ n = calls[t] + 1
      BY <1>2, <1>3
    <3>3. QED
      BY <1>5, <3>1, <3>2
  <2>3. Program[c][n].op = "subworld"
    BY <1>2, <1>3
  <2>2. QED
    BY <2>1, <2>3 DEF Making, Creation, Spawns
<1>7. d \in Ctx /\ d = Program[c][n].child
  BY <1>2, <1>4, <1>6, CallFacts, SMTT(30)
<1>8. PICK I, J, C, E : I = id /\ J = id' /\ C = calls /\ E = calls'
  OBVIOUS
<1>9. (\A u \in Thread : C[u] \in Nat /\ E[u] \in Nat /\ E[u] >= C[u]) /\ E[t] >= n
  BY <1>2, <1>3, <1>5, <1>8
<1>10. IdTypes(I) /\ Ids(I, C) /\ IdsAgree(I)
  BY <1>1, <1>8 DEF Typed
<1>11. Grown(I, J, E)
  <2>1. CASE PartyOf(c, r) \in Range(Members[d])
    <3>1. PICK q : q = NewRank(c, r, d)
      OBVIOUS
    <3>2. q \in Rank(d) /\ PartyOf(d, q) = PartyOf(c, r)
      <4>1. PICK i \in DOMAIN Members[d] : Members[d][i] = PartyOf(c, r)
        BY <2>1 DEF Range
      <4>2. Members[d] \in Seq(Party) /\ Len(Members[d]) \in Nat
        BY <1>7, CollectivesAssumption
      <4>3. i \in 1 .. Len(Members[d])
        BY <4>1, <4>2
      <4>4. i - 1 \in Rank(d) /\ (i - 1) + 1 = i
        BY <4>2, <4>3 DEF Rank, WorldSize
      <4>5. PartyOf(d, i - 1) = PartyOf(c, r)
        BY <4>1, <4>4 DEF PartyOf
      <4>6. QED
        BY <3>1, <4>4, <4>5 DEF NewRank
    <3>3. w = <<d, q>> /\ w \in Thread /\ w[1] = d /\ w[2] = q
      BY <1>2, <1>7, <3>1, <3>2, ThreadFacts
    <3>4. Maker(I, C, t, c, r, n, w)
      <4>1. C[t] \in Nat /\ C[t] < n
        BY <1>2, <1>5, <1>8
      <4>2. QED
        BY <1>3, <1>4, <1>6, <1>7, <1>8, <3>2, <3>3, <4>1 DEF Maker
    <3>5. Named(I, J, w, Append(I[t], Name(c, n)))
      <4>1. Program[t[1]][calls[t] + 1].suffix = Name(c, n)
        BY <1>2, <1>4, <1>6, NameFacts
      <4>2. J = [I EXCEPT ![w] = Append(I[t], Program[t[1]][calls[t] + 1].suffix)]
        BY <1>3, <1>8, <2>1
      <4>3. QED
        BY <4>1, <4>2 DEF Named
    <3>6. PICK name : name = Append(I[t], Name(c, n))
      OBVIOUS
    <3>7. Named(I, J, w, name) /\ Later(C, E) /\ E[t] >= n
      BY <1>9, <3>5, <3>6 DEF Later
    <3>8. QED
      BY <1>10, <3>4, <3>6, <3>7, IdsMade
  <2>2. CASE PartyOf(c, r) \notin Range(Members[d])
    <3>1. J = I
      BY <1>3, <1>8, <2>2
    <3>2. Ids(I, E)
      BY <1>9, <1>10, IdsLater
    <3>3. QED
      BY <1>10, <3>1, <3>2 DEF Grown
  <2>3. QED
    BY <2>1, <2>2
<1>12. /\ children' \in [Thread -> Nat] /\ (\A u \in Thread : u # t => children'[u] = children[u])
       /\ children'[t] = children[t] + (IF calls[t] + 1 \in Spawns(t[1]) THEN 1 ELSE 0)
  <2>1. children \in [Thread -> Nat]
    BY <1>1 DEF Typed
  <2>2. QED
    BY <1>2, <1>3, <1>6, <2>1
<1>13. Program[t[1]][calls[t] + 1].op \in Creation
  BY <1>3 DEF Creation
<1>14. IdTypes(id') /\ Ids(id', calls') /\ IdsAgree(id') /\ \A u \in Thread : id[u] # <<>> => id'[u] = id[u]
  BY <1>8, <1>11 DEF Grown
<1>15. QED
  BY <1>3, <1>12, <1>13, <1>14, MakingStep

\* What Begin does to counter_, p2p_counter_ and the key, for the n-th call.
Keyed(t, n, i, A, V, X, K, W, Y) ==
  LET call == Program[t[1]][n]
      d == <<call.root, call.peer>>
  IN  IF call.op # "p2p" /\ ~Skips(t[1], n)
      THEN /\ K = [A EXCEPT ![t] = @ + 1] /\ W = V
           /\ Y = [X EXCEPT ![t] = <<i, A[t] + 1, ImplOf(call.op)>>]
      ELSE IF call.op = "p2p" /\ t[2] \in {call.root, call.peer}
      THEN /\ W = [V EXCEPT ![t][d] = V[t][d] + 1] /\ K = A
           /\ Y = [X EXCEPT ![t] = <<i, V[t][d] + 1, call.root, call.peer>>]
      ELSE K = A /\ W = V /\ Y = X

KeysTyped(A, V, X) ==
  /\ A \in [Thread -> Nat] /\ DOMAIN X = Thread
  /\ DOMAIN V = Thread /\ \A t \in Thread : V[t] \in [Rank(t[1]) \X Rank(t[1]) -> Nat]

KeyedSo(t, n, i, k, A, b, V, X, K, W, Y) ==
  /\ KeysTyped(K, W, Y) /\ Kept(A, K, t) /\ Kept(V, W, t) /\ Kept(X, Y, t)
  /\ Counts(t, k, A[t], b, V[t], K[t], b, W[t]) /\ K[t] <= A[t] + 1
  /\ StepsOf(t[1], n, t[2]) # <<>> => Y[t] = EventKey(i, t[1], n)

LEMMA KeyedFacts ==
  ASSUME NEW t, NEW n, NEW i, NEW k, NEW A, NEW b, NEW V, NEW X, NEW K, NEW W, NEW Y,
         t \in Thread, n \in Talks(t[1]), k \in Nat, n = k + 1, b \in Nat, KeysTyped(A, V, X),
         CountedAt(k, A[t], b, V[t], t), Keyed(t, n, i, A, V, X, K, W, Y)
  PROVE  KeyedSo(t, n, i, k, A, b, V, X, K, W, Y)
<1>1. PICK c, r, call : c = t[1] /\ r = t[2] /\ call = Program[t[1]][n]
  OBVIOUS
<1>2. c \in Ctx /\ r \in Rank(c) /\ t = <<c, r>> /\ n \in Talks(c) /\ n \in DOMAIN Program[c]
  BY <1>1, ThreadFacts DEF Talks
<1>3. call.root \in Rank(c) /\ call.peer \in Rank(c) /\ (call.op = "p2p" => call.root # call.peer)
  BY <1>1, <1>2, CallFacts
<1>4. n \notin Spawns(c)
  BY <1>1, <1>2 DEF Spawns, Talks, Creation
<1>5. b = b + (IF k + 1 \in Spawns(c) THEN 1 ELSE 0)
  BY <1>4
<1>6. A[t] \in Nat /\ V[t] \in [Rank(c) \X Rank(c) -> Nat]
  BY <1>1 DEF KeysTyped
<1>7. \A q \in Rank(c) : V[t][<<r, q>>] \in Nat /\ V[t][<<q, r>>] \in Nat
  BY <1>2, <1>6
<1>8. /\ A[t] = Number(Collective(c), k)
      /\ \A q \in Rank(c) :
           V[t][<<r, q>>] = Number(P2Ps(c, r, q), k) /\ V[t][<<q, r>>] = Number(P2Ps(c, q, r), k)
  BY <1>1 DEF CountedAt
<1>9. \A T : Number(T, n) = Number(T, k) + (IF n \in T THEN 1 ELSE 0)
  BY NumberFacts
<1>10. CASE call.op # "p2p" /\ ~Skips(c, n)
  <2>1. /\ K = [A EXCEPT ![t] = @ + 1] /\ W = V
        /\ Y = [X EXCEPT ![t] = <<i, A[t] + 1, ImplOf(call.op)>>]
    BY <1>1, <1>10 DEF Keyed
  <2>2. n \in Collective(c) /\ \A x, y : n \notin P2Ps(c, x, y)
    <3>1. Program[c][n].op # "p2p" /\ ~Skips(c, n)
      BY <1>1, <1>10
    <3>2. n \in Collective(c)
      BY <1>2, <3>1 DEF Collective
    <3>3. QED
      BY <3>1, <3>2 DEF P2Ps
  <2>3. KeysTyped(K, W, Y) /\ Kept(A, K, t) /\ Kept(V, W, t) /\ Kept(X, Y, t) /\ K[t] = A[t] + 1
    <3>1. K \in [Thread -> Nat] /\ Kept(A, K, t) /\ K[t] = A[t] + 1
      BY <1>6, <2>1 DEF KeysTyped, Kept
    <3>2. DOMAIN Y = Thread /\ Kept(X, Y, t)
      BY <2>1 DEF KeysTyped, Kept
    <3>3. QED
      BY <2>1, <3>1, <3>2 DEF KeysTyped, Kept
  <2>4. Counts(t, k, A[t], b, V[t], K[t], b, W[t])
    <3>1. K[t] = A[t] + (IF k + 1 \in Collective(c) THEN 1 ELSE 0)
      BY <2>2, <2>3
    <3>2. \A q \in Rank(c) :
            /\ W[t][<<r, q>>] = V[t][<<r, q>>] + (IF k + 1 \in P2Ps(c, r, q) THEN 1 ELSE 0)
            /\ W[t][<<q, r>>] = V[t][<<q, r>>] + (IF k + 1 \in P2Ps(c, q, r) THEN 1 ELSE 0)
      BY <1>7, <2>1, <2>2
    <3>3. QED
      BY <1>1, <1>5, <3>1, <3>2 DEF Counts
  <2>5. Y[t] = EventKey(i, c, n)
    <3>1. A[t] + 1 = Number(Collective(c), n)
      BY <1>8, <1>9, <2>2
    <3>2. Y[t] = <<i, A[t] + 1, ImplOf(call.op)>>
      BY <2>1 DEF KeysTyped
    <3>3. QED
      BY <1>1, <1>10, <3>1, <3>2 DEF EventKey
  <2>6. QED
    BY <1>1, <1>6, <2>3, <2>4, <2>5 DEF KeyedSo
<1>11. CASE call.op = "p2p" /\ r \in {call.root, call.peer}
  <2>1. PICK d : d = <<call.root, call.peer>>
    OBVIOUS
  <2>2. /\ W = [V EXCEPT ![t][d] = V[t][d] + 1] /\ K = A
        /\ Y = [X EXCEPT ![t] = <<i, V[t][d] + 1, call.root, call.peer>>]
    BY <1>1, <1>11, <2>1 DEF Keyed
  <2>3. n \notin Collective(c) /\ \A x, y : n \in P2Ps(c, x, y) <=> x = call.root /\ y = call.peer
    BY <1>1, <1>2, <1>11 DEF Collective, P2Ps
  <2>4. d \in Rank(c) \X Rank(c) /\ V[t][d] \in Nat /\ DOMAIN V = Thread
    BY <1>3, <1>6, <2>1 DEF KeysTyped
  <2>5. W[t] = [V[t] EXCEPT ![d] = V[t][d] + 1] /\ Kept(V, W, t) /\ DOMAIN W = Thread
    BY <2>2, <2>4 DEF Kept
  <2>6. KeysTyped(K, W, Y) /\ Kept(A, K, t) /\ Kept(X, Y, t) /\ K[t] = A[t]
    <3>1. W[t] \in [Rank(c) \X Rank(c) -> Nat]
      BY <1>6, <2>4, <2>5
    <3>2. \A u \in Thread : W[u] \in [Rank(u[1]) \X Rank(u[1]) -> Nat]
      BY <1>1, <2>5, <3>1 DEF KeysTyped, Kept
    <3>3. DOMAIN Y = Thread /\ Kept(X, Y, t)
      BY <2>2 DEF KeysTyped, Kept
    <3>4. QED
      BY <2>2, <2>5, <3>2, <3>3 DEF KeysTyped, Kept
  <2>7. Counts(t, k, A[t], b, V[t], K[t], b, W[t])
    <3>1. K[t] = A[t] + (IF k + 1 \in Collective(c) THEN 1 ELSE 0)
      BY <1>6, <2>3, <2>6
    <3>2. \A e \in Rank(c) \X Rank(c) : W[t][e] = IF e = d THEN V[t][e] + 1 ELSE V[t][e]
      BY <1>6, <2>4, <2>5
    <3>3. ASSUME NEW x \in Rank(c), NEW y \in Rank(c), V[t][<<x, y>>] \in Nat
          PROVE  W[t][<<x, y>>] = V[t][<<x, y>>] + (IF k + 1 \in P2Ps(c, x, y) THEN 1 ELSE 0)
      <4>1. <<x, y>> = d <=> k + 1 \in P2Ps(c, x, y)
        BY <2>1, <2>3
      <4>2. QED
        BY <3>2, <3>3, <4>1
    <3>4. \A q \in Rank(c) :
            /\ W[t][<<r, q>>] = V[t][<<r, q>>] + (IF k + 1 \in P2Ps(c, r, q) THEN 1 ELSE 0)
            /\ W[t][<<q, r>>] = V[t][<<q, r>>] + (IF k + 1 \in P2Ps(c, q, r) THEN 1 ELSE 0)
      BY <1>2, <1>7, <3>3
    <3>5. QED
      BY <1>1, <1>5, <3>1, <3>4 DEF Counts
  <2>8. Y[t] = EventKey(i, c, n)
    <3>1. V[t][d] = Number(P2Ps(c, call.root, call.peer), k)
      BY <1>3, <1>8, <1>11, <2>1
    <3>2. V[t][d] + 1 = Number(P2Ps(c, call.root, call.peer), n)
      BY <1>9, <2>3, <3>1
    <3>3. Y[t] = <<i, V[t][d] + 1, call.root, call.peer>>
      BY <2>2 DEF KeysTyped
    <3>4. QED
      BY <1>1, <1>11, <3>2, <3>3 DEF EventKey
  <2>9. QED
    BY <1>1, <1>6, <2>5, <2>6, <2>7, <2>8 DEF KeyedSo
<1>12. CASE ~(call.op # "p2p" /\ ~Skips(c, n)) /\ ~(call.op = "p2p" /\ r \in {call.root, call.peer})
  <2>1. K = A /\ W = V /\ Y = X
    BY <1>1, <1>12 DEF Keyed
  <2>2. n \notin Collective(c)
    BY <1>1, <1>12 DEF Collective
  <2>3. \A q \in Rank(c) : n \notin P2Ps(c, r, q) /\ n \notin P2Ps(c, q, r)
    BY <1>1, <1>12 DEF P2Ps
  <2>4. KeysTyped(K, W, Y) /\ Kept(A, K, t) /\ Kept(V, W, t) /\ Kept(X, Y, t) /\ K[t] = A[t]
    BY <2>1 DEF KeysTyped, Kept
  <2>5. Counts(t, k, A[t], b, V[t], K[t], b, W[t])
    <3>1. K[t] = A[t] + (IF k + 1 \in Collective(c) THEN 1 ELSE 0)
      BY <1>6, <2>2, <2>4
    <3>2. \A q \in Rank(c) :
            /\ W[t][<<r, q>>] = V[t][<<r, q>>] + (IF k + 1 \in P2Ps(c, r, q) THEN 1 ELSE 0)
            /\ W[t][<<q, r>>] = V[t][<<q, r>>] + (IF k + 1 \in P2Ps(c, q, r) THEN 1 ELSE 0)
      BY <1>7, <2>1, <2>3
    <3>3. QED
      BY <1>1, <1>5, <3>1, <3>2 DEF Counts
  <2>6. StepsOf(c, n, r) = <<>>
    <3>1. CASE Skips(c, n)
      BY <1>2, <3>1, StepsCases
    <3>2. CASE ~Skips(c, n)
      <4>1. call.op = "p2p" /\ r # call.root /\ r # call.peer
        BY <1>12, <3>2
      <4>2. ImplOf(call.op) = "p2p"
        BY <4>1 DEF ImplOf
      <4>3. StepsOf(c, n, r) = P2PSteps(r, call.root, call.peer)
        BY <1>1, <1>2, <3>2, <4>2, StepsCases
      <4>4. QED
        BY <4>1, <4>3 DEF P2PSteps
    <3>3. QED
      BY <3>1, <3>2
  <2>7. QED
    BY <1>1, <1>6, <2>4, <2>5, <2>6 DEF KeyedSo
<1>13. QED
  BY <1>10, <1>11, <1>12

LEMMA BeginStep ==
  ASSUME CollectivesInv, NEW t \in Thread, Begin(t)
  PROVE  CollectivesInv'
<1>1. /\ Typed /\ Runs(calls, todo, pc) /\ Live(id, calls, pc)
      /\ Counted(calls, pc, counter, children, p2p) /\ EventKnown(id, calls, todo, event)
      /\ Ids(id, calls) /\ IdsAgree(id) /\ Acked(db, sent, acks)
      /\ DbSound(id, calls, Made(calls, todo, pc), db) /\ DbComplete(id, calls, Made(calls, todo, pc), db)
      /\ Causal(calls, Made(calls, todo, pc)) /\ BarrierKnown(calls, Made(calls, todo, pc))
      /\ GotKnown(pc, calls, Made(calls, todo, pc), got)
  BY DEF CollectivesInv
<1>2. PICK c, r, n, call, y, p :
        /\ c = t[1] /\ r = t[2] /\ n = calls[t] + 1 /\ call = Program[t[1]][calls[t] + 1]
        /\ y = StepsOf(c, n, r) /\ p = "step"
  OBVIOUS
<1>3. /\ pc[t] = "idle" /\ id[t] # <<>> /\ calls[t] < Len(Program[t[1]])
      /\ call.op \notin Creation /\ calls' = [calls EXCEPT ![t] = @ + 1]
      /\ todo' = [todo EXCEPT ![t] = y] /\ pc' = [pc EXCEPT ![t] = "step"]
      /\ got' = [got EXCEPT ![t] =
                   [q \in Rank(c) |-> IF q = r /\ HasInput(call, r) THEN Given(c, n, r) ELSE Empty]]
      /\ id' = id /\ children' = children /\ wcount' = wcount
      /\ db' = db /\ sent' = sent /\ acks' = acks
  BY <1>2 DEF Begin, Calls, StepsOf, makeVars, chanVars
<1>4. Keyed(t, n, id[t], counter, p2p, event, counter', p2p', event')
  <2>1. CASE call.op # "p2p" /\ ~(call.op \in Vectors /\ call.size = 0)
    <3>1. NextId(t, ImplOf(call.op))
      BY <1>2, <2>1 DEF Begin
    <3>2. QED
      BY <1>2, <2>1, <3>1 DEF NextId, Keyed, Skips
  <2>2. CASE call.op = "p2p" /\ r \in {call.root, call.peer}
    <3>1. NextP2PId(t, call.root, call.peer)
      BY <1>2, <2>2, SMTT(30) DEF Begin
    <3>2. QED
      BY <1>2, <2>2, <3>1 DEF NextP2PId, Keyed, Skips
  <2>3. CASE /\ ~(call.op # "p2p" /\ ~(call.op \in Vectors /\ call.size = 0))
             /\ ~(call.op = "p2p" /\ r \in {call.root, call.peer})
    <3>1. UNCHANGED <<counter, p2p, event>>
      BY <1>2, <2>3 DEF Begin
    <3>2. QED
      BY <1>2, <2>3, <3>1 DEF Keyed, Skips
  <2>4. QED
    BY <2>1, <2>2, <2>3
<1>5. c \in Ctx /\ r \in Rank(c) /\ t = <<c, r>> /\ calls \in [Thread -> Nat] /\ calls[t] \in Nat
  BY <1>1, <1>2, ThreadFacts DEF Runs
<1>6. n \in Talks(c)
  <2>1. Len(Program[c]) \in Nat /\ DOMAIN Program[c] = 1 .. Len(Program[c])
    BY <1>5, ContextsFacts
  <2>2. calls[t] < Len(Program[c]) /\ n = calls[t] + 1
    BY <1>2, <1>3
  <2>3. n \in DOMAIN Program[c]
    BY <1>5, <2>1, <2>2
  <2>4. QED
    BY <1>2, <1>3, <2>3 DEF Talks
<1>7. Moves(todo, todo', t, y) /\ Moves(pc, pc', t, p) /\ Enters(t, calls[t] + 1, y, p)
  <2>1. DOMAIN todo = Thread /\ DOMAIN pc = Thread
    BY <1>1 DEF Runs
  <2>2. Moves(todo, todo', t, y) /\ Moves(pc, pc', t, p)
    BY <1>2, <1>3, <2>1 DEF Moves
  <2>3. QED
    BY <1>2, <1>6, <2>2 DEF Enters
<1>8. PICK F : F = Made(calls', todo', pc')
  OBVIOUS
<1>9. /\ Runs(calls', todo', pc') /\ Live(id', calls', pc')
      /\ DbSound(id', calls', F, db) /\ DbComplete(id', calls', F, db)
      /\ Causal(calls', F) /\ BarrierKnown(calls', F)
      /\ Active(calls, pc, t) /\ Apart(calls, pc, calls', pc', t)
      /\ calls'[t] = calls[t] + 1
      /\ (\A u \in Thread : calls[u] \in Nat /\ calls'[u] \in Nat /\ calls'[u] >= calls[u])
      /\ (\A u \in Thread : u # t => F[u] = Made(calls, todo, pc)[u])
      /\ F[t] = 0
      /\ CountedAt(calls[t], counter[t], children[t], p2p[t], t)
  <2>1. \A u \in Thread : id[u] # <<>> => id'[u] = id[u]
    BY <1>3
  <2>2. QED
    BY <1>3, <1>7, <1>8, <2>1, CallStep
<1>10. PICK I, C, P, T, A, B, V, X, G, E, Q, U, K, W, Y, H, M :
         /\ I = id /\ C = calls /\ P = pc /\ T = todo /\ A = counter /\ B = children /\ V = p2p
         /\ X = event /\ G = got /\ E = calls' /\ Q = pc' /\ U = todo' /\ K = counter'
         /\ W = p2p' /\ Y = event' /\ H = got' /\ M = Made(calls, todo, pc)
  OBVIOUS
<1>11. PICK k, i, b : k = C[t] /\ i = I[t] /\ b = B[t]
  OBVIOUS
<1>12. /\ k \in Nat /\ n = k + 1 /\ b \in Nat /\ KeysTyped(A, V, X)
       /\ CountedAt(k, A[t], b, V[t], t) /\ Keyed(t, n, i, A, V, X, K, W, Y) /\ n \in Talks(t[1])
  <2>1. k \in Nat /\ n = k + 1 /\ n \in Talks(t[1])
    BY <1>2, <1>5, <1>6, <1>10, <1>11
  <2>2. b \in Nat /\ KeysTyped(A, V, X)
    BY <1>1, <1>10, <1>11 DEF Typed, KeysTyped
  <2>3. CountedAt(k, A[t], b, V[t], t)
    BY <1>9, <1>10, <1>11
  <2>4. Keyed(t, n, i, A, V, X, K, W, Y)
    BY <1>4, <1>10, <1>11
  <2>5. QED
    BY <2>1, <2>2, <2>3, <2>4
<1>13. KeyedSo(t, n, i, k, A, b, V, X, K, W, Y)
  BY <1>12, KeyedFacts
<1>14. /\ KeysTyped(K, W, Y) /\ Kept(A, K, t) /\ Kept(V, W, t) /\ Kept(X, Y, t)
       /\ Counts(t, k, A[t], b, V[t], K[t], b, W[t]) /\ K[t] <= A[t] + 1
       /\ StepsOf(t[1], n, t[2]) # <<>> => Y[t] = EventKey(i, t[1], n)
  BY <1>13 DEF KeyedSo
<1>15. Apart(C, P, E, Q, t) /\ E[t] = C[t] + 1 /\ C[t] \in Nat /\ Active(C, P, t)
  BY <1>9, <1>10
<1>16. Counted(calls', pc', counter', children', p2p')
  <2>1. Counted(C, P, A, B, V) /\ Kept(B, B, t)
    BY <1>1, <1>10 DEF Kept
  <2>2. Counts(t, C[t], A[t], B[t], V[t], K[t], B[t], W[t])
    BY <1>11, <1>14
  <2>3. Counted(E, Q, K, B, W)
    BY <1>14, <1>15, <2>1, <2>2, CountedStep
  <2>4. QED
    BY <1>3, <1>10, <2>3
<1>17. EventKnown(id', calls', todo', event')
  <2>1. EventKnown(I, C, T, X) /\ Runs(C, T, P) /\ Live(I, C, P)
    BY <1>1, <1>10
  <2>2. Kept(T, U, t) /\ U[t] = StepsOf(t[1], n, t[2])
    BY <1>2, <1>7, <1>10 DEF Kept, Moves
  <2>3. U[t] # <<>> => Y[t] = EventKey(I[t], t[1], E[t])
    BY <1>11, <1>12, <1>14, <1>15, <2>2
  <2>4. EventKnown(I, E, U, Y)
    BY <1>14, <1>15, <2>1, <2>2, <2>3, EventStep
  <2>5. QED
    BY <1>3, <1>10, <2>4
<1>18. DOMAIN H = Thread /\ Kept(G, H, t)
       /\ H[t] = [q \in Rank(c) |-> IF q = r /\ HasInput(call, r) THEN Given(c, n, r) ELSE Empty]
  <2>1. DOMAIN G = Thread
    BY <1>1, <1>10 DEF Typed
  <2>2. QED
    BY <1>3, <1>10, <2>1 DEF Kept
<1>19. GotKnown(pc', calls', F, got')
  <2>1. E[t] = n
    BY <1>11, <1>12, <1>15
  <2>2. GotAt(E, F, H, t)
    <3>1. HasInput(call, r) => H[t][r] = Given(c, n, r)
      BY <1>5, <1>18
    <3>2. \A j \in 1 .. Len(StepsOf(c, n, r)) : ~(j <= F[t])
      BY <1>9
    <3>3. call = Program[c][n]
      BY <1>2
    <3>4. QED
      BY <1>2, <2>1, <3>1, <3>2, <3>3 DEF GotAt
  <2>3. Kept(M, F, t) /\ GotKnown(P, C, M, G)
    BY <1>1, <1>9, <1>10 DEF Kept
  <2>4. GotKnown(Q, E, F, H)
    BY <1>15, <1>18, <2>2, <2>3, GotStep
  <2>5. QED
    BY <1>10, <2>4
<1>20. Ids(id', calls')
  BY <1>1, <1>3, <1>9, IdsLater
<1>21. Typed'
  <2>1. \A u \in Thread : K[u] <= E[u]
    <3> SUFFICES ASSUME NEW u \in Thread PROVE K[u] <= E[u]
      OBVIOUS
    <3>1. A[u] \in Nat /\ A[u] <= C[u] /\ C[u] \in Nat /\ E[u] \in Nat /\ K[u] \in Nat
      BY <1>1, <1>9, <1>10, <1>14 DEF Typed, KeysTyped
    <3>2. CASE u = t
      BY <1>14, <1>15, <3>1, <3>2
    <3>3. CASE u # t
      <4>1. K[u] = A[u] /\ E[u] = C[u]
        BY <1>14, <1>15, <3>3 DEF Kept, Apart
      <4>2. QED
        BY <3>1, <4>1
    <3>4. QED
      BY <3>2, <3>3
  <2>2. \A u \in Thread : DOMAIN H[u] = Rank(u[1])
    <3> SUFFICES ASSUME NEW u \in Thread PROVE DOMAIN H[u] = Rank(u[1])
      OBVIOUS
    <3>1. CASE u = t
      BY <1>2, <1>18, <3>1
    <3>2. CASE u # t
      BY <1>1, <1>10, <1>18, <3>2 DEF Kept, Typed
    <3>3. QED
      BY <3>1, <3>2
  <2>3. /\ K \in [Thread -> Nat] /\ DOMAIN Y = Thread
        /\ DOMAIN W = Thread /\ \A u \in Thread : W[u] \in [Rank(u[1]) \X Rank(u[1]) -> Nat]
    BY <1>14 DEF KeysTyped
  <2>4. QED
    BY <1>1, <1>3, <1>10, <1>18, <2>1, <2>2, <2>3 DEF Typed
<1>22. QED
  BY <1>1, <1>3, <1>8, <1>9, <1>16, <1>17, <1>19, <1>20, <1>21 DEF CollectivesInv

\* The contexts that are used have made no step, the others all.
LEMMA InitPast ==
  ASSUME NEW C, NEW M, NEW P, NEW used, NEW c \in Ctx, NEW n \in Talks(c), NEW r \in Rank(c),
         NEW i \in 1 .. Len(StepsOf(c, n, r)), Steady(C, M, P), P[<<c, r>>] = "idle",
         C[<<c, r>>] = IF c \in used THEN 0 ELSE Len(Program[c])
  PROVE  Past(C, M, <<c, r>>, n, i) <=> c \notin used
<1>1. PICK t : t = <<c, r>>
  OBVIOUS
<1>2. t \in Thread /\ t[1] = c /\ t[2] = r
  BY <1>1, ThreadFacts
<1>3. n \in 1 .. Len(Program[c]) /\ n \in Nat /\ n # 0 /\ Len(Program[c]) \in Nat
  BY StepsLength, ContextsFacts
<1>4. M[t] \in Nat /\ Len(StepsOf(c, n, r)) \in Nat
  BY <1>2, StepsLength DEF Steady
<1>5. CASE c \in used
  BY <1>1, <1>3, <1>5 DEF Past
<1>6. CASE c \notin used
  <2>1. C[t] = Len(Program[c]) /\ P[t] = "idle"
    BY <1>1, <1>6
  <2>2. n = C[t] => M[t] = Len(StepsOf(c, n, r))
    BY <1>2, <2>1 DEF Steady
  <2>3. CASE n = C[t]
    BY <1>1, <1>4, <1>6, <2>2, <2>3 DEF Past
  <2>4. CASE n < C[t]
    BY <1>1, <1>6, <2>4 DEF Past
  <2>5. QED
    BY <1>3, <2>1, <2>3, <2>4
<1>7. QED
  BY <1>5, <1>6

LEMMA InitInv == Init => CollectivesInv
<1> SUFFICES ASSUME Init PROVE CollectivesInv
  OBVIOUS
<1>1. /\ id = [t \in Thread |-> <<>>] /\ children = [t \in Thread |-> 0]
      /\ counter = [t \in Thread |-> 0]
      /\ p2p = [t \in Thread |-> [d \in Rank(t[1]) \X Rank(t[1]) |-> 0]]
      /\ event = [t \in Thread |-> Empty]
      /\ todo = [t \in Thread |-> <<>>] /\ pc = [t \in Thread |-> "idle"]
      /\ wcount = [t \in Thread |-> 0]
      /\ got = [t \in Thread |-> [r \in Rank(t[1]) |-> Empty]]
      /\ db = [p \in Party |-> [q \in Party |-> {}]]
      /\ sent = [p \in Party |-> [q \in Party |-> 0]]
      /\ acks = [p \in Party |-> [q \in Party |-> 0]]
  BY DEF Init
<1>2. PICK used \in Together :
        calls = [t \in Thread |-> IF t[1] \in used THEN 0 ELSE Len(Program[t[1]])]
  BY DEF Init
<1>3. \A t \in Thread : t[1] \in Ctx /\ Len(Program[t[1]]) \in Nat
  BY ThreadFacts, ContextsFacts
<1>4. calls \in [Thread -> Nat] /\ \A t \in Thread : calls[t] <= Len(Program[t[1]])
  <2>1. calls \in [Thread -> Nat]
    BY <1>2, <1>3
  <2>2. ASSUME NEW t \in Thread PROVE calls[t] <= Len(Program[t[1]])
    BY <1>2, <1>3
  <2>3. QED
    BY <2>1, <2>2
<1>5. Typed
  <2>1. IdTypes(id)
    <3>1. <<>> \in Seq(Ctx \cup Nat)
      OBVIOUS
    <3>2. QED
      BY <1>1, <3>1 DEF IdTypes
  <2>2. counter \in [Thread -> Nat] /\ children \in [Thread -> Nat] /\ wcount \in [Thread -> Nat]
    BY <1>1
  <2>3. \A t \in Thread : counter[t] <= calls[t]
    BY <1>1, <1>4
  <2>4. DOMAIN p2p = Thread /\ \A t \in Thread : p2p[t] \in [Rank(t[1]) \X Rank(t[1]) -> Nat]
    BY <1>1
  <2>5. DOMAIN event = Thread /\ DOMAIN got = Thread /\ \A t \in Thread : DOMAIN got[t] = Rank(t[1])
    BY <1>1
  <2>6. DOMAIN db = Party /\ \A p \in Party : DOMAIN db[p] = Party
    BY <1>1
  <2>7. sent \in [Party -> [Party -> Nat]] /\ acks \in [Party -> [Party -> Nat]]
    BY <1>1
  <2>8. QED
    BY <2>1, <2>2, <2>3, <2>4, <2>5, <2>6, <2>7 DEF Typed
<1>6. Runs(calls, todo, pc)
  <2>1. DOMAIN todo = Thread /\ DOMAIN pc = Thread
    BY <1>1
  <2>2. ASSUME NEW t \in Thread PROVE RunAt(calls[t], todo[t], pc[t], t)
    <3>1. calls[t] \in Nat /\ calls[t] <= Len(Program[t[1]])
      BY <1>4
    <3>2. todo[t] = <<>> /\ pc[t] = "idle"
      BY <1>1
    <3>3. <<>> \in Seq(StepSet(WorldSize(t[1]), t[2]))
      OBVIOUS
    <3>4. QED
      BY <3>1, <3>2, <3>3 DEF RunAt
  <2>3. QED
    BY <1>4, <2>1, <2>2 DEF Runs
<1>7. ASSUME NEW c \in Ctx, c \notin used PROVE Over(calls, pc, c)
  <2> SUFFICES ASSUME NEW r \in Rank(c)
               PROVE  calls[<<c, r>>] = Len(Program[c]) /\ pc[<<c, r>>] = "idle"
    BY DEF Over
  <2>1. PICK t : t = <<c, r>> /\ t \in Thread /\ t[1] = c
    BY ThreadFacts
  <2>2. QED
    BY <1>1, <1>2, <1>7, <2>1
<1>8. Live(id, calls, pc)
  <2> SUFFICES ASSUME NEW t \in Thread
               PROVE  (calls[t] = 0 /\ pc[t] = "idle") \/ Over(calls, pc, t[1])
    BY DEF Live
  <2>1. CASE t[1] \in used
    BY <1>1, <1>2, <2>1
  <2>2. CASE t[1] \notin used
    BY <1>3, <1>7, <2>2
  <2>3. QED
    BY <2>1, <2>2
<1>9. Counted(calls, pc, counter, children, p2p)
  <2> SUFFICES ASSUME NEW t \in Thread
               PROVE  Over(calls, pc, t[1]) \/ CountedAt(calls[t], counter[t], children[t], p2p[t], t)
    BY DEF Counted
  <2>1. CASE t[1] \in used
    <3>1. calls[t] = 0 /\ counter[t] = 0 /\ children[t] = 0
      BY <1>1, <1>2, <2>1
    <3>2. p2p[t] = [d \in Rank(t[1]) \X Rank(t[1]) |-> 0] /\ t[2] \in Rank(t[1])
      BY <1>1, ThreadFacts
    <3>3. \A q \in Rank(t[1]) : p2p[t][<<t[2], q>>] = 0 /\ p2p[t][<<q, t[2]>>] = 0
      BY <3>2
    <3>4. \A T : Number(T, 0) = 0
      BY NumberFacts
    <3>5. QED
      BY <3>1, <3>3, <3>4 DEF CountedAt
  <2>2. CASE t[1] \notin used
    BY <1>3, <1>7, <2>2
  <2>3. QED
    BY <2>1, <2>2
<1>10. EventKnown(id, calls, todo, event) /\ Ids(id, calls) /\ IdsAgree(id)
  <2>1. \A t \in Thread : todo[t] = <<>> /\ id[t] = <<>>
    BY <1>1
  <2>2. QED
    BY <2>1 DEF EventKnown, Ids, IdsAgree
<1>11. \A p, q \in Party : db[p][q] = {} /\ sent[p][q] = 0 /\ acks[p][q] = 0
  BY <1>1
<1>12. Acked(db, sent, acks)
  <2>1. IsFiniteSet({}) /\ Cardinality({}) = 0
    BY FS_EmptySet
  <2> SUFFICES ASSUME NEW p \in Party, NEW q \in Party
               PROVE  IsFiniteSet(db[p][q]) /\ sent[p][q] = acks[p][q] + Cardinality(db[p][q])
    BY DEF Acked
  <2>2. sent[p][q] = 0 /\ acks[p][q] = 0 /\ IsFiniteSet(db[p][q]) /\ Cardinality(db[p][q]) = 0
    BY <1>11, <2>1
  <2>3. QED
    BY <2>2
<1>13. PICK M : M = Made(calls, todo, pc)
  OBVIOUS
<1>14. Steady(calls, M, pc)
  BY <1>6, <1>13, RunsSteady
<1>15. ASSUME NEW c \in Ctx, NEW r \in Rank(c)
       PROVE  pc[<<c, r>>] = "idle" /\ calls[<<c, r>>] = IF c \in used THEN 0 ELSE Len(Program[c])
  <2>1. PICK t : t = <<c, r>> /\ t \in Thread /\ t[1] = c
    BY ThreadFacts
  <2>2. QED
    BY <1>1, <1>2, <2>1
<1>16. ASSUME NEW c \in Ctx, NEW n \in Talks(c), NEW r \in Rank(c), NEW i \in 1 .. Len(StepsOf(c, n, r))
       PROVE  Past(calls, M, <<c, r>>, n, i) <=> c \notin used
  BY <1>14, <1>15, InitPast
<1>17. DbSound(id, calls, M, db)
  BY <1>11 DEF DbSound
<1>18. DbComplete(id, calls, M, db) /\ Causal(calls, M)
  BY <1>16 DEF DbComplete, Causal, OnWay
<1>19. BarrierKnown(calls, M)
  <2> SUFFICES ASSUME NEW c \in Ctx, NEW n \in Talks(c), NEW r \in Rank(c), NEW q \in Rank(c), NEW i,
                      Past(calls, M, <<c, r>>, n, i)
               PROVE  calls[<<c, q>>] >= n
    BY DEF BarrierKnown
  <2>1. n \in 1 .. Len(Program[c]) /\ n \in Nat /\ n # 0 /\ Len(Program[c]) \in Nat
    BY StepsLength, ContextsFacts
  <2>2. n <= calls[<<c, r>>]
    BY <1>15, <2>1 DEF Past
  <2>3. QED
    BY <1>15, <2>1, <2>2
<1>20. GotKnown(pc, calls, M, got)
  BY <1>1 DEF GotKnown
<1>21. QED
  BY <1>5, <1>6, <1>8, <1>9, <1>10, <1>12, <1>13, <1>17, <1>18, <1>19, <1>20 DEF CollectivesInv

LEMMA NextInv == CollectivesInv /\ [Next]_vars => CollectivesInv'
<1> SUFFICES ASSUME CollectivesInv, [Next]_vars PROVE CollectivesInv'
  OBVIOUS
<1>1. ASSUME NEW t \in Thread, Step(t) PROVE CollectivesInv'
  BY <1>1, CreateStep, SpawnStep, SubWorldStep, BeginStep, SendStep, WaitStep, RecvStep, ReturnStep DEF Step
<1>2. CASE UNCHANGED vars
  <2>1. /\ id' = id /\ children' = children /\ calls' = calls /\ counter' = counter /\ p2p' = p2p
        /\ event' = event /\ todo' = todo /\ pc' = pc /\ wcount' = wcount /\ got' = got
        /\ db' = db /\ sent' = sent /\ acks' = acks
    BY <1>2 DEF vars, ctxVars, makeVars, chanVars
  <2>2. QED
    BY <2>1 DEF CollectivesInv, Typed
<1>3. QED
  BY <1>1, <1>2 DEF Next, SomeStep, Terminating

\* CollectivesInv holds always.
THEOREM Invariance == Spec => []CollectivesInv
  BY InitInv, NextInv, PTL DEF Spec

-----------------------------------------------------------------------------
(* What the invariant gives.                                               *)

LEMMA InvTypeOK == CollectivesInv => TypeOK
<1> SUFFICES ASSUME CollectivesInv PROVE TypeOK
  OBVIOUS
<1>1. Typed /\ Runs(calls, todo, pc)
  BY DEF CollectivesInv
<1>2. ASSUME NEW t \in Thread
      PROVE  /\ calls[t] \in 0 .. Len(Program[t[1]])
             /\ counter[t] \in 0 .. calls[t]
             /\ pc[t] \in {"idle", "step", "throttle"}
             /\ wcount[t] \in Nat
             /\ \A i \in DOMAIN todo[t] : todo[t][i].rank \in Rank(t[1]) \ {t[2]}
  <2>1. /\ calls[t] \in Nat /\ calls[t] <= Len(Program[t[1]]) /\ pc[t] \in {"idle", "step", "throttle"}
        /\ todo[t] \in Seq(StepSet(WorldSize(t[1]), t[2]))
    BY <1>1 DEF Runs, RunAt
  <2>2. counter[t] \in Nat /\ counter[t] <= calls[t] /\ wcount[t] \in Nat
    BY <1>1 DEF Typed
  <2>3. t[1] \in Ctx /\ Len(Program[t[1]]) \in Nat /\ Rank(t[1]) = 0 .. (WorldSize(t[1]) - 1)
    BY ThreadFacts, ContextsFacts
  <2>4. calls[t] \in 0 .. Len(Program[t[1]]) /\ counter[t] \in 0 .. calls[t]
    BY <2>1, <2>2, <2>3
  <2>5. ASSUME NEW i \in DOMAIN todo[t] PROVE todo[t][i].rank \in Rank(t[1]) \ {t[2]}
    <3>1. todo[t][i] \in StepSet(WorldSize(t[1]), t[2])
      BY <2>1, <2>5
    <3>2. QED
      BY <2>3, <3>1, StepKind
  <2>6. QED
    BY <2>1, <2>2, <2>4, <2>5
<1>3. \A p, q \in Party : sent[p][q] \in Nat /\ acks[p][q] \in Nat
  BY <1>1 DEF Typed
<1>4. QED
  BY <1>2, <1>3 DEF TypeOK

LEMMA InvNoKeyClash == CollectivesInv => NoKeyClash
<1> SUFFICES ASSUME CollectivesInv, NEW t \in Thread,
                    pc[t] = "step", todo[t] # <<>>, Head(todo[t]).do = "send",
                    NEW m \in db[PartyOf(t[1], t[2])][PartyOf(t[1], Head(todo[t]).rank)]
             PROVE  m.key # event[t]
  BY DEF NoKeyClash
<1>1. PICK c, r, q, n, M, i : /\ c = t[1] /\ r = t[2] /\ q = Head(todo[t]).rank /\ n = calls[t]
                              /\ M = Made(calls, todo, pc) /\ i = Made(calls, todo, pc)[t] + 1
  OBVIOUS
<1>2. /\ q \in Rank(c) /\ AtStep(calls, M, t, c, r, n, i, SendTo(q)) /\ id[t] # <<>>
      /\ event[t] = EventKey(id[t], c, n)
  BY <1>1, HereFacts
<1>3. /\ Steady(calls, M, pc) /\ Live(id, calls, pc) /\ IdsAgree(id) /\ DbSound(id, calls, M, db)
  BY <1>1, RunsSteady DEF CollectivesInv
<1>4. m \in db[PartyOf(c, r)][PartyOf(c, q)]
  BY <1>1
<1>5. m.key # EventKey(id[t], c, n)
  BY <1>2, <1>3, <1>4, SendFresh
<1>6. QED
  BY <1>2, <1>5

LEMMA InvNothingLeft == CollectivesInv => NothingLeft
<1> SUFFICES ASSUME CollectivesInv, Done, NEW p \in Party, NEW q \in Party
             PROVE  db[p][q] = {} /\ acks[p][q] = sent[p][q]
  BY DEF NothingLeft
<1>1. PICK M : M = Made(calls, todo, pc)
  OBVIOUS
<1>2. /\ Steady(calls, M, pc) /\ DbSound(id, calls, M, db) /\ Acked(db, sent, acks) /\ Typed
  BY <1>1, RunsSteady DEF CollectivesInv
<1>3. ASSUME NEW m \in db[p][q] PROVE FALSE
  <2>1. PICK c, n, r, s, i, j : Origin(id, calls, M, p, q, m, c, n, r, s, i, j)
    BY <1>2, <1>3 DEF DbSound
  <2>2. /\ c \in Ctx /\ n \in Talks(c) /\ s \in Rank(c) /\ j \in 1 .. Len(StepsOf(c, n, s))
        /\ ~Past(calls, M, <<c, s>>, n, j)
    BY <2>1 DEF Origin, OnWay
  <2>3. PICK t : t = <<c, s>> /\ t \in Thread /\ t[1] = c
    BY <2>2, ThreadFacts
  <2>4. pc[<<c, s>>] = "idle" /\ calls[<<c, s>>] = Len(Program[c])
    BY <2>3 DEF Done
  <2>5. PICK used : c \notin used
    <3>1. c \notin {}
      OBVIOUS
    <3>2. QED
      BY <3>1
  <2>6. calls[<<c, s>>] = IF c \in used THEN 0 ELSE Len(Program[c])
    BY <2>4, <2>5
  <2>7. Past(calls, M, <<c, s>>, n, j) <=> c \notin used
    BY <1>2, <2>2, <2>4, <2>6, InitPast
  <2>8. QED
    BY <2>2, <2>5, <2>7
<1>4. db[p][q] = {}
  BY <1>3
<1>5. acks[p][q] \in Nat /\ sent[p][q] \in Nat /\ sent[p][q] = acks[p][q] + Cardinality(db[p][q])
  BY <1>2 DEF Acked, Typed
<1>6. Cardinality({}) = 0
  BY FS_EmptySet
<1>7. QED
  BY <1>4, <1>5, <1>6

LEMMA InvKeysClean == CollectivesInv => KeysClean
  BY InvTypeOK, InvNoKeyClash, InvNothingLeft DEF KeysClean

\* A call that returns has made all its steps.
LEMMA ReturnFacts ==
  ASSUME CollectivesInv, NEW t \in Thread, Returning(t)
  PROVE  /\ calls[t] \in Talks(t[1])
         /\ Made(calls, todo, pc)[t] = Len(StepsOf(t[1], calls[t], t[2]))
         /\ GotAt(calls, Made(calls, todo, pc), got, t)
         /\ t[1] \in Ctx /\ t[2] \in Rank(t[1]) /\ t = <<t[1], t[2]>>
<1>1. Runs(calls, todo, pc) /\ GotKnown(pc, calls, Made(calls, todo, pc), got)
  BY DEF CollectivesInv
<1>2. pc[t] = "step" /\ todo[t] = <<>>
  BY DEF Returning
<1>3. t[1] \in Ctx /\ t[2] \in Rank(t[1]) /\ t = <<t[1], t[2]>>
  BY ThreadFacts
<1>4. calls[t] \in Talks(t[1])
  BY <1>1, <1>2 DEF Runs, RunAt
<1>5. Len(StepsOf(t[1], calls[t], t[2])) \in Nat /\ Len(<<>>) = 0
  BY <1>3, <1>4, StepsLength
<1>6. MadeAt(calls[t], todo[t], pc[t], t) = Len(StepsOf(t[1], calls[t], t[2]))
  BY <1>2, <1>4, <1>5 DEF MadeAt
<1>7. Made(calls, todo, pc)[t] = Len(StepsOf(t[1], calls[t], t[2]))
  BY <1>6 DEF Made
<1>8. QED
  BY <1>1, <1>2, <1>3, <1>4, <1>7 DEF GotKnown

LEMMA InvBarrierSafe == CollectivesInv => BarrierSafe
<1> SUFFICES ASSUME CollectivesInv, NEW t \in Thread, Returning(t),
                    \/ Current(t).op \in {"barrier", "allgather"}
                    \/ (Current(t).op = "allgatherv" /\ Current(t).size > 0),
                    NEW q \in Rank(t[1])
             PROVE  calls[<<t[1], q>>] >= calls[t]
  BY DEF BarrierSafe
<1>1. PICK c, r, n, M, N : /\ c = t[1] /\ r = t[2] /\ n = calls[t] /\ M = Made(calls, todo, pc)
                           /\ N = WorldSize(c)
  OBVIOUS
<1>2. /\ n \in Talks(c) /\ M[t] = Len(StepsOf(c, n, r)) /\ c \in Ctx /\ r \in Rank(c) /\ t = <<c, r>>
  BY <1>1, ReturnFacts
<1>3. /\ BarrierKnown(calls, M) /\ Causal(calls, M) /\ calls \in [Thread -> Nat]
  BY <1>1 DEF CollectivesInv, Runs
<1>4. N \in Nat \ {0} /\ Rank(c) = 0 .. (N - 1) /\ n \in Nat /\ q \in Rank(c) /\ Current(t) = Program[c][n]
  BY <1>1, <1>2, ContextsFacts, StepsLength DEF Current
<1>5. calls[<<c, r>>] = n /\ calls[<<c, q>>] \in Nat
  BY <1>1, <1>2, <1>3, <1>4, ThreadFacts
<1>6. \A i : i <= M[t] => Past(calls, M, <<c, r>>, n, i)
  BY <1>2, <1>5 DEF Past
<1>7. CASE Program[c][n].op = "barrier"
  <2>1. StepsOf(c, n, r) = BarrierSteps(N, r)
    BY <1>1, <1>2, <1>7, BarrierCall
  <2>2. M[t] = 2 * Rounds(N)
    BY <1>2, <1>4, <2>1, BarrierRounds
  <2>3. Rounds(N) \in Nat /\ Shift[Rounds(N)] >= N /\ Shift[Rounds(N)] \in Nat
    BY <1>4, RoundsFacts, ShiftGrows
  <2>4. CASE Rounds(N) = 0
    <3>1. N = 1
      BY <1>4, <2>3, <2>4, ShiftDef
    <3>2. q = r
      BY <1>2, <1>4, <3>1
    <3>3. QED
      BY <1>1, <1>4, <1>5, <3>2
  <2>5. CASE Rounds(N) # 0
    <3>1. PICK k : k = Rounds(N) - 1
      OBVIOUS
    <3>2. k \in 0 .. (Rounds(N) - 1) /\ k + 1 = Rounds(N) /\ 2 * k + 2 <= M[t]
      BY <2>2, <2>3, <2>5, <3>1
    <3>3. Past(calls, M, <<c, r>>, n, 2 * k + 2)
      BY <1>6, <3>2
    <3>4. RingOffset(q, r, N) \in 0 .. (N - 1)
      <4>1. q \in 0 .. (N - 1) /\ r \in 0 .. (N - 1) /\ q \in 0 .. N /\ q < N
        BY <1>2, <1>4
      <4>2. RingOffset(q, r, N) = IF r >= q THEN r - q ELSE r - q + N
        BY <1>4, <4>1, RankFacts
      <4>3. QED
        BY <1>4, <4>1, <4>2
    <3>5. RingOffset(q, r, N) < Shift[k + 1]
      BY <1>4, <2>3, <3>2, <3>4
    <3>6. calls[<<c, q>>] >= n
      BY <1>1, <1>2, <1>3, <1>4, <1>7, <3>2, <3>3, <3>5 DEF BarrierKnown
    <3>7. QED
      BY <1>1, <3>6
  <2>6. QED
    BY <2>4, <2>5
<1>8. CASE Program[c][n].op # "barrier"
  <2>1. ImplOf(Program[c][n].op) = "allgather" /\ ~Skips(c, n)
    BY <1>4, <1>8 DEF ImplOf, Skips, Vectors
  <2>2. StepsOf(c, n, r) = AllGatherSteps(N, r) /\ StepsOf(c, n, q) = AllGatherSteps(N, q)
    BY <1>1, <1>2, <1>4, <2>1, StepsCases
  <2>3. CASE q = r
    BY <1>1, <1>4, <1>5, <2>3
  <2>4. CASE q # r
    <3>1. PICK j \in 1 .. Len(StepsOf(c, n, r)) : StepsOf(c, n, r)[j] = RecvFrom(q)
      <4>1. r \in 0 .. (N - 1) /\ q \in (0 .. (N - 1)) \ {r}
        BY <1>2, <1>4, <2>4
      <4>2. \E i \in 1 .. Len(AllGatherSteps(N, r)) : AllGatherSteps(N, r)[i] = RecvFrom(q)
        BY <1>4, <4>1, AllGatherFacts
      <4>3. QED
        BY <2>2, <4>2
    <3>2. PICK i \in 1 .. Len(StepsOf(c, n, q)) : StepsOf(c, n, q)[i] = SendTo(r)
      <4>1. q \in 0 .. (N - 1) /\ r \in (0 .. (N - 1)) \ {q}
        BY <1>2, <1>4, <2>4
      <4>2. \E i \in 1 .. Len(AllGatherSteps(N, q)) : AllGatherSteps(N, q)[i] = SendTo(r)
        BY <1>4, <4>1, AllGatherFacts
      <4>3. QED
        BY <2>2, <4>2
    <3>3. Ends(c, n, q, i, r, j)
      BY <3>1, <3>2 DEF Ends
    <3>4. Past(calls, M, <<c, r>>, n, j)
      BY <1>2, <1>6, <3>1
    <3>5. Past(calls, M, <<c, q>>, n, i)
      BY <1>2, <1>3, <1>4, <3>1, <3>2, <3>3, <3>4 DEF Causal
    <3>6. calls[<<c, q>>] >= n
      BY <1>4, <1>5, <3>5 DEF Past
    <3>7. QED
      BY <1>1, <3>6
  <2>5. QED
    BY <2>3, <2>4
<1>9. QED
  BY <1>7, <1>8

\* What a rank has that has made all steps of a call.
HasAll(c, n, r, g) ==
  /\ HasInput(Program[c][n], r) => g[r] = Given(c, n, r)
  /\ \A j \in 1 .. Len(StepsOf(c, n, r)) : \A q \in Rank(c) :
       StepsOf(c, n, r)[j] = RecvFrom(q) => g[PlaceOf(c, n, q)] = Val(c, n, q, r)

\* AllGather, and Gather at the root, in both forms.
LEMMA GatheredFacts ==
  ASSUME NEW c \in Ctx, NEW n \in Talks(c), NEW r \in Rank(c), NEW g, HasAll(c, n, r, g), ~Skips(c, n),
         \/ ImplOf(Program[c][n].op) = "allgather"
         \/ ImplOf(Program[c][n].op) = "gather" /\ r = Program[c][n].root,
         NEW q \in Rank(c)
  PROVE  g[q] = Given(c, n, q)
<1>1. PICK op, N : op = ImplOf(Program[c][n].op) /\ N = WorldSize(c)
  OBVIOUS
<1>2. op \in {"allgather", "gather"}
  BY <1>1
<1>3. CASE q = r
  BY <1>1, <1>2, <1>3 DEF HasAll, HasInput
<1>4. CASE q # r
  <2>1. N \in Nat \ {0} /\ r \in 0 .. (N - 1) /\ q \in (0 .. (N - 1)) \ {r}
    BY <1>1, <1>4, ContextsFacts
  <2>2. \E j \in 1 .. Len(StepsOf(c, n, r)) : StepsOf(c, n, r)[j] = RecvFrom(q)
    <3>1. CASE op = "allgather"
      <4>1. StepsOf(c, n, r) = AllGatherSteps(N, r)
        BY <1>1, <3>1, StepsCases
      <4>2. \E j \in 1 .. Len(AllGatherSteps(N, r)) : AllGatherSteps(N, r)[j] = RecvFrom(q)
        BY <2>1, AllGatherFacts
      <4>3. QED
        BY <4>1, <4>2
    <3>2. CASE op = "gather" /\ r = Program[c][n].root
      <4>1. StepsOf(c, n, r) = GatherSteps(N, r, Program[c][n].root)
        BY <1>1, <3>2, StepsCases
      <4>2. StepsOf(c, n, r) = RecvAll(N, r)
        BY <3>2, <4>1 DEF GatherSteps
      <4>3. AllReceived(RecvAll(N, r), N, r)
        BY <2>1, RecvAllFacts
      <4>4. QED
        BY <2>1, <4>2, <4>3 DEF AllReceived
    <3>3. QED
      BY <1>1, <3>1, <3>2
  <2>3. g[PlaceOf(c, n, q)] = Val(c, n, q, r)
    BY <2>2 DEF HasAll
  <2>4. Program[c][n].op \in {"allgather", "allgatherv", "gather", "gatherv"}
    BY <1>1, <1>2, StepsCases
  <2>5. PlaceOf(c, n, q) = q /\ Val(c, n, q, r) = Given(c, n, q)
    BY <2>4 DEF PlaceOf, Val
  <2>6. QED
    BY <2>3, <2>5
<1>5. QED
  BY <1>3, <1>4

LEMMA BroadcastFacts ==
  ASSUME NEW c \in Ctx, NEW n \in Talks(c), NEW r \in Rank(c), NEW g, HasAll(c, n, r, g),
         Program[c][n].op = "bcast"
  PROVE  g[Program[c][n].root] = Input(c, n, Program[c][n].root)
<1>1. PICK root, N, S : root = Program[c][n].root /\ N = WorldSize(c) /\ S = StepsOf(c, n, r)
  OBVIOUS
<1>2. Program[c][n].op \notin Vectors
  BY DEF Vectors
<1>3. CASE r = root
  BY <1>1, <1>2, <1>3 DEF HasAll, HasInput, Given
<1>4. CASE r # root
  <2>1. BroadcastShape(S, N, r, root)
    BY <1>1, BroadcastCall
  <2>2. Len(S) \in Nat /\ Rank(c) = 0 .. (N - 1)
    BY <1>1, StepsLength, ContextsFacts
  <2>3. 1 \in 1 .. Len(S) /\ \E q \in Rank(c) : S[1] = RecvFrom(q)
    BY <1>4, <2>1, <2>2 DEF BroadcastShape
  <2>4. PICK q \in Rank(c) : S[1] = RecvFrom(q)
    BY <2>3
  <2>5. g[PlaceOf(c, n, q)] = Val(c, n, q, r)
    BY <1>1, <2>3, <2>4 DEF HasAll
  <2>6. QED
    BY <1>1, <2>5 DEF PlaceOf, Val
<1>5. QED
  BY <1>3, <1>4

\* Scatter, and the receiver of a point-to-point message.
LEMMA ReceivedFacts ==
  ASSUME NEW c \in Ctx, NEW n \in Talks(c), NEW r \in Rank(c), NEW g, HasAll(c, n, r, g)
  PROVE  /\ Program[c][n].op = "scatter" => g[Program[c][n].root] = Input(c, n, r)
         /\ Program[c][n].op = "p2p" /\ r = Program[c][n].peer =>
              g[Program[c][n].root] = Input(c, n, Program[c][n].root)
<1>1. PICK call, root, N, S :
        call = Program[c][n] /\ root = Program[c][n].root /\ N = WorldSize(c) /\ S = StepsOf(c, n, r)
  OBVIOUS
<1>2. n \in DOMAIN Program[c] /\ root \in Rank(c) /\ (call.op = "p2p" => root # call.peer)
  <2>1. n \in DOMAIN Program[c]
    BY DEF Talks
  <2>2. QED
    BY <1>1, <2>1, CallFacts
<1>3. ASSUME call.op \in {"scatter", "p2p"}, S = <<RecvFrom(root)>>
      PROVE  g[root] = Val(c, n, root, r)
  <2>1. Len(S) = 1 /\ S[1] = RecvFrom(root)
    BY <1>3
  <2>2. 1 \in 1 .. Len(S)
    BY <2>1
  <2>3. g[PlaceOf(c, n, root)] = Val(c, n, root, r)
    BY <1>1, <1>2, <2>1, <2>2 DEF HasAll
  <2>4. PlaceOf(c, n, root) = root
    BY <1>1, <1>3 DEF PlaceOf
  <2>5. QED
    BY <2>3, <2>4
<1>4. ASSUME call.op = "scatter" PROVE g[root] = Input(c, n, r)
  <2>1. ImplOf(call.op) = "scatter" /\ call.op \notin Vectors /\ ~Skips(c, n)
    BY <1>1, <1>4 DEF ImplOf, Vectors, Skips
  <2>2. CASE r = root
    BY <1>1, <2>1, <2>2 DEF HasAll, HasInput, Given
  <2>3. CASE r # root
    <3>1. S = ScatterSteps(N, r, root)
      BY <1>1, <2>1, StepsCases
    <3>2. S = <<RecvFrom(root)>>
      BY <2>3, <3>1 DEF ScatterSteps
    <3>3. g[root] = Val(c, n, root, r)
      BY <1>3, <1>4, <3>2
    <3>4. QED
      BY <1>1, <1>4, <3>3 DEF Val
  <2>4. QED
    BY <2>2, <2>3
<1>5. ASSUME call.op = "p2p", r = call.peer PROVE g[root] = Input(c, n, root)
  <2>1. ImplOf(call.op) = "p2p" /\ call.op \notin Vectors /\ ~Skips(c, n)
    BY <1>1, <1>5 DEF ImplOf, Vectors, Skips
  <2>2. S = P2PSteps(r, root, call.peer)
    BY <1>1, <2>1, StepsCases
  <2>3. S = <<RecvFrom(root)>>
    BY <1>2, <1>5, <2>2 DEF P2PSteps
  <2>4. g[root] = Val(c, n, root, r)
    BY <1>3, <1>5, <2>3
  <2>5. QED
    BY <1>1, <1>5, <2>1, <2>4 DEF Val, Given
<1>6. QED
  BY <1>1, <1>4, <1>5

\* A vector of buffers comes out of Unpacked as it went into Packed.
LEMMA PackedFacts ==
  ASSUME NEW c, NEW n, NEW q, Program[c][n].size \in Nat, NEW i \in 1 .. Program[c][n].size
  PROVE  (IF Program[c][n].size = 1 THEN <<Packed(c, n, q)>> ELSE DeserializeArrayOfBuffers(Packed(c, n, q)))[i]
           = Buffers(c, n, q)[i]
<1>1. PICK k, B : k = Program[c][n].size /\ B = Buffers(c, n, q)
  OBVIOUS
<1>2. k \in Nat /\ i \in 1 .. k /\ B = [j \in 1 .. k |-> <<c, n, q, j>>]
  BY <1>1 DEF Buffers
<1>3. Len(B) = k
  BY <1>2
<1>4. CASE k = 1
  <2>1. Packed(c, n, q) = B[1] /\ i = 1
    BY <1>1, <1>2, <1>3, <1>4 DEF Packed
  <2>2. QED
    BY <1>1, <1>4, <2>1
<1>5. CASE k # 1
  <2>1. Packed(c, n, q) = [proto |-> B]
    BY <1>1, <1>3, <1>5 DEF Packed, SerializeArrayOfBuffers
  <2>2. DeserializeArrayOfBuffers(Packed(c, n, q)) = B
    BY <2>1 DEF DeserializeArrayOfBuffers
  <2>3. QED
    BY <1>1, <1>5, <2>2
<1>6. QED
  BY <1>4, <1>5

LEMMA InvResultCorrect == CollectivesInv => ResultCorrect
<1> SUFFICES ASSUME CollectivesInv, NEW t \in Thread, Returning(t)
             PROVE  LET call == Current(t)
                        n == calls[t]
                        r == t[2]
                    IN  /\ call.op = "bcast" => got[t][call.root] = Input(t[1], n, call.root)
                        /\ call.op = "allgather" => \A q \in Rank(t[1]) : got[t][q] = Input(t[1], n, q)
                        /\ call.op = "gather" /\ r = call.root =>
                             \A q \in Rank(t[1]) : got[t][q] = Input(t[1], n, q)
                        /\ call.op = "allgatherv" \/ (call.op = "gatherv" /\ r = call.root) =>
                             \A i \in 1 .. call.size, q \in Rank(t[1]) :
                               outputs(t)[i][q] = Buffers(t[1], n, q)[i]
                        /\ call.op = "scatter" => got[t][call.root] = Input(t[1], n, r)
                        /\ call.op = "p2p" /\ r = call.peer =>
                             got[t][call.root] = Input(t[1], n, call.root)
  BY DEF ResultCorrect
<1>1. PICK c, r, n, call, g : /\ c = t[1] /\ r = t[2] /\ n = calls[t] /\ call = Current(t)
                              /\ g = got[t]
  OBVIOUS
<1>2. /\ n \in Talks(c) /\ c \in Ctx /\ r \in Rank(c) /\ t = <<c, r>> /\ call = Program[c][n]
      /\ HasAll(c, n, r, g)
  <2>1. PICK M : M = Made(calls, todo, pc)
    OBVIOUS
  <2>2. /\ n \in Talks(c) /\ c \in Ctx /\ r \in Rank(c) /\ t = <<c, r>>
        /\ M[t] = Len(StepsOf(c, n, r)) /\ GotAt(calls, M, got, t)
    BY <1>1, <2>1, ReturnFacts
  <2>3. Len(StepsOf(c, n, r)) \in Nat
    BY <2>2, StepsLength
  <2>4. /\ HasInput(Program[c][n], r) => g[r] = Given(c, n, r)
        /\ \A j \in 1 .. Len(StepsOf(c, n, r)) : \A q \in Rank(c) :
             j <= M[t] /\ StepsOf(c, n, r)[j] = RecvFrom(q) => g[PlaceOf(c, n, q)] = Val(c, n, q, r)
    BY <1>1, <2>2 DEF GotAt
  <2>5. \A j \in 1 .. Len(StepsOf(c, n, r)) : j <= M[t]
    BY <2>2, <2>3
  <2>6. HasAll(c, n, r, g)
    BY <2>4, <2>5 DEF HasAll
  <2>7. QED
    BY <1>1, <2>2, <2>6 DEF Current
<1>3. call.op = "bcast" => g[call.root] = Input(c, n, call.root)
  BY <1>2, BroadcastFacts
<1>4. /\ call.op = "scatter" => g[call.root] = Input(c, n, r)
      /\ call.op = "p2p" /\ r = call.peer => g[call.root] = Input(c, n, call.root)
  BY <1>2, ReceivedFacts
<1>5. ASSUME call.op = "allgather" \/ (call.op = "gather" /\ r = call.root), NEW q \in Rank(c)
      PROVE  g[q] = Input(c, n, q)
  <2>1. call.op \notin Vectors /\ ~Skips(c, n)
    BY <1>2, <1>5 DEF Vectors, Skips
  <2>2. ImplOf(call.op) = "allgather" \/ (ImplOf(call.op) = "gather" /\ r = call.root)
    BY <1>5 DEF ImplOf
  <2>3. g[q] = Given(c, n, q)
    BY <1>2, <2>1, <2>2, GatheredFacts
  <2>4. QED
    BY <1>2, <2>1, <2>3 DEF Given
<1>6. ASSUME call.op = "allgatherv" \/ (call.op = "gatherv" /\ r = call.root),
             NEW i \in 1 .. call.size, NEW q \in Rank(c)
      PROVE  outputs(t)[i][q] = Buffers(c, n, q)[i]
  <2>1. call.size \in Nat
    <3>1. n \in DOMAIN Program[c]
      BY <1>2 DEF Talks
    <3>2. QED
      BY <1>2, <3>1, CallFacts
  <2>2. call.op \in Vectors /\ ~Skips(c, n)
    BY <1>2, <1>6, <2>1 DEF Vectors, Skips
  <2>3. ImplOf(call.op) = "allgather" \/ (ImplOf(call.op) = "gather" /\ r = call.root)
    BY <1>6 DEF ImplOf
  <2>4. g[q] = Given(c, n, q)
    BY <1>2, <2>2, <2>3, GatheredFacts
  <2>5. g[q] = Packed(c, n, q)
    BY <1>2, <2>2, <2>4 DEF Given
  <2>6. Unpacked(t, q) = IF call.size = 1 THEN <<Packed(c, n, q)>> ELSE DeserializeArrayOfBuffers(Packed(c, n, q))
    BY <1>1, <2>5 DEF Unpacked
  <2>7. Unpacked(t, q)[i] = Buffers(c, n, q)[i]
    BY <1>2, <2>1, <2>6, PackedFacts
  <2>8. outputs(t)[i][q] = Unpacked(t, q)[i]
    BY <1>1, <1>6 DEF outputs
  <2>9. QED
    BY <2>7, <2>8
<1>7. QED
  BY <1>1, <1>3, <1>4, <1>5, <1>6

-----------------------------------------------------------------------------

\* However far apart the ranks and the contexts on the same channels are, and
\* whatever Spawn and SubWorld have made, no message is sent while the receiver
\* has one with the same key (it would be dropped, channel.cc:100), and when all
\* calls have returned nothing is unread or not acknowledged (channel.cc:244).
THEOREM KeysCleanAlways == Spec => []KeysClean
  BY Invariance, InvKeysClean, PTL

\* A barrier or an AllGather returns at no rank before every rank has called it
\* (barrier.h:21).
THEOREM BarrierSafeAlways == Spec => []BarrierSafe
  BY Invariance, InvBarrierSafe, PTL

\* Every collective call returns what the inputs of its ranks say.
THEOREM ResultCorrectAlways == Spec => []ResultCorrect
  BY Invariance, InvResultCorrect, PTL

=============================================================================
