--------------------------- MODULE Package_proofs ---------------------------
(***************************************************************************)
(* Proofs about Package, for every set of shapes and data: what was stored *)
(* stays where it was stored, the marks say where, ids and full indices    *)
(* number the places of the shape, the ranges of a walk share them out,    *)
(* IsNthDimEmpty is exact, and a copy is the same.                         *)
(*                                                                         *)
(* The loops of the code are recursive functions of Package.  A lemma on   *)
(* each (Strides, the id, the index, Walk, the copy) turns it into an      *)
(* equation, by recursion and induction over sets of naturals; what the    *)
(* numbering promises follows from how many indices come Before one.       *)
(***************************************************************************)
EXTENDS Package, FiniteSetTheorems, WellFoundedInduction, TLAPS

-----------------------------------------------------------------------------
(***************************************************************************)
(* Recursive functions over an interval                                    *)
(***************************************************************************)

\* Every non-empty set of naturals has a least element.
LEMMA LeastNatural ==
    ASSUME NEW T \in SUBSET Nat, T # {}
    PROVE  \E m \in T : \A k \in T : m <= k
<1>. DEFINE Segments == {0 .. k : k \in T}
<1>1. Segments \subseteq FiniteSubsetsOf(Nat) /\ Segments # {}
  <2>1. ASSUME NEW k \in T PROVE IsFiniteSet(0 .. k) /\ 0 .. k \subseteq Nat
    <3>1. 0 \in Int /\ k \in Int
      OBVIOUS
    <3>2. IsFiniteSet(0 .. k)
      BY <3>1, FS_Interval
    <3>. QED
      BY <3>2
  <2>. QED
    BY <2>1 DEF FiniteSubsetsOf
<1>2. \E A \in Segments : \A B \in Segments : ~(<<B, A>> \in StrictSubsetOrdering(Nat))
  <2>. HIDE DEF Segments
  <2>. QED
    BY <1>1, FS_StrictSubsetOrderingWellFounded, WFMin
<1>3. PICK m \in T : \A k \in T : ~(<<0 .. k, 0 .. m>> \in StrictSubsetOrdering(Nat))
  BY <1>2
<1>4. ASSUME NEW k \in T, k < m PROVE FALSE
  <2>1. 0 .. k \subseteq 0 .. m /\ m \in 0 .. m /\ m \notin 0 .. k
    BY <1>4
  <2>2. 0 .. k # 0 .. m /\ 0 .. k \in SUBSET Nat /\ 0 .. m \in SUBSET Nat
    BY <2>1
  <2>3. <<0 .. k, 0 .. m>> \in StrictSubsetOrdering(Nat)
    BY <2>1, <2>2, Zenon DEF StrictSubsetOrdering
  <2>. QED
    BY <1>3, <2>3
<1>. QED
  BY <1>4

\* Induction over the naturals, for a set of them.
LEMMA Induction ==
    ASSUME NEW P, 0 \in P, \A n \in Nat : n \in P => n + 1 \in P
    PROVE  \A n \in Nat : n \in P
<1> SUFFICES ASSUME Nat \ P # {} PROVE FALSE
  OBVIOUS
<1>1. PICK m \in Nat \ P : \A k \in Nat \ P : m <= k
  BY LeastNatural
<1>2. m # 0 /\ m - 1 \in Nat
  OBVIOUS
<1>3. m - 1 \in P
  BY <1>1, <1>2
<1>. QED
  BY <1>2, <1>3

\* Induction from 0 up to N.
LEMMA InductionUp ==
    ASSUME NEW N \in Nat, NEW P, 0 \in P, \A n \in 1 .. N : n - 1 \in P => n \in P
    PROVE  \A n \in 0 .. N : n \in P
<1> DEFINE Q == {k \in Nat : k <= N => k \in P}
<1>1. 0 \in Q
  OBVIOUS
<1>2. ASSUME NEW k \in Nat, k \in Q PROVE k + 1 \in Q
  <2>1. CASE k + 1 <= N
    BY <1>2, <2>1, k + 1 \in 1 .. N, (k + 1) - 1 = k
  <2>. QED
    BY <2>1
<1>3. \A k \in Nat : k \in Q
  <2> HIDE DEF Q
  <2>. QED
    BY <1>1, <1>2, Induction
<1>. QED
  BY <1>3

\* Induction from N down to 0.
LEMMA InductionDown ==
    ASSUME NEW N \in Nat, NEW P, N \in P, \A n \in 0 .. N - 1 : n + 1 \in P => n \in P
    PROVE  \A n \in 0 .. N : n \in P
<1> DEFINE Q == {k \in Nat : k <= N => N - k \in P}
<1>1. 0 \in Q
  OBVIOUS
<1>2. ASSUME NEW k \in Nat, k \in Q PROVE k + 1 \in Q
  <2>1. CASE k + 1 <= N
    BY <1>2, <2>1, N - (k + 1) \in 0 .. N - 1, N - (k + 1) + 1 = N - k
  <2>. QED
    BY <2>1
<1>3. \A k \in Nat : k \in Q
  <2> HIDE DEF Q
  <2>. QED
    BY <1>1, <1>2, Induction
<1>. QED
  BY <1>3, \A n \in 0 .. N : N - n \in Nat /\ N - (N - n) = n

\* f starts (ends) with a value of S and each of its steps is as given.
Follows(f, N, S, first, step) ==
    /\ f \in [0 .. N -> S]
    /\ f[0] = first
    /\ \A n \in 1 .. N : f[n] = step[n][f[n - 1]]

FollowsDown(f, N, S, last, step) ==
    /\ f \in [0 .. N -> S]
    /\ f[N] = last
    /\ \A n \in 0 .. N - 1 : f[n] = step[n][f[n + 1]]

\* Recursion from 0 up to N defines a function.
LEMMA Recursion ==
    ASSUME NEW N \in Nat, NEW S, NEW first \in S, NEW step \in [1 .. N -> [S -> S]]
    PROVE  \E f : Follows(f, N, S, first, step)
<1> DEFINE P == {m \in Nat : m <= N => \E f : Follows(f, m, S, first, step)}
<1>1. 0 \in P
  <2>1. Follows([n \in 0 .. 0 |-> first], 0, S, first, step)
    BY DEF Follows
  <2>. QED
    BY <2>1
<1>2. ASSUME NEW m \in Nat, m \in P PROVE m + 1 \in P
  <2> SUFFICES ASSUME m + 1 <= N PROVE \E f : Follows(f, m + 1, S, first, step)
    OBVIOUS
  <2>1. PICK f : Follows(f, m, S, first, step)
    BY <1>2
  <2> DEFINE g == [n \in 0 .. m + 1 |-> IF n <= m THEN f[n] ELSE step[m + 1][f[m]]]
  <2>2. g \in [0 .. m + 1 -> S]
    BY <2>1 DEF Follows
  <2>3. g[0] = first
    BY <2>1 DEF Follows
  <2>4. ASSUME NEW n \in 1 .. m + 1 PROVE g[n] = step[n][g[n - 1]]
    <3>1. CASE n <= m
      BY <2>1, <3>1 DEF Follows
    <3>2. CASE n = m + 1
      BY <3>2
    <3>. QED
      BY <3>1, <3>2
  <2>5. Follows(g, m + 1, S, first, step)
    BY <2>2, <2>3, <2>4 DEF Follows
  <2>. QED
    BY <2>5
<1>3. N \in P
  <2> HIDE DEF P
  <2>. QED
    BY <1>1, <1>2, Induction
<1>. QED
  BY <1>3

\* Recursion from N down to 0 defines a function.
LEMMA RecursionDown ==
    ASSUME NEW N \in Nat, NEW S, NEW last \in S, NEW step \in [0 .. N - 1 -> [S -> S]]
    PROVE  \E f : FollowsDown(f, N, S, last, step)
<1> DEFINE up == [n \in 1 .. N |-> step[N - n]]
<1>1. up \in [1 .. N -> [S -> S]]
  OBVIOUS
<1>2. PICK g : Follows(g, N, S, last, up)
  <2> HIDE DEF up
  <2>. QED
    BY <1>1, Recursion, Zenon
<1> DEFINE f == [n \in 0 .. N |-> g[N - n]]
<1>3. f \in [0 .. N -> S]
  BY <1>2 DEF Follows
<1>4. f[N] = last
  BY <1>2 DEF Follows
<1>5. ASSUME NEW n \in 0 .. N - 1 PROVE f[n] = step[n][f[n + 1]]
  <2>1. /\ N - n \in 1 .. N
        /\ N - (N - n) = n
        /\ (N - n) - 1 = N - (n + 1)
        /\ n \in 0 .. N /\ n + 1 \in 0 .. N
    OBVIOUS
  <2>2. g[N - n] = up[N - n][g[(N - n) - 1]]
    BY <1>2, <2>1 DEF Follows
  <2>3. up[N - n] = step[n]
    BY <2>1
  <2>. QED
    BY <2>1, <2>2, <2>3
<1>6. FollowsDown(f, N, S, last, step)
  BY <1>3, <1>4, <1>5 DEF FollowsDown
<1>. QED
  BY <1>6

-----------------------------------------------------------------------------
(***************************************************************************)
(* PackageShape: the places of a shape                                     *)
(***************************************************************************)

\* The index gives the first Len(index) numbers of places of the shape.
Begins(shape, index) ==
    /\ index \in Seq(Nat)
    /\ Len(index) <= Len(shape)
    /\ \A i \in DOMAIN index : index[i] < shape[i]

\* How many indices of n numbers come before the first n numbers of index.
Before(shape, index) ==
    LET before[n \in 0 .. Len(index)] ==
            IF n = 0 THEN 0 ELSE before[n - 1] * shape[n] + index[n]
    IN  before

\* Strides as an equation.
LEMMA StridesStep ==
    ASSUME NEW shape \in Seq(Nat)
    PROVE  /\ Strides(shape) \in [0 .. Len(shape) -> Nat]
           /\ Strides(shape)[Len(shape)] = 1
           /\ \A n \in 0 .. Len(shape) - 1 :
                Strides(shape)[n] = Strides(shape)[n + 1] * shape[n + 1]
<1> DEFINE N == Len(shape)
           step == [n \in 0 .. N - 1 |-> [s \in Nat |-> s * shape[n + 1]]]
           Is(f) == f = [n \in 0 .. N |-> IF n = N THEN 1 ELSE f[n + 1] * shape[n + 1]]
<1>1. N \in Nat /\ \A n \in 0 .. N - 1 : n + 1 \in 0 .. N /\ shape[n + 1] \in Nat
  OBVIOUS
<1>2. step \in [0 .. N - 1 -> [Nat -> Nat]]
  <2>1. \A a, b \in Nat : a * b \in Nat
    OBVIOUS
  <2>. QED
    BY <1>1, <2>1
<1>3. PICK f : FollowsDown(f, N, Nat, 1, step)
  <2> HIDE DEF step, N
  <2>1. 1 \in Nat
    OBVIOUS
  <2>. QED
    BY <1>1, <1>2, <2>1, RecursionDown, Zenon
<1>4. f \in [0 .. N -> Nat] /\ f[N] = 1
  BY <1>3 DEF FollowsDown
<1>5. ASSUME NEW n \in 0 .. N - 1 PROVE f[n] = f[n + 1] * shape[n + 1]
  <2>1. f[n] = step[n][f[n + 1]] /\ f[n + 1] \in Nat
    BY <1>1, <1>3 DEF FollowsDown
  <2> HIDE DEF N
  <2>2. step[n] = [s \in Nat |-> s * shape[n + 1]]
    OBVIOUS
  <2> HIDE DEF step
  <2>. QED
    BY <2>1, <2>2
<1>6. Is(f)
  BY <1>4, <1>5
<1>7. Is(Strides(shape))
  BY <1>6, Zenon DEF Strides
<1> DEFINE P == {m \in 0 .. N : Strides(shape)[m] = f[m]}
<1>8. N \in P
  BY <1>6, <1>7
<1>9. ASSUME NEW n \in 0 .. N - 1, n + 1 \in P PROVE n \in P
  BY <1>6, <1>7, <1>9
<1>10. \A n \in 0 .. N : n \in P
  <2> HIDE DEF P, N
  <2>. QED
    BY <1>1, <1>8, <1>9, InductionDown
<1>11. Strides(shape) = f
  BY <1>6, <1>7, <1>10
<1>. QED
  BY <1>4, <1>5, <1>11

\* The loop of GetIdFromFullIndex as an equation.
LEMMA IdSteps ==
    ASSUME NEW shape \in Seq(Nat), NEW index \in [DOMAIN shape -> Nat]
    PROVE  \E f \in [0 .. Len(shape) -> Nat] :
             /\ GetIdFromFullIndex(shape, index) = f[0]
             /\ f[Len(shape)] = 0
             /\ \A n \in 0 .. Len(shape) - 1 :
                  f[n] = f[n + 1] + Strides(shape)[n + 1] * index[n + 1]
<1> DEFINE N == Len(shape)
           add == [n \in 0 .. N - 1 |-> Strides(shape)[n + 1] * index[n + 1]]
           step == [n \in 0 .. N - 1 |-> [s \in Nat |-> s + add[n]]]
           Is(f) == f = [n \in 0 .. N |->
                            IF n = N THEN 0 ELSE f[n + 1] + Strides(shape)[n + 1] * index[n + 1]]
<1>1. N \in Nat /\ DOMAIN shape = 1 .. N /\ \A n \in 0 .. N - 1 : n + 1 \in 0 .. N
  OBVIOUS
<1>2. add \in [0 .. N - 1 -> Nat]
  <2>1. \A a, b \in Nat : a * b \in Nat
    OBVIOUS
  <2>2. \A n \in 0 .. N - 1 : Strides(shape)[n + 1] \in Nat /\ index[n + 1] \in Nat
    BY <1>1, StridesStep
  <2>. QED
    BY <2>1, <2>2
<1>3. step \in [0 .. N - 1 -> [Nat -> Nat]]
  <2> HIDE DEF add
  <2>. QED
    BY <1>2
<1>4. PICK f : FollowsDown(f, N, Nat, 0, step)
  <2> HIDE DEF step, N
  <2>1. 0 \in Nat
    OBVIOUS
  <2>. QED
    BY <1>1, <1>3, <2>1, RecursionDown, Zenon
<1>5. f \in [0 .. N -> Nat] /\ f[N] = 0
  BY <1>4 DEF FollowsDown
<1>6. ASSUME NEW n \in 0 .. N - 1
      PROVE  f[n] = f[n + 1] + Strides(shape)[n + 1] * index[n + 1]
  <2>1. f[n] = step[n][f[n + 1]] /\ f[n + 1] \in Nat
    BY <1>1, <1>4 DEF FollowsDown
  <2>2. add[n] = Strides(shape)[n + 1] * index[n + 1]
    OBVIOUS
  <2> HIDE DEF N, add
  <2>3. step[n] = [s \in Nat |-> s + add[n]]
    OBVIOUS
  <2> HIDE DEF step
  <2>. QED
    BY <2>1, <2>2, <2>3
<1>7. Is(f)
  BY <1>5, <1>6
<1>8. PICK g : Is(g) /\ GetIdFromFullIndex(shape, index) = g[0]
  BY <1>7, Zenon DEF GetIdFromFullIndex
<1> DEFINE P == {m \in 0 .. N : g[m] = f[m]}
<1>9. N \in P
  BY <1>7, <1>8
<1>10. ASSUME NEW n \in 0 .. N - 1, n + 1 \in P PROVE n \in P
  BY <1>7, <1>8, <1>10
<1>11. \A n \in 0 .. N : n \in P
  <2> HIDE DEF P, N
  <2>. QED
    BY <1>1, <1>9, <1>10, InductionDown
<1>12. GetIdFromFullIndex(shape, index) = f[0]
  <2>1. 0 \in 0 .. N
    BY <1>1
  <2>2. 0 \in P
    BY <1>11, <2>1
  <2>. QED
    BY <1>8, <2>2
<1>. QED
  BY <1>5, <1>6, <1>12

\* The loop of GetIndexFromId as an equation.
LEMMA RestSteps ==
    ASSUME NEW shape \in Seq(Nat), \A i \in DOMAIN shape : shape[i] > 0, NEW id \in Nat
    PROVE  \E f \in [0 .. Len(shape) -> Nat] :
             /\ GetIndexFromId(shape, id) = [n \in DOMAIN shape |-> f[n] % shape[n]]
             /\ f[Len(shape)] = id
             /\ \A n \in 0 .. Len(shape) - 1 : f[n] = f[n + 1] \div shape[n + 1]
<1> DEFINE N == Len(shape)
           step == [n \in 0 .. N - 1 |-> [s \in Nat |-> s \div shape[n + 1]]]
           Is(f) == f = [n \in 0 .. N |-> IF n = N THEN id ELSE f[n + 1] \div shape[n + 1]]
           r == CHOOSE f : Is(f)
<1>1. /\ N \in Nat
      /\ DOMAIN shape = 1 .. N
      /\ \A n \in 0 .. N - 1 : n + 1 \in 0 .. N /\ shape[n + 1] \in Nat \ {0}
  OBVIOUS
<1>2. step \in [0 .. N - 1 -> [Nat -> Nat]]
  <2>1. \A a \in Nat, b \in Nat \ {0} : a \div b \in Nat
    OBVIOUS
  <2>. QED
    BY <1>1, <2>1
<1>3. PICK f : FollowsDown(f, N, Nat, id, step)
  <2> HIDE DEF step, N
  <2>. QED
    BY <1>1, <1>2, RecursionDown, Zenon
<1>4. f \in [0 .. N -> Nat] /\ f[N] = id
  BY <1>3 DEF FollowsDown
<1>5. ASSUME NEW n \in 0 .. N - 1 PROVE f[n] = f[n + 1] \div shape[n + 1]
  <2>1. f[n] = step[n][f[n + 1]] /\ f[n + 1] \in Nat
    BY <1>1, <1>3 DEF FollowsDown
  <2> HIDE DEF N
  <2>2. step[n] = [s \in Nat |-> s \div shape[n + 1]]
    OBVIOUS
  <2> HIDE DEF step
  <2>. QED
    BY <2>1, <2>2
<1>6. Is(f)
  BY <1>4, <1>5
<1>7. Is(r)
  BY <1>6, Zenon
<1>8. GetIndexFromId(shape, id) = [n \in DOMAIN shape |-> r[n] % shape[n]]
  BY DEF GetIndexFromId
<1> HIDE DEF r
<1> DEFINE P == {m \in 0 .. N : r[m] = f[m]}
<1>9. N \in P
  BY <1>6, <1>7
<1>10. ASSUME NEW n \in 0 .. N - 1, n + 1 \in P PROVE n \in P
  BY <1>6, <1>7, <1>10
<1>11. \A n \in 0 .. N : n \in P
  <2> HIDE DEF P, N
  <2>. QED
    BY <1>1, <1>9, <1>10, InductionDown
<1>12. \A n \in DOMAIN shape : r[n] = f[n]
  BY <1>1, <1>11
<1>13. GetIndexFromId(shape, id) = [n \in DOMAIN shape |-> f[n] % shape[n]]
  BY <1>8, <1>12
<1>. QED
  BY <1>4, <1>5, <1>13

\* Before as an equation.
LEMMA BeforeStep ==
    ASSUME NEW shape \in Seq(Nat), NEW index \in Seq(Nat), Len(index) <= Len(shape)
    PROVE  /\ Before(shape, index) \in [0 .. Len(index) -> Nat]
           /\ Before(shape, index)[0] = 0
           /\ \A n \in 1 .. Len(index) :
                Before(shape, index)[n] = Before(shape, index)[n - 1] * shape[n] + index[n]
<1> DEFINE N == Len(index)
           step == [n \in 1 .. N |-> [s \in Nat |-> s * shape[n] + index[n]]]
           Is(f) == f = [n \in 0 .. N |-> IF n = 0 THEN 0 ELSE f[n - 1] * shape[n] + index[n]]
<1>1. N \in Nat /\ \A n \in 1 .. N : n - 1 \in 0 .. N /\ shape[n] \in Nat /\ index[n] \in Nat
  OBVIOUS
<1>2. step \in [1 .. N -> [Nat -> Nat]]
  <2>1. \A a, b, c \in Nat : a * b + c \in Nat
    OBVIOUS
  <2>. QED
    BY <1>1, <2>1
<1>3. PICK f : Follows(f, N, Nat, 0, step)
  <2> HIDE DEF step, N
  <2>1. 0 \in Nat
    OBVIOUS
  <2>. QED
    BY <1>1, <1>2, <2>1, Recursion, Zenon
<1>4. f \in [0 .. N -> Nat] /\ f[0] = 0
  BY <1>3 DEF Follows
<1>5. ASSUME NEW n \in 1 .. N PROVE f[n] = f[n - 1] * shape[n] + index[n]
  <2>1. f[n] = step[n][f[n - 1]] /\ f[n - 1] \in Nat
    BY <1>1, <1>3 DEF Follows
  <2> HIDE DEF N
  <2>2. step[n] = [s \in Nat |-> s * shape[n] + index[n]]
    OBVIOUS
  <2> HIDE DEF step
  <2>. QED
    BY <2>1, <2>2
<1>6. Is(f)
  BY <1>4, <1>5
<1>7. Is(Before(shape, index))
  BY <1>6, Zenon DEF Before
<1> DEFINE P == {m \in 0 .. N : Before(shape, index)[m] = f[m]}
<1>8. 0 \in P
  BY <1>6, <1>7
<1>9. ASSUME NEW n \in 1 .. N, n - 1 \in P PROVE n \in P
  <2>1. n \in 0 .. N /\ n # 0
    OBVIOUS
  <2>2. Before(shape, index)[n] = Before(shape, index)[n - 1] * shape[n] + index[n]
    BY <1>7, <2>1
  <2>3. Before(shape, index)[n - 1] = f[n - 1]
    BY <1>9
  <2>. QED
    BY <1>5, <2>1, <2>2, <2>3
<1>10. \A n \in 0 .. N : n \in P
  <2> HIDE DEF P, N
  <2>. QED
    BY <1>1, <1>8, <1>9, InductionUp
<1>11. Before(shape, index) = f
  BY <1>6, <1>7, <1>10
<1>. QED
  BY <1>4, <1>5, <1>11

AgreeUpTo(m, s, t) == \A i \in 1 .. m : s[i] = t[i]

\* Before looks at the first numbers only, of the shape and of the index.
LEMMA BeforeAgrees ==
    ASSUME NEW shape \in Seq(Nat), NEW index \in Seq(Nat), Len(index) <= Len(shape),
           NEW shape2 \in Seq(Nat), NEW index2 \in Seq(Nat), Len(index2) <= Len(shape2),
           NEW m \in Nat, m <= Len(index), m <= Len(index2),
           AgreeUpTo(m, shape, shape2), AgreeUpTo(m, index, index2)
    PROVE  \A n \in 0 .. m : Before(shape, index)[n] = Before(shape2, index2)[n]
<1> DEFINE P == {n \in 0 .. m : Before(shape, index)[n] = Before(shape2, index2)[n]}
<1>1. 0 \in P
  BY BeforeStep
<1>2. ASSUME NEW n \in 1 .. m, n - 1 \in P PROVE n \in P
  <2>1. n \in 1 .. Len(index) /\ n \in 1 .. Len(index2) /\ n \in 0 .. m
    OBVIOUS
  <2>2. Before(shape, index)[n] = Before(shape, index)[n - 1] * shape[n] + index[n]
    BY <2>1, BeforeStep
  <2>3. Before(shape2, index2)[n] = Before(shape2, index2)[n - 1] * shape2[n] + index2[n]
    BY <2>1, BeforeStep
  <2>4. Before(shape, index)[n - 1] = Before(shape2, index2)[n - 1]
    BY <1>2
  <2>5. shape[n] = shape2[n] /\ index[n] = index2[n]
    BY DEF AgreeUpTo
  <2>. QED
    BY <2>1, <2>2, <2>3, <2>4, <2>5
<1>3. \A n \in 0 .. m : n \in P
  <2> HIDE DEF P
  <2>. QED
    BY <1>1, <1>2, InductionUp
<1>. QED
  BY <1>3

\* What the calculations rest on.
LEMMA Products ==
    /\ \A a, b \in Nat : a * b \in Nat /\ a * b = b * a
    /\ \A a, b, c \in Nat : a * (b * c) = (a * b) * c /\ (a + b) * c = a * c + b * c
    /\ \A a, b, c \in Nat : a <= b => a * c <= b * c
    /\ \A a, b \in Nat : a > 0 /\ b > 0 => a * b > 0
    /\ \A a, b \in Nat : a * b > 0 => a > 0 /\ b > 0
<1>1. \A a, b \in Nat : a * b \in Nat /\ a * b = b * a
  OBVIOUS
<1>2. \A a, b, c \in Nat : a * (b * c) = (a * b) * c /\ (a + b) * c = a * c + b * c
  OBVIOUS
<1>3. ASSUME NEW a \in Nat, NEW b \in Nat, NEW c \in Nat, a <= b PROVE a * c <= b * c
  <2>1. (b - a) * c >= 0
    BY <1>3
  <2>2. (b - a) * c = b * c - a * c
    OBVIOUS
  <2>. QED
    BY <2>1, <2>2
<1>4. \A a, b \in Nat : a > 0 /\ b > 0 => a * b > 0
  OBVIOUS
<1>5. \A a, b \in Nat : a * b > 0 => a > 0 /\ b > 0
  OBVIOUS
<1>. QED
  BY <1>1, <1>2, <1>3, <1>4, <1>5

\* Quotient and remainder are determined.
LEMMA Division ==
    ASSUME NEW q \in Nat, NEW r \in Nat, NEW d \in Nat, r < d, NEW x, x = q * d + r
    PROVE  x \div d = q /\ x % d = r
<1>1. q * d \in Nat
  BY Products
<1>. QED
  BY <1>1

\* Quotient and remainder make up the number.
LEMMA DivisionSplits ==
    ASSUME NEW x \in Nat, NEW d \in Nat, d > 0
    PROVE  /\ x \div d \in Nat
           /\ x % d \in 0 .. d - 1
           /\ x = (x \div d) * d + (x % d)
  OBVIOUS

\* A full index is a sequence as long as the shape.
LEMMA FullIndexIsSeq ==
    ASSUME NEW shape \in Seq(Nat), NEW index \in [DOMAIN shape -> Nat]
    PROVE  /\ Len(shape) \in Nat
           /\ DOMAIN shape = 1 .. Len(shape)
           /\ index \in Seq(Nat)
           /\ Len(index) = Len(shape)
<1>1. Len(shape) \in Nat /\ DOMAIN shape = 1 .. Len(shape)
  OBVIOUS
<1>2. index \in [1 .. Len(shape) -> Nat]
  BY <1>1
<1>. QED
  BY <1>1, <1>2

\* The id is the places before the first n numbers, each as many ids as the
\* stride says, and what the loop has from the other numbers.
LEMMA IdInParts ==
    ASSUME NEW shape \in Seq(Nat), NEW index \in [DOMAIN shape -> Nat],
           NEW f \in [0 .. Len(shape) -> Nat],
           GetIdFromFullIndex(shape, index) = f[0],
           f[Len(shape)] = 0,
           \A n \in 0 .. Len(shape) - 1 :
               f[n] = f[n + 1] + Strides(shape)[n + 1] * index[n + 1]
    PROVE  \A n \in 0 .. Len(shape) :
               GetIdFromFullIndex(shape, index) = Before(shape, index)[n] * Strides(shape)[n] + f[n]
<1> DEFINE N == Len(shape)
           id == GetIdFromFullIndex(shape, index)
           P == {n \in 0 .. N : id = Before(shape, index)[n] * Strides(shape)[n] + f[n]}
<1>1. N \in Nat /\ DOMAIN shape = 1 .. N /\ index \in Seq(Nat) /\ Len(index) = N
  BY FullIndexIsSeq
<1>2. 0 \in P
  <2>1. 0 \in 0 .. N
    BY <1>1
  <2>. Strides(shape)[0] \in Nat /\ f[0] \in Nat
    BY <2>1, StridesStep
  <2>2. Before(shape, index)[0] = 0
    BY <1>1, BeforeStep
  <2>. QED
    BY <2>1, <2>2
<1>3. ASSUME NEW n \in 1 .. N, n - 1 \in P PROVE n \in P
  <2> DEFINE b == Before(shape, index)[n - 1]
             s == Strides(shape)[n]
  <2>1. n - 1 \in 0 .. N /\ n - 1 \in 0 .. N - 1 /\ n \in 0 .. N /\ (n - 1) + 1 = n
    BY <1>1
  <2>2. b \in Nat /\ Before(shape, index)[n] = b * shape[n] + index[n]
    <3>1. n \in 1 .. Len(index) /\ n - 1 \in 0 .. Len(index) /\ Len(index) <= Len(shape)
      BY <1>1, <2>1
    <3>. QED
      BY <1>1, <3>1, BeforeStep
  <2>3. s \in Nat /\ Strides(shape)[n - 1] = s * shape[n]
    BY <1>1, <2>1, StridesStep
  <2>4. f[n - 1] = f[n] + s * index[n] /\ f[n] \in Nat
    BY <1>1, <2>1
  <2>5. shape[n] \in Nat /\ index[n] \in Nat
    BY <1>1
  <2>6. id = b * (s * shape[n]) + (f[n] + s * index[n])
    BY <1>3, <2>3, <2>4
  <2>7. (b * shape[n] + index[n]) * s = b * (s * shape[n]) + s * index[n]
    <3> HIDE DEF b, s
    <3>1. \A w, x, y, z \in Nat : (w * x + y) * z = w * (z * x) + z * y
      OBVIOUS
    <3>. QED
      BY <2>2, <2>3, <2>5, <3>1
  <2>8. b * (s * shape[n]) \in Nat /\ s * index[n] \in Nat
    <3> HIDE DEF b, s
    <3>1. s * shape[n] \in Nat /\ s * index[n] \in Nat
      BY <2>3, <2>5, Products
    <3>. QED
      BY <2>2, <3>1, Products
  <2>. QED
    BY <2>1, <2>2, <2>4, <2>6, <2>7, <2>8
<1>4. \A n \in 0 .. N : n \in P
  <2> HIDE DEF P, N
  <2>. QED
    BY <1>1, <1>2, <1>3, InductionUp
<1>. QED
  BY <1>4

\* A sequence of numbers below a bound is one of naturals.
LEMMA SeqOfNaturals ==
    ASSUME NEW S \in SUBSET Nat, NEW s \in Seq(S)
    PROVE  s \in Seq(Nat) /\ \A i \in DOMAIN s : s[i] \in S
<1>1. Len(s) \in Nat /\ s \in [1 .. Len(s) -> S]
  OBVIOUS
<1>2. s \in [1 .. Len(s) -> Nat] /\ DOMAIN s = 1 .. Len(s)
  BY <1>1
<1>3. s \in Seq(Nat)
  BY <1>1, <1>2
<1>. QED
  BY <1>1, <1>2, <1>3

\* The dimensions of a shape are naturals of a uint8_t.
LEMMA ShapeIsSeq ==
    ASSUME NEW shape \in Seq(0 .. 255)
    PROVE  shape \in Seq(Nat) /\ \A i \in DOMAIN shape : shape[i] \in Nat /\ shape[i] <= 255
<1>1. 0 .. 255 \in SUBSET Nat /\ \A x \in 0 .. 255 : x \in Nat /\ x <= 255
  OBVIOUS
<1>2. shape \in Seq(Nat) /\ \A i \in DOMAIN shape : shape[i] \in 0 .. 255
  BY <1>1, SeqOfNaturals, Zenon
<1>. QED
  BY <1>1, <1>2, Zenon

\* A uint8_t is stepped without overflow.
LEMMA NoWrap ==
    ASSUME NEW x \in Nat, x < 255
    PROVE  (x + 1) % 256 = x + 1
  OBVIOUS

\* The id of a full index.
LEMMA IdOfFull ==
    ASSUME NEW shape \in Seq(Nat), NEW index \in [DOMAIN shape -> Nat]
    PROVE  GetIdFromFullIndex(shape, index) = Before(shape, index)[Len(shape)]
<1> DEFINE N == Len(shape)
           id == GetIdFromFullIndex(shape, index)
           b == Before(shape, index)[N]
<1>1. PICK f \in [0 .. N -> Nat] :
        /\ id = f[0]
        /\ f[N] = 0
        /\ \A n \in 0 .. N - 1 : f[n] = f[n + 1] + Strides(shape)[n + 1] * index[n + 1]
  BY IdSteps
<1>2. N \in 0 .. N /\ b \in Nat
  BY FullIndexIsSeq, BeforeStep
<1>3. id = b * Strides(shape)[N] + f[N]
  BY <1>1, <1>2, IdInParts
<1>. QED
  BY <1>1, <1>2, <1>3, StridesStep

\* The id of an index whose other dimensions are 0.
LEMMA IdOfResized ==
    ASSUME NEW shape \in Seq(Nat), NEW index \in Seq(Nat), Len(index) <= Len(shape)
    PROVE  GetIdFromFullIndex(shape, Resized(shape, index)) =
               Before(shape, index)[Len(index)] * Strides(shape)[Len(index)]
<1> DEFINE N == Len(shape)
           m == Len(index)
           full == Resized(shape, index)
           id == GetIdFromFullIndex(shape, full)
<1>1. /\ N \in Nat /\ m \in 0 .. N
      /\ DOMAIN shape = 1 .. N
      /\ full \in [DOMAIN shape -> Nat]
      /\ \A i \in 1 .. m : full[i] = index[i]
      /\ \A i \in m + 1 .. N : full[i] = 0
  BY DEF Resized
<1> HIDE DEF full
<1>2. PICK f \in [0 .. N -> Nat] :
        /\ id = f[0]
        /\ f[N] = 0
        /\ \A n \in 0 .. N - 1 : f[n] = f[n + 1] + Strides(shape)[n + 1] * full[n + 1]
  BY <1>1, IdSteps
<1> DEFINE P == {n \in 0 .. N : n >= m => f[n] = 0}
<1>3. N \in P
  BY <1>1, <1>2
<1>4. ASSUME NEW n \in 0 .. N - 1, n + 1 \in P PROVE n \in P
  <2> SUFFICES ASSUME n >= m PROVE f[n] = 0
    OBVIOUS
  <2>1. n + 1 \in m + 1 .. N /\ n + 1 \in 0 .. N
    BY <1>1
  <2>2. f[n + 1] = 0 /\ full[n + 1] = 0
    BY <1>1, <1>4, <2>1
  <2>3. Strides(shape)[n + 1] \in Nat
    BY <2>1, StridesStep
  <2>4. f[n] = f[n + 1] + Strides(shape)[n + 1] * full[n + 1]
    BY <1>2
  <2>. QED
    BY <2>2, <2>3, <2>4
<1>5. \A n \in 0 .. N : n \in P
  <2> HIDE DEF P, N
  <2>. QED
    BY <1>1, <1>3, <1>4, InductionDown
<1>6. f[m] = 0
  BY <1>1, <1>5
<1>7. full \in Seq(Nat) /\ Len(full) = N
  BY <1>1, FullIndexIsSeq
<1>8. Before(shape, full)[m] = Before(shape, index)[m]
  <2>1. m \in Nat /\ m <= Len(full) /\ m <= Len(index) /\ Len(full) <= Len(shape) /\ m \in 0 .. m
    BY <1>1, <1>7
  <2>2. AgreeUpTo(m, shape, shape) /\ AgreeUpTo(m, full, index)
    BY <1>1 DEF AgreeUpTo
  <2>3. \A n \in 0 .. m : Before(shape, full)[n] = Before(shape, index)[n]
    <3> HIDE DEF m, N
    <3>. QED
      BY <1>7, <2>1, <2>2, BeforeAgrees
  <2>. QED
    BY <2>1, <2>3
<1>9. Before(shape, index)[m] * Strides(shape)[m] \in Nat
  <2>1. Before(shape, index)[m] \in Nat /\ Strides(shape)[m] \in Nat
    BY <1>1, BeforeStep, StridesStep
  <2>. QED
    BY <2>1, Products
<1>10. id = Before(shape, full)[m] * Strides(shape)[m] + f[m]
  <2>1. \A n \in 0 .. N : id = Before(shape, full)[n] * Strides(shape)[n] + f[n]
    BY <1>1, <1>2, IdInParts
  <2>. QED
    BY <1>1, <2>1
<1>11. \A x \in Nat : x + 0 = x
  OBVIOUS
<1>. QED
  BY <1>6, <1>8, <1>9, <1>10, <1>11, Zenon DEF full

\* The range of ids GetIdFromIndex gives: as many as the stride says.  The
\* uint8_t it steps does not wrap, for no dimension is larger than 255.
LEMMA RangeOfIndex ==
    ASSUME NEW shape \in Seq(0 .. 255), NEW index, Begins(shape, index), index # <<>>
    PROVE  LET b == Before(shape, index)[Len(index)]
               s == Strides(shape)[Len(index)]
           IN  GetIdFromIndex(shape, index) = <<b * s, (b + 1) * s>>
<1> DEFINE m == Len(index)
           next == [index EXCEPT ![m] = (@ + 1) % 256]
<1>1. shape \in Seq(Nat)
  BY ShapeIsSeq
<1>2. index \in Seq(Nat) /\ m <= Len(shape) /\ m \in Nat /\ m >= 1 /\ m \in DOMAIN index /\ m \in DOMAIN shape
  BY DEF Begins
<1>3. index[m] \in Nat /\ index[m] < shape[m] /\ shape[m] \in Nat /\ shape[m] <= 255
  BY <1>2, ShapeIsSeq DEF Begins
<1>4. (index[m] + 1) % 256 = index[m] + 1
  <2>1. index[m] < 255
    BY <1>3
  <2>. QED
    BY <1>3, <2>1, NoWrap
<1>5. /\ next \in Seq(Nat) /\ Len(next) = m
      /\ next[m] = index[m] + 1
      /\ \A i \in 1 .. m - 1 : next[i] = index[i]
  BY <1>2, <1>3, <1>4
<1> HIDE DEF next
<1>6. Before(shape, next)[m - 1] = Before(shape, index)[m - 1]
  <2>1. /\ m - 1 \in Nat /\ m - 1 <= Len(next) /\ m - 1 <= Len(index) /\ Len(next) <= Len(shape)
        /\ Len(index) <= Len(shape) /\ m - 1 \in 0 .. m - 1
    BY <1>2, <1>5
  <2>2. \A n \in 0 .. m - 1 : Before(shape, next)[n] = Before(shape, index)[n]
    <3> DEFINE k == m - 1
    <3>1. k \in Nat /\ k <= Len(next) /\ k <= Len(index)
      BY <2>1
    <3>2. AgreeUpTo(k, shape, shape) /\ AgreeUpTo(k, next, index)
      BY <1>5 DEF AgreeUpTo
    <3> HIDE DEF k
    <3>3. \A n \in 0 .. k : Before(shape, next)[n] = Before(shape, index)[n]
      BY <1>1, <1>2, <1>5, <2>1, <3>1, <3>2, BeforeAgrees
    <3>. QED
      BY <3>3 DEF k
  <2>. QED
    BY <2>1, <2>2
<1>7. /\ Before(shape, index)[m] = Before(shape, index)[m - 1] * shape[m] + index[m]
      /\ Before(shape, next)[m] = Before(shape, next)[m - 1] * shape[m] + next[m]
      /\ Before(shape, index)[m - 1] \in Nat
  <2>1. m \in 1 .. Len(index) /\ m \in 1 .. Len(next) /\ m - 1 \in 0 .. Len(index)
    BY <1>2, <1>5
  <2>2. /\ Before(shape, index)[m] = Before(shape, index)[m - 1] * shape[m] + index[m]
        /\ Before(shape, index)[m - 1] \in Nat
    BY <1>1, <1>2, <2>1, BeforeStep
  <2>3. Before(shape, next)[m] = Before(shape, next)[m - 1] * shape[m] + next[m]
    BY <1>1, <1>2, <1>5, <2>1, BeforeStep
  <2>. QED
    BY <2>2, <2>3
<1>8. Before(shape, index)[m - 1] * shape[m] \in Nat
  <2>1. \A a, b \in Nat : a * b \in Nat
    BY Products
  <2>2. shape[m] \in Nat
    BY <1>3
  <2>. QED
    BY <1>7, <2>1, <2>2
<1>9. Before(shape, next)[m] = Before(shape, index)[m] + 1
  BY <1>3, <1>5, <1>6, <1>7, <1>8
<1>10. /\ GetIdFromFullIndex(shape, Resized(shape, index)) = Before(shape, index)[m] * Strides(shape)[m]
       /\ GetIdFromFullIndex(shape, Resized(shape, next)) = Before(shape, next)[m] * Strides(shape)[m]
  BY <1>1, <1>2, <1>5, IdOfResized
<1>11. GetIdFromIndex(shape, index) =
         <<GetIdFromFullIndex(shape, Resized(shape, index)),
           GetIdFromFullIndex(shape, Resized(shape, next))>>
  BY DEF GetIdFromIndex, next
<1>. QED
  BY <1>9, <1>10, <1>11

\* A shape with places has no empty dimension.
LEMMA PositiveStrides ==
    ASSUME NEW shape \in Seq(Nat), Strides(shape)[0] > 0
    PROVE  /\ \A n \in 0 .. Len(shape) : Strides(shape)[n] > 0
           /\ \A i \in DOMAIN shape : shape[i] > 0
<1> DEFINE N == Len(shape)
           P == {n \in 0 .. N : Strides(shape)[n] > 0}
<1>1. N \in Nat /\ DOMAIN shape = 1 .. N
  OBVIOUS
<1>2. 0 \in P
  BY <1>1
<1>3. ASSUME NEW n \in 1 .. N, Strides(shape)[n - 1] > 0
      PROVE  Strides(shape)[n] > 0 /\ shape[n] > 0
  <2>1. n - 1 \in 0 .. N - 1 /\ n \in 0 .. N /\ (n - 1) + 1 = n
    BY <1>1
  <2>2. Strides(shape)[n] \in Nat /\ shape[n] \in Nat
    BY <1>1, <2>1, StridesStep
  <2>3. Strides(shape)[n - 1] = Strides(shape)[n] * shape[n]
    BY <2>1, StridesStep
  <2>. QED
    BY <1>3, <2>2, <2>3, Products
<1>4. \A n \in 0 .. N : n \in P
  <2>1. \A n \in 1 .. N : n - 1 \in P => n \in P
    BY <1>3
  <2> HIDE DEF P, N
  <2>. QED
    BY <1>1, <1>2, <2>1, InductionUp
<1>5. \A n \in 1 .. N : n - 1 \in 0 .. N
  BY <1>1
<1>. QED
  BY <1>1, <1>3, <1>4, <1>5

\* The index of an id: it is a full index, and with any of its first numbers
\* the places before it and the stride enclose the id.
LEMMA IndexOfId ==
    ASSUME NEW shape \in Seq(Nat), NEW id \in Nat, id < Strides(shape)[0]
    PROVE  LET index == GetIndexFromId(shape, id) IN
             /\ index \in [DOMAIN shape -> Nat]
             /\ \A i \in DOMAIN shape : index[i] < shape[i]
             /\ \A n \in 0 .. Len(shape) :
                  /\ Before(shape, index)[n] * Strides(shape)[n] <= id
                  /\ id < (Before(shape, index)[n] + 1) * Strides(shape)[n]
<1> DEFINE N == Len(shape)
           index == GetIndexFromId(shape, id)
           s == Strides(shape)
<1>1. /\ N \in Nat
      /\ DOMAIN shape = 1 .. N
      /\ \A n \in 1 .. N : shape[n] \in Nat
  OBVIOUS
<1>2. /\ s \in [0 .. N -> Nat]
      /\ s[N] = 1
      /\ \A n \in 0 .. N - 1 : s[n] = s[n + 1] * shape[n + 1]
  BY StridesStep
<1>3. /\ \A n \in 0 .. N : s[n] > 0
      /\ \A n \in 1 .. N : shape[n] > 0
  <2>1. s[0] \in Nat /\ s[0] > 0
    BY <1>1, <1>2
  <2>. QED
    BY <1>1, <2>1, PositiveStrides
<1>4. PICK f \in [0 .. N -> Nat] :
        /\ index = [n \in DOMAIN shape |-> f[n] % shape[n]]
        /\ f[N] = id
        /\ \A n \in 0 .. N - 1 : f[n] = f[n + 1] \div shape[n + 1]
  BY <1>1, <1>3, RestSteps
<1> HIDE DEF index, s
\* Every step of the loop splits what is left.
<1>5. ASSUME NEW n \in 1 .. N
      PROVE  /\ f[n] \in Nat /\ f[n - 1] \in Nat
             /\ index[n] \in Nat /\ index[n] < shape[n]
             /\ f[n] = f[n - 1] * shape[n] + index[n]
  <2>1. n - 1 \in 0 .. N - 1 /\ n - 1 \in 0 .. N /\ (n - 1) + 1 = n /\ n \in 0 .. N
    BY <1>1
  <2>2. f[n] \in Nat /\ f[n - 1] \in Nat /\ f[n - 1] = f[n] \div shape[n]
    BY <1>4, <2>1
  <2>3. index[n] = f[n] % shape[n]
    BY <1>1, <1>4
  <2>4. shape[n] \in Nat /\ shape[n] > 0
    BY <1>1, <1>3
  <2>5. /\ f[n] % shape[n] \in 0 .. shape[n] - 1
        /\ f[n] = (f[n] \div shape[n]) * shape[n] + (f[n] % shape[n])
    BY <2>2, <2>4, DivisionSplits
  <2>6. f[n] % shape[n] \in Nat /\ f[n] % shape[n] < shape[n]
    BY <2>4, <2>5
  <2>. QED
    BY <2>2, <2>3, <2>5, <2>6
<1>6. index \in [DOMAIN shape -> Nat] /\ \A i \in DOMAIN shape : index[i] < shape[i]
  <2>1. index = [n \in 1 .. N |-> index[n]]
    BY <1>1, <1>4
  <2>. QED
    BY <1>1, <1>5, <2>1
\* What is left encloses the id.
<1> DEFINE P == {n \in 0 .. N : f[n] * s[n] <= id /\ id < (f[n] + 1) * s[n]}
<1>7. N \in P
  <2>1. N \in 0 .. N
    BY <1>1
  <2>. QED
    BY <1>2, <1>4, <2>1
<1>8. ASSUME NEW n \in 0 .. N - 1, n + 1 \in P PROVE n \in P
  <2> DEFINE q == f[n]
             d == shape[n + 1]
             t == s[n + 1]
             r == index[n + 1]
  <2>1. n + 1 \in 1 .. N /\ (n + 1) - 1 = n /\ n \in 0 .. N /\ n + 1 \in 0 .. N
    BY <1>1
  <2>2. /\ q \in Nat /\ r \in Nat /\ d \in Nat /\ t \in Nat
        /\ r < d
        /\ f[n + 1] = q * d + r
        /\ s[n] = t * d
    BY <1>1, <1>2, <1>5, <2>1
  <2>3. (q * d + r) * t <= id /\ id < ((q * d + r) + 1) * t
    BY <1>8, <2>2
  <2> HIDE DEF q, d, t, r
  <2>4. q * (t * d) <= (q * d + r) * t
    <3>1. (q * d + r) * t = q * (t * d) + r * t
      BY <2>2
    <3>2. r * t \in Nat /\ q * (t * d) \in Nat
      <4>1. t * d \in Nat
        BY <2>2, Products
      <4>. QED
        BY <2>2, <4>1, Products
    <3>. QED
      BY <3>1, <3>2
  <2>5. ((q * d + r) + 1) * t <= (q + 1) * (t * d)
    <3>1. q * d \in Nat
      BY <2>2, Products
    <3>2. (q * d + r) + 1 \in Nat /\ q * d + d \in Nat /\ (q * d + r) + 1 <= q * d + d
      BY <2>2, <3>1
    <3>3. ((q * d + r) + 1) * t <= (q * d + d) * t
      BY <2>2, <3>2, Products
    <3>4. (q * d + d) * t = (q + 1) * (t * d)
      BY <2>2
    <3>. QED
      BY <3>3, <3>4
  <2>6. /\ q * (t * d) \in Int /\ (q * d + r) * t \in Int /\ id \in Int
        /\ ((q * d + r) + 1) * t \in Int /\ (q + 1) * (t * d) \in Int
    BY <2>2
  <2>7. q * (t * d) <= id /\ id < (q + 1) * (t * d)
    BY <2>3, <2>4, <2>5, <2>6
  <2>8. f[n] * s[n] <= id /\ id < (f[n] + 1) * s[n]
    BY <2>2, <2>7 DEF q
  <2>. QED
    BY <2>1, <2>8
<1>9. \A n \in 0 .. N : n \in P
  <2> HIDE DEF P, N
  <2>. QED
    BY <1>1, <1>7, <1>8, InductionDown
<1>10. f[0] = 0
  <2>1. 0 \in 0 .. N
    BY <1>1
  <2>2. f[0] \in Nat /\ s[0] \in Nat /\ f[0] * s[0] <= id /\ id < s[0]
    BY <1>2, <1>9, <2>1 DEF s
  <2>3. ASSUME f[0] > 0 PROVE s[0] <= f[0] * s[0]
    <3>1. 1 \in Nat /\ 1 <= f[0]
      BY <2>2, <2>3
    <3>2. 1 * s[0] <= f[0] * s[0]
      BY <2>2, <3>1, Products
    <3>. QED
      BY <2>2, <3>2
  <2>4. f[0] * s[0] \in Nat
    BY <2>2, Products
  <2>. QED
    BY <2>2, <2>3, <2>4
\* What is left is what comes before.
<1> DEFINE R == {n \in 0 .. N : Before(shape, index)[n] = f[n]}
<1>11. index \in Seq(Nat) /\ Len(index) = N
  BY <1>6, FullIndexIsSeq
<1>12. 0 \in R
  <2>1. 0 \in 0 .. N /\ Before(shape, index)[0] = 0
    BY <1>1, <1>11, BeforeStep
  <2>. QED
    BY <1>10, <2>1
<1>13. ASSUME NEW n \in 1 .. N, n - 1 \in R PROVE n \in R
  <2>1. Before(shape, index)[n] = Before(shape, index)[n - 1] * shape[n] + index[n]
    BY <1>11, BeforeStep
  <2>2. Before(shape, index)[n - 1] = f[n - 1] /\ n \in 0 .. N
    BY <1>1, <1>13
  <2>. QED
    BY <1>5, <2>1, <2>2
<1>14. \A n \in 0 .. N : n \in R
  <2> HIDE DEF R, N
  <2>. QED
    BY <1>1, <1>12, <1>13, InductionUp
<1>15. \A n \in 0 .. N : Before(shape, index)[n] * s[n] <= id /\ id < (Before(shape, index)[n] + 1) * s[n]
  BY <1>9, <1>14
<1>. QED
  BY <1>6, <1>15 DEF index, s

\* Two beginnings of the same length with as many places before them are the
\* same.
LEMMA BeforeIsInjective ==
    ASSUME NEW shape \in Seq(Nat),
           NEW i, Begins(shape, i), NEW j, Begins(shape, j),
           Len(i) = Len(j),
           Before(shape, i)[Len(i)] = Before(shape, j)[Len(j)]
    PROVE  i = j
<1> DEFINE N == Len(i)
           P == {n \in 0 .. N : Before(shape, i)[n] = Before(shape, j)[n]}
<1>1. /\ N \in Nat /\ N = Len(j)
      /\ i \in Seq(Nat) /\ j \in Seq(Nat)
      /\ Len(i) <= Len(shape) /\ Len(j) <= Len(shape)
      /\ \A n \in 1 .. N : /\ i[n] \in Nat /\ i[n] < shape[n]
                           /\ j[n] \in Nat /\ j[n] < shape[n]
                           /\ shape[n] \in Nat
  <2>1. /\ i \in Seq(Nat) /\ j \in Seq(Nat)
        /\ Len(i) <= Len(shape) /\ Len(j) <= Len(shape)
        /\ \A n \in DOMAIN i : i[n] < shape[n]
        /\ \A n \in DOMAIN j : j[n] < shape[n]
    BY DEF Begins
  <2>2. N \in Nat /\ N = Len(j) /\ DOMAIN i = 1 .. N /\ DOMAIN j = 1 .. N
    BY <2>1
  <2>3. \A n \in 1 .. N : i[n] \in Nat /\ j[n] \in Nat /\ shape[n] \in Nat
    BY <2>1, <2>2
  <2>. QED
    BY <2>1, <2>2, <2>3
<1>2. N \in P
  BY <1>1
<1>3. ASSUME NEW n \in 1 .. N, Before(shape, i)[n] = Before(shape, j)[n]
      PROVE  Before(shape, i)[n - 1] = Before(shape, j)[n - 1] /\ i[n] = j[n]
  <2>1. n - 1 \in 0 .. N
    BY <1>1
  <2>2. /\ Before(shape, i)[n] = Before(shape, i)[n - 1] * shape[n] + i[n]
        /\ Before(shape, i)[n - 1] \in Nat
    BY <1>1, <2>1, BeforeStep
  <2>3. /\ Before(shape, j)[n] = Before(shape, j)[n - 1] * shape[n] + j[n]
        /\ Before(shape, j)[n - 1] \in Nat
    BY <1>1, <2>1, BeforeStep
  <2>4. /\ Before(shape, i)[n] \div shape[n] = Before(shape, i)[n - 1]
        /\ Before(shape, i)[n] % shape[n] = i[n]
    <3> DEFINE x == Before(shape, i)[n]
               q == Before(shape, i)[n - 1]
               d == shape[n]
               r == i[n]
    <3>1. q \in Nat /\ r \in Nat /\ d \in Nat /\ r < d /\ x = q * d + r
      BY <1>1, <2>2
    <3> HIDE DEF x, q, d, r
    <3>2. x \div d = q /\ x % d = r
      BY <3>1, Division
    <3>. QED
      BY <3>2 DEF x, q, d, r
  <2>5. /\ Before(shape, j)[n] \div shape[n] = Before(shape, j)[n - 1]
        /\ Before(shape, j)[n] % shape[n] = j[n]
    <3> DEFINE x == Before(shape, j)[n]
               q == Before(shape, j)[n - 1]
               d == shape[n]
               r == j[n]
    <3>1. q \in Nat /\ r \in Nat /\ d \in Nat /\ r < d /\ x = q * d + r
      BY <1>1, <2>3
    <3> HIDE DEF x, q, d, r
    <3>2. x \div d = q /\ x % d = r
      BY <3>1, Division
    <3>. QED
      BY <3>2 DEF x, q, d, r
  <2>. QED
    BY <1>3, <2>4, <2>5
<1>4. \A n \in 0 .. N : n \in P
  <2>1. ASSUME NEW n \in 0 .. N - 1, n + 1 \in P PROVE n \in P
    <3>1. n + 1 \in 1 .. N /\ (n + 1) - 1 = n /\ n \in 0 .. N
      BY <1>1
    <3>2. Before(shape, i)[n + 1] = Before(shape, j)[n + 1]
      BY <2>1
    <3>3. Before(shape, i)[(n + 1) - 1] = Before(shape, j)[(n + 1) - 1]
      BY <1>3, <3>1, <3>2
    <3>. QED
      BY <3>1, <3>3
  <2> HIDE DEF P, N
  <2>. QED
    BY <1>1, <1>2, <2>1, InductionDown
<1>5. \A n \in 1 .. N : i[n] = j[n]
  <2>1. \A n \in 1 .. N : n \in 0 .. N
    BY <1>1
  <2>. QED
    BY <1>3, <1>4, <2>1
<1>6. i = [n \in 1 .. N |-> i[n]] /\ j = [n \in 1 .. N |-> j[n]]
  BY <1>1
<1>. QED
  BY <1>5, <1>6

\* An id lies in the range of an index exactly if its own index begins with it.
LEMMA RangeIsPrefix ==
    ASSUME NEW shape \in Seq(0 .. 255), NEW id \in 0 .. MaxNumElements(shape) - 1,
           NEW index, Begins(shape, index), index # <<>>
    PROVE  id \in GetIdFromIndex(shape, index)[1] .. GetIdFromIndex(shape, index)[2] - 1
           <=> IsPrefix(index, GetIndexFromId(shape, id))
<1> DEFINE N == Len(shape)
           m == Len(index)
           full == GetIndexFromId(shape, id)
           s == Strides(shape)[m]
           b == Before(shape, index)[m]
           c == Before(shape, full)[m]
<1>1. /\ shape \in Seq(Nat) /\ N \in Nat /\ DOMAIN shape = 1 .. N
      /\ Strides(shape)[0] \in Nat
      /\ id \in Nat /\ id < Strides(shape)[0]
  <2>1. shape \in Seq(Nat)
    BY ShapeIsSeq
  <2>2. N \in Nat /\ DOMAIN shape = 1 .. N /\ 0 \in 0 .. N
    BY <2>1
  <2>3. Strides(shape)[0] \in Nat
    BY <2>1, <2>2, StridesStep
  <2>. QED
    BY <2>1, <2>2, <2>3 DEF MaxNumElements
<1>2. index \in Seq(Nat) /\ m \in 1 .. N /\ m \in 0 .. N
  BY <1>1 DEF Begins
<1>3. /\ full \in [DOMAIN shape -> Nat]
      /\ \A i \in DOMAIN shape : full[i] < shape[i]
      /\ c * s <= id
      /\ id < (c + 1) * s
  BY <1>1, <1>2, IndexOfId
<1>4. full \in Seq(Nat) /\ Len(full) = N
  BY <1>1, <1>3, FullIndexIsSeq
<1>5. b \in Nat /\ c \in Nat /\ s \in Nat /\ s > 0
  <2>1. b \in Nat
    <3>1. Len(index) <= Len(shape) /\ m \in 0 .. Len(index)
      BY <1>1, <1>2
    <3>. QED
      BY <1>1, <1>2, <3>1, BeforeStep
  <2>2. c \in Nat
    BY <1>1, <1>2, <1>4, BeforeStep
  <2>3. s \in Nat
    BY <1>1, <1>2, StridesStep
  <2>4. Strides(shape)[0] > 0
    BY <1>1
  <2>. QED
    BY <1>1, <1>2, <2>1, <2>2, <2>3, <2>4, PositiveStrides
<1>6. GetIdFromIndex(shape, index)[1] = b * s /\ GetIdFromIndex(shape, index)[2] = (b + 1) * s
  BY RangeOfIndex
\* The id is in the range if it has as many indices of that length before it.
<1>7. id \in b * s .. (b + 1) * s - 1 <=> b = c
  <2> HIDE DEF b, c, s
  <2>1. b * s \in Nat /\ (b + 1) * s \in Nat /\ c * s \in Nat /\ (c + 1) * s \in Nat
    <3>1. b + 1 \in Nat /\ c + 1 \in Nat
      BY <1>5
    <3>. QED
      BY <1>5, <3>1, Products
  <2>2. CASE b = c
    BY <1>1, <1>3, <2>1, <2>2
  <2>3. CASE b < c
    <3>1. b + 1 \in Nat /\ b + 1 <= c
      BY <1>5, <2>3
    <3>2. (b + 1) * s <= c * s
      BY <1>5, <3>1, Products
    <3>. QED
      BY <1>1, <1>3, <1>5, <2>1, <2>3, <3>2
  <2>4. CASE c < b
    <3>1. c + 1 \in Nat /\ c + 1 <= b
      BY <1>5, <2>4
    <3>2. (c + 1) * s <= b * s
      BY <1>5, <3>1, Products
    <3>. QED
      BY <1>1, <1>3, <1>5, <2>1, <2>4, <3>2
  <2>. QED
    BY <1>5, <2>2, <2>3, <2>4
<1> HIDE DEF full
<1>8. ASSUME b = c PROVE IsPrefix(index, full)
  <2> DEFINE begin == SubSeq(full, 1, m)
  <2>1. begin \in Seq(Nat) /\ Len(begin) = m /\ \A i \in 1 .. m : begin[i] = full[i]
    BY <1>1, <1>2, <1>4
  <2> HIDE DEF begin
  <2>2. Begins(shape, begin)
    <3>1. DOMAIN begin = 1 .. m
      BY <2>1
    <3>2. \A i \in 1 .. m : full[i] < shape[i]
      <4>1. \A i \in 1 .. m : i \in DOMAIN shape
        BY <1>1, <1>2
      <4>. QED
        BY <1>3, <4>1, Zenon DEF full
    <3>3. Len(begin) <= Len(shape)
      BY <1>2, <2>1
    <3>. QED
      BY <2>1, <3>1, <3>2, <3>3 DEF Begins
  <2>3. Before(shape, begin)[m] = Before(shape, full)[m]
    <3>1. AgreeUpTo(m, shape, shape) /\ AgreeUpTo(m, begin, full)
      BY <2>1 DEF AgreeUpTo
    <3>2. m \in Nat /\ m <= Len(begin) /\ m <= Len(full) /\ Len(full) <= Len(shape) /\ m \in 0 .. m
      BY <1>1, <1>2, <1>4, <2>1
    <3>3. Len(begin) <= Len(shape)
      BY <1>2, <2>1
    <3> HIDE DEF m, N
    <3>4. \A n \in 0 .. m : Before(shape, begin)[n] = Before(shape, full)[n]
      BY <1>1, <1>4, <2>1, <3>1, <3>2, <3>3, BeforeAgrees
    <3>. QED
      BY <3>2, <3>4
  <2>4. Before(shape, begin)[Len(begin)] = Before(shape, index)[Len(index)]
    BY <1>8, <2>1, <2>3
  <2>5. begin = index
    BY <1>1, <2>1, <2>2, <2>4, BeforeIsInjective
  <2>6. SubSeq(index, 1, m) = index
    BY <1>2
  <2>. QED
    BY <1>2, <1>4, <2>5, <2>6 DEF IsPrefix, begin
<1>9. ASSUME IsPrefix(index, full) PROVE b = c
  <2>1. SubSeq(index, 1, m) = SubSeq(full, 1, m)
    BY <1>9 DEF IsPrefix
  <2>2. AgreeUpTo(m, shape, shape) /\ AgreeUpTo(m, index, full)
    <3>1. ASSUME NEW i \in 1 .. m PROVE index[i] = full[i]
      <4>1. SubSeq(index, 1, m)[i] = index[i] /\ SubSeq(full, 1, m)[i] = full[i]
        BY <1>2, <1>4
      <4>. QED
        BY <2>1, <4>1
    <3>. QED
      BY <3>1 DEF AgreeUpTo
  <2>3. /\ m \in Nat /\ m <= Len(index) /\ m <= Len(full) /\ Len(full) <= Len(shape)
        /\ Len(index) <= Len(shape) /\ m \in 0 .. m
    BY <1>1, <1>2, <1>4
  <2>4. \A n \in 0 .. m : Before(shape, index)[n] = Before(shape, full)[n]
    <3>1. shape \in Seq(Nat) /\ index \in Seq(Nat) /\ full \in Seq(Nat)
      BY <1>1, <1>2, <1>4
    <3> HIDE DEF m, N
    <3>. QED
      BY <2>2, <2>3, <3>1, BeforeAgrees
  <2>. QED
    BY <2>3, <2>4
<1>. QED
  BY <1>6, <1>7, <1>8, <1>9 DEF full

\* A full index has an id below the size of the shape.
LEMMA IdIsBelowSize ==
    ASSUME NEW shape \in Seq(Nat), NEW index \in FullIndices(shape)
    PROVE  /\ index \in [DOMAIN shape -> Nat]
           /\ GetIdFromFullIndex(shape, index) \in Nat
           /\ GetIdFromFullIndex(shape, index) < Strides(shape)[0]
<1> DEFINE N == Len(shape)
           s == Strides(shape)
<1>1. N \in Nat /\ DOMAIN shape = 1 .. N /\ \A i \in 1 .. N : shape[i] \in Nat
  OBVIOUS
<1>2. index \in [DOMAIN shape -> Nat] /\ \A i \in DOMAIN shape : index[i] < shape[i]
  <2>1. UNION {0 .. shape[i] - 1 : i \in DOMAIN shape} \subseteq Nat
    OBVIOUS
  <2>. QED
    BY <2>1 DEF FullIndices
<1>3. PICK f \in [0 .. N -> Nat] :
        /\ GetIdFromFullIndex(shape, index) = f[0]
        /\ f[N] = 0
        /\ \A n \in 0 .. N - 1 : f[n] = f[n + 1] + s[n + 1] * index[n + 1]
  BY <1>2, IdSteps
<1>4. /\ s \in [0 .. N -> Nat]
      /\ s[N] = 1
      /\ \A n \in 0 .. N - 1 : s[n] = s[n + 1] * shape[n + 1]
  BY StridesStep
<1> HIDE DEF s
<1> DEFINE P == {n \in 0 .. N : f[n] < s[n]}
<1>5. N \in P
  BY <1>1, <1>3, <1>4
<1>6. ASSUME NEW n \in 0 .. N - 1, n + 1 \in P PROVE n \in P
  <2> DEFINE t == s[n + 1]
             i == index[n + 1]
             d == shape[n + 1]
             x == f[n + 1]
  <2>1. n + 1 \in 1 .. N /\ n \in 0 .. N /\ n + 1 \in 0 .. N
    BY <1>1
  <2>2. t \in Nat /\ i \in Nat /\ d \in Nat /\ x \in Nat /\ i < d /\ x < t
    BY <1>1, <1>2, <1>3, <1>4, <1>6, <2>1
  <2>3. f[n] = x + t * i /\ s[n] = t * d
    BY <1>3, <1>4
  <2> HIDE DEF t, i, d, x
  <2>4. x + t * i < t * d
    <3>1. i + 1 \in Nat /\ i + 1 <= d
      BY <2>2
    <3>2. (i + 1) * t <= d * t
      BY <2>2, <3>1, Products
    <3>3. (i + 1) * t = t * i + t /\ d * t = t * d /\ t * i \in Nat /\ t * d \in Nat
      BY <2>2
    <3>. QED
      BY <2>2, <3>2, <3>3
  <2>. QED
    BY <2>1, <2>3, <2>4
<1>7. \A n \in 0 .. N : n \in P
  <2> HIDE DEF P, N
  <2>. QED
    BY <1>1, <1>5, <1>6, InductionDown
<1>8. 0 \in 0 .. N
  BY <1>1
<1>. QED
  BY <1>2, <1>3, <1>7, <1>8 DEF s

\* The quotient of a number below a product is below its other factor.
LEMMA QuotientBelow ==
    ASSUME NEW x \in Nat, NEW w \in Nat, NEW d \in Nat, x < w * d
    PROVE  /\ d > 0
           /\ x \div d \in Nat /\ x \div d < w
           /\ x % d \in Nat /\ x % d < d
           /\ x = (x \div d) * d + (x % d)
<1>1. d > 0
  <2>1. CASE d = 0
    BY <2>1
  <2>. QED
    BY <2>1
<1>2. /\ x \div d \in Nat
      /\ x % d \in Nat /\ x % d < d
      /\ x = (x \div d) * d + (x % d)
  BY <1>1, DivisionSplits
<1>3. x \div d < w
  <2>1. SUFFICES ASSUME w <= x \div d PROVE FALSE
    BY <1>2
  <2>2. w * d <= (x \div d) * d
    BY <1>2, <2>1, Products
  <2>3. w * d \in Nat /\ (x \div d) * d \in Nat
    BY <1>2, Products
  <2>. QED
    BY <1>2, <2>2, <2>3
<1>. QED
  BY <1>1, <1>2, <1>3

\* One round of Walk: each index is extended by the numbers of a dimension d.
Extended(walked, d) ==
    [k \in 1 .. Len(walked) * d |-> Append(walked[(k - 1) \div d + 1], (k - 1) % d)]

\* The k-th index of a round extends the q-th index of the round before it by r.
LEMMA ExtendedIs ==
    ASSUME NEW walked \in Seq(Seq(Nat)), NEW d \in Nat
    PROVE  /\ Len(walked) * d \in Nat
           /\ Extended(walked, d) \in Seq(Seq(Nat))
           /\ Len(Extended(walked, d)) = Len(walked) * d
           /\ \A k \in 1 .. Len(walked) * d :
                \E q \in 1 .. Len(walked), r \in Nat :
                    /\ r < d
                    /\ k - 1 = (q - 1) * d + r
                    /\ Extended(walked, d)[k] = Append(walked[q], r)
<1> DEFINE L == Len(walked)
<1>1. L \in Nat /\ L * d \in Nat
  <2>1. L \in Nat
    OBVIOUS
  <2>. QED
    BY <2>1, Products
<1>2. ASSUME NEW k \in 1 .. L * d
      PROVE  \E q \in 1 .. L, r \in Nat :
               /\ r < d
               /\ k - 1 = (q - 1) * d + r
               /\ Extended(walked, d)[k] = Append(walked[q], r)
               /\ Append(walked[q], r) \in Seq(Nat)
  <2> DEFINE q == (k - 1) \div d + 1
             r == (k - 1) % d
  <2>1. k - 1 \in Nat /\ k - 1 < L * d
    BY <1>1
  <2>2. /\ (k - 1) \div d \in Nat /\ (k - 1) \div d < L
        /\ r \in Nat /\ r < d
        /\ k - 1 = ((k - 1) \div d) * d + r
    BY <1>1, <2>1, QuotientBelow
  <2>3. q \in 1 .. L /\ q - 1 = (k - 1) \div d
    BY <1>1, <2>2
  <2>4. Extended(walked, d)[k] = Append(walked[q], r)
    BY DEF Extended
  <2>5. walked[q] \in Seq(Nat)
    <3> HIDE DEF q
    <3>. QED
      BY <2>3
  <2> HIDE DEF q, r
  <2>6. Append(walked[q], r) \in Seq(Nat)
    BY <2>2, <2>5
  <2>. QED
    BY <2>2, <2>3, <2>4, <2>6
<1>3. Extended(walked, d) \in Seq(Seq(Nat)) /\ Len(Extended(walked, d)) = L * d
  <2> DEFINE n == L * d
  <2>1. Extended(walked, d) = [k \in 1 .. n |-> Extended(walked, d)[k]]
    BY DEF Extended
  <2>2. \A k \in 1 .. n : Extended(walked, d)[k] \in Seq(Nat)
    BY <1>2
  <2> HIDE DEF n
  <2>3. n \in Nat
    BY <1>1 DEF n
  <2>4. Extended(walked, d) \in [1 .. n -> Seq(Nat)]
    BY <2>1, <2>2
  <2>5. Extended(walked, d) \in Seq(Seq(Nat)) /\ Len(Extended(walked, d)) = n
    BY <2>3, <2>4
  <2>. QED
    BY <2>5 DEF n
<1>. QED
  BY <1>1, <1>2, <1>3

\* Visits as an equation.
LEMMA VisitsStep ==
    ASSUME NEW shape \in Seq(Nat), NEW n \in 0 .. Len(shape)
    PROVE  \E f \in [0 .. n -> Seq(Seq(Nat))] :
             /\ Visits(shape, n) = f[n]
             /\ f[0] = <<<<>>>>
             /\ \A m \in 1 .. n : f[m] = Extended(f[m - 1], shape[m])
<1> DEFINE S == Seq(Seq(Nat))
           first == <<<<>>>>
           step == [m \in 1 .. n |-> [w \in S |-> Extended(w, shape[m])]]
           Is(f) == f = [m \in 0 .. n |->
                            IF m = 0 THEN first
                            ELSE [k \in 1 .. Len(f[m - 1]) * shape[m] |->
                                     Append(f[m - 1][(k - 1) \div shape[m] + 1], (k - 1) % shape[m])]]
           r == CHOOSE f : Is(f)
<1>1. n \in Nat /\ \A m \in 1 .. n : m - 1 \in 0 .. n /\ shape[m] \in Nat
  OBVIOUS
<1>2. first \in S
  OBVIOUS
<1>3. step \in [1 .. n -> [S -> S]]
  <2>1. \A w \in S, d \in Nat : Extended(w, d) \in S
    BY ExtendedIs
  <2> HIDE DEF S
  <2>. QED
    BY <1>1, <2>1
<1>4. PICK f : Follows(f, n, S, first, step)
  <2> HIDE DEF step, S, first
  <2>. QED
    BY <1>1, <1>2, <1>3, Recursion, Zenon
<1>5. f \in [0 .. n -> S] /\ f[0] = first
  BY <1>4 DEF Follows
<1>6. ASSUME NEW m \in 1 .. n PROVE f[m] = Extended(f[m - 1], shape[m])
  <2> HIDE DEF S
  <2>1. f[m] = step[m][f[m - 1]] /\ f[m - 1] \in S
    BY <1>1, <1>4 DEF Follows
  <2>2. step[m] = [w \in S |-> Extended(w, shape[m])]
    OBVIOUS
  <2> HIDE DEF step
  <2>. QED
    BY <2>1, <2>2
<1>7. Is(f)
  <2>1. \A m \in 0 .. n : m # 0 => m \in 1 .. n
    OBVIOUS
  <2>2. \A m \in 1 .. n : f[m] = [k \in 1 .. Len(f[m - 1]) * shape[m] |->
                Append(f[m - 1][(k - 1) \div shape[m] + 1], (k - 1) % shape[m])]
    BY <1>6, Zenon DEF Extended
  <2> HIDE DEF S, first
  <2>. QED
    BY <1>5, <2>1, <2>2
<1>8. Is(r)
  BY <1>7, Zenon
<1>9. Visits(shape, n) = r[n]
  BY DEF Visits
<1> HIDE DEF r
<1> DEFINE P == {m \in 0 .. n : r[m] = f[m]}
<1>10. 0 \in P
  <2>1. 0 \in 0 .. n
    BY <1>1
  <2>2. r[0] = first
    BY <1>8, <2>1
  <2>. QED
    BY <1>5, <2>1, <2>2
<1>11. ASSUME NEW m \in 1 .. n, m - 1 \in P PROVE m \in P
  <2>1. m \in 0 .. n /\ m # 0
    OBVIOUS
  <2>2. r[m] = [k \in 1 .. Len(r[m - 1]) * shape[m] |->
                Append(r[m - 1][(k - 1) \div shape[m] + 1], (k - 1) % shape[m])]
    BY <1>8, <2>1, Zenon
  <2>3. r[m] = Extended(r[m - 1], shape[m])
    BY <2>2, Zenon DEF Extended
  <2>4. r[m - 1] = f[m - 1]
    BY <1>11
  <2>. QED
    BY <1>6, <2>1, <2>3, <2>4
<1>12. \A m \in 0 .. n : m \in P
  <2> HIDE DEF P
  <2>. QED
    BY <1>1, <1>10, <1>11, InductionUp
<1>13. Visits(shape, n) = f[n]
  BY <1>1, <1>9, <1>12
<1>. QED
  BY <1>5, <1>6, <1>13

\* The first k numbers of a sequence.
LEMMA FrontIs ==
    ASSUME NEW S, NEW s \in Seq(S), NEW k \in Nat, k <= Len(s)
    PROVE  /\ SubSeq(s, 1, k) \in Seq(S)
           /\ Len(SubSeq(s, 1, k)) = k
           /\ \A i \in 1 .. k : SubSeq(s, 1, k)[i] = s[i]
<1>1. SubSeq(s, 1, k) = [i \in 1 .. k |-> s[i]]
  OBVIOUS
<1>2. \A i \in 1 .. k : s[i] \in S
  OBVIOUS
<1> DEFINE front == [i \in 1 .. k |-> s[i]]
<1>3. front \in [1 .. k -> S]
  BY <1>2
<1>4. front \in Seq(S) /\ Len(front) = k
  BY <1>3
<1>. QED
  BY <1>1, <1>4
\* The last number of an index and what comes before it.
LEMMA BeginsIsShorter ==
    ASSUME NEW shape \in Seq(Nat), NEW index, Begins(shape, index), index # <<>>
    PROVE  LET m == Len(index)
               front == SubSeq(index, 1, m - 1)
           IN  /\ m \in 1 .. Len(shape)
               /\ Begins(shape, front)
               /\ Len(front) = m - 1
               /\ index[m] \in Nat
               /\ index[m] < shape[m]
               /\ Before(shape, index)[m] = Before(shape, front)[m - 1] * shape[m] + index[m]
<1> DEFINE m == Len(index)
           front == SubSeq(index, 1, m - 1)
<1>1. index \in Seq(Nat) /\ m \in 1 .. Len(shape) /\ m - 1 \in Nat /\ m <= Len(shape)
  BY DEF Begins
<1>2. \A i \in 1 .. m : index[i] \in Nat /\ index[i] < shape[i]
  BY <1>1 DEF Begins
<1>3. front \in Seq(Nat) /\ Len(front) = m - 1 /\ \A i \in 1 .. m - 1 : front[i] = index[i]
  <2>1. m - 1 <= Len(index)
    BY <1>1
  <2>. QED
    BY <1>1, <2>1, FrontIs
<1> HIDE DEF front
<1>4. Begins(shape, front)
  <2>1. DOMAIN front = 1 .. m - 1 /\ Len(front) <= Len(shape)
    BY <1>1, <1>3
  <2>2. \A i \in 1 .. m - 1 : i \in 1 .. m
    BY <1>1
  <2>3. \A i \in 1 .. m - 1 : front[i] < shape[i]
    BY <1>2, <1>3, <2>2
  <2>. QED
    BY <1>3, <2>1, <2>3 DEF Begins
<1>5. Before(shape, front)[m - 1] = Before(shape, index)[m - 1]
  <2> DEFINE k == m - 1
  <2>1. /\ k \in Nat /\ k <= Len(front) /\ k <= Len(index) /\ k \in 0 .. k
        /\ Len(front) <= Len(shape) /\ Len(index) <= Len(shape)
    BY <1>1, <1>3
  <2>2. AgreeUpTo(k, shape, shape) /\ AgreeUpTo(k, front, index)
    BY <1>3 DEF AgreeUpTo
  <2>3. shape \in Seq(Nat) /\ front \in Seq(Nat) /\ index \in Seq(Nat)
    BY <1>1, <1>3
  <2> HIDE DEF k
  <2>4. \A n \in 0 .. k : Before(shape, front)[n] = Before(shape, index)[n]
    BY <2>1, <2>2, <2>3, BeforeAgrees
  <2>. QED
    BY <2>1, <2>4 DEF k
<1>6. Before(shape, index)[m] = Before(shape, index)[m - 1] * shape[m] + index[m]
  <2>1. m \in 1 .. Len(index) /\ Len(index) <= Len(shape)
    BY <1>1
  <2>. QED
    BY <1>1, <2>1, BeforeStep
<1>7. index[m] \in Nat /\ index[m] < shape[m]
  BY <1>1, <1>2
<1>. QED
  BY <1>1, <1>3, <1>4, <1>5, <1>6, <1>7 DEF front

\* An index is extended by one number.
LEMMA BeginsIsLonger ==
    ASSUME NEW shape \in Seq(Nat), NEW front, Begins(shape, front),
           NEW m \in 1 .. Len(shape), Len(front) = m - 1,
           NEW r \in Nat, r < shape[m]
    PROVE  LET index == Append(front, r) IN
           /\ Begins(shape, index)
           /\ Len(index) = m
           /\ Before(shape, index)[m] = Before(shape, front)[m - 1] * shape[m] + r
<1> DEFINE index == Append(front, r)
<1>1. /\ front \in Seq(Nat)
      /\ m \in Nat /\ m - 1 \in Nat /\ m <= Len(shape) /\ (m - 1) + 1 = m
      /\ \A i \in 1 .. m - 1 : front[i] < shape[i]
  BY DEF Begins
<1>2. /\ index \in Seq(Nat) /\ Len(index) = m
      /\ index[m] = r
      /\ \A i \in 1 .. m - 1 : index[i] = front[i]
  BY <1>1
<1> HIDE DEF index
<1>3. Begins(shape, index)
  <2>1. \A i \in 1 .. m : i = m \/ i \in 1 .. m - 1
    BY <1>1
  <2>2. \A i \in 1 .. m : index[i] < shape[i]
    BY <1>1, <1>2, <2>1
  <2>3. DOMAIN index = 1 .. m /\ Len(index) <= Len(shape)
    BY <1>1, <1>2
  <2>. QED
    BY <1>2, <2>2, <2>3 DEF Begins
<1>4. SubSeq(index, 1, m - 1) = front
  <2>1. SubSeq(index, 1, m - 1) = [i \in 1 .. m - 1 |-> index[i]]
    BY <1>1, <1>2
  <2>2. front = [i \in 1 .. m - 1 |-> front[i]]
    BY <1>1
  <2>. QED
    BY <1>2, <2>1, <2>2
<1>5. index # <<>>
  BY <1>1, <1>2
<1>6. Before(shape, index)[m] = Before(shape, front)[m - 1] * shape[m] + r
  BY <1>2, <1>3, <1>4, <1>5, BeginsIsShorter
<1>. QED
  BY <1>2, <1>3, <1>6 DEF index

\* Walk visits the indices of n numbers in the order of their ids, each once.
LEMMA VisitsAreIndices ==
    ASSUME NEW shape \in Seq(Nat), NEW n \in 0 .. Len(shape)
    PROVE  /\ DOMAIN Visits(shape, n) = 1 .. Len(Visits(shape, n))
           /\ \A k \in DOMAIN Visits(shape, n) :
                /\ Begins(shape, Visits(shape, n)[k])
                /\ Len(Visits(shape, n)[k]) = n
                /\ Before(shape, Visits(shape, n)[k])[n] = k - 1
           /\ \A index : Begins(shape, index) /\ Len(index) = n
                => \E k \in DOMAIN Visits(shape, n) : Visits(shape, n)[k] = index
<1>1. PICK f \in [0 .. n -> Seq(Seq(Nat))] :
        /\ Visits(shape, n) = f[n]
        /\ f[0] = <<<<>>>>
        /\ \A m \in 1 .. n : f[m] = Extended(f[m - 1], shape[m])
  BY VisitsStep
<1> DEFINE Right(m) == \A k \in 1 .. Len(f[m]) :
                            /\ Begins(shape, f[m][k])
                            /\ Len(f[m][k]) = m
                            /\ Before(shape, f[m][k])[m] = k - 1
           Enough(m) == \A index : Begins(shape, index) /\ Len(index) = m
                                      => Before(shape, index)[m] < Len(f[m])
           P == {m \in 0 .. n : Right(m) /\ Enough(m)}
<1>2. n \in Nat /\ \A m \in 1 .. n : m - 1 \in 0 .. n /\ m \in 1 .. Len(shape) /\ shape[m] \in Nat
  OBVIOUS
<1>3. 0 \in P
  <2>1. Len(f[0]) = 1 /\ f[0][1] = <<>> /\ 0 \in 0 .. n /\ 1 .. 1 = {1}
    BY <1>1, <1>2
  <2>2. Begins(shape, <<>>) /\ Len(<<>>) = 0
    BY DEF Begins
  <2>3. \A index : Begins(shape, index) => Before(shape, index)[0] = 0
    BY BeforeStep DEF Begins
  <2>4. Before(shape, f[0][1])[0] = 1 - 1
    BY <2>1, <2>2, <2>3
  <2>5. Right(0)
    BY <2>1, <2>2, <2>4
  <2>6. Enough(0)
    BY <2>1, <2>3
  <2>. QED
    BY <2>1, <2>5, <2>6
<1>4. ASSUME NEW m \in 1 .. n, m - 1 \in P PROVE m \in P
  <2> DEFINE w == f[m - 1]
             d == shape[m]
  <2>1. /\ w \in Seq(Seq(Nat)) /\ d \in Nat /\ f[m] = Extended(w, d)
        /\ m \in 1 .. Len(shape) /\ m \in 0 .. n
    BY <1>1, <1>2
  <2>2. /\ \A k \in 1 .. Len(w) :
             Begins(shape, w[k]) /\ Len(w[k]) = m - 1 /\ Before(shape, w[k])[m - 1] = k - 1
        /\ \A index : Begins(shape, index) /\ Len(index) = m - 1
             => Before(shape, index)[m - 1] < Len(w)
    BY <1>4
  <2>3. /\ Len(w) \in Nat /\ Len(w) * d \in Nat
        /\ Len(f[m]) = Len(w) * d
        /\ \A k \in 1 .. Len(w) * d :
             \E q \in 1 .. Len(w), r \in Nat :
                 r < d /\ k - 1 = (q - 1) * d + r /\ f[m][k] = Append(w[q], r)
    <3> HIDE DEF w, d
    <3>1. w \in Seq(Seq(Nat)) /\ d \in Nat /\ f[m] = Extended(w, d)
      BY <2>1
    <3>2. Len(w) \in Nat
      BY <3>1
    <3>3. /\ Len(w) * d \in Nat
          /\ Len(Extended(w, d)) = Len(w) * d
          /\ \A k \in 1 .. Len(w) * d :
               \E q \in 1 .. Len(w), r \in Nat :
                   r < d /\ k - 1 = (q - 1) * d + r /\ Extended(w, d)[k] = Append(w[q], r)
      BY <3>1, ExtendedIs, Zenon
    <3>. QED
      BY <3>1, <3>2, <3>3, Zenon
  <2> HIDE DEF w
  <2>4. Right(m)
    <3> SUFFICES ASSUME NEW k \in 1 .. Len(w) * d
                 PROVE  /\ Begins(shape, f[m][k])
                        /\ Len(f[m][k]) = m
                        /\ Before(shape, f[m][k])[m] = k - 1
      BY <2>3
    <3>1. PICK q \in 1 .. Len(w), r \in Nat :
            r < d /\ k - 1 = (q - 1) * d + r /\ f[m][k] = Append(w[q], r)
      BY <2>3
    <3>2. Begins(shape, w[q]) /\ Len(w[q]) = m - 1 /\ Before(shape, w[q])[m - 1] = q - 1
      BY <2>2
    <3>3. /\ Begins(shape, f[m][k])
          /\ Len(f[m][k]) = m
          /\ Before(shape, f[m][k])[m] = Before(shape, w[q])[m - 1] * shape[m] + r
      <4> DEFINE front == w[q]
      <4>1. Begins(shape, front) /\ Len(front) = m - 1 /\ r \in Nat /\ r < shape[m]
        BY <3>1, <3>2
      <4> HIDE DEF front
      <4>2. LET index == Append(front, r) IN
              /\ Begins(shape, index)
              /\ Len(index) = m
              /\ Before(shape, index)[m] = Before(shape, front)[m - 1] * shape[m] + r
        BY <2>1, <4>1, BeginsIsLonger
      <4>. QED
        BY <3>1, <4>2 DEF front
    <3>. QED
      BY <3>1, <3>2, <3>3
  <2>5. Enough(m)
    <3> SUFFICES ASSUME NEW index, Begins(shape, index), Len(index) = m
                 PROVE  Before(shape, index)[m] < Len(w) * d
      BY <2>3
    <3> DEFINE front == SubSeq(index, 1, m - 1)
               b == Before(shape, front)[m - 1]
    <3>1. index # <<>>
      BY <1>2
    <3>2. /\ Begins(shape, front) /\ Len(front) = m - 1
          /\ index[m] \in Nat /\ index[m] < d
          /\ Before(shape, index)[m] = b * d + index[m]
      BY <3>1, BeginsIsShorter
    <3>3. b < Len(w)
      BY <2>2, <3>2
    <3>4. b \in Nat
      <4>1. front \in Seq(Nat) /\ Len(front) <= Len(shape) /\ m - 1 \in 0 .. Len(front)
        BY <1>2, <3>2 DEF Begins
      <4> HIDE DEF front
      <4>. QED
        BY <4>1, BeforeStep
    <3> HIDE DEF b, front, d
    <3>5. b + 1 \in Nat /\ b + 1 <= Len(w)
      BY <2>3, <3>3, <3>4
    <3>6. (b + 1) * d <= Len(w) * d
      BY <2>1, <2>3, <3>5, Products
    <3>7. (b + 1) * d = b * d + d /\ b * d \in Nat
      BY <2>1, <3>4
    <3>. QED
      BY <2>1, <2>3, <3>2, <3>6, <3>7
  <2>. QED
    BY <2>1, <2>4, <2>5
<1>5. \A m \in 0 .. n : m \in P
  <2> HIDE DEF P
  <2>. QED
    BY <1>2, <1>3, <1>4, InductionUp
<1>6. Right(n) /\ Enough(n)
  BY <1>2, <1>5
<1>7. f[n] \in Seq(Seq(Nat)) /\ Len(f[n]) \in Nat /\ DOMAIN f[n] = 1 .. Len(f[n])
  BY <1>1, <1>2
<1>8. ASSUME NEW index, Begins(shape, index), Len(index) = n
      PROVE  \E k \in 1 .. Len(f[n]) : f[n][k] = index
  <2> DEFINE k == Before(shape, index)[n] + 1
  <2>1. Before(shape, index)[n] < Len(f[n])
    BY <1>6, <1>8
  <2>2. Before(shape, index)[n] \in Nat
    <3>1. shape \in Seq(Nat) /\ index \in Seq(Nat) /\ Len(index) <= Len(shape)
      BY <1>8 DEF Begins
    <3>2. n \in 0 .. Len(index)
      BY <1>2, <1>8
    <3>. QED
      BY <3>1, <3>2, BeforeStep
  <2>3. k \in 1 .. Len(f[n]) /\ k - 1 = Before(shape, index)[n]
    BY <1>7, <2>1, <2>2
  <2> HIDE DEF k
  <2>4. Begins(shape, f[n][k]) /\ Len(f[n][k]) = n /\ Before(shape, f[n][k])[n] = k - 1
    BY <1>6, <2>3
  <2>5. f[n][k] = index
    BY <1>8, <2>3, <2>4, BeforeIsInjective
  <2>. QED
    BY <2>3, <2>5
<1>. QED
  BY <1>1, <1>6, <1>7, <1>8

-----------------------------------------------------------------------------
(***************************************************************************)
(* What is stored                                                          *)
(***************************************************************************)

\* Every id data_index_ knows leads into data_; the ids that only GetData put
\* there lead to its first element.
IndexLeadsToData ==
    /\ pkg = [shape     |-> pkg.shape, marks |-> pkg.marks,
              data      |-> pkg.data,
              dataIndex |-> pkg.dataIndex]
    /\ pkg.data \in Seq(Data)
    /\ \A id \in DOMAIN pkg.dataIndex : pkg.dataIndex[id] \in 1 .. Len(pkg.data)

\* The inductive invariant.
IInv == IndexLeadsToData /\ MarkedIsStored /\ StoredIsKept

\* The empty package has neither data nor marks.
LEMMA InitIInv == Init => IInv
<1> SUFFICES ASSUME Init PROVE IInv
  OBVIOUS
<1>1. /\ pkg = [shape |-> <<>>, marks |-> {}, data |-> <<>>, dataIndex |-> <<>>]
      /\ stored = <<>>
  BY DEF Init, EmptyPackage
<1>2. IndexLeadsToData
  BY <1>1 DEF IndexLeadsToData
<1>3. MarkedIsStored
  BY <1>1 DEF MarkedIsStored
<1>4. StoredIsKept
  BY <1>1 DEF StoredIsKept
<1>. QED
  BY <1>2, <1>3, <1>4 DEF IInv

\* A new shape is set while nothing is stored, so the marks it resets are none.
LEMMA SetShapeStep ==
    ASSUME IInv, NEW shape, SetShape(shape)
    PROVE  IInv'
<1>1. /\ pkg.data = <<>>
      /\ pkg' = [shape |-> shape, marks |-> {}, data |-> pkg.data, dataIndex |-> pkg.dataIndex]
      /\ stored' = stored
  BY DEF IInv, IndexLeadsToData, SetShape, AfterSetShape
<1>2. DOMAIN pkg.dataIndex = {}
  BY <1>1 DEF IInv, IndexLeadsToData
<1>3. DOMAIN stored = {}
  BY <1>2 DEF IInv, StoredIsKept
<1>4. IndexLeadsToData'
  BY <1>1, <1>2 DEF IInv, IndexLeadsToData
<1>5. MarkedIsStored'
  BY <1>1, <1>3 DEF MarkedIsStored
<1>6. StoredIsKept'
  BY <1>1, <1>3 DEF StoredIsKept
<1>. QED
  BY <1>4, <1>5, <1>6 DEF IInv

\* Both overloads of AddData: a datum is appended under an id data_index_
\* does not have, or nothing changes.
LEMMA AddDataStep ==
    ASSUME IInv, NEW id, NEW d \in Data,
           pkg' = AfterAddData(pkg, id, d),
           stored' = IF id \in DOMAIN pkg.dataIndex THEN stored ELSE With(stored, id, d)
    PROVE  IInv'
<1>1. CASE id \in DOMAIN pkg.dataIndex
  BY <1>1 DEF AfterAddData, IInv, IndexLeadsToData, MarkedIsStored, StoredIsKept
<1>2. CASE id \notin DOMAIN pkg.dataIndex
  <2>1. /\ pkg' = [shape |-> pkg.shape, marks |-> pkg.marks \union {id},
                   data  |-> Append(pkg.data, d),
                   dataIndex |-> With(pkg.dataIndex, id, Len(pkg.data) + 1)]
        /\ stored' = With(stored, id, d)
    BY <1>2 DEF AfterAddData, IInv, IndexLeadsToData
  <2>2. /\ pkg'.data \in Seq(Data)
        /\ Len(pkg'.data) = Len(pkg.data) + 1
        /\ Len(pkg.data) \in Nat
        /\ pkg'.data[Len(pkg.data) + 1] = d
        /\ \A i \in 1 .. Len(pkg.data) : pkg'.data[i] = pkg.data[i]
    BY <2>1 DEF IInv, IndexLeadsToData
  <2>3. /\ DOMAIN pkg'.dataIndex = DOMAIN pkg.dataIndex \union {id}
        /\ pkg'.dataIndex[id] = Len(pkg.data) + 1
        /\ \A k \in DOMAIN pkg.dataIndex : k # id => pkg'.dataIndex[k] = pkg.dataIndex[k]
    BY <2>1 DEF With
  <2>4. /\ DOMAIN stored' = DOMAIN stored \union {id}
        /\ stored'[id] = d
        /\ \A k \in DOMAIN stored : k # id => stored'[k] = stored[k]
    BY <2>1 DEF With
  <2>5. \A k \in DOMAIN pkg.dataIndex : pkg.dataIndex[k] \in 1 .. Len(pkg.data)
    BY DEF IInv, IndexLeadsToData
  <2>6. IndexLeadsToData'
    BY <1>2, <2>1, <2>2, <2>3, <2>5 DEF IndexLeadsToData
  <2>7. MarkedIsStored'
    BY <2>1, <2>4 DEF IInv, MarkedIsStored
  <2>8. ASSUME NEW k \in DOMAIN stored'
        PROVE  k \in DOMAIN pkg'.dataIndex /\ pkg'.data[pkg'.dataIndex[k]] = stored'[k]
    <3>1. CASE k = id
      BY <2>2, <2>3, <2>4, <3>1
    <3>2. CASE k # id
      <4>1. k \in DOMAIN stored /\ stored'[k] = stored[k]
        BY <2>4, <3>2
      <4>2. k \in DOMAIN pkg.dataIndex /\ pkg.data[pkg.dataIndex[k]] = stored[k]
        BY <4>1 DEF IInv, StoredIsKept
      <4>. QED
        BY <2>2, <2>3, <2>5, <3>2, <4>1, <4>2
    <3>. QED
      BY <3>1, <3>2
  <2>9. StoredIsKept'
    BY <2>8 DEF StoredIsKept
  <2>. QED
    BY <2>6, <2>7, <2>9 DEF IInv
<1>. QED
  BY <1>1, <1>2

\* The entry that reading a place without data makes touches no other entry.
LEMMA GetDataStep ==
    ASSUME IInv, NEW id, GetData(id)
    PROVE  IInv'
<1>1. /\ pkg.data # <<>>
      /\ pkg' = AfterGetData(pkg, id)
      /\ stored' = stored
  BY DEF GetData
<1>2. CASE id \in DOMAIN pkg.dataIndex
  BY <1>1, <1>2 DEF AfterGetData, IInv, IndexLeadsToData, MarkedIsStored, StoredIsKept
<1>3. CASE id \notin DOMAIN pkg.dataIndex
  <2>1. pkg' = [shape |-> pkg.shape, marks |-> pkg.marks, data |-> pkg.data,
                dataIndex |-> With(pkg.dataIndex, id, 1)]
    BY <1>1, <1>3 DEF AfterGetData, IInv, IndexLeadsToData
  <2>2. /\ DOMAIN pkg'.dataIndex = DOMAIN pkg.dataIndex \union {id}
        /\ pkg'.dataIndex[id] = 1
        /\ \A k \in DOMAIN pkg.dataIndex : k # id => pkg'.dataIndex[k] = pkg.dataIndex[k]
    BY <2>1 DEF With
  <2>3. 1 \in 1 .. Len(pkg.data)
    BY <1>1 DEF IInv, IndexLeadsToData
  <2>4. \A k \in DOMAIN pkg.dataIndex : pkg.dataIndex[k] \in 1 .. Len(pkg.data)
    BY DEF IInv, IndexLeadsToData
  <2>5. pkg.data \in Seq(Data)
    BY DEF IInv, IndexLeadsToData
  <2>6. IndexLeadsToData'
    BY <2>1, <2>2, <2>3, <2>4, <2>5 DEF IndexLeadsToData
  <2>7. MarkedIsStored'
    BY <1>1, <2>1 DEF IInv, MarkedIsStored
  <2>8. \A k \in DOMAIN stored : k \in DOMAIN pkg.dataIndex /\ pkg.data[pkg.dataIndex[k]] = stored[k]
    BY DEF IInv, StoredIsKept
  <2>9. StoredIsKept'
    BY <1>1, <1>3, <2>1, <2>2, <2>8 DEF StoredIsKept
  <2>. QED
    BY <2>6, <2>7, <2>9 DEF IInv
<1>. QED
  BY <1>2, <1>3

\* Every call of a caller keeps the inductive invariant.
LEMMA NextIInv == IInv /\ [Next]_vars => IInv'
<1> SUFFICES ASSUME IInv, [Next]_vars PROVE IInv'
  OBVIOUS
<1>1. ASSUME NEW shape \in Shapes, SetShape(shape)
      PROVE  IInv'
  BY <1>1, SetShapeStep
<1>2. ASSUME NEW id \in 0 .. MAX_NUM_ELEMENTS - 1, NEW d \in Data, AddData(id, d)
      PROVE  IInv'
  BY <1>2, AddDataStep DEF AddData
<1>3. ASSUME NEW index, NEW d \in Data, AddDataAt(index, d)
      PROVE  IInv'
  BY <1>3, AddDataStep DEF AddDataAt
<1>4. ASSUME NEW id \in 0 .. MAX_NUM_ELEMENTS - 1, GetData(id)
      PROVE  IInv'
  BY <1>4, GetDataStep
<1>5. CASE UNCHANGED vars
  BY <1>5 DEF vars, IInv, IndexLeadsToData, MarkedIsStored, StoredIsKept
<1>. QED
  BY <1>1, <1>2, <1>3, <1>4, <1>5 DEF Next

\* The inductive invariant holds in every reachable state.
THEOREM Invariant == Spec => []IInv
<1>. QED
  BY InitIInv, NextIInv, PTL DEF Spec

\* A datum whose AddData succeeded is found under its id ever after.
THEOREM StoredDataIsKept == Spec => []StoredIsKept
<1>1. IInv => StoredIsKept
  BY DEF IInv
<1>. QED
  BY <1>1, Invariant, PTL

\* The marks of the shape are where something was stored.
THEOREM MarksAreExact == Spec => []MarkedIsStored
<1>1. IInv => MarkedIsStored
  BY DEF IInv
<1>. QED
  BY <1>1, Invariant, PTL

-----------------------------------------------------------------------------
(***************************************************************************)
(* The places of what is stored                                            *)
(***************************************************************************)

\* Data are stored at places of the shape, each at a place of its own, and
\* data_index_ has a finite number of ids.
StoredInPlaces ==
    /\ pkg.shape \in Seq(0 .. 255)
    /\ DOMAIN stored \subseteq 0 .. MaxNumElements(pkg.shape) - 1
    /\ DOMAIN pkg.dataIndex \subseteq Nat
    /\ IsFiniteSet(DOMAIN pkg.dataIndex)
    /\ Cardinality(DOMAIN stored) = Len(pkg.data)

\* The empty package has neither data nor ids.
LEMMA InitStoredInPlaces == Init => StoredInPlaces
<1> SUFFICES ASSUME Init PROVE StoredInPlaces
  OBVIOUS
<1>1. /\ pkg = [shape |-> <<>>, marks |-> {}, data |-> <<>>, dataIndex |-> <<>>]
      /\ stored = <<>>
  BY DEF Init, EmptyPackage
<1>2. DOMAIN stored = {} /\ DOMAIN pkg.dataIndex = {} /\ pkg.shape = <<>> /\ Len(pkg.data) = 0
  BY <1>1
<1>3. pkg.shape \in Seq(0 .. 255)
  BY <1>2
<1>. QED
  BY <1>2, <1>3, FS_EmptySet DEF StoredInPlaces

\* Both overloads of AddData: a new id makes as many ids as there are data.
LEMMA AddDataInPlaces ==
    ASSUME IInv, StoredInPlaces, NEW id \in 0 .. MaxNumElements(pkg.shape) - 1, NEW d \in Data,
           pkg' = AfterAddData(pkg, id, d),
           stored' = IF id \in DOMAIN pkg.dataIndex THEN stored ELSE With(stored, id, d)
    PROVE  StoredInPlaces'
<1>1. CASE id \in DOMAIN pkg.dataIndex
  BY <1>1 DEF AfterAddData, StoredInPlaces
<1>2. CASE id \notin DOMAIN pkg.dataIndex
  <2>1. /\ pkg' = [shape |-> pkg.shape, marks |-> pkg.marks \union {id},
                   data  |-> Append(pkg.data, d),
                   dataIndex |-> With(pkg.dataIndex, id, Len(pkg.data) + 1)]
        /\ stored' = With(stored, id, d)
    BY <1>2 DEF AfterAddData, IInv, IndexLeadsToData
  <2>2. /\ DOMAIN pkg'.dataIndex = DOMAIN pkg.dataIndex \union {id}
        /\ DOMAIN stored' = DOMAIN stored \union {id}
        /\ pkg'.shape = pkg.shape
    BY <2>1 DEF With
  <2>3. Len(pkg'.data) = Len(pkg.data) + 1
    BY <2>1 DEF IInv, IndexLeadsToData
  <2>4. DOMAIN stored \subseteq DOMAIN pkg.dataIndex
    BY DEF IInv, StoredIsKept
  <2>5. IsFiniteSet(DOMAIN stored) /\ id \notin DOMAIN stored
    BY <1>2, <2>4, FS_Subset DEF StoredInPlaces
  <2>6. Cardinality(DOMAIN stored') = Len(pkg'.data)
    <3>1. Cardinality(DOMAIN stored \union {id}) = Cardinality(DOMAIN stored) + 1
      BY <2>5, FS_AddElement
    <3>2. Cardinality(DOMAIN stored) = Len(pkg.data)
      BY DEF StoredInPlaces
    <3>. QED
      BY <2>2, <2>3, <3>1, <3>2
  <2>7. IsFiniteSet(DOMAIN pkg'.dataIndex)
    BY <2>2, FS_AddElement DEF StoredInPlaces
  <2>8. id \in Nat
    OBVIOUS
  <2>9. DOMAIN stored' \subseteq 0 .. MaxNumElements(pkg'.shape) - 1
    BY <2>2 DEF StoredInPlaces
  <2>10. DOMAIN pkg'.dataIndex \subseteq Nat /\ pkg'.shape \in Seq(0 .. 255)
    BY <2>2, <2>8 DEF StoredInPlaces
  <2>. QED
    BY <2>6, <2>7, <2>9, <2>10 DEF StoredInPlaces
<1>. QED
  BY <1>1, <1>2

\* A new shape is set before anything is stored; AddData checks the id, or has
\* that of a full index, which is below the size of the shape; GetData makes an
\* entry, but stores nothing.
LEMMA NextStoredInPlaces == IInv /\ StoredInPlaces /\ [Next]_vars => StoredInPlaces'
<1> SUFFICES ASSUME IInv, StoredInPlaces, [Next]_vars PROVE StoredInPlaces'
  OBVIOUS
<1>1. ASSUME NEW shape \in Shapes, SetShape(shape)
      PROVE  StoredInPlaces'
  <2>1. /\ pkg.data = <<>>
        /\ pkg' = [shape |-> shape, marks |-> {}, data |-> pkg.data, dataIndex |-> pkg.dataIndex]
        /\ stored' = stored
    BY <1>1 DEF IInv, IndexLeadsToData, SetShape, AfterSetShape
  <2>2. DOMAIN pkg.dataIndex = {}
    BY <2>1 DEF IInv, IndexLeadsToData
  <2>3. DOMAIN stored = {}
    BY <2>2 DEF IInv, StoredIsKept
  <2>4. pkg'.shape \in Seq(0 .. 255)
    BY <2>1, PackageAssumption
  <2>. QED
    BY <2>1, <2>3, <2>4 DEF StoredInPlaces
<1>2. ASSUME NEW id \in 0 .. MAX_NUM_ELEMENTS - 1, NEW d \in Data, AddData(id, d)
      PROVE  StoredInPlaces'
  <2>1. pkg.shape \in Seq(Nat)
    BY ShapeIsSeq DEF StoredInPlaces
  <2>2. id \in Nat /\ 0 \in 0 .. Len(pkg.shape)
    BY <2>1, PackageAssumption
  <2>3. MaxNumElements(pkg.shape) \in Nat
    BY <2>1, <2>2, StridesStep DEF MaxNumElements
  <2>4. id \in 0 .. MaxNumElements(pkg.shape) - 1
    BY <1>2, <2>2, <2>3 DEF AddData
  <2>. QED
    BY <1>2, <2>4, AddDataInPlaces DEF AddData
<1>3. ASSUME NEW index \in FullIndices(pkg.shape), NEW d \in Data, AddDataAt(index, d)
      PROVE  StoredInPlaces'
  <2> DEFINE id == GetIdFromFullIndex(pkg.shape, index)
  <2>1. pkg.shape \in Seq(Nat)
    BY ShapeIsSeq DEF StoredInPlaces
  <2>2. id \in Nat /\ id < Strides(pkg.shape)[0]
    BY <2>1, IdIsBelowSize
  <2>3. Strides(pkg.shape)[0] \in Nat
    BY <2>1, StridesStep
  <2>4. id \in 0 .. MaxNumElements(pkg.shape) - 1
    BY <2>2, <2>3 DEF MaxNumElements
  <2>5. /\ pkg' = AfterAddData(pkg, id, d)
        /\ stored' = IF id \in DOMAIN pkg.dataIndex THEN stored ELSE With(stored, id, d)
    BY <1>3 DEF AddDataAt
  <2> HIDE DEF id
  <2>. QED
    BY <2>4, <2>5, AddDataInPlaces
<1>4. ASSUME NEW id \in 0 .. MAX_NUM_ELEMENTS - 1, GetData(id)
      PROVE  StoredInPlaces'
  <2>1. CASE id \in DOMAIN pkg.dataIndex
    BY <1>4, <2>1 DEF GetData, AfterGetData, StoredInPlaces
  <2>2. CASE id \notin DOMAIN pkg.dataIndex
    <3>1. /\ pkg' = [shape |-> pkg.shape, marks |-> pkg.marks, data |-> pkg.data,
                     dataIndex |-> With(pkg.dataIndex, id, 1)]
          /\ stored' = stored
      BY <1>4, <2>2 DEF GetData, AfterGetData, IInv, IndexLeadsToData
    <3>2. DOMAIN pkg'.dataIndex = DOMAIN pkg.dataIndex \union {id}
      BY <3>1 DEF With
    <3>3. IsFiniteSet(DOMAIN pkg'.dataIndex)
      <4>1. IsFiniteSet(DOMAIN pkg.dataIndex \union {id})
        BY FS_AddElement DEF StoredInPlaces
      <4>. QED
        BY <3>2, <4>1
    <3>4. id \in Nat
      BY PackageAssumption
    <3>. QED
      BY <3>1, <3>2, <3>3, <3>4 DEF StoredInPlaces
  <2>. QED
    BY <2>1, <2>2
<1>5. CASE UNCHANGED vars
  BY <1>5 DEF vars, StoredInPlaces
<1>. QED
  BY <1>1, <1>2, <1>3, <1>4, <1>5 DEF Next

\* Nothing is stored outside the shape, and the data and the ids that have
\* been stored are as many, whatever is added, refused or read.
THEOREM DataArePlaced == Spec => []StoredInPlaces
<1>1. Init => StoredInPlaces
  BY InitStoredInPlaces
<1>2. IInv /\ StoredInPlaces /\ [Next]_vars => StoredInPlaces'
  BY NextStoredInPlaces
<1>. QED
  BY <1>1, <1>2, Invariant, PTL DEF Spec

-----------------------------------------------------------------------------
(***************************************************************************)
(* Ids, full indices and walks                                             *)
(***************************************************************************)

\* The full indices are the beginnings as long as the shape.
LEMMA FullIndicesAre ==
    ASSUME NEW shape \in Seq(Nat)
    PROVE  /\ \A index \in FullIndices(shape) :
                index \in [DOMAIN shape -> Nat] /\ Begins(shape, index) /\ Len(index) = Len(shape)
           /\ \A index \in [DOMAIN shape -> Nat] :
                (\A i \in DOMAIN shape : index[i] < shape[i])
                => Begins(shape, index) /\ index \in FullIndices(shape)
<1>1. Len(shape) \in Nat /\ DOMAIN shape = 1 .. Len(shape)
  OBVIOUS
<1>2. ASSUME NEW index \in [DOMAIN shape -> Nat], \A i \in DOMAIN shape : index[i] < shape[i]
      PROVE  Begins(shape, index) /\ Len(index) = Len(shape)
  <2>1. index \in Seq(Nat) /\ Len(index) = Len(shape)
    BY <1>1, FullIndexIsSeq
  <2>2. DOMAIN index = DOMAIN shape
    OBVIOUS
  <2>. QED
    BY <1>1, <1>2, <2>1, <2>2 DEF Begins
<1>3. ASSUME NEW index \in FullIndices(shape)
      PROVE  index \in [DOMAIN shape -> Nat] /\ \A i \in DOMAIN shape : index[i] < shape[i]
  <2>1. index \in [DOMAIN shape -> Nat]
    BY IdIsBelowSize
  <2>. QED
    BY <2>1 DEF FullIndices
<1>4. ASSUME NEW index \in [DOMAIN shape -> Nat], \A i \in DOMAIN shape : index[i] < shape[i]
      PROVE  index \in FullIndices(shape)
  <2> DEFINE below == UNION {0 .. shape[i] - 1 : i \in DOMAIN shape}
  <2>1. ASSUME NEW i \in DOMAIN shape PROVE index[i] \in below
    <3>1. shape[i] \in Nat /\ index[i] \in Nat /\ index[i] < shape[i]
      BY <1>1, <1>4
    <3>2. index[i] \in 0 .. shape[i] - 1
      BY <3>1
    <3>. QED
      BY <3>2
  <2>2. index \in [DOMAIN shape -> below]
    <3> HIDE DEF below
    <3>. QED
      BY <2>1
  <2>. QED
    BY <1>4, <2>2 DEF FullIndices
<1>. QED
  BY <1>2, <1>3, <1>4

\* An id is the id of its full index.
LEMMA IdIsOfItsIndex ==
    ASSUME NEW shape \in Seq(Nat), NEW id \in 0 .. MaxNumElements(shape) - 1
    PROVE  /\ GetIndexFromId(shape, id) \in FullIndices(shape)
           /\ GetIdFromFullIndex(shape, GetIndexFromId(shape, id)) = id
<1> DEFINE N == Len(shape)
           index == GetIndexFromId(shape, id)
           b == Before(shape, index)[N]
<1>1. N \in Nat /\ 0 \in 0 .. N /\ N \in 0 .. N
  OBVIOUS
<1>2. Strides(shape)[0] \in Nat /\ Strides(shape)[N] = 1
  BY <1>1, StridesStep
<1>3. id \in Nat /\ id < Strides(shape)[0]
  BY <1>2 DEF MaxNumElements
<1>4. /\ index \in [DOMAIN shape -> Nat]
      /\ \A i \in DOMAIN shape : index[i] < shape[i]
      /\ b * Strides(shape)[N] <= id
      /\ id < (b + 1) * Strides(shape)[N]
  BY <1>1, <1>3, IndexOfId
<1> HIDE DEF index
<1>5. index \in FullIndices(shape)
  BY <1>4, FullIndicesAre
<1>6. GetIdFromFullIndex(shape, index) = b
  BY <1>4, IdOfFull
<1>7. b \in Nat
  BY <1>5, <1>6, IdIsBelowSize
<1>8. b = id
  <2> HIDE DEF b
  <2>. QED
    BY <1>2, <1>3, <1>4, <1>7
<1>. QED
  BY <1>5, <1>6, <1>8 DEF index

\* A full index is the index of its id.
LEMMA IndexIsOfItsId ==
    ASSUME NEW shape \in Seq(Nat), NEW index \in FullIndices(shape)
    PROVE  GetIndexFromId(shape, GetIdFromFullIndex(shape, index)) = index
<1> DEFINE id == GetIdFromFullIndex(shape, index)
           again == GetIndexFromId(shape, id)
<1>1. id \in Nat /\ id < Strides(shape)[0] /\ index \in [DOMAIN shape -> Nat]
  BY IdIsBelowSize
<1>2. Strides(shape)[0] \in Nat
  BY StridesStep
<1>3. id \in 0 .. MaxNumElements(shape) - 1
  BY <1>1, <1>2 DEF MaxNumElements
<1>4. id = Before(shape, index)[Len(shape)]
  BY <1>1, IdOfFull
<1> HIDE DEF id
<1>5. again \in FullIndices(shape) /\ GetIdFromFullIndex(shape, again) = id
  BY <1>3, IdIsOfItsIndex
<1> HIDE DEF again
<1>6. /\ again \in [DOMAIN shape -> Nat]
      /\ Begins(shape, again) /\ Len(again) = Len(shape)
      /\ Begins(shape, index) /\ Len(index) = Len(shape)
  BY <1>5, FullIndicesAre
<1>7. Before(shape, again)[Len(shape)] = id
  BY <1>5, <1>6, IdOfFull
<1>8. again = index
  BY <1>4, <1>6, <1>7, BeforeIsInjective
<1>. QED
  BY <1>8 DEF again, id

\* Two sequences with the same numbers are the same.
LEMMA SameSeq ==
    ASSUME NEW S, NEW s \in Seq(S), NEW t \in Seq(S), Len(s) = Len(t),
           \A i \in 1 .. Len(s) : s[i] = t[i]
    PROVE  s = t
<1>1. s = [i \in 1 .. Len(s) |-> s[i]] /\ t = [i \in 1 .. Len(t) |-> t[i]]
  OBVIOUS
<1>. QED
  BY <1>1, Zenon

\* A prefix has the first numbers of a sequence.
LEMMA PrefixIs ==
    ASSUME NEW s \in Seq(Nat), NEW t \in Seq(Nat)
    PROVE  IsPrefix(s, t) <=> (Len(s) <= Len(t) /\ \A i \in 1 .. Len(s) : s[i] = t[i])
<1>1. Len(s) \in Nat /\ Len(t) \in Nat /\ Len(s) <= Len(s)
  OBVIOUS
<1>2. SubSeq(s, 1, Len(s)) = s
  OBVIOUS
<1>3. ASSUME Len(s) <= Len(t)
      PROVE  /\ SubSeq(t, 1, Len(s)) \in Seq(Nat)
             /\ Len(SubSeq(t, 1, Len(s))) = Len(s)
             /\ \A i \in 1 .. Len(s) : SubSeq(t, 1, Len(s))[i] = t[i]
  BY <1>1, <1>3, FrontIs
<1>4. ASSUME Len(s) <= Len(t), \A i \in 1 .. Len(s) : s[i] = t[i]
      PROVE  SubSeq(t, 1, Len(s)) = s
  <2> DEFINE front == SubSeq(t, 1, Len(s))
  <2>1. front \in Seq(Nat) /\ Len(front) = Len(s) /\ \A i \in 1 .. Len(s) : front[i] = s[i]
    BY <1>3, <1>4
  <2> HIDE DEF front
  <2>2. front = s
    BY <2>1, SameSeq
  <2>. QED
    BY <2>2 DEF front
<1>. QED
  BY <1>2, <1>3, <1>4 DEF IsPrefix

\* The indices of n numbers a full index begins with are visited once.
LEMMA VisitedOnce ==
    ASSUME NEW shape \in Seq(Nat), NEW n \in DOMAIN shape,
           NEW full, Begins(shape, full), Len(full) = Len(shape)
    PROVE  \E k \in DOMAIN Visits(shape, n) :
             {j \in DOMAIN Visits(shape, n) : IsPrefix(Visits(shape, n)[j], full)} = {k}
<1> DEFINE v == Visits(shape, n)
           front == SubSeq(full, 1, n)
<1>1. n \in Nat /\ n \in 0 .. Len(shape) /\ n <= Len(shape) /\ full \in Seq(Nat)
  BY DEF Begins
<1>2. front \in Seq(Nat) /\ Len(front) = n /\ \A i \in 1 .. n : front[i] = full[i]
  BY <1>1, FrontIs
<1> HIDE DEF front
<1>3. Begins(shape, front)
  <2>1. DOMAIN front = 1 .. n /\ \A i \in 1 .. n : i \in DOMAIN full
    BY <1>1, <1>2
  <2>. QED
    BY <1>1, <1>2, <2>1 DEF Begins
<1>4. /\ \A j \in DOMAIN v : Begins(shape, v[j]) /\ Len(v[j]) = n /\ Before(shape, v[j])[n] = j - 1
      /\ \E k \in DOMAIN v : v[k] = front
      /\ DOMAIN v = 1 .. Len(v)
  BY <1>1, <1>2, <1>3, VisitsAreIndices
<1> HIDE DEF v
<1>5. PICK k \in DOMAIN v : v[k] = front
  BY <1>4
<1>6. ASSUME NEW j \in DOMAIN v PROVE IsPrefix(v[j], full) <=> v[j] = front
  <2>1. v[j] \in Seq(Nat) /\ Len(v[j]) = n
    BY <1>4 DEF Begins
  <2>2. IsPrefix(v[j], full) <=> \A i \in 1 .. n : v[j][i] = full[i]
    BY <1>1, <2>1, PrefixIs
  <2>3. v[j] = front <=> \A i \in 1 .. n : v[j][i] = front[i]
    <3> DEFINE w == v[j]
    <3>1. w \in Seq(Nat) /\ Len(w) = Len(front)
      BY <1>2, <2>1
    <3> HIDE DEF w
    <3>2. (\A i \in 1 .. n : w[i] = front[i]) => w = front
      BY <1>2, <2>1, <3>1, SameSeq
    <3>. QED
      BY <3>2 DEF w
  <2>. QED
    BY <1>2, <2>2, <2>3
<1>7. ASSUME NEW j \in DOMAIN v, v[j] = front PROVE j = k
  <2>1. j \in Int /\ k \in Int
    <3>1. \A x \in 1 .. Len(v) : x \in Int
      OBVIOUS
    <3>. QED
      BY <1>4, <3>1
  <2>2. j - 1 = k - 1
    BY <1>4, <1>5, <1>7
  <2>. QED
    BY <2>1, <2>2
<1>8. {j \in DOMAIN v : IsPrefix(v[j], full)} = {k}
  BY <1>5, <1>6, <1>7
<1>. QED
  BY <1>8 DEF v

\* The numbering is a bijection, and each walk shares the ids out: nothing
\* but the dimensions being numbers of a uint8_t is needed.
LEMMA ShapeSharesOut ==
    ASSUME pkg.shape \in Seq(0 .. 255)
    PROVE  WalkSharesOutPlaces
<1> DEFINE shape == pkg.shape
<1>1. shape \in Seq(Nat) /\ shape \in Seq(0 .. 255)
  BY ShapeIsSeq
<1>2. IdsNamePlaces
  BY <1>1, IdIsOfItsIndex, IndexIsOfItsId DEF IdsNamePlaces
<1>3. ASSUME NEW n \in DOMAIN shape, NEW id \in 0 .. MaxNumElements(shape) - 1
      PROVE  LET calls == WalkNthDim(shape, n) IN
             \E k \in DOMAIN calls :
                /\ {j \in DOMAIN calls : id \in calls[j].ids[1] .. calls[j].ids[2] - 1} = {k}
                /\ IsPrefix(calls[k].index, GetIndexFromId(shape, id))
  <2> DEFINE calls == WalkNthDim(shape, n)
             v == Visits(shape, n)
             full == GetIndexFromId(shape, id)
  <2>1. DOMAIN calls = DOMAIN v
    BY DEF WalkNthDim
  <2>2. \A j \in DOMAIN v : calls[j].index = v[j] /\ calls[j].ids = GetIdFromIndex(shape, v[j])
    BY DEF WalkNthDim
  <2>3. Begins(shape, full) /\ Len(full) = Len(shape)
    BY <1>1, IdIsOfItsIndex, FullIndicesAre
  <2> HIDE DEF calls, full
  <2>4. PICK k \in DOMAIN v : {j \in DOMAIN v : IsPrefix(v[j], full)} = {k}
    BY <1>1, <2>3, VisitedOnce
  <2>5. ASSUME NEW j \in DOMAIN v
        PROVE  id \in calls[j].ids[1] .. calls[j].ids[2] - 1 <=> IsPrefix(v[j], full)
    <3>1. n \in 0 .. Len(shape) /\ n # 0
      BY <1>1
    <3>2. Begins(shape, v[j]) /\ Len(v[j]) = n
      BY <1>1, <3>1, VisitsAreIndices
    <3> DEFINE index == v[j]
    <3>3. calls[j].ids = GetIdFromIndex(shape, index)
      BY <2>2
    <3>4. Begins(shape, index) /\ index # <<>>
      BY <3>1, <3>2
    <3> HIDE DEF index
    <3>5. id \in GetIdFromIndex(shape, index)[1] .. GetIdFromIndex(shape, index)[2] - 1
          <=> IsPrefix(index, full)
      BY <1>1, <3>4, RangeIsPrefix DEF full
    <3>. QED
      BY <3>3, <3>5 DEF index
  <2> HIDE DEF v
  <2>6. {j \in DOMAIN calls : id \in calls[j].ids[1] .. calls[j].ids[2] - 1} = {k}
    BY <2>1, <2>4, <2>5
  <2>7. k \in DOMAIN calls /\ IsPrefix(calls[k].index, full)
    BY <2>1, <2>2, <2>4
  <2>. QED
    BY <2>6, <2>7 DEF calls, full
<1>. QED
  BY <1>2, <1>3 DEF WalkSharesOutPlaces

\* Full indices, ids and the ranges of a walk name the same places in every
\* reachable state, for every shape the callers may set.
THEOREM PlacesAreShared == Spec => []WalkSharesOutPlaces
<1>1. StoredInPlaces => WalkSharesOutPlaces
  BY ShapeSharesOut DEF StoredInPlaces
<1>. QED
  BY <1>1, DataArePlaced, PTL

-----------------------------------------------------------------------------
(***************************************************************************)
(* IsNthDimEmpty                                                           *)
(***************************************************************************)

\* In the shape of the first n dimensions an index of n numbers has an id of
\* its own, the number of such indices before it.
LEMMA IdInSubShape ==
    ASSUME NEW shape \in Seq(Nat), NEW n \in 0 .. Len(shape)
    PROVE  LET sub == SubSeq(shape, 1, n) IN
           /\ \A index \in FullIndices(sub) : Begins(shape, index) /\ Len(index) = n
           /\ \A index : Begins(shape, index) /\ Len(index) = n
                => GetIdFromFullIndex(sub, index) = Before(shape, index)[n]
<1> DEFINE sub == SubSeq(shape, 1, n)
<1>1. n \in Nat /\ n <= Len(shape) /\ n \in 0 .. n
  OBVIOUS
<1>2. sub \in Seq(Nat) /\ Len(sub) = n /\ \A i \in 1 .. n : sub[i] = shape[i]
  BY <1>1, FrontIs
<1> HIDE DEF sub
<1>3. ASSUME NEW index \in FullIndices(sub)
      PROVE  Begins(shape, index) /\ Len(index) = n
  <2>1. Begins(sub, index) /\ Len(index) = n
    BY <1>2, FullIndicesAre
  <2>2. index \in Seq(Nat) /\ DOMAIN index = 1 .. n /\ \A i \in DOMAIN index : index[i] < sub[i]
    BY <2>1 DEF Begins
  <2>. QED
    BY <1>1, <1>2, <2>1, <2>2 DEF Begins
<1>4. ASSUME NEW index, Begins(shape, index), Len(index) = n
      PROVE  GetIdFromFullIndex(sub, index) = Before(shape, index)[n]
  <2>1. index \in Seq(Nat) /\ DOMAIN index = 1 .. n
    BY <1>4 DEF Begins
  <2>2. index \in [DOMAIN sub -> Nat]
    BY <1>2, <2>1
  <2>3. GetIdFromFullIndex(sub, index) = Before(sub, index)[n]
    BY <1>2, <2>2, IdOfFull
  <2>4. AgreeUpTo(n, sub, shape) /\ AgreeUpTo(n, index, index)
    BY <1>2 DEF AgreeUpTo
  <2>5. n <= Len(index) /\ Len(index) <= Len(sub) /\ Len(index) <= Len(shape)
    BY <1>1, <1>2, <1>4
  <2>6. \A m \in 0 .. n : Before(sub, index)[m] = Before(shape, index)[m]
    BY <1>1, <1>2, <2>1, <2>4, <2>5, BeforeAgrees
  <2>. QED
    BY <1>1, <2>3, <2>6
<1>. QED
  BY <1>3, <1>4 DEF sub

\* An index is empty if nothing was stored at the places that begin with it.
LEMMA EmptyIndexIs ==
    ASSUME StoredInPlaces, MarkedIsStored,
           NEW index, Begins(pkg.shape, index), index # <<>>
    PROVE  IsIndexEmpty(pkg, index)
           <=> \A id \in DOMAIN stored : ~IsPrefix(index, GetIndexFromId(pkg.shape, id))
<1> DEFINE first == GetIdFromIndex(pkg.shape, index)[1]
           end == GetIdFromIndex(pkg.shape, index)[2]
<1>1. /\ pkg.shape \in Seq(0 .. 255)
      /\ pkg.marks = DOMAIN stored
      /\ DOMAIN stored \subseteq 0 .. MaxNumElements(pkg.shape) - 1
  BY DEF StoredInPlaces, MarkedIsStored
<1>2. IsIndexEmpty(pkg, index) <=> \A i \in first .. end - 1 : i \notin DOMAIN stored
  BY <1>1 DEF IsIndexEmpty
<1>3. \A id \in DOMAIN stored :
        id \in first .. end - 1 <=> IsPrefix(index, GetIndexFromId(pkg.shape, id))
  BY <1>1, RangeIsPrefix
<1> HIDE DEF first, end
<1>. QED
  BY <1>2, <1>3

\* The indices that IsNthDimEmpty marks are those below which nothing is stored.
LEMMA ShapeOfMarksIsExact ==
    ASSUME StoredInPlaces, MarkedIsStored
    PROVE  EmptyMeansNothingStored
<1> DEFINE shape == pkg.shape
<1>1. shape \in Seq(Nat)
  BY ShapeIsSeq DEF StoredInPlaces
<1> SUFFICES ASSUME NEW n \in 1 .. Len(pkg.shape) - 1,
                    NEW index \in FullIndices(SubSeq(pkg.shape, 1, n))
             PROVE  GetIdFromFullIndex(SubSeq(pkg.shape, 1, n), index) \in IsNthDimEmpty(pkg, n)
                    <=> \A id \in DOMAIN stored : ~IsPrefix(index, GetIndexFromId(pkg.shape, id))
  BY DEF EmptyMeansNothingStored
<1> DEFINE sub == SubSeq(shape, 1, n)
           v == Visits(shape, n)
<1>2. n \in 0 .. Len(shape) /\ n # Len(shape) /\ n # 0
  BY <1>1
<1>3. /\ \A i \in FullIndices(sub) : Begins(shape, i) /\ Len(i) = n
      /\ \A i : Begins(shape, i) /\ Len(i) = n
                => GetIdFromFullIndex(sub, i) = Before(shape, i)[n]
  BY <1>1, <1>2, IdInSubShape
<1>4. Begins(shape, index) /\ Len(index) = n /\ index # <<>>
  BY <1>2, <1>3
<1>5. /\ \A k \in DOMAIN v : Begins(shape, v[k]) /\ Len(v[k]) = n
      /\ \A i : Begins(shape, i) /\ Len(i) = n => \E k \in DOMAIN v : v[k] = i
  BY <1>1, <1>2, VisitsAreIndices
<1>6. IsNthDimEmpty(pkg, n) =
        {GetIdFromFullIndex(sub, i) : i \in {j \in ToSet(v) : IsIndexEmpty(pkg, j)}}
  BY <1>2 DEF IsNthDimEmpty
<1> HIDE DEF v, sub
<1>7. \A i \in ToSet(v) : Begins(shape, i) /\ Len(i) = n
  BY <1>5 DEF ToSet
<1>8. index \in ToSet(v)
  BY <1>4, <1>5 DEF ToSet
<1>9. ASSUME NEW i \in ToSet(v), GetIdFromFullIndex(sub, i) = GetIdFromFullIndex(sub, index)
      PROVE  i = index
  <2>1. Begins(shape, i) /\ Len(i) = n
    BY <1>7
  <2>2. Before(shape, i)[Len(i)] = Before(shape, index)[Len(index)]
    BY <1>3, <1>4, <1>9, <2>1
  <2>. QED
    BY <1>1, <1>4, <2>1, <2>2, BeforeIsInjective
<1>10. GetIdFromFullIndex(sub, index) \in IsNthDimEmpty(pkg, n) <=> IsIndexEmpty(pkg, index)
  BY <1>6, <1>8, <1>9
<1>11. IsIndexEmpty(pkg, index)
         <=> \A id \in DOMAIN stored : ~IsPrefix(index, GetIndexFromId(pkg.shape, id))
  BY <1>4, EmptyIndexIs
<1>. QED
  BY <1>10, <1>11 DEF sub

\* IsNthDimEmpty marks the indices below which nothing was ever stored, and
\* no others, in every reachable state.
THEOREM EmptyIsExact == Spec => []EmptyMeansNothingStored
<1>1. StoredInPlaces /\ MarkedIsStored => EmptyMeansNothingStored
  BY ShapeOfMarksIsExact
<1>. QED
  BY <1>1, DataArePlaced, MarksAreExact, PTL

-----------------------------------------------------------------------------
(***************************************************************************)
(* The copy of a package                                                   *)
(***************************************************************************)

IsIncreasing(f) == \A i, j \in DOMAIN f : i < j => f[i] < f[j]

\* A finite set of naturals has its elements in increasing order, each once.
LEMMA SortedEnumeration ==
    ASSUME NEW S \in SUBSET Nat, IsFiniteSet(S)
    PROVE  /\ Cardinality(S) \in Nat
           /\ \E f \in [1 .. Cardinality(S) -> S] : IsIncreasing(f)
<1> DEFINE Sorted(T) == \E f \in [1 .. Cardinality(T) -> T] : IsIncreasing(f)
           P == {n \in Nat : \A T \in SUBSET Nat :
                    IsFiniteSet(T) /\ Cardinality(T) = n => Sorted(T)}
<1>1. 0 \in P
  <2> SUFFICES ASSUME NEW T \in SUBSET Nat, IsFiniteSet(T), Cardinality(T) = 0
               PROVE  Sorted(T)
    OBVIOUS
  <2> DEFINE f == [i \in 1 .. 0 |-> 0]
  <2>1. 1 .. 0 = {}
    OBVIOUS
  <2>2. f \in [1 .. Cardinality(T) -> T] /\ DOMAIN f = {}
    BY <2>1
  <2>3. IsIncreasing(f)
    BY <2>2 DEF IsIncreasing
  <2>. QED
    BY <2>2, <2>3
<1>2. ASSUME NEW n \in Nat, n \in P PROVE n + 1 \in P
  <2> SUFFICES ASSUME NEW T \in SUBSET Nat, IsFiniteSet(T), Cardinality(T) = n + 1
               PROVE  Sorted(T)
    OBVIOUS
  <2>1. T # {}
    BY FS_EmptySet
  <2>2. PICK m \in T : \A k \in T : m <= k
    BY <2>1, LeastNatural
  <2> DEFINE U == T \ {m}
  <2>3. IsFiniteSet(U) /\ Cardinality(U) = n
    <3>1. IsFiniteSet(U) /\ Cardinality(U) = Cardinality(T) - 1
      BY FS_RemoveElement
    <3>. QED
      BY <3>1
  <2>4. PICK g \in [1 .. n -> U] : IsIncreasing(g)
    BY <1>2, <2>3
  <2> DEFINE f == [i \in 1 .. n + 1 |-> IF i = 1 THEN m ELSE g[i - 1]]
  <2>5. \A i \in 1 .. n + 1 : i = 1 \/ (i - 1 \in 1 .. n /\ i # 1)
    OBVIOUS
  <2>6. \A i \in 1 .. n : g[i] \in T /\ m < g[i]
    <3>1. \A k \in U : k \in T /\ m < k
      BY <2>2
    <3>. QED
      BY <3>1
  <2>7. f \in [1 .. Cardinality(T) -> T]
    BY <2>5, <2>6
  <2>8. ASSUME NEW i \in 1 .. n + 1, NEW j \in 1 .. n + 1, i < j
        PROVE  f[i] < f[j]
    <3>1. j # 1 /\ j - 1 \in 1 .. n /\ f[j] = g[j - 1]
      BY <2>5, <2>8
    <3>2. CASE i = 1
      BY <2>6, <3>1, <3>2
    <3>3. CASE i # 1
      <4>1. i - 1 \in 1 .. n /\ f[i] = g[i - 1] /\ i - 1 < j - 1
        BY <2>5, <2>8, <3>3
      <4>. QED
        BY <2>4, <3>1, <4>1 DEF IsIncreasing
    <3>. QED
      BY <3>2, <3>3
  <2>9. DOMAIN f = 1 .. n + 1
    OBVIOUS
  <2>10. IsIncreasing(f)
    <3> HIDE DEF f
    <3>. QED
      BY <2>8, <2>9 DEF IsIncreasing
  <2> HIDE DEF f
  <2>. QED
    BY <2>7, <2>10
<1>3. \A n \in Nat : n \in P
  <2> HIDE DEF P
  <2>. QED
    BY <1>1, <1>2, Induction
<1>4. Cardinality(S) \in Nat
  BY FS_CardinalityType
<1>. QED
  BY <1>3, <1>4

\* A sequence of numbers up to its length that increases counts them.
LEMMA IncreasingIsIdentity ==
    ASSUME NEW n \in Nat, NEW f \in [1 .. n -> 1 .. n], IsIncreasing(f)
    PROVE  \A i \in 1 .. n : f[i] = i
<1>1. \A i \in 1 .. n : f[i] \in Nat /\ f[i] >= 1 /\ f[i] <= n
  OBVIOUS
<1> DEFINE P == {i \in 0 .. n : i = 0 \/ f[i] >= i}
           Q == {i \in 0 .. n : i = 0 \/ f[i] <= i}
<1>2. \A i \in 0 .. n : i \in P
  <2>1. 0 \in P
    OBVIOUS
  <2>2. ASSUME NEW i \in 1 .. n, i - 1 \in P PROVE i \in P
    <3>1. CASE i = 1
      BY <1>1, <3>1
    <3>2. CASE i # 1
      <4>1. i - 1 \in 1 .. n /\ f[i - 1] >= i - 1 /\ i - 1 < i
        BY <2>2, <3>2
      <4>2. f[i - 1] < f[i]
        BY <4>1 DEF IsIncreasing
      <4>. QED
        BY <1>1, <4>1, <4>2
    <3>. QED
      BY <3>1, <3>2
  <2> HIDE DEF P
  <2>. QED
    BY <2>1, <2>2, InductionUp
<1>3. \A i \in 0 .. n : i \in Q
  <2>1. n \in Q
    BY <1>1
  <2>2. ASSUME NEW i \in 0 .. n - 1, i + 1 \in Q PROVE i \in Q
    <3>1. CASE i = 0
      BY <3>1
    <3>2. CASE i # 0
      <4>1. i \in 1 .. n /\ i + 1 \in 1 .. n /\ f[i + 1] <= i + 1 /\ i < i + 1
        BY <2>2, <3>2
      <4>2. f[i] < f[i + 1]
        BY <4>1 DEF IsIncreasing
      <4>. QED
        BY <1>1, <4>1, <4>2
    <3>. QED
      BY <3>1, <3>2
  <2> HIDE DEF Q
  <2>. QED
    BY <2>1, <2>2, InductionDown
<1>. QED
  BY <1>1, <1>2, <1>3

\* GetDataIndex gives every id once, in increasing order.
LEMMA DataIndexIs ==
    ASSUME StoredInPlaces
    PROVE  LET S == DOMAIN pkg.dataIndex
               ids == GetDataIndex(pkg)
           IN  /\ Cardinality(S) \in Nat
               /\ ids \in [1 .. Cardinality(S) -> S]
               /\ IsIncreasing(ids)
               /\ \A id \in S : \E i \in 1 .. Cardinality(S) : ids[i] = id
<1> DEFINE S == DOMAIN pkg.dataIndex
           C == Cardinality(S)
           ids == GetDataIndex(pkg)
<1>1. S \subseteq Nat /\ IsFiniteSet(S)
  BY DEF StoredInPlaces
<1> HIDE DEF S
<1>2. C \in Nat /\ \E f \in [1 .. C -> S] : IsIncreasing(f)
  BY <1>1, SortedEnumeration
<1>3. ids = CHOOSE f \in [1 .. C -> S] : IsIncreasing(f)
  BY DEF GetDataIndex, IsIncreasing, S
<1> HIDE DEF ids, C
<1>4. ids \in [1 .. C -> S] /\ IsIncreasing(ids)
  BY <1>2, <1>3
<1>5. IsFiniteSet(1 .. C) /\ Cardinality(1 .. C) = C
  BY <1>2, FS_Interval
<1>6. ids \in Injection(1 .. C, S)
  <2>1. \A i, j \in 1 .. C : i < j \/ j < i \/ i = j
    BY <1>2
  <2>2. \A i, j \in 1 .. C : i < j => ids[i] < ids[j]
    BY <1>4 DEF IsIncreasing
  <2>3. \A i \in 1 .. C : ids[i] \in Nat
    BY <1>1, <1>4
  <2>4. \A i, j \in 1 .. C : ids[i] = ids[j] => i = j
    BY <2>1, <2>2, <2>3
  <2>. QED
    BY <1>4, <2>4 DEF Injection, IsInjective
<1>7. ids \in Surjection(1 .. C, S)
  BY <1>1, <1>5, <1>6, FS_Injection DEF C
<1>8. \A id \in S : \E i \in 1 .. C : ids[i] = id
  BY <1>7 DEF Surjection
<1>. QED
  BY <1>2, <1>4, <1>8 DEF C, ids, S

\* What the copy has after i calls of AddData.
CopyAfter(p, i) ==
    LET ids == {GetDataIndex(p)[j] : j \in 1 .. i} IN
    [shape     |-> p.shape,
     marks     |-> ids,
     data      |-> [j \in 1 .. i |-> p.data[j]],
     dataIndex |-> [id \in ids |-> CHOOSE j \in 1 .. i : GetDataIndex(p)[j] = id]]

\* One call of AddData for the copy.
LEMMA CopyAfterStep ==
    ASSUME NEW p, NEW i \in Nat, i > 0,
           \A j, k \in 1 .. i : GetDataIndex(p)[j] = GetDataIndex(p)[k] => j = k
    PROVE  CopyAfter(p, i) = AfterAddData(CopyAfter(p, i - 1), GetDataIndex(p)[i], p.data[i])
<1> DEFINE ids == GetDataIndex(p)
           n == i - 1
           old == {ids[j] : j \in 1 .. n}
           new == {ids[j] : j \in 1 .. i}
           oldIndex == [id \in old |-> CHOOSE j \in 1 .. n : ids[j] = id]
           newIndex == [id \in new |-> CHOOSE j \in 1 .. i : ids[j] = id]
           oldData == [j \in 1 .. n |-> p.data[j]]
           newData == [j \in 1 .. i |-> p.data[j]]
<1>1. /\ n \in Nat /\ n + 1 = i /\ i \in 1 .. i /\ i \notin 1 .. n
      /\ \A j \in 1 .. i : j = i \/ j \in 1 .. n
      /\ \A j \in 1 .. n : j \in 1 .. i
  OBVIOUS
<1>2. /\ CopyAfter(p, n) =
            [shape |-> p.shape, marks |-> old, data |-> oldData, dataIndex |-> oldIndex]
      /\ CopyAfter(p, i) =
            [shape |-> p.shape, marks |-> new, data |-> newData, dataIndex |-> newIndex]
  BY DEF CopyAfter
<1>3. new = old \union {ids[i]}
  BY <1>1
<1>4. ids[i] \notin old
  BY <1>1
<1>5. Len(oldData) = n
  BY <1>1
<1>6. Append(oldData, p.data[i]) = newData
  <2> DEFINE d == p.data[i]
             all == [j \in 1 .. Len(oldData) + 1 |-> IF j = Len(oldData) + 1 THEN d ELSE oldData[j]]
  <2>1. Append(oldData, d) = all
    BY <1>1
  <2>2. all = [j \in 1 .. i |-> p.data[j]]
    BY <1>1, <1>5
  <2>. QED
    BY <2>1, <2>2
<1>7. With(oldIndex, ids[i], Len(oldData) + 1) = newIndex
  <2>1. ASSUME NEW j \in 1 .. i PROVE (CHOOSE k \in 1 .. i : ids[k] = ids[j]) = j
    OBVIOUS
  <2>2. ASSUME NEW j \in 1 .. n PROVE (CHOOSE k \in 1 .. n : ids[k] = ids[j]) = j
    BY <1>1
  <2>3. \A id \in new : newIndex[id] = IF id = ids[i] THEN i ELSE oldIndex[id]
    <3> SUFFICES ASSUME NEW id \in new
                 PROVE  newIndex[id] = IF id = ids[i] THEN i ELSE oldIndex[id]
      OBVIOUS
    <3>1. PICK j \in 1 .. i : id = ids[j]
      OBVIOUS
    <3>2. newIndex[id] = j
      BY <2>1, <3>1
    <3>3. CASE j = i
      BY <3>1, <3>2, <3>3
    <3>4. CASE j # i
      <4>1. j \in 1 .. n
        BY <1>1, <3>4
      <4>2. id \in old /\ oldIndex[id] = j
        BY <2>2, <3>1, <4>1
      <4>. QED
        BY <1>4, <3>2, <4>2
    <3>. QED
      BY <3>3, <3>4
  <2> HIDE DEF oldIndex, newIndex, new, old, oldData
  <2>4. DOMAIN oldIndex = old /\ DOMAIN newIndex = new /\ newIndex = [id \in new |-> newIndex[id]]
    BY DEF oldIndex, newIndex
  <2>. QED
    BY <1>1, <1>3, <1>5, <2>3, <2>4 DEF With
<1>8. DOMAIN oldIndex = old
  OBVIOUS
<1> HIDE DEF old, new, oldIndex, newIndex, oldData, newData, ids
<1>9. PICK before : before = CopyAfter(p, n)
  OBVIOUS
<1>10. /\ before = [shape |-> p.shape, marks |-> old, data |-> oldData, dataIndex |-> oldIndex]
       /\ before.marks = old /\ before.data = oldData /\ before.dataIndex = oldIndex
  BY <1>2, <1>9
<1> HIDE DEF n
<1>11. AfterAddData(before, ids[i], p.data[i]) =
         [shape     |-> p.shape, marks |-> old \union {ids[i]}, data |-> Append(oldData, p.data[i]),
          dataIndex |-> With(oldIndex, ids[i], Len(oldData) + 1)]
  <2> DEFINE newId == ids[i]
             d == p.data[i]
             moreData == Append(oldData, d)
             moreIndex == With(oldIndex, newId, Len(oldData) + 1)
             more == old \union {newId}
  <2>1. newId \notin DOMAIN before.dataIndex
    BY <1>4, <1>8, <1>10
  <2>2. AfterAddData(before, newId, d) =
            [before EXCEPT !.data = moreData, !.dataIndex = moreIndex, !.marks = more]
    BY <1>10, <2>1 DEF AfterAddData
  <2> HIDE DEF moreData, moreIndex, more
  <2>3. PICK after : after = [before EXCEPT !.data = moreData, !.dataIndex = moreIndex,
                                            !.marks = more]
    OBVIOUS
  <2>4. after = [shape |-> p.shape, marks |-> more, data |-> moreData, dataIndex |-> moreIndex]
    BY <1>10, <2>3
  <2>. QED
    BY <2>2, <2>3, <2>4 DEF moreData, moreIndex, more
<1>. QED
  BY <1>2, <1>3, <1>6, <1>7, <1>9, <1>11 DEF ids, n

\* The loop of the copy as an equation.
LEMMA CopiedIs ==
    ASSUME NEW p, NumElements(p) \in Nat,
           \A j, k \in 1 .. NumElements(p) : GetDataIndex(p)[j] = GetDataIndex(p)[k] => j = k
    PROVE  Copied(p) = CopyAfter(p, NumElements(p))
<1> DEFINE N == NumElements(p)
           first == AfterSetShape(EmptyPackage, p.shape)
           Is(f) == f = [i \in 0 .. N |->
                            IF i = 0 THEN first
                            ELSE AfterAddData(f[i - 1], GetDataIndex(p)[i], p.data[i])]
           copy == [i \in 0 .. N |-> CopyAfter(p, i)]
           r == CHOOSE f : Is(f)
           P == {i \in 0 .. N : r[i] = CopyAfter(p, i)}
<1>1. first = CopyAfter(p, 0)
  <2>1. 1 .. 0 = {}
    OBVIOUS
  <2> DEFINE ids == {GetDataIndex(p)[j] : j \in 1 .. 0}
  <2>2. ids = {}
    BY <2>1
  <2>3. [j \in 1 .. 0 |-> p.data[j]] = <<>>
    BY <2>1
  <2>4. [id \in ids |-> CHOOSE j \in 1 .. 0 : GetDataIndex(p)[j] = id] = <<>>
    BY <2>2
  <2>5. first = [shape |-> p.shape, marks |-> {}, data |-> <<>>, dataIndex |-> <<>>]
    <3>1. PICK empty : empty = EmptyPackage
      OBVIOUS
    <3>2. empty = [shape |-> <<>>, marks |-> {}, data |-> <<>>, dataIndex |-> <<>>]
      BY <3>1 DEF EmptyPackage
    <3>3. PICK shape : shape = p.shape
      OBVIOUS
    <3>4. PICK set : set = [empty EXCEPT !.shape = shape, !.marks = {}]
      OBVIOUS
    <3>5. set = [shape |-> shape, marks |-> {}, data |-> <<>>, dataIndex |-> <<>>]
      BY <3>2, <3>4
    <3>. QED
      BY <3>1, <3>3, <3>4, <3>5 DEF AfterSetShape
  <2>. QED
    BY <2>2, <2>3, <2>4, <2>5 DEF CopyAfter
<1> HIDE DEF first
<1>2. ASSUME NEW i \in 1 .. N
      PROVE  CopyAfter(p, i) = AfterAddData(CopyAfter(p, i - 1), GetDataIndex(p)[i], p.data[i])
  <2>1. i \in Nat /\ i > 0 /\ \A j \in 1 .. i : j \in 1 .. N
    OBVIOUS
  <2>. QED
    BY <2>1, CopyAfterStep
<1>3. \A i \in 0 .. N : i = 0 \/ (i \in 1 .. N /\ i # 0 /\ i - 1 \in 0 .. N)
  OBVIOUS
<1> HIDE DEF N
<1>4. Is(copy)
  <2>1. \A i \in 0 .. N :
          copy[i] = IF i = 0 THEN first
                    ELSE AfterAddData(copy[i - 1], GetDataIndex(p)[i], p.data[i])
    BY <1>1, <1>2, <1>3
  <2>2. copy = [i \in 0 .. N |-> copy[i]]
    OBVIOUS
  <2> HIDE DEF copy
  <2>. QED
    BY <2>1, <2>2, Zenon
<1>5. Is(r)
  <2> HIDE DEF Is
  <2>. QED
    BY <1>4, Zenon
<1>6. /\ r[0] = first
      /\ \A i \in 1 .. N : r[i] = AfterAddData(r[i - 1], GetDataIndex(p)[i], p.data[i])
  <2>1. 0 \in 0 .. N /\ \A i \in 1 .. N : i \in 0 .. N /\ i # 0
    BY DEF N
  <2> HIDE DEF r
  <2>. QED
    BY <1>5, <2>1
<1> HIDE DEF r
<1>7. \A i \in 0 .. N : i \in P
  <2>1. N \in Nat
    BY DEF N
  <2>2. 0 \in P
    BY <1>1, <1>6, <2>1
  <2>3. \A i \in 1 .. N : i - 1 \in P => i \in P
    BY <1>2, <1>6, <2>1
  <2> HIDE DEF P
  <2>. QED
    BY <2>1, <2>2, <2>3, InductionUp
<1>8. r[N] = CopyAfter(p, N)
  BY <1>7 DEF N
<1>9. Copied(p) = r[N]
  BY DEF Copied, r, N, first
<1>. QED
  BY <1>8, <1>9 DEF N

\* If every id of data_index_ has a datum of its own, the copy has the same
\* places and data, and, with the data in the order of the ids, at the same
\* places.
LEMMA CopyIsOfTheSame ==
    ASSUME IInv, StoredInPlaces, DOMAIN pkg.dataIndex = pkg.marks
    PROVE  /\ Copied(pkg).marks = pkg.marks
           /\ Copied(pkg).data = pkg.data
           /\ FilledInOrder(pkg) => Content(Copied(pkg)) = Content(pkg)
<1> DEFINE S == DOMAIN pkg.dataIndex
           ids == GetDataIndex(pkg)
           N == NumElements(pkg)
           copy == Copied(pkg)
           index == [id \in S |-> CHOOSE j \in 1 .. N : ids[j] = id]
<1>1. /\ pkg.data \in Seq(Data)
      /\ \A id \in S : pkg.dataIndex[id] \in 1 .. Len(pkg.data)
      /\ pkg.marks = DOMAIN stored
      /\ S \subseteq Nat
      /\ Cardinality(DOMAIN stored) = Len(pkg.data)
  BY DEF IInv, IndexLeadsToData, MarkedIsStored, StoredInPlaces
<1>2. N = Len(pkg.data) /\ N \in Nat /\ Cardinality(S) = N
  BY <1>1 DEF NumElements
<1>3. /\ ids \in [1 .. N -> S]
      /\ IsIncreasing(ids)
      /\ \A id \in S : \E i \in 1 .. N : ids[i] = id
  BY <1>2, DataIndexIs
<1> HIDE DEF ids, N
<1>4. \A j, k \in 1 .. N : ids[j] = ids[k] => j = k
  <2>1. \A j, k \in 1 .. N : j < k \/ k < j \/ j = k
    BY <1>2
  <2>2. \A j, k \in 1 .. N : j < k => ids[j] < ids[k]
    BY <1>3 DEF IsIncreasing
  <2>3. \A j \in 1 .. N : ids[j] \in Nat
    BY <1>1, <1>3
  <2>. QED
    BY <2>1, <2>2, <2>3
<1>5. copy = CopyAfter(pkg, N)
  BY <1>2, <1>4, CopiedIs DEF ids, N
<1>6. {ids[j] : j \in 1 .. N} = S
  BY <1>3
<1>7. copy = [shape |-> pkg.shape, marks |-> S, data |-> [j \in 1 .. N |-> pkg.data[j]],
              dataIndex |-> index]
  BY <1>5, <1>6 DEF CopyAfter, ids
<1>8. pkg.data = [j \in 1 .. N |-> pkg.data[j]]
  BY <1>1, <1>2
<1>9. copy.marks = S /\ copy.data = pkg.data /\ copy.dataIndex = index
  BY <1>7, <1>8
<1> HIDE DEF copy
<1>10. ASSUME FilledInOrder(pkg) PROVE Content(copy) = Content(pkg)
  <2> DEFINE place == [i \in 1 .. N |-> pkg.dataIndex[ids[i]]]
  <2>1. place \in [1 .. N -> 1 .. N]
    BY <1>1, <1>2, <1>3
  <2>2. IsIncreasing(place)
    <3>1. \A i, j \in 1 .. N : i < j => ids[i] \in S /\ ids[j] \in S /\ ids[i] < ids[j]
      BY <1>3 DEF IsIncreasing
    <3>2. \A i, j \in 1 .. N : i < j => pkg.dataIndex[ids[i]] < pkg.dataIndex[ids[j]]
      BY <1>10, <3>1 DEF FilledInOrder
    <3>. QED
      BY <3>2 DEF IsIncreasing
  <2>3. \A i \in 1 .. N : place[i] = i
    <3> HIDE DEF place
    <3>. QED
      BY <1>2, <2>1, <2>2, IncreasingIsIdentity
  <2>4. \A id \in S : index[id] = pkg.dataIndex[id]
    <3> SUFFICES ASSUME NEW id \in S PROVE index[id] = pkg.dataIndex[id]
      OBVIOUS
    <3>1. PICK i \in 1 .. N : ids[i] = id
      BY <1>3
    <3>2. index[id] = i
      BY <1>4, <3>1
    <3>3. pkg.dataIndex[id] = i
      BY <2>3, <3>1
    <3>. QED
      BY <3>2, <3>3
  <2> HIDE DEF index
  <2>. QED
    BY <1>9, <2>4 DEF Content
<1>. QED
  BY <1>9, <1>10 DEF copy

\* The copy that the base class Calculator makes has the places and the data
\* of its package, in every reachable state in which only places with data
\* were read; a package filled in the order of its ids is copied as it is.
THEOREM CopiesAreSame == Spec => []CopyIsSame
<1>1. IInv /\ StoredInPlaces => CopyIsSame
  BY CopyIsOfTheSame DEF CopyIsSame
<1>. QED
  BY <1>1, Invariant, DataArePlaced, PTL
=============================================================================
