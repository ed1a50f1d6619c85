----------------------------- MODULE NatRecursion -----------------------------
(***************************************************************************)
(* Induction and recursion over the natural numbers, stated about sets and *)
(* functions rather than operators, for the proofs about definitions that  *)
(* count through an array, the scan of the sampler's ring and the offsets  *)
(* of a model file, and recursion on what gets smaller, as words do when   *)
(* their symbols are merged.                                               *)
(***************************************************************************)
EXTENDS Integers, WellFoundedInduction, TLAPS

LEMMA LeastElement ==
  ASSUME NEW S \in SUBSET Nat, S # {}
  PROVE  \E m \in S : \A k \in S : m <= k
  <1> DEFINE R == OpToRel(<, Nat)
  <1>1. IsWellFoundedOn(R, Nat)
    BY NatLessThanWellFounded
  <1>2. \A x, y \in Nat : <<x, y>> \in R <=> x < y
    BY DEF OpToRel
  <1> HIDE DEF R
  <1>3. PICK m \in S : \A k \in S : ~(<<k, m>> \in R)
    BY <1>1, WFMin
  <1>4. ASSUME NEW k \in S PROVE m <= k
    <2>1. k \in Nat /\ m \in Nat /\ ~(<<k, m>> \in R)
      BY <1>3
    <2>2. ~(k < m)
      BY <1>2, <2>1
    <2> QED
      BY <2>1, <2>2
  <1> QED
    BY <1>4

LEMMA SetInduction ==
  ASSUME NEW S \in SUBSET Nat, 0 \in S, \A n \in S : n + 1 \in S
  PROVE  S = Nat
  <1> SUFFICES ASSUME Nat \ S # {} PROVE FALSE
    OBVIOUS
  <1>1. PICK m \in Nat \ S : \A k \in Nat \ S : m <= k
    BY LeastElement
  <1>2. m # 0 /\ m - 1 \in S
    BY <1>1
  <1>3. (m - 1) + 1 = m
    BY <1>1
  <1> QED
    BY <1>1, <1>2, <1>3

\* The same up to a bound.
LEMMA BoundedInduction ==
  ASSUME NEW n \in Nat, NEW S \in SUBSET (0 .. n), 0 \in S,
         \A k \in 0 .. n - 1 : k \in S => k + 1 \in S
  PROVE  S = 0 .. n
  <1> DEFINE T == S \cup {k \in Nat : k > n}
  <1>1. T \in SUBSET Nat /\ 0 \in T
    <2>1. \A k \in S : k \in Nat
      OBVIOUS
    <2> QED
      BY <2>1
  <1>2. ASSUME NEW k \in T PROVE k + 1 \in T
    <2>0. k \in Nat
      OBVIOUS
    <2>1. CASE k \in S /\ k < n
      <3>1. k \in 0 .. n - 1
        BY <2>0, <2>1
      <3> QED
        BY <2>1, <3>1
    <2>2. CASE ~(k < n)
      <3>1. k + 1 \in Nat /\ k + 1 > n
        BY <2>0, <2>2
      <3> QED
        BY <3>1
    <2>3. CASE k < n /\ k \notin S
      <3>1. ~(k > n)
        BY <2>0, <2>3
      <3> QED
        BY <2>3, <3>1
    <2> QED
      BY <2>1, <2>2, <2>3
  <1> HIDE DEF T
  <1>3. T = Nat
    BY <1>1, <1>2, SetInduction
  <1>4. ASSUME NEW k \in 0 .. n PROVE k \in S
    <2>1. k \in T /\ ~(k > n)
      BY <1>3
    <2> QED
      BY <2>1 DEF T
  <1> QED
    BY <1>4

\* The values a recursion over 0 .. n takes.
Recurses(f, n, base, step) ==
    f = [k \in 0 .. n |-> IF k = 0 THEN base ELSE step[<<k, f[k - 1]>>]]

\* There is a function that satisfies a recursion over 0 .. n.
LEMMA RecursionExists ==
  ASSUME NEW A, NEW base \in A, NEW n \in Nat, NEW step \in [(1 .. n) \X A -> A]
  PROVE  \E f \in [0 .. n -> A] : Recurses(f, n, base, step)
  <1> DEFINE S == {m \in 0 .. n : \E f \in [0 .. m -> A] : Recurses(f, m, base, step)}
  <1>1. 0 \in S
    <2> DEFINE f == [k \in 0 .. 0 |-> base]
    <2>1. f \in [0 .. 0 -> A]
      OBVIOUS
    <2>2. \A k \in 0 .. 0 : k = 0
      OBVIOUS
    <2>3. f = [k \in 0 .. 0 |-> IF k = 0 THEN base ELSE step[<<k, f[k - 1]>>]]
      BY <2>2
    <2>4. \E h \in [0 .. 0 -> A] : Recurses(h, 0, base, step)
      <3> HIDE DEF f
      <3> QED
        BY <2>1, <2>3 DEF Recurses
    <2> QED
      BY <2>4
  <1>2. ASSUME NEW m \in 0 .. n - 1, m \in S PROVE m + 1 \in S
    <2>1. PICK f \in [0 .. m -> A] : Recurses(f, m, base, step)
      BY <1>2
    <2>2. step[<<m + 1, f[m]>>] \in A /\ m + 1 \in 0 .. n
      <3>1. m \in 0 .. m /\ m + 1 \in 1 .. n
        OBVIOUS
      <3>2. f[m] \in A
        BY <2>1, <3>1
      <3>3. <<m + 1, f[m]>> \in (1 .. n) \X A
        BY <3>1, <3>2
      <3>4. step[<<m + 1, f[m]>>] \in A
        BY <3>3
      <3> QED
        BY <3>1, <3>4
    <2> DEFINE g == [k \in 0 .. m + 1 |-> IF k <= m THEN f[k] ELSE step[<<m + 1, f[m]>>]]
    <2>3. g \in [0 .. m + 1 -> A]
      BY <2>1, <2>2
    <2>4. ASSUME NEW k \in 0 .. m + 1
          PROVE  g[k] = IF k = 0 THEN base ELSE step[<<k, g[k - 1]>>]
      <3>1. CASE k = m + 1
        <4>1. k # 0 /\ k - 1 = m /\ ~(k <= m) /\ m \in 0 .. m + 1 /\ m <= m
          BY <3>1
        <4> QED
          BY <3>1, <4>1
      <3>2. CASE k = 0
        <4>1. k \in 0 .. m /\ k <= m
          BY <3>2
        <4> QED
          BY <2>1, <3>2, <4>1 DEF Recurses
      <3>3. CASE k # 0 /\ k # m + 1
        <4>1. k \in 0 .. m /\ k <= m /\ k - 1 \in 0 .. m + 1 /\ k - 1 <= m /\ k # 0
          BY <3>3
        <4>2. f[k] = step[<<k, f[k - 1]>>]
          BY <2>1, <4>1 DEF Recurses
        <4> QED
          BY <4>1, <4>2
      <3> QED
        BY <3>1, <3>2, <3>3
    <2>5. g = [k \in 0 .. m + 1 |-> IF k = 0 THEN base ELSE step[<<k, g[k - 1]>>]]
      BY <2>4
    <2>6. \E h \in [0 .. m + 1 -> A] : Recurses(h, m + 1, base, step)
      <3> HIDE DEF g
      <3> QED
        BY <2>3, <2>5 DEF Recurses
    <2> QED
      BY <2>2, <2>6
  <1> HIDE DEF S
  <1>3. S \in SUBSET (0 .. n)
    BY DEF S
  <1>4. S = 0 .. n
    BY <1>1, <1>2, <1>3, BoundedInduction
  <1>5. n \in S
    BY <1>4
  <1> QED
    BY <1>5 DEF S

-----------------------------------------------------------------------------
(* Remainders next to the divisor. *)

LEMMA ModNear ==
  ASSUME NEW c \in Nat \ {0}, NEW a \in Int
  PROVE  /\ 0 <= a /\ a < c => a % c = a
         /\ -c <= a /\ a < 0 => a % c = a + c
         /\ c <= a /\ a < 2 * c => a % c = a - c
         /\ a % c \in 0 .. c - 1
  OBVIOUS

-----------------------------------------------------------------------------
(* Recursion on anything that has a size. *)

\* f is what the recursion gives for all of D of at most size n.
Solves(f, n, D, B, size, stop, end, next, wrap) ==
  LET E == {x \in D : size[x] <= n} IN
  /\ f \in [E -> B]
  /\ \A x \in E : f[x] = IF x \in stop THEN end[x] ELSE wrap[<<x, f[next[x]]>>]

\* f is what the recursion gives for all of D.
Unfolds(f, D, B, stop, end, next, wrap) ==
  /\ f \in [D -> B]
  /\ \A x \in D : f[x] = IF x \in stop THEN end[x] ELSE wrap[<<x, f[next[x]]>>]

\* The recursion ends.
Shrinks(D, size, stop, next) ==
  /\ size \in [D -> Nat] /\ next \in [D -> D]
  /\ \A x \in D : x \notin stop => size[next[x]] < size[x]

LEMMA SizeRecursion ==
  ASSUME NEW D, NEW B, NEW size, NEW stop, NEW next, Shrinks(D, size, stop, next),
         NEW end \in [D -> B], NEW wrap \in [D \X B -> B]
  PROVE  \E f : Unfolds(f, D, B, stop, end, next, wrap)
  <1>0. /\ size \in [D -> Nat] /\ next \in [D -> D]
        /\ \A x \in D : x \notin stop => size[next[x]] < size[x]
    BY DEF Shrinks
  <1> USE <1>0
  <1> DEFINE E(n) == {x \in D : size[x] <= n}
             Good(f, n) == Solves(f, n, D, B, size, stop, end, next, wrap)
  <1>1. \A n, f : Good(f, n) <=> /\ f \in [E(n) -> B]
                                 /\ \A x \in E(n) : f[x] = IF x \in stop THEN end[x] ELSE wrap[<<x, f[next[x]]>>]
    BY DEF Solves
  <1>2. \A n \in Nat : \A x \in E(n + 1) : x \notin stop => next[x] \in E(n)
    <2> SUFFICES ASSUME NEW n \in Nat, NEW x \in D, size[x] <= n + 1, x \notin stop
                 PROVE  next[x] \in D /\ size[next[x]] <= n
      OBVIOUS
    <2>1. next[x] \in D
      OBVIOUS
    <2>2. size[next[x]] \in Nat /\ size[x] \in Nat /\ size[next[x]] < size[x]
      BY <2>1
    <2> QED
      BY <2>1, <2>2
  <1>3. \A n \in Nat : \A x \in E(n) : x \in E(n + 1) /\ x \in D
    OBVIOUS
  <1>4. ASSUME NEW n \in Nat, NEW x \in E(n), x \notin stop PROVE next[x] \in E(n)
    <2>1. x \in D /\ next[x] \in D /\ size[x] <= n
      OBVIOUS
    <2>2. size[next[x]] \in Nat /\ size[x] \in Nat /\ size[next[x]] < size[x]
      BY <1>4, <2>1
    <2> QED
      BY <2>1, <2>2
  <1> HIDE DEF Good
  <1>5. \A n \in Nat : \E f : Good(f, n)
    <2> DEFINE S == {n \in Nat : \E f : Good(f, n)}
    <2>1. 0 \in S
      <3> DEFINE f == [x \in E(0) |-> end[x]]
      <3>1. \A x \in E(0) : x \in stop /\ end[x] \in B
        <4> SUFFICES ASSUME NEW x \in D, size[x] <= 0 PROVE x \in stop /\ end[x] \in B
          OBVIOUS
        <4>1. next[x] \in D
          OBVIOUS
        <4>2. size[next[x]] \in Nat /\ ~(size[next[x]] < size[x])
          BY <4>1
        <4> QED
          BY <4>2
      <3>2. f \in [E(0) -> B]
        BY <3>1
      <3>3. Good(f, 0)
        BY <1>1, <3>1, <3>2
      <3> QED
        BY <3>3
    <2>2. ASSUME NEW n \in S PROVE n + 1 \in S
      <3>1. n \in Nat /\ \E f : Good(f, n)
        OBVIOUS
      <3>2. PICK f : Good(f, n)
        BY <3>1
      <3>3. /\ f \in [E(n) -> B]
            /\ \A x \in E(n) : f[x] = IF x \in stop THEN end[x] ELSE wrap[<<x, f[next[x]]>>]
        BY <1>1, <3>2
      <3> DEFINE g == [x \in E(n + 1) |-> IF x \in stop THEN end[x] ELSE wrap[<<x, f[next[x]]>>]]
      <3>4. g \in [E(n + 1) -> B]
        <4> SUFFICES ASSUME NEW x \in E(n + 1)
                     PROVE  (IF x \in stop THEN end[x] ELSE wrap[<<x, f[next[x]]>>]) \in B
          OBVIOUS
        <4>1. x \in D
          OBVIOUS
        <4>2. CASE x \notin stop
          <5>1. next[x] \in E(n)
            BY <1>2, <3>1, <4>2
          <5>2. f[next[x]] \in B
            BY <3>3, <5>1
          <5>3. <<x, f[next[x]]>> \in D \X B
            BY <4>1, <5>2
          <5> QED
            BY <4>2, <5>3
        <4> QED
          BY <4>1, <4>2
      <3>5. ASSUME NEW y \in E(n) PROVE g[y] = f[y]
        <4>1. y \in E(n + 1)
          BY <1>3, <3>1
        <4> HIDE DEF E
        <4> QED
          BY <3>3, <4>1
      <3>6. \A x \in E(n + 1) : g[x] = IF x \in stop THEN end[x] ELSE wrap[<<x, g[next[x]]>>]
        <4> SUFFICES ASSUME NEW x \in E(n + 1)
                     PROVE  g[x] = IF x \in stop THEN end[x] ELSE wrap[<<x, g[next[x]]>>]
          OBVIOUS
        <4>1. g[x] = IF x \in stop THEN end[x] ELSE wrap[<<x, f[next[x]]>>]
          OBVIOUS
        <4>2. x \notin stop => g[next[x]] = f[next[x]]
          BY <1>2, <3>1, <3>5
        <4> HIDE DEF g
        <4> QED
          BY <4>1, <4>2
      <3> HIDE DEF g
      <3>7. Good(g, n + 1)
        BY <1>1, <3>4, <3>6
      <3> QED
        BY <3>1, <3>7
    <2>3. S = Nat
      <3>1. S \in SUBSET Nat
        OBVIOUS
      <3> HIDE DEF S
      <3> QED
        BY <2>1, <2>2, <3>1, SetInduction
    <2> QED
      BY <2>3
  \* there is only one for each size
  <1>6. ASSUME NEW n \in Nat, NEW m \in Nat, m <= n, NEW f, NEW g, Good(f, n), Good(g, m),
               NEW x \in E(m)
        PROVE  f[x] = g[x]
    <2> DEFINE S == {j \in Nat : \A y \in E(m) : size[y] <= j => f[y] = g[y]}
    <2>1. \A y \in E(m) : y \in E(n) /\ y \in D /\ size[y] \in Nat
      BY <1>6
    <2>2. \A y \in E(m) : /\ f[y] = IF y \in stop THEN end[y] ELSE wrap[<<y, f[next[y]]>>]
                          /\ g[y] = IF y \in stop THEN end[y] ELSE wrap[<<y, g[next[y]]>>]
      BY <1>1, <1>6, <2>1
    <2>3. \A y \in E(m) : y \notin stop => next[y] \in E(m) /\ size[next[y]] < size[y] /\ size[next[y]] \in Nat
      <3> SUFFICES ASSUME NEW y \in E(m), y \notin stop
                   PROVE  next[y] \in E(m) /\ size[next[y]] < size[y] /\ size[next[y]] \in Nat
        OBVIOUS
      <3>1. next[y] \in E(m)
        BY <1>4
      <3>2. y \in D /\ next[y] \in D
        BY <2>1
      <3> QED
        BY <3>1, <3>2
    <2> HIDE DEF E
    <2>4. 0 \in S
      <3> SUFFICES ASSUME NEW y \in E(m), size[y] <= 0 PROVE f[y] = g[y]
        OBVIOUS
      <3>1. y \in stop
        BY <2>1, <2>3
      <3> QED
        BY <2>2, <3>1
    <2>5. ASSUME NEW j \in S PROVE j + 1 \in S
      <3>1. j \in Nat /\ \A y \in E(m) : size[y] <= j => f[y] = g[y]
        OBVIOUS
      <3> SUFFICES ASSUME NEW y \in E(m), size[y] <= j + 1 PROVE f[y] = g[y]
        BY <3>1
      <3>2. CASE y \in stop
        BY <2>2, <3>2
      <3>3. CASE y \notin stop
        <4>1. next[y] \in E(m) /\ size[next[y]] <= j
          BY <2>1, <2>3, <3>1, <3>3
        <4>2. f[next[y]] = g[next[y]]
          BY <3>1, <4>1
        <4> QED
          BY <2>2, <3>3, <4>2
      <3> QED
        BY <3>2, <3>3
    <2>6. S = Nat
      <3>1. S \in SUBSET Nat
        OBVIOUS
      <3> HIDE DEF S
      <3> QED
        BY <2>4, <2>5, <3>1, SetInduction
    <2> QED
      BY <2>1, <2>6
  <1> DEFINE G(n) == CHOOSE f : Good(f, n)
             h == [x \in D |-> G(size[x])[x]]
  <1>7. \A n \in Nat : Good(G(n), n)
    BY <1>5
  <1> HIDE DEF G
  <1>8. ASSUME NEW x \in D PROVE x \in E(size[x]) /\ size[x] \in Nat
    OBVIOUS
  <1>9. h \in [D -> B]
    <2> SUFFICES ASSUME NEW x \in D PROVE G(size[x])[x] \in B
      OBVIOUS
    <2>1. G(size[x]) \in [E(size[x]) -> B]
      BY <1>1, <1>7, <1>8
    <2> HIDE DEF E
    <2> QED
      BY <1>8, <2>1
  <1>10. ASSUME NEW x \in D
         PROVE  h[x] = IF x \in stop THEN end[x] ELSE wrap[<<x, h[next[x]]>>]
    <2> DEFINE n == size[x]
               y == next[x]
               m == size[y]
    <2>1. n \in Nat /\ x \in E(n) /\ y \in D /\ m \in Nat /\ y \in E(m)
      BY <1>8
    <2>2. h[x] = G(n)[x] /\ h[y] = G(m)[y]
      BY <2>1
    <2>3. Good(G(n), n) /\ Good(G(m), m)
      BY <1>7, <2>1
    <2>4. G(n)[x] = IF x \in stop THEN end[x] ELSE wrap[<<x, G(n)[y]>>]
      BY <1>1, <2>1, <2>3
    <2>5. x \notin stop => G(n)[y] = G(m)[y]
      <3> SUFFICES ASSUME x \notin stop PROVE G(n)[y] = G(m)[y]
        OBVIOUS
      <3>1. m <= n
        BY <2>1
      <3> HIDE DEF n, m, y, E
      <3> QED
        BY <1>6, <2>1, <2>3, <3>1
    <2> HIDE DEF h, n, m
    <2> QED
      BY <2>2, <2>4, <2>5
  <1> HIDE DEF h
  <1>11. Unfolds(h, D, B, stop, end, next, wrap)
    BY <1>9, <1>10 DEF Unfolds
  <1> QED
    BY <1>11
=============================================================================
