----------------------------- MODULE FoldProofs -----------------------------
(***************************************************************************)
(* What the proofs about sequences rest on: induction over numbers, put    *)
(* as a fact about a set, and that a fold from the left is what its steps  *)
(* make of its base, one element after the other.                          *)
(***************************************************************************)
EXTENDS Integers, SequencesExt, WellFoundedInduction, TLAPS

\* Induction: a set that has 0, and with a number its successor, has all of them up to n.
LEMMA Climb ==
    ASSUME NEW n \in Nat, NEW S, 0 \in S, \A k \in 1..n : k - 1 \in S => k \in S
    PROVE  \A k \in 0..n : k \in S
<1> DEFINE Out == {k \in 0..n : k \notin S}
           R == OpToRel(<, Nat)
<1>1. SUFFICES ASSUME Out # {} PROVE FALSE
  OBVIOUS
<1>2. \E m \in Out : \A k \in Out : ~(<<k, m>> \in R)
  <2>1. Out \subseteq Nat
    OBVIOUS
  <2> QED
    BY <1>1, <2>1, NatLessThanWellFounded, WFMin
<1>3. \A k, m \in Out : <<k, m>> \in R <=> k < m
  BY DEF OpToRel
<1>4. PICK m \in Out : \A k \in Out : ~(k < m)
  BY <1>2, <1>3, Zenon
<1>5. m \in 0..n /\ m \notin S /\ m # 0
  BY <1>4
<1>6. m \in 1..n /\ m - 1 \in 0..n
  BY <1>5
<1>7. m - 1 \in Out
  BY <1>5, <1>6
<1>8. m - 1 < m
  BY <1>5
<1> QED
  BY <1>4, <1>7, <1>8

\* The greatest of the numbers up to k is k, and of a set of such numbers with k in it.
LEMMA MaxOf ==
    ASSUME NEW k \in Nat, NEW u \in SUBSET (1..k), k \in u
    PROVE  Max(u) = k
<1>1. \A x \in u : x \in 1..k /\ k >= x
  OBVIOUS
<1>2. Max(u) \in u /\ \A y \in u : Max(u) >= y
  BY <1>1, Zenon DEF Max
<1>3. Max(u) \in 1..k /\ Max(u) >= k
  BY <1>1, <1>2
<1> QED
  BY <1>3

\* A set of such numbers that is not empty has a greatest one.
LEMMA MaxIn ==
    ASSUME NEW n \in Nat, NEW u \in SUBSET (1..n), u # {}
    PROVE  Max(u) \in u
<1> DEFINE D == {n - x : x \in u}
           R == OpToRel(<, Nat)
<1>0. \A x \in u : x \in 1..n
  OBVIOUS
<1>1. D \subseteq Nat /\ D # {}
  <2>1. \A x \in u : n - x \in Nat
    BY <1>0
  <2> QED
    BY <2>1
<1>2. \E m \in D : \A k \in D : ~(<<k, m>> \in R)
  BY <1>1, NatLessThanWellFounded, WFMin
<1>3. \A k, m \in D : <<k, m>> \in R <=> k < m
  BY <1>1 DEF OpToRel
<1>4. PICK d \in D : \A k \in D : ~(k < d)
  BY <1>2, <1>3, Zenon
<1>5. PICK m \in u : d = n - m
  OBVIOUS
<1>6. \A x \in u : ~(n - x < n - m)
  BY <1>4, <1>5
<1>7. \A x \in u : m >= x
  BY <1>0, <1>6
<1> QED
  BY <1>7, Zenon DEF Max

\* The values that a fold with these steps passes through; u: the places that were taken.
Iterates(F, n, base, next) ==
    F = [u \in SUBSET (1..n) |-> IF u = {} THEN base ELSE next[<<F[u \ {Max(u)}], Max(u)>>]]

\* A function that is defined by its own values at smaller sets of places exists.
LEMMA FoldExists ==
    ASSUME NEW n \in Nat, NEW T, NEW base \in T, NEW next \in [T \X (1..n) -> T]
    PROVE  \E F \in [SUBSET (1..n) -> T] : Iterates(F, n, base, next)
<1> DEFINE Has(k) == \E F \in [SUBSET (1..k) -> T] :
                        \A u \in SUBSET (1..k) : F[u] = IF u = {} THEN base ELSE next[<<F[u \ {Max(u)}], Max(u)>>]
           S == {k \in 0..n : Has(k)}
<1>1. Has(0)
  <2>1. SUBSET (1..0) = {{}}
    OBVIOUS
  <2>2. [u \in SUBSET (1..0) |-> base] \in [SUBSET (1..0) -> T]
    OBVIOUS
  <2> QED
    BY <2>1, <2>2
<1>2. ASSUME NEW k \in 1..n, Has(k - 1) PROVE Has(k)
  <2>1. PICK F \in [SUBSET (1..(k - 1)) -> T] :
            \A u \in SUBSET (1..(k - 1)) : F[u] = IF u = {} THEN base ELSE next[<<F[u \ {Max(u)}], Max(u)>>]
    BY <1>2
  <2> DEFINE G == [u \in SUBSET (1..k) |-> IF k \in u THEN next[<<F[u \ {k}], k>>] ELSE F[u]]
  <2>2. \A u \in SUBSET (1..k) : u \ {k} \in SUBSET (1..(k - 1)) /\ (k \notin u => u \in SUBSET (1..(k - 1)))
    OBVIOUS
  <2>3. \A u \in SUBSET (1..k) : k \in u => Max(u) = k
    BY MaxOf
  <2>4. G \in [SUBSET (1..k) -> T]
    <3>1. \A u \in SUBSET (1..k) : (IF k \in u THEN next[<<F[u \ {k}], k>>] ELSE F[u]) \in T
      BY <2>2
    <3> QED
      BY <3>1
  <2>5. ASSUME NEW u \in SUBSET (1..k)
        PROVE  G[u] = IF u = {} THEN base ELSE next[<<G[u \ {Max(u)}], Max(u)>>]
    <3>1. CASE k \in u
      <4>1. G[u] = next[<<F[u \ {k}], k>>]
        BY <3>1
      <4>2. u \ {k} \in SUBSET (1..k) /\ k \notin u \ {k}
        OBVIOUS
      <4>3. G[u \ {k}] = F[u \ {k}]
        BY <4>2
      <4> QED
        BY <2>3, <3>1, <4>1, <4>3
    <3>2. CASE k \notin u
      <4>1. u \in SUBSET (1..(k - 1))
        BY <2>2, <3>2
      <4>2. u \ {Max(u)} \in SUBSET (1..k) /\ k \notin u \ {Max(u)}
        BY <3>2
      <4>3. G[u] = F[u] /\ G[u \ {Max(u)}] = F[u \ {Max(u)}]
        BY <3>2, <4>2
      <4> QED
        BY <2>1, <4>1, <4>3
    <3> QED
      BY <3>1, <3>2
  <2> QED
    BY <2>4, <2>5
<1> HIDE DEF Has
<1>3. \A k \in 0..n : k \in S
  <2>1. 0 \in S
    BY <1>1
  <2>2. \A k \in 1..n : k - 1 \in S => k \in S
    BY <1>2
  <2> HIDE DEF S
  <2> QED
    BY <2>1, <2>2, Climb, Zenon
<1>4. Has(n)
  BY <1>3
<1>5. PICK F \in [SUBSET (1..n) -> T] :
          \A u \in SUBSET (1..n) : F[u] = IF u = {} THEN base ELSE next[<<F[u \ {Max(u)}], Max(u)>>]
  BY <1>4 DEF Has
<1>6. F = [u \in SUBSET (1..n) |-> F[u]]
  OBVIOUS
<1> QED
  BY <1>5, <1>6 DEF Iterates

\* The places up to k are those up to k - 1 and k.
LEMMA Places ==
    ASSUME NEW n \in Nat, NEW k \in 1..n
    PROVE  /\ 1..k \in SUBSET (1..n) /\ 1..(k - 1) \in SUBSET (1..n) /\ 1..k # {}
           /\ Max(1..k) = k /\ (1..k) \ {Max(1..k)} = 1..(k - 1)
<1>1. k \in Nat /\ 1..k \in SUBSET (1..k) /\ k \in 1..k
  OBVIOUS
<1>2. Max(1..k) = k
  BY <1>1, MaxOf
<1> QED
  BY <1>2

Follows(C, n, T, base, next) ==
    /\ n \in Nat /\ base \in T /\ next \in [T \X (1..n) -> T]
    /\ C[{}] = base
    /\ \A k \in 1..n : C[1..(k - 1)] \in T => C[1..k] = next[<<C[1..(k - 1)], k>>]

\* The values after no, one, two ... elements.
Runs(g, n, T, base, next) ==
    /\ g \in [0..n -> T]
    /\ g[0] = base
    /\ \A k \in 1..n : g[k] = next[<<g[k - 1], k>>]

\* Whatever function a fold stands for, it passes through the values that the steps give.
LEMMA FoldRuns ==
    ASSUME NEW n, NEW T, NEW base, NEW next, NEW C,
           Follows(C, n, T, base, next)
    PROVE  \E g : Runs(g, n, T, base, next) /\ g[n] = C[1..n]
<1> DEFINE g == [k \in 0..n |-> C[1..k]]
           S == {k \in 0..n : g[k] \in T}
<1>0. /\ n \in Nat /\ base \in T /\ next \in [T \X (1..n) -> T]
      /\ C[{}] = base /\ \A k \in 1..n : C[1..(k - 1)] \in T => C[1..k] = next[<<C[1..(k - 1)], k>>]
  BY DEF Follows
<1>1. 1..0 = {} /\ g[0] = base /\ g[n] = C[1..n]
  BY <1>0
<1>2. \A k \in 1..n : k \in 0..n /\ k - 1 \in 0..n /\ g[k] = C[1..k] /\ g[k - 1] = C[1..(k - 1)]
  BY <1>0
<1>3. \A k \in 1..n : g[k - 1] \in T => g[k] = next[<<g[k - 1], k>>]
  BY <1>0, <1>2
<1>4. \A k \in 1..n : g[k - 1] \in T => g[k] \in T
  BY <1>0, <1>3
<1> HIDE DEF g
<1>5. 0 \in S
  BY <1>0, <1>1
<1>6. \A k \in 1..n : k - 1 \in S => k \in S
  BY <1>4
<1>7. \A k \in 0..n : k \in S
  <2> HIDE DEF S
  <2> QED
    BY <1>0, <1>5, <1>6, Climb, Zenon
<1>8. \A k \in 0..n : g[k] \in T
  BY <1>7
<1>9. g \in [0..n -> T]
  BY <1>8 DEF g
<1> QED
  BY <1>1, <1>2, <1>3, <1>8, <1>9 DEF Runs

=============================================================================
