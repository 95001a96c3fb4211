----------------------------- MODULE Induction -----------------------------
(***************************************************************************)
(* Facts about the naturals that the proofs about recursive functions and  *)
(* about minima share.  The library states them for an operator; here they *)
(* are about sets.                                                         *)
(***************************************************************************)
EXTENDS FiniteSetTheorems, TLAPS

\* Induction over the naturals for a set A: were n not in A, the successor
\* would be an injection of A below n into itself that misses 0.
LEMMA SetInduction ==
  ASSUME NEW A, 0 \in A, \A k \in Nat : k \in A => k + 1 \in A
  PROVE  Nat \subseteq A
  <1> SUFFICES ASSUME NEW n \in Nat, n \notin A PROVE FALSE
    OBVIOUS
  <1> DEFINE B == A \cap (0..n)
             f == [k \in B |-> k + 1]
  <1>1. f \in Injection(B, B)
    <2>1. \A k \in B : k + 1 \in B
      OBVIOUS
    <2>2. QED
      BY <2>1 DEF Injection, IsInjective
  <1>2. IsFiniteSet(B)
    <2>1. IsFiniteSet(0..n)
      BY FS_Interval
    <2>2. B \in SUBSET (0..n)
      OBVIOUS
    <2>3. QED
      BY <2>1, <2>2, FS_Subset
  <1>3. f \in Surjection(B, B)
    <2> HIDE DEF f, B
    <2> QED
      BY <1>1, <1>2, FS_Injection
  <1>4. 0 \in B
    OBVIOUS
  <1>5. \E k \in B : f[k] = 0
    <2> HIDE DEF f, B
    <2> QED
      BY <1>3, <1>4 DEF Surjection
  <1>6. QED
    BY <1>5

\* A set of naturals that is not empty has a least member.
LEMMA LeastNatural ==
  ASSUME NEW S \in SUBSET Nat, S # {}
  PROVE  \E k \in S : \A i \in S : k <= i
  <1> SUFFICES ASSUME \A k \in S : \E i \in S : i < k PROVE FALSE
    OBVIOUS
  <1> DEFINE A == {n \in Nat : \A k \in 0..n : k \notin S}
  <1>1. 0 \in A
    OBVIOUS
  <1>2. \A n \in Nat : n \in A => n + 1 \in A
    OBVIOUS
  <1>3. Nat \subseteq A
    <2> HIDE DEF A
    <2> QED
      BY <1>1, <1>2, SetInduction
  <1>4. \A n \in Nat : n \notin S
    <2> SUFFICES ASSUME NEW n \in Nat PROVE n \notin S
      OBVIOUS
    <2>1. n \in A /\ n \in 0..n
      BY <1>3
    <2>2. QED
      BY <2>1
  <1>5. QED
    BY <1>4

\* Induction up to n.
LEMMA UpTo ==
  ASSUME NEW n \in Nat, NEW P, 0 \in P, \A i \in 1..n : i - 1 \in P => i \in P
  PROVE  0..n \subseteq P
  <1> DEFINE A == {k \in Nat : k <= n => k \in P}
  <1>1. 0 \in A
    OBVIOUS
  <1>2. ASSUME NEW k \in Nat, k \in A PROVE k + 1 \in A
    <2>1. ASSUME k + 1 <= n PROVE k + 1 \in P
      <3> DEFINE i == k + 1
      <3>1. i \in 1..n /\ i - 1 = k /\ k \in P
        BY <1>2, <2>1
      <3> HIDE DEF i
      <3>2. i \in P
        BY <3>1
      <3>3. QED
        BY <3>2 DEF i
    <2>2. QED
      BY <2>1
  <1>3. Nat \subseteq A
    <2> HIDE DEF A
    <2> QED
      BY <1>1, <1>2, SetInduction
  <1>4. QED
    BY <1>3

\* n steps can be made within X, and f makes them from z on.
CanStep(X, n, step) == \A s \in X, i \in 1..n : step[<<s, i>>] \in X
Makes(f, X, z, n, step) ==
  /\ f \in [0..n -> X] /\ f[0] = z
  /\ \A i \in 1..n : f[i - 1] \in X /\ f[i] = step[<<f[i - 1], i>>]

\* A recursive function that makes n steps exists.
LEMMA IterationExists ==
  ASSUME NEW X, NEW z \in X, NEW n \in Nat, NEW step, CanStep(X, n, step)
  PROVE  \E f : Makes(f, X, z, n, step)
  <1> USE DEF CanStep
  <1> DEFINE Is(f, k) ==
               /\ f \in [0..k -> X]
               /\ \A i \in 0..k : f[i] = IF i = 0 THEN z ELSE step[<<f[i - 1], i>>]
             P == {k \in 0..n : \E f : Is(f, k)}
  <1>1. 0 \in P
    <2> DEFINE f == [i \in 0..0 |-> z]
    <2>1. Is(f, 0)
      OBVIOUS
    <2> HIDE DEF f
    <2>2. \E g : Is(g, 0)
      BY <2>1
    <2>3. 0 \in 0..n
      OBVIOUS
    <2> HIDE DEF Is
    <2>4. QED
      BY <2>2, <2>3
  <1>2. ASSUME NEW k \in 1..n, k - 1 \in P PROVE k \in P
    <2>1. PICK f : Is(f, k - 1)
      BY <1>2
    <2> DEFINE g == [i \in 0..k |-> IF i = k THEN step[<<f[k - 1], k>>] ELSE f[i]]
    <2>2. /\ \A i \in 0..k : i = k \/ i \in 0..(k - 1)
          /\ \A i \in 0..(k - 1) : i \in 0..k /\ i # k
          /\ \A i \in 0..(k - 1) : i = 0 \/ i - 1 \in 0..(k - 1)
          /\ k - 1 \in 0..(k - 1) /\ k # 0
      OBVIOUS
    <2>3. f[k - 1] \in X /\ step[<<f[k - 1], k>>] \in X
      BY <2>1, <2>2
    <2>4. g[k] = step[<<f[k - 1], k>>] /\ \A i \in 0..(k - 1) : g[i] = f[i]
      BY <2>2
    <2>5. g \in [0..k -> X]
      BY <2>1, <2>2, <2>3
    <2> HIDE DEF g
    <2>6. ASSUME NEW i \in 0..k PROVE g[i] = IF i = 0 THEN z ELSE step[<<g[i - 1], i>>]
      <3>1. CASE i = k
        BY <2>2, <2>4, <3>1
      <3>2. CASE i \in 0..(k - 1)
        BY <2>1, <2>2, <2>4, <3>2
      <3>3. QED
        BY <2>2, <3>1, <3>2
    <2>7. Is(g, k)
      BY <2>5, <2>6
    <2>8. QED
      BY <2>7
  <1>3. 0..n \subseteq P
    <2> HIDE DEF P
    <2> QED
      BY <1>1, <1>2, UpTo
  <1>4. PICK f : Is(f, n)
    <2>1. n \in P
      <3>1. n \in 0..n
        OBVIOUS
      <3> HIDE DEF P
      <3>2. QED
        BY <1>3, <3>1
    <2> HIDE DEF Is
    <2>2. QED
      BY <2>1
  <1>5. 0 \in 0..n /\ \A i \in 1..n : i \in 0..n /\ i # 0 /\ i - 1 \in 0..n
    OBVIOUS
  <1>6. f \in [0..n -> X] /\ f[0] = z
    BY <1>4, <1>5
  <1>7. \A i \in 1..n : f[i - 1] \in X /\ f[i] = step[<<f[i - 1], i>>]
    BY <1>4, <1>5
  <1>8. QED
    BY <1>6, <1>7 DEF Makes

\* Induction downwards from n + 1 to 1.
LEMMA DownTo ==
  ASSUME NEW n \in Nat, NEW P, n + 1 \in P,
         \A k \in 1..n : (\A j \in (k + 1)..(n + 1) : j \in P) => k \in P
  PROVE  1..(n + 1) \subseteq P
  <1> DEFINE Q == {m \in 0..n : \A j \in (n + 1 - m)..(n + 1) : j \in P}
  <1>1. 0 \in Q
    OBVIOUS
  <1>2. ASSUME NEW m \in 1..n, m - 1 \in Q PROVE m \in Q
    <2>1. \A j \in (n + 1 - m + 1)..(n + 1) : j \in P
      BY <1>2
    <2>2. n + 1 - m \in 1..n
      OBVIOUS
    <2>3. n + 1 - m \in P
      BY <2>1, <2>2
    <2>4. \A j \in (n + 1 - m)..(n + 1) : j = n + 1 - m \/ j \in (n + 1 - m + 1)..(n + 1)
      OBVIOUS
    <2>5. QED
      BY <2>1, <2>3, <2>4
  <1>3. n \in Q
    <2>1. n \in 0..n
      OBVIOUS
    <2> HIDE DEF Q
    <2>2. QED
      BY <1>1, <1>2, <2>1, UpTo
  <1>4. QED
    BY <1>3

\* f is defined from n + 1, where it is z, down to 1: its value at k is made of
\* its value at a later place.
CanDescend(X, n, next, join) ==
  \A k \in 1..n : next[k] \in (k + 1)..(n + 1) /\ \A x \in X : join[<<k, x>>] \in X
Descends(f, X, z, n, next, join) ==
  /\ f \in [1..(n + 1) -> X] /\ f[n + 1] = z
  /\ \A k \in 1..n : f[k] = join[<<k, f[next[k]]>>]

LEMMA DescentExists ==
  ASSUME NEW X, NEW z \in X, NEW n \in Nat, NEW next, NEW join, CanDescend(X, n, next, join)
  PROVE  \E f : Descends(f, X, z, n, next, join)
  <1> USE DEF CanDescend
  <1> DEFINE Is(f, m) ==
               /\ f \in [(n + 1 - m)..(n + 1) -> X] /\ f[n + 1] = z
               /\ \A k \in (n + 1 - m)..n : f[k] = join[<<k, f[next[k]]>>]
             P == {m \in 0..n : \E f : Is(f, m)}
  <1>1. 0 \in P
    <2> DEFINE f == [k \in (n + 1)..(n + 1) |-> z]
    <2>1. /\ n + 1 - 0 = n + 1 /\ n + 1 \in (n + 1)..(n + 1)
          /\ \A k : k \notin (n + 1)..n
      OBVIOUS
    <2>2. Is(f, 0)
      BY <2>1
    <2> HIDE DEF f
    <2>3. \E g : Is(g, 0)
      BY <2>2
    <2>4. 0 \in 0..n
      OBVIOUS
    <2> HIDE DEF Is
    <2>5. QED
      BY <2>3, <2>4
  <1>2. ASSUME NEW m \in 1..n, m - 1 \in P PROVE m \in P
    <2>1. PICK f : Is(f, m - 1)
      BY <1>2
    <2> DEFINE a == n + 1 - m
               g == [k \in a..(n + 1) |-> IF k = a THEN join[<<a, f[next[a]]>>] ELSE f[k]]
    <2>2. /\ a \in 1..n /\ n + 1 - (m - 1) = a + 1 /\ a \in a..(n + 1)
          /\ n + 1 \in a..(n + 1) /\ n + 1 # a
          /\ \A k \in a..(n + 1) : k = a \/ k \in (a + 1)..(n + 1)
          /\ \A k \in a..n : k \in 1..n /\ (k = a \/ k \in (a + 1)..n)
          /\ \A k \in (a + 1)..(n + 1) : k \in a..(n + 1) /\ k # a
          /\ \A k \in (a + 1)..n : k \in (a + 1)..(n + 1)
      OBVIOUS
    <2>3. \A k \in a..n : next[k] \in (a + 1)..(n + 1)
      <3>1. \A k \in a..n : \A j \in (k + 1)..(n + 1) : j \in (a + 1)..(n + 1)
        OBVIOUS
      <3>2. QED
        BY <2>2, <3>1
    <2> HIDE DEF a
    <2>4. /\ f \in [(a + 1)..(n + 1) -> X] /\ f[n + 1] = z
          /\ \A k \in (a + 1)..n : f[k] = join[<<k, f[next[k]]>>]
      BY <2>1, <2>2
    <2>5. a \in a..n
      BY <2>2
    <2>6. join[<<a, f[next[a]]>>] \in X
      BY <2>2, <2>3, <2>4, <2>5
    <2>7. g \in [a..(n + 1) -> X]
      BY <2>2, <2>4, <2>6
    <2>8. g[a] = join[<<a, f[next[a]]>>] /\ \A k \in (a + 1)..(n + 1) : g[k] = f[k]
      BY <2>2
    <2> HIDE DEF g
    <2>9. \A k \in a..n : g[k] = join[<<k, g[next[k]]>>]
      BY <2>2, <2>3, <2>4, <2>5, <2>8
    <2>10. g[n + 1] = z
      BY <2>2, <2>4, <2>8
    <2>11. Is(g, m)
      BY <2>7, <2>9, <2>10 DEF a
    <2>12. QED
      BY <2>11
  <1>3. n \in P
    <2>1. n \in 0..n
      OBVIOUS
    <2> HIDE DEF P
    <2>2. QED
      BY <1>1, <1>2, <2>1, UpTo
  <1>4. PICK f : Is(f, n)
    BY <1>3
  <1>5. n + 1 - n = 1
    OBVIOUS
  <1>6. Descends(f, X, z, n, next, join)
    BY <1>4, <1>5 DEF Descends
  <1>7. QED
    BY <1>6
=============================================================================
