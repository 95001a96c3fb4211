---------------------------- MODULE Naming_proofs ----------------------------
(***************************************************************************)
(* Proofs about Naming for all names and indices, any number of requests   *)
(* and any number of operands.                                             *)
(***************************************************************************)
EXTENDS Naming, Induction, SequenceTheorems, TLAPS

-----------------------------------------------------------------------------
(* Flat names *)

\* The two parts of a concatenation.
LEMMA Joined ==
  ASSUME NEW S, NEW s \in Seq(S), NEW t \in Seq(S)
  PROVE  /\ s \o t \in Seq(S) /\ Len(s) \in Nat /\ Len(t) \in Nat
         /\ Len(s \o t) = Len(s) + Len(t)
         /\ \A k \in 1..Len(s) : (s \o t)[k] = s[k]
         /\ \A k \in 1..Len(t) : (s \o t)[Len(s) + k] = t[k]
  <1>1. Len(s) \in Nat /\ Len(t) \in Nat
    BY LenProperties
  <1>2. /\ s \o t \in Seq(S) /\ Len(s \o t) = Len(s) + Len(t)
        /\ \A i \in 1..(Len(s) + Len(t)) :
             (s \o t)[i] = IF i <= Len(s) THEN s[i] ELSE t[i - Len(s)]
    BY ConcatProperties
  <1>3. \A k \in 1..Len(s) : (s \o t)[k] = s[k]
    BY <1>1, <1>2
  <1>4. ASSUME NEW k \in 1..Len(t) PROVE (s \o t)[Len(s) + k] = t[k]
    <2>1. Len(s) + k \in 1..(Len(s) + Len(t)) /\ ~(Len(s) + k <= Len(s)) /\ Len(s) + k - Len(s) = k
      BY <1>1
    <2>2. QED
      BY <1>2, <2>1
  <1>5. QED
    BY <1>1, <1>2, <1>3, <1>4

LEMMA PartsAreWords ==
  ASSUME NEW a \in Atoms
  PROVE  /\ a.head \in Seq(Word) /\ a.idx \in Seq(Index)
         /\ [i \in DOMAIN a.idx |-> IndexPart(a.idx[i])] \in Seq(Word)
         /\ Len([i \in DOMAIN a.idx |-> IndexPart(a.idx[i])]) = Len(a.idx)
         /\ DT \in Word
  <1>1. a.head \in Seq(Word) /\ a.idx \in Seq(Index) /\ DT \in Word
    BY AtomsAssumption DEF DT, Word, Text
  <1>2. \A i \in Index : IndexPart(i) \in Word
    BY DEF IndexPart, Index, Word, Neg
  <1>3. DOMAIN a.idx = 1..Len(a.idx) /\ Len(a.idx) \in Nat
    BY <1>1, LenProperties
  <1> DEFINE f == [i \in 1..Len(a.idx) |-> IndexPart(a.idx[i])]
  <1>4. \A i \in 1..Len(a.idx) : f[i] \in Word
    <2>1. \A i \in 1..Len(a.idx) : a.idx[i] \in Index
      BY <1>1, ElementOfSeq
    <2>2. QED
      BY <1>2, <2>1
  <1>5. f \in Seq(Word) /\ Len(f) = Len(a.idx)
    <2>1. f \in [1..Len(a.idx) -> Word]
      BY <1>4
    <2>2. DOMAIN f = 1..Len(a.idx)
      OBVIOUS
    <2> HIDE DEF f
    <2>3. f \in Seq(Word)
      BY <1>3, <2>1, SeqDef
    <2>4. QED
      BY <1>3, <2>2, <2>3, LenProperties
  <1>6. QED
    BY <1>1, <1>3, <1>5

\* The words of a flat name.
LEMMA FlatWords ==
  ASSUME NEW a \in Atoms
  PROVE  /\ Flat(a) \in Seq(Word)
         /\ a.idx # <<>> =>
              /\ Len(Flat(a)) = Len(a.head) + 1 + Len(a.idx)
              /\ \A k \in 1..Len(a.head) : Flat(a)[k] = a.head[k]
              /\ Flat(a)[Len(a.head) + 1] = DT
              /\ \A k \in 1..Len(a.idx) : Flat(a)[Len(a.head) + 1 + k] = IndexPart(a.idx[k])
  <1> DEFINE parts == [i \in DOMAIN a.idx |-> IndexPart(a.idx[i])]
             front == a.head \o <<DT>>
  <1>1. /\ a.head \in Seq(Word) /\ a.idx \in Seq(Index) /\ DT \in Word
        /\ parts \in Seq(Word) /\ Len(parts) = Len(a.idx)
    BY PartsAreWords
  <1>2. \A k \in 1..Len(a.idx) : parts[k] = IndexPart(a.idx[k])
    BY <1>1, LenProperties
  <1> HIDE DEF parts
  <1>3. <<DT>> \in Seq(Word) /\ Len(<<DT>>) = 1 /\ <<DT>>[1] = DT
    BY <1>1
  <1>4. /\ front \in Seq(Word) /\ Len(front) = Len(a.head) + 1 /\ Len(a.head) \in Nat
        /\ \A k \in 1..Len(a.head) : front[k] = a.head[k]
        /\ front[Len(a.head) + 1] = DT
    <2>1. 1 \in 1..Len(<<DT>>)
      BY <1>3
    <2>2. QED
      BY <1>1, <1>3, <2>1, Joined
  <1> HIDE DEF front
  <1> DEFINE whole == front \o parts
  <1>5. /\ whole \in Seq(Word) /\ Len(whole) = Len(front) + Len(parts)
        /\ \A k \in 1..Len(front) : whole[k] = front[k]
        /\ \A k \in 1..Len(parts) : whole[Len(front) + k] = parts[k]
    <2>1. front \in Seq(Word) /\ parts \in Seq(Word)
      BY <1>1, <1>4
    <2>2. QED
      BY <2>1, Joined
  <1> HIDE DEF whole
  <1>6. /\ Len(whole) = Len(a.head) + 1 + Len(a.idx)
        /\ \A k \in 1..Len(a.head) : whole[k] = a.head[k]
        /\ whole[Len(a.head) + 1] = DT
        /\ \A k \in 1..Len(a.idx) : whole[Len(a.head) + 1 + k] = IndexPart(a.idx[k])
    <2>1. Len(front) = Len(a.head) + 1 /\ Len(a.head) \in Nat /\ Len(parts) = Len(a.idx)
      BY <1>1, <1>4
    <2>2. /\ 1..Len(a.head) \subseteq 1..Len(front) /\ Len(a.head) + 1 \in 1..Len(front)
      BY <2>1
    <2>3. Len(whole) = Len(a.head) + 1 + Len(a.idx)
      BY <1>5, <2>1
    <2>4. \A k \in 1..Len(a.head) : whole[k] = a.head[k]
      BY <1>4, <1>5, <2>2
    <2>5. whole[Len(a.head) + 1] = DT
      BY <1>4, <1>5, <2>2
    <2>6. \A k \in 1..Len(a.idx) : whole[Len(a.head) + 1 + k] = IndexPart(a.idx[k])
      BY <1>2, <1>5, <2>1
    <2>7. QED
      BY <2>3, <2>4, <2>5, <2>6
  <1>7. Flat(a) = IF a.idx = <<>> THEN a.head ELSE whole
    BY DEF Flat, whole, front, parts
  <1>8. QED
    BY <1>1, <1>5, <1>6, <1>7

\* Two ordinary indeterminates have two flat names: the infix tells where the
\* head ends.
LEMMA FlatInjective ==
  ASSUME NEW a \in Atoms, NEW b \in Atoms, Ordinary(a), Ordinary(b), Flat(a) = Flat(b)
  PROVE  a = b
  <1>0. /\ \A p, q, r \in Nat : p = q + 1 + r => q + 1 \in 1..p
        /\ \A p, q, r, s \in Nat :
             p + 1 + q = r + 1 + s /\ ~(p < r) /\ ~(r < p) => p = r /\ q = s
    OBVIOUS
  <1>1. /\ a = [head |-> a.head, idx |-> a.idx] /\ b = [head |-> b.head, idx |-> b.idx]
        /\ a.head \in Seq(Word) /\ b.head \in Seq(Word)
        /\ a.idx \in Seq(Index) /\ b.idx \in Seq(Index)
    BY AtomsAssumption
  <1>2. /\ Len(a.head) \in Nat /\ Len(b.head) \in Nat
        /\ Len(a.idx) \in Nat /\ Len(b.idx) \in Nat
    BY <1>1, LenProperties
  <1>3. /\ \A k \in 1..Len(a.head) : a.head[k] # DT
        /\ \A k \in 1..Len(b.head) : b.head[k] # DT
        /\ \A k \in 1..Len(a.idx) : IsInteger(a.idx[k]) /\ a.idx[k] \in Index
        /\ \A k \in 1..Len(b.idx) : IsInteger(b.idx[k]) /\ b.idx[k] \in Index
    <2>1. /\ DOMAIN a.head = 1..Len(a.head) /\ DOMAIN b.head = 1..Len(b.head)
          /\ DOMAIN a.idx = 1..Len(a.idx) /\ DOMAIN b.idx = 1..Len(b.idx)
      BY <1>1, LenProperties
    <2>2. QED
      BY <1>1, <2>1, ElementOfSeq DEF Ordinary, Range
  <1>4. CASE a.idx = <<>> /\ b.idx = <<>>
    BY <1>1, <1>4 DEF Flat
  <1>5. CASE a.idx = <<>> /\ b.idx # <<>>
    <2>1. /\ a.head[Len(b.head) + 1] = DT /\ Len(a.head) = Len(b.head) + 1 + Len(b.idx)
      BY <1>5, FlatWords DEF Flat
    <2>2. Len(b.head) + 1 \in 1..Len(a.head)
      BY <1>2, <1>0, <2>1
    <2>3. QED
      BY <1>3, <2>1, <2>2
  <1>6. CASE a.idx # <<>> /\ b.idx = <<>>
    <2>1. /\ b.head[Len(a.head) + 1] = DT /\ Len(b.head) = Len(a.head) + 1 + Len(a.idx)
      BY <1>6, FlatWords DEF Flat
    <2>2. Len(a.head) + 1 \in 1..Len(b.head)
      BY <1>2, <1>0, <2>1
    <2>3. QED
      BY <1>3, <2>1, <2>2
  <1>7. CASE a.idx # <<>> /\ b.idx # <<>>
    <2> DEFINE w == Flat(a)
    <2>1. /\ Len(w) = Len(a.head) + 1 + Len(a.idx)
          /\ \A k \in 1..Len(a.head) : w[k] = a.head[k]
          /\ w[Len(a.head) + 1] = DT
          /\ \A k \in 1..Len(a.idx) : w[Len(a.head) + 1 + k] = IndexPart(a.idx[k])
      BY <1>7, FlatWords
    <2>2. /\ Len(w) = Len(b.head) + 1 + Len(b.idx)
          /\ \A k \in 1..Len(b.head) : w[k] = b.head[k]
          /\ w[Len(b.head) + 1] = DT
          /\ \A k \in 1..Len(b.idx) : w[Len(b.head) + 1 + k] = IndexPart(b.idx[k])
      BY <1>7, FlatWords
    <2> HIDE DEF w
    <2>3. ~(Len(a.head) < Len(b.head))
      <3>1. SUFFICES ASSUME Len(a.head) < Len(b.head) PROVE FALSE
        OBVIOUS
      <3>2. Len(a.head) + 1 \in 1..Len(b.head)
        BY <1>2, <3>1
      <3>3. QED
        BY <1>3, <2>1, <2>2, <3>2
    <2>4. ~(Len(b.head) < Len(a.head))
      <3>1. SUFFICES ASSUME Len(b.head) < Len(a.head) PROVE FALSE
        OBVIOUS
      <3>2. Len(b.head) + 1 \in 1..Len(a.head)
        BY <1>2, <3>1
      <3>3. QED
        BY <1>3, <2>1, <2>2, <3>2
    <2>5. Len(a.head) = Len(b.head) /\ Len(a.idx) = Len(b.idx)
      <3>1. Len(a.head) + 1 + Len(a.idx) = Len(b.head) + 1 + Len(b.idx)
        BY <2>1, <2>2
      <3>2. QED
        BY <1>2, <1>0, <2>3, <2>4, <3>1
    <2>6. a.head = b.head
      <3>1. \A k \in 1..Len(a.head) : a.head[k] = b.head[k]
        BY <2>1, <2>2, <2>5
      <3>2. QED
        BY <1>1, <2>5, <3>1, SeqEqual
    <2>7. a.idx = b.idx
      <3>1. \A k \in 1..Len(a.idx) : IndexPart(a.idx[k]) = IndexPart(b.idx[k])
        BY <2>1, <2>2, <2>5
      <3>2. \A i, j \in Index :
              IsInteger(i) /\ IsInteger(j) /\ IndexPart(i) = IndexPart(j) => i = j
        BY DEF Index, Word, IsInteger, IndexPart, Neg
      <3>3. \A k \in 1..Len(a.idx) : a.idx[k] = b.idx[k]
        BY <1>3, <2>5, <3>1, <3>2
      <3>4. QED
        BY <1>1, <2>5, <3>3, SeqEqual
    <2>8. QED
      BY <1>1, <2>6, <2>7
  <1>8. QED
    BY <1>4, <1>5, <1>6, <1>7

\* The numbers that dedupe tries make names of their own.
LEMMA NumberedNames ==
  ASSUME NEW name \in Seq(Word)
  PROVE  /\ Numbered(name, 0) = name
         /\ \A i \in Nat : Numbered(name, i) \in Seq(Word)
         /\ \A i, j \in Nat : Numbered(name, i) = Numbered(name, j) => i = j
  <1>1. \A i \in Nat : Number(i) \in Word
    BY DEF Number, Word
  <1>2. Len(name) \in Nat
    BY LenProperties
  <1>3. \A i \in Nat : /\ Append(name, Number(i)) \in Seq(Word)
                       /\ Len(Append(name, Number(i))) = Len(name) + 1
                       /\ Append(name, Number(i))[Len(name) + 1] = Number(i)
    BY <1>1, <1>2, AppendProperties
  <1>4. \A i, j \in Nat : Number(i) = Number(j) => i = j
    BY DEF Number
  <1>5. \A i \in Nat : Numbered(name, i) \in Seq(Word)
    BY <1>3 DEF Numbered
  <1>6. ASSUME NEW i \in Nat, NEW j \in Nat, Numbered(name, i) = Numbered(name, j)
        PROVE  i = j
    <2>1. Len(Append(name, Number(i))) # Len(name) /\ Len(Append(name, Number(j))) # Len(name)
      BY <1>2, <1>3
    <2>2. CASE i = 0 \/ j = 0
      BY <1>6, <2>1, <2>2 DEF Numbered
    <2>3. CASE i # 0 /\ j # 0
      <3>1. Append(name, Number(i)) = Append(name, Number(j))
        BY <1>6, <2>3 DEF Numbered
      <3>2. QED
        BY <1>3, <1>4, <3>1
    <2>4. QED
      BY <2>2, <2>3
  <1>7. QED
    BY <1>5, <1>6 DEF Numbered

LEMMA MinIsLeast ==
  ASSUME NEW S \in SUBSET Nat, S # {}
  PROVE  Min(S) \in S /\ \A i \in S : Min(S) <= i
  <1>1. \E k \in S : \A i \in S : k <= i
    BY LeastNatural
  <1>2. QED
    BY <1>1 DEF Min

\* What dedupe finds is free or already the name of the indeterminate, and it is
\* the flat name itself if that is: of the numbers up to the size of the table
\* one is not taken.
LEMMA DedupeFits ==
  ASSUME NEW back, IsFiniteSet(DOMAIN back), NEW name \in Seq(Word), NEW a
  PROVE  LET n == Dedupe(back, name, a)
         IN  /\ n \in Seq(Word)
             /\ n \in DOMAIN back => back[n] = a
             /\ (name \in DOMAIN back => back[name] = a) => n = name
  <1> DEFINE C == Cardinality(DOMAIN back)
             Fits(i) == Numbered(name, i) \in DOMAIN back => back[Numbered(name, i)] = a
             F == {i \in 0..C : Fits(i)}
             f == [i \in 0..C |-> Numbered(name, i)]
  <1>1. C \in Nat
    BY FS_CardinalityType
  <1>2. F # {}
    <2> SUFFICES ASSUME F = {} PROVE FALSE
      OBVIOUS
    <2>1. \A i \in 0..C : Numbered(name, i) \in DOMAIN back
      OBVIOUS
    <2>2. \A i, j \in 0..C : Numbered(name, i) = Numbered(name, j) => i = j
      BY NumberedNames
    <2>3. f \in Injection(0..C, DOMAIN back)
      BY <2>1, <2>2 DEF Injection, IsInjective
    <2>4. Cardinality(0..C) <= C
      <3> HIDE DEF f
      <3> QED
        BY <2>3, FS_Injection
    <2>5. Cardinality(0..C) = C + 1
      <3>1. 0 \in Int /\ C \in Int /\ ~(0 > C)
        BY <1>1
      <3>2. Cardinality(0..C) = IF 0 > C THEN 0 ELSE C - 0 + 1
        BY <3>1, FS_Interval
      <3>3. QED
        BY <1>1, <3>1, <3>2
    <2>6. QED
      BY <1>1, <2>4, <2>5
  <1>3. Min(F) \in F /\ \A i \in F : Min(F) <= i
    <2>1. F \in SUBSET Nat
      OBVIOUS
    <2> HIDE DEF F
    <2>2. QED
      BY <1>2, <2>1, MinIsLeast
  <1>4. Dedupe(back, name, a) = Numbered(name, Min(F))
    BY DEF Dedupe
  <1>5. Min(F) \in Nat /\ Fits(Min(F))
    BY <1>3
  <1>6. ASSUME name \in DOMAIN back => back[name] = a PROVE Min(F) = 0
    <2>1. 0 \in F
      BY <1>1, <1>6, NumberedNames
    <2>2. Min(F) <= 0
      <3> HIDE DEF F
      <3> QED
        BY <1>3, <2>1
    <2>3. QED
      BY <1>5, <2>2
  <1>7. QED
    <2> DEFINE m == Min(F)
    <2>1. m \in Nat /\ Fits(m) /\ Dedupe(back, name, a) = Numbered(name, m)
      BY <1>4, <1>5
    <2>2. (name \in DOMAIN back => back[name] = a) => m = 0
      BY <1>6
    <2> HIDE DEF m
    <2>3. QED
      BY <2>1, <2>2, NumberedNames

-----------------------------------------------------------------------------
(* The tables of a request *)

Finite(S) == {T \in SUBSET S : IsFiniteSet(T)}
Backs == UNION {[D -> Atoms] : D \in Finite(Seq(Word))}
Fwds  == UNION {[D -> Seq(Word)] : D \in SUBSET Atoms}

\* Every indeterminate that was registered comes back from its name.
Registry ==
  {s \in [fwd : Fwds, back : Backs] :
     \A a \in DOMAIN s.fwd : s.fwd[a] \in DOMAIN s.back /\ s.back[s.fwd[a]] = a}

\* Names that were given stay as they are.
Keeps(back, later) == \A n \in DOMAIN back : n \in DOMAIN later /\ later[n] = back[n]

\* No name had to be numbered.
Canonical(back) == \A n \in DOMAIN back : Ordinary(back[n]) /\ n = Flat(back[n])

LEMMA BacksAreFinite ==
  ASSUME NEW back \in Backs
  PROVE  /\ back \in [DOMAIN back -> Atoms]
         /\ IsFiniteSet(DOMAIN back) /\ DOMAIN back \subseteq Seq(Word)
  BY DEF Backs, Finite

LEMMA BackIn ==
  ASSUME NEW back, IsFiniteSet(DOMAIN back), DOMAIN back \subseteq Seq(Word),
         back \in [DOMAIN back -> Atoms]
  PROVE  back \in Backs
  BY DEF Backs, Finite

\* The second table is asked for what the first does not have.
LEMMA MergedBacks ==
  ASSUME NEW b \in Backs, NEW c \in Backs
  PROVE  /\ Merged(b, c) \in Backs
         /\ Keeps(b, Merged(b, c))
         /\ DOMAIN Merged(b, c) = DOMAIN b \cup DOMAIN c
         /\ Canonical(b) /\ Canonical(c) => Canonical(Merged(b, c))
  <1> DEFINE d == Merged(b, c)
  <1>1. d = [n \in DOMAIN b \cup DOMAIN c |-> IF n \in DOMAIN b THEN b[n] ELSE c[n]]
    BY DEF Merged
  <1> HIDE DEF d
  <1>2. DOMAIN d = DOMAIN b \cup DOMAIN c
    BY <1>1
  <1>3. \A n \in DOMAIN b : d[n] = b[n]
    BY <1>1
  <1>4. \A n \in DOMAIN d : \/ n \in DOMAIN b /\ d[n] = b[n]
                            \/ n \in DOMAIN c /\ d[n] = c[n]
    BY <1>1
  <1>5. d \in Backs
    <2>1. IsFiniteSet(DOMAIN b \cup DOMAIN c)
      BY BacksAreFinite, FS_Union
    <2>2. DOMAIN d \subseteq Seq(Word)
      BY <1>2, BacksAreFinite
    <2>3. \A n \in DOMAIN d : d[n] \in Atoms
      BY <1>4, BacksAreFinite
    <2>4. d \in [DOMAIN d -> Atoms]
      BY <1>1, <2>3
    <2>5. QED
      BY <1>2, <2>1, <2>2, <2>4, BackIn
  <1>6. Canonical(b) /\ Canonical(c) => Canonical(d)
    BY <1>4 DEF Canonical
  <1>7. QED
    BY <1>2, <1>3, <1>5, <1>6 DEF Keeps, d

\* An indeterminate is registered: its name is new, or already its own.
LEMMA SanitizeStep ==
  ASSUME NEW s \in Registry, NEW a \in Atoms
  PROVE  LET t == Sanitize(s, a)
         IN  /\ t \in Registry /\ Keeps(s.back, t.back)
             /\ DOMAIN t.fwd = DOMAIN s.fwd \cup {a}
             /\ Canonical(s.back) /\ Ordinary(a) => Canonical(t.back)
  <1>1. CASE a \in DOMAIN s.fwd
    BY <1>1 DEF Sanitize, Keeps
  <1>2. CASE a \notin DOMAIN s.fwd
    <2> DEFINE name == Dedupe(s.back, Flat(a), a)
               fwd == With(s.fwd, a, name)
               back == With(s.back, name, a)
    <2>1. s.back \in Backs /\ s.fwd \in Fwds /\ Flat(a) \in Seq(Word)
      BY FlatWords DEF Registry
    <2>2. /\ s.back \in [DOMAIN s.back -> Atoms]
          /\ IsFiniteSet(DOMAIN s.back) /\ DOMAIN s.back \subseteq Seq(Word)
      BY <2>1, BacksAreFinite
    <2>3. /\ name \in Seq(Word)
          /\ name \in DOMAIN s.back => s.back[name] = a
          /\ (Flat(a) \in DOMAIN s.back => s.back[Flat(a)] = a) => name = Flat(a)
      BY <2>1, <2>2, DedupeFits
    <2>4. Sanitize(s, a) = [fwd |-> fwd, back |-> back]
      BY <1>2 DEF Sanitize
    <2> HIDE DEF name
    <2>5. /\ DOMAIN fwd = DOMAIN s.fwd \cup {a} /\ fwd[a] = name
          /\ \A b \in DOMAIN s.fwd : fwd[b] = s.fwd[b]
      BY <1>2 DEF With
    <2>6. DOMAIN back = DOMAIN s.back \cup {name}
      BY DEF With
    <2>7. back \in Backs
      <3>1. IsFiniteSet(DOMAIN s.back \cup {name})
        BY <2>2, FS_AddElement
      <3>2. back \in [DOMAIN back -> Atoms]
        BY <2>2 DEF With
      <3> HIDE DEF back
      <3>3. QED
        BY <2>2, <2>3, <2>6, <3>1, <3>2, BackIn
    <2>8. back[name] = a /\ \A n \in DOMAIN s.back : back[n] = s.back[n]
      BY <2>3 DEF With
    <2>9. Canonical(s.back) /\ Ordinary(a) => Canonical(back)
      <3> SUFFICES ASSUME Canonical(s.back), Ordinary(a) PROVE Canonical(back)
        OBVIOUS
      <3>1. Flat(a) \in DOMAIN s.back => s.back[Flat(a)] = a
        BY <2>2, FlatInjective DEF Canonical
      <3>2. name = Flat(a)
        BY <2>3, <3>1
      <3>3. QED
        BY <2>6, <2>8, <3>2 DEF Canonical
    <2>10. fwd \in Fwds
      <3>1. s.fwd \in [DOMAIN s.fwd -> Seq(Word)] /\ DOMAIN s.fwd \subseteq Atoms
        BY <2>1 DEF Fwds
      <3>2. fwd \in [DOMAIN s.fwd \cup {a} -> Seq(Word)]
        BY <2>3, <3>1 DEF With
      <3> HIDE DEF fwd
      <3>3. QED
        BY <3>1, <3>2 DEF Fwds
    <2> HIDE DEF fwd, back
    <2>11. [fwd |-> fwd, back |-> back] \in Registry
      BY <2>5, <2>6, <2>7, <2>8, <2>10 DEF Registry
    <2>12. QED
      BY <2>4, <2>5, <2>6, <2>8, <2>9, <2>11 DEF Keeps
  <1>3. QED
    BY <1>1, <1>2

-----------------------------------------------------------------------------
(* The invariant *)

Answer == [gens : Finite(Seq(Word)), back : Backs, meant : SUBSET Atoms, inOrder : BOOLEAN]

TypeInv == answers \in Seq(Answer)

Plain(S) == \A a \in S : Ordinary(a)

\* Ordinary indeterminates travel under their flat names.
FlatInv == \A h \in Handles : Plain(answers[h].meant) => Canonical(answers[h].back)

IInv == TypeInv /\ RingCoversOperands /\ NamesComeBack /\ FlatInv

LEMMA AnswerFacts ==
  ASSUME IInv, NEW h \in Handles
  PROVE  /\ answers[h] \in Answer
         /\ answers[h].gens \subseteq DOMAIN answers[h].back
         /\ Read(h) = {answers[h].back[n] : n \in answers[h].gens}
         /\ Read(h) \in Finite(Atoms)
         /\ Plain(answers[h].meant) =>
              Canonical(answers[h].back) /\ Read(h) = answers[h].meant
         /\ answers[h].inOrder => Read(h) = answers[h].meant
  <1> DEFINE r == answers[h]
  <1>1. r \in Answer
    BY ElementOfSeq, LenProperties DEF IInv, TypeInv, Handles
  <1>2. r.gens \subseteq DOMAIN r.back
    BY DEF IInv, RingCoversOperands
  <1>3. Read(h) = {r.back[n] : n \in r.gens}
    BY <1>2 DEF Read, Unsanitize
  <1>4. r.back \in [DOMAIN r.back -> Atoms] /\ IsFiniteSet(r.gens)
    BY <1>1, BacksAreFinite DEF Answer, Finite
  <1>5. Read(h) \in Finite(Atoms)
    <2> DEFINE f == [n \in r.gens |-> r.back[n]]
    <2>1. f \in Surjection(r.gens, Read(h))
      BY <1>3 DEF Surjection
    <2> HIDE DEF f
    <2>2. IsFiniteSet(Read(h))
      BY <1>4, <2>1, FS_Surjection
    <2>3. Read(h) \subseteq Atoms
      BY <1>2, <1>3, <1>4
    <2>4. QED
      BY <2>2, <2>3 DEF Finite
  <1>6. /\ Plain(r.meant) => Canonical(r.back) /\ Read(h) = r.meant
        /\ r.inOrder => Read(h) = r.meant
    BY DEF IInv, NamesComeBack, FlatInv, Plain
  <1>7. QED
    BY <1>1, <1>2, <1>3, <1>5, <1>6

LEMMA OperandFacts ==
  ASSUME IInv, NEW x \in Operands
  PROVE  /\ ~IsRef(x) => x.atom \in Atoms
         /\ IsRef(x) => x.ref \in Handles
         /\ Printed(x) \in Finite(Atoms)
         /\ Meant(x) \subseteq Atoms
         /\ Plain(Meant(x)) => Plain(Printed(x))
  <1>1. /\ ~IsRef(x) => x.atom \in Atoms
        /\ IsRef(x) => x.ref \in Handles
    BY DEF Operands, IsRef
  <1>2. CASE ~IsRef(x)
    <2>1. Printed(x) = {x.atom} /\ Meant(x) = {x.atom}
      BY <1>2 DEF Printed, Meant
    <2>2. {x.atom} \in Finite(Atoms)
      BY <1>1, <1>2, FS_Singleton DEF Finite
    <2>3. QED
      BY <1>1, <1>2, <2>1, <2>2
  <1>3. CASE IsRef(x)
    <2>1. Printed(x) = {} \/ Printed(x) = Read(x.ref)
      BY <1>3 DEF Printed
    <2>2. {} \in Finite(Atoms)
      BY FS_EmptySet DEF Finite
    <2>3. Meant(x) = answers[x.ref].meant /\ answers[x.ref].meant \subseteq Atoms
      BY <1>1, <1>3, AnswerFacts DEF Meant, Answer
    <2>4. /\ Read(x.ref) \in Finite(Atoms)
          /\ Plain(answers[x.ref].meant) => Read(x.ref) = answers[x.ref].meant
      BY <1>1, <1>3, AnswerFacts
    <2>5. QED
      BY <1>1, <1>3, <2>1, <2>2, <2>3, <2>4 DEF Plain
  <1>4. QED
    BY <1>2, <1>3

LEMMA CollectStep ==
  ASSUME IInv, NEW s \in Registry, NEW x \in Operands
  PROVE  LET t == Collect(s, x)
         IN  /\ t \in Registry /\ Keeps(s.back, t.back)
             /\ IsRef(x) => DOMAIN answers[x.ref].back \subseteq DOMAIN t.back
             /\ IsRef(x) /\ s.back = <<>> => Keeps(answers[x.ref].back, t.back)
             /\ Canonical(s.back) /\ Plain(Meant(x)) => Canonical(t.back)
  <1>1. CASE ~IsRef(x)
    <2>1. Collect(s, x) = Sanitize(s, x.atom) /\ Meant(x) = {x.atom} /\ x.atom \in Atoms
      BY <1>1, OperandFacts DEF Collect, Meant
    <2>2. QED
      BY <1>1, <2>1, SanitizeStep DEF Plain
  <1>2. CASE IsRef(x)
    <2> DEFINE r == answers[x.ref]
               back == Merged(s.back, r.back)
    <2>1. /\ r \in Answer /\ r.back \in Backs
          /\ Plain(r.meant) => Canonical(r.back)
          /\ Meant(x) = r.meant
      BY <1>2, OperandFacts, AnswerFacts DEF Answer, Meant
    <2>2. s.back \in Backs /\ s.fwd \in Fwds /\ s = [fwd |-> s.fwd, back |-> s.back]
      BY DEF Registry
    <2>3. Collect(s, x) = [fwd |-> s.fwd, back |-> back]
      BY <1>2, <2>2 DEF Collect
    <2>4. /\ back \in Backs /\ Keeps(s.back, back)
          /\ DOMAIN back = DOMAIN s.back \cup DOMAIN r.back
          /\ Canonical(s.back) /\ Canonical(r.back) => Canonical(back)
      BY <2>1, <2>2, MergedBacks
    <2>5. s.back = <<>> => Keeps(r.back, back)
      <3>1. DOMAIN <<>> = {}
        OBVIOUS
      <3>2. QED
        BY <3>1 DEF Merged, Keeps
    <2> HIDE DEF back
    <2>6. [fwd |-> s.fwd, back |-> back] \in Registry
      <3>1. \A a \in DOMAIN s.fwd : s.fwd[a] \in DOMAIN s.back /\ s.back[s.fwd[a]] = a
        BY DEF Registry
      <3>2. \A a \in DOMAIN s.fwd : s.fwd[a] \in DOMAIN back /\ back[s.fwd[a]] = a
        BY <2>4, <3>1 DEF Keeps
      <3>3. QED
        BY <2>2, <2>4, <3>2 DEF Registry
    <2>7. QED
      BY <2>1, <2>3, <2>4, <2>5, <2>6
  <1>3. QED
    BY <1>1, <1>2

LEMMA EmptyRegistry == Empty \in Registry /\ Canonical(Empty.back)
  <1>1. DOMAIN <<>> = {}
    OBVIOUS
  <1>2. <<>> \in [{} -> Atoms] /\ <<>> \in [{} -> Seq(Word)]
    OBVIOUS
  <1>3. {} \in Finite(Seq(Word)) /\ {} \in SUBSET Atoms
    BY FS_EmptySet DEF Finite
  <1>4. <<>> \in Backs /\ <<>> \in Fwds
    BY <1>2, <1>3 DEF Backs, Fwds
  <1>5. QED
    BY <1>1, <1>4 DEF Empty, Registry, Canonical

\* The names of handles are in the table, those of the first operand, if it is a
\* handle, unchanged.
LEMMA CollectedFacts ==
  ASSUME IInv, NEW args \in Seq(Operands)
  PROVE  LET t == Collected(args)
         IN  /\ t \in Registry
             /\ \A j \in DOMAIN args :
                  IsRef(args[j]) => DOMAIN answers[args[j].ref].back \subseteq DOMAIN t.back
             /\ 1 \in DOMAIN args /\ IsRef(args[1]) =>
                  Keeps(answers[args[1].ref].back, t.back)
             /\ (\A j \in DOMAIN args : Plain(Meant(args[j]))) => Canonical(t.back)
  <1> DEFINE n == Len(args)
  <1>1. n \in Nat /\ DOMAIN args = 1..n /\ \A i \in 1..n : args[i] \in Operands
    BY LenProperties, ElementOfSeq
  <1> HIDE DEF n
  <1>2. PICK after :
          /\ after = [i \in 0..n |-> IF i = 0 THEN Empty ELSE Collect(after[i - 1], args[i])]
          /\ Collected(args) = after[n]
    <2> DEFINE step == [p \in Registry \X (1..n) |-> Collect(p[1], args[p[2]])]
    <2>1. \A s \in Registry, i \in 1..n :
            /\ step[<<s, i>>] = Collect(s, args[i])
            /\ Collect(s, args[i]) \in Registry
      BY <1>1, CollectStep
    <2>2. CanStep(Registry, n, step)
      BY <2>1 DEF CanStep
    <2> HIDE DEF step
    <2>3. PICK f : Makes(f, Registry, Empty, n, step)
      BY <1>1, <2>2, EmptyRegistry, IterationExists
    <2>4. ASSUME NEW i \in 0..n
          PROVE  f[i] = IF i = 0 THEN Empty ELSE Collect(f[i - 1], args[i])
      <3>1. CASE i = 0
        BY <2>3, <3>1 DEF Makes
      <3>2. CASE i # 0
        <4>1. i \in 1..n
          BY <1>1, <3>2
        <4>2. QED
          BY <2>1, <2>3, <3>2, <4>1 DEF Makes
      <3>3. QED
        BY <3>1, <3>2
    <2>5. f = [i \in 0..n |-> IF i = 0 THEN Empty ELSE Collect(f[i - 1], args[i])]
      BY <2>3, <2>4 DEF Makes
    <2>6. QED
      BY <2>5 DEF Collected, n
  <1>3. /\ after[0] = Empty
        /\ \A i \in 1..n : after[i] = Collect(after[i - 1], args[i])
    BY <1>1, <1>2
  <1> DEFINE Good(i) ==
               /\ after[i] \in Registry
               /\ \A j \in 1..i : IsRef(args[j]) =>
                    DOMAIN answers[args[j].ref].back \subseteq DOMAIN after[i].back
               /\ i > 0 /\ IsRef(args[1]) => Keeps(answers[args[1].ref].back, after[i].back)
               /\ (\A j \in 1..i : Plain(Meant(args[j]))) => Canonical(after[i].back)
             P == {i \in 0..n : Good(i)}
  <1>4. 0 \in P
    BY <1>1, <1>3, EmptyRegistry
  <1>5. ASSUME NEW i \in 1..n, i - 1 \in P PROVE i \in P
    <2> DEFINE k == i - 1
               s == after[k]
               t == after[i]
    <2>1. /\ k \in 0..n /\ i \in 0..n /\ Good(k)
          /\ 1..i = 1..k \cup {i}
          /\ k > 0 \/ (k = 0 /\ i = 1)
      <3>1. k \in 0..n /\ i \in 0..n /\ (k > 0 \/ (k = 0 /\ i = 1))
        BY <1>1
      <3>2. 1..i = 1..k \cup {i}
        BY <1>1
      <3>3. Good(k)
        BY <1>5
      <3>4. QED
        BY <3>1, <3>2, <3>3
    <2>2. t = Collect(s, args[i]) /\ args[i] \in Operands /\ s \in Registry
      BY <1>1, <1>3, <2>1
    <2>3. /\ t \in Registry /\ Keeps(s.back, t.back)
          /\ IsRef(args[i]) => DOMAIN answers[args[i].ref].back \subseteq DOMAIN t.back
          /\ IsRef(args[i]) /\ s.back = <<>> => Keeps(answers[args[i].ref].back, t.back)
          /\ Canonical(s.back) /\ Plain(Meant(args[i])) => Canonical(t.back)
      BY <2>2, CollectStep
    <2>4. \A j \in 1..i : IsRef(args[j]) =>
            DOMAIN answers[args[j].ref].back \subseteq DOMAIN t.back
      BY <2>1, <2>3 DEF Keeps
    <2>5. IsRef(args[1]) => Keeps(answers[args[1].ref].back, t.back)
      <3>1. CASE k > 0
        BY <2>1, <2>3, <3>1 DEF Keeps
      <3>2. CASE k = 0 /\ i = 1
        BY <1>3, <2>3, <3>2 DEF Empty
      <3>3. QED
        BY <2>1, <3>1, <3>2
    <2>6. (\A j \in 1..i : Plain(Meant(args[j]))) => Canonical(t.back)
      BY <2>1, <2>3
    <2>7. Good(i)
      BY <2>3, <2>4, <2>5, <2>6
    <2>8. QED
      BY <2>1, <2>7
  <1>6. n \in P
    <2> HIDE DEF P
    <2>1. 0..n \subseteq P
      BY <1>1, <1>4, <1>5, UpTo
    <2>2. QED
      BY <1>1, <2>1
  <1>7. QED
    BY <1>1, <1>2, <1>6

\* A sequence of all members of a finite set.
LEMMA SetToSeqFacts ==
  ASSUME NEW S, IsFiniteSet(S)
  PROVE  /\ SetToSeq(S) \in Seq(S)
         /\ \A a \in S : \E i \in 1..Len(SetToSeq(S)) : SetToSeq(S)[i] = a
  <1> DEFINE c == Cardinality(S)
             q == SetToSeq(S)
  <1>1. c \in Nat /\ ExistsBijection(1..c, S)
    BY FS_CardinalityType
  <1>2. \E f \in [1..c -> S] : IsInjective(f)
    BY <1>1 DEF ExistsBijection, Bijection, Injection
  <1>3. q \in [1..c -> S] /\ IsInjective(q)
    BY <1>2 DEF SetToSeq
  <1> HIDE DEF q
  <1>4. q \in Injection(1..c, S)
    BY <1>3 DEF Injection, IsInjective
  <1>5. Cardinality(1..c) = c
    <2> HIDE DEF c
    <2>1. 1 \in Int /\ c \in Int
      BY <1>1
    <2>2. Cardinality(1..c) = IF 1 > c THEN 0 ELSE c - 1 + 1
      BY <2>1, FS_Interval
    <2>3. QED
      BY <1>1, <2>2
  <1>6. q \in Surjection(1..c, S)
    BY <1>4, <1>5, FS_Injection
  <1> HIDE DEF c
  <1>7. q \in Seq(S)
    BY <1>1, <1>3, SeqDef
  <1>8. DOMAIN q = 1..c /\ DOMAIN q = 1..Len(q)
    BY <1>3, <1>7, LenProperties
  <1>9. \A a \in S : \E i \in 1..Len(q) : q[i] = a
    BY <1>6, <1>8 DEF Surjection
  <1>10. QED
    BY <1>7, <1>9 DEF q

\* What is printed is registered then.
LEMMA EncodeStep ==
  ASSUME IInv, NEW s \in Registry, NEW x \in Operands
  PROVE  LET t == Encode(s, x)
         IN  /\ t \in Registry /\ Keeps(s.back, t.back)
             /\ DOMAIN s.fwd \subseteq DOMAIN t.fwd
             /\ Printed(x) \subseteq DOMAIN t.fwd
             /\ Canonical(s.back) /\ Plain(Meant(x)) => Canonical(t.back)
  <1> DEFINE q == SetToSeq(Printed(x))
             n == Len(q)
  <1>1. Printed(x) \subseteq Atoms /\ IsFiniteSet(Printed(x))
    BY OperandFacts DEF Finite
  <1>2. /\ q \in Seq(Printed(x))
        /\ \A a \in Printed(x) : \E i \in 1..n : q[i] = a
    BY <1>1, SetToSeqFacts
  <1>3. n \in Nat /\ \A i \in 1..n : q[i] \in Printed(x) /\ q[i] \in Atoms
    BY <1>1, <1>2, LenProperties, ElementOfSeq
  <1>4. PICK after :
          /\ after = [i \in 0..n |-> IF i = 0 THEN s ELSE Sanitize(after[i - 1], q[i])]
          /\ Encode(s, x) = after[n]
    <2> DEFINE step == [p \in Registry \X (1..n) |-> Sanitize(p[1], q[p[2]])]
    <2> HIDE DEF q, n
    <2>1. \A r \in Registry, i \in 1..n :
            step[<<r, i>>] = Sanitize(r, q[i]) /\ Sanitize(r, q[i]) \in Registry
      BY <1>3, SanitizeStep
    <2>2. CanStep(Registry, n, step)
      BY <2>1 DEF CanStep
    <2> HIDE DEF step
    <2>3. PICK f : Makes(f, Registry, s, n, step)
      BY <1>3, <2>2, IterationExists
    <2>4. ASSUME NEW i \in 0..n
          PROVE  f[i] = IF i = 0 THEN s ELSE Sanitize(f[i - 1], q[i])
      <3>1. CASE i = 0
        BY <2>3, <3>1 DEF Makes
      <3>2. CASE i # 0
        <4>1. i \in 1..n
          BY <1>3, <3>2
        <4>2. QED
          BY <2>1, <2>3, <3>2, <4>1 DEF Makes
      <3>3. QED
        BY <3>1, <3>2
    <2>5. f = [i \in 0..n |-> IF i = 0 THEN s ELSE Sanitize(f[i - 1], q[i])]
      BY <2>3, <2>4 DEF Makes
    <2>6. QED
      BY <2>5 DEF Encode, q, n
  <1> HIDE DEF q, n
  <1>5. /\ after[0] = s
        /\ \A i \in 1..n : after[i] = Sanitize(after[i - 1], q[i])
    BY <1>3, <1>4
  <1> DEFINE Good(i) ==
               /\ after[i] \in Registry /\ Keeps(s.back, after[i].back)
               /\ DOMAIN s.fwd \subseteq DOMAIN after[i].fwd
               /\ \A j \in 1..i : q[j] \in DOMAIN after[i].fwd
               /\ Canonical(s.back) /\ Plain(Printed(x)) => Canonical(after[i].back)
             P == {i \in 0..n : Good(i)}
  <1>6. 0 \in P
    BY <1>3, <1>5 DEF Keeps
  <1>7. ASSUME NEW i \in 1..n, i - 1 \in P PROVE i \in P
    <2> DEFINE k == i - 1
               r == after[k]
               t == after[i]
    <2>1. i \in 0..n /\ 1..i = 1..k \cup {i}
      BY <1>3
    <2>2. Good(k)
      BY <1>7
    <2>3. t = Sanitize(r, q[i]) /\ q[i] \in Atoms /\ q[i] \in Printed(x) /\ r \in Registry
      BY <1>3, <1>5, <2>2
    <2>4. /\ t \in Registry /\ Keeps(r.back, t.back)
          /\ DOMAIN t.fwd = DOMAIN r.fwd \cup {q[i]}
          /\ Canonical(r.back) /\ Ordinary(q[i]) => Canonical(t.back)
      BY <2>3, SanitizeStep
    <2>5. Good(i)
      BY <2>1, <2>2, <2>3, <2>4 DEF Keeps, Plain
    <2>6. QED
      BY <2>1, <2>5
  <1>8. n \in P
    <2> HIDE DEF P
    <2>1. 0..n \subseteq P
      BY <1>3, <1>6, <1>7, UpTo
    <2>2. QED
      BY <1>3, <2>1
  <1>9. Plain(Meant(x)) => Plain(Printed(x))
    BY OperandFacts
  <1>10. QED
    BY <1>2, <1>4, <1>8, <1>9

\* The tables of a request: what is printed is registered, and what was collected
\* is kept.
LEMMA TablesFacts ==
  ASSUME IInv, NEW args \in Seq(Operands)
  PROVE  LET t == Tables(args)
         IN  /\ t \in Registry
             /\ \A j \in DOMAIN args : Printed(args[j]) \subseteq DOMAIN t.fwd
             /\ \A j \in DOMAIN args :
                  IsRef(args[j]) => DOMAIN answers[args[j].ref].back \subseteq DOMAIN t.back
             /\ 1 \in DOMAIN args /\ IsRef(args[1]) =>
                  Keeps(answers[args[1].ref].back, t.back)
             /\ (\A j \in DOMAIN args : Plain(Meant(args[j]))) => Canonical(t.back)
  <1> DEFINE n == Len(args)
             s == Collected(args)
             AllPlain == \A j \in DOMAIN args : Plain(Meant(args[j]))
  <1>1. n \in Nat /\ DOMAIN args = 1..n /\ \A i \in 1..n : args[i] \in Operands
    BY LenProperties, ElementOfSeq
  <1>2. /\ s \in Registry
        /\ \A j \in DOMAIN args :
             IsRef(args[j]) => DOMAIN answers[args[j].ref].back \subseteq DOMAIN s.back
        /\ 1 \in DOMAIN args /\ IsRef(args[1]) => Keeps(answers[args[1].ref].back, s.back)
        /\ AllPlain => Canonical(s.back)
    BY CollectedFacts
  <1> HIDE DEF n, s
  <1>3. PICK after :
          /\ after = [i \in 0..n |-> IF i = 0 THEN s ELSE Encode(after[i - 1], args[i])]
          /\ Tables(args) = after[n]
    <2> DEFINE step == [p \in Registry \X (1..n) |-> Encode(p[1], args[p[2]])]
    <2>1. \A r \in Registry, i \in 1..n :
            step[<<r, i>>] = Encode(r, args[i]) /\ Encode(r, args[i]) \in Registry
      BY <1>1, EncodeStep
    <2>2. CanStep(Registry, n, step)
      BY <2>1 DEF CanStep
    <2> HIDE DEF step
    <2>3. PICK f : Makes(f, Registry, s, n, step)
      BY <1>1, <1>2, <2>2, IterationExists
    <2>4. ASSUME NEW i \in 0..n
          PROVE  f[i] = IF i = 0 THEN s ELSE Encode(f[i - 1], args[i])
      <3>1. CASE i = 0
        BY <2>3, <3>1 DEF Makes
      <3>2. CASE i # 0
        <4>1. i \in 1..n
          BY <1>1, <3>2
        <4>2. QED
          BY <2>1, <2>3, <3>2, <4>1 DEF Makes
      <3>3. QED
        BY <3>1, <3>2
    <2>5. f = [i \in 0..n |-> IF i = 0 THEN s ELSE Encode(f[i - 1], args[i])]
      BY <2>3, <2>4 DEF Makes
    <2>6. QED
      BY <2>5 DEF Tables, s, n
  <1>4. /\ after[0] = s
        /\ \A i \in 1..n : after[i] = Encode(after[i - 1], args[i])
    BY <1>1, <1>3
  <1> DEFINE Good(i) ==
               /\ after[i] \in Registry /\ Keeps(s.back, after[i].back)
               /\ \A j \in 1..i : Printed(args[j]) \subseteq DOMAIN after[i].fwd
               /\ AllPlain => Canonical(after[i].back)
             P == {i \in 0..n : Good(i)}
  <1>5. 0 \in P
    BY <1>1, <1>2, <1>4 DEF Keeps
  <1>6. ASSUME NEW i \in 1..n, i - 1 \in P PROVE i \in P
    <2> DEFINE k == i - 1
               r == after[k]
               t == after[i]
    <2>1. i \in 0..n /\ 1..i = 1..k \cup {i}
      BY <1>1
    <2>2. Good(k)
      BY <1>6
    <2>3. t = Encode(r, args[i]) /\ args[i] \in Operands /\ r \in Registry
      BY <1>1, <1>4, <2>2
    <2>4. /\ t \in Registry /\ Keeps(r.back, t.back)
          /\ DOMAIN r.fwd \subseteq DOMAIN t.fwd
          /\ Printed(args[i]) \subseteq DOMAIN t.fwd
          /\ Canonical(r.back) /\ Plain(Meant(args[i])) => Canonical(t.back)
      BY <2>3, EncodeStep
    <2>5. AllPlain => Plain(Meant(args[i]))
      BY <1>1
    <2>6. Good(i)
      BY <2>1, <2>2, <2>4, <2>5 DEF Keeps
    <2>7. QED
      BY <2>1, <2>6
  <1>7. n \in P
    <2> HIDE DEF P
    <2>1. 0..n \subseteq P
      BY <1>1, <1>5, <1>6, UpTo
    <2>2. QED
      BY <1>1, <2>1
  <1>8. QED
    BY <1>1, <1>2, <1>3, <1>7 DEF Keeps

-----------------------------------------------------------------------------
(* Requests *)

\* Where an operand comes to in the ring, and what those names are read back as.
LEMMA SentFacts ==
  ASSUME IInv, NEW args \in Seq(Operands), NEW j \in DOMAIN args
  PROVE  LET t == Tables(args)
             x == args[j]
         IN  /\ Sent(t, x) \in Finite(Seq(Word)) /\ Sent(t, x) \subseteq DOMAIN t.back
             /\ ~IsLive(x) => {t.back[n] : n \in Sent(t, x)} = Printed(x)
             /\ IsLive(x) /\ Keeps(answers[x.ref].back, t.back) =>
                  {t.back[n] : n \in Sent(t, x)} = Read(x.ref)
  <1> DEFINE t == Tables(args)
             x == args[j]
  <1>1. /\ t \in Registry /\ Printed(x) \subseteq DOMAIN t.fwd
        /\ IsRef(x) => DOMAIN answers[x.ref].back \subseteq DOMAIN t.back
    BY TablesFacts
  <1>2. x \in Operands
    BY LenProperties, ElementOfSeq
  <1> HIDE DEF t, x
  <1>3. /\ t.fwd \in Fwds /\ t.back \in Backs
        /\ \A a \in DOMAIN t.fwd : t.fwd[a] \in DOMAIN t.back /\ t.back[t.fwd[a]] = a
    BY <1>1 DEF Registry
  <1>4. CASE IsLive(x)
    <2>1. IsRef(x) /\ x.ref \in Handles
      BY <1>2, <1>4, OperandFacts DEF IsLive
    <2>2. Sent(t, x) = answers[x.ref].gens
      BY <1>4 DEF Sent
    <2>3. /\ answers[x.ref] \in Answer
          /\ answers[x.ref].gens \subseteq DOMAIN answers[x.ref].back
          /\ Read(x.ref) = {answers[x.ref].back[n] : n \in answers[x.ref].gens}
      BY <2>1, AnswerFacts
    <2>4. QED
      BY <1>1, <1>4, <2>1, <2>2, <2>3 DEF Keeps, Answer, t, x
  <1>5. CASE ~IsLive(x)
    <2> DEFINE S == {t.fwd[a] : a \in Printed(x)}
    <2>1. Sent(t, x) = S
      BY <1>5 DEF Sent
    <2>2. S \subseteq DOMAIN t.back /\ {t.back[n] : n \in S} = Printed(x)
      BY <1>1, <1>3
    <2>3. S \in Finite(Seq(Word))
      <3> DEFINE f == [a \in Printed(x) |-> t.fwd[a]]
      <3>1. f \in Surjection(Printed(x), S)
        BY DEF Surjection
      <3>2. IsFiniteSet(Printed(x))
        BY <1>2, OperandFacts DEF Finite
      <3>3. S \subseteq Seq(Word)
        BY <1>3, <2>2, BacksAreFinite
      <3> HIDE DEF f, S
      <3>4. IsFiniteSet(S)
        BY <3>1, <3>2, FS_Surjection
      <3>5. QED
        BY <3>3, <3>4 DEF Finite
    <2> HIDE DEF S
    <2>4. QED
      BY <1>5, <2>1, <2>2, <2>3 DEF t, x
  <1>6. QED
    BY <1>4, <1>5

\* Canonical tables agree on the names they share.
LEMMA CanonicalAgree ==
  ASSUME NEW b \in Backs, NEW c \in Backs, Canonical(b), Canonical(c),
         DOMAIN b \subseteq DOMAIN c
  PROVE  Keeps(b, c)
  <1> SUFFICES ASSUME NEW n \in DOMAIN b PROVE c[n] = b[n]
    BY DEF Keeps
  <1>1. /\ b[n] \in Atoms /\ Ordinary(b[n]) /\ n = Flat(b[n])
        /\ c[n] \in Atoms /\ Ordinary(c[n]) /\ n = Flat(c[n])
    BY BacksAreFinite DEF Canonical
  <1>2. QED
    BY <1>1, FlatInjective

\* What a request says of an operand, given that it is in order or about
\* ordinary indeterminates.
LEMMA OperandComesBack ==
  ASSUME IInv, NEW args \in Seq(Operands), NEW j \in DOMAIN args,
         \/ \A i \in DOMAIN args : IsRef(args[i]) =>
              /\ answers[args[i].ref].inOrder
              /\ i = 1 \/ ~IsLive(args[i])
         \/ \A i \in DOMAIN args : Plain(Meant(args[i]))
  PROVE  {Tables(args).back[n] : n \in Sent(Tables(args), args[j])} = Meant(args[j])
  <1> DEFINE t == Tables(args)
             x == args[j]
  <1>1. /\ t \in Registry
        /\ \A i \in DOMAIN args :
             IsRef(args[i]) => DOMAIN answers[args[i].ref].back \subseteq DOMAIN t.back
        /\ 1 \in DOMAIN args /\ IsRef(args[1]) => Keeps(answers[args[1].ref].back, t.back)
        /\ (\A i \in DOMAIN args : Plain(Meant(args[i]))) => Canonical(t.back)
    BY TablesFacts
  <1>2. /\ ~IsLive(x) => {t.back[n] : n \in Sent(t, x)} = Printed(x)
        /\ IsLive(x) /\ Keeps(answers[x.ref].back, t.back) =>
             {t.back[n] : n \in Sent(t, x)} = Read(x.ref)
    BY SentFacts
  <1>3. x \in Operands
    BY LenProperties, ElementOfSeq
  <1>4. CASE ~IsRef(x)
    BY <1>2, <1>4 DEF IsLive, Printed, Meant
  <1>5. CASE IsRef(x)
    <2> DEFINE r == answers[x.ref]
    <2>1. x.ref \in Handles /\ Meant(x) = r.meant
      BY <1>3, <1>5, OperandFacts DEF Meant
    <2>2. r \in Answer /\ (Plain(r.meant) => Canonical(r.back))
      BY <2>1, AnswerFacts
    <2>3. Read(x.ref) = r.meant
      <3>1. r.inOrder \/ Plain(r.meant)
        BY <1>5, <2>1
      <3>2. QED
        BY <2>1, <3>1, AnswerFacts
    <2>4. CASE ~IsLive(x)
      BY <1>2, <1>5, <2>1, <2>3, <2>4 DEF Printed
    <2>5. CASE IsLive(x)
      <3>1. CASE \A i \in DOMAIN args : Plain(Meant(args[i]))
        <4>1. Canonical(t.back) /\ Canonical(r.back)
          BY <1>1, <2>1, <2>2, <3>1
        <4>2. t.back \in Backs /\ r.back \in Backs /\ DOMAIN r.back \subseteq DOMAIN t.back
          BY <1>1, <1>5, <2>2 DEF Registry, Answer
        <4>3. Keeps(r.back, t.back)
          BY <4>1, <4>2, CanonicalAgree
        <4>4. QED
          BY <1>2, <2>1, <2>3, <2>5, <4>3
      <3>2. CASE \A i \in DOMAIN args : IsRef(args[i]) => i = 1 \/ ~IsLive(args[i])
        <4>1. j = 1
          BY <1>5, <2>5, <3>2
        <4>2. Keeps(r.back, t.back)
          BY <1>1, <1>5, <4>1
        <4>3. QED
          BY <1>2, <2>1, <2>3, <2>5, <4>2
      <3>3. QED
        BY <3>1, <3>2
    <2>6. QED
      BY <2>4, <2>5
  <1>6. QED
    BY <1>4, <1>5

LEMMA RequestStep ==
  ASSUME IInv, NEW args \in Seq(Operands), Request(args)
  PROVE  IInv'
  <1> DEFINE t == Tables(args)
             gens == UNION {Sent(t, x) : x \in Range(args)}
             meant == UNION {Meant(x) : x \in Range(args)}
             inOrder == \A i \in DOMAIN args : IsRef(args[i]) =>
                          /\ answers[args[i].ref].inOrder
                          /\ i = 1 \/ ~IsLive(args[i])
             r == [gens |-> gens, back |-> t.back, meant |-> meant, inOrder |-> inOrder]
  <1>0. PICK new : new = Len(answers) + 1
    OBVIOUS
  <1>1. answers' = Append(answers, r)
    BY DEF Request
  <1>2. t \in Registry /\ t.back \in Backs
    BY TablesFacts DEF Registry
  <1>3. Range(args) = {args[j] : j \in DOMAIN args}
    BY DEF Range
  <1>4. gens \subseteq DOMAIN t.back
    BY <1>3, SentFacts
  <1>5. gens \in Finite(Seq(Word))
    <2>1. IsFiniteSet(DOMAIN t.back) /\ DOMAIN t.back \subseteq Seq(Word)
      BY <1>2, BacksAreFinite
    <2> HIDE DEF gens, t
    <2>2. IsFiniteSet(gens)
      BY <1>4, <2>1, FS_Subset
    <2>3. QED
      BY <1>4, <2>1, <2>2 DEF Finite
  <1>6. meant \subseteq Atoms
    <2>1. \A j \in DOMAIN args : args[j] \in Operands
      BY LenProperties, ElementOfSeq
    <2>2. QED
      BY <1>3, <2>1, OperandFacts
  <1>7. inOrder \in BOOLEAN
    OBVIOUS
  <1>8. Plain(meant) => \A j \in DOMAIN args : Plain(Meant(args[j]))
    BY <1>3 DEF Plain
  <1>9. Plain(meant) => Canonical(t.back)
    BY <1>8, TablesFacts
  <1>10. inOrder \/ Plain(meant) => {t.back[n] : n \in gens} = meant
    <2> SUFFICES ASSUME inOrder \/ Plain(meant) PROVE {t.back[n] : n \in gens} = meant
      OBVIOUS
    <2>1. \A j \in DOMAIN args : {t.back[n] : n \in Sent(t, args[j])} = Meant(args[j])
      BY <1>8, OperandComesBack
    <2> HIDE DEF t
    <2>2. ASSUME NEW n \in gens PROVE t.back[n] \in meant
      <3>1. PICK j \in DOMAIN args : n \in Sent(t, args[j])
        BY <1>3
      <3>2. t.back[n] \in Meant(args[j])
        BY <2>1, <3>1
      <3>3. QED
        BY <1>3, <3>2
    <2>3. ASSUME NEW a \in meant PROVE \E n \in gens : t.back[n] = a
      <3>1. PICK j \in DOMAIN args : a \in Meant(args[j])
        BY <1>3
      <3>2. PICK n \in Sent(t, args[j]) : t.back[n] = a
        BY <2>1, <3>1
      <3>3. n \in gens
        BY <1>3
      <3>4. QED
        BY <3>2, <3>3
    <2> HIDE DEF gens, meant
    <2>4. QED
      BY <2>2, <2>3
  <1> HIDE DEF gens, meant, inOrder, t
  <1>11. r \in Answer
    BY <1>2, <1>5, <1>6, <1>7 DEF Answer
  <1> HIDE DEF r
  <1>12. answers \in Seq(Answer)
    BY DEF IInv, TypeInv
  <1>13. /\ answers' \in Seq(Answer) /\ Handles' = Handles \cup {new}
         /\ answers'[new] = r /\ \A h \in Handles : answers'[h] = answers[h]
    <2>1. /\ Len(answers) \in Nat /\ Handles = 1..Len(answers)
          /\ answers' \in Seq(Answer) /\ Len(answers') = new
          /\ answers'[new] = r /\ \A h \in 1..Len(answers) : answers'[h] = answers[h]
      BY <1>0, <1>1, <1>11, <1>12, AppendProperties, LenProperties DEF Handles
    <2>2. Handles' = 1..Len(answers')
      BY <2>1, LenProperties DEF Handles
    <2>3. QED
      BY <1>0, <2>1, <2>2
  <1>14. r.gens = gens /\ r.back = t.back /\ r.meant = meant /\ r.inOrder = inOrder
    BY DEF r
  <1>15. \A h \in Handles : Read(h)' = Read(h)
    BY <1>13 DEF Read
  <1>16. Read(new)' = {t.back[n] : n \in gens}
    <2>1. Read(new)' = {Unsanitize(t.back, n) : n \in gens}
      BY <1>13, <1>14 DEF Read
    <2>2. \A n \in gens : Unsanitize(t.back, n) = t.back[n]
      BY <1>4 DEF Unsanitize
    <2>3. QED
      BY <2>1, <2>2
  <1>17. TypeInv'
    BY <1>13 DEF TypeInv
  <1>18. RingCoversOperands'
    BY <1>4, <1>13, <1>14 DEF IInv, RingCoversOperands
  <1>19. NamesComeBack'
    <2> SUFFICES ASSUME NEW h \in Handles',
                        \/ answers'[h].inOrder
                        \/ Plain(answers'[h].meant)
                 PROVE  Read(h)' = answers'[h].meant
      BY DEF NamesComeBack, Plain
    <2>1. CASE h \in Handles
      <3>1. Read(h) = answers[h].meant
        BY <1>13, <2>1, AnswerFacts
      <3>2. QED
        BY <1>13, <1>15, <2>1, <3>1
    <2>2. CASE h = new
      BY <1>10, <1>13, <1>14, <1>16, <2>2
    <2>3. QED
      BY <1>13, <2>1, <2>2
  <1>20. FlatInv'
    BY <1>9, <1>13, <1>14 DEF IInv, FlatInv
  <1>21. QED
    BY <1>17, <1>18, <1>19, <1>20 DEF IInv

-----------------------------------------------------------------------------
(* The theorems *)

LEMMA InitInv == Init => IInv
  <1> SUFFICES ASSUME Init PROVE IInv
    OBVIOUS
  <1>1. answers = <<>> /\ Handles = {}
    BY DEF Init, Handles
  <1>2. QED
    BY <1>1 DEF IInv, TypeInv, RingCoversOperands, NamesComeBack, FlatInv

LEMMA NextInv == IInv /\ [Next]_vars => IInv'
  <1> SUFFICES ASSUME IInv, [Next]_vars PROVE IInv'
    OBVIOUS
  <1>1. ASSUME NEW args \in BoundedSeq(Operands, MaxOperands), Request(args) PROVE IInv'
    <2>1. args \in Seq(Operands)
      BY DEF BoundedSeq, SeqOf
    <2>2. QED
      BY <1>1, <2>1, RequestStep
  <1>2. CASE UNCHANGED answers
    BY <1>2 DEF IInv, TypeInv, RingCoversOperands, NamesComeBack, FlatInv, Read, Handles
  <1>3. QED
    BY <1>1, <1>2 DEF Next, Clear, vars

LEMMA Invariance == Spec => []IInv
  <1>1. QED
    BY InitInv, NextInv, PTL DEF Spec

\* The ring of a request has every generator of its operands (collect,
\* sage_cas.go 1202-1220), however many requests a handle went through.
THEOREM RingsAreComplete == Spec => []RingCoversOperands
  <1>1. IInv => RingCoversOperands
    BY DEF IInv
  <1>2. QED
    BY <1>1, Invariance, PTL

\* An answer is about the indeterminates of its operands: for ordinary names and
\* for requests in order (sanitize, dedupe and unsanitizeName, sage_cas.go
\* 1258-1337 and 1405-1420).
THEOREM NamesRoundTrip == Spec => []NamesComeBack
  <1>1. IInv => NamesComeBack
    BY DEF IInv
  <1>2. QED
    BY <1>1, Invariance, PTL
=============================================================================
