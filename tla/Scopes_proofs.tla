---------------------------- MODULE Scopes_proofs ----------------------------
(***************************************************************************)
(* Proofs about Scopes for any names, objects, numbers of calls, binders   *)
(* and closures.  What an assignment writes is a recursive function of the *)
(* running scope and the name; its facts are proved by induction over the  *)
(* depth of the scope, and everything else follows from them.              *)
(***************************************************************************)
EXTENDS Scopes, Induction, SequenceTheorems, TLAPS

-----------------------------------------------------------------------------
(* The inductive invariant *)

Slots  == Values \cup {Unbound}
Target == [sc : 0..MaxCalls, name : Names \cup {Unbound}]
Scope  == [isLocal : SUBSET Names, isGlobal : SUBSET Names,
           locals : [Names -> Slots], captured : [Names -> Slots],
           paramWB : [Names -> Target]]
Binder == [at : 0..MaxCalls, var : Names, old : Slots]

TypeInv ==
  /\ globals \in [Names -> Slots]
  /\ scopes \in [1..MaxCalls -> Scope]
  /\ depth \in 0..MaxCalls
  /\ binders \in Seq(Binder)
  /\ envs \subseteq [Names -> Slots]

\* A parameter is bound by reference to a name of a scope further out.
Outward(scope, d) ==
  \A p \in Names : scope.paramWB[p] # NoTarget =>
    scope.paramWB[p].sc \in 0..(d - 1) /\ scope.paramWB[p].name \in Names
OutwardInv == \A d \in 1..depth : Outward(scopes[d], d)

\* Only names that are local have a value in a scope.
Home(scope) == \A n \in Names : scope.locals[n] # Unbound => n \in scope.isLocal
HomeInv == \A d \in 1..depth : Home(scopes[d])

\* A seq, add or mul runs in the scope it was begun in; a variable that this
\* scope has from its environment was read from there.
FromThere(b, active) ==
  LET s == active[b.at]
  IN  (/\ b.at > 0 /\ b.var \notin s.isLocal \cup Qualified
       /\ s.captured[b.var] # Unbound) => b.old = s.captured[b.var]
BinderInv ==
  /\ \A i \in 1..Len(binders) : binders[i].at <= depth /\ FromThere(binders[i], scopes)
  /\ \A i, j \in 1..Len(binders) : i <= j => binders[i].at <= binders[j].at

IInv == TypeInv /\ OutwardInv /\ HomeInv /\ BinderInv

-----------------------------------------------------------------------------
(* What an assignment writes *)

\* The equations of Written: what a name of scope e stands for, where slots has
\* the answer for the scopes further out.
Slot(slots, e, m) ==
  IF e = 0 \/ m \notin scopes[e].isLocal THEN {<<0, m>>}
  ELSE LET wb == scopes[e].paramWB[m]
       IN  {<<e, m>>} \cup (IF wb = NoTarget THEN {} ELSE slots[wb.sc][wb.name])
IsSlots(slots, d) == slots = [e \in 0..d |-> [m \in Names |-> Slot(slots, e, m)]]

\* The equations have a solution: a target is further out.
LEMMA SlotsExist ==
  ASSUME IInv, NEW d \in 0..depth
  PROVE  \E slots : IsSlots(slots, d)
  <1>0. depth \in Nat /\ d \in Nat /\ d <= depth
    BY BoundsAssumption DEF IInv, TypeInv
  <1> DEFINE A == {k \in Nat : k <= depth => \E slots : IsSlots(slots, k)}
  <1>1. 0 \in A
    <2> DEFINE slots == [e \in 0..0 |-> [m \in Names |-> {<<0, m>>}]]
    <2>1. [e \in 0..0 |-> [m \in Names |-> Slot(slots, e, m)]] = slots
      BY DEF Slot
    <2> HIDE DEF slots
    <2>2. IsSlots(slots, 0)
      BY <2>1 DEF IsSlots
    <2>3. QED
      BY <2>2
  <1>2. ASSUME NEW k \in Nat, k \in A PROVE k + 1 \in A
    <2> SUFFICES ASSUME k + 1 <= depth PROVE \E slots : IsSlots(slots, k + 1)
      OBVIOUS
    <2>1. PICK old : IsSlots(old, k)
      BY <1>0, <1>2
    <2> DEFINE new == [e \in 0..(k + 1) |-> [m \in Names |-> Slot(old, e, m)]]
    <2>2. \A e \in 0..k : new[e] = old[e]
      BY <2>1 DEF IsSlots
    <2>3. ASSUME NEW e \in 0..(k + 1), NEW m \in Names PROVE Slot(new, e, m) = Slot(old, e, m)
      <3>1. CASE e = 0 \/ m \notin scopes[e].isLocal \/ scopes[e].paramWB[m] = NoTarget
        BY <3>1 DEF Slot
      <3>2. CASE e # 0 /\ scopes[e].paramWB[m] # NoTarget
        <4>1. scopes[e].paramWB[m].sc \in 0..(e - 1)
          BY <1>0, <3>2 DEF IInv, OutwardInv, Outward
        <4>2. scopes[e].paramWB[m].sc \in 0..k
          BY <4>1
        <4>3. new[scopes[e].paramWB[m].sc] = old[scopes[e].paramWB[m].sc]
          BY <2>2, <4>2
        <4> HIDE DEF new
        <4>4. QED
          BY <4>3 DEF Slot
      <3>3. QED
        BY <3>1, <3>2
    <2>4. IsSlots(new, k + 1)
      <3>1. [e \in 0..(k + 1) |-> [m \in Names |-> Slot(new, e, m)]] = new
        BY <2>3
      <3> HIDE DEF new
      <3>2. QED
        BY <3>1 DEF IsSlots
    <2>5. QED
      BY <2>4
  <1>3. d \in A
    <2> HIDE DEF A
    <2> QED
      BY <1>0, <1>1, <1>2, SetInduction
  <1>4. QED
    BY <1>0, <1>3

\* Where name m is that code in scope e sees.
At(e, m) == IF e > 0 /\ m \in scopes[e].isLocal THEN e ELSE 0

\* What parameter p of scope f is bound to is in W.
WrittenWith(W, f, p) ==
  LET wb == scopes[f].paramWB[p]
  IN  wb # NoTarget => <<At(wb.sc, wb.name), wb.name>> \in W

\* W is right for name m of scope e: it is in W; what a parameter in W is bound to
\* is in W; and a slot of a scope further out is in W for that reason only.
Chain(W, e, m) ==
  /\ \A w \in W : w = <<w[1], w[2]>> /\ w[1] \in 0..e /\ w[2] \in Names
  /\ <<At(e, m), m>> \in W
  /\ e > 0 => \A n \in Names : <<e, n>> \in W => n = m
  /\ \A f \in 1..e, p \in Names :
       <<f, p>> \in W => p \in scopes[f].isLocal /\ WrittenWith(W, f, p)
  /\ \A f \in 1..(e - 1), n \in Names :
       <<f, n>> \in W =>
         \E g \in (f + 1)..e, p \in Names :
           <<g, p>> \in W /\ scopes[g].paramWB[p] = [sc |-> f, name |-> n]

LEMMA ChainEnds ==
  ASSUME NEW e \in Nat, NEW m \in Names, At(e, m) = 0
  PROVE  Chain({<<0, m>>}, e, m)
  <1>1. \A f \in 1..e : \A n : <<f, n>> \notin {<<0, m>>}
    OBVIOUS
  <1>2. e > 0 => e \in 1..e
    OBVIOUS
  <1>3. \A f \in 1..(e - 1) : f \in 1..e
    OBVIOUS
  <1>4. \A w \in {<<0, m>>} : w = <<w[1], w[2]>> /\ w[1] \in 0..e /\ w[2] \in Names
    OBVIOUS
  <1>5. QED
    BY <1>1, <1>2, <1>3, <1>4 DEF Chain

\* One more scope: a local that is bound to no name, or to a name with slots V.
LEMMA ChainGrows ==
  ASSUME NEW e \in Nat \ {0}, NEW m \in Names, m \in scopes[e].isLocal,
         NEW W, NEW V, W = {<<e, m>>} \cup V, NEW wb, wb = scopes[e].paramWB[m],
         \/ wb = NoTarget /\ V = {}
         \/ wb # NoTarget /\ wb = [sc |-> wb.sc, name |-> wb.name]
            /\ wb.sc \in 0..(e - 1) /\ wb.name \in Names
            /\ Chain(V, wb.sc, wb.name)
  PROVE  Chain(W, e, m)
  <1>1. At(e, m) = e
    BY DEF At
  <1>2. \A f, n : <<f, n>> \in W <=> (f = e /\ n = m) \/ <<f, n>> \in V
    OBVIOUS
  <1>3. CASE wb = NoTarget /\ V = {}
    <2>1. WrittenWith(W, e, m)
      BY <1>3 DEF WrittenWith
    <2>2. \A w \in W : w = <<e, m>>
      BY <1>3
    <2>3. \A f \in 1..(e - 1) : f # e
      OBVIOUS
    <2>4. QED
      BY <1>1, <1>2, <1>3, <2>1, <2>2, <2>3 DEF Chain
  <1>4. CASE wb # NoTarget /\ wb.sc \in 0..(e - 1) /\ wb.name \in Names
             /\ wb = [sc |-> wb.sc, name |-> wb.name]
             /\ Chain(V, wb.sc, wb.name)
    <2> DEFINE s == wb.sc
    <2>0. s \in Nat /\ s < e /\ s \in 0..(e - 1)
      BY <1>4
    <2>1. \A w \in V : w = <<w[1], w[2]>> /\ w[1] \in 0..s /\ w[2] \in Names
      BY <1>4 DEF Chain
    <2>2. \A f, n : <<f, n>> \in V => f \in 0..s
      BY <2>1
    <2>3. \A w \in W : w = <<w[1], w[2]>> /\ w[1] \in 0..e /\ w[2] \in Names
      <3>1. \A w \in V : w[1] \in 0..e
        BY <2>0, <2>1
      <3>2. \A w \in W : w = <<e, m>> \/ w \in V
        OBVIOUS
      <3>3. QED
        BY <2>1, <3>1, <3>2
    <2>4. \A n \in Names : <<e, n>> \in W => n = m
      <3>1. e \notin 0..s
        BY <2>0
      <3>2. QED
        BY <1>2, <2>2, <3>1
    <2>5. ASSUME NEW f \in 1..e, NEW p \in Names, <<f, p>> \in W
          PROVE  p \in scopes[f].isLocal /\ WrittenWith(W, f, p)
      <3>1. CASE f = e /\ p = m
        <4>1. <<At(s, wb.name), wb.name>> \in V
          BY <1>4 DEF Chain
        <4>2. QED
          BY <1>2, <3>1, <4>1 DEF WrittenWith
      <3>2. CASE <<f, p>> \in V
        <4>1. f \in 1..s
          BY <2>0, <2>2, <3>2
        <4>2. p \in scopes[f].isLocal /\ WrittenWith(V, f, p)
          BY <1>4, <3>2, <4>1 DEF Chain
        <4>3. QED
          BY <1>2, <4>2 DEF WrittenWith
      <3>3. QED
        BY <1>2, <2>5, <3>1, <3>2
    <2>6. ASSUME NEW f \in 1..(e - 1), NEW n \in Names, <<f, n>> \in W
          PROVE  \E g \in (f + 1)..e, p \in Names :
                   <<g, p>> \in W /\ scopes[g].paramWB[p] = [sc |-> f, name |-> n]
      <3>1. <<f, n>> \in V /\ f <= s /\ f \in Nat \ {0}
        BY <1>2, <2>0, <2>2, <2>6
      <3>2. CASE f < s
        <4>1. f \in 1..(s - 1)
          BY <2>0, <3>1, <3>2
        <4>2. PICK g \in (f + 1)..s, p \in Names :
                <<g, p>> \in V /\ scopes[g].paramWB[p] = [sc |-> f, name |-> n]
          BY <1>4, <3>1, <4>1 DEF Chain
        <4>3. g \in (f + 1)..e
          BY <2>0, <3>1
        <4>4. QED
          BY <1>2, <4>2, <4>3
      <3>3. CASE f = s
        <4>1. n = wb.name
          <5>1. Chain(V, s, wb.name)
            BY <1>4
          <5>2. s > 0 /\ <<s, n>> \in V
            BY <3>1, <3>3
          <5> HIDE DEF s
          <5>3. QED
            BY <5>1, <5>2 DEF Chain
        <4>2. wb = [sc |-> f, name |-> n]
          BY <1>4, <3>3, <4>1
        <4>3. <<e, m>> \in W /\ e \in (f + 1)..e
          BY <2>0, <3>1, <3>3
        <4>4. QED
          BY <4>2, <4>3
      <3>4. f < s \/ f = s
        BY <2>0, <3>1
      <3> HIDE DEF s
      <3>5. QED
        BY <3>2, <3>3, <3>4
    <2>7. <<At(e, m), m>> \in W
      BY <1>1
    <2>8. QED
      BY <2>3, <2>4, <2>5, <2>6, <2>7 DEF Chain
  <1>5. QED
    BY <1>3, <1>4

\* What Written gives is right for every name of every active scope.
LEMMA WrittenChain ==
  ASSUME IInv, NEW d \in 0..depth, NEW n \in Names
  PROVE  Chain(Written(d, n), d, n)
  <1>0. depth \in Nat /\ d \in Nat /\ d <= depth
    BY BoundsAssumption DEF IInv, TypeInv
  <1>1. PICK slots : IsSlots(slots, d) /\ Written(d, n) = slots[d][n]
    <2>1. \E slots : IsSlots(slots, d)
      BY SlotsExist
    <2>2. QED
      BY <2>1 DEF IsSlots, Written, Slot
  <1> DEFINE A == {k \in Nat : \A e \in 0..d, m \in Names : e <= k => Chain(slots[e][m], e, m)}
  <1>2. ASSUME NEW e \in 0..d, NEW m \in Names PROVE slots[e][m] = Slot(slots, e, m)
    BY <1>1 DEF IsSlots
  <1>3. ASSUME NEW e \in 0..d, NEW m \in Names, e = 0 \/ m \notin scopes[e].isLocal
        PROVE  Chain(slots[e][m], e, m)
    <2>1. slots[e][m] = {<<0, m>>} /\ At(e, m) = 0
      BY <1>2, <1>3 DEF Slot, At
    <2>2. QED
      BY <2>1, ChainEnds
  <1>4. 0 \in A
    <2>1. \A e \in 0..d, m \in Names : e <= 0 => e = 0
      OBVIOUS
    <2>2. QED
      BY <1>3, <2>1
  <1>5. ASSUME NEW k \in Nat, k \in A PROVE k + 1 \in A
    <2> SUFFICES ASSUME NEW e \in 0..d, NEW m \in Names, e <= k + 1
                 PROVE  Chain(slots[e][m], e, m)
      OBVIOUS
    <2>1. CASE e = 0 \/ m \notin scopes[e].isLocal
      BY <1>3, <2>1
    <2>2. CASE e # 0 /\ m \in scopes[e].isLocal
      <3> DEFINE wb == scopes[e].paramWB[m]
                 V == IF wb = NoTarget THEN {} ELSE slots[wb.sc][wb.name]
      <3>1. e \in 1..depth /\ e \in Nat \ {0} /\ e \in 1..MaxCalls
        BY <1>0, <2>2, BoundsAssumption DEF IInv, TypeInv
      <3>2. wb \in Target
        BY <3>1 DEF IInv, TypeInv, Scope
      <3>3. wb = [sc |-> wb.sc, name |-> wb.name]
        BY <3>2 DEF Target
      <3>4. slots[e][m] = {<<e, m>>} \cup V
        BY <1>2, <2>2 DEF Slot
      <3>5. wb # NoTarget => wb.sc \in 0..(e - 1) /\ wb.name \in Names
        BY <3>1 DEF IInv, OutwardInv, Outward
      <3>6. wb # NoTarget => wb.sc \in 0..d /\ wb.sc <= k
        BY <1>0, <3>1, <3>5
      <3>7. wb # NoTarget => Chain(V, wb.sc, wb.name)
        BY <1>5, <3>5, <3>6
      <3>8. wb = NoTarget => V = {}
        OBVIOUS
      <3>9. wb = scopes[e].paramWB[m]
        OBVIOUS
      <3> HIDE DEF V, wb
      <3>10. QED
        BY <2>2, <3>1, <3>3, <3>4, <3>5, <3>7, <3>8, <3>9, ChainGrows
    <2>3. QED
      BY <2>1, <2>2
  <1>6. d \in A
    <2> HIDE DEF A
    <2> QED
      BY <1>0, <1>4, <1>5, SetInduction
  <1>7. d \in 0..d /\ d <= d
    BY <1>0
  <1>8. QED
    BY <1>1, <1>6, <1>7

-----------------------------------------------------------------------------
(* The values of a list of arguments *)

LEMMA ConcatSingle ==
  ASSUME NEW S, NEW s \in Seq(S), NEW t \in Seq(S), Len(t) = 1
  PROVE  /\ Len(s) \in Nat /\ Len(s \o t) = Len(s) + 1
         /\ \A i \in 1..Len(s) : (s \o t)[i] = s[i]
         /\ (s \o t)[Len(s) + 1] = t[1]
  <1>1. Len(s) \in Nat
    BY LenProperties
  <1>2. /\ Len(s \o t) = Len(s) + 1
        /\ \A i \in 1..(Len(s) + 1) : (s \o t)[i] = IF i <= Len(s) THEN s[i] ELSE t[i - Len(s)]
    <2>1. /\ Len(s \o t) = Len(s) + Len(t)
          /\ \A i \in 1..(Len(s) + Len(t)) :
               (s \o t)[i] = IF i <= Len(s) THEN s[i] ELSE t[i - Len(s)]
      BY ConcatProperties
    <2>2. QED
      BY <2>1
  <1>3. \A i \in 1..Len(s) : i \in 1..(Len(s) + 1) /\ i <= Len(s)
    BY <1>1
  <1>4. Len(s) + 1 \in 1..(Len(s) + 1) /\ ~(Len(s) + 1 <= Len(s)) /\ Len(s) + 1 - Len(s) = 1
    BY <1>1
  <1>5. QED
    BY <1>1, <1>2, <1>3, <1>4

IsFlattened(f, ss, n) == f = [i \in 1..n |-> IF i = 1 THEN ss[i] ELSE f[i - 1] \o ss[i]]

LEMMA FlattenedExists ==
  ASSUME NEW ss, NEW n \in Nat
  PROVE  \E f : IsFlattened(f, ss, n)
  <1> DEFINE A == {k \in Nat : \E f : IsFlattened(f, ss, k)}
  <1>1. 0 \in A
    <2> DEFINE f == [i \in 1..0 |-> ss[i]]
    <2>1. f = [i \in 1..0 |-> IF i = 1 THEN ss[i] ELSE f[i - 1] \o ss[i]]
      OBVIOUS
    <2> HIDE DEF f
    <2>2. QED
      BY <2>1 DEF IsFlattened
  <1>2. ASSUME NEW k \in Nat, k \in A PROVE k + 1 \in A
    <2>1. PICK old : IsFlattened(old, ss, k)
      BY <1>2
    <2> DEFINE new == [i \in 1..(k + 1) |-> IF i = 1 THEN ss[i] ELSE old[i - 1] \o ss[i]]
    <2>2. \A i \in 1..k : i \in 1..(k + 1) /\ new[i] = old[i]
      <3>1. \A i \in 1..k : old[i] = IF i = 1 THEN ss[i] ELSE old[i - 1] \o ss[i]
        BY <2>1 DEF IsFlattened
      <3>2. \A i \in 1..k : i \in 1..(k + 1)
        OBVIOUS
      <3>3. QED
        BY <3>1, <3>2
    <2>3. \A i \in 1..(k + 1) : i # 1 => i - 1 \in 1..k
      OBVIOUS
    <2>4. [i \in 1..(k + 1) |-> IF i = 1 THEN ss[i] ELSE new[i - 1] \o ss[i]] = new
      BY <2>2, <2>3
    <2> HIDE DEF new
    <2>5. IsFlattened(new, ss, k + 1)
      BY <2>4 DEF IsFlattened
    <2>6. QED
      BY <2>5
  <1>3. n \in A
    <2> HIDE DEF A
    <2> QED
      BY <1>1, <1>2, SetInduction
  <1>4. QED
    BY <1>3

LEMMA ConcatKeeps ==
  ASSUME NEW S, NEW s \in Seq(S), NEW t \in Seq(S), NEW i \in 1..Len(s)
  PROVE  i <= Len(s \o t) /\ (s \o t)[i] = s[i]
  <1>1. Len(s) \in Nat /\ Len(t) \in Nat
    BY LenProperties
  <1>2. /\ Len(s \o t) = Len(s) + Len(t)
        /\ \A j \in 1..(Len(s) + Len(t)) :
             (s \o t)[j] = IF j <= Len(s) THEN s[j] ELSE t[j - Len(s)]
    BY ConcatProperties
  <1>3. i \in 1..(Len(s) + Len(t)) /\ i <= Len(s) /\ i <= Len(s) + Len(t)
    BY <1>1
  <1>4. QED
    BY <1>2, <1>3

\* The first i lists have one value each.
Singles(ss, i) == \A j \in 1..i : Len(ss[j]) = 1

\* Lists of values are put one after the other; single values keep their places as
\* long as there are only such before them.
LEMMA Flattened ==
  ASSUME NEW S, NEW n \in Nat, NEW ss \in [1..n -> Seq(S)]
  PROVE  /\ FlattenSeq(ss) \in Seq(S)
         /\ \A i \in 1..n : Singles(ss, i) =>
              i <= Len(FlattenSeq(ss)) /\ FlattenSeq(ss)[i] = ss[i][1]
  <1>1. ss \in Seq(Seq(S)) /\ Len(ss) = n
    <2>1. ss \in Seq(Seq(S))
      OBVIOUS
    <2>2. Len(ss) \in Nat /\ DOMAIN ss = 1..Len(ss) /\ DOMAIN ss = 1..n
      BY <2>1, LenProperties
    <2>3. QED
      BY <2>1, <2>2
  <1>2. CASE n = 0
    <2>1. ss = <<>> /\ FlattenSeq(ss) = ss
      BY <1>1, <1>2, EmptySeq DEF FlattenSeq
    <2>2. <<>> \in Seq(S) /\ 1..n = {}
      BY <1>2, EmptySeq
    <2>3. QED
      BY <1>2, <2>1, <2>2
  <1>3. CASE n # 0
    <2>1. PICK f : IsFlattened(f, ss, n) /\ FlattenSeq(ss) = f[n]
      BY <1>1, <1>3, FlattenedExists DEF IsFlattened, FlattenSeq
    <2>2. \A i \in 1..n : f[i] = IF i = 1 THEN ss[i] ELSE f[i - 1] \o ss[i]
      BY <2>1 DEF IsFlattened
    <2> DEFINE Right(k) == /\ f[k] \in Seq(S)
                           /\ Singles(ss, k) => Len(f[k]) = k
                           /\ \A i \in 1..k : Singles(ss, i) =>
                                i <= Len(f[k]) /\ f[k][i] = ss[i][1]
               A == {k \in Nat : k \in 1..n => Right(k)}
    <2>3. 0 \in A
      OBVIOUS
    <2> HIDE DEF Right
    <2>4. ASSUME NEW k \in Nat, k \in A PROVE k + 1 \in A
      <3> SUFFICES ASSUME k + 1 \in 1..n PROVE Right(k + 1)
        OBVIOUS
      <3>1. CASE k = 0
        <4>1. f[1] = ss[1] /\ ss[1] \in Seq(S)
          BY <2>2, <3>1
        <4>2. Singles(ss, 1) => Len(ss[1]) = 1
          BY DEF Singles
        <4>3. \A i \in 1..1 : i = 1
          OBVIOUS
        <4>4. QED
          BY <3>1, <4>1, <4>2, <4>3 DEF Right
      <3>2. CASE k # 0
        <4>1. k \in 1..n /\ k + 1 - 1 = k /\ k + 1 # 1 /\ Right(k)
          <5>1. k \in 1..n /\ k + 1 - 1 = k /\ k + 1 # 1
            BY <3>2
          <5>2. QED
            BY <2>4, <5>1
        <4>2. f[k + 1] = f[k] \o ss[k + 1] /\ f[k] \in Seq(S) /\ ss[k + 1] \in Seq(S)
          <5>1. ASSUME NEW j \in 1..n, j = k + 1 PROVE f[j] = f[k] \o ss[j]
            <6>1. j # 1 /\ j - 1 = k
              BY <3>2, <5>1
            <6>2. f[j] = f[j - 1] \o ss[j]
              BY <2>2, <6>1
            <6>3. QED
              BY <6>1, <6>2
          <5>2. QED
            BY <4>1, <5>1 DEF Right
        <4>3. f[k + 1] \in Seq(S)
          BY <4>2, ConcatProperties
        <4>4. ASSUME Singles(ss, k + 1)
              PROVE  Len(f[k + 1]) = k + 1 /\ f[k + 1][k + 1] = ss[k + 1][1]
          <5>1. \A j \in 1..k : j \in 1..(k + 1)
            OBVIOUS
          <5>2. Len(f[k]) = k
            BY <4>1, <4>4, <5>1 DEF Singles, Right
          <5>3. Len(ss[k + 1]) = 1
            BY <4>4 DEF Singles
          <5>4. /\ Len(f[k] \o ss[k + 1]) = Len(f[k]) + 1
                /\ (f[k] \o ss[k + 1])[Len(f[k]) + 1] = ss[k + 1][1]
            BY <4>2, <5>3, ConcatSingle
          <5>5. QED
            BY <4>2, <5>2, <5>4
        <4>5. ASSUME NEW i \in 1..k, Singles(ss, i)
              PROVE  i <= Len(f[k + 1]) /\ f[k + 1][i] = ss[i][1]
          <5>1. i <= Len(f[k]) /\ f[k][i] = ss[i][1]
            BY <4>1, <4>5 DEF Right
          <5>2. i \in 1..Len(f[k])
            BY <4>2, <5>1, LenProperties
          <5>3. i <= Len(f[k] \o ss[k + 1]) /\ (f[k] \o ss[k + 1])[i] = f[k][i]
            BY <4>2, <5>2, ConcatKeeps
          <5>4. QED
            BY <4>2, <5>1, <5>3
        <4>6. \A i \in 1..(k + 1) : i \in 1..k \/ i = k + 1
          OBVIOUS
        <4>7. ASSUME NEW i \in 1..(k + 1), Singles(ss, i)
              PROVE  i <= Len(f[k + 1]) /\ f[k + 1][i] = ss[i][1]
          <5>1. CASE i \in 1..k
            BY <4>5, <4>7, <5>1
          <5>2. CASE i = k + 1
            BY <4>4, <4>7, <5>2
          <5>3. QED
            BY <4>6, <5>1, <5>2
        <4>8. QED
          BY <4>3, <4>4, <4>7 DEF Right
      <3>3. QED
        BY <3>1, <3>2
    <2>5. n \in A
      <3> HIDE DEF A
      <3> QED
        BY <2>3, <2>4, SetInduction
    <2>6. QED
      BY <1>3, <2>1, <2>5 DEF Right
  <1>4. QED
    BY <1>2, <1>3

-----------------------------------------------------------------------------
(* The steps keep the invariant *)

LEMMA FrontIs ==
  ASSUME NEW S, NEW s \in Seq(S), s # <<>>
  PROVE  /\ Front(s) \in Seq(S) /\ Len(s) \in Nat \ {0} /\ Len(Front(s)) = Len(s) - 1
         /\ \A i \in 1..(Len(s) - 1) : Front(s)[i] = s[i]
         /\ Last(s) = s[Len(s)] /\ Last(s) \in S
  <1>1. Len(s) \in Nat \ {0}
    BY LenProperties, EmptySeq
  <1> DEFINE n == Len(s) - 1
  <1>2. n \in Int /\ n >= 0 /\ \A i \in 1..n : s[i] \in S
    BY <1>1, ElementOfSeq
  <1>3. /\ SubSeq(s, 1, n) \in Seq(S) /\ Len(SubSeq(s, 1, n)) = n
        /\ \A i \in 1..n : SubSeq(s, 1, n)[i] = s[i]
    <2> HIDE DEF n
    <2>1. /\ SubSeq(s, 1, n) \in Seq(S) /\ Len(SubSeq(s, 1, n)) = IF 1 <= n THEN n - 1 + 1 ELSE 0
          /\ \A i \in 1..(n - 1 + 1) : SubSeq(s, 1, n)[i] = s[1 + i - 1]
      BY <1>2, SubSeqProperties
    <2>2. n - 1 + 1 = n /\ \A i \in 1..n : 1 + i - 1 = i
      BY <1>2
    <2>3. Len(SubSeq(s, 1, n)) = n
      BY <1>2, <2>1
    <2>4. QED
      BY <2>1, <2>2, <2>3
  <1>4. s[Len(s)] \in S
    BY <1>1, ElementOfSeq
  <1>5. QED
    BY <1>1, <1>3, <1>4 DEF Front, Last

\* What Store does to the slots of a name: W is what it writes.
StoredAs(W, n, v) ==
  /\ Chain(W, depth, n)
  /\ globals' \in [Names -> Slots] /\ scopes' \in [1..MaxCalls -> Scope]
  /\ \A m \in Names : globals'[m] = IF <<0, m>> \in W THEN v ELSE globals[m]
  /\ \A d \in 1..MaxCalls :
       /\ scopes'[d].isLocal = scopes[d].isLocal
       /\ scopes'[d].captured = scopes[d].captured
       /\ scopes'[d].paramWB = scopes[d].paramWB
       /\ \A m \in Names :
            scopes'[d].locals[m] = IF <<d, m>> \in W THEN v ELSE scopes[d].locals[m]
       /\ scopes'[d].locals # scopes[d].locals => \E m \in Names : <<d, m>> \in W

LEMMA StoreFacts ==
  ASSUME IInv, NEW n \in Names, NEW v \in Values, Store(n, v)
  PROVE  \E W : StoredAs(W, n, v)
  <1> DEFINE W == Written(depth, n)
             locals(d) == [m \in Names |-> IF <<d, m>> \in W THEN v ELSE scopes[d].locals[m]]
  <1>0. depth \in Nat /\ depth \in 0..depth /\ v \in Slots
    BY BoundsAssumption DEF IInv, TypeInv, Slots
  <1>1. Chain(W, depth, n)
    BY <1>0, WrittenChain
  <1>2. globals \in [Names -> Slots] /\ scopes \in [1..MaxCalls -> Scope]
    BY DEF IInv, TypeInv
  <1>3. globals' = [m \in Names |-> IF <<0, m>> \in W THEN v ELSE globals[m]]
    BY DEF Store
  <1>4. scopes' = [d \in 1..MaxCalls |->
                     IF \E w \in W : w[1] = d THEN [scopes[d] EXCEPT !.locals = locals(d)]
                     ELSE scopes[d]]
    BY DEF Store
  <1> HIDE DEF W
  <1>5. globals' \in [Names -> Slots]
    BY <1>0, <1>2, <1>3
  <1>6. ASSUME NEW d \in 1..MaxCalls
        PROVE  /\ scopes'[d] \in Scope
               /\ scopes'[d].isLocal = scopes[d].isLocal
               /\ scopes'[d].captured = scopes[d].captured
               /\ scopes'[d].paramWB = scopes[d].paramWB
               /\ \A m \in Names :
                    scopes'[d].locals[m] = IF <<d, m>> \in W THEN v ELSE scopes[d].locals[m]
               /\ scopes'[d].locals # scopes[d].locals => \E m \in Names : <<d, m>> \in W
    <2>1. scopes[d] \in Scope
      BY <1>2
    <2>2. CASE \E w \in W : w[1] = d
      <3>1. scopes'[d] = [scopes[d] EXCEPT !.locals = locals(d)]
        BY <1>4, <2>2
      <3>2. locals(d) \in [Names -> Slots]
        BY <1>0, <2>1 DEF Scope
      <3>3. \A m \in Names : locals(d)[m] = IF <<d, m>> \in W THEN v ELSE scopes[d].locals[m]
        OBVIOUS
      <3>4. \E m \in Names : <<d, m>> \in W
        BY <1>1, <2>2 DEF Chain
      <3> HIDE DEF locals
      <3>5. scopes'[d].locals = locals(d)
        BY <2>1, <3>1 DEF Scope
      <3>6. QED
        BY <2>1, <3>1, <3>2, <3>3, <3>4, <3>5 DEF Scope
    <2>3. CASE ~\E w \in W : w[1] = d
      <3>1. scopes'[d] = scopes[d]
        BY <1>4, <2>3
      <3>2. \A m \in Names : <<d, m>> \notin W
        BY <2>3
      <3>3. QED
        BY <2>1, <3>1, <3>2
    <2>4. QED
      BY <2>2, <2>3
  <1>7. scopes' \in [1..MaxCalls -> Scope]
    BY <1>4, <1>6
  <1>8. QED
    BY <1>1, <1>3, <1>5, <1>6, <1>7 DEF StoredAs

\* A store keeps the invariant, whether or not a binder is left with it.
LEMMA StoreStep ==
  ASSUME IInv, NEW n \in Names, NEW v \in Values, Store(n, v), depth' = depth,
         binders' = binders \/ (binders # <<>> /\ binders' = Front(binders)), envs' = envs
  PROVE  IInv'
  <1> USE DEF IInv
  <1>1. PICK W : StoredAs(W, n, v)
    BY StoreFacts
  <1>2. depth \in Nat /\ depth <= MaxCalls /\ MaxCalls \in Nat /\ binders \in Seq(Binder)
    BY BoundsAssumption DEF TypeInv
  <1>3. /\ binders' \in Seq(Binder) /\ Len(binders') \in Nat /\ Len(binders') <= Len(binders)
        /\ \A i \in 1..Len(binders') : i \in 1..Len(binders) /\ binders'[i] = binders[i]
    <2>1. CASE binders' = binders
      BY <1>2, <2>1, LenProperties
    <2>2. CASE binders # <<>> /\ binders' = Front(binders)
      BY <1>2, <2>2, FrontIs
    <2>3. QED
      BY <2>1, <2>2
  <1>4. TypeInv'
    BY <1>1, <1>3 DEF TypeInv, StoredAs
  <1>5. OutwardInv'
    <2>1. \A d \in 1..depth : d \in 1..MaxCalls
      BY <1>2
    <2>2. QED
      BY <1>1, <2>1 DEF OutwardInv, Outward, StoredAs
  <1>6. BinderInv'
    <2>1. ASSUME NEW b \in Binder, FromThere(b, scopes) PROVE FromThere(b, scopes')
      <3>1. b.at > 0 => b.at \in 1..MaxCalls
        BY <1>2 DEF Binder
      <3>2. QED
        BY <1>1, <2>1, <3>1 DEF FromThere, StoredAs
    <2>2. \A i \in 1..Len(binders) : binders[i] \in Binder
      BY <1>2, ElementOfSeq
    <2>3. \A i \in 1..Len(binders') : binders'[i].at <= depth /\ FromThere(binders'[i], scopes')
      BY <1>3, <2>1, <2>2 DEF BinderInv
    <2>4. QED
      BY <1>3, <2>3 DEF BinderInv
  <1>7. HomeInv'
    <2>1. \A d \in 1..depth : d \in 1..MaxCalls
      BY <1>2
    <2>2. \A d \in 1..depth, m \in Names : <<d, m>> \in W => m \in scopes[d].isLocal
      BY <1>1 DEF StoredAs, Chain
    <2>3. QED
      BY <1>1, <2>1, <2>2 DEF HomeInv, Home, StoredAs
  <1>8. QED
    BY <1>4, <1>5, <1>6, <1>7

LEMMA LookupTypes ==
  ASSUME IInv, NEW d \in 0..depth, NEW n \in Names
  PROVE  LookupIn(d, n) \in Slots /\ EvalIn(d, n) \in Values
  <1>1. d = 0 \/ d \in 1..MaxCalls
    BY BoundsAssumption DEF IInv, TypeInv
  <1>2. LookupIn(d, n) \in Slots
    BY <1>1 DEF IInv, TypeInv, Scope, LookupIn, Free
  <1>3. QED
    BY <1>2 DEF EvalIn, Evaluated, Slots, Values

LEMMA ResolveTypes ==
  ASSUME IInv, NEW v \in Values
  PROVE  Resolve(v) \in Values
  BY DEF Resolve, Values

LEMMA StatementStep ==
  ASSUME IInv, NEW n \in Names,
         \/ \E v \in Given(n) : Assign(n, v) \/ ForStep(n, v)
         \/ \E t \in Objects : Vivify(n, t)
  PROVE  IInv'
  <1>1. PICK v \in Values : Store(n, v) /\ UNCHANGED <<depth, binders, envs>>
    <2>1. ASSUME NEW v \in Given(n), Assign(n, v) \/ ForStep(n, v)
          PROVE  \E w \in Values : Store(n, w) /\ UNCHANGED <<depth, binders, envs>>
      <3>1. v \in Values
        BY DEF Given, Values
      <3>2. QED
        BY <2>1, <3>1, ResolveTypes DEF Assign, ForStep
    <2>2. ASSUME NEW t \in Objects, Vivify(n, t)
          PROVE  \E w \in Values : Store(n, w) /\ UNCHANGED <<depth, binders, envs>>
      BY <2>2 DEF Vivify, Values
    <2>3. QED
      BY <2>1, <2>2
  <1>2. QED
    BY <1>1, StoreStep

LEMMA LastBinder ==
  ASSUME IInv, InBinder
  PROVE  /\ Last(binders) \in Binder /\ Last(binders).at = depth
         /\ Last(binders).var \in Names /\ Last(binders).old \in Slots
         /\ FromThere(Last(binders), scopes)
  <1>1. binders \in Seq(Binder) /\ binders # <<>>
    BY DEF IInv, TypeInv, InBinder
  <1>2. /\ Last(binders) \in Binder /\ Last(binders) = binders[Len(binders)]
        /\ Len(binders) \in Nat \ {0}
    BY <1>1, FrontIs
  <1>3. QED
    BY <1>2 DEF IInv, BinderInv, InBinder, Binder

\* What the deferred function stores.
Restored(b) == IF b.old = Unbound THEN b.var ELSE b.old

LEMMA BinderStep ==
  ASSUME IInv, EndBinder \/ \E v \in Objects \cup Plain : Iterate(v)
  PROVE  IInv'
  <1>1. ASSUME NEW v \in Objects \cup Plain, Iterate(v) PROVE IInv'
    <2>1. v \in Values
      BY DEF Values
    <2>2. QED
      BY <1>1, <2>1, LastBinder, StoreStep DEF Iterate
  <1>2. CASE EndBinder
    <2>1. /\ InBinder /\ Store(Last(binders).var, Restored(Last(binders)))
          /\ binders' = Front(binders) /\ UNCHANGED <<depth, envs>>
      BY <1>2 DEF EndBinder, Restored
    <2>2. Restored(Last(binders)) \in Values /\ Last(binders).var \in Names /\ binders # <<>>
      BY <2>1, LastBinder DEF Restored, Slots, Values, InBinder
    <2>3. QED
      BY <2>1, <2>2, StoreStep
  <1>3. QED
    BY <1>1, <1>2

LEMMA BeginBinderStep ==
  ASSUME IInv, NEW n \in Names, BeginBinder(n)
  PROVE  IInv'
  <1> USE DEF IInv
  <1> DEFINE b == [at |-> depth, var |-> n, old |-> Lookup(n)]
  <1>1. binders' = Append(binders, b) /\ UNCHANGED <<globals, scopes, depth, envs>>
    BY DEF BeginBinder
  <1>2. depth \in Nat /\ depth \in 0..MaxCalls /\ binders \in Seq(Binder)
    BY BoundsAssumption DEF TypeInv
  <1>3. b \in Binder /\ b.at = depth
    BY <1>2, LookupTypes DEF Binder, Lookup
  <1>4. FromThere(b, scopes)
    BY DEF FromThere, Lookup, LookupIn, Free
  <1> HIDE DEF b
  <1>5. /\ binders' \in Seq(Binder) /\ Len(binders') = Len(binders) + 1 /\ Len(binders) \in Nat
        /\ \A i \in 1..Len(binders) : binders'[i] = binders[i]
        /\ binders'[Len(binders) + 1] = b
    BY <1>1, <1>2, <1>3, AppendProperties, LenProperties
  <1>6. \A i \in 1..Len(binders') : i \in 1..Len(binders) \/ i = Len(binders')
    BY <1>5
  <1>7. TypeInv' /\ OutwardInv' /\ HomeInv'
    BY <1>1, <1>5 DEF TypeInv, OutwardInv, HomeInv
  <1>8. BinderInv'
    <2>1. \A i \in 1..Len(binders') : binders'[i].at <= depth /\ FromThere(binders'[i], scopes)
      BY <1>2, <1>3, <1>4, <1>5, <1>6 DEF BinderInv
    <2>2. ASSUME NEW i \in 1..Len(binders'), NEW j \in 1..Len(binders'), i <= j
          PROVE  binders'[i].at <= binders'[j].at
      <3>1. CASE j = Len(binders')
        BY <1>3, <1>5, <2>1, <3>1
      <3>2. CASE j \in 1..Len(binders)
        <4>1. i \in 1..Len(binders)
          BY <1>5, <2>2, <3>2
        <4>2. QED
          BY <1>5, <2>2, <3>2, <4>1 DEF BinderInv
      <3>3. QED
        BY <1>6, <3>1, <3>2
    <2>3. QED
      BY <1>1, <2>1, <2>2 DEF BinderInv
  <1>9. QED
    BY <1>7, <1>8

LEMMA ClosureStep ==
  ASSUME IInv, MakeClosure
  PROVE  IInv'
  <1> USE DEF IInv
  <1>1. /\ envs' = envs \cup {CaptureEnv} /\ depth > 0
        /\ UNCHANGED <<globals, scopes, depth, binders>>
    BY DEF MakeClosure
  <1>2. depth \in 1..MaxCalls
    BY <1>1, BoundsAssumption DEF TypeInv
  <1>3. CaptureEnv \in [Names -> Slots]
    BY <1>2 DEF TypeInv, Scope, CaptureEnv
  <1>4. QED
    BY <1>1, <1>3 DEF TypeInv, OutwardInv, HomeInv, BinderInv

LEMMA SpreadTypes ==
  ASSUME NEW v \in Values
  PROVE  Spread(v) \in Seq(Values) /\ (v \in Objects => Spread(v) = <<v>>)
  <1>1. CASE v \in DOMAIN Items
    <2>1. Items[v] \in Seq(Values \ DOMAIN Items)
      BY <1>1, ItemsAssumption DEF Values
    <2>2. Items[v] \in Seq(Values)
      <3>1. \A T : T \subseteq Values => Seq(T) \subseteq Seq(Values)
        OBVIOUS
      <3>2. QED
        BY <2>1, <3>1
    <2>3. v \notin Objects
      BY <1>1, ItemsAssumption, NamesAssumption
    <2>4. QED
      BY <1>1, <2>2, <2>3 DEF Spread
  <1>2. CASE v \notin DOMAIN Items
    BY <1>2 DEF Spread
  <1>3. QED
    BY <1>1, <1>2

LEMMA ArgumentTypes ==
  ASSUME IInv, NEW a \in Arguments
  PROVE  /\ a.name \in Names \cup {Unbound} /\ a.values \in Seq(Values)
         /\ (a.name # Unbound /\ Lookup(a.name) \in Objects) =>
              a.values = <<Lookup(a.name)>>
  <1>0. depth \in 0..depth /\ Unbound \notin Names
    BY BoundsAssumption, NamesAssumption DEF IInv, TypeInv
  <1>1. \/ \E n \in Names : a = [name |-> n, values |-> Spread(Resolve(EvalIn(depth, n)))]
        \/ \E vs \in Seq(Values) : a = [name |-> Unbound, values |-> vs]
    <2>1. \A T : \A vs \in BoundedSeq(T, MaxItems) : T \subseteq Values => vs \in Seq(Values)
      BY DEF BoundedSeq, SeqOf
    <2>2. QED
      BY <2>1 DEF Arguments
  <1>2. CASE \E n \in Names : a = [name |-> n, values |-> Spread(Resolve(EvalIn(depth, n)))]
    <2>1. PICK n \in Names : a = [name |-> n, values |-> Spread(Resolve(EvalIn(depth, n)))]
      BY <1>2
    <2>2. Resolve(EvalIn(depth, n)) \in Values
      BY <1>0, LookupTypes, ResolveTypes
    <2>3. ASSUME Lookup(n) \in Objects PROVE Resolve(EvalIn(depth, n)) = Lookup(n)
      BY <2>3 DEF EvalIn, Evaluated, Resolve, Lookup
    <2> DEFINE v == Resolve(EvalIn(depth, n))
    <2>4. a.name = n /\ a.values = Spread(v)
      BY <2>1
    <2>5. v \in Values /\ (Lookup(n) \in Objects => v = Lookup(n))
      BY <2>2, <2>3
    <2> HIDE DEF v
    <2>6. QED
      BY <2>4, <2>5, SpreadTypes
  <1>3. CASE \E vs \in Seq(Values) : a = [name |-> Unbound, values |-> vs]
    BY <1>3
  <1>4. QED
    BY <1>1, <1>2, <1>3

\* Parameters and arguments of a call, by position.
LEMMA ListTypes ==
  ASSUME NEW params \in Params, NEW args \in ArgLists(params)
  PROVE  \E m, k \in Nat : /\ params \in [1..m -> Names] /\ IsInjective(params)
                           /\ args \in [1..k -> Arguments] /\ k <= m
  <1>1. params \in BoundedSeq(Names, MaxArgs) /\ IsInjective(params)
    BY DEF Params
  <1>2. PICK m \in Nat : params \in [1..m -> Names]
    BY <1>1 DEF BoundedSeq, SeqOf
  <1>3. Len(params) = m
    <2>1. params \in Seq(Names)
      BY <1>2
    <2>2. Len(params) \in Nat /\ DOMAIN params = 1..Len(params) /\ DOMAIN params = 1..m
      BY <1>2, <2>1, LenProperties
    <2>3. ASSUME NEW l \in Nat, 1..l = 1..m PROVE l = m
      BY <2>3
    <2>4. QED
      BY <2>2, <2>3
  <1>4. PICK k \in 0..m : args \in [1..k -> Arguments]
    BY <1>3 DEF ArgLists, BoundedSeq, SeqOf
  <1>5. k \in Nat /\ k <= m
    OBVIOUS
  <1>6. QED
    BY <1>1, <1>2, <1>4, <1>5

\* What a call makes of its arguments: by-reference targets are names of the caller,
\* and an argument with only single values before it reaches its own parameter.
LEMMA CallFacts ==
  ASSUME IInv, NEW params \in Params, NEW args \in ArgLists(params)
  PROVE  /\ ToSet(params) \subseteq Names
         /\ Bound(params, args) \in [Names -> Slots]
         /\ \A p \in Names : Bound(params, args)[p] # Unbound => p \in ToSet(params)
         /\ Wired(params, args) \in [Names -> Target]
         /\ \A p \in Names : Wired(params, args)[p] # NoTarget =>
              Wired(params, args)[p].sc = depth /\ Wired(params, args)[p].name \in Names
         /\ \A i \in DOMAIN args :
              /\ params[i] \in Names /\ args[i] \in Arguments
              /\ Wired(params, args)[params[i]] = Writeback(args[i])
              /\ (\A j \in 1..i : Len(args[j].values) = 1) =>
                   Bound(params, args)[params[i]] = args[i].values[1]
  <1> DEFINE ss == [i \in DOMAIN args |-> args[i].values]
             flat == FlattenSeq(ss)
  <1>1. PICK m \in Nat, k \in Nat : /\ params \in [1..m -> Names] /\ IsInjective(params)
                                    /\ args \in [1..k -> Arguments] /\ k <= m
    BY ListTypes
  <1>2. /\ ss \in [1..k -> Seq(Values)] /\ \A i \in 1..k : ss[i] = args[i].values
    BY <1>1, ArgumentTypes
  <1>3. /\ flat \in Seq(Values)
        /\ \A i \in 1..k : Singles(ss, i) => i <= Len(flat) /\ flat[i] = ss[i][1]
    <2> HIDE DEF ss
    <2> QED
      BY <1>2, Flattened
  <1>4. Len(flat) \in Nat /\ \A i \in 1..m : i <= Len(flat) => flat[i] \in Values
    <2> HIDE DEF flat
    <2>1. Len(flat) \in Nat /\ \A i \in 1..Len(flat) : flat[i] \in Values
      BY <1>3, LenProperties, ElementOfSeq
    <2>2. QED
      BY <2>1
  <1> DEFINE at(p) == CHOOSE i \in DOMAIN params : params[i] = p
  <1>5. ASSUME NEW p \in Names, \E i \in DOMAIN params : params[i] = p
        PROVE  at(p) \in 1..m /\ \A i \in 1..m : params[i] = p => i = at(p)
    <2>1. at(p) \in 1..m /\ params[at(p)] = p
      BY <1>1, <1>5
    <2> HIDE DEF at
    <2>2. QED
      BY <1>1, <2>1 DEF IsInjective
  <1>6. Bound(params, args) =
          [p \in Names |-> IF \E i \in DOMAIN params : params[i] = p
                             THEN IF at(p) <= Len(flat) THEN flat[at(p)] ELSE p
                             ELSE Unbound]
    BY DEF Bound
  <1>7. Wired(params, args) =
          [p \in Names |-> IF \E i \in DOMAIN params \cap DOMAIN args : params[i] = p
                             THEN Writeback(args[at(p)]) ELSE NoTarget]
    BY DEF Wired
  <1> HIDE DEF flat, ss, at
  <1>8. /\ ToSet(params) \subseteq Names
        /\ \A p \in Names : Bound(params, args)[p] # Unbound => p \in ToSet(params)
    BY <1>1, <1>6 DEF ToSet
  <1>9. Bound(params, args) \in [Names -> Slots]
    <2>1. Values \subseteq Slots /\ Names \subseteq Slots /\ Unbound \in Slots
      BY DEF Slots, Values
    <2>2. QED
      BY <1>4, <1>5, <1>6, <2>1
  <1>10. ASSUME NEW i \in 1..k
         PROVE  /\ i \in 1..m /\ params[i] \in Names /\ args[i] \in Arguments
                /\ i \in DOMAIN params \cap DOMAIN args /\ at(params[i]) = i
    <2>1. i \in 1..m
      BY <1>1
    <2>2. QED
      BY <1>1, <1>5, <2>1
  <1>11. ASSUME NEW i \in 1..k
         PROVE  /\ Wired(params, args)[params[i]] = Writeback(args[i])
                /\ (\A j \in 1..i : Len(args[j].values) = 1) =>
                     Bound(params, args)[params[i]] = args[i].values[1]
    <2>1. Wired(params, args)[params[i]] = Writeback(args[i])
      BY <1>7, <1>10
    <2>2. ASSUME \A j \in 1..i : Len(args[j].values) = 1
          PROVE  Bound(params, args)[params[i]] = args[i].values[1]
      <3>1. \A j \in 1..i : j \in 1..k
        BY <1>1
      <3>2. Singles(ss, i)
        BY <1>2, <2>2, <3>1 DEF Singles
      <3>3. i <= Len(flat) /\ flat[i] = args[i].values[1]
        BY <1>2, <1>3, <3>2
      <3>4. QED
        BY <1>6, <1>10, <3>3
    <2>3. QED
      BY <2>1, <2>2
  <1>12. ASSUME NEW p \in Names, Wired(params, args)[p] # NoTarget
         PROVE  /\ \E n \in Names : Wired(params, args)[p] = [sc |-> depth, name |-> n]
                /\ Wired(params, args)[p].sc = depth /\ Wired(params, args)[p].name \in Names
    <2>1. PICK i \in 1..k : params[i] = p
      BY <1>1, <1>7, <1>12
    <2>2. Writeback(args[i]) # NoTarget
      BY <1>11, <1>12, <2>1
    <2>3. args[i].name # Unbound /\ Writeback(args[i]) = [sc |-> depth, name |-> args[i].name]
      BY <2>2 DEF Writeback
    <2>4. args[i].name \in Names
      BY <1>10, <2>3, ArgumentTypes
    <2>5. Wired(params, args)[p] = [sc |-> depth, name |-> args[i].name]
      BY <1>11, <2>1, <2>3
    <2>6. QED
      BY <2>4, <2>5
  <1>13. Wired(params, args) \in [Names -> Target]
    <2>1. NoTarget \in Target /\ depth \in 0..MaxCalls
      BY BoundsAssumption DEF NoTarget, Target, IInv, TypeInv
    <2>2. ASSUME NEW p \in Names PROVE Wired(params, args)[p] \in Target
      <3>1. CASE Wired(params, args)[p] = NoTarget
        BY <2>1, <3>1
      <3>2. CASE Wired(params, args)[p] # NoTarget
        <4>1. PICK n \in Names : Wired(params, args)[p] = [sc |-> depth, name |-> n]
          BY <1>12, <3>2
        <4>2. QED
          BY <2>1, <4>1 DEF Target
      <3>3. QED
        BY <3>1, <3>2
    <2>3. DOMAIN Wired(params, args) = Names
            /\ Wired(params, args) = [p \in Names |-> Wired(params, args)[p]]
      BY <1>7
    <2>4. QED
      BY <2>2, <2>3
  <1>14. DOMAIN args = 1..k
    BY <1>1
  <1>15. \A p \in Names : Wired(params, args)[p] # NoTarget =>
           Wired(params, args)[p].sc = depth /\ Wired(params, args)[p].name \in Names
    BY <1>12
  <1>16. QED
    BY <1>8, <1>9, <1>10, <1>11, <1>13, <1>14, <1>15

LEMMA CallStep ==
  ASSUME IInv, NEW params \in Params, NEW args \in ArgLists(params),
         NEW locals \in SUBSET (Names \ ToSet(params)), NEW env \in envs \cup {NoBindings},
         Call(params, locals, env, args)
  PROVE  IInv'
  <1> DEFINE s == [isLocal |-> ToSet(params) \cup locals,
                   isGlobal |-> IF Declares THEN Names \ (ToSet(params) \cup locals) ELSE {},
                   locals |-> Bound(params, args), captured |-> env,
                   paramWB |-> Wired(params, args)]
  <1>1. /\ depth < MaxCalls /\ depth' = depth + 1 /\ UNCHANGED <<globals, binders, envs>>
        /\ scopes' = [scopes EXCEPT ![depth + 1] = s]
    BY DEF Call
  <1>2. /\ globals \in [Names -> Slots] /\ scopes \in [1..MaxCalls -> Scope]
        /\ depth \in 0..MaxCalls /\ binders \in Seq(Binder) /\ envs \subseteq [Names -> Slots]
    BY DEF IInv, TypeInv
  <1>3. depth \in Nat /\ MaxCalls \in Nat /\ depth + 1 \in 1..MaxCalls /\ depth + 1 \in 0..MaxCalls
    BY <1>1, <1>2, BoundsAssumption
  <1>4. env \in [Names -> Slots]
    BY <1>2 DEF NoBindings, Slots
  <1>5. s \in Scope
    BY <1>4, CallFacts DEF Scope
  <1>6. \A p \in Names : s.paramWB[p] # NoTarget =>
          s.paramWB[p].sc = depth /\ s.paramWB[p].name \in Names
    BY CallFacts
  <1> HIDE DEF s
  <1>7. /\ scopes' \in [1..MaxCalls -> Scope] /\ scopes'[depth + 1] = s
        /\ \A d \in 0..depth : scopes'[d] = scopes[d]
    <2>1. \A d \in 0..depth : d # depth + 1
      BY <1>3
    <2>2. \A d : d # depth + 1 => scopes'[d] = scopes[d]
      BY <1>1, <1>2
    <2>3. QED
      BY <1>1, <1>2, <1>3, <1>5, <2>1, <2>2
  <1>8. TypeInv'
    BY <1>1, <1>2, <1>3, <1>7 DEF TypeInv
  <1>9. OutwardInv'
    <2>1. ASSUME NEW d \in 1..(depth + 1) PROVE Outward(scopes'[d], d)
      <3>1. CASE d \in 1..depth
        BY <1>7, <3>1 DEF IInv, OutwardInv
      <3>2. CASE d = depth + 1
        <4>1. depth \in 0..(d - 1)
          BY <1>3, <3>2
        <4>2. QED
          BY <1>6, <1>7, <3>2, <4>1 DEF Outward
      <3>3. QED
        BY <1>3, <3>1, <3>2
    <2>2. QED
      BY <1>1, <2>1 DEF OutwardInv
  <1>10. HomeInv'
    <2>1. Home(s)
      <3>1. s.locals = Bound(params, args) /\ ToSet(params) \subseteq s.isLocal
        BY DEF s
      <3>2. \A n \in Names : Bound(params, args)[n] # Unbound => n \in ToSet(params)
        BY CallFacts
      <3>3. QED
        BY <3>1, <3>2 DEF Home
    <2>2. \A d \in 1..(depth + 1) : d \in 1..depth \/ d = depth + 1
      BY <1>3
    <2>3. \A d \in 1..(depth + 1) : Home(scopes'[d])
      BY <1>7, <2>1, <2>2 DEF IInv, HomeInv
    <2>4. QED
      BY <1>1, <2>3 DEF HomeInv, Home
  <1>11. BinderInv'
    <2>1. ASSUME NEW i \in 1..Len(binders)
          PROVE  binders[i].at <= depth + 1 /\ FromThere(binders[i], scopes')
      <3>1. binders[i] \in Binder /\ binders[i].at <= depth /\ FromThere(binders[i], scopes)
        BY <1>2, ElementOfSeq DEF IInv, BinderInv
      <3>2. binders[i].at \in 0..depth
        BY <1>3, <3>1 DEF Binder
      <3>3. binders[i].at <= depth + 1
        BY <1>3, <3>2
      <3>4. QED
        BY <1>7, <3>1, <3>2, <3>3 DEF FromThere
    <2>2. QED
      BY <1>1, <2>1 DEF IInv, BinderInv
  <1>12. QED
    BY <1>8, <1>9, <1>10, <1>11 DEF IInv

LEMMA NoScopeType == NoBindings \in [Names -> Slots] /\ NoScope \in Scope
  <1>1. NoBindings \in [Names -> Slots]
    BY DEF NoBindings, Slots
  <1>2. NoTarget \in Target
    BY BoundsAssumption DEF NoTarget, Target
  <1>3. QED
    BY <1>1, <1>2 DEF NoScope, Scope

LEMMA LeaveStep ==
  ASSUME IInv, Leave
  PROVE  IInv'
  <1>1. /\ depth > 0 /\ depth' = depth - 1 /\ UNCHANGED <<globals, binders, envs>>
        /\ scopes' = [scopes EXCEPT ![depth] = NoScope]
        /\ binders # <<>> => Last(binders).at < depth
    BY DEF Leave
  <1>2. /\ globals \in [Names -> Slots] /\ scopes \in [1..MaxCalls -> Scope]
        /\ depth \in 0..MaxCalls /\ binders \in Seq(Binder) /\ envs \subseteq [Names -> Slots]
    BY DEF IInv, TypeInv
  <1>3. depth \in Nat /\ MaxCalls \in Nat /\ depth \in 1..MaxCalls /\ depth - 1 \in 0..MaxCalls
    BY <1>1, <1>2, BoundsAssumption
  <1>4. NoScope \in Scope
    BY NoScopeType
  <1>5. /\ scopes' \in [1..MaxCalls -> Scope]
        /\ \A d \in 0..(depth - 1) : scopes'[d] = scopes[d]
    <2>1. \A d \in 0..(depth - 1) : d # depth
      BY <1>3
    <2>2. \A d : d # depth => scopes'[d] = scopes[d]
      BY <1>1, <1>2
    <2>3. QED
      BY <1>1, <1>2, <1>3, <1>4, <2>1, <2>2
  <1>6. TypeInv'
    BY <1>1, <1>2, <1>3, <1>5 DEF TypeInv
  <1>7. OutwardInv' /\ HomeInv'
    <2>1. \A d \in 1..(depth - 1) : d \in 1..depth /\ d \in 0..(depth - 1)
      BY <1>3
    <2>2. QED
      BY <1>1, <1>5, <2>1 DEF IInv, OutwardInv, HomeInv, Home
  <1>8. BinderInv'
    <2>1. ASSUME NEW i \in 1..Len(binders)
          PROVE  binders[i].at <= depth - 1 /\ FromThere(binders[i], scopes')
      <3>1. Len(binders) \in Nat /\ binders # <<>>
        BY <1>2, LenProperties, EmptySeq
      <3>2. Last(binders) = binders[Len(binders)] /\ Last(binders).at < depth
        BY <1>1, <1>2, <3>1, FrontIs
      <3>3. binders[i].at <= Last(binders).at
        BY <3>1, <3>2 DEF IInv, BinderInv
      <3>4. binders[i] \in Binder /\ Last(binders) \in Binder /\ FromThere(binders[i], scopes)
        BY <1>2, <3>1, FrontIs, ElementOfSeq DEF IInv, BinderInv
      <3>5. binders[i].at \in 0..(depth - 1)
        BY <1>3, <3>2, <3>3, <3>4 DEF Binder
      <3>6. binders[i].at <= depth - 1
        BY <1>3, <3>5
      <3>7. QED
        BY <1>5, <3>4, <3>5, <3>6 DEF FromThere
    <2>2. QED
      BY <1>1, <2>1 DEF IInv, BinderInv
  <1>9. QED
    BY <1>6, <1>7, <1>8 DEF IInv

LEMMA InitIsSound == Init => IInv
  <1> SUFFICES ASSUME Init PROVE IInv
    OBVIOUS
  <1>1. MaxCalls \in Nat /\ depth = 0 /\ binders = <<>> /\ 1..depth = {}
    BY BoundsAssumption DEF Init
  <1>2. NoBindings \in [Names -> Slots] /\ NoScope \in Scope
    BY NoScopeType
  <1>4. TypeInv
    BY <1>1, <1>2, EmptySeq DEF Init, TypeInv
  <1>5. Len(binders) = 0 /\ 1..Len(binders) = {}
    BY <1>1, EmptySeq
  <1>6. QED
    BY <1>1, <1>4, <1>5 DEF IInv, OutwardInv, HomeInv, BinderInv

LEMMA NextIsSound == IInv /\ [Next]_vars => IInv'
  <1> SUFFICES ASSUME IInv, [Next]_vars PROVE IInv'
    OBVIOUS
  <1>1. ASSUME NEW n \in Names,
               \/ \E v \in Given(n) : Assign(n, v) \/ ForStep(n, v)
               \/ \E t \in Objects : Vivify(n, t)
        PROVE  IInv'
    BY <1>1, StatementStep
  <1>2. ASSUME NEW n \in Names, BeginBinder(n) PROVE IInv'
    BY <1>2, BeginBinderStep
  <1>3. CASE MakeClosure
    BY <1>3, ClosureStep
  <1>4. ASSUME NEW params \in Params, NEW args \in ArgLists(params),
               NEW locals \in SUBSET (Names \ ToSet(params)),
               NEW env \in envs \cup {NoBindings}, Call(params, locals, env, args)
        PROVE  IInv'
    BY <1>4, CallStep
  <1>5. CASE Leave
    BY <1>5, LeaveStep
  <1>6. CASE EndBinder \/ \E v \in Objects \cup Plain : Iterate(v)
    BY <1>6, BinderStep
  <1>7. CASE UNCHANGED vars
    BY <1>7 DEF vars, IInv, TypeInv, OutwardInv, HomeInv, BinderInv
  <1>8. QED
    BY <1>1, <1>2, <1>3, <1>4, <1>5, <1>6, <1>7 DEF Next

\* Scopes, bindings and binders are what env.go builds them to be: a by-reference
\* target is a name of a scope further out, only local names have a value, and a
\* binder is left in the scope it was begun in, with the value that scope gave
\* its variable.
THEOREM ScopesAreSound == Spec => []IInv
  <1>1. QED
    BY InitIsSound, NextIsSound, PTL DEF Spec

-----------------------------------------------------------------------------
(* What a step may do to the slots and the binders *)

\* A store, which may leave a binder; a step that touches no slot and leaves no
\* binder; a call; the return from one.
LEMMA StepKinds ==
  ASSUME IInv, [Next]_vars
  PROVE  \/ \E W : \E n \in Names, v \in Values :
              StoredAs(W, n, v) /\ depth' = depth /\ (binders' = binders \/ EndBinder)
         \/ UNCHANGED <<globals, scopes, depth>> /\ Len(binders') >= Len(binders)
         \/ \E params \in Params : \E args \in ArgLists(params),
               locals \in SUBSET (Names \ ToSet(params)), env \in envs \cup {NoBindings} :
              Call(params, locals, env, args)
         \/ Leave
  <1> DEFINE Stores == \E W : \E n \in Names, v \in Values :
                         /\ StoredAs(W, n, v) /\ depth' = depth
                         /\ binders' = binders \/ EndBinder
             Keeps == UNCHANGED <<globals, scopes, depth>> /\ Len(binders') >= Len(binders)
  <1>1. Len(binders) \in Nat /\ binders \in Seq(Binder)
    BY LenProperties DEF IInv, TypeInv
  <1>2. ASSUME NEW n \in Names, NEW v \in Values, Store(n, v), depth' = depth,
               binders' = binders \/ EndBinder
        PROVE  Stores
    BY <1>2, StoreFacts
  <1>3. ASSUME NEW n \in Names, NEW v \in Given(n), Assign(n, v) \/ ForStep(n, v)
        PROVE  Stores
    <2>1. v \in Values /\ Resolve(v) \in Values
      BY ResolveTypes DEF Given, Values
    <2> HIDE DEF Stores
    <2>2. QED
      BY <1>2, <1>3, <2>1 DEF Assign, ForStep
  <1>4. ASSUME NEW n \in Names, NEW t \in Objects, Vivify(n, t) PROVE Stores
    <2>1. t \in Values
      BY DEF Values
    <2> HIDE DEF Stores
    <2>2. QED
      BY <1>2, <1>4, <2>1 DEF Vivify
  <1>5. ASSUME NEW v \in Objects \cup Plain, Iterate(v) PROVE Stores
    <2>1. v \in Values /\ InBinder /\ Last(binders).var \in Names
      BY <1>5, LastBinder DEF Iterate, Values
    <2> HIDE DEF Stores
    <2>2. QED
      BY <1>2, <1>5, <2>1 DEF Iterate
  <1>6. ASSUME EndBinder PROVE Stores
    <2>1. InBinder /\ Store(Last(binders).var, Restored(Last(binders))) /\ depth' = depth
      BY <1>6 DEF EndBinder, Restored
    <2>2. Restored(Last(binders)) \in Values /\ Last(binders).var \in Names
      BY <2>1, LastBinder DEF Restored, Slots, Values
    <2> HIDE DEF Stores
    <2>3. QED
      BY <1>2, <1>6, <2>1, <2>2
  <1>7. ASSUME NEW n \in Names, BeginBinder(n) PROVE Keeps
    <2>1. /\ UNCHANGED <<globals, scopes, depth>>
          /\ binders' = Append(binders, [at |-> depth, var |-> n, old |-> Lookup(n)])
      BY <1>7 DEF BeginBinder
    <2>2. [at |-> depth, var |-> n, old |-> Lookup(n)] \in Binder
      BY LookupTypes, BoundsAssumption DEF IInv, TypeInv, Binder, Lookup
    <2>3. Len(binders') = Len(binders) + 1
      BY <1>1, <2>1, <2>2, AppendProperties
    <2>4. QED
      BY <1>1, <2>1, <2>3
  <1>8. ASSUME MakeClosure PROVE Keeps
    BY <1>1, <1>8 DEF MakeClosure
  <1>9. ASSUME UNCHANGED vars PROVE Keeps
    BY <1>1, <1>9 DEF vars
  <1> HIDE DEF Stores, Keeps
  <1>10. \/ Stores \/ Keeps \/ Leave
         \/ \E params \in Params : \E args \in ArgLists(params),
               locals \in SUBSET (Names \ ToSet(params)), env \in envs \cup {NoBindings} :
              Call(params, locals, env, args)
    BY <1>3, <1>4, <1>5, <1>6, <1>7, <1>8, <1>9 DEF Next
  <1>11. QED
    BY <1>10 DEF Stores, Keeps

\* A call touches no slot of the active scopes, a return none of those that stay.
LEMMA CallsKeep ==
  ASSUME IInv, \/ Leave
               \/ \E params \in Params : \E args \in ArgLists(params),
                    locals \in SUBSET (Names \ ToSet(params)), env \in envs \cup {NoBindings} :
                    Call(params, locals, env, args)
  PROVE  /\ UNCHANGED <<globals, binders>>
         /\ \A d \in 1..depth : d <= depth' => scopes'[d] = scopes[d]
         /\ \A d \in 1..(depth - 1) : scopes'[d] = scopes[d]
  <1>1. depth \in Nat /\ scopes \in [1..MaxCalls -> Scope]
    BY BoundsAssumption DEF IInv, TypeInv
  <1>2. CASE Leave
    <2>1. UNCHANGED <<globals, binders>> /\ depth' = depth - 1
      BY <1>2 DEF Leave
    <2>2. \A d : d # depth => scopes'[d] = scopes[d]
      BY <1>1, <1>2 DEF Leave
    <2>3. \A d \in 1..depth : d <= depth - 1 => d # depth
      BY <1>1
    <2>4. \A d \in 1..(depth - 1) : d # depth
      BY <1>1
    <2>5. QED
      BY <2>1, <2>2, <2>3, <2>4
  <1>3. ASSUME NEW params \in Params, NEW args \in ArgLists(params),
               NEW locals \in SUBSET (Names \ ToSet(params)),
               NEW env \in envs \cup {NoBindings}, Call(params, locals, env, args)
        PROVE  /\ UNCHANGED <<globals, binders>>
               /\ \A d \in 1..depth : scopes'[d] = scopes[d]
    <2>1. UNCHANGED <<globals, binders>>
      BY <1>3 DEF Call
    <2>2. \A d : d # depth + 1 => scopes'[d] = scopes[d]
      BY <1>1, <1>3 DEF Call
    <2>3. \A d \in 1..depth : d # depth + 1
      BY <1>1
    <2>4. QED
      BY <2>1, <2>2, <2>3
  <1>4. \A d \in 1..(depth - 1) : d \in 1..depth
    BY <1>1
  <1>5. QED
    BY <1>2, <1>3, <1>4

-----------------------------------------------------------------------------
(* The action properties *)

\* A local of a caller changes only together with a parameter bound to it.
THEOREM LocalsOfCallersAreKept == Spec => CallerLocalsKept
  <1>1. ASSUME IInv, [Next]_vars, NEW d \in 1..(depth - 1), NEW n \in Names,
               scopes'[d].locals[n] # scopes[d].locals[n]
        PROVE  \E e \in (d + 1)..depth, p \in Names :
                 /\ scopes[e].paramWB[p] = [sc |-> d, name |-> n]
                 /\ scopes'[e].locals[p] = scopes'[d].locals[n]
    <2>1. depth \in Nat /\ depth <= MaxCalls /\ MaxCalls \in Nat
      BY <1>1, BoundsAssumption DEF IInv, TypeInv
    <2>2. scopes' # scopes /\ scopes'[d] # scopes[d]
      BY <1>1
    <2>3. PICK W : \E m \in Names, v \in Values : StoredAs(W, m, v)
      BY <1>1, <2>2, StepKinds, CallsKeep
    <2>4. PICK m \in Names, v \in Values : StoredAs(W, m, v)
      BY <2>3
    <2>5. d \in 1..MaxCalls
      BY <2>1
    <2>6. <<d, n>> \in W /\ scopes'[d].locals[n] = v
      BY <1>1, <2>4, <2>5 DEF StoredAs
    <2>7. PICK e \in (d + 1)..depth, p \in Names :
            <<e, p>> \in W /\ scopes[e].paramWB[p] = [sc |-> d, name |-> n]
      BY <2>4, <2>6 DEF StoredAs, Chain
    <2>8. e \in 1..MaxCalls
      BY <2>1, <2>5
    <2>9. scopes'[e].locals[p] = v
      BY <2>4, <2>7, <2>8 DEF StoredAs
    <2>10. QED
      BY <2>6, <2>7, <2>9
  <1>2. IInv /\ [Next]_vars =>
          [\A d \in 1..(depth - 1) :
             scopes'[d].locals # scopes[d].locals =>
               \A n \in Names :
                 scopes'[d].locals[n] # scopes[d].locals[n] =>
                   \E e \in (d + 1)..depth, p \in Names :
                     /\ scopes[e].paramWB[p] = [sc |-> d, name |-> n]
                     /\ scopes'[e].locals[p] = scopes'[d].locals[n]]_vars
    BY <1>1
  <1>3. QED
    BY <1>2, ScopesAreSound, PTL DEF Spec, CallerLocalsKept

\* What changes a parameter bound by reference shows in the name it is bound to.
THEOREM WritesReachTheCaller == Spec => WriteReachesCaller
  <1>1. ASSUME IInv, [Next]_vars, NEW d \in 1..depth, d <= depth',
               NEW p \in Names, NEW n \in Names, NEW e \in 0..(d - 1),
               scopes[d].paramWB[p] = [sc |-> e, name |-> n],
               scopes'[d].locals[p] # scopes[d].locals[p],
               ~FromEnvironment(e, n)
        PROVE  LookupIn(e, n)' = scopes'[d].locals[p]
    <2>1. depth \in Nat /\ depth <= MaxCalls /\ MaxCalls \in Nat
      BY <1>1, BoundsAssumption DEF IInv, TypeInv
    <2>2. scopes' # scopes /\ scopes'[d] # scopes[d]
      BY <1>1
    <2>3. PICK W : \E m \in Names, v \in Values : StoredAs(W, m, v)
      BY <1>1, <2>2, StepKinds, CallsKeep
    <2>4. PICK m \in Names, v \in Values : StoredAs(W, m, v)
      BY <2>3
    <2>5. d \in 1..MaxCalls /\ (e > 0 => e \in 1..MaxCalls) /\ e \in Nat
      BY <2>1
    <2>6. <<d, p>> \in W /\ scopes'[d].locals[p] = v
      BY <1>1, <2>4, <2>5 DEF StoredAs
    <2>7. scopes[d].paramWB[p] # NoTarget
      BY <1>1, NamesAssumption DEF NoTarget
    <2>8. <<At(e, n), n>> \in W
      <3>1. WrittenWith(W, d, p)
        BY <2>4, <2>6 DEF StoredAs, Chain
      <3>2. QED
        BY <1>1, <2>7, <3>1 DEF WrittenWith
    <2>9. v # Unbound
      BY NamesAssumption DEF Values
    <2>10. CASE e > 0 /\ n \in scopes[e].isLocal
      <3>1. e \in 1..MaxCalls /\ scopes'[e].isLocal = scopes[e].isLocal
        BY <2>4, <2>5, <2>10 DEF StoredAs
      <3>2. scopes'[e].locals[n] = v
        BY <2>4, <2>8, <2>10, <3>1 DEF StoredAs, At
      <3>3. QED
        BY <2>6, <2>10, <3>1, <3>2 DEF LookupIn, Free
    <2>11. CASE ~(e > 0 /\ n \in scopes[e].isLocal)
      <3>1. globals'[n] = v
        BY <2>4, <2>8, <2>11 DEF StoredAs, At
      <3>2. e > 0 => /\ n \notin scopes'[e].isLocal
                     /\ scopes'[e].captured[n] = Unbound
        BY <1>1, <2>4, <2>5, <2>11 DEF StoredAs, FromEnvironment
      <3>3. e = 0 \/ e > 0
        BY <2>5
      <3>4. QED
        BY <2>6, <2>9, <3>1, <3>2, <3>3 DEF LookupIn, Free
    <2>12. QED
      BY <2>10, <2>11
  <1>2. IInv /\ [Next]_vars =>
          [\A d \in 1..depth :
             (d <= depth' /\ scopes'[d].locals # scopes[d].locals) =>
               \A p, n \in Names, e \in 0..(d - 1) :
                 (/\ scopes[d].paramWB[p] = [sc |-> e, name |-> n]
                  /\ scopes'[d].locals[p] # scopes[d].locals[p]
                  /\ ~FromEnvironment(e, n))
                   => LookupIn(e, n)' = scopes'[d].locals[p]]_vars
    BY <1>1
  <1>3. QED
    BY <1>2, ScopesAreSound, PTL DEF Spec, WriteReachesCaller

\* A seq, add or mul leaves its variable reading as before, also when the scope
\* has the variable from its environment, where the store does not show.
THEOREM BindersAreRestored == Spec => BinderRestores
  <1>1. ASSUME IInv, [Next]_vars, NEW n \in Names,
               Len(binders') < Len(binders), n = Last(binders).var
        PROVE  EvalIn(depth, n)' = Evaluated(n, Last(binders).old)
    <2>1. depth \in Nat /\ (depth > 0 => depth \in 1..MaxCalls) /\ Len(binders) \in Nat
      BY <1>1, BoundsAssumption, LenProperties DEF IInv, TypeInv
    <2> DEFINE b == Last(binders)
    <2>2. EndBinder
      <3>1. binders' # binders /\ ~(Len(binders') >= Len(binders))
        BY <1>1, <2>1
      <3>2. QED
        BY <1>1, <3>1, StepKinds, CallsKeep
    <2>3. InBinder /\ Store(n, Restored(b)) /\ depth' = depth
      BY <1>1, <2>2 DEF EndBinder, Restored
    <2>4. b.at = depth /\ b.var = n /\ b.old \in Slots /\ FromThere(b, scopes)
      BY <1>1, <2>3, LastBinder
    <2> HIDE DEF b
    <2>5. Restored(b) \in Values /\ Restored(b) # Unbound
      BY <2>4, NamesAssumption DEF Restored, Slots, Values
    <2>6. PICK W : StoredAs(W, n, Restored(b))
      BY <1>1, <2>3, <2>5, StoreFacts
    <2>7. <<At(depth, n), n>> \in W
      BY <2>6 DEF StoredAs, Chain
    <2>8. Evaluated(n, Restored(b)) = Evaluated(n, b.old)
      BY <2>4, NamesAssumption DEF Evaluated, Restored
    <2>9. LookupIn(depth, n)' \in {Restored(b), b.old}
      <3>1. CASE depth = 0
        <4>1. globals'[n] = Restored(b)
          BY <2>6, <2>7, <3>1 DEF StoredAs, At
        <4>2. QED
          BY <2>3, <3>1, <4>1 DEF LookupIn, Free
      <3>2. CASE depth > 0 /\ n \in scopes[depth].isLocal
        <4>1. n \in scopes'[depth].isLocal /\ scopes'[depth].locals[n] = Restored(b)
          BY <2>1, <2>6, <2>7, <3>2 DEF StoredAs, At
        <4>2. QED
          BY <2>3, <3>2, <4>1 DEF LookupIn, Free
      <3>3. CASE depth > 0 /\ n \notin scopes[depth].isLocal
        <4>1. /\ n \notin scopes'[depth].isLocal /\ globals'[n] = Restored(b)
              /\ scopes'[depth].captured[n] = scopes[depth].captured[n]
          BY <2>1, <2>6, <2>7, <3>3 DEF StoredAs, At
        <4>2. (n \notin Qualified /\ scopes[depth].captured[n] # Unbound) =>
                b.old = scopes[depth].captured[n]
          BY <2>4, <3>3 DEF FromThere
        <4>3. QED
          BY <2>3, <2>5, <3>3, <4>1, <4>2 DEF LookupIn, Free
      <3>4. QED
        BY <2>1, <3>1, <3>2, <3>3
    <2>10. EvalIn(depth, n)' = Evaluated(n, LookupIn(depth, n)')
      BY DEF EvalIn, Evaluated
    <2>11. QED
      BY <2>8, <2>9, <2>10 DEF b
  <1>2. IInv /\ [Next]_vars =>
          [\A n \in Names :
             (Len(binders') < Len(binders) /\ n = Last(binders).var)
               => EvalIn(depth, n)' = Evaluated(n, Last(binders).old)]_vars
    BY <1>1
  <1>3. QED
    BY <1>2, ScopesAreSound, PTL DEF Spec, BinderRestores

\* Where a procedure is made, it reads what its maker reads.
THEOREM ClosuresReadAsMakers == Spec => []ClosureReadsAsMaker
  <1>1. IInv => ClosureReadsAsMaker
    <2> SUFFICES ASSUME IInv, depth > 0, NEW n \in Names \ Qualified, Lookup(n) # Unbound
                 PROVE  Free(CaptureEnv, n) = Lookup(n)
      BY DEF ClosureReadsAsMaker
    <2>1. depth \in 1..depth /\ depth # 0
      BY BoundsAssumption DEF IInv, TypeInv
    <2>2. scopes[depth].locals[n] # Unbound => n \in scopes[depth].isLocal
      BY <2>1 DEF IInv, HomeInv, Home
    <2>3. CaptureEnv[n] = IF scopes[depth].locals[n] # Unbound
                            THEN scopes[depth].locals[n] ELSE scopes[depth].captured[n]
      BY DEF CaptureEnv
    <2>4. CASE n \in scopes[depth].isLocal
      <3>1. Lookup(n) = scopes[depth].locals[n]
        BY <2>1, <2>4 DEF Lookup, LookupIn
      <3>2. QED
        BY <2>3, <3>1 DEF Free
    <2>5. CASE n \notin scopes[depth].isLocal
      <3>1. CaptureEnv[n] = scopes[depth].captured[n]
        BY <2>2, <2>3, <2>5
      <3>2. QED
        BY <2>1, <2>5, <3>1 DEF Lookup, LookupIn, Free
    <2>6. QED
      BY <2>4, <2>5
  <1>2. QED
    BY <1>1, ScopesAreSound, PTL

\* An argument that is the name of an object gives its own parameter the object and
\* the way back to the name, as long as there are only single values before it,
\* whatever stands behind it.
THEOREM ArgumentsAreWired == Spec => []WiredToItsArgument
  <1>1. IInv => WiredToItsArgument
    <2> SUFFICES ASSUME IInv, NEW params \in Params, NEW args \in ArgLists(params),
                        NEW i \in DOMAIN args, args[i].name # Unbound,
                        Lookup(args[i].name) \in Objects,
                        \A j \in 1..(i - 1) : Len(args[j].values) = 1
                 PROVE  /\ Bound(params, args)[params[i]] = Lookup(args[i].name)
                        /\ Wired(params, args)[params[i]] = [sc |-> depth, name |-> args[i].name]
      BY DEF WiredToItsArgument
    <2>1. args[i] \in Arguments /\ Wired(params, args)[params[i]] = Writeback(args[i])
      BY CallFacts
    <2>2. args[i].values = <<Lookup(args[i].name)>>
      BY <2>1, ArgumentTypes
    <2>3. i \in Nat
      BY ListTypes
    <2>4. \A j \in 1..i : j \in 1..(i - 1) \/ j = i
      BY <2>3
    <2>5. Len(args[i].values) = 1 /\ args[i].values[1] = Lookup(args[i].name)
      BY <2>2
    <2>6. \A j \in 1..i : Len(args[j].values) = 1
      BY <2>4, <2>5
    <2>7. Bound(params, args)[params[i]] = args[i].values[1]
      BY <2>6, CallFacts
    <2>8. QED
      BY <2>1, <2>5, <2>7 DEF Writeback
  <1>2. QED
    BY <1>1, ScopesAreSound, PTL

=============================================================================
