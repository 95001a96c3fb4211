------------------------------ MODULE NativePoly ----------------------------
(***************************************************************************)
(* The polynomial operations of native_poly.go: the expanded normal form,  *)
(* and expand, degree, coeff, content and the univariate gcd on it.        *)
(*                                                                         *)
(* A monomial is a bag of names, a polynomial a function from monomials to *)
(* their nonzero coefficients.  Exponents stay below ten, where the order  *)
(* of their text is their order.                                           *)
(***************************************************************************)
EXTENDS Arith, Bags

ConstantMono == EmptyBag
ZeroPoly     == [m \in {} |-> Zero]
Mono(q, m)   == IF q = Zero THEN ZeroPoly ELSE (m :> q)

Coef(p, m) == IF m \in DOMAIN p THEN p[m] ELSE Zero

PAdd(p, q) ==
    LET sum == [m \in DOMAIN p \cup DOMAIN q |-> QAdd(Coef(p, m), Coef(q, m))]
    IN  [m \in {k \in DOMAIN sum : sum[k] # Zero} |-> sum[m]]

PMul(p, q) ==
    LET pairs == (DOMAIN p) \X (DOMAIN q)
        add(pair, r) ==
            PAdd(r, Mono(QMul(p[pair[1]], q[pair[2]]), pair[1] (+) pair[2]))
    IN  FoldSet(add, ZeroPoly, pairs)

PSum(ps)     == FoldLeft(PAdd, ZeroPoly, ps)
PProduct(ps) == FoldLeft(PMul, Mono(One, ConstantMono), ps)

\* The values toPolyNF accepts.  A constant may have any exponent for which
\* its power exists, any other base needs one that is not negative.
RECURSIVE IsPoly(_)
IsPoly(v) ==
    CASE v.kind = "number" -> TRUE
      [] v.kind = "atom"   -> IsName(v)
      [] v.kind \in {"Sum", "Prod"} -> \A i \in DOMAIN v.parts : IsPoly(v.parts[i])
      [] v.kind = "Power"  ->
            /\ IsInteger(v.exp)
            /\ \/ IsNum(v.base) /\ v.base.q # Zero
               \/ v.exp.q.n >= 0 /\ IsPoly(v.base)

RECURSIVE ToPolyNF(_)
ToPolyNF(v) ==
    CASE v.kind = "number" -> Mono(v.q, ConstantMono)
      [] v.kind = "atom"   -> Mono(One, SetToBag({v.atom}))
      [] v.kind = "Sum"    -> PSum([i \in DOMAIN v.parts |-> ToPolyNF(v.parts[i])])
      [] v.kind = "Prod"   -> PProduct([i \in DOMAIN v.parts |-> ToPolyNF(v.parts[i])])
      [] v.kind = "Power"  ->
            IF IsNum(v.base) /\ v.base.q # Zero
            THEN Mono(QPow(v.base.q, v.exp.q.n), ConstantMono)
            ELSE LET b == ToPolyNF(v.base) IN PProduct([i \in 1..v.exp.q.n |-> b])

-----------------------------------------------------------------------------
(* The order of monomials and of normal forms.                             *)

\* The names of a monomial in byte order.
Names(m) == SelectSeq(Atoms, LAMBDA a : BagIn(a, m))

\* monoKey: the names in byte order, each with its exponent.
MonoKey(m) ==
    LET as == Names(m) IN [i \in DOMAIN as |-> <<Rank(as[i]), m[as[i]]>>]

\* The order of two sequences of pairs of numbers, pair by pair.
PairsLess(s, t) ==
    \/ \E i \in (DOMAIN s) \cap (DOMAIN t) :
          /\ s[i][1] < t[i][1] \/ (s[i][1] = t[i][1] /\ s[i][2] < t[i][2])
          /\ \A j \in 1..(i - 1) : s[j] = t[j]
    \/ IsStrictPrefix(s, t)

KeyLess(m, k) == PairsLess(MonoKey(m), MonoKey(k))

\* The monomials of M in the order of their keys.
InOrder(M) ==
    LET place == [m \in M |-> 1 + Cardinality({k \in M : KeyLess(k, m)})]
    IN  [i \in 1..Cardinality(M) |-> CHOOSE m \in M : place[m] = i]

SortedKeys(p) == InOrder(DOMAIN p)

\* Mutant of comparePolyNF: only the keys are compared.
PolyLessByKeys(p, q) ==
    LET ps == SortedKeys(p)
        qs == SortedKeys(q)
    IN  \/ \E i \in (DOMAIN ps) \cap (DOMAIN qs) :
              KeyLess(ps[i], qs[i]) /\ \A j \in 1..(i - 1) : ps[j] = qs[j]
        \/ IsStrictPrefix(ps, qs)

\* comparePolyNF: the entries in the order of their keys, key before
\* coefficient; when one runs out, it is the smaller.
PolyLess(p, q) ==
    LET ps == SortedKeys(p)
        qs == SortedKeys(q)
        agree(j) == ps[j] = qs[j] /\ p[ps[j]] = q[qs[j]]
    IN  \/ \E i \in (DOMAIN ps) \cap (DOMAIN qs) :
              /\ KeyLess(ps[i], qs[i]) \/ (ps[i] = qs[i] /\ QLess(p[ps[i]], q[qs[i]]))
              /\ \A j \in 1..(i - 1) : agree(j)
        \/ Len(ps) < Len(qs) /\ \A j \in DOMAIN ps : agree(j)

-----------------------------------------------------------------------------
(* Back to a value, and the operations.                                    *)

TotalDegree(m) == BagCardinality(m)

\* Mutant: a coefficient -1 is dropped like 1.
MonoTermDropsSign(q, m) ==
    LET as == Names(m)
        factors == [i \in DOMAIN as |->
            IF m[as[i]] = 1 THEN Atom(as[i]) ELSE Power(Atom(as[i]), NewInt(m[as[i]]))]
    IN  CASE factors = <<>>                       -> Num(q)
          [] factors # <<>> /\ Abs(q.n) = q.d     -> Collapse(factors, Num(q), "Prod")
          [] OTHER                                -> Prod(<<Num(q)>> \o factors)

MonoTerm(q, m) ==
    LET as == Names(m)
        factors == [i \in DOMAIN as |->
            IF m[as[i]] = 1 THEN Atom(as[i]) ELSE Power(Atom(as[i]), NewInt(m[as[i]]))]
    IN  CASE factors = <<>>              -> Num(q)
          [] factors # <<>> /\ q = One   -> Collapse(factors, Num(q), "Prod")
          [] OTHER                       -> Prod(<<Num(q)>> \o factors)

Largest(S) == CHOOSE x \in S : \A y \in S : x >= y

\* The terms of a higher degree come first, those of one degree by their keys.
FromPolyNF(p) ==
    LET top == Largest({TotalDegree(m) : m \in DOMAIN p} \cup {0})
        degree(n) == InOrder({m \in DOMAIN p : TotalDegree(m) = n})
        ms == FlattenSeq([i \in 1..(top + 1) |-> degree(top + 1 - i)])
    IN  Collapse([i \in DOMAIN ms |-> MonoTerm(p[ms[i]], ms[i])], NewInt(0), "Sum")

NativeExpand(v) == FromPolyNF(ToPolyNF(v))

Indeterminates(p) == UNION {BagToSet(m) : m \in DOMAIN p}

\* degree(p, a): none of the zero polynomial.
Degree(p, a) == Largest({CopiesIn(a, m) : m \in DOMAIN p})

\* Mutant of nativeCoeff: the power of a stays in the monomials.
NativeCoeffKeepsPower(p, a, n) ==
    [m \in {k \in DOMAIN p : CopiesIn(a, k) = n} |-> p[m]]

\* nativeCoeff: the monomials in which a has exponent n, without it.
NativeCoeff(p, a, n) ==
    LET without(m) == [b \in BagToSet(m) \ {a} |-> m[b]]
        ms == {m \in DOMAIN p : CopiesIn(a, m) = n}
    IN  FoldSet(LAMBDA m, r : PAdd(r, Mono(p[m], without(m))), ZeroPoly, ms)

Lcm(a, b) == (a * b) \div Gcd(a, b)

NativeContent(p) ==
    IF p = ZeroPoly THEN Zero
    ELSE Q(FoldSet(LAMBDA m, g : Gcd(g, Abs(p[m].n)), 0, DOMAIN p),
           FoldSet(LAMBDA m, l : Lcm(l, p[m].d), 1, DOMAIN p))

-----------------------------------------------------------------------------
(* The gcd of two polynomials in at most one indeterminate.                *)

Scale(p, q)    == [m \in DOMAIN p |-> QMul(p[m], q)]
UniMono(a, n)  == IF n = 0 THEN ConstantMono ELSE (a :> n)
Lead(p, a)     == p[UniMono(a, Degree(p, a))]

RECURSIVE UniMod(_, _, _)
UniMod(p, q, a) ==
    IF p = ZeroPoly \/ Degree(p, a) < Degree(q, a) THEN p
    ELSE LET factor == QMul(Lead(p, a), QInv(Lead(q, a)))
             shift  == Mono(factor, UniMono(a, Degree(p, a) - Degree(q, a)))
         IN  UniMod(PAdd(p, Scale(PMul(shift, q), Q(-1, 1))), q, a)

RECURSIVE UniGcd(_, _, _)
UniGcd(p, q, a) ==
    CASE q # ZeroPoly                   -> UniGcd(q, UniMod(p, q, a), a)
      [] q = ZeroPoly /\ p = ZeroPoly   -> ZeroPoly
      [] OTHER                          -> Scale(p, QInv(Lead(p, a)))

\* nativeGCD answers constants that are integers and polynomials in one
\* indeterminate; the rest goes to the server.
GcdIsNative(p, q) ==
    LET as == Indeterminates(p) \cup Indeterminates(q)
    IN  \/ Cardinality(as) = 1
        \/ as = {} /\ Coef(p, ConstantMono).d = 1 /\ Coef(q, ConstantMono).d = 1

\* Mutant: the division is not repeated.
NativeGCDOneStep(p, q) ==
    LET as == Indeterminates(p) \cup Indeterminates(q)
        a  == CHOOSE b \in as : TRUE
    IN  IF as = {} \/ q = ZeroPoly THEN p
        ELSE UniGcd(IF UniMod(p, q, a) = ZeroPoly THEN q ELSE UniMod(p, q, a), ZeroPoly, a)

NativeGCD(p, q) ==
    LET as == Indeterminates(p) \cup Indeterminates(q)
    IN  IF as = {}
        THEN Mono(Q(Gcd(Abs(Coef(p, ConstantMono).n), Abs(Coef(q, ConstantMono).n)), 1),
                  ConstantMono)
        ELSE UniGcd(p, q, CHOOSE a \in as : TRUE)
=============================================================================
