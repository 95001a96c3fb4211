------------------------------- MODULE Values -------------------------------
(***************************************************************************)
(* The exact part of the runtime values of value.go: numbers, names,       *)
(* applied functions, sums, products and powers, and the meaning of such a *)
(* value under an assignment of numbers to its atoms.  Lists, tables,      *)
(* strings, floats and handles of the server are not values here.          *)
(*                                                                         *)
(* A name, an indexed name and an applied function are each one atom: the  *)
(* code below never looks inside them.  An atom of Funcs is an applied     *)
(* function, the others are names.                                         *)
(***************************************************************************)
EXTENDS Integers, Sequences, SequencesExt, FiniteSets

CONSTANTS
    Atoms,      \* the atoms, in the byte order of their text
    Funcs,      \* those that are applied functions
    MaxPower    \* no exponent is larger (the meaning is undefined above)

ASSUME AtomsAssumption == IsInjective(Atoms) /\ Funcs \subseteq ToSet(Atoms)
ASSUME MaxPowerAssumption == MaxPower \in Nat \ {0}

\* The order of the text of two atoms.  No text of an atom begins another's,
\* and no number has more than one digit, so that the order of texts is
\* the order of their tokens.
Rank(a) == CHOOSE i \in DOMAIN Atoms : Atoms[i] = a

-----------------------------------------------------------------------------
(* Rational numbers: big.Rat, always in lowest terms.  A zero denominator  *)
(* stands for a meaning that does not exist.                                *)

Abs(n) == IF n < 0 THEN -n ELSE n

RECURSIVE Gcd(_, _)
Gcd(m, n) == IF n = 0 THEN m ELSE Gcd(n, m % n)

Q(n, d) ==
    IF d = 0 THEN [n |-> 0, d |-> 0]
    ELSE LET g == Gcd(Abs(n), Abs(d))
             s == IF d < 0 THEN -1 ELSE 1
         IN  [n |-> (s * n) \div g, d |-> (s * d) \div g]

Zero  == Q(0, 1)
One   == Q(1, 1)
Undef == Q(0, 0)

QAdd(a, b) == Q(a.n * b.d + b.n * a.d, a.d * b.d)
QMul(a, b) == Q(a.n * b.n, a.d * b.d)
QNeg(a)    == Q(-a.n, a.d)
QInv(a)    == IF a.d = 0 THEN Undef ELSE Q(a.d, a.n)
QLess(a, b) == a.n * b.d < b.n * a.d

QSum(s)     == FoldLeft(QAdd, Zero, s)
QProduct(s) == FoldLeft(QMul, One, s)

\* ratPow, and the loop of arithPow over a rational base.
QPow(a, e) ==
    LET p == QProduct([i \in 1..Abs(e) |-> a])
    IN  IF e < 0 THEN QInv(p) ELSE p

-----------------------------------------------------------------------------
(* Values.                                                                 *)

Num(q)       == [kind |-> "number", q |-> q]
NewInt(n)    == Num(Q(n, 1))
Atom(a)      == [kind |-> "atom", atom |-> a]
Sum(s)       == [kind |-> "Sum", parts |-> s]
Prod(s)      == [kind |-> "Prod", parts |-> s]
Power(b, e)  == [kind |-> "Power", base |-> b, exp |-> e]

IsNum(v)     == v.kind = "number"
IsInteger(v) == IsNum(v) /\ v.q.d = 1
IsName(v)    == v.kind = "atom" /\ v.atom \notin Funcs

Infinity     == Atom("infinity")
Undefined    == Atom("undefined")
NegInfinity  == Prod(<<NewInt(-1), Infinity>>)

IsInfinityVal(v) == v = Infinity \/ (v.kind = "Prod" /\ Contains(v.parts, Infinity))

IsNegInfinityVal(v) ==
    /\ v.kind = "Prod"
    /\ Contains(v.parts, Infinity)
    /\ \E i \in DOMAIN v.parts : IsNum(v.parts[i]) /\ v.parts[i].q.n < 0

-----------------------------------------------------------------------------
(* What a value means when its atoms stand for the numbers of pt.  The     *)
(* meaning is not part of the program: the properties compare it before    *)
(* and after what the program does.                                        *)

Raise(b, e) == IF e.d = 1 /\ Abs(e.n) <= MaxPower THEN QPow(b, e.n) ELSE Undef

RECURSIVE Meaning(_, _)
Meaning(v, pt) ==
    CASE v.kind = "number" -> v.q
      [] v.kind = "atom"   -> IF v.atom \in DOMAIN pt THEN Q(pt[v.atom], 1) ELSE Undef
      [] v.kind = "Sum"    -> QSum([i \in DOMAIN v.parts |-> Meaning(v.parts[i], pt)])
      [] v.kind = "Prod"   -> QProduct([i \in DOMAIN v.parts |-> Meaning(v.parts[i], pt)])
      [] v.kind = "Power"  -> Raise(Meaning(v.base, pt), Meaning(v.exp, pt))
=============================================================================
