------------------------------- MODULE Algebra ------------------------------
(***************************************************************************)
(* The evaluation of an expression: operands are pushed, operators take    *)
(* them from the stack and push their answer, as eval does with the nodes  *)
(* of an operator tree.  Beside each value stands what the expression      *)
(* means at the points of Points, computed with rational arithmetic only.  *)
(***************************************************************************)
EXTENDS Builtins, Rebalance

CONSTANTS
    Leaves,      \* operands: atoms and numbers
    Points,      \* a sequence of assignments of integers to atoms
    MaxNodes,    \* bound on the nodes of one expression
    MaxStack,    \* bound on the operands that wait
    MaxExponent, \* bound on a numeric exponent
    Fresh        \* an atom that is no operand

ASSUME FreshAssumption == Fresh \in ToSet(Atoms) /\ Atom(Fresh) \notin Leaves
ASSUME BoundsAssumption == {MaxNodes, MaxStack, MaxExponent} \subseteq Nat

VARIABLES
    stack,       \* the operands: values with their meanings
    nodes,       \* nodes evaluated so far
    halted       \* "no", or how the expression failed

vars == <<stack, nodes, halted>>

Entry(v, m)  == [val |-> v, mean |-> m]

Init == stack = <<>> /\ nodes = 0 /\ halted = "no"

\* A constant or variable node.
Push(v) ==
    /\ halted = "no" /\ Len(stack) < MaxStack /\ nodes < MaxNodes
    /\ nodes' = nodes + 1
    /\ stack' = Append(stack, Entry(v, [p \in DOMAIN Points |-> Meaning(v, Points[p])]))
    /\ UNCHANGED halted

\* The last k operands, and the stack below them.
Args(k) == SubSeq(stack, Len(stack) - k + 1, Len(stack))
Below(k)    == SubSeq(stack, 1, Len(stack) - k)

\* An operator has answered v for the last k operands; the expression means
\* m[p] at the point p.
Answer(k, v, m) ==
    /\ nodes' = nodes + 1
    /\ IF Answered(v)
       THEN /\ stack' = Append(Below(k), Entry(v, m))
            /\ UNCHANGED halted
       ELSE stack' = Below(k) /\ halted' = v.kind

CanApply(k) == halted = "no" /\ Len(stack) >= k /\ nodes < MaxNodes

Negate ==
    /\ CanApply(1)
    /\ LET a == Last(stack)
       IN  Answer(1, Neg(a.val), [p \in DOMAIN Points |-> QNeg(a.mean[p])])

\* A chain of + and - with k operands; the first stands under no minus.
Chain(k, minus) ==
    /\ CanApply(k)
    /\ LET s == Args(k)
           term(i, p) == IF minus[i] THEN QNeg(s[i].mean[p]) ELSE s[i].mean[p]
       IN  Answer(k, AddChain([i \in 1..k |-> s[i].val], minus),
                  [p \in DOMAIN Points |-> QSum([i \in 1..k |-> term(i, p)])])

Multiply ==
    /\ CanApply(2)
    /\ LET s == Args(2)
       IN  Answer(2, ArithMul(s[1].val, s[2].val),
                  [p \in DOMAIN Points |-> QMul(s[1].mean[p], s[2].mean[p])])

Divide ==
    /\ CanApply(2)
    /\ LET s == Args(2)
       IN  Answer(2, ArithDiv(s[1].val, s[2].val),
                  [p \in DOMAIN Points |-> QMul(s[1].mean[p], QInv(s[2].mean[p]))])

RaiseToPower ==
    /\ CanApply(2)
    /\ LET s == Args(2)
       IN  /\ IsNum(s[2].val) => Abs(s[2].val.q.n) <= MaxExponent
           /\ Answer(2, ArithPow(s[1].val, s[2].val),
                     [p \in DOMAIN Points |-> Raise(s[1].mean[p], s[2].mean[p])])

\* expand and evala, where they are answered natively.
ExpandTop ==
    /\ CanApply(1)
    /\ IsPoly(Last(stack).val)
    /\ Answer(1, NativeExpand(Last(stack).val), Last(stack).mean)

Signs(k) == {minus \in [1..k -> BOOLEAN] : ~minus[1]}

Next ==
    \/ \E v \in Leaves : Push(v)
    \/ Negate
    \/ \E k \in 2..3 : \E minus \in Signs(k) : Chain(k, minus)
    \/ Multiply
    \/ Divide
    \/ RaiseToPower
    \/ ExpandTop

Spec == Init /\ [][Next]_vars

-----------------------------------------------------------------------------
(* What the operators must keep.  No action looks below its operands, so   *)
(* that the values of any stack also make a stack of their own, with no    *)
(* more nodes: a property of one value looks at stacks of one, a property  *)
(* of two at stacks of two.                                                *)

Top   == Last(stack)
Alone == Len(stack) = 1
Vals  == {stack[i].val : i \in DOMAIN stack}

\* Where the meaning m is defined, v means it.
SameMeaning(v, m) ==
    \A p \in DOMAIN Points : m[p] # Undef => Meaning(v, Points[p]) = m[p]

\* The shape automatic simplification promises.  A quotient leaves the
\* inverse of a number in a product: it is not folded into the coefficient.
RECURSIVE WellFormed(_)
WellFormed(v) ==
    CASE v.kind = "number" -> v.q.d > 0 /\ Gcd(Abs(v.q.n), v.q.d) = 1
      [] v.kind = "atom"   -> v.atom \in ToSet(Atoms)
      [] v.kind = "Sum"    ->
            /\ Len(v.parts) >= 2
            /\ \A i \in DOMAIN v.parts :
                  /\ WellFormed(v.parts[i]) /\ v.parts[i].kind # "Sum"
                  /\ IsNum(v.parts[i]) => i = Len(v.parts) /\ v.parts[i].q # Zero
      [] v.kind = "Prod"   ->
            /\ Len(v.parts) >= 2
            /\ \A i \in DOMAIN v.parts :
                  /\ WellFormed(v.parts[i]) /\ v.parts[i].kind # "Prod"
                  /\ IsNum(v.parts[i]) => i = 1 /\ v.parts[i].q \notin {Zero, One}
      [] v.kind = "Power"  ->
            /\ WellFormed(v.base) /\ WellFormed(v.exp)
            /\ v.exp \notin {NewInt(0), NewInt(1)}
            /\ IsNum(v.base) /\ IsInteger(v.exp) => v.exp = NewInt(-1)

\* A value still means what the expression means, wherever that is defined:
\* no simplification of eval_ops.go and no expansion changes the result.  And it
\* is simplified as simplifySum, simplifyProd and arithPow promise, with every
\* number in lowest terms, which the printers and comparisons rely on.
MeaningKept == Alone => WellFormed(Top.val) /\ SameMeaning(Top.val, Top.mean)

\* Only expand makes a sum with an infinite term: it takes infinity for a
\* name like any other.
HidesInfinity(v) == v.kind = "Sum" /\ \E i \in DOMAIN v.parts : IsInfinityVal(v.parts[i])

\* evalAddChain answers what folding arithAdd over the chain answers, term
\* for term (its comment says so), unless both infinities are in the chain
\* or one is inside a sum: the chain looks for infinities before it opens
\* the sums, the fold after.
ChainIsFold ==
    Len(stack) >= 2 =>
        LET s == [i \in DOMAIN stack |-> stack[i].val]
        IN  (\A i \in DOMAIN s : ~HidesInfinity(s[i])) =>
                \A minus \in Signs(Len(s)) :
                    \/ AddChain(s, minus) = Undefined
                    \/ AddChain(s, minus) = PairwiseFold(s, minus)

\* Neither printer puts a negative or fractional number in parentheses when
\* it is the base of a power, nor a fraction when it is the exponent.
RECURSIVE NoBareNumber(_)
NoBareNumber(v) ==
    CASE v.kind \in {"Sum", "Prod"} -> \A i \in DOMAIN v.parts : NoBareNumber(v.parts[i])
      [] v.kind = "Power" ->
            /\ NoBareNumber(v.base) /\ NoBareNumber(v.exp)
            /\ IsNum(v.base) => IsInteger(v.base) /\ v.base.q.n >= 0
            /\ IsNum(v.exp) => IsInteger(v.exp)
      [] OTHER -> TRUE

\* What the server reads in the text of a request (sanitizeExpr) is what the
\* value means: parentheses stand wherever the operators need them, around a
\* power in the base of a power too, and the server's own rebalancing of the
\* text (rebalance) moves no operand across a sign or a division.
SentMeansTheSame ==
    Alone /\ NoBareNumber(Top.val) => SameMeaning(ParseInRing(SentText(Top.val)), Top.mean)

\* expand is a normal form: expanding again changes nothing, and any value
\* equal to it expands to the same terms in the same order.
ExpandIsNormal ==
    Len(stack) \in 1..2 /\ IsPoly(Top.val) =>
        LET p == ToPolyNF(Top.val)
            e == FromPolyNF(p)
        IN  /\ ToPolyNF(e) = p
            /\ WellFormed(e)
            /\ \A v \in {u \in Vals : IsPoly(u)} :
                  EqualValues(Top.val, v) <=> NativeExpand(v) = e

\* degree, coeff and content take a polynomial apart and lose nothing: the
\* coefficients of a, times their powers of a, add up to it, the one at the
\* degree is not zero, and the content leaves coprime integers.
CoefficientsRebuild ==
    Alone /\ IsPoly(Top.val) =>
        LET p == ToPolyNF(Top.val)
            rest == Scale(p, QInv(NativeContent(p)))
        IN  /\ \A a \in Indeterminates(p) :
                LET d == Degree(p, a)
                    term(n) == PMul(NativeCoeff(p, a, n), Mono(One, UniMono(a, n)))
                IN  /\ PSum([n \in 1..(d + 1) |-> term(n - 1)]) = p
                    /\ NativeCoeff(p, a, d) # ZeroPoly
            /\ p # ZeroPoly =>
                /\ \A m \in DOMAIN p : rest[m].d = 1
                /\ NativeContent(rest) = One

\* The native gcd divides both arguments, does not depend on their order,
\* and every operand that divides both divides it.
GcdDivides ==
    stack # <<>> /\ IsPoly(Top.val) =>
        LET polys == {ToPolyNF(v) : v \in {u \in Vals : IsPoly(u)}}
            divides(d, q, a) == d # ZeroPoly /\ UniMod(q, d, a) = ZeroPoly
            p == ToPolyNF(Top.val)
        IN  \A q \in {r \in polys : GcdIsNative(p, r)} :
              \A a \in Indeterminates(p) \cup Indeterminates(q) :
                LET g == NativeGCD(p, q)
                IN  /\ divides(g, p, a) /\ divides(g, q, a)
                    /\ g = NativeGCD(q, p)
                    /\ \A d \in {r \in polys : Indeterminates(r) \subseteq {a}} :
                          divides(d, p, a) /\ divides(d, q, a) => divides(d, g, a)

\* Values that compare equal mean the same: two that differ are never taken
\* for one element of a set, nor an equation between them for true.
EqualMeansTheSame ==
    /\ Len(stack) = 2
    /\ \A v \in Vals : NoBareNumber(v)
    /\ EqualValues(stack[1].val, Top.val)
    => \A p \in DOMAIN Points :
          Undef \in {stack[1].mean[p], Top.mean[p]} \/ stack[1].mean[p] = Top.mean[p]

\* A set of compound polynomials does not depend on the order in which its
\* elements came, and the set operators agree with membership.
SetsAreSets ==
    LET s == [i \in DOMAIN stack |-> stack[i].val]
        t == Tail(s)
        first == SubSeq(s, 1, 2)
    IN  Len(s) >= 2 /\ (\A i \in DOMAIN s : IsCompoundPoly(s[i]) /\ IsPoly(s[i])) =>
            /\ \A set \in {MakeSet(s)} :
                  /\ \A other \in {MakeSet(Reverse(s)), SetUnion(t, first)} : EqualSets(set, other)
                  /\ SetSubset(first, set)
            /\ \A v \in Vals :
                  /\ MemberOp(v, SetMinus(first, t)) <=> MemberOp(v, first) /\ ~MemberOp(v, t)
                  /\ MemberOp(v, SetIntersect(first, t)) <=> MemberOp(v, first) /\ MemberOp(v, t)

\* type and whattype tell how op takes a value apart, and the parts make the value
\* again: with rebuild, subsop and map, and by the operator the type names.  A live
\* handle answers type as its value would (refTypeCheck says so); it holds a
\* polynomial that is no atom.  Infinite terms are opened by arithmetic only.
TypesTellParts ==
    Alone /\ ~HidesInfinity(Top.val) =>
        LET v == Top.val
            ops == Operands(v)
        IN  /\ Cardinality({t \in {"numeric", "name", "function", "+", "*", "^"} : IsType(v, t)}) = 1
            /\ IsType(v, WhatType(v))
            /\ IsType(v, "rational") \/ Nops(v) = Len(ops)
            /\ ops = <<Op1(1, v)>> \o OpRange(2, -1, v)
            /\ Rebuild(v, ops) = v /\ MapOver(v, [u \in ToSet(ops) \cup {v} |-> u]) = v
            /\ \A i \in DOMAIN ops : Subsop(v, i - Len(ops) - 1, Op1(i, v)) = v
            /\ IsType(v, "+") =>
                  \A i \in DOMAIN ops : SameMeaning(ArithAdd(SubsopNull(v, i), Op1(i, v)), Top.mean)
            /\ IsType(v, "*") =>
                  \A i \in DOMAIN ops : SameMeaning(ArithMul(SubsopNull(v, i), Op1(i, v)), Top.mean)
            /\ IsCompoundPoly(v) /\ IsPoly(v) /\ ~IsInfinityVal(v) =>
                  \A t \in TypeNames : IsHandleType(v, t) = IsType(v, t)

\* A name is looked for in an applied function too, which no atom here is opened
\* for.
Opens(v, target) ==
    IsName(target) /\ \E f \in Funcs : HasSub(v, Atom(f))

\* subs puts a fresh name in the place of every occurrence of its target, a compound
\* target too: the answer means what the value did when the name means what the
\* target did, which is what the server's own substitution in a live handle gives
\* (refSubs), and has finds no occurrence of an atom left.  Pairs are replaced at once, so that
\* two names can be exchanged.
SubsReplaces ==
    /\ Len(stack) = 2 /\ (\A v \in Vals : NoBareNumber(v)) /\ ~Opens(Top.val, stack[1].val) =>
        \A target \in {stack[1].val} :
        \A answer \in {Substitute(Top.val, << <<target, Atom(Fresh)>> >>)} :
            /\ \A p \in DOMAIN Points :
                  LET m == stack[1].mean[p]
                  IN  m.d = 1 /\ Top.mean[p] # Undef =>
                        Meaning(answer, Points[p] @@ (Fresh :> m.n)) = Top.mean[p]
            /\ target.kind = "atom" =>
                  /\ ~HasSub(answer, target)
                  /\ answer = Top.val \/ \E u \in {target, Infinity} : HasSub(Top.val, u)
    /\ Alone =>
        \A a, b \in {l \in Leaves : IsName(l) /\ l # Infinity} :
            Rank(a.atom) < Rank(b.atom) /\ ~Opens(Top.val, a) =>
                LET swap(pt) == [pt EXCEPT ![a.atom] = pt[b.atom], ![b.atom] = pt[a.atom]]
                IN  \A swapped \in {Substitute(Top.val, << <<a, b>>, <<b, a>> >>)}, p \in DOMAIN Points :
                      Top.mean[p] # Undef => Meaning(swapped, swap(Points[p])) = Top.mean[p]

\* What save writes, read assigns: the text of a value reads back as a value
\* of the same meaning (save_read.go:55-57).
SavedValueReadsBack ==
    Alone => SameMeaning(ReadBack(Text(Top.val)), Top.mean)

\* compareValues is a total order (print.go:283): what it calls less is
\* transitive.  The code breaks this where an applied function stands between a
\* name and a polynomial.
OrderIsTransitive ==
    \A a, b, c \in Vals : CompareLess(a, b) /\ CompareLess(b, c) => CompareLess(a, c)
=============================================================================
