-------------------------------- MODULE Arith -------------------------------
(***************************************************************************)
(* The native arithmetic of eval_ops.go on exact values: automatic         *)
(* simplification of sums and products, the operators, and the one-pass    *)
(* evaluation of a chain of + and -.                                       *)
(*                                                                         *)
(* No operand is a live handle (those go to the server), a Float or a      *)
(* List, so that a chain always takes the fast path.                       *)
(***************************************************************************)
EXTENDS Values

\* What an operator answers when it does not answer a value: a Maple error,
\* or a panic of the big-number library, which nothing recovers.
Error == [kind |-> "error"]
Panic == [kind |-> "panic"]
Answered(v) == v.kind \notin {"error", "panic"}

SumTerms(v)    == IF v.kind = "Sum" THEN v.parts ELSE <<v>>
ProdFactors(v) == IF v.kind = "Prod" THEN v.parts ELSE <<v>>

\* The worklist of simplifySum and simplifyProd: nested sums in a sum, and
\* nested products in a product, are opened where they stand.
RECURSIVE Flatten(_, _)
Flatten(kind, s) ==
    FlattenSeq([i \in DOMAIN s |->
        IF s[i].kind = kind THEN Flatten(kind, s[i].parts) ELSE <<s[i]>>])

Numbers(s) == LET ns == SelectSeq(s, IsNum) IN [i \in DOMAIN ns |-> ns[i].q]
Others(s)  == SelectSeq(s, LAMBDA v : ~IsNum(v))

\* A sum or product of the parts s, or less when there are not two.
Collapse(s, empty, kind) ==
    CASE Len(s) = 0 -> empty
      [] Len(s) = 1 -> s[1]
      [] OTHER      -> [kind |-> kind, parts |-> s]

SimplifySum(terms) ==
    LET infinite == {i \in DOMAIN terms : IsInfinityVal(terms[i])}
        negative == {i \in infinite : IsNegInfinityVal(terms[i])}
        flat     == Flatten("Sum", terms)
        total    == QSum(Numbers(flat))
        constant == IF total = Zero THEN <<>> ELSE <<Num(total)>>
    IN  CASE infinite = {}       -> Collapse(Others(flat) \o constant, NewInt(0), "Sum")
          [] negative = {}       -> Infinity
          [] negative = infinite -> NegInfinity
          [] OTHER               -> Undefined

\* Mutant: a coefficient of one is kept.
SimplifyProdKeepsOne(factors) ==
    LET flat == Flatten("Prod", factors)
        coef == QProduct(Numbers(flat))
    IN  IF coef = Zero THEN NewInt(0)
        ELSE Collapse(<<Num(coef)>> \o Others(flat), NewInt(1), "Prod")

SimplifyProd(factors) ==
    LET flat == Flatten("Prod", factors)
        coef == QProduct(Numbers(flat))
        lead == IF coef = One THEN <<>> ELSE <<Num(coef)>>
    IN  IF coef = Zero THEN NewInt(0) ELSE Collapse(lead \o Others(flat), NewInt(1), "Prod")

Neg(v) ==
    IF IsNum(v) THEN Num(QNeg(v.q))
    ELSE SimplifyProd(<<NewInt(-1)>> \o ProdFactors(v))

\* Mutant: the terms of the second operand come first.
ArithAddSwapped(a, b) ==
    IF IsNum(a) /\ IsNum(b) THEN Num(QAdd(a.q, b.q))
    ELSE SimplifySum(SumTerms(b) \o SumTerms(a))

ArithAdd(a, b) ==
    IF IsNum(a) /\ IsNum(b) THEN Num(QAdd(a.q, b.q))
    ELSE SimplifySum(SumTerms(a) \o SumTerms(b))

\* Mutant: the sign is not reset from one operand to the next.
SignedCumulative(operands, minus) ==
    [i \in DOMAIN operands |->
        IF Cardinality({j \in 1..i : minus[j]}) % 2 = 1 THEN Neg(operands[i]) ELSE operands[i]]

\* evalAddChain: the operands of the chain, each negated where an odd number
\* of minus signs stands over it, are simplified together.
Signed(operands, minus) ==
    [i \in DOMAIN operands |-> IF minus[i] THEN Neg(operands[i]) ELSE operands[i]]

AddChain(operands, minus) == SimplifySum(Signed(operands, minus))

\* The fold that the chain replaces, and that it falls back to.
PairwiseFold(operands, minus) ==
    LET s == Signed(operands, minus) IN FoldLeft(ArithAdd, Head(s), Tail(s))

ArithMul(a, b) ==
    IF IsNum(a) /\ IsNum(b) THEN Num(QMul(a.q, b.q))
    ELSE SimplifyProd(ProdFactors(a) \o ProdFactors(b))

ArithDiv(a, b) ==
    CASE IsNum(a) /\ IsNum(b) /\ b.q = Zero -> Error
      [] IsNum(a) /\ IsNum(b) /\ b.q # Zero -> Num(QMul(a.q, QInv(b.q)))
      [] OTHER                              -> ArithMul(a, Power(b, NewInt(-1)))

ArithPow(a, b) ==
    CASE IsNum(a) /\ IsInteger(b) ->
            IF a.q = Zero /\ b.q.n < 0 THEN Panic ELSE Num(QPow(a.q, b.q.n))
      [] ~IsNum(a) /\ b = NewInt(0) -> NewInt(1)
      [] ~IsNum(a) /\ b = NewInt(1) -> a
      [] OTHER                      -> Power(a, b)
=============================================================================
