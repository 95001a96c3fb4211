------------------------------- MODULE Printer ------------------------------
(***************************************************************************)
(* The text of a value, and the value of a text.  A text is a sequence of  *)
(* tokens; spaces are left out (they separate no two tokens that would     *)
(* otherwise be one).  Two printers share one shape: "maple" is printValue,*)
(* which save and convert use, and "sage" is sanitizeExpr, which writes    *)
(* the operands of a request.  The reader is the Pratt parser of expr.go,  *)
(* with the operators evaluated as they are found.  Sage's own reader, the *)
(* one the requests meet, gives these operators the same precedences.      *)
(***************************************************************************)
EXTENDS Arith

Op(o)     == <<"op", o>>
Digits(n) == <<"digits", n>>
Letters(a) == <<"letters", a>>

precSum   == 3
precProd  == 4
precPow   == 5
precUnary == 6

Wrap(text, self, parent) ==
    IF parent > self THEN <<Op("(")>> \o text \o <<Op(")")>> ELSE text

PrintNumber(q) ==
    (IF q.n < 0 THEN <<Op("-")>> ELSE <<>>) \o <<Digits(Abs(q.n))>>
        \o (IF q.d = 1 THEN <<>> ELSE <<Op("/"), Digits(q.d)>>)

Join(texts, op) ==
    FoldLeft(LAMBDA acc, t : acc \o <<Op(op)>> \o t, Head(texts), Tail(texts))

\* A leading minus of a term takes the place of the plus before it.
PrintSum(texts) ==
    FoldLeft(LAMBDA acc, t : acc \o (IF Head(t) = Op("-") THEN t ELSE <<Op("+")>> \o t),
             Head(texts), Tail(texts))

\* Mutant: neither printer wraps a power in the base of a power.
BasePrecPow(style) == precPow

\* In the base of a power only the printer of the requests wraps a power.
BasePrec(style) == IF style = "sage" THEN precPow + 1 ELSE precPow

\* A leading coefficient -1 that printValue writes as a bare sign.
FoldsMinus(v, style) == style = "maple" /\ Len(v.parts) > 1 /\ v.parts[1] = NewInt(-1)

RECURSIVE PrintPrec(_, _, _)
PrintPrec(v, parent, style) ==
    LET texts(s, prec) == [i \in DOMAIN s |-> PrintPrec(s[i], prec, style)]
    IN  CASE v.kind = "number" -> PrintNumber(v.q)
          [] v.kind = "atom"   -> <<Letters(v.atom)>>
          [] v.kind = "Sum"    -> Wrap(PrintSum(texts(v.parts, precSum)), precSum, parent)
          [] v.kind = "Prod"   ->
                IF style = "maple" /\ IsNegInfinityVal(v)
                THEN Wrap(<<Op("-"), Letters("infinity")>>, precUnary, parent)
                ELSE Wrap(IF FoldsMinus(v, style)
                          THEN <<Op("-")>> \o Join(texts(Tail(v.parts), precProd), "*")
                          ELSE Join(texts(v.parts, precProd), "*"),
                          precProd, parent)
          [] v.kind = "Power"  ->
                Wrap(PrintPrec(v.base, BasePrec(style), style) \o <<Op("^")>>
                        \o PrintPrec(v.exp, precUnary, style),
                     precPow, parent)

Text(v)     == PrintPrec(v, 0, "maple")
SentText(v) == PrintPrec(v, 0, "sage")

-----------------------------------------------------------------------------
(* Reading.                                                                *)

bpAdd == 40
bpMul == 50
bpPow == 70
bpNeg == bpPow - 1

LeftBindingPower(text, i) ==
    CASE i > Len(text)                       -> 0
      [] i <= Len(text) /\ text[i] \in {Op("+"), Op("-")} -> bpAdd
      [] i <= Len(text) /\ text[i] \in {Op("*"), Op("/")} -> bpMul
      [] i <= Len(text) /\ text[i] = Op("^") -> bpPow
      [] OTHER                               -> 0

\* An operator between two values; a failure of an operand is the answer.  A
\* chain of + and - is taken two operands at a time: the shape of the value
\* may differ from that of the whole chain, its meaning does not.
Binary(op, a, b) ==
    CASE ~Answered(a) -> a
      [] Answered(a) /\ ~Answered(b) -> b
      [] OTHER ->
            CASE op = Op("+") -> AddChain(<<a, b>>, <<FALSE, FALSE>>)
              [] op = Op("-") -> AddChain(<<a, b>>, <<FALSE, TRUE>>)
              [] op = Op("*") -> ArithMul(a, b)
              [] op = Op("/") -> ArithDiv(a, b)
              [] op = Op("^") -> ArithPow(a, b)

\* What parseExpr, parseNud and parseLed hand on: the value so far and the
\* place of the next token.
At(v, i) == [val |-> v, next |-> i]

RECURSIVE ParseExpr(_, _, _), ParseLed(_, _, _)

ParseNud(text, i) ==
    CASE text[i] = Op("-") ->
            LET r == ParseExpr(text, i + 1, bpNeg)
            IN  At(IF Answered(r.val) THEN Neg(r.val) ELSE r.val, r.next)
      [] text[i] = Op("+")      -> ParseExpr(text, i + 1, bpNeg)
      [] text[i] = Op("(") ->
            LET r == ParseExpr(text, i + 1, 0) IN At(r.val, r.next + 1)
      [] text[i][1] = "digits"  -> At(NewInt(text[i][2]), i + 1)
      [] text[i][1] = "letters" -> At(Atom(text[i][2]), i + 1)

ParseLed(text, left, minBP) ==
    LET i  == left.next
        bp == LeftBindingPower(text, i)
    IN  IF bp <= minBP THEN left
        ELSE LET right == ParseExpr(text, i + 1, IF bp = bpPow THEN bp - 1 ELSE bp)
             IN  ParseLed(text, At(Binary(text[i], left.val, right.val), right.next), minBP)

ParseExpr(text, i, minBP) == ParseLed(text, ParseNud(text, i), minBP)

ReadBack(text) == ParseExpr(text, 1, 0).val
=============================================================================
