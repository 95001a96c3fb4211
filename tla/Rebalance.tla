------------------------------ MODULE Rebalance -----------------------------
(***************************************************************************)
(* What the server does to the text of an operand before Sage reads it     *)
(* (rebalance in src/cas/sage_server.py): a long chain of + or * becomes a *)
(* balanced tree of parentheses, so that the depth of Python's syntax tree *)
(* is logarithmic.  It works on the text alone and must keep its meaning.  *)
(***************************************************************************)
EXTENDS Printer

Additive       == {Op("+"), Op("-")}
Multiplicative == {Op("*"), Op("/")}
Parens(text)   == <<Op("(")>> \o text \o <<Op(")")>>

\* Depth of parentheses before the token i.
Depth(text, i) ==
    Cardinality({j \in 1..(i - 1) : text[j] = Op("(")})
        - Cardinality({j \in 1..(i - 1) : text[j] = Op(")")})

\* The places of the operators of ops that no parenthesis encloses and that do
\* not follow a token of after.
TopLevel(text, ops, after) ==
    {i \in 2..Len(text) : text[i] \in ops /\ Depth(text, i) = 0 /\ text[i - 1] \notin after}

\* text, cut before every place in cuts.
Cut(text, cuts) ==
    LET starts == SetToSortSeq({1} \cup cuts, <)
        next(k) == IF k = Len(starts) THEN Len(text) + 1 ELSE starts[k + 1]
    IN  [k \in DOMAIN starts |-> SubSeq(text, starts[k], next(k) - 1)]

\* _split_top_additive: the terms, each with its sign.
Terms(text) ==
    Cut(text, TopLevel(text, Additive, Additive \cup Multiplicative \cup {Op("("), Op("^")}))

\* _split_top_multiplicative: the factors; all but the first begin with their operator.
Factors(term) == Cut(term, TopLevel(term, Multiplicative, {Op("^")}))

\* _balanced_mult and _balanced_join.
RECURSIVE BalancedMult(_)
BalancedMult(factors) ==
    IF Len(factors) = 1 THEN factors[1]
    ELSE LET mid == Len(factors) \div 2
         IN  Parens(BalancedMult(SubSeq(factors, 1, mid)) \o <<Op("*")>>
                    \o BalancedMult(SubSeq(factors, mid + 1, Len(factors))))

RECURSIVE BalancedJoin(_)
BalancedJoin(terms) ==
    IF Len(terms) = 1 THEN Parens(terms[1])
    ELSE LET mid == Len(terms) \div 2
         IN  Parens(BalancedJoin(SubSeq(terms, 1, mid)) \o <<Op("+")>>
                    \o BalancedJoin(SubSeq(terms, mid + 1, Len(terms))))

\* The finished fragments with the pending run of factors multiplied on.
Flushed(acc) ==
    IF acc.run = <<>> THEN acc.out
    ELSE acc.out \o (IF acc.out = <<>> THEN <<>> ELSE <<Op("*")>>) \o BalancedMult(acc.run)

\* Mutant: a division is folded into the run like a product.
JoinAnyFactor(acc, factor) ==
    [acc EXCEPT !.run = Append(@, IF Head(factor) \in Multiplicative THEN Tail(factor) ELSE factor)]

\* One factor of a term: a division closes the run before it.
JoinFactor(acc, factor) ==
    IF Head(factor) = Op("/")
    THEN [out |-> Flushed(acc) \o <<Op("/")>> \o Parens(Tail(factor)), run |-> <<>>]
    ELSE [acc EXCEPT !.run = Append(@, IF Head(factor) = Op("*") THEN Tail(factor) ELSE factor)]

RECURSIVE RebalanceParens(_), RebalanceTerm(_), RebalanceText(_)

\* Every group of parentheses in a factor is rebalanced for itself.
RebalanceParens(text) ==
    LET opens == {i \in DOMAIN text : text[i] = Op("(")}
        open  == CHOOSE i \in opens : \A j \in opens : i <= j
        close == CHOOSE j \in open..Len(text) :
                    /\ text[j] = Op(")") /\ Depth(text, j) = 1
                    /\ \A k \in open..(j - 1) : text[k] = Op(")") => Depth(text, k) # 1
    IN  IF opens = {} THEN text
        ELSE SubSeq(text, 1, open - 1)
                \o Parens(RebalanceText(SubSeq(text, open + 1, close - 1)))
                \o RebalanceParens(SubSeq(text, close + 1, Len(text)))

RebalanceTerm(term) ==
    Flushed(FoldLeft(JoinFactor, [out |-> <<>>, run |-> <<>>],
                     LET fs == Factors(term) IN [k \in DOMAIN fs |-> RebalanceParens(fs[k])]))

RebalanceText(text) ==
    LET ts == Terms(text) IN BalancedJoin([k \in DOMAIN ts |-> RebalanceTerm(ts[k])])

\* parse_in_ring: Sage reads the rebalanced text.
ParseInRing(text) == ReadBack(RebalanceText(text))
=============================================================================
