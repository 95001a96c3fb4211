------------------------------ MODULE ValueOrder ----------------------------
(***************************************************************************)
(* The comparison of values in print.go, by which sets are sorted, freed   *)
(* of duplicates and searched, and the set operators of eval_ops.go.       *)
(***************************************************************************)
EXTENDS Printer, NativePoly

IsCompoundPoly(v) == v.kind \in {"Sum", "Prod", "Power"}

\* The case in which compareValues compares normal forms.
ByNormalForm(a, b) ==
    (IsCompoundPoly(a) \/ IsCompoundPoly(b)) /\ IsPoly(a) /\ IsPoly(b)

TypeOrder(v) ==
    CASE v.kind = "number" -> 0
      [] v.kind = "atom"   -> IF IsName(v) THEN 1 ELSE 5
      [] v.kind = "Power"  -> 6
      [] v.kind = "Prod"   -> 7
      [] v.kind = "Sum"    -> 8

\* The byte order of texts.  Where two texts first differ both have an
\* operand to begin or both an operator, and the infix + and - begin with a
\* space: one order of the tokens serves both places.
TokenOrder == <<"(", "+", "-", ")", "*", "/", "^">>
TokenClass(t) == CASE t[1] = "op" -> 1 [] t[1] = "digits" -> 2 [] t[1] = "letters" -> 3
TokenRank(t) ==
    CASE t[1] = "op"      -> CHOOSE i \in DOMAIN TokenOrder : TokenOrder[i] = t[2]
      [] t[1] = "digits"  -> t[2]
      [] t[1] = "letters" -> Rank(t[2])

TextLess(s, t) ==
    PairsLess([i \in DOMAIN s |-> <<TokenClass(s[i]), TokenRank(s[i])>>],
              [i \in DOMAIN t |-> <<TokenClass(t[i]), TokenRank(t[i])>>])

CompareLess(a, b) ==
    IF ByNormalForm(a, b) THEN PolyLess(ToPolyNF(a), ToPolyNF(b))
    ELSE \/ TypeOrder(a) < TypeOrder(b)
         \/ /\ TypeOrder(a) = TypeOrder(b)
            /\ CASE a.kind = "number" -> QLess(a.q, b.q)
                 [] a.kind = "atom"   -> Rank(a.atom) < Rank(b.atom)
                 [] OTHER             -> TextLess(Text(a), Text(b))

\* Mutant of equalValues: polynomials with the same monomials are equal.
EqualValuesByKeys(a, b) ==
    IF ByNormalForm(a, b) THEN DOMAIN ToPolyNF(a) = DOMAIN ToPolyNF(b)
    ELSE \/ a = b
         \/ a.kind = b.kind /\ IsCompoundPoly(a) /\ Text(a) = Text(b)

\* equalValues: compareValues answers 0.
EqualValues(a, b) ==
    IF ByNormalForm(a, b) THEN ToPolyNF(a) = ToPolyNF(b)
    ELSE \/ a = b
         \/ a.kind = b.kind /\ IsCompoundPoly(a) /\ Text(a) = Text(b)

\* The stable sort of a short slice: a value moves to the left past every
\* value that it is less than, up to the first that it is not.
InsertSorted(s, v) ==
    LET stops == {i \in DOMAIN s : ~CompareLess(v, s[i])}
        place == IF stops = {} THEN 1 ELSE Largest(stops) + 1
    IN  InsertAt(s, place, v)

RECURSIVE SortValues(_)
SortValues(items) ==
    IF items = <<>> THEN <<>> ELSE InsertSorted(SortValues(Front(items)), Last(items))

\* makeSet: of neighbours that are equal the first is kept.
RECURSIVE DropRepeats(_)
DropRepeats(s) ==
    IF Len(s) <= 1 THEN s
    ELSE LET kept == DropRepeats(Front(s))
         IN  IF EqualValues(Last(kept), Last(s)) THEN kept ELSE Append(kept, Last(s))

MakeSet(items) == DropRepeats(SortValues(items))

\* memberOp, and the test of the set operators.
MemberOp(v, items) == \E i \in DOMAIN items : EqualValues(items[i], v)

SetUnion(s, t)     == MakeSet(s \o t)
SetIntersect(s, t) == MakeSet(SelectSeq(s, LAMBDA v : MemberOp(v, t)))
SetMinus(s, t)     == MakeSet(SelectSeq(s, LAMBDA v : ~MemberOp(v, t)))
SetSubset(s, t)    == \A i \in DOMAIN s : MemberOp(s[i], t)

\* Two sets compare equal when they have equal elements in the same places.
EqualSets(s, t) == Len(s) = Len(t) /\ \A i \in DOMAIN s : EqualValues(s[i], t[i])
=============================================================================
