------------------------------ MODULE Builtins ------------------------------
(***************************************************************************)
(* The builtins that take a value apart, test its type and put it together *)
(* again (src/src/builtins.go, types.go): op, nops, subsop, map, has,      *)
(* subs, type and whattype.  The package differentiates and reduces with   *)
(* them: it asks for the type, walks the operands and rebuilds.            *)
(*                                                                         *)
(* The arguments of an applied function are not values here (an atom is    *)
(* not opened), and no type is one the program has added.                  *)
(***************************************************************************)
EXTENDS ValueOrder

\* operands
Operands(v) ==
    CASE v.kind \in {"Sum", "Prod"} -> v.parts
      [] v.kind = "Power" -> <<v.base, v.exp>>
      [] IsNum(v) /\ ~IsInteger(v) -> <<NewInt(v.q.n), NewInt(v.q.d)>>
      [] OTHER -> <<v>>

\* Mutant: the last operand is number 0 from the end.
NormIndexFromZero(i, n) == IF i < 0 THEN n + i ELSE i

\* normIndex: a negative index counts from the end.
NormIndex(i, n) == IF i < 0 THEN n + i + 1 ELSE i

\* op(i, v); an error where there is no such operand.
Op1(i, v) ==
    LET ops == Operands(v)
        k   == NormIndex(i, Len(ops))
    IN  IF k \in DOMAIN ops THEN ops[k] ELSE Error

\* op(i..j, v), as a sequence: the bounds are brought into range.
OpRange(i, j, v) ==
    LET ops == Operands(v)
        lo  == NormIndex(i, Len(ops))
        hi  == NormIndex(j, Len(ops))
    IN  SubSeq(ops, IF lo < 1 THEN 1 ELSE lo, IF hi > Len(ops) THEN Len(ops) ELSE hi)

\* nops: a number and a name have one operand, a fraction too.
Nops(v) ==
    CASE v.kind \in {"Sum", "Prod"} -> Len(v.parts)
      [] v.kind = "Power" -> 2
      [] OTHER -> 1

\* rebuild: a value of the shape of v with other operands.
Rebuild(v, ops) ==
    CASE v.kind = "Sum"  -> SimplifySum(ops)
      [] v.kind = "Prod" -> SimplifyProd(ops)
      [] v.kind = "Power" /\ Len(ops) = 2 -> Power(ops[1], ops[2])
      [] OTHER -> IF Len(ops) = 1 THEN ops[1] ELSE v

\* subsop(i = w, v), and subsop(i = NULL, v), which drops the operand.
Subsop(v, i, w) ==
    LET ops == Operands(v) IN Rebuild(v, [ops EXCEPT ![NormIndex(i, Len(ops))] = w])

SubsopNull(v, i) ==
    LET ops == Operands(v) IN Rebuild(v, RemoveAt(ops, NormIndex(i, Len(ops))))

\* mapOver: f[u] is what the mapped function answers for u.
MapOver(v, f) ==
    IF v.kind \in {"Sum", "Prod"} THEN Rebuild(v, [i \in DOMAIN v.parts |-> f[v.parts[i]]])
    ELSE f[v]

-----------------------------------------------------------------------------
(* has and subs                                                            *)

\* hasSub: target is v or stands somewhere in it.
RECURSIVE HasSub(_, _)
HasSub(v, target) ==
    \/ EqualValues(v, target)
    \/ IsCompoundPoly(v) /\ \E i \in DOMAIN Operands(v) : HasSub(Operands(v)[i], target)

\* subsCanMatch: a compound matches a compound of its kind only.
SubsCanMatch(v, target) ==
    IF IsCompoundPoly(v) THEN target.kind = v.kind ELSE ~IsCompoundPoly(target)

\* The right sides of the pairs that match v.
Matches(v, pairs) ==
    LET ms == SelectSeq(pairs, LAMBDA p : SubsCanMatch(v, p[1]) /\ EqualValues(v, p[1]))
    IN  [i \in DOMAIN ms |-> ms[i][2]]

\* Mutant of substitute: one pair after the other.
RECURSIVE SubstituteInTurn(_, _)
SubstituteInTurn(v, pairs) ==
    LET ops == Operands(v)
        one(u, p) == IF Matches(u, <<p>>) # <<>> THEN p[2] ELSE u
    IN  IF IsCompoundPoly(v) THEN Rebuild(v, [i \in DOMAIN ops |-> SubstituteInTurn(ops[i], pairs)])
        ELSE FoldLeft(one, v, pairs)

\* substitute: from the top down, the first pair that matches; what it puts in
\* is not looked at again.
RECURSIVE Substitute(_, _)
Substitute(v, pairs) ==
    LET ops == Operands(v)
        found == Matches(v, pairs)
    IN  CASE found # <<>> -> Head(found)
          [] found = <<>> /\ IsCompoundPoly(v) ->
                Rebuild(v, [i \in DOMAIN ops |-> Substitute(ops[i], pairs)])
          [] OTHER -> v

-----------------------------------------------------------------------------
(* type                                                                    *)

NumberTypes == {"numeric", "rational", "fraction", "realcons", "constant"}
OperatorTypes == {"+", "*", "^"}
TypeNames ==
    NumberTypes \cup OperatorTypes
        \cup {"anything", "integer", "posint", "negint", "nonnegint", "nonnegative", "positive",
              "extended_numeric", "infinity", "symbol", "name", "function", "polynom", "ratpoly",
              "algebraic", "even", "odd", "float", "posint0", "string", "indexed", "boolean", "list", "set",
              "table", "procedure", "equation", "range"}

\* checkNamedType.  An indexed name is an atom like a name: no value here is one.
IsType(v, name) ==
    CASE name = "anything"    -> TRUE
      [] name = "integer"     -> IsInteger(v)
      [] name = "posint"      -> IsInteger(v) /\ v.q.n > 0
      [] name = "negint"      -> IsInteger(v) /\ v.q.n < 0
      [] name = "nonnegint"   -> IsInteger(v) /\ v.q.n >= 0
      [] name \in {"nonnegative", "posint0"} -> IsNum(v) /\ v.q.n >= 0
      [] name = "positive"    -> IsNum(v) /\ v.q.n > 0
      [] name \in NumberTypes -> IsNum(v)
      [] name = "extended_numeric" -> IsNum(v) \/ IsInfinityVal(v) \/ v = Undefined
      [] name = "infinity"    -> IsInfinityVal(v)
      [] name \in {"symbol", "name"} -> IsName(v)
      [] name = "function"    -> v.kind = "atom" /\ ~IsName(v)
      [] name = "+"           -> v.kind = "Sum"
      [] name = "*"           -> v.kind = "Prod"
      [] name = "^"           -> v.kind = "Power"
      [] name \in {"polynom", "ratpoly", "algebraic"} -> TRUE
      [] name = "even"        -> IsInteger(v) /\ v.q.n % 2 = 0
      [] name = "odd"         -> IsInteger(v) /\ v.q.n % 2 = 1
      [] OTHER                -> FALSE

\* refTypeCheck: the types that are answered for a live handle without its value.
HandleTypes == {"polynom", "ratpoly", "algebraic", "anything"}
NotHandleTypes ==
    NumberTypes \cup {"integer", "posint", "negint", "nonnegint", "posint0", "nonnegative", "positive",
                      "extended_numeric", "float", "infinity", "even", "odd"}

\* checkTypeValue for a handle whose value is v.
IsHandleType(v, name) ==
    IF name \in HandleTypes \cup NotHandleTypes THEN name \in HandleTypes ELSE IsType(v, name)

\* whattype; true of exactly one of the types it names.
WhatType(v) ==
    CASE IsInteger(v) -> "integer"
      [] IsNum(v) /\ ~IsInteger(v) -> "fraction"
      [] IsName(v) -> "symbol"
      [] v.kind = "atom" /\ ~IsName(v) -> "function"
      [] v.kind = "Sum" -> "+"
      [] v.kind = "Prod" -> "*"
      [] v.kind = "Power" -> "^"
=============================================================================
