------------------------------ MODULE MCAlgebra -----------------------------
(* Atoms, operands and points for the runs of Algebra.                     *)
EXTENDS Algebra

MCAtoms  == <<"f(x)", "infinity", "undefined", "x", "y", "z">>
MCFuncs  == {"f(x)"}
MCPoints == << [x |-> 2, y |-> 3] @@ ("f(x)" :> 5), [x |-> 3, y |-> -1] @@ ("f(x)" :> 2) >>
MCLeaves ==
    { Atom("x"), Atom("y"), Atom("f(x)"), Infinity, NewInt(-1), Num(Q(1, 2)),
      Sum(<<Power(Atom("x"), NewInt(2)), NewInt(-1)>>) }
=============================================================================
