------------------------------ MODULE MCNaming ------------------------------
(* Two jets of one function, and names that come to the same flat names.   *)
EXTENDS Naming

MCTexts == {"DT", "u", "x"}

u == Text("u")
Name(words) == [head |-> words, idx |-> <<>>]
Jet(idx)    == [head |-> <<u>>, idx |-> idx]

MCAtoms ==
    {Name(<<Text("x")>>), Jet(<<Number(1)>>), Jet(<<Number(1), Number(1)>>),
     Jet(<<Minus(1)>>), Jet(<<Neg(1)>>),
     Name(<<u, DT, Number(1)>>), Name(<<u, DT, Number(1), Number(1)>>)}
=============================================================================
