------------------------------ MODULE MCScopes ------------------------------
(***************************************************************************)
(* Scopes for TLC: names are interchangeable when none is qualified.       *)
(***************************************************************************)
EXTENDS Scopes

NameSymmetry == Permutations(Names)

\* Every plain value is a sequence of an object twice.
Pairs == LET o == CHOOSE o \in Objects : TRUE IN [s \in Plain |-> <<o, o>>]

=============================================================================
