----------------------------- MODULE CallService ----------------------------
(***************************************************************************)
(* What roundtrip promises its caller (sage_cas.go 568-618): a call ends   *)
(* with the answer to its own request or with an error, never with the     *)
(* answer to another one; the request is computed before it is answered,   *)
(* and at most as often as it may be repeated, which for a request with    *)
(* references is once.                                                     *)
(***************************************************************************)
EXTENDS Naturals

CONSTANT Calls              \* the calls of one run, numbered

VARIABLES
    asked,                  \* the call that waits, or 0
    got,                    \* the last result: a call, or 0 for an error
    limit,                  \* how often the request of a call may be computed
    computed                \* how often it was

serviceVars == <<asked, got, limit, computed>>

ServiceInit ==
    /\ asked = 0 /\ got = 0
    /\ limit = [c \in Calls |-> 0]
    /\ computed = [c \in Calls |-> 0]

Ask(c, tries) ==
    /\ asked = 0 /\ limit[c] = 0
    /\ asked' = c
    /\ limit' = [limit EXCEPT ![c] = tries]
    /\ UNCHANGED <<got, computed>>

\* Also after the caller has given up.
Compute(c) ==
    /\ computed[c] < limit[c]
    /\ computed' = [computed EXCEPT ![c] = @ + 1]
    /\ UNCHANGED <<asked, got, limit>>

Answer ==
    /\ asked # 0 /\ computed[asked] > 0
    /\ got' = asked /\ asked' = 0
    /\ UNCHANGED <<limit, computed>>

Fail ==
    /\ asked # 0
    /\ got' = 0 /\ asked' = 0
    /\ UNCHANGED <<limit, computed>>

ServiceNext ==
    \/ \E c \in Calls, tries \in 1..2 : Ask(c, tries)
    \/ \E c \in Calls : Compute(c)
    \/ Answer
    \/ Fail

ServiceSpec == ServiceInit /\ [][ServiceNext]_serviceVars
=============================================================================
