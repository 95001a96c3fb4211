---------------------------- MODULE HandleStore ----------------------------
(***************************************************************************)
(* What the pair of SageBackend (src/src/sage_cas.go) and Sage server      *)
(* (src/cas/sage_server.py) promises about expression handles, with no id, *)
(* generation, epoch, cache, process or queue in sight.                    *)
(*                                                                         *)
(* The store answers one request at a time.  A request that computes uses  *)
(* each operand as the expression its handle stands for, or fails.  A      *)
(* request that reads a handle gives the handle's own expression, or       *)
(* fails, unless the store was reset since the handle was given out: then  *)
(* the answer may be any expression.  A new handle is one nobody had.      *)
(***************************************************************************)
EXTENDS Naturals

CONSTANTS
  Handles,    \* a handle is named by the expression it stands for
  Unread      \* not a handle

VARIABLES
  given,      \* handles given out so far
  kept,       \* those the client still holds
  stale,      \* those given out before the last reset
  val,        \* what the client read of each
  stage,      \* "free", "asked" or "answered"
  request,    \* the request being served
  out         \* the expression each operand of an answer was taken for

vars == <<given, kept, stale, val, stage, request, out>>

NoRequest == [kind |-> "op", args |-> {}]
NoOut == [h \in Handles |-> Unread]

Init ==
  /\ given = {} /\ kept = {} /\ stale = {}
  /\ val = [h \in Handles |-> Unread]
  /\ stage = "free" /\ request = NoRequest /\ out = NoOut

\* The client asks for a computation on handles it holds, or reads one.
Ask(kind, A) ==
  /\ stage = "free"
  /\ A \subseteq kept
  /\ stage' = "asked"
  /\ request' = [kind |-> kind, args |-> A]
  /\ UNCHANGED <<given, kept, stale, val, out>>

\* The store computes the answer.
Compute ==
  /\ stage = "asked"
  /\ stage' = "answered"
  /\ out' \in [Handles -> Handles \cup {Unread}]
  /\ \A h \in request.args :
       out'[h] = h \/ (request.kind = "materialize" /\ h \in stale)
  /\ \A h \in Handles \ request.args : out'[h] = Unread
  /\ UNCHANGED <<given, kept, stale, val, request>>

\* The client takes an answer up: a new handle, an inline result or a value.
Deliver(new) ==
  /\ stage = "answered"
  /\ new \in SUBSET (Handles \ given)
  /\ request.kind = "materialize" => new = {}
  /\ given' = given \cup new
  /\ kept' = kept \cup new
  /\ val' = IF request.kind = "materialize"
              THEN [h \in Handles |-> IF h \in request.args THEN out[h] ELSE val[h]]
              ELSE val
  /\ stage' = "free" /\ request' = NoRequest /\ out' = NoOut
  /\ UNCHANGED stale

\* The request fails, and the client may go on.
Fail ==
  /\ stage = "asked"
  /\ stage' = "free" /\ request' = NoRequest
  /\ UNCHANGED <<given, kept, stale, val, out>>

\* The client lets go of a handle, in the middle of a request too.
Forget(h) ==
  /\ h \in kept
  /\ kept' = kept \ {h}
  /\ UNCHANGED <<given, stale, val, stage, request, out>>

\* The store loses everything it held.
Reset ==
  /\ stage # "answered"
  /\ stale' = given
  /\ UNCHANGED <<given, kept, val, stage, request, out>>

Next ==
  \/ \E kind \in {"op", "materialize"}, A \in SUBSET Handles : Ask(kind, A)
  \/ Compute
  \/ \E new \in SUBSET Handles : Deliver(new)
  \/ Fail
  \/ \E h \in Handles : Forget(h)
  \/ Reset

Spec == Init /\ [][Next]_vars

=============================================================================
