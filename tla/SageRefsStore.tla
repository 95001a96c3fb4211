--------------------------- MODULE SageRefsStore ---------------------------
(***************************************************************************)
(* SageRefs implements HandleStore.                                        *)
(***************************************************************************)
EXTENDS SageRefs

\* A request is under way from the encoding of its operands to the moment Go
\* takes up its answer.  Clears and drains are invisible to the client.
Asking ==
  /\ call.kind \in {"op", "materialize"}
  /\ \/ pc \in {"locked", "flush", "send", "resend"}
     \/ pc = "reply" /\ ~reply.ok
Answered ==
  pc = "reply" /\ reply.ok /\ call.kind \in {"op", "materialize"}

Given == {h \in Exprs : holder[h] # "none"}
Kept == {h \in Exprs : holder[h] \in Held}
Stale == {h \in Exprs : holder[h] # "none" /\ ref[h].gen # generation}
Stage == IF Answered THEN "answered" ELSE IF Asking THEN "asked" ELSE "free"
Request == IF Asking \/ Answered THEN call ELSE NoCall
Out == IF Answered THEN reply.got ELSE NoReply.got

Store == INSTANCE HandleStore WITH
  Handles <- Exprs, Unread <- Missing,
  given <- Given, kept <- Kept, stale <- Stale, val <- val,
  stage <- Stage, request <- Request, out <- Out

\* Every behaviour of the two programs is one of the handle store: no computation
\* is done on another expression than its operands' own, no read returns another
\* expression before the process restarts, and no new handle is one Go had.
ImplementsStore == Store!Spec

=============================================================================
