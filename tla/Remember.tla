------------------------------ MODULE Remember ------------------------------
(***************************************************************************)
(* "option remember" (src/src/proc_eval.go, callProcWB and rememberKey) on *)
(* top of the expression handles of SageRefs: one procedure of one         *)
(* argument, called with handles.                                          *)
(*                                                                         *)
(* The remember table is keyed by the id of the handle alone.  It keeps    *)
(* neither the argument nor its entry alive, and it outlives the process   *)
(* that counted the ids.  What a result was computed for is a ghost.       *)
(***************************************************************************)
EXTENDS SageRefs, Sequences

CONSTANT MaxDepth     \* bound: active calls of the procedure

ASSUME DepthAssumption == MaxDepth \in Nat

VARIABLES
  memo,       \* p.remember: id -> the argument its result was computed for
  frames,     \* the active calls of p: argument, and the key computed on entry
  hit         \* the last answer from the table: asked for, computed for

memoVars == <<memo, frames, hit>>
allVars == <<vars, memoVars>>

NoHit == [asked |-> Missing, found |-> Missing]
Frame == [key : Ids, arg : Exprs]

RememberInit ==
  /\ Init
  /\ memo = [i \in Ids |-> Missing] /\ frames = << >> /\ hit = NoHit

rememberKey(h) == ref[h].id
Remembered(h) == memo[rememberKey(h)] # Missing

\* callProcWB looks the key up and answers at once, or runs the body.
CallHit(h) ==
  /\ pc = "idle"
  /\ holder[h] \in Held
  /\ Remembered(h)
  /\ hit' = [asked |-> h, found |-> memo[rememberKey(h)]]
  /\ UNCHANGED <<vars, memo, frames>>

CallMiss(h) ==
  /\ pc = "idle"
  /\ holder[h] \in Held
  /\ ~Remembered(h)
  /\ Len(frames) < MaxDepth
  /\ frames' = Append(frames, [key |-> rememberKey(h), arg |-> h])
  /\ hit' = NoHit
  /\ UNCHANGED <<vars, memo>>

\* Fault for mutation: the key is a variable that inner calls overwrite.
ReturnUnderOldestKey ==
  /\ pc = "idle"
  /\ frames # << >>
  /\ memo' = [memo EXCEPT ![frames[1].key] = frames[Len(frames)].arg]
  /\ frames' = SubSeq(frames, 1, Len(frames) - 1)
  /\ hit' = NoHit
  /\ UNCHANGED vars

\* The body ends: the result is stored under the key computed on entry.
Return ==
  /\ pc = "idle"
  /\ frames # << >>
  /\ LET f == frames[Len(frames)] IN memo' = [memo EXCEPT ![f.key] = f.arg]
  /\ frames' = SubSeq(frames, 1, Len(frames) - 1)
  /\ hit' = NoHit
  /\ UNCHANGED vars

\* The body ends with an error, and stores nothing.
Raise ==
  /\ pc = "idle"
  /\ frames # << >>
  /\ frames' = SubSeq(frames, 1, Len(frames) - 1)
  /\ hit' = NoHit
  /\ UNCHANGED <<vars, memo>>

\* Everything else the program does, in the body of p or outside.  An active
\* call holds its argument, and ExecProgram reaches a statement boundary only
\* when no call is active.
Active == {frames[k].arg : k \in DOMAIN frames}
Program ==
  /\ Next
  /\ \A h \in Active : holder'[h] \in Held
  /\ frames # << >> => ~(Drain \/ ClearCache \/ Exit)
  /\ UNCHANGED memoVars

RememberNext ==
  \/ \E h \in Exprs : CallHit(h) \/ CallMiss(h)
  \/ Return
  \/ Raise
  \/ Program

RememberSpec == RememberInit /\ [][RememberNext]_allVars

-----------------------------------------------------------------------------
(* Properties *)

\* A remembered answer is the answer for the argument of the call: ids are never
\* used for two expressions (the claim of rememberKey).
HitIsOwn == hit.found = hit.asked

\* With restarts, a remembered answer for another expression is always one of
\* another generation of the server.
WrongHitNeedsRestart ==
  hit.found # hit.asked => ref[hit.found].gen # ref[hit.asked].gen

=============================================================================
