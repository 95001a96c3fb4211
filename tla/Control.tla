------------------------------- MODULE Control -------------------------------
(***************************************************************************)
(* Control flow of the tree-walking interpreter (src/src/interp.go,        *)
(* proc_eval.go, eval_control.go, specialforms.go).                        *)
(*                                                                         *)
(* break, next, return and errors travel as Go errors through the          *)
(* recursion of eval.  The stack holds the evaluator functions that are    *)
(* active and do something when such a signal passes: callProcWB, evalLoop, *)
(* evalTry, iterateBinder, and those that swallow a signal.  The program   *)
(* being run is any program: at each step the innermost construct begins   *)
(* or ends something, or raises.                                           *)
(*                                                                         *)
(* it.scope and it.history are saved and restored by callProcWB and        *)
(* bindParams.  A scope is named by the stack position of its call, the    *)
(* top level by 0; an entry of the history by the activation whose         *)
(* statement it is the result of.                                          *)
(***************************************************************************)
EXTENDS Integers

CONSTANT MaxDepth     \* bound: active constructs

ASSUME DepthAssumption == MaxDepth \in Nat

VARIABLES
  frames,     \* the active constructs, innermost last
  depth,      \* how many there are
  sig,        \* the signal on its way, or NoSignal
  scope,      \* it.scope
  history,    \* it.history: %, %%, %%%
  status      \* "running", "ended" (normally or with an error), "crashed"

vars == <<frames, depth, sig, scope, history, status>>

Positions == 1..MaxDepth
NoEntry == -1
HistLen == 3
LoopSignals == {"break", "next"}
Errors == {"maple", "other"}

\* from: the activation it was raised in; looped: a loop of it was open then.
NoSignal == [kind |-> "none", from |-> 0, looped |-> FALSE]
EmptyHistory == [i \in 1..HistLen |-> NoEntry]

\* An active construct: a call, a loop, a try, a binder (seq, add, mul) or one that
\* swallows errors (quiet), and for a call and a try how far it is.  prev and
\* prevHistory are what it puts back; the rest is for a try: pending waits for the
\* end of the finally block, which has run so many times.
NoFrame == [kind |-> "none", stage |-> "body", prev |-> 0,
            prevHistory |-> EmptyHistory, catches |-> FALSE,
            hasFinally |-> FALSE, pending |-> NoSignal, runs |-> 0]

Init ==
  /\ frames = [i \in Positions |-> NoFrame]
  /\ depth = 0
  /\ sig = NoSignal
  /\ scope = 0
  /\ history = EmptyHistory
  /\ status = "running"

-----------------------------------------------------------------------------
(* Helpers *)

Top == frames[depth]
TopIs(kind, stage) == depth > 0 /\ Top.kind = kind /\ Top.stage = stage
Quiet == sig.kind = "none"

\* The innermost procedure body being run, 0 at top level.
Bodies == {i \in 1..depth : frames[i].kind = "call" /\ frames[i].stage = "body"}
Activation ==
  IF Bodies = {} THEN 0 ELSE CHOOSE i \in Bodies : \A j \in Bodies : j <= i
InLoop == \E i \in 1..depth : i > Activation /\ frames[i].kind = "loop"

\* Statements stand in procedure, loop and try bodies and at top level; default
\* values, binder bodies and the arguments of assigned are expressions.
InStatements ==
  depth > 0 => \/ Top.kind = "call" /\ Top.stage = "body"
               \/ Top.kind \in {"loop", "try"}
\* Between two parameters bindParams evaluates no expression.
InExpression == ~TopIs("call", "bind")

Running == status = "running" /\ Quiet
Unwinding == status = "running" /\ ~Quiet

Pushed(f) == frames' = [frames EXCEPT ![depth + 1] = f] /\ depth' = depth + 1
Popped == frames' = [frames EXCEPT ![depth] = NoFrame] /\ depth' = depth - 1
Restaged(stage) == frames' = [frames EXCEPT ![depth].stage = stage] /\ depth' = depth

Raise(kind) == sig' = [kind |-> kind, from |-> Activation, looped |-> InLoop]

-----------------------------------------------------------------------------
(* Statements *)

\* execBlock pushes the result of every statement that is not NULL.
CompleteStatement ==
  /\ Running /\ InStatements
  /\ history' = [i \in 1..HistLen |-> IF i = 1 THEN Activation ELSE history[i - 1]]
  /\ UNCHANGED <<frames, depth, sig, scope, status>>

\* break, next, return: the signals that are statements.
Jump ==
  /\ Running /\ InStatements
  /\ \E kind \in LoopSignals \cup {"return"} : Raise(kind)
  /\ UNCHANGED <<frames, depth, scope, history, status>>

\* An error: *mapleError, or any other Go error (CAS, not implemented).
Fail ==
  /\ Running /\ InExpression
  /\ \E kind \in Errors : Raise(kind)
  /\ UNCHANGED <<frames, depth, scope, history, status>>

\* casArith and concrete panic, and nothing recovers.
Panic ==
  /\ Running /\ InExpression
  /\ status' = "crashed"
  /\ UNCHANGED <<frames, depth, sig, scope, history>>

\* ExecProgram: the last statement is done, or a signal reached it.
End ==
  /\ status = "running" /\ depth = 0
  /\ status' = "ended"
  /\ UNCHANGED <<frames, depth, sig, scope, history>>

-----------------------------------------------------------------------------
(* Procedure calls: callProcWB and bindParams *)

\* Also the call of a procedure that decides the type of an argument (checkType),
\* while bindParams binds the parameters of another call.
BeginCall ==
  /\ Running /\ depth < MaxDepth
  /\ Pushed([NoFrame EXCEPT !.kind = "call", !.stage = "bind", !.prev = scope])
  /\ UNCHANGED <<sig, scope, history, status>>

\* An argument does not have the declared type: the error is the caller's.
RejectArgument ==
  /\ Running /\ TopIs("call", "bind")
  /\ Popped
  /\ Raise("maple")
  /\ UNCHANGED <<scope, history, status>>

\* The procedure that decides a type failed.
FailType ==
  /\ Unwinding /\ TopIs("call", "bind")
  /\ Popped
  /\ UNCHANGED <<sig, scope, history, status>>

\* A default value is evaluated in the scope under construction.
BeginDefault ==
  /\ Running /\ TopIs("call", "bind")
  /\ Restaged("default")
  /\ scope' = depth
  /\ UNCHANGED <<sig, history, status>>

EndDefault ==
  /\ Running /\ TopIs("call", "default")
  /\ Restaged("bind")
  /\ scope' = Top.prev
  /\ UNCHANGED <<sig, history, status>>

\* Fault for mutation: err is tested before the scope is put back.
FailDefaultKeepsScope ==
  /\ Unwinding /\ TopIs("call", "default")
  /\ Popped
  /\ UNCHANGED <<sig, scope, history, status>>

\* The scope is put back before err is tested.
FailDefault ==
  /\ Unwinding /\ TopIs("call", "default")
  /\ Popped
  /\ scope' = Top.prev
  /\ UNCHANGED <<sig, history, status>>

\* Fault for mutation: the callee starts with its caller's history.
ActivateKeepsHistory ==
  /\ Running /\ TopIs("call", "bind")
  /\ frames' = [frames EXCEPT ![depth].stage = "body", ![depth].prevHistory = history]
  /\ scope' = depth
  /\ UNCHANGED <<depth, sig, history, status>>

Activate ==
  /\ Running /\ TopIs("call", "bind")
  /\ frames' = [frames EXCEPT ![depth].stage = "body", ![depth].prevHistory = history]
  /\ scope' = depth
  /\ history' = EmptyHistory
  /\ UNCHANGED <<depth, sig, status>>

\* Fault for mutation: a return is passed on to the caller.
LeaveCallPassesReturn ==
  /\ status = "running" /\ TopIs("call", "body")
  /\ Popped
  /\ scope' = Top.prev
  /\ history' = Top.prevHistory
  /\ UNCHANGED <<sig, status>>

\* The body ends.  A return signal becomes the result, any other signal goes on;
\* the deferred functions run in every case.
LeaveCall ==
  /\ status = "running" /\ TopIs("call", "body")
  /\ Popped
  /\ scope' = Top.prev
  /\ history' = Top.prevHistory
  /\ sig' = IF sig.kind = "return" THEN NoSignal ELSE sig
  /\ UNCHANGED status

-----------------------------------------------------------------------------
(* Loops: evalLoop *)

BeginLoop ==
  /\ Running /\ InStatements /\ depth < MaxDepth
  /\ Pushed([NoFrame EXCEPT !.kind = "loop"])
  /\ UNCHANGED <<sig, scope, history, status>>

\* The items or the range are used up or the condition is not true; or the loop
\* has no bound: "unbounded numeric loop", after its first iteration.
EndLoop ==
  /\ Running /\ TopIs("loop", "body")
  /\ Popped
  /\ \/ UNCHANGED sig
     \/ Raise("other")
  /\ UNCHANGED <<scope, history, status>>

\* Fault for mutation: the numeric loop passes break and next on.
SignalLoopPasses ==
  /\ Unwinding /\ TopIs("loop", "body")
  /\ Popped
  /\ UNCHANGED <<sig, scope, history, status>>

\* runBody: break stops the loop, next goes to the next iteration, every other
\* signal leaves the loop.
SignalLoop ==
  /\ Unwinding /\ TopIs("loop", "body")
  /\ IF sig.kind = "next" THEN UNCHANGED <<frames, depth>> ELSE Popped
  /\ sig' = IF sig.kind \in LoopSignals THEN NoSignal ELSE sig
  /\ UNCHANGED <<scope, history, status>>

-----------------------------------------------------------------------------
(* try, catch, finally: evalTry *)

BeginTry ==
  /\ Running /\ InStatements /\ depth < MaxDepth
  /\ \E catches, hasFinally \in BOOLEAN :
       Pushed([NoFrame EXCEPT !.kind = "try", !.stage = "try",
                              !.catches = catches, !.hasFinally = hasFinally])
  /\ UNCHANGED <<sig, scope, history, status>>

\* A clause matches the message.  Only a *mapleError can be caught.
Catch ==
  /\ status = "running" /\ TopIs("try", "try")
  /\ sig.kind = "maple" /\ Top.catches
  /\ Restaged("catch")
  /\ sig' = NoSignal
  /\ UNCHANGED <<scope, history, status>>

Catchable == Top.stage = "try" /\ sig.kind = "maple" /\ Top.catches

\* The try body or the catch body ends, and the finally block begins; the
\* outcome so far waits.
BeginFinally ==
  /\ status = "running" /\ (TopIs("try", "try") \/ TopIs("try", "catch"))
  /\ ~Catchable
  /\ Top.hasFinally
  /\ frames' = [frames EXCEPT ![depth].stage = "finally", ![depth].pending = sig,
                              ![depth].runs = @ + 1]
  /\ sig' = NoSignal
  /\ UNCHANGED <<depth, scope, history, status>>

\* Fault for mutation: an error in a catch body skips the finally block.
LeaveTryFromCatch ==
  /\ status = "running" /\ (TopIs("try", "try") \/ TopIs("try", "catch"))
  /\ ~Catchable
  /\ ~Top.hasFinally \/ (Top.stage = "catch" /\ sig.kind \in Errors)
  /\ Popped
  /\ UNCHANGED <<sig, scope, history, status>>

LeaveTry ==
  /\ status = "running" /\ (TopIs("try", "try") \/ TopIs("try", "catch"))
  /\ ~Catchable
  /\ ~Top.hasFinally
  /\ Popped
  /\ UNCHANGED <<sig, scope, history, status>>

\* The finally block ends.  The outcome that waited goes on, and a signal of the
\* finally block itself only when none did.
EndFinally ==
  /\ status = "running" /\ TopIs("try", "finally")
  /\ Popped
  /\ sig' = IF Top.pending.kind = "none" THEN sig ELSE Top.pending
  /\ UNCHANGED <<scope, history, status>>

-----------------------------------------------------------------------------
(* Expressions: iterateBinder; sfAssigned, userinfo, tryListElementAssign *)

BeginExpression ==
  /\ Running /\ InExpression /\ depth < MaxDepth
  /\ \E kind \in {"binder", "quiet"} : Pushed([NoFrame EXCEPT !.kind = kind])
  /\ UNCHANGED <<sig, scope, history, status>>

\* seq, add and mul pass every signal on.
EndBinder ==
  /\ status = "running" /\ TopIs("binder", "body")
  /\ Popped
  /\ UNCHANGED <<sig, scope, history, status>>

\* assigned(e), userinfo and the probe of an indexed assignment go on whatever
\* the evaluation returned.
EndQuiet ==
  /\ status = "running" /\ TopIs("quiet", "body")
  /\ Popped
  /\ sig' = NoSignal
  /\ UNCHANGED <<scope, history, status>>

Stopped == status # "running" /\ UNCHANGED vars

Next ==
  \/ CompleteStatement \/ Jump \/ Fail \/ Panic \/ End
  \/ BeginCall \/ RejectArgument \/ FailType
  \/ BeginDefault \/ EndDefault \/ FailDefault
  \/ Activate \/ LeaveCall
  \/ BeginLoop \/ EndLoop \/ SignalLoop
  \/ BeginTry \/ Catch \/ BeginFinally \/ LeaveTry \/ EndFinally
  \/ BeginExpression \/ EndBinder \/ EndQuiet
  \/ Stopped

Spec == Init /\ [][Next]_vars

-----------------------------------------------------------------------------
(* Properties *)

\* it.scope is the scope of the innermost procedure that is running or whose
\* default values are being evaluated, and %, %% and %%% are results of its own
\* statements, never of its caller's or of a procedure it called (callProcWB: "a
\* callee must not clobber the caller's history"), on every path of a signal.
CallerRestored ==
  LET open == {i \in 1..depth : frames[i].kind = "call" /\ frames[i].stage # "bind"}
  IN  /\ scope = IF open = {} THEN 0 ELSE CHOOSE i \in open : \A j \in open : j <= i
      /\ \A i \in 1..HistLen : history[i] \in {NoEntry, Activation}

\* A return ends the procedure it stands in and no other; a break or next that
\* stands in a loop acts on a loop of the same procedure.
SignalFindsItsTarget ==
  /\ sig.kind = "return" => sig.from = Activation
  /\ (sig.kind \in LoopSignals /\ sig.looped) => sig.from = Activation /\ InLoop

\* break and next never leave the procedure they stand in ("break outside loop").
\* The code breaks this: a call passes on every signal but return.
LoopSignalStaysInCall == sig.kind \in LoopSignals => sig.from = Activation

\* A try statement with a finally block is left only after that block has run,
\* once, whatever the other blocks did.
FinallyRunsOnce ==
  [][\A i \in Positions :
       (frames[i].kind = "try" /\ frames[i].hasFinally /\ frames'[i] = NoFrame)
         => frames[i].runs = 1]_vars

=============================================================================
