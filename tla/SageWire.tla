------------------------------ MODULE SageWire ------------------------------
(***************************************************************************)
(* The pipes between SageBackend and the Sage process (sage_cas.go 403-658,*)
(* sage_server.py 1844-1861).  send writes one line and reads one line in  *)
(* a goroutine and waits for it or for its timer.  A goroutine that was    *)
(* given up goes on: it may still write, and it reads the field s.stdout   *)
(* only after its write has ended, when start may have replaced it.  The   *)
(* ids of answers are not compared with those of requests: the order of    *)
(* the lines on a pipe is all that relates them.                           *)
(*                                                                         *)
(* A goroutine begins to write before its timer can fire (a timer is a     *)
(* second at least), so the pipe it writes to is that of its own request.  *)
(* What a request carries and an answer says is left out: SageRefs has it. *)
(***************************************************************************)
EXTENDS Naturals, Sequences, FiniteSets, SequencesExt

CONSTANTS
    MaxCalls,    \* bound: calls of the interpreter
    MaxStarts,   \* bound: processes started
    MaxFrees,    \* bound: times the collector queues ids to free
    Budgets      \* the settings of the two timeouts a run may have

ASSUME WireBounds ==
    /\ {MaxCalls, MaxFrees} \subseteq Nat /\ MaxStarts \in Nat \ {0}
    /\ Budgets \subseteq SUBSET {"light", "heavy"}

CallNumbers == 1..MaxCalls
Procs       == 1..MaxStarts

VARIABLES
    bounded,     \* kinds of op with a finite timeout; fixed
    \* The processes, and their pipes.
    status,      \* of each process
    inbox,       \* requests on its standard input
    outbox,      \* answers on its standard output
    computed,    \* ghost: how often the request of a call was computed
    \* SageBackend.
    proc,        \* the process whose pipes s.stdin and s.stdout are
    hasCmd,      \* s.cmd # nil
    dead,        \* s.dead
    pending,     \* s.pendingFree is not empty
    frees,       \* ghost: times the queue was filled
    \* The interpreter.
    calls,       \* the calls made, the last one running unless pc is "idle"
    pc,
    got,         \* the result of the last call, 0 for an error
    \* Goroutines of send.
    mine,        \* the one the interpreter waits for
    others       \* those given up

procVars    == <<status, inbox, outbox, computed>>
backendVars == <<proc, hasCmd, dead, pending, frees>>
callVars    == <<calls, pc, got>>
vars == <<bounded, procVars, backendVars, callVars, mine, others>>

Weights == {"light", "heavy"}
Call    == [weight : Weights, hasRef : BOOLEAN]
Request == [kind : {"op", "clear"}, call : CallNumbers \cup {0}]
Lost    == [kind |-> "error", call |-> 0]
NoSend  == [at |-> "none", req |-> Lost, to |-> 0, from |-> 0, line |-> Lost]

\* A goroutine of send: where it is, its request, the pipe it writes to, the
\* pipe it reads from, and what it left in its channel.
Send(r) == [at |-> "write", req |-> r, to |-> proc, from |-> 0, line |-> Lost]

Waits == {"awaitClear", "await", "awaitAgain", "drain"}

TypeOK ==
    /\ bounded \in Budgets
    /\ status \in [Procs -> {"unborn", "running", "gone"}]
    /\ \A p \in Procs : inbox[p] \in Seq(Request) /\ outbox[p] \in Seq(Request)
    /\ computed \in [CallNumbers -> Nat]
    /\ proc \in Procs \cup {0}
    /\ {hasCmd, dead, pending} \subseteq BOOLEAN
    /\ frees \in 0..MaxFrees
    /\ calls \in Seq(Call) /\ Len(calls) <= MaxCalls
    /\ pc \in Waits \cup {"idle", "ensure", "flush", "send", "restart", "sendAgain"}
    /\ got \in CallNumbers \cup {0}
    /\ \A g \in others \cup {mine} :
          g.at \in {"none", "write", "look", "read", "done"} /\ {g.to, g.from} \subseteq 0..proc
    /\ (mine.at = "none") = (pc \notin Waits)

Init ==
    /\ bounded \in Budgets
    /\ status = [p \in Procs |-> "unborn"]
    /\ inbox = [p \in Procs |-> <<>>] /\ outbox = [p \in Procs |-> <<>>]
    /\ computed = [c \in CallNumbers |-> 0]
    /\ proc = 0 /\ hasCmd = FALSE /\ dead = FALSE
    /\ pending = FALSE /\ frees = 0
    /\ calls = <<>> /\ pc = "idle" /\ got = 0
    /\ mine = NoSend /\ others = {}

Current == Len(calls)
HasRef  == Last(calls).hasRef

\* timeoutFor: clear is no heavy op.
WeightOf(r) == IF r.kind = "clear" THEN "light" ELSE calls[r.call].weight

-----------------------------------------------------------------------------
(* The processes.                                                          *)

\* One turn of _main_loop: lines are answered one by one, in order.
Serve(p) ==
    /\ status[p] = "running" /\ inbox[p] # <<>>
    /\ LET r == Head(inbox[p])
       IN  /\ outbox' = [outbox EXCEPT ![p] = Append(@, r)]
           /\ computed' = IF r.kind = "clear" THEN computed
                          ELSE [computed EXCEPT ![r.call] = @ + 1]
    /\ inbox' = [inbox EXCEPT ![p] = Tail(@)]
    /\ UNCHANGED <<bounded, status, backendVars, callVars, mine, others>>

\* The process dies; what it has answered stays on the pipe.
Die(p) ==
    /\ status[p] = "running"
    /\ status' = [status EXCEPT ![p] = "gone"]
    /\ UNCHANGED <<bounded, inbox, outbox, computed, backendVars, callVars, mine, others>>

-----------------------------------------------------------------------------
(* The goroutines.  Step(g, h) makes g into h; a goroutine that was given  *)
(* up and has nothing more to do is forgotten.                             *)

Step(g, h) ==
    \/ g = mine /\ mine' = h /\ UNCHANGED others
    \/ g \in others /\ UNCHANGED mine
       /\ others' = (others \ {g}) \cup (IF h.at = "done" THEN {} ELSE {h})

Done(g, line) == [g EXCEPT !.at = "done", !.line = line]

\* s.stdin.Write: a pipe nobody reads any more is an error.
Write(g) ==
    /\ g.at = "write"
    /\ IF status[g.to] = "running"
       THEN /\ inbox' = [inbox EXCEPT ![g.to] = Append(@, g.req)]
            /\ Step(g, [g EXCEPT !.at = "look"])
       ELSE Step(g, Done(g, Lost)) /\ UNCHANGED inbox
    /\ UNCHANGED <<bounded, status, outbox, computed, backendVars, callVars>>

\* The field s.stdout is read now.
Look(g) ==
    /\ g.at = "look"
    /\ Step(g, [g EXCEPT !.at = "read", !.from = proc])
    /\ UNCHANGED <<bounded, procVars, backendVars, callVars>>

Sharing(g) == \E h \in (others \cup {mine}) \ {g} : h.at = "read" /\ h.from = g.from

\* ReadBytes.  Two goroutines on one bufio.Reader race: the line may come out
\* broken, which the decoder of the answer refuses.
Read(g) ==
    /\ g.at = "read" /\ outbox[g.from] # <<>>
    /\ \/ Step(g, Done(g, Head(outbox[g.from])))
       \/ Sharing(g) /\ Step(g, Done(g, Lost))
    /\ outbox' = [outbox EXCEPT ![g.from] = Tail(@)]
    /\ UNCHANGED <<bounded, status, inbox, computed, backendVars, callVars>>

ReadEOF(g) ==
    /\ g.at = "read" /\ outbox[g.from] = <<>> /\ status[g.from] = "gone"
    /\ Step(g, Done(g, Lost))
    /\ UNCHANGED <<bounded, procVars, backendVars, callVars>>

Goroutine(g) == Write(g) \/ Look(g) \/ Read(g) \/ ReadEOF(g)

-----------------------------------------------------------------------------
(* The interpreter.                                                        *)

Begin(c) ==
    /\ pc = "idle" /\ Len(calls) < MaxCalls
    /\ calls' = Append(calls, c) /\ pc' = "ensure"
    /\ UNCHANGED <<bounded, procVars, backendVars, got, mine, others>>

Return(result) == pc' = "idle" /\ got' = result /\ UNCHANGED calls

\* ensureStarted kills what was given up; start replaces the pipes.
Killed == [status EXCEPT ![proc] = "gone"]
NextProc == Cardinality({p \in Procs : status[p] # "unborn"}) + 1

Start(next) ==
    /\ status' = [(IF hasCmd THEN Killed ELSE status) EXCEPT ![NextProc] = "running"]
    /\ proc' = NextProc /\ hasCmd' = TRUE /\ dead' = FALSE
    /\ pc' = next
    /\ UNCHANGED <<got, calls>>

StartFails ==
    /\ status' = IF hasCmd THEN Killed ELSE status
    /\ hasCmd' = FALSE
    /\ Return(0)
    /\ UNCHANGED <<proc, dead>>

EnsureStarted(from, next) ==
    /\ pc = from
    /\ IF hasCmd /\ ~dead
       THEN pc' = next /\ UNCHANGED <<status, proc, hasCmd, dead, calls, got>>
       ELSE \/ NextProc <= MaxStarts /\ Start(next)
            \/ StartFails
    /\ UNCHANGED <<bounded, inbox, outbox, computed, pending, frees, mine, others>>

\* flushPendingFree: the queue is emptied before it is sent.
Flush(from, wait, skip) ==
    /\ pc = from
    /\ IF pending
       THEN /\ mine' = Send([kind |-> "clear", call |-> 0])
            /\ pending' = FALSE /\ pc' = wait
       ELSE pc' = skip /\ UNCHANGED <<mine, pending>>
    /\ UNCHANGED <<bounded, procVars, proc, hasCmd, dead, frees, calls, got, others>>

SendOp(from, wait) ==
    /\ pc = from
    /\ mine' = Send([kind |-> "op", call |-> Current]) /\ pc' = wait
    /\ UNCHANGED <<bounded, procVars, backendVars, calls, got, others>>

\* The channel has the line of this request, or an error.
Arrived == mine.at = "done"
Answered == Arrived /\ mine.line # Lost

\* Mutant: no timer at all.
NeverTimedOut == FALSE

\* The timer of the request; its goroutine goes on.
TimedOut == mine.at \in {"write", "look", "read"} /\ WeightOf(mine.req) \in bounded

SendBroke == (Arrived /\ ~Answered) \/ TimedOut

GiveUp == others' = IF Arrived THEN others ELSE others \cup {mine}

Received ==
    /\ mine' = NoSend
    /\ UNCHANGED <<bounded, procVars, proc, hasCmd, pending, frees>>

\* A flush that fails only marks the process; the request is sent to it all
\* the same.
FlushEnds(wait, next) ==
    /\ pc = wait
    /\ \/ Answered /\ UNCHANGED dead
       \/ SendBroke /\ dead' = TRUE
    /\ pc' = next /\ GiveUp /\ Received
    /\ UNCHANGED <<calls, got>>

\* An answer to a clear has no result that decodeResult knows.
Decoded(line) == IF line.kind = "op" THEN line.call ELSE 0

SendAnswered ==
    /\ pc \in {"await", "awaitAgain"} /\ Answered
    /\ Return(Decoded(mine.line))
    /\ Received /\ UNCHANGED <<dead, others>>

\* Mutant: a request with references is sent again as well.
AlwaysRepeats == TRUE

\* A request with references meets an empty cache after a restart.
Repeats == ~HasRef

SendFails ==
    /\ pc = "await" /\ SendBroke
    /\ dead' = TRUE
    /\ IF Repeats THEN pc' = "restart" /\ UNCHANGED <<calls, got>> ELSE Return(0)
    /\ GiveUp /\ Received

\* Only the timer marks the process after the second attempt.
SendFailsAgain ==
    /\ pc = "awaitAgain"
    /\ \/ Arrived /\ ~Answered /\ UNCHANGED dead
       \/ TimedOut /\ dead' = TRUE
    /\ Return(0)
    /\ GiveUp /\ Received

\* drainPendingFree, between two statements.
Drain ==
    /\ pc = "idle" /\ pending
    /\ IF hasCmd /\ ~dead
       THEN pc' = "drain" /\ mine' = Send([kind |-> "clear", call |-> 0])
       ELSE UNCHANGED <<pc, mine>>
    /\ pending' = FALSE
    /\ UNCHANGED <<bounded, procVars, proc, hasCmd, dead, frees, calls, got, others>>

\* The finalizers of the collector.
QueueFree ==
    /\ frees < MaxFrees /\ ~pending
    /\ pending' = TRUE /\ frees' = frees + 1
    /\ UNCHANGED <<bounded, procVars, proc, hasCmd, dead, callVars, mine, others>>

Close ==
    /\ pc = "idle" /\ hasCmd
    /\ status' = Killed /\ hasCmd' = FALSE /\ dead' = TRUE
    /\ UNCHANGED <<bounded, inbox, outbox, computed, proc, pending, frees, callVars, mine, others>>

CallStep ==
    \/ EnsureStarted("ensure", "flush")
    \/ Flush("flush", "awaitClear", "send")
    \/ FlushEnds("awaitClear", "send")
    \/ SendOp("send", "await")
    \/ SendAnswered
    \/ SendFails
    \/ EnsureStarted("restart", "sendAgain")
    \/ SendOp("sendAgain", "awaitAgain")
    \/ SendFailsAgain
    \/ FlushEnds("drain", "idle")

Next ==
    \/ \E p \in Procs : Serve(p) \/ Die(p)
    \/ \E g \in others \cup {mine} : Goroutine(g)
    \/ \E c \in Call : Begin(c)
    \/ CallStep
    \/ Drain
    \/ QueueFree
    \/ Close

Spec == Init /\ [][Next]_vars

\* The call is scheduled, and so is the goroutine it waits for.  Where there
\* is no timer a process must answer what it reads, or die.
ServeUntimed == bounded = {} /\ \E p \in Procs : Serve(p)
Fairness ==
    /\ WF_vars(CallStep)
    /\ WF_vars(Goroutine(mine))
    /\ WF_vars(ServeUntimed)

FairSpec == Spec /\ Fairness

-----------------------------------------------------------------------------

\* Every call ends with the answer to its own request or with an error,
\* whatever lines are late, lost to a goroutine of an earlier request or out
\* of order, and no request with references is computed twice (roundtrip's
\* rule "one request, one response, a single restart attempt").
Service == INSTANCE CallService WITH
    Calls <- CallNumbers,
    asked <- IF pc \in {"idle", "drain"} THEN 0 ELSE Current,
    limit <- [c \in CallNumbers |->
                IF c > Len(calls) THEN 0 ELSE IF calls[c].hasRef THEN 1 ELSE 2]

ImplementsService == Service!ServiceSpec

\* A call ends when both kinds of op have a timer, whatever the process does,
\* and when none has one, as long as a process answers or dies.  With one
\* timer only, an answer may go to a goroutine that was given up, and an op
\* without a timer waits for ever.
CallEnds == bounded \in {{}, Weights} => (pc # "idle" ~> pc = "idle")
=============================================================================
