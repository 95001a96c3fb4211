------------------------------ MODULE SageRefs ------------------------------
(***************************************************************************)
(* Expression handles between the Go interpreter and the Sage process      *)
(* (src/src/sage_cas.go, src/cas/sage_server.py).                          *)
(*                                                                         *)
(* A large result stays in the CACHE of the Sage process and Go keeps a    *)
(* SageRef: the id of the entry, the server generation and the clear epoch *)
(* it was issued in.  A SageRef is sent back by id, read once with         *)
(* "materialize", and its entry is freed after the Go object has been      *)
(* garbage-collected.  The process may die or be killed after a timeout    *)
(* and is restarted with an empty cache and ids counted from 1 again.      *)
(*                                                                         *)
(* Expressions are numbered in the order the server computes them, and a   *)
(* SageRef is named by the expression it was issued for: "handle h" is the *)
(* SageRef that stands for expression h, so reading h is right exactly     *)
(* when the answer is h.  The number is a ghost: neither program sees it.  *)
(*                                                                         *)
(* The interpreter is one goroutine and the only caller of the backend, so *)
(* s.mu is never contended; the finalizer goroutine, the garbage collector *)
(* and the death of the process interleave with every step of a call.      *)
(***************************************************************************)
EXTENDS Naturals, FiniteSets

CONSTANTS
  MaxExprs,   \* bound: expressions the server keeps as refs in one run
  MaxGen,     \* bound: starts of the server process
  MaxEpoch,   \* bound: whole-cache clears
  MaxArgs,    \* bound: SageRef operands of one call
  Crashes,    \* the Sage process may die, or fail to start
  Timeouts,   \* OPENMAPLE_SAGE_TIMEOUT is set to a finite budget
  Coarse      \* OPENMAPLE_REF_COARSE_CLEAR is set

ASSUME BoundsAssumption ==
  /\ MaxExprs \in Nat
  /\ MaxGen \in Nat \ {0}
  /\ MaxEpoch \in Nat
  /\ MaxArgs \in Nat
ASSUME ModeAssumption ==
  /\ Crashes \in BOOLEAN
  /\ Timeouts \in BOOLEAN
  /\ Coarse \in BOOLEAN

Exprs == 1..MaxExprs
Missing == 0                \* no such entry / not materialized / no new ref
Ids == 1..MaxExprs          \* an id is never larger than the number of refs

VARIABLES
  \* The Sage process.
  alive,        \* the process behind s.cmd is running
  cache,        \* CACHE: id -> expression, or Missing
  nextRef,      \* _NEXT_REF
  made,         \* ghost: expressions put in a cache so far
  \* SageBackend.
  started,      \* s.cmd # nil
  dead,         \* s.dead
  generation,   \* s.generation
  clearEpoch,   \* s.clearEpoch
  pendingFree,  \* s.pendingFree, as the handles whose id is queued
  late,         \* the answer of a timed-out flush is still on the pipe
  \* Go objects, one SageRef per expression Go was told of.
  ref,          \* id, gen and ce of the SageRef
  holder,       \* what keeps the SageRef reachable
  val,          \* its materialized value, or Missing
  \* The interpreter goroutine.
  pc,
  call,         \* the request being made
  reply         \* the response send returned

serverVars == <<alive, cache, nextRef, made>>
backendVars == <<started, dead, generation, clearEpoch, pendingFree, late>>
objectVars == <<ref, holder, val>>
callVars == <<pc, call, reply>>
vars == <<serverVars, backendVars, objectVars, callVars>>

Kinds == {"op", "materialize", "clear", "drain"}
Held == {"stack", "global", "closure"}
EmptyCache == [i \in Ids |-> Missing]
NoCall == [kind |-> "op", args |-> {}]
NoReply == [ok |-> FALSE, got |-> [h \in Exprs |-> Missing],
            new |-> Missing, id |-> Missing]

TypeOK ==
  /\ alive \in BOOLEAN
  /\ cache \in [Ids -> Exprs \cup {Missing}]
  /\ nextRef \in 1..(MaxExprs + 1)
  /\ made \in 0..MaxExprs
  /\ started \in BOOLEAN
  /\ dead \in BOOLEAN
  /\ generation \in 0..MaxGen
  /\ clearEpoch \in 0..MaxEpoch
  /\ pendingFree \in SUBSET Exprs
  /\ late \in BOOLEAN
  /\ ref \in [Exprs -> [id : Ids \cup {Missing}, gen : 0..MaxGen, ce : 0..MaxEpoch]]
  /\ holder \in [Exprs -> Held \cup {"none", "garbage", "freed"}]
  /\ val \in [Exprs -> Exprs \cup {Missing}]
  /\ pc \in {"idle", "locked", "flush", "send", "resend", "reply", "halted"}
  /\ call \in [kind : Kinds, args : SUBSET Exprs]
  /\ reply \in [ok : BOOLEAN, got : [Exprs -> Exprs \cup {Missing}],
                new : Exprs \cup {Missing}, id : Ids \cup {Missing}]

Init ==
  /\ alive = FALSE /\ cache = EmptyCache /\ nextRef = 1 /\ made = 0
  /\ started = FALSE /\ dead = FALSE /\ generation = 0 /\ clearEpoch = 0
  /\ pendingFree = {} /\ late = FALSE
  /\ ref = [h \in Exprs |-> [id |-> Missing, gen |-> 0, ce |-> 0]]
  /\ holder = [h \in Exprs |-> "none"]
  /\ val = [h \in Exprs |-> Missing]
  /\ pc = "idle" /\ call = NoCall /\ reply = NoReply


-----------------------------------------------------------------------------
(* Helpers *)

\* Faults for mutation: one of the two tests forgotten.
LiveAcrossRestarts(h) == ref[h].ce = clearEpoch
LiveAcrossClears(h) == ref[h].gen = generation

\* encodeArg's test that the server entry is still there.
Live(h) == ref[h].gen = generation /\ ref[h].ce = clearEpoch

\* SageRef.materialized: the value was already fetched into Go.
Materialized(h) == val[h] # Missing

\* req.hasRef: set from refArgsSent for an op, never for materialize or clear.
HasRef == call.kind = "op" /\ call.args # {}

\* Where an error of the call leaves the interpreter.  A failed op is returned
\* to builtins that go on without it (refEqual, refSubs) and to finally blocks,
\* or ends the run (casArith panics); a failed materialize always panics, and a
\* failed clear makes ExecProgram return.
AfterError == IF call.kind = "op" THEN {"idle", "halted"} ELSE {"halted"}

\* Faults for mutation: clear ignores its ids, or the request is not sent.
EvictedAll(c) == EmptyCache
EvictedNone(c) == c

\* The ids the queue holds carry no generation.
QueuedIds == {ref[h].id : h \in pendingFree}
Evicted(c) == [i \in Ids |-> IF i \in QueuedIds THEN Missing ELSE c[i]]

-----------------------------------------------------------------------------
(* The interpreter between calls *)

\* Call: encode the operands.  A handle whose generation and epoch still match
\* goes by id; one that was materialized goes as its string; any other makes
\* Call return an error before it changes anything.
EncodeOp(A) ==
  /\ pc = "idle"
  /\ Cardinality(A) <= MaxArgs
  /\ \A h \in A : holder[h] \in Held /\ (Live(h) \/ Materialized(h))
  /\ call' = [kind |-> "op", args |-> {h \in A : Live(h)}]
  /\ pc' = "locked"
  /\ UNCHANGED <<serverVars, backendVars, objectVars, reply>>

\* concrete: the first inspection of a handle asks the server for its value.
Materialize(h) ==
  /\ pc = "idle"
  /\ holder[h] \in Held
  /\ ~Materialized(h)
  /\ call' = [kind |-> "materialize", args |-> {h}]
  /\ pc' = "locked"
  /\ UNCHANGED <<serverVars, backendVars, objectVars, reply>>

\* An assignment, or the capture of a local by a procedure value or a remember
\* table, changes what keeps a handle reachable.
Bind(h, where) ==
  /\ pc = "idle"
  /\ holder[h] \in Held
  /\ where \in Held \ {"stack", holder[h]}
  /\ holder' = [holder EXCEPT ![h] = where]
  /\ UNCHANGED <<serverVars, backendVars, ref, val, callVars>>

\* The last reference to a handle goes away.
Drop(h) ==
  /\ pc = "idle"
  /\ holder[h] \in Held
  /\ holder' = [holder EXCEPT ![h] = "garbage"]
  /\ UNCHANGED <<serverVars, backendVars, ref, val, callVars>>

\* Between two statements nothing is held by a stack frame any more.
AtBoundary == pc = "idle" /\ \A h \in Exprs : holder[h] # "stack"

\* ExecProgram, default mode: drainPendingFree after each statement.  It drops
\* the queue when no live server is known.
Drain ==
  /\ ~Coarse
  /\ AtBoundary
  /\ IF started /\ ~dead
       THEN /\ call' = [kind |-> "drain", args |-> {}]
            /\ pc' = "flush"
            /\ UNCHANGED pendingFree
       ELSE /\ pendingFree' = {}
            /\ UNCHANGED <<pc, call>>
  /\ UNCHANGED <<serverVars, started, dead, generation, clearEpoch, late,
                 objectVars, reply>>

\* ExecProgram, coarse mode: materializeLiveRefs has read every handle that a
\* global or the history holds (one Materialize call each), then ClearCache
\* sends a clear without ids.
ClearCache ==
  /\ Coarse
  /\ AtBoundary
  /\ clearEpoch < MaxEpoch
  /\ \A h \in Exprs : holder[h] = "global" => Materialized(h)
  /\ call' = [kind |-> "clear", args |-> {}]
  /\ pc' = "locked"
  /\ UNCHANGED <<serverVars, backendVars, objectVars, reply>>

\* The program ends; Close kills the server.
Exit ==
  /\ pc = "idle"
  /\ pc' = "halted"
  /\ UNCHANGED <<serverVars, backendVars, objectVars, call, reply>>

-----------------------------------------------------------------------------
(* One call: roundtrip, send, decodeResult *)

\* Fault for mutation: a restart does not bump the generation.
StartUnnoticed ==
  /\ alive' = TRUE /\ cache' = EmptyCache /\ nextRef' = 1
  /\ started' = TRUE /\ dead' = FALSE /\ late' = FALSE
  /\ UNCHANGED generation

\* start: a new process with an empty cache whose ids begin at 1 again.
Start ==
  /\ alive' = TRUE /\ cache' = EmptyCache /\ nextRef' = 1
  /\ started' = TRUE /\ dead' = FALSE /\ late' = FALSE
  /\ generation' = generation + 1

\* ensureStarted killed the old process and start returned an error.
StartFails ==
  /\ Crashes
  /\ alive' = FALSE /\ cache' = EmptyCache
  /\ started' = FALSE
  /\ UNCHANGED <<nextRef, dead, late, generation>>

\* roundtrip takes s.mu and calls ensureStarted.
EnsureStarted ==
  /\ pc = "locked"
  /\ \/ /\ started /\ ~dead
        /\ pc' = "flush"
        /\ UNCHANGED <<serverVars, backendVars>>
     \/ /\ ~started \/ dead
        /\ Start
        /\ pc' = "flush"
        /\ UNCHANGED <<made, clearEpoch, pendingFree>>
     \/ /\ ~started \/ dead
        /\ StartFails
        /\ pc' \in AfterError
        /\ UNCHANGED <<made, clearEpoch, pendingFree>>
  /\ UNCHANGED <<objectVars, call, reply>>

\* A send can fail because the process is gone or because its budget ran out.
CanFail == ~alive \/ (Timeouts /\ generation < MaxGen)

\* flushPendingFree: one clear for every queued id.  Its error is swallowed, so
\* the caller's own request follows either way.
Flush ==
  /\ pc = "flush"
  /\ pc' = IF call.kind = "drain" THEN "idle" ELSE "send"
  /\ pendingFree' = {}
  /\ cache' = Evicted(cache)
  /\ \/ /\ pendingFree = {} \/ alive
        /\ UNCHANGED <<dead, late>>
     \/ /\ pendingFree # {} /\ CanFail
        /\ dead' = TRUE
        /\ late' = alive
  /\ UNCHANGED <<alive, nextRef, made, started, generation, clearEpoch,
                 objectVars, call, reply>>

\* What the id of handle h denotes on the server now.
Resolve(h) == cache[ref[h].id]

\* Fault for mutation: the new id is read after the counter was advanced.
AnswerNextId(ok, new) ==
  [ok |-> ok,
   got |-> [h \in Exprs |-> IF h \in call.args THEN Resolve(h) ELSE Missing],
   new |-> new,
   id |-> IF new = Missing THEN Missing ELSE nextRef + 1]

Answer(ok, new) ==
  [ok |-> ok,
   got |-> [h \in Exprs |-> IF h \in call.args THEN Resolve(h) ELSE Missing],
   new |-> new,
   id |-> IF new = Missing THEN Missing ELSE nextRef]

\* Fault for mutation: the counter stays.
CachePutSameId(e) ==
  /\ cache' = [cache EXCEPT ![nextRef] = e]
  /\ UNCHANGED nextRef

\* cache_put: ids are counted up and never used again by one process.
CachePut(e) ==
  /\ cache' = [cache EXCEPT ![nextRef] = e]
  /\ nextRef' = nextRef + 1

\* The server handles the request and send reads one line of its answers.  An
\* unknown id is a hard error; after a timed-out flush the line read may be the
\* flush's own answer, which decodeResult rejects and ClearCache takes for its own.
Handle ==
  /\ pc \in {"send", "resend"}
  /\ alive
  /\ pc' = "reply"
  /\ \/ \* cache_get raised KeyError
        /\ \E h \in call.args : Resolve(h) = Missing
        /\ reply' = Answer(FALSE, Missing)
        /\ UNCHANGED <<cache, nextRef, made>>
     \/ \* the op raised, or the line read answers the flush
        /\ call.kind = "op" \/ (call.kind = "materialize" /\ late)
        /\ reply' = Answer(FALSE, Missing)
        /\ UNCHANGED <<cache, nextRef, made>>
     \/ \* a value small enough to travel inline, or the string of a ref
        /\ call.kind # "clear"
        /\ \A h \in call.args : Resolve(h) # Missing
        /\ reply' = Answer(TRUE, Missing)
        /\ UNCHANGED <<cache, nextRef, made>>
     \/ \* a large value: cache_put and a new handle
        /\ call.kind = "op"
        /\ \A h \in call.args : Resolve(h) # Missing
        /\ made < MaxExprs
        /\ made' = made + 1
        /\ CachePut(made + 1)
        /\ reply' \in {Answer(TRUE, made + 1)} \cup
                        (IF late THEN {Answer(FALSE, Missing)} ELSE {})
     \/ \* clear() without ids drops everything
        /\ call.kind = "clear"
        /\ cache' = EmptyCache
        /\ reply' = Answer(TRUE, Missing)
        /\ UNCHANGED <<nextRef, made>>
  /\ UNCHANGED <<alive, backendVars, objectVars, call>>

\* The first send failed.  A request that carries a handle is given up; any
\* other is sent once more to a fresh process.
SendFails ==
  /\ pc = "send"
  /\ CanFail
  /\ \/ /\ HasRef
        /\ dead' = TRUE
        /\ pc' \in AfterError
        /\ UNCHANGED <<serverVars, started, generation, late>>
     \/ /\ ~HasRef
        /\ Start
        /\ pc' = "resend"
        /\ UNCHANGED made
     \/ /\ ~HasRef
        /\ Crashes
        /\ alive' = FALSE /\ cache' = EmptyCache
        /\ started' = FALSE /\ dead' = TRUE
        /\ pc' \in AfterError
        /\ UNCHANGED <<nextRef, made, generation, late>>
  /\ UNCHANGED <<clearEpoch, pendingFree, objectVars, call, reply>>

\* The second send failed: only a timeout leaves s.dead set.
ResendFails ==
  /\ pc = "resend"
  /\ CanFail
  /\ dead' = alive
  /\ pc' \in AfterError
  /\ UNCHANGED <<serverVars, started, generation, clearEpoch, pendingFree, late,
                 objectVars, call, reply>>

\* Call, materialize and ClearCache take up the response.  decodeResult stamps a
\* new SageRef with the generation and epoch of this moment.
Decode ==
  /\ pc = "reply"
  /\ \/ /\ ~reply.ok
        /\ pc' \in AfterError
        /\ UNCHANGED <<clearEpoch, objectVars>>
     \/ /\ reply.ok
        /\ call.kind = "op"
        /\ pc' = "idle"
        /\ IF reply.new = Missing
             THEN UNCHANGED objectVars
             ELSE /\ ref' = [ref EXCEPT ![reply.new] =
                               [id |-> reply.id, gen |-> generation, ce |-> clearEpoch]]
                  /\ holder' = [holder EXCEPT ![reply.new] = "stack"]
                  /\ UNCHANGED val
        /\ UNCHANGED clearEpoch
     \/ /\ reply.ok
        /\ call.kind = "materialize"
        /\ pc' = "idle"
        /\ val' = [h \in Exprs |-> IF h \in call.args THEN reply.got[h] ELSE val[h]]
        /\ UNCHANGED <<clearEpoch, ref, holder>>
     \/ /\ reply.ok
        /\ call.kind = "clear"
        /\ pc' = "idle"
        /\ clearEpoch' = clearEpoch + 1
        /\ UNCHANGED objectVars
  /\ reply' = NoReply
  /\ call' = NoCall
  /\ UNCHANGED <<serverVars, started, dead, generation, pendingFree, late>>

-----------------------------------------------------------------------------
(* What runs beside the interpreter goroutine *)

\* Once Call has encoded its operands nothing in it keeps them alive: there is
\* no runtime.KeepAlive, so an operand that only the argument slice held becomes
\* unreachable while its own request is on the way.
OperandDies(h) ==
  /\ pc \in {"locked", "flush", "send", "resend", "reply"}
  /\ call.kind = "op"
  /\ h \in call.args
  /\ holder[h] = "stack"
  /\ holder' = [holder EXCEPT ![h] = "garbage"]
  /\ UNCHANGED <<serverVars, backendVars, ref, val, callVars>>

\* The collector finds the SageRef unreachable and its finalizer queues the id.
Finalize(h) ==
  /\ pc # "halted"
  /\ holder[h] = "garbage"
  /\ holder' = [holder EXCEPT ![h] = "freed"]
  /\ pendingFree' = pendingFree \cup {h}
  /\ UNCHANGED <<serverVars, started, dead, generation, clearEpoch, late,
                 ref, val, callVars>>

\* The Sage process dies.
Crash ==
  /\ Crashes
  /\ pc # "halted"
  /\ alive
  /\ generation < MaxGen
  /\ alive' = FALSE
  /\ cache' = EmptyCache
  /\ UNCHANGED <<nextRef, made, backendVars, objectVars, callVars>>

Halted == pc = "halted" /\ UNCHANGED vars

CallStep == EnsureStarted \/ Flush \/ Handle \/ SendFails \/ ResendFails \/ Decode

Next ==
  \/ \E A \in SUBSET Exprs : EncodeOp(A)
  \/ \E h \in Exprs : Materialize(h) \/ Drop(h) \/ OperandDies(h) \/ Finalize(h)
  \/ \E h \in Exprs, where \in Held : Bind(h, where)
  \/ Drain
  \/ ClearCache
  \/ CallStep
  \/ Crash
  \/ Exit
  \/ Halted

Spec == Init /\ [][Next]_vars

-----------------------------------------------------------------------------
(* Properties *)

\* Every handle operand of an answered op was resolved by the server to the
\* expression the handle stands for: an op never computes with another
\* expression, whatever dies, restarts, is freed or is cleared on the way
\* (encodeArg's generation test and roundtrip's refusal to resend).
OpResolvesOwn ==
  (pc = "reply" /\ call.kind = "op" /\ reply.ok) =>
    \A h \in call.args : reply.got[h] = h

\* A materialized value is the expression of its handle.
ReadsOwn == \A h \in Exprs : val[h] \in {Missing, h}

\* A handle of the running generation that was read was read right: only a read
\* after a restart can go wrong.
ReadsOwnUntilRestart ==
  \A h \in Exprs :
    ref[h].gen = generation => val[h] \in {Missing, h}

\* Between a clear and the epoch it bumps the two sides disagree.
ClearUnacknowledged == pc = "reply" /\ call.kind = "clear" /\ reply.ok

\* While the process runs, a reachable handle whose generation and epoch match
\* has its entry in the cache.
LiveEntryKept ==
  (alive /\ ~ClearUnacknowledged) =>
    \A h \in Exprs :
      (holder[h] \in Held /\ Live(h)) => Resolve(h) = h

\* The same with restarts: an entry of a live handle is missing only because the
\* queue held the same id for a handle of an earlier generation.
LostOnlyToStaleFree ==
  (alive /\ ~ClearUnacknowledged) =>
    \A h \in Exprs :
      (holder[h] \in Held /\ Live(h) /\ Resolve(h) # h) =>
        /\ Resolve(h) = Missing
        /\ \E g \in Exprs : /\ holder[g] = "freed"
                            /\ ref[g].gen < ref[h].gen
                            /\ ref[g].id = ref[h].id

\* The cache of a server in good standing holds nothing but entries of handles
\* that are reachable, are still to be collected, are queued, or are just being
\* returned: no entry outlives its handle and the flush after it.
NoOrphanEntry ==
  (alive /\ ~dead) =>
    \A i \in Ids :
      cache[i] # Missing =>
        \/ holder[cache[i]] \in Held \cup {"garbage"}
        \/ cache[i] \in pendingFree
        \/ pc = "reply" /\ reply.new = cache[i]

\* A clear of the whole cache strands no handle that is still referenced, as
\* materializeLiveRefs (interp.go) has it.  The code breaks this: a handle that
\* only a closure or a remember table keeps has no entry left, and reading it
\* fails.
NoneStranded ==
  (alive /\ ~ClearUnacknowledged) =>
    \A h \in Exprs :
      (holder[h] \in Held /\ ref[h].gen = generation) => Materialized(h) \/ Resolve(h) = h

\* An encoded operand whose generation and epoch still match when the request is
\* sent is still in the cache of a running process.  The code breaks this: nothing
\* keeps an operand reachable between encodeArgs and the flush.
OperandsSurviveFlush ==
  (pc = "send" /\ call.kind = "op" /\ alive) =>
    \A h \in call.args : Live(h) => Resolve(h) = h

=============================================================================
