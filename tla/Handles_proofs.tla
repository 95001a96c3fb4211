--------------------------- MODULE Handles_proofs ---------------------------
(***************************************************************************)
(* Proofs about the handles and what is built on them, for every number of *)
(* expressions, restarts, clears and operands, and in every mode: SageRefs *)
(* itself, SageRefs as an implementation of HandleStore, and what an id in *)
(* the remember table can stand for.                                       *)
(***************************************************************************)
EXTENDS SageRefsStore, Remember, TLAPS

-----------------------------------------------------------------------------
(* Types *)

\* A process that is down, or believed down, can still be started within the
\* bound; a new id fits in Ids; an unfinished clear can still bump the epoch.
Budget ==
  /\ (dead \/ ~alive \/ ~started) => generation < MaxGen
  /\ nextRef <= made + 1
  /\ call.kind = "clear" => clearEpoch < MaxEpoch

\* Every SageRef Go was given carries an id, and so does a new one in a response.
Handed ==
  /\ \A h \in Exprs : holder[h] # "none" => ref[h].id \in Ids
  /\ \A h \in call.args : holder[h] # "none"
  /\ reply.new # Missing => reply.id \in Ids

TypeInv == TypeOK /\ Budget /\ Handed

LEMMA InitTypes == Init => TypeInv
  <1> SUFFICES ASSUME Init PROVE TypeInv
    OBVIOUS
  <1>1. Budget
    BY BoundsAssumption DEF Init, Budget, NoCall
  <1>0. Handed
    BY DEF Init, Handed, NoCall, NoReply
  <1>2. /\ cache \in [Ids -> Exprs \cup {Missing}]
        /\ val \in [Exprs -> Exprs \cup {Missing}]
        /\ holder \in [Exprs -> Held \cup {"none", "garbage", "freed"}]
        /\ call \in [kind : Kinds, args : SUBSET Exprs]
    BY DEF Init, EmptyCache, NoCall, Kinds
  <1>3. /\ nextRef \in 1..(MaxExprs + 1)
        /\ made \in 0..MaxExprs
        /\ generation \in 0..MaxGen
        /\ clearEpoch \in 0..MaxEpoch
    BY BoundsAssumption DEF Init
  <1>4. ref \in [Exprs -> [id : Ids \cup {Missing}, gen : 0..MaxGen, ce : 0..MaxEpoch]]
    BY BoundsAssumption DEF Init
  <1>5. reply \in [ok : BOOLEAN, got : [Exprs -> Exprs \cup {Missing}],
                   new : Exprs \cup {Missing}, id : Ids \cup {Missing}]
    BY DEF Init, NoReply
  <1>6. QED
    BY <1>0, <1>1, <1>2, <1>3, <1>4, <1>5 DEF Init, TypeInv, TypeOK

\* What the server can hand out while the bound allows it.
LEMMA FreshInRange ==
  ASSUME TypeInv, made < MaxExprs
  PROVE  /\ made + 1 \in Exprs
         /\ nextRef \in Ids
         /\ nextRef + 1 \in 1..(MaxExprs + 1)
         /\ nextRef + 1 <= made + 2
         /\ made + 1 \in 0..MaxExprs
  BY BoundsAssumption DEF TypeInv, TypeOK, Budget, Exprs, Ids

LEMMA StartTypes ==
  ASSUME TypeInv, Start, generation < MaxGen
  PROVE  /\ alive' \in BOOLEAN
         /\ cache' \in [Ids -> Exprs \cup {Missing}]
         /\ nextRef' \in 1..(MaxExprs + 1)
         /\ started' \in BOOLEAN
         /\ dead' \in BOOLEAN
         /\ late' \in BOOLEAN
         /\ generation' \in 0..MaxGen
         /\ ~(dead' \/ ~alive' \/ ~started')
         /\ nextRef' <= made + 1
  <1> USE DEF Start
  <1>1. cache' \in [Ids -> Exprs \cup {Missing}]
    BY DEF EmptyCache
  <1>2. nextRef' \in 1..(MaxExprs + 1) /\ nextRef' <= made + 1
    BY BoundsAssumption DEF TypeInv, TypeOK
  <1>3. generation' \in 0..MaxGen
    BY BoundsAssumption DEF TypeInv, TypeOK
  <1>4. QED
    BY <1>1, <1>2, <1>3

\* A server that is gone has no entries.
LEMMA StopTypes ==
  ASSUME cache' = EmptyCache
  PROVE  cache' \in [Ids -> Exprs \cup {Missing}]
  BY DEF EmptyCache

LEMMA AnswerTypes ==
  ASSUME TypeInv, NEW ok \in BOOLEAN, NEW new \in Exprs \cup {Missing},
         new = Missing \/ nextRef \in Ids
  PROVE  Answer(ok, new) \in [ok : BOOLEAN, got : [Exprs -> Exprs \cup {Missing}],
                              new : Exprs \cup {Missing}, id : Ids \cup {Missing}]
  <1>1. \A h \in call.args : Resolve(h) \in Exprs \cup {Missing}
    BY DEF TypeInv, TypeOK, Handed, Resolve
  <1>2. QED
    BY <1>1 DEF Answer

LEMMA NextTypes == TypeInv /\ [Next]_vars => TypeInv'
  <1> SUFFICES ASSUME TypeInv, [Next]_vars PROVE TypeInv'
    OBVIOUS
  <1> USE BoundsAssumption, ModeAssumption
      DEF TypeInv, TypeOK, Budget, Handed, serverVars, backendVars, objectVars, callVars
  <1>1. ASSUME NEW A \in SUBSET Exprs, EncodeOp(A) PROVE TypeInv'
    BY <1>1 DEF EncodeOp, Kinds, Held
  <1>2. ASSUME NEW h \in Exprs, Materialize(h) PROVE TypeInv'
    BY <1>2 DEF Materialize, Kinds, Held
  <1>3. ASSUME NEW h \in Exprs, NEW where \in Held, Bind(h, where) PROVE TypeInv'
    BY <1>3 DEF Bind, Held
  <1>4. ASSUME NEW h \in Exprs, Drop(h) PROVE TypeInv'
    BY <1>4 DEF Drop, Held
  <1>5. ASSUME NEW h \in Exprs, OperandDies(h) PROVE TypeInv'
    BY <1>5 DEF OperandDies
  <1>6. ASSUME NEW h \in Exprs, Finalize(h) PROVE TypeInv'
    BY <1>6 DEF Finalize
  <1>7. CASE Drain
    BY <1>7 DEF Drain, Kinds
  <1>8. CASE ClearCache
    BY <1>8 DEF ClearCache, Kinds
  <1>9. CASE EnsureStarted
    <2>1. CASE started /\ ~dead
      <3>1. UNCHANGED <<serverVars, backendVars>> /\ pc' = "flush"
        BY <1>9, <2>1, ~(~started \/ dead) DEF EnsureStarted
      <3>2. QED
        BY <1>9, <3>1 DEF EnsureStarted
    <2>2. CASE (~started \/ dead) /\ Start /\ pc' = "flush"
      BY <1>9, <2>2, StartTypes DEF EnsureStarted
    <2>3. CASE (~started \/ dead) /\ StartFails /\ pc' \in AfterError
      BY <1>9, <2>3, StopTypes DEF EnsureStarted, StartFails, AfterError
    <2>4. QED
      BY <1>9, <2>1, <2>2, <2>3 DEF EnsureStarted
  <1>10. CASE Flush
    <2>1. cache' \in [Ids -> Exprs \cup {Missing}]
      BY <1>10 DEF Flush, Evicted
    <2>2. dead' \in BOOLEAN /\ late' \in BOOLEAN
      BY <1>10 DEF Flush
    <2>3. Budget'
      BY <1>10 DEF Flush, CanFail
    <2>4. QED
      BY <1>10, <2>1, <2>2, <2>3 DEF Flush
  <1>11. CASE Handle
    <2>1. \A ok \in BOOLEAN : /\ Answer(ok, Missing).new = Missing
                              /\ Answer(ok, Missing) \in
                                   [ok : BOOLEAN, got : [Exprs -> Exprs \cup {Missing}],
                                    new : Exprs \cup {Missing}, id : Ids \cup {Missing}]
      BY AnswerTypes DEF Answer
    <2>2. CASE /\ \E ok \in BOOLEAN : reply' = Answer(ok, Missing)
               /\ UNCHANGED <<cache, nextRef, made>>
      BY <1>11, <2>1, <2>2 DEF Handle, CachePut
    <2>3. CASE /\ made < MaxExprs
               /\ made' = made + 1
               /\ cache' = [cache EXCEPT ![nextRef] = made + 1]
               /\ nextRef' = nextRef + 1
               /\ reply' \in {Answer(TRUE, made + 1), Answer(FALSE, Missing)}
      <3>1. reply' \in [ok : BOOLEAN, got : [Exprs -> Exprs \cup {Missing}],
                        new : Exprs \cup {Missing}, id : Ids \cup {Missing}]
        <4>1. made + 1 \in Exprs /\ nextRef \in Ids
          BY <2>3, FreshInRange
        <4>2. Answer(TRUE, made + 1) \in
                [ok : BOOLEAN, got : [Exprs -> Exprs \cup {Missing}],
                 new : Exprs \cup {Missing}, id : Ids \cup {Missing}]
          BY <4>1, AnswerTypes
        <4>3. QED
          BY <2>1, <2>3, <4>2
      <3>2. reply'.new # Missing => reply'.id \in Ids
        BY <2>1, <2>3, FreshInRange DEF Answer
      <3>3. cache' \in [Ids -> Exprs \cup {Missing}]
        BY <2>3, FreshInRange
      <3>4. made' \in 0..MaxExprs /\ nextRef' \in 1..(MaxExprs + 1) /\ nextRef' <= made' + 1
        BY <2>3, FreshInRange
      <3>5. QED
        BY <1>11, <3>1, <3>2, <3>3, <3>4 DEF Handle, CachePut
    <2>4. CASE /\ cache' = EmptyCache
               /\ reply' = Answer(TRUE, Missing)
               /\ UNCHANGED <<nextRef, made>>
      <3>1. cache' \in [Ids -> Exprs \cup {Missing}]
        BY <2>4 DEF EmptyCache
      <3>2. QED
        BY <1>11, <2>1, <2>4, <3>1 DEF Handle, CachePut
    <2>5. QED
      BY <1>11, <2>2, <2>3, <2>4 DEF Handle, CachePut
  <1>12. CASE SendFails
    <2>1. generation < MaxGen
      BY <1>12 DEF SendFails, CanFail
    <2>2. CASE HasRef
      BY <1>12, <2>1, <2>2 DEF SendFails, AfterError
    <2>3. CASE Start /\ pc' = "resend" /\ UNCHANGED made
      BY <1>12, <2>1, <2>3, StartTypes DEF SendFails
    <2>4. CASE /\ alive' = FALSE /\ cache' = EmptyCache
               /\ started' = FALSE /\ dead' = TRUE
               /\ pc' \in AfterError
               /\ UNCHANGED <<nextRef, made, generation, late>>
      BY <1>12, <2>1, <2>4, StopTypes DEF SendFails, AfterError
    <2>5. QED
      BY <1>12, <2>2, <2>3, <2>4 DEF SendFails
  <1>13. CASE ResendFails
    BY <1>13 DEF ResendFails, CanFail, AfterError
  <1>14. CASE Decode
    <2>1. /\ reply' \in [ok : BOOLEAN, got : [Exprs -> Exprs \cup {Missing}],
                         new : Exprs \cup {Missing}, id : Ids \cup {Missing}]
          /\ call' \in [kind : Kinds, args : SUBSET Exprs]
          /\ call'.args = {} /\ call'.kind = "op" /\ reply'.new = Missing
      BY <1>14 DEF Decode, NoReply, NoCall, Kinds
    <2>2. clearEpoch' \in 0..MaxEpoch
      BY <1>14 DEF Decode
    <2>3. pc' \in {"idle", "halted"}
      BY <1>14 DEF Decode, AfterError
    <2>4. val' \in [Exprs -> Exprs \cup {Missing}]
      BY <1>14 DEF Decode
    <2>5. /\ ref' \in [Exprs -> [id : Ids \cup {Missing}, gen : 0..MaxGen, ce : 0..MaxEpoch]]
          /\ holder' \in [Exprs -> Held \cup {"none", "garbage", "freed"}]
          /\ \A h \in Exprs : holder'[h] # "none" => ref'[h].id \in Ids
      <3>1. CASE reply.ok /\ call.kind = "op" /\ reply.new # Missing
        <4>1. /\ ref' = [ref EXCEPT ![reply.new] =
                           [id |-> reply.id, gen |-> generation, ce |-> clearEpoch]]
              /\ holder' = [holder EXCEPT ![reply.new] = "stack"]
              /\ reply.new \in Exprs /\ reply.id \in Ids
          BY <1>14, <3>1 DEF Decode
        <4>2. QED
          BY <4>1 DEF Held
      <3>2. CASE ref' = ref /\ holder' = holder
        BY <3>2
      <3>3. QED
        BY <1>14, <3>1, <3>2 DEF Decode
    <2>6. QED
      BY <1>14, <2>1, <2>2, <2>3, <2>4, <2>5 DEF Decode
  <1>15. CASE Crash
    <2>1. alive' \in BOOLEAN /\ cache' \in [Ids -> Exprs \cup {Missing}]
      BY <1>15 DEF Crash, EmptyCache
    <2>2. QED
      BY <1>15, <2>1 DEF Crash
  <1>16. CASE Exit
    BY <1>16 DEF Exit
  <1>17. CASE UNCHANGED vars
    BY <1>17 DEF vars
  <1>18. QED
    BY <1>1, <1>2, <1>3, <1>4, <1>5, <1>6, <1>7, <1>8, <1>9, <1>10, <1>11,
       <1>12, <1>13, <1>14, <1>15, <1>16, <1>17
       DEF Next, CallStep, Halted

LEMMA TypeInvariance == Spec => []TypeInv
  BY InitTypes, NextTypes, PTL DEF Spec

\* Every variable keeps its type: in particular the bounded restarts and clears
\* of the model never run past their bounds, so no step is cut off by them.
THEOREM TypeCorrect == Spec => []TypeOK
  <1>1. TypeInv => TypeOK
    BY DEF TypeInv
  <1>2. QED
    BY <1>1, TypeInvariance, PTL


-----------------------------------------------------------------------------
(* Identity of handles *)

Issued(h) == holder[h] # "none"

\* Ids are unique within a generation and below the counter of the running one.
IdInv ==
  /\ \A h \in Exprs : Issued(h) => /\ 1 <= ref[h].gen /\ ref[h].gen <= generation
                                   /\ ref[h].ce <= clearEpoch
                                   /\ h <= made
  /\ \A h \in Exprs : ~Issued(h) => ref[h].gen = 0 /\ val[h] = Missing
  /\ \A h \in Exprs : (Issued(h) /\ ref[h].gen = generation) => ref[h].id < nextRef
  /\ \A g, h \in Exprs :
       (/\ Issued(g) /\ Issued(h)
        /\ ref[g].gen = ref[h].gen /\ ref[g].id = ref[h].id) => g = h
  /\ alive => 1 <= generation

\* An entry that a handle of the running generation names is its own.
CacheInv ==
  /\ \A i \in Ids : cache[i] # Missing => i < nextRef
  /\ \A h \in Exprs :
       (Issued(h) /\ ref[h].gen = generation) => cache[ref[h].id] \in {Missing, h}

\* A new handle on its way to Go is not known there and names its own entry.
NewInv ==
  (pc = "reply" /\ reply.new # Missing) =>
    /\ reply.ok /\ call.kind = "op"
    /\ 1 <= generation
    /\ ~Issued(reply.new)
    /\ reply.new <= made
    /\ reply.id < nextRef
    /\ cache[reply.id] \in {Missing, reply.new}
    /\ alive => cache[reply.id] = reply.new
    /\ \A h \in Exprs : (Issued(h) /\ ref[h].gen = generation) => ref[h].id # reply.id

\* A handle operand of another generation meets an empty slot, and a request
\* with handles is not sent twice.
ArgInv ==
  /\ (pc \in {"locked", "flush", "send"} /\ call.kind = "op") =>
       \A h \in call.args : ref[h].gen = generation \/ Resolve(h) = Missing
  /\ pc = "resend" => ~HasRef

ReadReplyInv ==
  (pc = "reply" /\ reply.ok /\ call.kind = "materialize") =>
    \A h \in call.args : ref[h].gen = generation => reply.got[h] = h

SafeParts ==
  /\ IdInv /\ CacheInv /\ NewInv /\ ArgInv
  /\ OpResolvesOwn /\ ReadReplyInv /\ ReadsOwnUntilRestart

SafeInv == TypeInv /\ SafeParts


LEMMA InitSafe == Init => SafeInv
  <1> SUFFICES ASSUME Init PROVE SafeInv
    OBVIOUS
  <1>1. TypeInv
    BY InitTypes
  <1>2. IdInv /\ ReadsOwnUntilRestart
    BY DEF Init, IdInv, Issued, ReadsOwnUntilRestart
  <1>3. CacheInv /\ NewInv /\ ArgInv /\ OpResolvesOwn /\ ReadReplyInv
    BY DEF Init, CacheInv, Issued, EmptyCache, NewInv, ArgInv, OpResolvesOwn,
           ReadReplyInv, HasRef, NoCall, NoReply
  <1>4. QED
    BY <1>1, <1>2, <1>3 DEF SafeInv, SafeParts

\* Steps that only change what keeps handles reachable, or the queue.
LEMMA HolderStep ==
  ASSUME SafeInv,
         UNCHANGED <<serverVars, started, dead, generation, clearEpoch, late,
                     ref, val, callVars>>,
         \A h \in Exprs : Issued(h)' <=> Issued(h)
  PROVE  SafeParts'
  <1> USE DEF SafeInv, SafeParts, serverVars, callVars
  <1>1. IdInv'
    BY DEF IdInv
  <1>2. CacheInv'
    BY DEF CacheInv
  <1>3. NewInv'
    BY DEF NewInv, TypeInv, TypeOK
  <1>4. ArgInv' /\ OpResolvesOwn' /\ ReadReplyInv' /\ ReadsOwnUntilRestart'
    BY DEF ArgInv, HasRef, Resolve, OpResolvesOwn, ReadReplyInv, ReadsOwnUntilRestart
  <1>5. QED
    BY <1>1, <1>2, <1>3, <1>4

\* Steps that change neither the server nor the handles nor the response.
LEMMA ControlStep ==
  ASSUME SafeInv,
         UNCHANGED <<serverVars, generation, clearEpoch, objectVars, reply>>,
         pc' # "reply", ArgInv'
  PROVE  SafeParts'
  BY DEF SafeInv, SafeParts, serverVars, objectVars, IdInv, CacheInv, Issued, NewInv,
         OpResolvesOwn, ReadReplyInv, ReadsOwnUntilRestart

\* A new process knows no handle, and no handle is of its generation.
LEMMA StartStep ==
  ASSUME SafeInv, Start, generation < MaxGen,
         UNCHANGED <<made, clearEpoch, objectVars, call, reply>>,
         pc' # "reply", pc' = "resend" => ~HasRef
  PROVE  SafeParts'
  <1> USE DEF SafeInv, SafeParts, objectVars
  <1>0. /\ generation \in Nat /\ generation' = generation + 1
        /\ \A h \in Exprs : ref[h].gen \in Nat /\ ref'[h].gen # generation'
    <2>1. generation \in Nat /\ \A h \in Exprs : ref[h].gen \in Nat
      BY BoundsAssumption DEF TypeInv, TypeOK
    <2>2. QED
      BY <2>1 DEF Start, IdInv
  <1>1. IdInv'
    BY <1>0 DEF IdInv, Issued, Start
  <1>2. CacheInv'
    BY <1>0 DEF CacheInv, Start, EmptyCache
  <1>3. ArgInv'
    <2>1. \A h \in call.args : ref[h].id \in Ids
      BY DEF TypeInv, TypeOK, Handed
    <2>2. QED
      BY <2>1 DEF ArgInv, HasRef, Resolve, Start, EmptyCache
  <1>4. NewInv' /\ OpResolvesOwn' /\ ReadReplyInv'
    BY DEF NewInv, OpResolvesOwn, ReadReplyInv
  <1>5. ReadsOwnUntilRestart'
    BY <1>0 DEF ReadsOwnUntilRestart
  <1>6. QED
    BY <1>1, <1>2, <1>3, <1>4, <1>5

\* Entries may go at any moment outside a response; that never breaks identity.
LEMMA EvictStep ==
  ASSUME SafeInv,
         UNCHANGED <<nextRef, made, generation, clearEpoch, objectVars, call, reply>>,
         \A i \in Ids : cache'[i] \in {Missing, cache[i]},
         alive' => alive,
         pc' = "reply" => pc = "reply" /\ ~alive',
         pc' = "resend" => pc = "resend",
         pc' \in {"locked", "flush", "send"} => pc \in {"locked", "flush", "send"}
  PROVE  SafeParts'
  <1> USE DEF SafeInv, SafeParts, objectVars
  <1>0. /\ \A h \in Exprs : Issued(h) => ref[h].id \in Ids
        /\ \A h \in call.args : ref[h].id \in Ids
        /\ reply.new # Missing => reply.id \in Ids
    BY DEF TypeInv, TypeOK, Handed, Issued
  <1>1. IdInv'
    BY DEF IdInv, Issued
  <1>2. CacheInv'
    BY <1>0 DEF CacheInv, Issued
  <1>3. NewInv'
    BY <1>0 DEF NewInv, Issued
  <1>4. ArgInv'
    BY <1>0 DEF ArgInv, HasRef, Resolve
  <1>5. OpResolvesOwn' /\ ReadReplyInv' /\ ReadsOwnUntilRestart'
    BY DEF OpResolvesOwn, ReadReplyInv, ReadsOwnUntilRestart
  <1>6. QED
    BY <1>1, <1>2, <1>3, <1>4, <1>5


\* The server puts a result in its cache and answers with the new id.
LEMMA NewEntryStep ==
  ASSUME SafeInv, Handle, made < MaxExprs, call.kind = "op",
         \A h \in call.args : Resolve(h) # Missing,
         made' = made + 1,
         cache' = [cache EXCEPT ![nextRef] = made + 1],
         nextRef' = nextRef + 1,
         reply' = Answer(TRUE, made + 1) \/ reply' = Answer(FALSE, Missing)
  PROVE  IdInv' /\ CacheInv' /\ NewInv'
  <1> USE DEF SafeInv, SafeParts, backendVars, objectVars
  <1>1. /\ made + 1 \in Exprs /\ made + 1 # Missing
        /\ nextRef \in Ids /\ nextRef \in Nat /\ made \in Nat /\ generation \in Nat
    <2>1. made \in Nat /\ made < MaxExprs /\ nextRef \in Nat /\ generation \in Nat
      BY BoundsAssumption DEF TypeInv, TypeOK
    <2>2. made + 1 \in Exprs /\ made + 1 # Missing
      BY <2>1, BoundsAssumption DEF Missing, Exprs
    <2>3. nextRef \in Ids
      BY FreshInRange
    <2>4. QED
      BY <2>1, <2>2, <2>3
  <1>2. \A h \in Exprs : /\ h \in Nat /\ ref[h].gen \in Nat
                         /\ ref[h].ce \in Nat
                         /\ Issued(h) => h # made + 1 /\ ref[h].id \in Ids
    BY <1>1, BoundsAssumption DEF Handle, CachePut, Exprs, IdInv, Issued, TypeInv, TypeOK, Handed
  <1>3. /\ generation' = generation /\ alive /\ alive' /\ val' = val
        /\ clearEpoch' = clearEpoch /\ call' = call
        /\ ref' = ref /\ holder' = holder
    BY DEF Handle, CachePut
  <1>4. \A i \in Ids : i \in Nat
    BY DEF Ids
  <1>5. IdInv'
    <2>1. \A h \in Exprs : Issued(h)' <=> Issued(h)
      BY <1>3 DEF Issued
    <2>2. \A h \in Exprs : Issued(h) => h <= made /\ h <= made'
      BY <1>1, <1>2 DEF IdInv
    <2>3. ASSUME NEW h \in Exprs, Issued(h), ref[h].gen = generation
          PROVE  ref[h].id < nextRef'
      <3>1. ref[h].id < nextRef
        BY <2>3 DEF IdInv
      <3>2. ref[h].id \in Nat
        BY <1>2, <1>4, <2>3
      <3>3. QED
        BY <1>1, <3>1, <3>2
    <2>4. QED
      BY <1>3, <2>1, <2>2, <2>3 DEF IdInv
  <1>6. \A i \in Ids : cache'[i] = IF i = nextRef THEN made + 1 ELSE cache[i]
    BY <1>1 DEF TypeInv, TypeOK
  <1>7. CacheInv'
    <2>1. \A i \in Ids : cache'[i] # Missing => i < nextRef'
      BY <1>1, <1>4, <1>6 DEF CacheInv
    <2>2. ASSUME NEW h \in Exprs, Issued(h)', ref'[h].gen = generation'
          PROVE  cache'[ref'[h].id] \in {Missing, h}
      <3>1. Issued(h) /\ ref[h].gen = generation /\ ref[h].id \in Ids
        BY <1>2, <1>3, <2>2 DEF Issued
      <3>2. ref[h].id < nextRef /\ ref[h].id # nextRef
        BY <1>1, <1>4, <3>1 DEF IdInv
      <3>3. QED
        BY <1>3, <1>6, <3>1, <3>2 DEF CacheInv
    <2>3. QED
      BY <2>1, <2>2 DEF CacheInv
  <1>8. NewInv'
    <2>1. CASE reply' = Answer(FALSE, Missing)
      BY <2>1 DEF NewInv, Answer
    <2>2. CASE reply' = Answer(TRUE, made + 1)
      <3>1. reply'.ok /\ reply'.new = made + 1 /\ reply'.id = nextRef
        BY <1>1, <2>2 DEF Answer
      <3>2. \A h \in Exprs : (Issued(h) /\ ref[h].gen = generation) => ref[h].id # nextRef
        BY <1>1, <1>2, <1>4 DEF IdInv
      <3>3. holder[made + 1] = "none"
        BY <1>1, <1>2 DEF Issued
      <3>4. /\ 1 <= generation' /\ made + 1 <= made' /\ nextRef < nextRef'
            /\ cache'[nextRef] = made + 1
        BY <1>1, <1>3, <1>6 DEF IdInv
      <3>5. QED
        BY <1>1, <1>2, <1>3, <3>1, <3>2, <3>3, <3>4 DEF NewInv, Issued
    <2>3. QED
      BY <2>1, <2>2
  <1>9. QED
    BY <1>5, <1>7, <1>8

\* What the answer to a request says of its operands.
LEMMA AnswerStep ==
  ASSUME SafeInv, Handle
  PROVE  ArgInv' /\ OpResolvesOwn' /\ ReadReplyInv' /\ ReadsOwnUntilRestart'
  <1> USE DEF SafeInv, SafeParts, backendVars, objectVars
  <1>1. /\ pc' = "reply" /\ call' = call /\ generation' = generation
        /\ ref' = ref /\ val' = val
        /\ pc \in {"send", "resend"}
    BY DEF Handle, CachePut
  <1>2. ArgInv' /\ ReadsOwnUntilRestart'
    BY <1>1 DEF ArgInv, ReadsOwnUntilRestart
  <1>3. reply'.ok /\ call.kind # "clear" =>
          /\ \A h \in call.args : Resolve(h) # Missing
          /\ \A h \in call.args : reply'.got[h] = Resolve(h)
    BY DEF Handle, CachePut, Answer, TypeInv, TypeOK
  <1>4. ASSUME NEW h \in call.args, ref[h].gen = generation, Resolve(h) # Missing
        PROVE  Resolve(h) = h
    BY <1>4 DEF CacheInv, Issued, Resolve, TypeInv, TypeOK, Handed
  <1>5. OpResolvesOwn'
    <2>1. ASSUME call.kind = "op", reply'.ok, NEW h \in call.args
          PROVE  reply'.got[h] = h
      <3>1. Resolve(h) # Missing /\ reply'.got[h] = Resolve(h)
        BY <1>3, <2>1
      <3>2. CASE pc = "send"
        BY <1>4, <2>1, <3>1, <3>2 DEF ArgInv
      <3>3. CASE pc = "resend"
        BY <2>1, <3>3 DEF ArgInv, HasRef
      <3>4. QED
        BY <1>1, <3>2, <3>3
    <2>2. QED
      BY <1>1, <2>1 DEF OpResolvesOwn
  <1>6. ReadReplyInv'
    BY <1>1, <1>3, <1>4 DEF ReadReplyInv
  <1>7. QED
    BY <1>2, <1>5, <1>6


LEMMA NextSafe == SafeInv /\ [Next]_vars => SafeInv'
  <1> SUFFICES ASSUME SafeInv, [Next]_vars PROVE SafeInv'
    OBVIOUS
  <1> USE DEF SafeParts
  <1>0. TypeInv /\ TypeInv'
    BY NextTypes DEF SafeInv
  <1>s. SUFFICES SafeParts'
    BY <1>0 DEF SafeInv
  <1>t. /\ generation \in Nat /\ MaxGen \in Nat
        /\ (dead \/ ~alive \/ ~started) => generation < MaxGen
    BY <1>0, BoundsAssumption DEF TypeInv, TypeOK, Budget
  <1>1. ASSUME NEW A \in SUBSET Exprs, EncodeOp(A) PROVE SafeParts'
    <2>1. ArgInv'
      BY <1>1 DEF EncodeOp, ArgInv, HasRef, Live, backendVars, objectVars
    <2>2. QED
      BY <1>1, <2>1, ControlStep DEF EncodeOp, backendVars
  <1>2. ASSUME NEW h \in Exprs, Materialize(h) PROVE SafeParts'
    <2>1. ArgInv'
      BY <1>2 DEF Materialize, ArgInv, HasRef
    <2>2. QED
      BY <1>2, <2>1, ControlStep DEF Materialize, backendVars
  <1>3. ASSUME NEW h \in Exprs, NEW where \in Held, Bind(h, where) PROVE SafeParts'
    <2>1. \A g \in Exprs : Issued(g)' <=> Issued(g)
      BY <1>0, <1>3 DEF Bind, Issued, Held, TypeInv, TypeOK
    <2>2. QED
      BY <1>3, <2>1, HolderStep DEF Bind, backendVars
  <1>4. ASSUME NEW h \in Exprs, Drop(h) PROVE SafeParts'
    <2>1. \A g \in Exprs : Issued(g)' <=> Issued(g)
      BY <1>0, <1>4 DEF Drop, Issued, Held, TypeInv, TypeOK
    <2>2. QED
      BY <1>4, <2>1, HolderStep DEF Drop, backendVars
  <1>5. ASSUME NEW h \in Exprs, OperandDies(h) PROVE SafeParts'
    <2>1. \A g \in Exprs : Issued(g)' <=> Issued(g)
      BY <1>0, <1>5 DEF OperandDies, Issued, TypeInv, TypeOK
    <2>2. QED
      BY <1>5, <2>1, HolderStep DEF OperandDies, backendVars
  <1>6. ASSUME NEW h \in Exprs, Finalize(h) PROVE SafeParts'
    <2>1. \A g \in Exprs : Issued(g)' <=> Issued(g)
      BY <1>0, <1>6 DEF Finalize, Issued, TypeInv, TypeOK
    <2>2. QED
      BY <1>6, <2>1, HolderStep DEF Finalize
  <1>7. CASE Drain
    <2>1. ArgInv'
      BY <1>7 DEF Drain, AtBoundary, ArgInv, HasRef
    <2>2. pc' # "reply"
      BY <1>7 DEF Drain, AtBoundary
    <2>3. QED
      BY <1>7, <2>1, <2>2, ControlStep DEF Drain
  <1>8. CASE ClearCache
    <2>1. ArgInv'
      BY <1>8 DEF ClearCache, ArgInv, HasRef
    <2>2. QED
      BY <1>8, <2>1, ControlStep DEF ClearCache, backendVars
  <1>9. CASE EnsureStarted
    <2>1. pc' \notin {"reply", "send", "resend", "locked"} /\ pc = "locked"
      BY <1>9 DEF EnsureStarted, AfterError
    <2>2. CASE UNCHANGED <<serverVars, backendVars>>
      <3>1. ArgInv'
        BY <1>9, <2>1, <2>2 DEF EnsureStarted, SafeInv, ArgInv, HasRef, Resolve,
           serverVars, backendVars, objectVars
      <3>2. QED
        BY <1>9, <2>1, <2>2, <3>1, ControlStep DEF EnsureStarted, backendVars
    <2>3. CASE (~started \/ dead) /\ Start /\ UNCHANGED <<made, clearEpoch, pendingFree>>
      BY <1>9, <1>t, <2>1, <2>3, StartStep DEF EnsureStarted
    <2>4. CASE (~started \/ dead) /\ StartFails /\ UNCHANGED <<made, clearEpoch, pendingFree>>
      <3>1. \A i \in Ids : cache'[i] = Missing
        BY <2>4 DEF StartFails, EmptyCache
      <3>2. pc = "locked"
        BY <1>9 DEF EnsureStarted
      <3>3. QED
        BY <1>9, <2>1, <2>4, <3>1, <3>2, EvictStep DEF EnsureStarted, StartFails
    <2>5. QED
      BY <1>9, <2>2, <2>3, <2>4 DEF EnsureStarted
  <1>10. CASE Flush
    <2>1. \A i \in Ids : cache'[i] \in {Missing, cache[i]}
      BY <1>10 DEF Flush, Evicted
    <2>2. QED
      BY <1>10, <2>1, EvictStep DEF Flush
  <1>11. CASE Handle
    <2>1. ArgInv' /\ OpResolvesOwn' /\ ReadReplyInv' /\ ReadsOwnUntilRestart'
      BY <1>11, AnswerStep
    <2>2. CASE (\E ok \in BOOLEAN : reply' = Answer(ok, Missing)) /\ UNCHANGED <<cache, nextRef, made>>
      <3>1. IdInv' /\ CacheInv'
        BY <1>11, <2>2 DEF Handle, CachePut, SafeInv, backendVars, objectVars, IdInv, CacheInv, Issued
      <3>2. NewInv'
        BY <2>2 DEF Answer, NewInv
      <3>3. QED
        BY <2>1, <3>1, <3>2
    <2>3. CASE /\ call.kind = "op" /\ made < MaxExprs
               /\ \A h \in call.args : Resolve(h) # Missing
               /\ made' = made + 1
               /\ cache' = [cache EXCEPT ![nextRef] = made + 1]
               /\ nextRef' = nextRef + 1
               /\ reply' \in {Answer(TRUE, made + 1), Answer(FALSE, Missing)}
      BY <1>11, <2>1, <2>3, NewEntryStep
    <2>4. CASE cache' = EmptyCache /\ reply' = Answer(TRUE, Missing) /\ UNCHANGED <<nextRef, made>>
      <3>1. \A h \in Exprs : Issued(h) => ref[h].id \in Ids
        BY <1>0 DEF TypeInv, Handed, Issued
      <3>2. IdInv'
        BY <1>11, <2>4 DEF Handle, CachePut, SafeInv, backendVars, objectVars, IdInv, Issued
      <3>3. CacheInv' /\ NewInv'
        BY <1>11, <2>4, <3>1 DEF Handle, CachePut, SafeInv, backendVars, objectVars, Answer,
           CacheInv, NewInv, Issued, EmptyCache
      <3>4. QED
        BY <2>1, <3>2, <3>3
    <2>5. QED
      BY <1>11, <2>2, <2>3, <2>4 DEF Handle, CachePut
  <1>12. CASE SendFails
    <2>1. generation < MaxGen /\ pc' # "reply"
      BY <1>12, <1>t DEF SendFails, CanFail, AfterError
    <2>2. CASE HasRef /\ UNCHANGED serverVars /\ UNCHANGED generation /\ pc' \in AfterError
      <3>1. ArgInv'
        BY <2>2 DEF ArgInv, AfterError
      <3>2. QED
        BY <1>12, <2>1, <2>2, <3>1, ControlStep DEF SendFails
    <2>3. CASE ~HasRef /\ Start /\ UNCHANGED made
      BY <1>12, <2>1, <2>3, StartStep DEF SendFails
    <2>4. CASE /\ alive' = FALSE /\ cache' = EmptyCache
               /\ UNCHANGED <<nextRef, made, generation, late>>
               /\ pc' \in AfterError
      <3>1. \A i \in Ids : cache'[i] = Missing
        BY <2>4 DEF EmptyCache
      <3>2. pc' \in {"idle", "halted"}
        BY <2>4 DEF AfterError
      <3>3. QED
        BY <1>12, <2>4, <3>1, <3>2, EvictStep DEF SendFails
    <2>5. QED
      BY <1>12, <2>2, <2>3, <2>4 DEF SendFails
  <1>13. CASE ResendFails
    <2>1. pc' \in {"idle", "halted"}
      BY <1>13 DEF ResendFails, AfterError
    <2>2. ArgInv'
      BY <2>1 DEF ArgInv
    <2>3. QED
      BY <1>13, <2>1, <2>2, ControlStep DEF ResendFails
  <1>14. CASE Decode
    <2>1. pc' \in {"idle", "halted"} /\ pc = "reply"
      BY <1>14 DEF Decode, AfterError
    <2>2. NewInv' /\ ArgInv' /\ OpResolvesOwn' /\ ReadReplyInv'
      BY <2>1 DEF NewInv, ArgInv, OpResolvesOwn, ReadReplyInv
    <2>3. CASE UNCHANGED objectVars /\ clearEpoch' \in {clearEpoch, clearEpoch + 1}
      <3>1. /\ clearEpoch \in Nat /\ \A h \in Exprs : ref[h].ce \in Nat
            /\ clearEpoch <= clearEpoch'
        BY <1>0, <2>3, BoundsAssumption DEF TypeInv, TypeOK
      <3>2. IdInv' /\ CacheInv' /\ ReadsOwnUntilRestart'
        BY <1>14, <2>3, <3>1 DEF Decode, SafeInv, serverVars, objectVars, IdInv,
           CacheInv, Issued, ReadsOwnUntilRestart
      <3>3. QED
        BY <2>2, <3>2
    <2>4. CASE /\ reply.ok /\ call.kind = "op" /\ reply.new # Missing
      <3> DEFINE n == reply.new
                 r == [id |-> reply.id, gen |-> generation, ce |-> clearEpoch]
      <3>1. /\ ref' = [ref EXCEPT ![n] = r]
            /\ holder' = [holder EXCEPT ![n] = "stack"]
            /\ n \in Exprs
            /\ UNCHANGED <<serverVars, val, generation, clearEpoch>>
        BY <1>0, <1>14, <2>4 DEF Decode, TypeInv, TypeOK
      <3>2. /\ \A h \in Exprs : ref'[h] = IF h = n THEN r ELSE ref[h]
            /\ \A h \in Exprs : holder'[h] = IF h = n THEN "stack" ELSE holder[h]
        BY <1>0, <3>1 DEF TypeInv, TypeOK
      <3>3. /\ 1 <= generation /\ ~Issued(n) /\ n <= made
            /\ reply.id < nextRef /\ cache[reply.id] \in {Missing, n}
            /\ \A h \in Exprs : (Issued(h) /\ ref[h].gen = generation) => ref[h].id # reply.id
        BY <2>1, <2>4 DEF SafeInv, NewInv
      <3>4. clearEpoch \in Nat
        BY <1>0, BoundsAssumption DEF TypeInv, TypeOK
      <3>5. IdInv'
        BY <1>t, <3>1, <3>2, <3>3, <3>4 DEF SafeInv, IdInv, Issued, serverVars
      <3>6. CacheInv'
        BY <3>1, <3>2, <3>3 DEF SafeInv, CacheInv, Issued, serverVars
      <3>7. ReadsOwnUntilRestart'
        BY <3>1, <3>2, <3>3 DEF SafeInv, IdInv, Issued, ReadsOwnUntilRestart
      <3>8. QED
        BY <2>2, <3>5, <3>6, <3>7
    <2>5. CASE /\ reply.ok /\ call.kind = "materialize"
               /\ val' = [h \in Exprs |-> IF h \in call.args THEN reply.got[h] ELSE val[h]]
               /\ UNCHANGED <<clearEpoch, ref, holder>>
      <3>1. IdInv' /\ CacheInv'
        BY <1>0, <1>14, <2>5 DEF Decode, SafeInv, serverVars, IdInv, CacheInv, Issued,
           TypeInv, Handed
      <3>2. ReadsOwnUntilRestart'
        BY <1>14, <2>1, <2>5 DEF Decode, SafeInv, ReadsOwnUntilRestart, ReadReplyInv
      <3>3. QED
        BY <2>2, <3>1, <3>2
    <2>6. QED
      BY <1>14, <2>3, <2>4, <2>5 DEF Decode
  <1>15. CASE Crash
    <2>1. \A i \in Ids : cache'[i] = Missing
      BY <1>15 DEF Crash, EmptyCache
    <2>2. QED
      BY <1>15, <2>1, EvictStep DEF Crash, backendVars, callVars
  <1>16. CASE Exit
    <2>1. ArgInv'
      BY <1>16 DEF Exit, ArgInv
    <2>2. QED
      BY <1>16, <2>1, ControlStep DEF Exit, backendVars
  <1>17. CASE UNCHANGED vars
    <2>1. \A g \in Exprs : Issued(g)' <=> Issued(g)
      BY <1>17 DEF vars, objectVars, Issued
    <2>2. QED
      BY <1>17, <2>1, HolderStep DEF vars, backendVars, objectVars
  <1>18. QED
    BY <1>1, <1>2, <1>3, <1>4, <1>5, <1>6, <1>7, <1>8, <1>9, <1>10, <1>11,
       <1>12, <1>13, <1>14, <1>15, <1>16, <1>17
       DEF Next, CallStep, Halted

LEMMA SafeInvariance == Spec => []SafeInv
  BY InitSafe, NextSafe, PTL DEF Spec

\* An op is never computed with another expression than the ones its operands
\* stand for, with any number of handles, crashes, restarts, timeouts, frees and
\* clears: encodeArg's generation test, the monotonic ids and roundtrip's refusal
\* to resend are enough together.
THEOREM OpsResolveOwn == Spec => []OpResolvesOwn
  <1>1. SafeInv => OpResolvesOwn
    BY DEF SafeInv, SafeParts
  <1>2. QED
    BY <1>1, SafeInvariance, PTL

\* A handle of the running generation is read right: what materialize returns
\* for another expression is always for a handle of an earlier process.
THEOREM ReadsOwnInGeneration == Spec => []ReadsOwnUntilRestart
  <1>1. SafeInv => ReadsOwnUntilRestart
    BY DEF SafeInv, SafeParts
  <1>2. QED
    BY <1>1, SafeInvariance, PTL


-----------------------------------------------------------------------------
(* Entries of live handles *)

\* Only handles that were collected are queued.
QueueInv == \A g \in pendingFree : holder[g] = "freed"

EntryInv == QueueInv /\ LostOnlyToStaleFree

\* What a step may do to the objects: nothing becomes reachable again, and what
\* was freed stays so.
HolderGoesDown ==
  \A h \in Exprs : /\ holder'[h] \in Held => holder[h] \in Held
                   /\ holder[h] = "freed" => holder'[h] = "freed"

\* A step that keeps cache, handles and counters loses no entry.
LEMMA EntriesKept ==
  ASSUME LostOnlyToStaleFree, HolderGoesDown,
         UNCHANGED <<cache, ref, generation, clearEpoch>>,
         alive' => alive, ClearUnacknowledged => ClearUnacknowledged'
  PROVE  LostOnlyToStaleFree'
  <1> SUFFICES ASSUME alive', ~ClearUnacknowledged',
                      NEW h \in Exprs, holder'[h] \in Held, Live(h)', Resolve(h)' # h
               PROVE  /\ Resolve(h)' = Missing
                      /\ \E g \in Exprs : /\ holder'[g] = "freed"
                                          /\ ref'[g].gen < ref'[h].gen
                                          /\ ref'[g].id = ref'[h].id
    BY DEF LostOnlyToStaleFree
  <1>1. alive /\ ~ClearUnacknowledged /\ holder[h] \in Held /\ Live(h) /\ Resolve(h) # h
    BY DEF HolderGoesDown, Live, Resolve
  <1>2. Resolve(h)' = Resolve(h)
    BY DEF Resolve
  <1>3. QED
    BY <1>1, <1>2 DEF LostOnlyToStaleFree, HolderGoesDown

\* No handle is live in a new process.
LEMMA NobodyLiveAfterStart ==
  ASSUME SafeInv, Start, UNCHANGED objectVars
  PROVE  LostOnlyToStaleFree'
  <1>1. \A h \in Exprs : holder[h] \in Held => ref[h].gen # generation'
    <2>1. generation \in Nat /\ \A h \in Exprs : ref[h].gen \in Nat
      BY BoundsAssumption DEF SafeInv, TypeInv, TypeOK
    <2>2. \A h \in Exprs : holder[h] \in Held => ref[h].gen <= generation
      BY DEF SafeInv, SafeParts, IdInv, Issued, Held
    <2>3. QED
      BY <2>1, <2>2 DEF Start
  <1>2. QED
    BY <1>1 DEF LostOnlyToStaleFree, Live, objectVars

\* A flush evicts what the queue names, and the queue names a live handle only
\* for a handle of an earlier process.
LEMMA FlushLosesToStaleFree ==
  ASSUME SafeInv, EntryInv, Flush
  PROVE  LostOnlyToStaleFree'
  <1> SUFFICES ASSUME alive', NEW h \in Exprs, holder'[h] \in Held, Live(h)', Resolve(h)' # h
               PROVE  /\ Resolve(h)' = Missing
                      /\ \E g \in Exprs : /\ holder'[g] = "freed"
                                          /\ ref'[g].gen < ref'[h].gen
                                          /\ ref'[g].id = ref'[h].id
    BY DEF LostOnlyToStaleFree
  <1>1. /\ UNCHANGED <<alive, holder, ref, generation, clearEpoch>>
        /\ cache' = Evicted(cache) /\ pc = "flush"
    BY DEF Flush, objectVars
  <1>2. /\ holder[h] \in Held /\ ref[h].gen = generation /\ Live(h) /\ Issued(h)
        /\ ref[h].id \in Ids
    BY <1>1 DEF Live, Held, Issued, SafeInv, TypeInv, Handed
  <1>3. Resolve(h)' = IF ref[h].id \in QueuedIds THEN Missing ELSE Resolve(h)
    BY <1>1, <1>2 DEF Resolve, Evicted
  <1>4. CASE ref[h].id \in QueuedIds
    <2>1. PICK g \in pendingFree : ref[g].id = ref[h].id
      BY <1>4 DEF QueuedIds
    <2>2. g \in Exprs /\ holder[g] = "freed" /\ Issued(g) /\ g # h
      BY <1>2, <2>1 DEF EntryInv, QueueInv, SafeInv, TypeInv, TypeOK, Issued, Held
    <2>3. ref[g].gen # ref[h].gen /\ ref[g].gen <= generation
      BY <1>2, <2>1, <2>2 DEF SafeInv, SafeParts, IdInv
    <2>4. ref[g].gen \in Nat /\ generation \in Nat
      BY <2>2, BoundsAssumption DEF SafeInv, TypeInv, TypeOK
    <2>5. ref[g].gen < ref[h].gen
      BY <1>2, <2>3, <2>4
    <2>6. QED
      BY <1>1, <1>3, <1>4, <2>1, <2>2, <2>5
  <1>5. CASE ref[h].id \notin QueuedIds
    <2>1. Resolve(h) # h /\ alive /\ ~ClearUnacknowledged
      BY <1>1, <1>3, <1>5 DEF ClearUnacknowledged
    <2>2. QED
      BY <1>1, <1>2, <1>3, <1>5, <2>1 DEF EntryInv, LostOnlyToStaleFree
  <1>6. QED
    BY <1>4, <1>5

\* The entry of a new expression overwrites none.
LEMMA HandleLosesNothing ==
  ASSUME SafeInv, EntryInv, Handle
  PROVE  LostOnlyToStaleFree'
  <1>1. /\ UNCHANGED <<alive, ref, holder, generation, clearEpoch, call>>
        /\ pc \in {"send", "resend"} /\ pc' = "reply"
        /\ HolderGoesDown /\ ~ClearUnacknowledged
    BY DEF Handle, CachePut, backendVars, objectVars, HolderGoesDown, ClearUnacknowledged
  <1>2. CASE UNCHANGED cache
    BY <1>1, <1>2, EntriesKept DEF EntryInv
  <1>3. CASE made < MaxExprs /\ cache' = [cache EXCEPT ![nextRef] = made + 1]
    <2>1. nextRef \in Ids /\ nextRef \in Nat /\ \A i \in Ids : i \in Nat
      BY <1>3, FreshInRange, BoundsAssumption DEF SafeInv, TypeInv, TypeOK, Ids
    <2>2. ASSUME NEW h \in Exprs, holder[h] \in Held, ref[h].gen = generation
          PROVE  Resolve(h)' = Resolve(h)
      <3>1. ref[h].id \in Ids /\ ref[h].id < nextRef
        BY <2>2 DEF SafeInv, SafeParts, IdInv, Issued, Held, TypeInv, Handed
      <3>2. ref[h].id # nextRef
        BY <2>1, <3>1
      <3>3. QED
        BY <1>1, <1>3, <3>1, <3>2 DEF Resolve, SafeInv, TypeInv, TypeOK
    <2>3. ASSUME alive', NEW h \in Exprs, holder'[h] \in Held, Live(h)', Resolve(h)' # h
          PROVE  /\ Resolve(h)' = Missing
                 /\ \E g \in Exprs : /\ holder'[g] = "freed"
                                     /\ ref'[g].gen < ref'[h].gen
                                     /\ ref'[g].id = ref'[h].id
      <3>1. holder[h] \in Held /\ Live(h) /\ alive
        BY <1>1, <2>3 DEF Live
      <3>2. Resolve(h)' = Resolve(h)
        BY <2>2, <3>1 DEF Live
      <3>3. QED
        BY <1>1, <2>3, <3>1, <3>2 DEF EntryInv, LostOnlyToStaleFree
    <2>4. QED
      BY <2>3 DEF LostOnlyToStaleFree
  <1>4. CASE call.kind = "clear" /\ reply' = Answer(TRUE, Missing)
    <2>1. ClearUnacknowledged'
      BY <1>1, <1>4 DEF ClearUnacknowledged, Answer
    <2>2. QED
      BY <2>1 DEF LostOnlyToStaleFree
  <1>5. QED
    BY <1>2, <1>3, <1>4 DEF Handle, CachePut

\* A new handle has its entry, and none is live in a new epoch.
LEMMA DecodeLosesNothing ==
  ASSUME SafeInv, EntryInv, Decode
  PROVE  LostOnlyToStaleFree' /\ QueueInv'
  <1>1. /\ pc = "reply" /\ pc' \in {"idle", "halted"}
        /\ UNCHANGED <<alive, cache, generation, pendingFree>>
    BY DEF Decode, AfterError, serverVars
  <1>2. CASE UNCHANGED <<ref, holder, clearEpoch>> /\ (~reply.ok \/ call.kind # "clear")
    <2>1. HolderGoesDown /\ ~ClearUnacknowledged /\ QueueInv'
      BY <1>1, <1>2 DEF HolderGoesDown, ClearUnacknowledged, EntryInv, QueueInv
    <2>2. QED
      BY <1>1, <1>2, <2>1, EntriesKept DEF EntryInv
  <1>3. CASE reply.ok /\ call.kind = "op" /\ reply.new # Missing
    <2> DEFINE n == reply.new
    <2>1. /\ n \in Exprs
          /\ \A h \in Exprs : h # n => ref'[h] = ref[h] /\ holder'[h] = holder[h]
          /\ ref'[n] = [id |-> reply.id, gen |-> generation, ce |-> clearEpoch]
          /\ clearEpoch' = clearEpoch
      BY <1>3 DEF Decode, SafeInv, TypeInv, TypeOK
    <2>2. holder[n] = "none" /\ (alive => cache[reply.id] = n)
      BY <1>1, <1>3 DEF SafeInv, SafeParts, NewInv, Issued
    <2>3. QueueInv'
      BY <1>1, <2>1, <2>2 DEF EntryInv, QueueInv, SafeInv, TypeInv, TypeOK
    <2>4. ASSUME alive', NEW h \in Exprs, holder'[h] \in Held, Live(h)', Resolve(h)' # h
          PROVE  /\ Resolve(h)' = Missing
                 /\ \E g \in Exprs : /\ holder'[g] = "freed"
                                     /\ ref'[g].gen < ref'[h].gen
                                     /\ ref'[g].id = ref'[h].id
      <3>1. h # n
        BY <1>1, <2>1, <2>2, <2>4 DEF Resolve
      <3>2. /\ ref'[h] = ref[h] /\ holder[h] \in Held /\ Live(h) /\ Resolve(h)' = Resolve(h)
            /\ alive /\ ~ClearUnacknowledged
        BY <1>1, <1>3, <2>1, <2>4, <3>1 DEF Live, Resolve, ClearUnacknowledged
      <3>3. PICK g \in Exprs : /\ holder[g] = "freed"
                               /\ ref[g].gen < ref[h].gen
                               /\ ref[g].id = ref[h].id
        BY <2>4, <3>2 DEF EntryInv, LostOnlyToStaleFree
      <3>4. g # n /\ Resolve(h) = Missing
        BY <2>2, <2>4, <3>2, <3>3 DEF EntryInv, LostOnlyToStaleFree
      <3>5. QED
        BY <2>1, <3>2, <3>3, <3>4
    <2>5. QED
      BY <2>3, <2>4 DEF LostOnlyToStaleFree
  <1>4. CASE reply.ok /\ call.kind = "clear"
    <2>1. UNCHANGED <<ref, holder>> /\ clearEpoch' = clearEpoch + 1
      BY <1>4 DEF Decode, objectVars
    <2>2. \A h \in Exprs : holder[h] \in Held => ref[h].ce <= clearEpoch
      BY DEF SafeInv, SafeParts, IdInv, Issued, Held
    <2>3. clearEpoch \in Nat /\ \A h \in Exprs : ref[h].ce \in Nat
      BY BoundsAssumption DEF SafeInv, TypeInv, TypeOK
    <2>4. \A h \in Exprs : holder'[h] \in Held => ~Live(h)'
      BY <2>1, <2>2, <2>3 DEF Live
    <2>5. QED
      BY <1>1, <2>1, <2>4 DEF LostOnlyToStaleFree, EntryInv, QueueInv
  <1>5. QED
    BY <1>2, <1>3, <1>4 DEF Decode, objectVars

LEMMA InitEntries == Init => EntryInv
  BY DEF Init, EntryInv, QueueInv, LostOnlyToStaleFree

LEMMA NextEntries == SafeInv /\ EntryInv /\ [Next]_vars => EntryInv'
  <1> SUFFICES ASSUME SafeInv, EntryInv, [Next]_vars PROVE EntryInv'
    OBVIOUS
  <1>t. holder \in [Exprs -> Held \cup {"none", "garbage", "freed"}]
    BY DEF SafeInv, TypeInv, TypeOK
  <1> USE DEF EntryInv
  \* steps that leave the entries and the queue alone
  <1>1. ASSUME UNCHANGED <<cache, ref, holder, generation, clearEpoch>>,
               pendingFree' \in {pendingFree, {}},
               alive' => alive, ~ClearUnacknowledged
        PROVE  EntryInv'
    BY <1>1, EntriesKept DEF HolderGoesDown, QueueInv
  <1>2. ASSUME UNCHANGED <<holder, pendingFree>>, ~alive' PROVE EntryInv'
    BY <1>2 DEF QueueInv, LostOnlyToStaleFree
  <1>3. CASE \E A \in SUBSET Exprs : EncodeOp(A)
    BY <1>1, <1>3 DEF EncodeOp, serverVars, backendVars, objectVars, ClearUnacknowledged
  <1>4. CASE \E h \in Exprs : Materialize(h)
    BY <1>1, <1>4 DEF Materialize, serverVars, backendVars, objectVars, ClearUnacknowledged
  <1>5. CASE \E h \in Exprs : Drop(h) \/ OperandDies(h) \/ Finalize(h)
    <2>1. PICK h \in Exprs : Drop(h) \/ OperandDies(h) \/ Finalize(h)
      BY <1>5
    <2>2. /\ UNCHANGED <<alive, cache, ref, generation, clearEpoch, pc, call, reply>>
          /\ holder[h] \in Held \cup {"garbage"}
          /\ holder' \in {[holder EXCEPT ![h] = "garbage"], [holder EXCEPT ![h] = "freed"]}
          /\ pendingFree' = pendingFree
             \/ (pendingFree' = pendingFree \cup {h} /\ holder'[h] = "freed")
          /\ holder' = [holder EXCEPT ![h] = "garbage"] => holder[h] \in Held
      BY <1>t, <2>1 DEF Drop, OperandDies, Finalize, serverVars, backendVars, callVars, Held
    <2>3. HolderGoesDown
      BY <1>t, <2>2 DEF HolderGoesDown, Held
    <2>4. LostOnlyToStaleFree'
      BY <2>2, <2>3, EntriesKept DEF ClearUnacknowledged
    <2>5. QueueInv'
      BY <2>2, <2>3 DEF QueueInv, HolderGoesDown, SafeInv, TypeInv, TypeOK
    <2>6. QED
      BY <2>4, <2>5
  <1>6. CASE \E h \in Exprs, where \in Held : Bind(h, where)
    <2>1. PICK h \in Exprs, where \in Held : Bind(h, where)
      BY <1>6
    <2>2. HolderGoesDown
      BY <1>t, <2>1 DEF Bind, HolderGoesDown, Held
    <2>3. UNCHANGED <<alive, cache, ref, generation, clearEpoch, pendingFree, pc, call, reply>>
      BY <2>1 DEF Bind, serverVars, backendVars, callVars
    <2>4. LostOnlyToStaleFree'
      BY <2>2, <2>3, EntriesKept DEF ClearUnacknowledged
    <2>5. QueueInv'
      BY <2>2, <2>3 DEF QueueInv, HolderGoesDown, SafeInv, TypeInv, TypeOK
    <2>6. QED
      BY <2>4, <2>5
  <1>7. CASE Drain \/ ClearCache \/ Exit
    BY <1>1, <1>7 DEF Drain, ClearCache, Exit, AtBoundary, serverVars, backendVars,
       objectVars, ClearUnacknowledged
  <1>8. CASE EnsureStarted
    <2>1. CASE UNCHANGED <<serverVars, backendVars>>
      BY <1>1, <1>8, <2>1 DEF EnsureStarted, serverVars, backendVars, objectVars,
         ClearUnacknowledged
    <2>2. CASE Start /\ UNCHANGED pendingFree
      BY <1>8, <2>2, NobodyLiveAfterStart DEF EnsureStarted, QueueInv, objectVars
    <2>3. CASE StartFails /\ UNCHANGED pendingFree
      BY <1>2, <1>8, <2>3 DEF EnsureStarted, StartFails, objectVars
    <2>4. QED
      BY <1>8, <2>1, <2>2, <2>3 DEF EnsureStarted
  <1>9. CASE Flush
    BY <1>9, FlushLosesToStaleFree DEF Flush, QueueInv
  <1>10. CASE Handle
    BY <1>10, HandleLosesNothing DEF Handle, CachePut, QueueInv, backendVars, objectVars
  <1>11. CASE SendFails
    <2>1. CASE UNCHANGED <<serverVars, generation>>
      BY <1>1, <1>11, <2>1 DEF SendFails, serverVars, objectVars, ClearUnacknowledged
    <2>2. CASE Start
      BY <1>11, <2>2, NobodyLiveAfterStart DEF SendFails, QueueInv, objectVars
    <2>3. CASE ~alive'
      BY <1>2, <1>11, <2>3 DEF SendFails, objectVars
    <2>4. QED
      BY <1>11, <2>1, <2>2, <2>3 DEF SendFails
  <1>12. CASE ResendFails
    BY <1>1, <1>12 DEF ResendFails, serverVars, objectVars, ClearUnacknowledged
  <1>13. CASE Decode
    BY <1>13, DecodeLosesNothing
  <1>14. CASE Crash
    BY <1>2, <1>14 DEF Crash, backendVars, objectVars
  <1>15. CASE UNCHANGED vars
    <2>1. HolderGoesDown /\ (ClearUnacknowledged => ClearUnacknowledged')
      BY <1>15 DEF vars, callVars, objectVars, HolderGoesDown, ClearUnacknowledged
    <2>2. QED
      BY <1>15, <2>1, EntriesKept DEF vars, serverVars, backendVars, objectVars, QueueInv
  <1>16. QED
    BY <1>3, <1>4, <1>5, <1>6, <1>7, <1>8, <1>9, <1>10, <1>11, <1>12, <1>13,
       <1>14, <1>15
       DEF Next, CallStep, Halted

LEMMA EntryInvariance == Spec => []EntryInv
  BY SafeInvariance, InitEntries, NextEntries, PTL DEF Spec

\* An entry of a reachable handle of the running process and epoch disappears in
\* one way only: the free queue, which outlives the process, held the same id for
\* a handle of an earlier process.
THEOREM EntriesLostOnlyToStaleFrees == Spec => []LostOnlyToStaleFree
  <1>1. EntryInv => LostOnlyToStaleFree
    BY DEF EntryInv
  <1>2. QED
    BY <1>1, EntryInvariance, PTL

-----------------------------------------------------------------------------
(* No entry without a handle *)

\* An entry is found at the id of its handle, also when Go does not know it yet,
\* and an answer is lost only by a server that is given up.
PlaceInv ==
  /\ \A i \in Ids : cache[i] # Missing =>
       cache[i] <= made /\ (Issued(cache[i]) => ref[cache[i]].id = i)
  /\ (pc = "reply" /\ reply.new # Missing) =>
       \A i \in Ids : cache[i] = reply.new => i = reply.id
  /\ late => dead
  /\ pc = "resend" => ~late
  /\ alive => started

OrphanInv == PlaceInv /\ NoOrphanEntry

LEMMA InitOrphan == Init => OrphanInv
  BY DEF Init, OrphanInv, PlaceInv, NoOrphanEntry, EmptyCache, Issued, NoReply

\* Steps that add no entry and change no handle.
LEMMA PlaceKept ==
  ASSUME PlaceInv, \A i \in Ids : cache'[i] \in {Missing, cache[i]},
         UNCHANGED <<made, ref, reply>>, pc' # "reply",
         \A h \in Exprs : Issued(h)' <=> Issued(h),
         cache \in [Ids -> Exprs \cup {Missing}],
         late' => dead', pc' = "resend" => ~late', alive' => started'
  PROVE  PlaceInv'
  BY DEF PlaceInv

\* Steps within a call that has an answer.
LEMMA PlaceKeptInReply ==
  ASSUME PlaceInv, \A i \in Ids : cache'[i] \in {Missing, cache[i]},
         UNCHANGED <<made, ref, reply, pc, late, dead, alive, started>>,
         \A h \in Exprs : Issued(h)' <=> Issued(h),
         cache \in [Ids -> Exprs \cup {Missing}], reply.new \in Exprs \cup {Missing}
  PROVE  PlaceInv'
  BY DEF PlaceInv, Exprs, Missing

LEMMA NextOrphan == SafeInv /\ EntryInv /\ OrphanInv /\ [Next]_vars => OrphanInv'
  <1> SUFFICES ASSUME SafeInv, EntryInv, OrphanInv, [Next]_vars PROVE OrphanInv'
    OBVIOUS
  <1> USE DEF OrphanInv
  <1>t. /\ holder \in [Exprs -> Held \cup {"none", "garbage", "freed"}]
        /\ cache \in [Ids -> Exprs \cup {Missing}]
        /\ reply.new \in Exprs \cup {Missing}
        /\ pendingFree \in SUBSET Exprs
    BY DEF SafeInv, TypeInv, TypeOK
  \* steps between calls, and failures, that touch neither entries nor handles
  <1>1. ASSUME UNCHANGED <<cache, made, ref, holder, pendingFree, reply>>,
               pc # "reply" \/ reply.new = Missing, pc' # "reply",
               late' => dead', pc' = "resend" => ~late', alive' => started',
               (alive' /\ ~dead') => (alive /\ ~dead)
        PROVE  OrphanInv'
    <2>1. PlaceInv'
      BY <1>1, <1>t, PlaceKept DEF Issued
    <2>2. NoOrphanEntry'
      BY <1>1, <1>t DEF NoOrphanEntry, Missing, Exprs
    <2>3. QED
      BY <2>1, <2>2
  \* steps after which the cache is empty
  <1>2. ASSUME cache' = EmptyCache, late' => dead', pc' = "resend" => ~late', alive' => started',
               reply'.new = reply.new /\ reply'.id = reply.id
        PROVE  OrphanInv'
    <2>1. \A i \in Ids : cache'[i] = Missing
      BY <1>2 DEF EmptyCache
    <2>2. NoOrphanEntry'
      BY <2>1 DEF NoOrphanEntry
    <2>3. PlaceInv'
      BY <1>2, <1>t, <2>1 DEF PlaceInv
    <2>4. QED
      BY <2>2, <2>3
  <1>3. CASE \E A \in SUBSET Exprs : EncodeOp(A)
    BY <1>1, <1>3 DEF EncodeOp, serverVars, backendVars, objectVars, PlaceInv
  <1>4. CASE \E h \in Exprs : Materialize(h)
    BY <1>1, <1>4 DEF Materialize, serverVars, backendVars, objectVars, PlaceInv
  <1>5. CASE \/ \E h \in Exprs : Drop(h) \/ OperandDies(h) \/ Finalize(h)
             \/ \E h \in Exprs, where \in Held : Bind(h, where)
    <2>1. PICK h \in Exprs : \/ Drop(h) \/ OperandDies(h) \/ Finalize(h)
                             \/ \E where \in Held : Bind(h, where)
      BY <1>5
    <2>2. /\ UNCHANGED <<alive, started, cache, made, ref, dead, late, pc, reply>>
          /\ \E w \in Held \cup {"garbage", "freed"} : holder' = [holder EXCEPT ![h] = w]
          /\ holder[h] # "none"
          /\ holder'[h] \notin Held \cup {"garbage"} => h \in pendingFree'
          /\ pendingFree \subseteq pendingFree'
      BY <1>t, <2>1 DEF Drop, OperandDies, Finalize, Bind, serverVars, backendVars,
         callVars, Held
    <2>3. \A g \in Exprs : Issued(g)' <=> Issued(g)
      BY <1>t, <2>2 DEF Issued, Held
    <2>4. PlaceInv'
      BY <1>t, <2>2, <2>3, PlaceKeptInReply
    <2>5. NoOrphanEntry'
      BY <1>t, <2>2 DEF NoOrphanEntry, Missing, Exprs
    <2>6. QED
      BY <2>4, <2>5
  <1>6. CASE Drain
    <2>1. CASE started /\ ~dead
      BY <1>1, <1>6, <2>1 DEF Drain, AtBoundary, serverVars, objectVars, PlaceInv
    <2>2. CASE ~started \/ dead
      \* the queue is dropped: the server is not in good standing
      <3>1. /\ UNCHANGED <<alive, started, cache, made, ref, holder, reply, late, dead>>
            /\ pc' = "idle" /\ pc = "idle"
        BY <1>6, <2>2 DEF Drain, AtBoundary, serverVars, objectVars
      <3>2. PlaceInv'
        BY <1>t, <3>1, PlaceKept DEF PlaceInv, Issued
      <3>3. NoOrphanEntry'
        BY <2>2, <3>1 DEF NoOrphanEntry, PlaceInv
      <3>4. QED
        BY <3>2, <3>3
    <2>3. QED
      BY <2>1, <2>2
  <1>7. CASE ClearCache \/ Exit
    BY <1>1, <1>7 DEF ClearCache, Exit, AtBoundary, serverVars, backendVars, objectVars,
       PlaceInv
  <1>8. CASE EnsureStarted
    <2>1. CASE UNCHANGED <<serverVars, backendVars>> /\ pc' = "flush"
      BY <1>1, <1>8, <2>1 DEF EnsureStarted, serverVars, backendVars, objectVars, PlaceInv
    <2>2. CASE Start
      BY <1>2, <1>8, <2>2 DEF EnsureStarted, Start
    <2>3. CASE StartFails /\ pc' \in AfterError
      BY <1>2, <1>8, <2>3 DEF EnsureStarted, StartFails, AfterError, PlaceInv
    <2>4. QED
      BY <1>8, <2>1, <2>2, <2>3 DEF EnsureStarted
  <1>9. CASE Flush
    <2>1. /\ UNCHANGED <<alive, started, made, ref, holder, reply>>
          /\ pc = "flush" /\ pc' \in {"idle", "send"}
          /\ cache' = Evicted(cache) /\ pendingFree' = {}
          /\ late' => dead'
          /\ ~dead' => ~dead
          /\ alive' => started'
      BY <1>9 DEF Flush, objectVars, PlaceInv
    <2>2. \A i \in Ids : cache'[i] = IF i \in QueuedIds THEN Missing ELSE cache[i]
      BY <2>1 DEF Evicted
    <2>3. PlaceInv'
      BY <1>t, <2>1, <2>2, PlaceKept DEF Issued
    <2>4. ASSUME alive', ~dead', NEW i \in Ids, cache'[i] # Missing
          PROVE  holder'[cache'[i]] \in Held \cup {"garbage"}
      <3>1. /\ cache'[i] = cache[i] /\ cache[i] # Missing /\ i \notin QueuedIds
            /\ cache[i] \in Exprs
        BY <1>t, <2>2, <2>4
      <3>2. cache[i] \notin pendingFree
        <4>1. SUFFICES ASSUME cache[i] \in pendingFree PROVE FALSE
          OBVIOUS
        <4>2. holder[cache[i]] = "freed"
          BY <4>1 DEF EntryInv, QueueInv
        <4>3. ref[cache[i]].id = i
          BY <3>1, <4>2 DEF PlaceInv, Issued
        <4>4. QED
          BY <3>1, <4>1, <4>3 DEF QueuedIds
      <3>3. holder[cache[i]] \in Held \cup {"garbage"}
        BY <2>1, <2>4, <3>1, <3>2 DEF NoOrphanEntry
      <3>4. QED
        BY <2>1, <3>1, <3>3
    <2>5. NoOrphanEntry'
      BY <2>4 DEF NoOrphanEntry
    <2>6. QED
      BY <2>3, <2>5
  <1>10. CASE Handle
    <2>1. /\ UNCHANGED <<alive, started, dead, late, ref, holder, pendingFree>>
          /\ pc' = "reply" /\ pc # "reply"
      BY <1>10 DEF Handle, CachePut, backendVars, objectVars
    <2>2. CASE UNCHANGED <<cache, made>> /\ reply'.new = Missing
      <3>1. PlaceInv'
        BY <1>t, <2>1, <2>2 DEF PlaceInv, Issued
      <3>2. NoOrphanEntry'
        BY <1>t, <2>1, <2>2 DEF NoOrphanEntry
      <3>3. QED
        BY <3>1, <3>2
    <2>3. CASE /\ made < MaxExprs /\ made' = made + 1
               /\ cache' = [cache EXCEPT ![nextRef] = made + 1]
               /\ reply' \in {Answer(TRUE, made + 1)} \cup
                               (IF late THEN {Answer(FALSE, Missing)} ELSE {})
      <3>1. /\ made + 1 \in Exprs /\ nextRef \in Ids /\ made \in Nat
            /\ made + 1 # Missing
        BY <2>3, FreshInRange DEF SafeInv, TypeInv, TypeOK, Missing, Exprs
      <3>2. \A i \in Ids : cache'[i] = IF i = nextRef THEN made + 1 ELSE cache[i]
        BY <1>t, <2>3, <3>1
      <3>3. ~Issued(made + 1)
        BY <3>1 DEF SafeInv, SafeParts, IdInv
      <3>4. \A i \in Ids : cache[i] # Missing =>
              cache[i] \in Nat /\ cache[i] <= made /\ cache[i] # made + 1
        BY <1>t, <3>1 DEF PlaceInv, Exprs
      <3>5. \/ reply'.new = made + 1 /\ reply'.id = nextRef
            \/ reply'.new = Missing /\ late
        BY <2>3, <3>1 DEF Answer
      <3>6. \A i \in Ids : cache'[i] # Missing =>
              cache'[i] <= made' /\ (holder'[cache'[i]] # "none" => ref'[cache'[i]].id = i)
        BY <2>1, <2>3, <3>1, <3>2, <3>3, <3>4 DEF PlaceInv, Issued
      <3>7. reply'.new # Missing => \A i \in Ids : cache'[i] = reply'.new => i = reply'.id
        BY <3>1, <3>2, <3>4, <3>5
      <3>8. PlaceInv'
        BY <2>1, <3>6, <3>7 DEF PlaceInv, Issued
      <3>9. NoOrphanEntry'
        <4>1. SUFFICES ASSUME alive', ~dead', NEW i \in Ids, cache'[i] # Missing
                       PROVE  \/ holder'[cache'[i]] \in Held \cup {"garbage"}
                              \/ cache'[i] \in pendingFree'
                              \/ pc' = "reply" /\ reply'.new = cache'[i]
          BY DEF NoOrphanEntry
        <4>2. reply'.new = made + 1
          BY <2>1, <3>5, <4>1 DEF PlaceInv
        <4>3. QED
          BY <2>1, <3>2, <4>1, <4>2 DEF NoOrphanEntry
      <3>10. QED
        BY <3>8, <3>9
    <2>4. CASE cache' = EmptyCache /\ reply' = Answer(TRUE, Missing) /\ UNCHANGED made
      <3>1. \A i \in Ids : cache'[i] = Missing
        BY <2>4 DEF EmptyCache
      <3>2. PlaceInv' /\ NoOrphanEntry'
        BY <2>1, <2>4, <3>1 DEF PlaceInv, NoOrphanEntry, Answer
      <3>3. QED
        BY <3>2
    <2>5. QED
      BY <1>10, <2>2, <2>3, <2>4 DEF Handle, CachePut, Answer
  <1>11. CASE SendFails
    <2>1. CASE HasRef /\ dead' = TRUE /\ pc' \in AfterError /\ UNCHANGED serverVars
      BY <1>1, <1>11, <2>1 DEF SendFails, AfterError, serverVars, objectVars, PlaceInv
    <2>2. CASE Start
      BY <1>2, <1>11, <2>2 DEF SendFails, Start
    <2>3. CASE alive' = FALSE /\ cache' = EmptyCache /\ dead' = TRUE /\ pc' \in AfterError
      BY <1>2, <1>11, <2>3 DEF SendFails, AfterError
    <2>4. QED
      BY <1>11, <2>1, <2>2, <2>3 DEF SendFails
  <1>12. CASE ResendFails
    BY <1>1, <1>12 DEF ResendFails, AfterError, serverVars, objectVars, PlaceInv
  <1>13. CASE Decode
    <2>1. /\ pc = "reply" /\ pc' \in {"idle", "halted"}
          /\ UNCHANGED <<alive, started, cache, made, dead, late, pendingFree>>
      BY <1>13 DEF Decode, AfterError, serverVars
    <2>2. CASE UNCHANGED <<ref, holder>> /\ reply.new = Missing
      <3>1. PlaceInv'
        BY <1>t, <2>1, <2>2 DEF PlaceInv, Issued
      <3>2. NoOrphanEntry'
        BY <1>t, <2>1, <2>2 DEF NoOrphanEntry
      <3>3. QED
        BY <3>1, <3>2
    <2>3. CASE reply.ok /\ call.kind = "op" /\ reply.new # Missing
      <3> DEFINE n == reply.new
      <3>1. /\ n \in Exprs
            /\ \A h \in Exprs : h # n => ref'[h] = ref[h] /\ holder'[h] = holder[h]
            /\ ref'[n].id = reply.id /\ holder'[n] = "stack"
        BY <1>t, <2>3, <1>13 DEF Decode, SafeInv, TypeInv, TypeOK
      <3>2. PlaceInv'
        BY <1>t, <2>1, <2>3, <3>1 DEF PlaceInv, Issued
      <3>3. NoOrphanEntry'
        BY <1>t, <2>1, <3>1 DEF NoOrphanEntry, Held
      <3>4. QED
        BY <3>2, <3>3
    <2>4. reply.new # Missing => reply.ok /\ call.kind = "op"
      BY <2>1 DEF SafeInv, SafeParts, NewInv
    <2>5. QED
      BY <1>13, <2>2, <2>3, <2>4 DEF Decode, objectVars
  <1>14. CASE Crash
    BY <1>2, <1>14 DEF Crash, backendVars, callVars, PlaceInv
  <1>15. CASE UNCHANGED vars
    <2>1. PlaceInv'
      BY <1>15, <1>t, PlaceKeptInReply
         DEF vars, serverVars, backendVars, objectVars, callVars, Issued
    <2>2. NoOrphanEntry'
      BY <1>15 DEF vars, serverVars, backendVars, objectVars, callVars, NoOrphanEntry
    <2>3. QED
      BY <2>1, <2>2
  <1>16. QED
    BY <1>3, <1>4, <1>5, <1>6, <1>7, <1>8, <1>9, <1>10, <1>11, <1>12, <1>13,
       <1>14, <1>15
       DEF Next, CallStep, Halted

\* The cache of a server in good standing is bounded by the handles Go holds or has
\* yet to collect: whatever fails or is interleaved, no entry is forgotten.
THEOREM NoEntryOrphaned == Spec => []NoOrphanEntry
  <1>1. OrphanInv => NoOrphanEntry
    BY DEF OrphanInv
  <1>2. QED
    BY <1>1, SafeInvariance, EntryInvariance, InitOrphan, NextOrphan, PTL DEF Spec

-----------------------------------------------------------------------------
(* Without faults *)

\* One process serves the whole run.
OneServer ==
  /\ ~dead
  /\ started <=> alive
  /\ generation = IF started THEN 1 ELSE 0
  /\ pc \in {"flush", "send"} => started
  /\ pc # "resend"

LEMMA OneServerInvariance ==
  ASSUME ~Crashes, ~Timeouts
  PROVE  Spec => []OneServer
  <1>1. Init => OneServer
    BY DEF Init, OneServer
  <1>2. OneServer /\ [Next]_vars => OneServer'
    <2> SUFFICES ASSUME OneServer, [Next]_vars PROVE OneServer'
      OBVIOUS
    <2> USE DEF OneServer, serverVars, backendVars, callVars
    <2>1. CASE EnsureStarted
      <3>1. CASE UNCHANGED <<serverVars, backendVars>> /\ started /\ pc' = "flush"
        BY <2>1, <3>1
      <3>2. CASE Start /\ ~started /\ pc' = "flush"
        BY <2>1, <3>2 DEF Start
      <3>3. QED
        BY <2>1, <3>1, <3>2 DEF EnsureStarted, StartFails
    <2>2. CASE Flush
      <3>1. pc = "flush" /\ started /\ alive /\ ~CanFail
        BY <2>2 DEF Flush, CanFail
      <3>2. UNCHANGED <<alive, started, dead, generation>> /\ pc' \in {"idle", "send"}
        BY <2>2, <3>1 DEF Flush
      <3>3. QED
        BY <3>1, <3>2
    <2>3. CASE Handle
      BY <2>3 DEF Handle, CachePut
    <2>4. CASE SendFails \/ ResendFails
      BY <2>4 DEF SendFails, ResendFails, CanFail
    <2>5. CASE Decode
      BY <2>5 DEF Decode, AfterError
    <2>6. CASE Crash
      BY <2>6 DEF Crash
    <2>7. CASE Drain \/ ClearCache \/ Exit
      BY <2>7 DEF Drain, ClearCache, Exit
    <2>8. CASE \/ \E A \in SUBSET Exprs : EncodeOp(A)
               \/ \E h \in Exprs : Materialize(h) \/ Drop(h) \/ OperandDies(h) \/ Finalize(h)
               \/ \E h \in Exprs, where \in Held : Bind(h, where)
      BY <2>8 DEF EncodeOp, Materialize, Drop, OperandDies, Finalize, Bind
    <2>9. CASE UNCHANGED vars
      BY <2>9 DEF vars
    <2>10. QED
      BY <2>1, <2>2, <2>3, <2>4, <2>5, <2>6, <2>7, <2>8, <2>9 DEF Next, CallStep, Halted
  <1>3. QED
    BY <1>1, <1>2, PTL DEF Spec

\* Every handle is of the generation of that process.
LEMMA OneGeneration ==
  ASSUME SafeInv, OneServer, NEW h \in Exprs, Issued(h)
  PROVE  ref[h].gen = 1 /\ generation = 1
  <1>1. ref[h].gen \in Nat
    BY BoundsAssumption DEF SafeInv, TypeInv, TypeOK
  <1>2. 1 <= ref[h].gen /\ ref[h].gen <= generation
    BY DEF SafeInv, SafeParts, IdInv
  <1>3. QED
    BY <1>1, <1>2 DEF OneServer

\* While no process dies and no budget is set, a materialized value is the
\* expression of its handle, with per-handle frees and with whole-cache clears.
THEOREM ReadsOwnWithoutFaults ==
  ASSUME ~Crashes, ~Timeouts
  PROVE  Spec => []ReadsOwn
  <1>1. SafeInv /\ OneServer => ReadsOwn
    <2> SUFFICES ASSUME SafeInv, OneServer, NEW h \in Exprs
                 PROVE  val[h] \in {Missing, h}
      BY DEF ReadsOwn
    <2>1. CASE Issued(h)
      BY <2>1, OneGeneration DEF SafeInv, SafeParts, ReadsOwnUntilRestart
    <2>2. CASE ~Issued(h)
      BY <2>2 DEF SafeInv, SafeParts, IdInv
    <2>3. QED
      BY <2>1, <2>2
  <1>2. QED
    BY <1>1, SafeInvariance, OneServerInvariance, PTL

\* While no process dies and no budget is set, the free queue never reaches an
\* entry of a reachable handle.
THEOREM LiveEntriesKeptWithoutFaults ==
  ASSUME ~Crashes, ~Timeouts
  PROVE  Spec => []LiveEntryKept
  <1>1. SafeInv /\ OneServer /\ EntryInv => LiveEntryKept
    <2> SUFFICES ASSUME SafeInv, OneServer, EntryInv, alive, ~ClearUnacknowledged,
                        NEW h \in Exprs, holder[h] \in Held, Live(h), Resolve(h) # h
                 PROVE  FALSE
      BY DEF LiveEntryKept
    <2>1. PICK g \in Exprs : holder[g] = "freed" /\ ref[g].gen < ref[h].gen
      BY DEF EntryInv, LostOnlyToStaleFree
    <2>2. ref[g].gen = 1 /\ ref[h].gen = 1
      BY <2>1, OneGeneration DEF Issued, Held
    <2>3. QED
      BY <2>1, <2>2
  <1>2. QED
    BY <1>1, SafeInvariance, OneServerInvariance, EntryInvariance, PTL

-----------------------------------------------------------------------------
(* The abstract store *)

\* What a step sees of the mapped state when it leaves the objects alone.
LEMMA ObjectsKept ==
  ASSUME UNCHANGED <<ref, holder, generation>>
  PROVE  Given' = Given /\ Kept' = Kept /\ Stale' = Stale
  BY DEF Given, Kept, Stale

\* The mapped variables but for the objects depend on the call alone.
LEMMA CallKept ==
  ASSUME UNCHANGED <<call, reply>>,
         \/ pc' = pc
         \/ /\ pc \in {"locked", "flush", "send", "resend"}
            /\ pc' \in {"locked", "flush", "send", "resend"}
  PROVE  Stage' = Stage /\ Request' = Request /\ Out' = Out
  BY DEF Stage, Request, Out, Asking, Answered, NoCall, NoReply

\* No request is under way in the idle state or after the end.
LEMMA NoRequestStage ==
  /\ pc \in {"idle", "halted"} => Stage = "free" /\ Request = NoCall /\ Out = NoReply.got
  /\ call.kind \in {"clear", "drain"} => Stage = "free" /\ Request = NoCall /\ Out = NoReply.got
  BY DEF Stage, Request, Out, Asking, Answered

LEMMA AskedStage ==
  ASSUME pc \in {"locked", "flush", "send", "resend"} \/ (pc = "reply" /\ ~reply.ok),
         call.kind \in {"op", "materialize"}
  PROVE  Stage = "asked" /\ Request = call /\ Out = NoReply.got
  BY DEF Stage, Request, Out, Asking, Answered

LEMMA AnsweredStage ==
  ASSUME pc = "reply", reply.ok, call.kind \in {"op", "materialize"}
  PROVE  Stage = "answered" /\ Request = call /\ Out = reply.got
  BY DEF Stage, Request, Out, Asking, Answered

-----------------------------------------------------------------------------
(* The steps of the store *)

\* A restart makes every handle given out so far stale.
LEMMA StartResets ==
  ASSUME SafeInv, Start, UNCHANGED <<objectVars, call, reply>>,
         pc \in {"locked", "send"}, pc' \in {"flush", "resend"}
  PROVE  Store!Next
  <1>1. \A h \in Exprs : holder[h] # "none" => ref[h].gen # generation'
    <2>1. generation \in Nat /\ \A h \in Exprs : ref[h].gen \in Nat
      BY BoundsAssumption DEF SafeInv, TypeInv, TypeOK
    <2>2. \A h \in Exprs : holder[h] # "none" => ref[h].gen <= generation
      BY DEF SafeInv, SafeParts, IdInv, Issued
    <2>3. QED
      BY <2>1, <2>2 DEF Start
  <1>2. Given' = Given /\ Kept' = Kept /\ Stale' = Given
    BY <1>1 DEF Given, Kept, Stale, objectVars
  <1>3. Stage' = Stage /\ Request' = Request /\ Out' = Out
    BY CallKept
  <1>4. Stage # "answered"
    BY DEF Stage, Answered, Asking
  <1>5. Store!Reset
    BY <1>2, <1>3, <1>4 DEF Store!Reset, objectVars
  <1>6. QED
    BY <1>5 DEF Store!Next

\* A call that ends without an answer fails; a clear that does is not seen.
LEMMA CallIsOver ==
  ASSUME UNCHANGED objectVars, UNCHANGED generation,
         \/ pc \in {"locked", "send", "resend"}
         \/ pc = "reply" /\ (~reply.ok \/ call.kind \in {"clear", "drain"}),
         pc' \in {"idle", "halted"},
         call.kind \in Kinds
  PROVE  Store!Next \/ UNCHANGED Store!vars
  <1>1. Given' = Given /\ Kept' = Kept /\ Stale' = Stale /\ val' = val
    BY ObjectsKept DEF objectVars
  <1>2. Stage' = "free" /\ Request' = NoCall /\ Out' = NoReply.got
    BY DEF Stage, Request, Out, Asking, Answered
  <1>3. CASE call.kind \in {"clear", "drain"}
    BY <1>1, <1>2, <1>3, NoRequestStage DEF Store!vars
  <1>4. CASE call.kind \in {"op", "materialize"}
    <2>1. Stage = "asked" /\ Request = call /\ Out = NoReply.got
      BY <1>4, AskedStage
    <2>2. Store!Fail
      BY <1>1, <1>2, <2>1 DEF Store!Fail, Store!NoRequest, NoCall
    <2>3. QED
      BY <2>2 DEF Store!Next
  <1>5. QED
    BY <1>3, <1>4 DEF Kinds

\* The answer of the server uses each operand as its own expression.
LEMMA HandleComputes ==
  ASSUME SafeInv, SafeInv', Handle
  PROVE  Store!Next \/ UNCHANGED Store!vars
  <1>1. /\ pc \in {"send", "resend"} /\ pc' = "reply"
        /\ call' = call /\ UNCHANGED <<objectVars, generation>>
    BY DEF Handle, CachePut, backendVars
  <1>2. Given' = Given /\ Kept' = Kept /\ Stale' = Stale /\ val' = val
    BY <1>1, ObjectsKept DEF objectVars
  <1>3. call.kind \in Kinds /\ call.args \subseteq Exprs
    BY DEF SafeInv, TypeInv, TypeOK
  <1>4. CASE call.kind \in {"clear", "drain"}
    <2>1. Stage' = "free" /\ Request' = NoCall /\ Out' = NoReply.got
      BY <1>1, <1>4 DEF Stage, Request, Out, Asking, Answered
    <2>2. QED
      BY <1>2, <1>4, <2>1, NoRequestStage DEF Store!vars
  <1>5. CASE call.kind \in {"op", "materialize"} /\ ~reply'.ok
    <2>1. Stage' = "asked" /\ Request' = call /\ Out' = NoReply.got
      BY <1>1, <1>5 DEF Stage, Request, Out, Asking, Answered
    <2>2. Stage = "asked" /\ Request = call /\ Out = NoReply.got
      BY <1>1, <1>5, AskedStage
    <2>3. QED
      BY <1>2, <2>1, <2>2 DEF Store!vars
  <1>6. CASE call.kind \in {"op", "materialize"} /\ reply'.ok
    <2>1. Stage' = "answered" /\ Request' = call /\ Out' = reply'.got
      BY <1>1, <1>6 DEF Stage, Request, Out, Asking, Answered
    <2>2. Stage = "asked" /\ Request = call
      BY <1>1, <1>6, AskedStage
    <2>3. reply'.got \in [Exprs -> Exprs \cup {Missing}]
      BY DEF SafeInv, TypeInv, TypeOK
    <2>4. \A h \in Exprs \ call.args : reply'.got[h] = Missing
      BY <1>1 DEF Handle, CachePut, Answer
    <2>5. ASSUME NEW h \in call.args
          PROVE  reply'.got[h] = h \/ (call.kind = "materialize" /\ h \in Stale)
      <3>1. CASE call.kind = "op"
        BY <1>1, <1>6, <3>1 DEF SafeInv, SafeParts, OpResolvesOwn
      <3>2. CASE call.kind = "materialize" /\ ref[h].gen = generation
        BY <1>1, <1>6, <3>2 DEF SafeInv, SafeParts, ReadReplyInv, objectVars
      <3>3. CASE call.kind = "materialize" /\ ref[h].gen # generation
        BY <1>3, <3>3 DEF Stale, SafeInv, TypeInv, Handed
      <3>4. QED
        BY <1>6, <3>1, <3>2, <3>3
    <2>6. Store!Compute
      BY <1>2, <2>1, <2>2, <2>3, <2>4, <2>5 DEF Store!Compute
    <2>7. QED
      BY <2>6 DEF Store!Next
  <1>7. QED
    BY <1>3, <1>4, <1>5, <1>6 DEF Kinds

\* Go takes up an answer: a new handle, an inline result or the value of a handle.
LEMMA DecodeDelivers ==
  ASSUME SafeInv, Decode
  PROVE  Store!Next \/ UNCHANGED Store!vars
  <1>1. /\ pc = "reply" /\ pc' \in {"idle", "halted"}
        /\ generation' = generation /\ call.kind \in Kinds
    BY DEF Decode, AfterError, SafeInv, TypeInv, TypeOK
  <1>2. CASE ~reply.ok
    BY <1>1, <1>2, CallIsOver DEF Decode
  <1>3. CASE reply.ok /\ call.kind = "clear"
    BY <1>1, <1>3, CallIsOver DEF Decode
  <1>4. Stage' = "free" /\ Request' = NoCall /\ Out' = NoReply.got
    BY <1>1 DEF Stage, Request, Out, Asking, Answered
  <1>5. CASE reply.ok /\ call.kind \in {"op", "materialize"}
    <2>1. Stage = "answered" /\ Request = call /\ Out = reply.got
      BY <1>1, <1>5, AnsweredStage
    <2>2. CASE UNCHANGED <<ref, holder>>
      <3>1. Given' = Given /\ Kept' = Kept /\ Stale' = Stale
        BY <1>1, <2>2, ObjectsKept
      <3>2. val' = IF call.kind = "materialize"
                     THEN [h \in Exprs |-> IF h \in call.args THEN reply.got[h] ELSE val[h]]
                     ELSE val
        BY <1>5 DEF Decode, objectVars
      <3>3. Store!Deliver({})
        BY <1>4, <2>1, <3>1, <3>2
           DEF Store!Deliver, Store!NoRequest, Store!NoOut, NoCall, NoReply
      <3>4. QED
        BY <3>3 DEF Store!Next
    <2>3. CASE call.kind = "op" /\ reply.new # Missing
      <3> DEFINE n == reply.new
      <3>1. /\ ref' = [ref EXCEPT ![n] =
                         [id |-> reply.id, gen |-> generation, ce |-> clearEpoch]]
            /\ holder' = [holder EXCEPT ![n] = "stack"]
            /\ val' = val
            /\ n \in Exprs
        BY <1>5, <2>3 DEF Decode, SafeInv, TypeInv, TypeOK
      <3>2. holder[n] = "none"
        BY <1>1, <2>3 DEF SafeInv, SafeParts, NewInv, Issued
      <3>3. /\ \A h \in Exprs : h # n => ref'[h] = ref[h] /\ holder'[h] = holder[h]
            /\ ref'[n].gen = generation /\ holder'[n] = "stack"
        BY <3>1 DEF SafeInv, TypeInv, TypeOK
      <3>4. Given' = Given \cup {n} /\ Kept' = Kept \cup {n} /\ Stale' = Stale
        BY <1>1, <3>1, <3>2, <3>3 DEF Given, Kept, Stale, Held
      <3>5. {n} \in SUBSET (Exprs \ Given)
        BY <3>1, <3>2 DEF Given
      <3>6. Store!Deliver({n})
        BY <1>4, <2>1, <2>3, <3>1, <3>4, <3>5
           DEF Store!Deliver, Store!NoRequest, Store!NoOut, NoCall, NoReply
      <3>7. QED
        BY <3>1, <3>6 DEF Store!Next
    <2>4. QED
      BY <1>5, <2>2, <2>3 DEF Decode, objectVars
  <1>6. QED
    BY <1>1, <1>2, <1>3, <1>5 DEF Decode

\* A handle that loses its last holder is forgotten.
LEMMA HolderForgets ==
  ASSUME NEW h \in Exprs, holder \in [Exprs -> Held \cup {"none", "garbage", "freed"}],
         holder[h] \in Held, holder' = [holder EXCEPT ![h] = "garbage"],
         UNCHANGED <<ref, val, generation, callVars>>
  PROVE  Store!Next
  <1>1. \A g \in Exprs : holder'[g] = IF g = h THEN "garbage" ELSE holder[g]
    OBVIOUS
  <1>2. Given' = Given /\ Kept' = Kept \ {h} /\ Stale' = Stale /\ h \in Kept
    BY <1>1 DEF Given, Kept, Stale, Held
  <1>3. Stage' = Stage /\ Request' = Request /\ Out' = Out
    BY CallKept DEF callVars
  <1>4. Store!Forget(h)
    BY <1>2, <1>3 DEF Store!Forget
  <1>5. QED
    BY <1>4 DEF Store!Next

-----------------------------------------------------------------------------
(* Refinement *)

LEMMA InitStore == Init => Store!Init
  <1> SUFFICES ASSUME Init PROVE Store!Init
    OBVIOUS
  <1>1. Given = {} /\ Kept = {} /\ Stale = {}
    BY DEF Init, Given, Kept, Stale, Held
  <1>2. Stage = "free" /\ Request = NoCall /\ Out = NoReply.got
    BY NoRequestStage DEF Init
  <1>3. QED
    BY <1>1, <1>2 DEF Init, Store!Init, Store!NoRequest, Store!NoOut, NoCall, NoReply

LEMMA NextStore ==
  SafeInv /\ SafeInv' /\ [Next]_vars => Store!Next \/ UNCHANGED Store!vars
  <1> SUFFICES ASSUME SafeInv, SafeInv', [Next]_vars
               PROVE  Store!Next \/ UNCHANGED Store!vars
    OBVIOUS
  <1>t. /\ holder \in [Exprs -> Held \cup {"none", "garbage", "freed"}]
        /\ call.kind \in Kinds
    BY DEF SafeInv, TypeInv, TypeOK
  <1>1. ASSUME NEW A \in SUBSET Exprs, EncodeOp(A) PROVE Store!Next
    <2> DEFINE B == {h \in A : Live(h)}
    <2>1. Given' = Given /\ Kept' = Kept /\ Stale' = Stale /\ val' = val
      BY <1>1, ObjectsKept DEF EncodeOp, objectVars, backendVars
    <2>2. Stage = "free" /\ Out = NoReply.got
      BY <1>1, NoRequestStage DEF EncodeOp
    <2>3. /\ Stage' = "asked" /\ Out' = NoReply.got
          /\ Request' = [kind |-> "op", args |-> B]
      BY <1>1 DEF EncodeOp, Stage, Request, Out, Asking, Answered
    <2>4. B \in SUBSET Exprs /\ B \subseteq Kept
      BY <1>1 DEF EncodeOp, Kept
    <2>5. Store!Ask("op", B)
      BY <2>1, <2>2, <2>3, <2>4 DEF Store!Ask
    <2>6. QED
      BY <2>4, <2>5 DEF Store!Next
  <1>2. ASSUME NEW h \in Exprs, Materialize(h) PROVE Store!Next
    <2>1. Given' = Given /\ Kept' = Kept /\ Stale' = Stale /\ val' = val
      BY <1>2, ObjectsKept DEF Materialize, objectVars, backendVars
    <2>2. Stage = "free" /\ Out = NoReply.got
      BY <1>2, NoRequestStage DEF Materialize
    <2>3. /\ Stage' = "asked" /\ Out' = NoReply.got
          /\ Request' = [kind |-> "materialize", args |-> {h}]
      BY <1>2 DEF Materialize, Stage, Request, Out, Asking, Answered
    <2>4. {h} \in SUBSET Exprs /\ {h} \subseteq Kept
      BY <1>2 DEF Materialize, Kept
    <2>5. Store!Ask("materialize", {h})
      BY <2>1, <2>2, <2>3, <2>4 DEF Store!Ask
    <2>6. QED
      BY <2>4, <2>5 DEF Store!Next
  <1>3. ASSUME NEW h \in Exprs, NEW where \in Held, Bind(h, where)
        PROVE  UNCHANGED Store!vars
    <2>1. \A g \in Exprs : holder'[g] = IF g = h THEN where ELSE holder[g]
      BY <1>t, <1>3 DEF Bind
    <2>2. Given' = Given /\ Kept' = Kept /\ Stale' = Stale
      BY <1>3, <2>1 DEF Bind, Given, Kept, Stale, Held, backendVars
    <2>3. QED
      BY <1>3, <2>2, CallKept DEF Bind, callVars, Store!vars
  <1>4. ASSUME NEW h \in Exprs, Drop(h) \/ OperandDies(h) PROVE Store!Next
    BY <1>t, <1>4, HolderForgets DEF Drop, OperandDies, Held, backendVars
  <1>5. ASSUME NEW h \in Exprs, Finalize(h) PROVE UNCHANGED Store!vars
    <2>1. \A g \in Exprs : holder'[g] = IF g = h THEN "freed" ELSE holder[g]
      BY <1>t, <1>5 DEF Finalize
    <2>2. Given' = Given /\ Kept' = Kept /\ Stale' = Stale
      BY <1>5, <2>1 DEF Finalize, Given, Kept, Stale, Held
    <2>3. QED
      BY <1>5, <2>2, CallKept DEF Finalize, callVars, Store!vars
  <1>6. CASE Drain \/ ClearCache \/ Exit
    <2>1. /\ pc = "idle"
          /\ pc' \in {"idle", "halted"} \/ call'.kind \in {"clear", "drain"}
          /\ UNCHANGED <<objectVars, generation>>
      BY <1>6 DEF Drain, ClearCache, Exit, AtBoundary, backendVars
    <2>2. Stage' = "free" /\ Request' = NoCall /\ Out' = NoReply.got
      BY <2>1 DEF Stage, Request, Out, Asking, Answered
    <2>3. Stage = "free" /\ Request = NoCall /\ Out = NoReply.got
      BY <2>1, NoRequestStage
    <2>4. QED
      BY <2>1, <2>2, <2>3, ObjectsKept DEF Store!vars, objectVars
  <1>7. CASE EnsureStarted
    <2>1. CASE UNCHANGED <<serverVars, backendVars>> /\ pc' = "flush"
      BY <1>7, <2>1, ObjectsKept, CallKept
         DEF EnsureStarted, Store!vars, objectVars, backendVars
    <2>2. CASE Start /\ pc' = "flush"
      BY <1>7, <2>2, StartResets DEF EnsureStarted
    <2>3. CASE StartFails /\ pc' \in AfterError
      BY <1>t, <1>7, <2>3, CallIsOver DEF EnsureStarted, StartFails, AfterError
    <2>4. QED
      BY <1>7, <2>1, <2>2, <2>3 DEF EnsureStarted
  <1>8. CASE Flush
    <2>1. UNCHANGED <<objectVars, generation, call, reply>>
      BY <1>8 DEF Flush
    <2>2. CASE call.kind = "drain"
      <3>1. pc' = "idle"
        BY <1>8, <2>2 DEF Flush
      <3>2. Stage' = "free" /\ Request' = NoCall /\ Out' = NoReply.got
        BY <3>1 DEF Stage, Request, Out, Asking, Answered
      <3>3. QED
        BY <2>1, <2>2, <3>2, ObjectsKept, NoRequestStage DEF Store!vars, objectVars
    <2>3. CASE call.kind # "drain"
      <3>1. pc = "flush" /\ pc' = "send"
        BY <1>8, <2>3 DEF Flush
      <3>2. QED
        BY <2>1, <3>1, ObjectsKept, CallKept DEF Store!vars, objectVars
    <2>4. QED
      BY <2>2, <2>3
  <1>9. CASE Handle
    BY <1>9, HandleComputes
  <1>10. CASE SendFails
    <2>1. CASE UNCHANGED generation /\ pc' \in AfterError
      BY <1>t, <1>10, <2>1, CallIsOver DEF SendFails, AfterError
    <2>2. CASE Start /\ pc' = "resend"
      BY <1>10, <2>2, StartResets DEF SendFails
    <2>3. QED
      BY <1>10, <2>1, <2>2 DEF SendFails
  <1>11. CASE ResendFails
    BY <1>t, <1>11, CallIsOver DEF ResendFails, AfterError
  <1>12. CASE Decode
    BY <1>12, DecodeDelivers
  <1>13. CASE Crash
    BY <1>13, ObjectsKept, CallKept DEF Crash, Store!vars, objectVars, backendVars, callVars
  <1>14. CASE UNCHANGED vars
    BY <1>14, ObjectsKept, CallKept DEF vars, Store!vars, objectVars, backendVars, callVars
  <1>15. QED
    BY <1>1, <1>2, <1>3, <1>4, <1>5, <1>6, <1>7, <1>8, <1>9, <1>10, <1>11, <1>12,
       <1>13, <1>14
       DEF Next, CallStep, Halted

\* The two programs together implement the handle store: every step of theirs is
\* a step of the store or invisible to it, with any number of handles, operands,
\* restarts and clears, in every mode.
THEOREM StoreImplemented == Spec => ImplementsStore
  <1>1. Spec => []SafeInv
    BY SafeInvariance
  <1>2. QED
    BY <1>1, InitStore, NextStore, PTL DEF Spec, ImplementsStore, Store!Spec

-----------------------------------------------------------------------------
(* The remember table *)

\* Every id that was ever used as a key is the id of the argument it was used for.
MemoInv ==
  /\ memo \in [Ids -> Exprs \cup {Missing}]
  /\ \A i \in Ids : memo[i] # Missing => Issued(memo[i]) /\ ref[memo[i]].id = i
  /\ \A k \in DOMAIN frames :
       frames[k] \in Frame /\ Issued(frames[k].arg) /\ ref[frames[k].arg].id = frames[k].key
  /\ frames \in Seq(Frame)
  /\ hit \in [asked : Exprs \cup {Missing}, found : Exprs \cup {Missing}]
  /\ hit.asked = Missing <=> hit.found = Missing
  /\ hit.asked # Missing => /\ Issued(hit.asked) /\ Issued(hit.found)
                            /\ ref[hit.asked].id = ref[hit.found].id

\* A SageRef never changes once Go has it.
LEMMA HandlesAreConstant ==
  ASSUME SafeInv, [Next]_vars, NEW h \in Exprs, Issued(h)
  PROVE  holder'[h] # "none" /\ ref'[h] = ref[h]
  <1> USE DEF Issued, objectVars
  <1>t. /\ holder \in [Exprs -> Held \cup {"none", "garbage", "freed"}]
        /\ ref \in [Exprs -> [id : Ids \cup {Missing}, gen : 0..MaxGen, ce : 0..MaxEpoch]]
        /\ reply.new \in Exprs \cup {Missing}
    BY DEF SafeInv, TypeInv, TypeOK
  <1>1. CASE Decode
    <2>1. reply.new # Missing => reply.new # h
      BY <1>1 DEF Decode, SafeInv, SafeParts, NewInv
    <2>2. QED
      BY <1>1, <1>t, <2>1 DEF Decode
  <1>2. CASE CallStep /\ ~Decode
    BY <1>2 DEF CallStep, EnsureStarted, Flush, Handle, SendFails, ResendFails
  <1>3. CASE \E g \in Exprs : Drop(g) \/ OperandDies(g) \/ Finalize(g)
    BY <1>3, <1>t DEF Drop, OperandDies, Finalize, Held
  <1>4. CASE \E g \in Exprs, where \in Held : Bind(g, where)
    BY <1>4, <1>t DEF Bind, Held
  <1>5. CASE \/ \E A \in SUBSET Exprs : EncodeOp(A)
             \/ \E g \in Exprs : Materialize(g)
             \/ Drain \/ ClearCache \/ Crash \/ Exit \/ UNCHANGED vars
    BY <1>5 DEF EncodeOp, Materialize, Drain, ClearCache, Crash, Exit, vars
  <1>6. QED
    BY <1>1, <1>2, <1>3, <1>4, <1>5 DEF Next, Halted

LEMMA RememberSteps == [RememberNext]_allVars => [Next]_vars
  BY DEF RememberNext, CallHit, CallMiss, Return, Raise, Program, allVars

LEMMA RememberRefines == RememberSpec => Spec
  <1>1. RememberInit => Init
    BY DEF RememberInit
  <1>2. QED
    BY <1>1, RememberSteps, PTL DEF RememberSpec, Spec

LEMMA InitMemo == RememberInit => MemoInv
  BY DEF RememberInit, MemoInv, NoHit, Missing

LEMMA NextMemo == SafeInv /\ MemoInv /\ [RememberNext]_allVars => MemoInv'
  <1> SUFFICES ASSUME SafeInv, MemoInv, [RememberNext]_allVars PROVE MemoInv'
    OBVIOUS
  <1>0. \A h \in Exprs : Issued(h) => holder'[h] # "none" /\ ref'[h] = ref[h]
    BY RememberSteps, HandlesAreConstant
  <1>t. \A h \in Exprs : Issued(h) => ref[h].id \in Ids
    BY DEF SafeInv, TypeInv, Handed, Issued
  <1>m. Missing \notin Exprs
    BY DEF Missing, Exprs
  <1>1. ASSUME NEW h \in Exprs, CallHit(h) PROVE MemoInv'
    <2>1. Issued(h) /\ ref[h].id \in Ids
      BY <1>1, <1>t DEF CallHit, Issued, Held
    <2>2. memo[ref[h].id] \in Exprs /\ Issued(memo[ref[h].id]) /\ ref[memo[ref[h].id]].id = ref[h].id
      BY <1>1, <2>1 DEF CallHit, Remembered, rememberKey, MemoInv
    <2>3. hit' = [asked |-> h, found |-> memo[ref[h].id]]
      BY <1>1 DEF CallHit, rememberKey
    <2>4. UNCHANGED <<memo, frames, ref, holder>>
      BY <1>1 DEF CallHit, vars, objectVars
    <2>5. QED
      BY <1>m, <2>1, <2>2, <2>3, <2>4 DEF MemoInv, Issued
  <1>2. ASSUME NEW h \in Exprs, CallMiss(h) PROVE MemoInv'
    <2> DEFINE f == [key |-> ref[h].id, arg |-> h]
    <2>1. Issued(h) /\ f \in Frame
      BY <1>2, <1>t DEF CallMiss, Issued, Held, Frame
    <2>2. /\ frames' = Append(frames, f) /\ hit' = NoHit
          /\ UNCHANGED <<memo, ref, holder>>
      BY <1>2 DEF CallMiss, rememberKey, vars, objectVars
    <2>3. /\ frames' \in Seq(Frame)
          /\ DOMAIN frames' = 1..(Len(frames) + 1)
          /\ \A k \in DOMAIN frames' :
               frames'[k] = IF k = Len(frames) + 1 THEN f ELSE frames[k]
          /\ \A k \in DOMAIN frames' : k = Len(frames) + 1 \/ k \in DOMAIN frames
      BY <2>1, <2>2 DEF MemoInv
    <2>4. \A k \in DOMAIN frames' :
            /\ frames'[k] \in Frame
            /\ holder[frames'[k].arg] # "none"
            /\ ref[frames'[k].arg].id = frames'[k].key
      BY <2>1, <2>3 DEF MemoInv, Issued
    <2>5. QED
      BY <2>2, <2>3, <2>4 DEF MemoInv, Issued, NoHit
  <1>3. CASE Return \/ Raise
    <2> DEFINE f == frames[Len(frames)]
    <2>1. /\ frames # << >> /\ frames \in Seq(Frame)
          /\ frames' = SubSeq(frames, 1, Len(frames) - 1)
          /\ hit' = NoHit
          /\ UNCHANGED <<ref, holder>>
          /\ memo' = memo \/ memo' = [memo EXCEPT ![f.key] = f.arg]
      BY <1>3 DEF Return, Raise, MemoInv, vars, objectVars
    <2>2. Len(frames) \in DOMAIN frames /\ Len(frames) - 1 \in Nat
      BY <2>1
    <2>3. /\ f \in Frame /\ Issued(f.arg) /\ ref[f.arg].id = f.key
          /\ f.key \in Ids /\ f.arg \in Exprs
      BY <2>2 DEF MemoInv, Frame
    <2>4. /\ frames' \in Seq(Frame)
          /\ \A k \in DOMAIN frames' : k \in DOMAIN frames /\ frames'[k] = frames[k]
      BY <2>1, <2>2
    <2>5. memo' \in [Ids -> Exprs \cup {Missing}]
      BY <2>1, <2>3 DEF MemoInv
    <2>6. \A i \in Ids : memo'[i] \in {memo[i]} \cup (IF i = f.key THEN {f.arg} ELSE {})
      BY <2>1, <2>3 DEF MemoInv
    <2>7. \A i \in Ids : memo'[i] # Missing => holder[memo'[i]] # "none" /\ ref[memo'[i]].id = i
      BY <2>3, <2>6 DEF MemoInv, Issued
    <2>8. \A k \in DOMAIN frames' :
            /\ frames'[k] \in Frame
            /\ holder[frames'[k].arg] # "none"
            /\ ref[frames'[k].arg].id = frames'[k].key
      BY <2>4 DEF MemoInv, Issued
    <2>9. QED
      BY <2>1, <2>4, <2>5, <2>7, <2>8 DEF MemoInv, Issued, NoHit
  <1>4. CASE UNCHANGED memoVars
    <2>1. \A i \in Ids : memo[i] # Missing => memo[i] \in Exprs
      BY DEF MemoInv
    <2>2. \A k \in DOMAIN frames : frames[k].arg \in Exprs
      BY DEF MemoInv, Frame
    <2>3. hit.asked # Missing => hit.asked \in Exprs /\ hit.found \in Exprs
      BY DEF MemoInv
    <2>4. UNCHANGED <<memo, frames, hit>>
      BY <1>4 DEF memoVars
    <2>5. QED
      BY <1>0, <2>1, <2>2, <2>3, <2>4 DEF MemoInv, Issued
  <1>5. QED
    BY <1>1, <1>2, <1>3, <1>4 DEF RememberNext, Program, allVars

LEMMA MemoInvariance == RememberSpec => []MemoInv
  BY RememberRefines, SafeInvariance, InitMemo, NextMemo, PTL DEF RememberSpec

\* A remember table answers with the result of another argument only when the two
\* handles come from different starts of the server: within one, ids are enough.
THEOREM WrongHitsNeedRestarts == RememberSpec => []WrongHitNeedsRestart
  <1>1. SafeInv /\ MemoInv => WrongHitNeedsRestart
    BY DEF SafeInv, SafeParts, IdInv, MemoInv, WrongHitNeedsRestart
  <1>2. QED
    BY <1>1, RememberRefines, SafeInvariance, MemoInvariance, PTL

\* While no process dies and no budget is set, a remembered answer is the one for
\* the argument of the call.
THEOREM HitsOwnWithoutFaults ==
  ASSUME ~Crashes, ~Timeouts
  PROVE  RememberSpec => []HitIsOwn
  <1>1. SafeInv /\ OneServer /\ MemoInv => HitIsOwn
    <2> SUFFICES ASSUME SafeInv, OneServer, MemoInv, hit.found # hit.asked PROVE FALSE
      BY DEF HitIsOwn
    <2>1. /\ hit.asked \in Exprs /\ hit.found \in Exprs
          /\ Issued(hit.asked) /\ Issued(hit.found)
      BY DEF MemoInv
    <2>2. ref[hit.asked].gen = ref[hit.found].gen
      BY <2>1, OneGeneration
    <2>3. QED
      BY <2>1, <2>2 DEF MemoInv, SafeInv, SafeParts, IdInv
  <1>2. QED
    BY <1>1, RememberRefines, SafeInvariance, OneServerInvariance, MemoInvariance, PTL

=============================================================================
