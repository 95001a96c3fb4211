------------------------------- MODULE Scopes --------------------------------
(***************************************************************************)
(* Names and scopes of the interpreter (src/src/env.go, interp.go,         *)
(* proc_eval.go, specialforms.go): lookup and store, procedure calls with  *)
(* by-reference parameters, closures and the loop variables of seq, add    *)
(* and mul.                                                                *)
(*                                                                         *)
(* A table or a procedure is an object that a name refers to; any other    *)
(* value is plain; a name that stands for itself is a value too.  What an  *)
(* object holds does not matter here.  The program is any program.         *)
(***************************************************************************)
EXTENDS Naturals, SequencesExt

CONSTANTS
  Names,       \* identifiers
  Qualified,   \* those of the form Package/Name
  Objects,     \* tables and procedures
  Plain,       \* numbers, strings, lists, expressions, sequences
  Items,       \* the values a sequence is made of, none for NULL
  Unbound,     \* not a value
  MaxCalls,    \* bound: active procedure calls
  MaxArgs,     \* bound: parameters and arguments of a call
  MaxItems,    \* bound: values of an argument that is an expression
  MaxLocals,   \* bound: parameters and locals of a procedure
  MaxBinders,  \* bound: active seq, add and mul
  MaxEnvs,     \* bound: closures with an environment
  MaxActive,   \* bound: active calls, active binders and closures together
  Declares     \* procedures declare every name that is not local as global

ASSUME NamesAssumption ==
  /\ Qualified \subseteq Names
  /\ Names \cap Objects = {} /\ Names \cap Plain = {} /\ Objects \cap Plain = {}
  /\ Unbound \notin Names \cup Objects \cup Plain
ASSUME ItemsAssumption ==
  /\ DOMAIN Items \subseteq Plain
  /\ \A s \in DOMAIN Items :
       Items[s] \in Seq((Names \cup Objects \cup Plain) \ DOMAIN Items)
ASSUME BoundsAssumption ==
  /\ MaxCalls \in Nat /\ MaxArgs \in Nat /\ MaxItems \in Nat /\ MaxLocals \in Nat
  /\ MaxBinders \in Nat /\ MaxEnvs \in Nat /\ MaxActive \in Nat
ASSUME ModeAssumption == Declares \in BOOLEAN

VARIABLES
  globals,     \* it.globals
  scopes,      \* the active scopes; it.scope is the last
  depth,       \* how many there are
  binders,     \* the active seq, add and mul, innermost last
  envs         \* the environments of the closures made so far

vars == <<globals, scopes, depth, binders, envs>>

Values == Names \cup Objects \cup Plain
NoBindings == [n \in Names |-> Unbound]

\* wbTarget: a name in a scope, 0 standing for the global table.
NoTarget == [sc |-> 0, name |-> Unbound]

NoScope == [isLocal |-> {}, isGlobal |-> {}, locals |-> NoBindings,
            captured |-> NoBindings, paramWB |-> [n \in Names |-> NoTarget]]

Init ==
  /\ globals = NoBindings
  /\ scopes = [d \in 1..MaxCalls |-> NoScope]
  /\ depth = 0
  /\ binders = << >>
  /\ envs = {}

-----------------------------------------------------------------------------
(* lookup, store, storeAt, evalName, resolveRefForStore *)

\* What a name that is not local is bound to in a procedure with environment env.
Free(env, n) ==
  IF env[n] # Unbound /\ (n \notin Qualified \/ globals[n] = Unbound) THEN env[n]
  ELSE globals[n]

\* What name n is bound to for code running in scope d.
LookupIn(d, n) ==
  IF d = 0 THEN globals[n]
  ELSE IF n \in scopes[d].isLocal THEN scopes[d].locals[n]
  ELSE Free(scopes[d].captured, n)

Lookup(n) == LookupIn(depth, n)

\* A name that is unbound or refers to an object evaluates to itself.
Evaluated(n, v) == IF v \in Objects \cup {Unbound} THEN n ELSE v
EvalIn(d, n) ==
  Evaluated(n, LookupIn(d, n))

\* A name that refers to an object is replaced by the object.
Resolve(v) == IF v \in Names /\ Lookup(v) \in Objects THEN Lookup(v) ELSE v

\* Fault for mutation: a name that is not local goes to the caller that has it.
WrittenDynamically(d, n) ==
  LET having == {e \in 1..d : n \in scopes[e].isLocal}
  IN  IF having = {} THEN {<<0, n>>}
      ELSE {<<CHOOSE e \in having : \A f \in having : f <= e, n>>}

\* Fault for mutation: the chain stops at the first caller.
WrittenOneUp(d, n) ==
  LET wb == scopes[d].paramWB[n]
  IN  IF d = 0 \/ n \notin scopes[d].isLocal THEN {<<0, n>>}
      ELSE IF wb = NoTarget THEN {<<d, n>>}
      ELSE {<<d, n>>, <<wb.sc, wb.name>>}

\* The slots an assignment to n in scope d writes: the local and, for a
\* parameter bound by reference, the caller's name, and so on up.
Written(d, n) ==
  LET slots[e \in 0..d] ==
        [m \in Names |->
           IF e = 0 \/ m \notin scopes[e].isLocal THEN {<<0, m>>}
           ELSE LET wb == scopes[e].paramWB[m]
                IN  {<<e, m>>} \cup (IF wb = NoTarget THEN {} ELSE slots[wb.sc][wb.name])]
  IN  slots[d][n]

Store(n, v) ==
  LET W == Written(depth, n)
      WrittenIn(b, d) == [m \in Names |-> IF <<d, m>> \in W THEN v ELSE b[m]]
  IN  /\ globals' = WrittenIn(globals, 0)
      /\ scopes' = [d \in 1..MaxCalls |->
                      IF \E w \in W : w[1] = d
                        THEN [scopes[d] EXCEPT !.locals = WrittenIn(@, d)]
                        ELSE scopes[d]]

-----------------------------------------------------------------------------
(* Statements *)

\* n := v
Assign(n, v) ==
  /\ Store(n, Resolve(v))
  /\ UNCHANGED <<depth, binders, envs>>

\* for n in ... : the loop variable is an ordinary name.  A value is stored as it
\* is; one that Resolve would not change makes the same step as an assignment.
ForStep(n, v) ==
  /\ Resolve(v) # v
  /\ Store(n, v)
  /\ UNCHANGED <<depth, binders, envs>>

\* n[i] := v makes n a new table when n has no value or stands for a name.
Vivify(n, t) ==
  /\ Lookup(n) \in Names \cup {Unbound}
  /\ Resolve(Lookup(n)) \notin Objects
  /\ Store(n, t)
  /\ UNCHANGED <<depth, binders, envs>>

\* Fault for mutation: what is inherited hides the locals of the same name.
CaptureInheritedFirst ==
  [n \in Names |-> IF scopes[depth].captured[n] # Unbound
                     THEN scopes[depth].captured[n] ELSE scopes[depth].locals[n]]

\* captureEnv: the environment of a procedure made in the running scope; an empty
\* one is like none.
CaptureEnv ==
  [n \in Names |-> IF scopes[depth].locals[n] # Unbound
                     THEN scopes[depth].locals[n] ELSE scopes[depth].captured[n]]

MakeClosure ==
  /\ depth > 0
  /\ CaptureEnv # NoBindings
  /\ Cardinality(envs \cup {CaptureEnv}) <= MaxEnvs
  /\ depth + Len(binders) + Cardinality(envs) < MaxActive
  /\ envs' = envs \cup {CaptureEnv}
  /\ UNCHANGED <<globals, scopes, depth, binders>>

-----------------------------------------------------------------------------
(* Calls: evalArgs, argWritebacks, callProcWB, bindParams *)

\* A sequence as an argument is as many arguments as it has items.
Spread(v) == IF v \in DOMAIN Items THEN Items[v] ELSE <<v>>

\* An argument node: a bare name, or another expression, such as a call or NULL,
\* of any number of values.
Arguments ==
  {[name |-> n, values |-> Spread(Resolve(EvalIn(depth, n)))] : n \in Names}
  \cup {[name |-> Unbound, values |-> vs] :
          vs \in BoundedSeq(Values \ DOMAIN Items, MaxItems)}

\* A bare name that is bound to an object can be written through.
Writeback(arg) ==
  IF arg.name # Unbound /\ Lookup(arg.name) \in Objects
    THEN [sc |-> depth, name |-> arg.name] ELSE NoTarget

\* The flattened values bind to the parameters by position, and the write-through
\* targets by the position of the argument node.
Bound(params, args) ==
  LET flat == FlattenSeq([i \in DOMAIN args |-> args[i].values])
  IN  [n \in Names |->
         IF \E i \in DOMAIN params : params[i] = n
           THEN LET i == CHOOSE j \in DOMAIN params : params[j] = n
                IN  IF i <= Len(flat) THEN flat[i] ELSE n
           ELSE Unbound]

\* Any arguments for some parameters.  One beyond them is only in args and _passed,
\* or its value takes the place of an empty one, as another's value may as well.
ArgLists(params) == BoundedSeq(Arguments, Len(params))

\* Fault for mutation: arguments without a target have no place in the list.
WiredWithoutGaps(params, args) ==
  LET targets == SelectSeq([i \in DOMAIN args |-> Writeback(args[i])],
                           LAMBDA t : t # NoTarget)
  IN  [n \in Names |->
         IF \E i \in DOMAIN params \cap DOMAIN targets : params[i] = n
           THEN targets[CHOOSE i \in DOMAIN params : params[i] = n]
           ELSE NoTarget]

Wired(params, args) ==
  [n \in Names |->
     IF \E i \in DOMAIN params \cap DOMAIN args : params[i] = n
       THEN Writeback(args[CHOOSE i \in DOMAIN params : params[i] = n])
       ELSE NoTarget]

\* A call of any procedure: its parameters, declared locals and globals, and the
\* environment it was made in, if it is a closure.
Call(params, locals, env, args) ==
  /\ depth < MaxCalls
  /\ depth + Len(binders) + Cardinality(envs) < MaxActive
  /\ scopes' = [scopes EXCEPT ![depth + 1] =
                  [isLocal |-> ToSet(params) \cup locals,
                   isGlobal |-> IF Declares THEN Names \ (ToSet(params) \cup locals) ELSE {},
                   locals |-> Bound(params, args), captured |-> env,
                   paramWB |-> Wired(params, args)]]
  /\ depth' = depth + 1
  /\ UNCHANGED <<globals, binders, envs>>

\* The procedure is left, normally or by a signal.
Leave ==
  /\ depth > 0
  /\ binders # << >> => Last(binders).at < depth
  /\ scopes' = [scopes EXCEPT ![depth] = NoScope]
  /\ depth' = depth - 1
  /\ UNCHANGED <<globals, binders, envs>>

-----------------------------------------------------------------------------
(* seq, add, mul: iterateBinder *)

BeginBinder(n) ==
  /\ Len(binders) < MaxBinders
  /\ depth + Len(binders) + Cardinality(envs) < MaxActive
  /\ binders' = Append(binders, [at |-> depth, var |-> n, old |-> Lookup(n)])
  /\ UNCHANGED <<globals, scopes, depth, envs>>

InBinder == binders # << >> /\ Last(binders).at = depth

Iterate(v) ==
  /\ InBinder
  /\ Store(Last(binders).var, v)
  /\ UNCHANGED <<depth, binders, envs>>

\* Fault for mutation: a variable that had no value keeps the last item.
EndBinderIfBound ==
  /\ InBinder
  /\ LET b == Last(binders)
     IN  IF b.old = Unbound THEN UNCHANGED <<globals, scopes>> ELSE Store(b.var, b.old)
  /\ binders' = Front(binders)
  /\ UNCHANGED <<depth, envs>>

\* The deferred function puts the variable back, to its own name if it had no
\* value.
EndBinder ==
  /\ InBinder
  /\ LET b == Last(binders)
     IN  Store(b.var, IF b.old = Unbound THEN b.var ELSE b.old)
  /\ binders' = Front(binders)
  /\ UNCHANGED <<depth, envs>>

\* Procedures take up to MaxArgs parameters, with different names.
Params == {p \in BoundedSeq(Names, MaxArgs) : IsInjective(p)}

\* A statement gives a name an object, a plain value, or itself (n := 'n'); that
\* a name stands for another one comes about by arguments.
Given(n) == Objects \cup Plain \cup {n}

Next ==
  \/ \E n \in Names :
       \/ \E v \in Given(n) : Assign(n, v) \/ ForStep(n, v)
       \/ \E t \in Objects : Vivify(n, t)
       \/ BeginBinder(n)
  \/ MakeClosure
  \/ \E params \in Params :
       \E args \in ArgLists(params),
          locals \in SUBSET (Names \ ToSet(params)), env \in envs \cup {NoBindings} :
         /\ Cardinality(locals) + Len(params) <= MaxLocals
         /\ Call(params, locals, env, args)
  \/ Leave
  \/ \E v \in Objects \cup Plain : Iterate(v)
  \/ EndBinder

Spec == Init /\ [][Next]_vars

-----------------------------------------------------------------------------
(* Properties *)

\* A seq, add or mul leaves its variable reading as it did before, whatever its
\* body and the procedures it calls did to it.
BinderRestores ==
  [][\A n \in Names :
       (Len(binders') < Len(binders) /\ n = Last(binders).var)
         => EvalIn(depth, n)' = Evaluated(n, Last(binders).old)]_vars

\* The running scope d has n from the environment of its closure.
FromEnvironment(d, n) ==
  d > 0 /\ n \notin scopes[d].isLocal /\ scopes[d].captured[n] # Unbound

\* Whatever changes a parameter bound by reference, in the procedure itself or in
\* one it passed the parameter on to, shows in the name it is bound to (env.go:
\* "reassigning the *parameter* inside the proc writes through to the caller's
\* name"), unless the caller has that name from its environment.
WriteReachesCaller ==
  [][\A d \in 1..depth :
       (d <= depth' /\ scopes'[d].locals # scopes[d].locals) =>
         \A p, n \in Names, e \in 0..(d - 1) :
           (/\ scopes[d].paramWB[p] = [sc |-> e, name |-> n]
            /\ scopes'[d].locals[p] # scopes[d].locals[p]
            /\ ~FromEnvironment(e, n))
             => LookupIn(e, n)' = scopes'[d].locals[p]]_vars

\* While a procedure runs, a local of its callers changes only together with a
\* parameter that is bound to it by reference.
CallerLocalsKept ==
  [][\A d \in 1..(depth - 1) :
       scopes'[d].locals # scopes[d].locals =>
         \A n \in Names :
           scopes'[d].locals[n] # scopes[d].locals[n] =>
             \E e \in (d + 1)..depth, p \in Names :
               /\ scopes[e].paramWB[p] = [sc |-> d, name |-> n]
               /\ scopes'[e].locals[p] = scopes'[d].locals[n]]_vars

\* A procedure that is called where it was made reads every name as its maker
\* does (captureEnv: nested closures see the locals of all that enclose them),
\* except a local of the maker that has no value yet, in whose place a global is
\* read, and a qualified name, which prefers the global.
ClosureReadsAsMaker ==
  depth > 0 =>
    \A n \in Names \ Qualified :
      Lookup(n) # Unbound => Free(CaptureEnv, n) = Lookup(n)

\* A name declared global is the global one (env.go).  The code breaks this:
\* isGlobal is never read.
DeclaredGlobalIsGlobal ==
  depth > 0 => \A n \in scopes[depth].isGlobal : Lookup(n) = globals[n]

\* Whatever is called with whatever arguments: an argument that is the name of an
\* object gives its own parameter both the object and the way back to the name, as
\* long as no argument before it is a sequence of other than one value.  So far the
\* targets are "parallel to the flattened args" (proc_eval.go).
WiredToItsArgument ==
  depth < MaxCalls =>
    \A params \in Params : \A args \in ArgLists(params) : \A i \in DOMAIN args :
      (/\ args[i].name # Unbound /\ Lookup(args[i].name) \in Objects
       /\ \A j \in 1..(i - 1) : Len(args[j].values) = 1)
        => /\ Bound(params, args)[params[i]] = Lookup(args[i].name)
           /\ Wired(params, args)[params[i]] = [sc |-> depth, name |-> args[i].name]

\* The same of every call, as the comments have it (proc_eval.go).  The code breaks
\* this: for f(s, a) where s holds 1,2 and a a table, the second parameter is bound
\* to 2 and by reference to a.
TargetsAreParallel ==
  [][depth' > depth =>
       \A p \in Names :
         LET wb == scopes'[depth'].paramWB[p]
         IN  wb # NoTarget => scopes'[depth'].locals[p] = LookupIn(wb.sc, wb.name)]_vars

=============================================================================
