------------------------------- MODULE Tables --------------------------------
(***************************************************************************)
(* Tables, lists and sets in memory: assignment and indexed assignment     *)
(* (src/src/interp.go), table, copy and subsop (builtins.go), indexing     *)
(* (proc_eval.go) and the remembered result of a procedure.                *)
(*                                                                         *)
(* A list is a slice of a Go array that every copy of the list value       *)
(* shares, so a list is an object of the heap here, as a table is.  That   *)
(* the program cannot tell is what ValueStore promises.  Objects nobody    *)
(* refers to are collected at once, and their numbers used again.          *)
(***************************************************************************)
EXTENDS Naturals, FiniteSets, FiniteSetsExt, SequencesExt

CONSTANTS
  Names,
  MaxObjects,   \* bound: tables, lists and sets alive
  MaxLen        \* bound: elements of a list, slots of a table

ASSUME BoundsAssumption == MaxObjects \in Nat /\ MaxLen \in Nat \ {0}

VARIABLES
  globals,      \* it.globals
  heap,         \* Table.Vals and the arrays of List.Items and Set.Items
  memo          \* p.remember of a procedure without arguments

vars == <<globals, heap, memo>>

Ids == 1..MaxObjects
Unbound == <<"unbound", 0>>
Absent == <<"absent", 0>>        \* an unassigned slot
Null == <<"null", 0>>            \* the empty sequence
Inert == <<"indexed", 0>>        \* an unevaluated a[i]
Symbol(n) == <<"name", n>>
Object(o) == <<"object", o>>

NoObject == [kind |-> "none", items |-> << >>]
EmptyTable == [kind |-> "table", items |-> [i \in 1..MaxLen |-> Absent]]

IsA(kind, v) == v[1] = "object" /\ heap[v[2]].kind = kind

Init ==
  /\ globals = [n \in Names |-> Unbound]
  /\ heap = [o \in Ids |-> NoObject]
  /\ memo = Unbound

-----------------------------------------------------------------------------
(* Evaluation *)

\* lookup, evalName: an unassigned name stands for itself.
Eval(n) == IF globals[n] = Unbound THEN Symbol(n) ELSE globals[n]

\* resolveRefForStore, derefTable under names g and objects h: a name that
\* refers to a table stands for it.
ResolveIn(g, h, v) ==
  IF v[1] = "name" /\ g[v[2]][1] = "object" /\ h[g[v[2]][2]].kind = "table"
  THEN g[v[2]] ELSE v

Resolve(v) == ResolveIn(globals, heap, v)

Value(n) == Resolve(Eval(n))

\* evalIndex: n[i]; the empty set where it is an error.
Indexed(n, i) ==
  LET v == globals[n]
      items == heap[v[2]].items
  IN  IF IsA("table", v) THEN {IF items[i] = Absent THEN Null ELSE items[i]}
      ELSE IF v[1] = "object" THEN IF i <= Len(items) THEN {items[i]} ELSE {}
      ELSE {Inert}

-----------------------------------------------------------------------------
(* Objects *)

Referred(vs) == {v[2] : v \in {u \in vs : u[1] = "object"}}

\* The objects below the roots: the least set that has the roots and what its
\* objects refer to.
Reached(h, roots) ==
  LET closed(S) == \A o \in S : Referred(Range(h[o].items)) \subseteq S
  IN  {o \in Ids : \A S \in SUBSET Ids : roots \subseteq S /\ closed(S) => o \in S}

Collected(h, g, m) ==
  LET alive == Reached(h, Referred(Range(g) \cup {m}))
  IN  [o \in Ids |-> IF o \in alive THEN h[o] ELSE NoObject]

Free == {o \in Ids : heap[o] = NoObject}

\* The objects of these kinds met on the way down from v, by the path to each.
Occurrences(v, kinds) ==
  LET met(u) == \E k \in kinds : IsA(k, Resolve(u))
      below(p) ==
        LET items == heap[p[2]].items
        IN  {<<Append(p[1], i), Resolve(items[i])[2]>> : i \in {j \in DOMAIN items : met(items[j])}}
      at[d \in 0..MaxObjects] ==
        IF d = 0 THEN (IF met(v) THEN {<< << >>, Resolve(v)[2]>>} ELSE {})
        ELSE UNION {below(p) : p \in at[d - 1]}
  IN  UNION {at[d] : d \in 0..MaxObjects}

\* The recursion of deepCopy and resolveRefDeep never ends in a cycle of tables:
\* a path through more objects than there are.
Endless(v, kinds) == \E p \in Occurrences(v, kinds) : Len(p[1]) >= MaxObjects

\* A copy of what is below v, as deep as objects of these kinds go: one object
\* for each occurrence.  Nothing when there is no room.
Clone(v, kinds) ==
  LET occ == Occurrences(v, kinds)
      paths == {p[1] : p \in occ}
      node(path) == (CHOOSE p \in occ : p[1] = path)[2]
      placings == {f \in [paths -> Free] : IsInjective(f)}
      fresh == CHOOSE f \in placings : TRUE
      old == [o \in {fresh[q] : q \in paths} |-> CHOOSE q \in paths : fresh[q] = o]
      copy(path, u) == IF path \in paths THEN Object(fresh[path]) ELSE Resolve(u)
  IN  IF Endless(v, kinds) \/ placings = {} THEN {}
      ELSE {<<copy(<< >>, v),
              [o \in Ids |->
                 IF o \in DOMAIN old
                 THEN LET was == heap[node(old[o])]
                      IN  [was EXCEPT !.items = [i \in DOMAIN was.items |->
                                                   copy(Append(old[o], i), was.items[i])]]
                 ELSE heap[o]]>>}

\* deepCopy follows tables and lists, and shares what a set holds.
DeepCopy(v) == Clone(v, {"table", "list"})

\* resolveRefDeep builds new lists and sets around the same tables.
ResolveDeep(v) == Clone(v, {"list", "set"})

Made(o, object) == <<Object(o), [heap EXCEPT ![o] = object]>>

\* evalArgs: empty sequences vanish from a display.
Displays == BoundedSeq({Value(n) : n \in Names} \ {Null}, MaxLen)

\* biSubsop: the i-th operand replaced by m, or deleted where m is empty.  Inside
\* the equation i = m a name that refers to a table stays a name.
Subsop(n, i, m) ==
  LET items == heap[globals[n][2]].items
  IN  IF Eval(m) = Null THEN RemoveAt(items, i)
      ELSE [items EXCEPT ![i] = IF IsA("table", globals[m]) THEN Symbol(m) ELSE Eval(m)]

Subsops ==
  UNION {{Subsop(n, i, m) : i \in DOMAIN heap[globals[n][2]].items, m \in Names} :
           n \in {k \in Names : IsA("list", globals[k])}}

\* What an expression may evaluate to, with the heap it leaves.
Results ==
  {<<Null, heap>>}
  \cup {<<Value(m), heap>> : m \in Names}
  \cup (UNION {{<<Resolve(v), heap>> : v \in Indexed(m, i)} : m \in Names, i \in 1..MaxLen})
  \cup (UNION {DeepCopy(Value(m)) : m \in Names})
  \cup (IF Free = {} THEN {}
        ELSE LET o == Min(Free)
             IN  {Made(o, EmptyTable)}
                 \cup {Made(o, [kind |-> "list", items |-> d]) : d \in Displays \cup Subsops}
                 \cup {Made(o, [kind |-> "set", items |-> d]) :
                         d \in {e \in Displays : Len(e) = 1}})

-----------------------------------------------------------------------------
(* Statements *)

Leaves(g, h, m) == globals' = g /\ memo' = m /\ heap' = Collected(h, g, m)

\* n := expression
Assign(n) ==
  \E r \in Results : Leaves([globals EXCEPT ![n] = r[1]], r[2], memo)

\* resolveAssignTable of a name: its table, or a new one where the name holds
\* nothing yet or a symbol.  Nothing when it is an error.
TableOf(n) ==
  LET v == Resolve(globals[n])
      o == Min(Free)
  IN  IF IsA("table", v) THEN {<<v[2], globals, heap>>}
      ELSE IF v[1] \in {"unbound", "name", "indexed"} /\ Free # {}
      THEN {<<o, [globals EXCEPT ![n] = Object(o)], [heap EXCEPT ![o] = EmptyTable]>>}
      ELSE {}

\* Fault for mutation: the element is written into the array the list shares.
InPlace(l, i, v) == {<<l, [heap EXCEPT ![l].items[i] = v]>>}

\* tryListElementAssign: the changed list is a copy.
WithElement(l, i, v) ==
  IF Free = {} THEN {}
  ELSE LET o == Min(Free)
       IN  {<<o, [heap EXCEPT ![o] = [heap[l] EXCEPT !.items[i] = v]]>>}

InRange(v, i) == IsA("list", v) /\ i <= Len(heap[v[2]].items)

\* n[i] := m where n is a list.
AssignElement(n, i, m) ==
  /\ InRange(globals[n], i)
  /\ \E l \in WithElement(globals[n][2], i, Value(m)) :
       Leaves([globals EXCEPT ![n] = Object(l[1])], l[2], memo)

\* n[i] := m otherwise: a slot of the table of n.  The value is resolved after the
\* table is there, so it may be the table itself.
AssignSlot(n, i, m) ==
  /\ ~InRange(globals[n], i)
  /\ \E t \in TableOf(n) :
       LET v == ResolveIn(t[2], t[3], Eval(m))
       IN  Leaves(t[2], [t[3] EXCEPT ![t[1]].items[i] = v], memo)

\* n[i][j] := m where n[i] is a list in a slot of a table.
AssignElementInSlot(n, i, j, m) ==
  /\ \E v \in Indexed(n, i) : InRange(v, j)
  /\ IsA("table", globals[n])
  /\ LET t == globals[n][2]
     IN  \E l \in WithElement(heap[t].items[i][2], j, Value(m)) :
           Leaves(globals, [l[2] EXCEPT ![t].items[i] = Object(l[1])], memo)

\* n[i][j] := m where n is a list and its element a table.
AssignSlotInElement(n, i, j, m) ==
  /\ InRange(globals[n], i)
  /\ LET t == Resolve(heap[globals[n][2]].items[i])
     IN  /\ IsA("table", t)
         /\ Leaves(globals, [heap EXCEPT ![t[2]].items[j] = Value(m)], memo)

\* n[i][j] := m where n is or becomes a table: the slot holds a table, or gets a
\* new one where it holds nothing or a symbol.
AssignSlotInSlot(n, i, j, m) ==
  /\ ~IsA("list", globals[n])
  /\ \E t \in TableOf(n) :
       LET g == t[2]
           slot == ResolveIn(g, t[3], t[3][t[1]].items[i])
           free == {o \in Ids : t[3][o] = NoObject}
           made == [t[3] EXCEPT ![Min(free)] = EmptyTable,
                                ![t[1]].items[i] = Object(Min(free))]
           set(h, o) == Leaves(g, [h EXCEPT ![o].items[j] = ResolveIn(g, h, Eval(m))], memo)
       IN  \/ slot[1] = "object" /\ t[3][slot[2]].kind = "table" /\ set(t[3], slot[2])
           \/ slot[1] \in {"absent", "name", "indexed"} /\ free # {} /\ set(made, Min(free))

\* n := f(), whose result is remembered: the first call runs the body, resolves
\* the result and keeps it, the others answer the object it kept.
Call(n) ==
  \/ /\ memo # Unbound
     /\ Leaves([globals EXCEPT ![n] = memo], heap, memo)
  \/ /\ memo = Unbound
     /\ \E m \in Names : \E r \in ResolveDeep(Value(m)) :
          Leaves([globals EXCEPT ![n] = r[1]], r[2], r[1])

\* copy of a table that holds itself exhausts the stack of the process.
Overflow ==
  /\ \E n \in Names : Endless(Value(n), {"table", "list"})
  /\ globals' = [n \in Names |-> Unbound]
  /\ heap' = [o \in Ids |-> NoObject]
  /\ memo' = Unbound

Next ==
  \/ \E n \in Names : Assign(n) \/ Call(n)
  \/ \E n, m \in Names, i \in 1..MaxLen :
       \/ AssignElement(n, i, m)
       \/ AssignSlot(n, i, m)
       \/ \E j \in 1..MaxLen :
            \/ AssignElementInSlot(n, i, j, m)
            \/ AssignSlotInElement(n, i, j, m)
            \/ AssignSlotInSlot(n, i, j, m)
  \/ Overflow

Spec == Init /\ [][Next]_vars

-----------------------------------------------------------------------------
(* Properties *)

\* The trees of the objects, in which only tables are references, to a depth.
Trees(h) ==
  LET tree[d \in 0..MaxObjects] ==
        [o \in Ids |->
           IF d = 0 \/ h[o].kind = "table" THEN Object(o)
           ELSE <<h[o].kind,
                  [i \in DOMAIN h[o].items |->
                     IF h[o].items[i][1] = "object"
                     THEN tree[d - 1][h[o].items[i][2]] ELSE h[o].items[i]]>>]
  IN  tree

\* The value as a tree.
Tree(h, v) == IF v[1] = "object" THEN Trees(h)[MaxObjects][v[2]] ELSE v

Store == INSTANCE ValueStore WITH
  Tables <- Ids, NoValue <- Unbound, NoTable <- << >>,
  names <- [n \in Names |-> Tree(heap, globals[n])],
  tables <- [o \in Ids |-> IF heap[o].kind = "table"
                           THEN [i \in 1..MaxLen |-> Tree(heap, heap[o].items[i])] ELSE << >>],
  remembered <- Tree(heap, memo)

\* An assignment shows in one place: no other name, no slot of another table and
\* no remembered result changes, although lists share their arrays with every
\* copy of the value (tryListElementAssign, biSubsop, deepCopy, resolveRefDeep).
AssignsOnePlace == Store!Spec

\* No list and no set is part of itself unless a table comes between, so that
\* whatever walks through a value without entering tables ends: any lists and
\* sets have one among them that holds none of them.  An array is filled once,
\* before its list is assigned to anything (tryListElementAssign, deepCopy,
\* resolveRefDeep, rebuild), even in x[1] := x.
ListsEndAtTables ==
  \A S \in SUBSET {o \in Ids : heap[o].kind \in {"list", "set"}} :
    S # {} => \E o \in S : Referred(Range(heap[o].items)) \cap S = {}

NameSymmetry == Permutations(Names)

=============================================================================
