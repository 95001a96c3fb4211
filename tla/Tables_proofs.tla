---------------------------- MODULE Tables_proofs ----------------------------
(***************************************************************************)
(* Proofs about Tables for any names, any number of objects and lists of   *)
(* any length: an assignment shows in one place, and no list or set is     *)
(* part of itself.  No list in use is ever written, new objects come from  *)
(* those nobody refers to, and a tree ends at a table; so the tree of a    *)
(* value stays what it was.                                                *)
(***************************************************************************)
EXTENDS Tables, Induction, SequenceTheorems, TLAPS

-----------------------------------------------------------------------------
(* The inductive invariant *)

Kinds == {"none", "table", "list", "set"}

Vals ==
  {Unbound, Absent, Null, Inert} \cup {Symbol(n) : n \in Names} \cup {Object(o) : o \in Ids}

\* The values that refer to nothing that is gone.
Existing(h) == {v \in Vals : v[1] = "object" => h[v[2]] # NoObject}

\* Some objects of every part of T refer to none of that part.
Ends(h, T) ==
  \A S \in SUBSET T : S # {} =>
    \E o \in S : \A i \in DOMAIN h[o].items :
      h[o].items[i][1] = "object" => h[o].items[i][2] \notin S

Lists(h) == {o \in Ids : h[o].kind \in {"list", "set"}}

\* What an object refers to exists, and no list or set holds itself.
HeapOK(h) ==
  /\ h \in [Ids -> [kind : Kinds, items : Seq(Existing(h))]]
  /\ \A o \in Ids : h[o].kind = "table" => Len(h[o].items) = MaxLen
  /\ Ends(h, Lists(h))

\* And so does what names and the remembered result refer to.
StateOK(g, h, m) == HeapOK(h) /\ g \in [Names -> Existing(h)] /\ m \in Existing(h)

Inv == StateOK(globals, heap, memo)

-----------------------------------------------------------------------------
(* Values *)

\* The tag of a value tells what it is.
LEMMA Tagged ==
  /\ \A v \in Vals : v[1] = "object" => v[2] \in Ids /\ v = Object(v[2])
  /\ \A v \in Vals : v[1] = "name" => v[2] \in Names /\ v = Symbol(v[2])
  /\ \A o : Object(o)[1] = "object" /\ Object(o)[2] = o
  /\ \A n : Symbol(n)[1] = "name" /\ Symbol(n)[2] = n
  /\ \A o \in Ids : Object(o) \in Vals
  /\ \A n \in Names : Symbol(n) \in Vals
  /\ \A v \in {Unbound, Absent, Null, Inert} : v \in Vals /\ v[1] \notin {"object", "name"}
  BY DEF Vals, Object, Symbol, Unbound, Absent, Null, Inert

\* Objects that exist, as values.
LEMMA ExistingFacts ==
  ASSUME NEW h
  PROVE  /\ Existing(h) \subseteq Vals
         /\ \A o \in Ids : h[o] # NoObject => Object(o) \in Existing(h)
         /\ \A v \in Existing(h) : v[1] = "object" => v[2] \in Ids /\ h[v[2]] # NoObject
         /\ \A n \in Names : Symbol(n) \in Existing(h)
         /\ \A v \in {Unbound, Absent, Null, Inert} : v \in Existing(h)
  BY Tagged DEF Existing

\* The items of an object.
LEMMA ItemFacts ==
  ASSUME NEW h, HeapOK(h), NEW o \in Ids
  PROVE  /\ h[o].items \in Seq(Existing(h)) /\ h[o].kind \in Kinds
         /\ h[o] = [kind |-> h[o].kind, items |-> h[o].items]
         /\ Len(h[o].items) \in Nat
         /\ DOMAIN h[o].items = 1..Len(h[o].items)
         /\ \A i \in DOMAIN h[o].items : h[o].items[i] \in Existing(h)
         /\ h[o].kind # "none" => h[o] # NoObject
  <1>1. /\ h[o].items \in Seq(Existing(h)) /\ h[o].kind \in Kinds
        /\ h[o] = [kind |-> h[o].kind, items |-> h[o].items]
    BY DEF HeapOK
  <1>2. Len(h[o].items) \in Nat /\ DOMAIN h[o].items = 1..Len(h[o].items)
    BY <1>1
  <1>3. \A i \in DOMAIN h[o].items : h[o].items[i] \in Existing(h)
    BY <1>1, <1>2, ElementOfSeq
  <1>4. QED
    BY <1>1, <1>2, <1>3 DEF NoObject

\* A sequence is one of the elements it has.
LEMMA SequenceOf ==
  ASSUME NEW S, NEW T, NEW s \in Seq(S), \A i \in DOMAIN s : s[i] \in T
  PROVE  s \in Seq(T)
  <1>1. Len(s) \in Nat /\ s \in [1..Len(s) -> S]
    OBVIOUS
  <1>2. s \in [1..Len(s) -> T]
    BY <1>1
  <1>3. QED
    BY <1>1, <1>2

\* Part of the objects, as they were.
LEMMA SameEnds ==
  ASSUME NEW h, NEW T, Ends(h, T), NEW k, NEW P, P \subseteq T, \A o \in P : k[o] = h[o]
  PROVE  Ends(k, P)
  <1> SUFFICES ASSUME NEW S \in SUBSET P, S # {}
               PROVE  \E o \in S : \A i \in DOMAIN k[o].items :
                        k[o].items[i][1] = "object" => k[o].items[i][2] \notin S
    BY DEF Ends
  <1>1. PICK o \in S : \A i \in DOMAIN h[o].items :
          h[o].items[i][1] = "object" => h[o].items[i][2] \notin S
    BY DEF Ends
  <1>2. k[o] = h[o]
    OBVIOUS
  <1>3. QED
    BY <1>1, <1>2

\* How an object is one of a heap.
LEMMA IsObject ==
  ASSUME NEW V, NEW x, x = [kind |-> x.kind, items |-> x.items],
         x.kind \in Kinds, x.items \in Seq(V)
  PROVE  x \in [kind : Kinds, items : Seq(V)]
  OBVIOUS

-----------------------------------------------------------------------------
(* Trees *)

\* One level more of the trees.
Level(h, below) ==
  [o \in Ids |->
     IF h[o].kind = "table" THEN Object(o)
     ELSE <<h[o].kind,
            [i \in DOMAIN h[o].items |->
               IF h[o].items[i][1] = "object"
               THEN below[h[o].items[i][2]] ELSE h[o].items[i]]>>]

Stumps == [o \in Ids |-> Object(o)]

\* Trees is the function with the equations of its definition.
LEMMA TreesAre ==
  ASSUME NEW h
  PROVE  /\ Trees(h)[0] = Stumps
         /\ \A d \in 1..MaxObjects : Trees(h)[d] = Level(h, Trees(h)[d - 1])
  <1> DEFINE Is(f, k) == f = [d \in 0..k |-> IF d = 0 THEN Stumps ELSE Level(h, f[d - 1])]
             P == {k \in 0..MaxObjects : \E f : Is(f, k)}
  <1> USE BoundsAssumption
  <1>1. 0 \in P
    <2> DEFINE f == [d \in 0..0 |-> Stumps]
    <2>1. Is(f, 0)
      OBVIOUS
    <2> HIDE DEF f
    <2>2. QED
      BY <2>1
  <1>2. ASSUME NEW k \in 1..MaxObjects, k - 1 \in P PROVE k \in P
    <2>1. PICK f : Is(f, k - 1)
      BY <1>2
    <2> DEFINE g == [d \in 0..k |-> IF d = k THEN Level(h, f[k - 1]) ELSE f[d]]
    <2>2. /\ \A d \in 0..k : d = k \/ d \in 0..(k - 1)
          /\ \A d \in 0..(k - 1) : d \in 0..k /\ d # k
          /\ \A d \in 0..(k - 1) : d = 0 \/ d - 1 \in 0..(k - 1)
          /\ k - 1 \in 0..(k - 1) /\ k # 0
      OBVIOUS
    <2>3. g[k] = Level(h, f[k - 1]) /\ \A d \in 0..(k - 1) : g[d] = f[d]
      BY <2>2
    <2>4. g = [d \in 0..k |-> g[d]]
      OBVIOUS
    <2> HIDE DEF g
    <2>5. ASSUME NEW d \in 0..k PROVE g[d] = IF d = 0 THEN Stumps ELSE Level(h, g[d - 1])
      <3>1. CASE d = k
        BY <2>2, <2>3, <3>1
      <3>2. CASE d \in 0..(k - 1)
        BY <2>1, <2>2, <2>3, <3>2
      <3>3. QED
        BY <2>2, <3>1, <3>2
    <2>6. Is(g, k)
      BY <2>4, <2>5
    <2>7. QED
      BY <2>6
  <1>3. MaxObjects \in P
    <2>1. 0..MaxObjects \subseteq P
      <3> HIDE DEF P
      <3> QED
        BY <1>1, <1>2, UpTo
    <2>2. QED
      BY <2>1
  <1>4. Trees(h) = [d \in 0..MaxObjects |-> IF d = 0 THEN Stumps ELSE Level(h, Trees(h)[d - 1])]
    <2>1. PICK f : Is(f, MaxObjects)
      BY <1>3
    <2> DEFINE Eq(f2) == f2 = [d \in 0..MaxObjects |->
               [o \in Ids |->
                 IF d = 0 \/ h[o].kind = "table" THEN Object(o)
                 ELSE <<h[o].kind,
                        [i \in DOMAIN h[o].items |->
                           IF h[o].items[i][1] = "object"
                           THEN f2[d - 1][h[o].items[i][2]] ELSE h[o].items[i]]>>]]
    <2>2. \A f2 : Eq(f2) <=> Is(f2, MaxObjects)
      BY DEF Level, Stumps
    <2>3. Trees(h) = CHOOSE f2 : Eq(f2)
      BY DEF Trees
    <2> HIDE DEF Eq, Is
    <2>4. Is(Trees(h), MaxObjects)
      BY <2>1, <2>2, <2>3
    <2>5. QED
      BY <2>4 DEF Is
  <1>5. 0 \in 0..MaxObjects /\ \A d \in 1..MaxObjects : d \in 0..MaxObjects /\ d # 0
    OBVIOUS
  <1>6. QED
    BY <1>4, <1>5

\* A set of objects that two heaps agree on, but for the contents of tables, and
\* that has what its lists and sets refer to.
Alike(h1, h2, S) ==
  /\ S \subseteq Ids
  /\ \A o \in S : (h1[o].kind = "table" /\ h2[o].kind = "table") \/ h1[o] = h2[o]
  /\ \A o \in S : h1[o].kind # "table" =>
       \A i \in DOMAIN h1[o].items : h1[o].items[i][1] = "object" => h1[o].items[i][2] \in S

\* Trees end at tables: where the heaps are alike, the trees are the same.
LEMMA TreesAgree ==
  ASSUME NEW h1, NEW h2, NEW S, Alike(h1, h2, S)
  PROVE  \A v : (v[1] = "object" => v[2] \in S) => Tree(h1, v) = Tree(h2, v)
  <1> DEFINE P == {d \in 0..MaxObjects : \A o \in S : Trees(h1)[d][o] = Trees(h2)[d][o]}
  <1> USE BoundsAssumption
  <1>1. 0 \in P
    BY TreesAre
  <1>2. ASSUME NEW d \in 1..MaxObjects, d - 1 \in P PROVE d \in P
    <2>1. d \in 0..MaxObjects
      OBVIOUS
    <2>2. ASSUME NEW o \in S PROVE Trees(h1)[d][o] = Trees(h2)[d][o]
      <3>1. /\ Trees(h1)[d] = Level(h1, Trees(h1)[d - 1])
            /\ Trees(h2)[d] = Level(h2, Trees(h2)[d - 1])
            /\ o \in Ids
        BY TreesAre DEF Alike
      <3>2. CASE h1[o].kind = "table" /\ h2[o].kind = "table"
        BY <3>1, <3>2 DEF Level
      <3>3. CASE h1[o].kind # "table" /\ h1[o] = h2[o]
        <4>1. \A i \in DOMAIN h1[o].items :
                h1[o].items[i][1] = "object" =>
                  Trees(h1)[d - 1][h1[o].items[i][2]] = Trees(h2)[d - 1][h1[o].items[i][2]]
          BY <1>2, <3>3 DEF Alike
        <4> DEFINE Items(below) ==
                     [i \in DOMAIN h1[o].items |->
                        IF h1[o].items[i][1] = "object"
                        THEN below[h1[o].items[i][2]] ELSE h1[o].items[i]]
        <4>2. Items(Trees(h1)[d - 1]) = Items(Trees(h2)[d - 1])
          BY <4>1
        <4>3. /\ Level(h1, Trees(h1)[d - 1])[o] = <<h1[o].kind, Items(Trees(h1)[d - 1])>>
              /\ Level(h2, Trees(h2)[d - 1])[o] = <<h1[o].kind, Items(Trees(h2)[d - 1])>>
          BY <3>1, <3>3 DEF Level
        <4> HIDE DEF Items
        <4>4. QED
          BY <3>1, <4>2, <4>3
      <3>4. QED
        BY <3>2, <3>3 DEF Alike
    <2>3. QED
      BY <2>1, <2>2
  <1>3. MaxObjects \in P
    <2>1. 0..MaxObjects \subseteq P
      <3> HIDE DEF P
      <3> QED
        BY <1>1, <1>2, UpTo
    <2>2. QED
      BY <2>1
  <1>4. QED
    BY <1>3 DEF Tree

-----------------------------------------------------------------------------
(* The collector *)

Alive(g, h, m) == Reached(h, Referred(Range(g) \cup {m}))

\* What is reached refers to what is reached.
LEMMA ReachedIsClosed ==
  ASSUME NEW h, HeapOK(h), NEW roots, roots \subseteq Ids
  PROVE  /\ roots \subseteq Reached(h, roots) /\ Reached(h, roots) \subseteq Ids
         /\ \A o \in Reached(h, roots) : \A i \in DOMAIN h[o].items :
              h[o].items[i][1] = "object" => h[o].items[i][2] \in Reached(h, roots)
  <1>1. roots \subseteq Reached(h, roots) /\ Reached(h, roots) \subseteq Ids
    BY DEF Reached
  <1>2. ASSUME NEW o \in Reached(h, roots), NEW i \in DOMAIN h[o].items,
               h[o].items[i][1] = "object"
        PROVE  h[o].items[i][2] \in Reached(h, roots)
    <2>1. o \in Ids /\ h[o].items[i][2] \in Ids
      BY <1>1, <1>2, ItemFacts, ExistingFacts
    <2>2. h[o].items[i][2] \in Referred(Range(h[o].items))
      BY <1>2 DEF Referred, Range
    <2>3. QED
      BY <2>1, <2>2 DEF Reached
  <1>3. QED
    BY <1>1, <1>2

\* The same of what a state refers to.
LEMMA AliveFacts ==
  ASSUME NEW g, NEW h, NEW m, StateOK(g, h, m)
  PROVE  /\ Alive(g, h, m) \subseteq Ids
         /\ m[1] = "object" => m[2] \in Alive(g, h, m)
         /\ \A n \in Names : g[n][1] = "object" => g[n][2] \in Alive(g, h, m)
         /\ \A o \in Alive(g, h, m) : \A i \in DOMAIN h[o].items :
              h[o].items[i][1] = "object" => h[o].items[i][2] \in Alive(g, h, m)
  <1> DEFINE roots == Referred(Range(g) \cup {m})
  <1>1. DOMAIN g = Names /\ \A n \in Names : g[n] \in Existing(h)
    BY DEF StateOK
  <1>2. /\ \A n \in Names : g[n] \in Range(g)
        /\ \A v \in Range(g) \cup {m} : v \in Existing(h)
    BY <1>1 DEF Range, StateOK
  <1>3. roots \subseteq Ids
    BY <1>2, ExistingFacts DEF Referred
  <1>4. /\ m[1] = "object" => m[2] \in roots
        /\ \A n \in Names : g[n][1] = "object" => g[n][2] \in roots
    BY <1>2 DEF Referred
  <1> HIDE DEF roots
  <1>5. HeapOK(h)
    BY DEF StateOK
  <1>6. Alive(g, h, m) = Reached(h, roots)
    BY DEF Alive, roots
  <1>7. QED
    BY <1>3, <1>4, <1>5, <1>6, ReachedIsClosed

\* The collector leaves a state in which nothing that is referred to is gone.
LEMMA CollectedIsOK ==
  ASSUME NEW g, NEW h, NEW m, StateOK(g, h, m)
  PROVE  /\ StateOK(g, Collected(h, g, m), m)
         /\ Collected(h, g, m) =
              [o \in Ids |-> IF o \in Alive(g, h, m) THEN h[o] ELSE NoObject]
  <1> DEFINE A == Alive(g, h, m)
             c == Collected(h, g, m)
  <1>1. c = [o \in Ids |-> IF o \in A THEN h[o] ELSE NoObject]
    BY DEF Collected, Alive
  <1>2. HeapOK(h)
    BY DEF StateOK
  <1>3. ASSUME NEW v \in Existing(h), v[1] = "object" => v[2] \in A
        PROVE  v \in Existing(c)
    BY <1>1, <1>3, ExistingFacts DEF Existing
  <1> HIDE DEF A, c
  <1>4. g \in [Names -> Existing(c)] /\ m \in Existing(c)
    <2>1. \A n \in Names : g[n] \in Existing(c)
      BY <1>3, AliveFacts DEF StateOK, A
    <2>2. m \in Existing(c)
      BY <1>3, AliveFacts DEF StateOK, A
    <2>3. g \in [Names -> Existing(h)]
      BY DEF StateOK
    <2>4. QED
      BY <2>1, <2>2, <2>3
  <1>5. ASSUME NEW o \in Ids
        PROVE  /\ c[o] \in [kind : Kinds, items : Seq(Existing(c))]
               /\ c[o].kind = "table" => Len(c[o].items) = MaxLen
    <2>1. CASE o \in A
      <3>1. c[o] = h[o]
        BY <1>1, <2>1
      <3>2. \A i \in DOMAIN h[o].items : h[o].items[i] \in Existing(c)
        BY <1>2, <1>3, <2>1, AliveFacts, ItemFacts DEF A
      <3>3. h[o].items \in Seq(Existing(c))
        <4>1. h[o].items \in Seq(Existing(h))
          BY <1>2, ItemFacts
        <4>2. QED
          BY <3>2, <4>1, SequenceOf
      <3>4. h[o] \in [kind : Kinds, items : Seq(Existing(c))]
        BY <1>2, <3>3, ItemFacts, IsObject
      <3>5. QED
        BY <1>2, <3>1, <3>4 DEF HeapOK
    <2>2. CASE o \notin A
      <3>1. c[o] = NoObject
        BY <1>1, <2>2
      <3>2. << >> \in Seq(Existing(c))
        OBVIOUS
      <3>3. QED
        BY <3>1, <3>2 DEF NoObject, Kinds
    <2>3. QED
      BY <2>1, <2>2
  <1>6. Ends(c, Lists(c))
    <2>1. Lists(c) \subseteq Lists(h) /\ \A o \in Lists(c) : c[o] = h[o]
      BY <1>1 DEF Lists, NoObject
    <2>2. Ends(h, Lists(h))
      BY <1>2 DEF HeapOK
    <2>3. QED
      BY <2>1, <2>2, SameEnds
  <1>7. HeapOK(c)
    BY <1>1, <1>5, <1>6 DEF HeapOK
  <1>8. QED
    BY <1>1, <1>4, <1>7 DEF StateOK, A, c

-----------------------------------------------------------------------------
(* What a step shows *)

\* The step changes objects in use in the tables ts only.
Touches(h, ts) ==
  /\ ts \subseteq Ids
  /\ \A o \in Ids \ ts : heap[o] # NoObject => h[o] = heap[o]
  /\ \A o \in ts : heap[o].kind = "table" /\ h[o].kind = "table"

\* The objects in use before and after a step.
Survivors(g, h, m) == {o \in Alive(g, h, m) : heap[o] # NoObject}

\* After a step the survivors look as before, the inside of tables apart.
LEMMA SurvivorsAlike ==
  ASSUME Inv, NEW g, NEW h, NEW m, StateOK(g, h, m), Leaves(g, h, m),
         NEW ts, Touches(h, ts)
  PROVE  Alike(heap, heap', Survivors(g, h, m))
  <1> DEFINE A == Alive(g, h, m)
             S == Survivors(g, h, m)
  <1>1. heap' = [o \in Ids |-> IF o \in A THEN h[o] ELSE NoObject]
    BY CollectedIsOK DEF Leaves
  <1>2. HeapOK(heap) /\ HeapOK(h)
    BY DEF Inv, StateOK
  <1>3. A \subseteq Ids /\ S \subseteq A
    BY AliveFacts DEF Survivors
  <1>4. \A o \in S : heap[o] # NoObject /\ heap'[o] = h[o]
    BY <1>1, <1>3 DEF Survivors
  <1>5. ASSUME NEW o \in S, heap[o].kind # "table"
        PROVE  /\ heap[o] = heap'[o]
               /\ \A i \in DOMAIN heap[o].items :
                    heap[o].items[i][1] = "object" => heap[o].items[i][2] \in S
    <2>1. o \in Ids \ ts /\ h[o] = heap[o]
      BY <1>3, <1>4, <1>5 DEF Touches
    <2>2. ASSUME NEW i \in DOMAIN heap[o].items, heap[o].items[i][1] = "object"
          PROVE  heap[o].items[i][2] \in S
      <3>1. heap[o].items[i][2] \in Ids /\ heap[heap[o].items[i][2]] # NoObject
        BY <1>2, <2>1, <2>2, ItemFacts, ExistingFacts
      <3>2. heap[o].items[i][2] \in A
        BY <1>3, <2>1, <2>2, AliveFacts
      <3>3. QED
        BY <3>1, <3>2 DEF Survivors
    <2>3. QED
      BY <1>4, <2>1, <2>2
  <1>6. ASSUME NEW o \in S, heap[o].kind = "table"
        PROVE  heap'[o].kind = "table"
    BY <1>3, <1>4, <1>6 DEF Touches
  <1>7. QED
    BY <1>3, <1>5, <1>6 DEF Alike

\* The slots of a table as ValueStore has them.
Slots(h) ==
  [o \in Ids |-> IF h[o].kind = "table"
                 THEN [i \in 1..MaxLen |-> Tree(h, h[o].items[i])] ELSE << >>]

LEMMA StepShows ==
  ASSUME Inv, NEW g, NEW h, NEW m, StateOK(g, h, m), Leaves(g, h, m),
         NEW ts, Touches(h, ts)
  PROVE  /\ Inv'
         /\ \A n \in Names : g[n] = globals[n] =>
              Tree(heap', globals'[n]) = Tree(heap, globals[n])
         /\ m = memo => Tree(heap', memo') = Tree(heap, memo)
         /\ \A u \in Ids \ ts : heap[u].kind = "table" /\ heap'[u].kind = "table" =>
              Slots(heap')[u] = Slots(heap)[u]
  <1> DEFINE A == Alive(g, h, m)
             S == Survivors(g, h, m)
  <1>1. heap' = [o \in Ids |-> IF o \in A THEN h[o] ELSE NoObject] /\ globals' = g /\ memo' = m
    BY CollectedIsOK DEF Leaves
  <1>2. Inv'
    BY CollectedIsOK DEF Leaves, Inv
  <1>3. HeapOK(heap) /\ globals \in [Names -> Existing(heap)] /\ memo \in Existing(heap)
    BY DEF Inv, StateOK
  <1>4. \A v : (v[1] = "object" => v[2] \in S) => Tree(heap', v) = Tree(heap, v)
    BY SurvivorsAlike, TreesAgree
  <1>5. ASSUME NEW n \in Names, g[n] = globals[n]
        PROVE  Tree(heap', globals'[n]) = Tree(heap, globals[n])
    <2>1. globals[n] \in Existing(heap)
      BY <1>3
    <2>2. globals[n][1] = "object" => globals[n][2] \in S
      BY <1>5, <2>1, ExistingFacts, AliveFacts DEF Survivors
    <2>3. QED
      BY <1>1, <1>4, <1>5, <2>2
  <1>6. ASSUME m = memo PROVE Tree(heap', memo') = Tree(heap, memo)
    <2>1. memo[1] = "object" => memo[2] \in S
      BY <1>3, <1>6, ExistingFacts, AliveFacts DEF Survivors
    <2>2. QED
      BY <1>1, <1>4, <1>6, <2>1
  <1>7. ASSUME NEW u \in Ids \ ts, heap[u].kind = "table", heap'[u].kind = "table"
        PROVE  Slots(heap')[u] = Slots(heap)[u]
    <2>1. u \in A /\ heap[u] # NoObject
      BY <1>1, <1>7 DEF NoObject
    <2>2. heap'[u] = heap[u]
      BY <1>1, <2>1 DEF Touches
    <2>3. ASSUME NEW i \in 1..MaxLen
          PROVE  Tree(heap', heap'[u].items[i]) = Tree(heap, heap[u].items[i])
      <3>1. i \in DOMAIN heap[u].items
        BY <1>3, <1>7, ItemFacts DEF HeapOK
      <3>2. heap[u].items[i] \in Existing(heap)
        BY <1>3, <3>1, ItemFacts
      <3>3. h[u] = heap[u]
        BY <1>1, <2>1, <2>2
      <3>4. heap[u].items[i][1] = "object" => heap[u].items[i][2] \in S
        BY <2>1, <3>1, <3>2, <3>3, ExistingFacts, AliveFacts DEF Survivors
      <3>5. QED
        BY <1>4, <2>2, <3>4
    <2>4. QED
      BY <1>7, <2>3 DEF Slots
  <1>8. QED
    BY <1>2, <1>5, <1>6, <1>7

\* What ValueStore calls unchanged.
LEMMA ShownUnchanged ==
  ASSUME NEW ns, NEW ts,
         \A n \in Names \ ns : Tree(heap', globals'[n]) = Tree(heap, globals[n]),
         \A u \in Ids \ ts : heap[u].kind = "table" /\ heap'[u].kind = "table" =>
           Slots(heap')[u] = Slots(heap)[u]
  PROVE  Store!Unchanged(ns, ts)
  BY DEF Store!Unchanged, Slots

-----------------------------------------------------------------------------
(* Values of expressions *)

\* h has the objects of base, and perhaps more.
Grown(base, h) == HeapOK(h) /\ \A o \in Ids : base[o] # NoObject => h[o] = base[o]

LEMMA GrownFacts ==
  ASSUME NEW h1, NEW h2, Grown(h1, h2)
  PROVE  Existing(h1) \subseteq Existing(h2)
  BY ExistingFacts DEF Grown, Existing

LEMMA ResolvedExists ==
  ASSUME NEW g, NEW h, NEW m, StateOK(g, h, m), NEW v \in Existing(h)
  PROVE  ResolveIn(g, h, v) \in Existing(h)
  BY Tagged, ExistingFacts DEF ResolveIn, StateOK

LEMMA EvaluatedExists ==
  ASSUME NEW h, Inv, Grown(heap, h), NEW n \in Names
  PROVE  /\ Eval(n) \in Existing(h) /\ Value(n) \in Existing(h)
         /\ globals[n] \in Existing(h) /\ Eval(n) \in Existing(heap)
  <1>1. globals[n] \in Existing(heap)
    BY DEF Inv, StateOK
  <1>2. Eval(n) \in Existing(heap)
    BY <1>1, ExistingFacts DEF Eval
  <1>3. Value(n) \in Existing(heap)
    BY <1>2, ResolvedExists DEF Value, Resolve, Inv
  <1>4. QED
    BY <1>1, <1>2, <1>3, GrownFacts

LEMMA IndexedExists ==
  ASSUME Inv, NEW n \in Names, NEW i \in 1..MaxLen
  PROVE  \A v \in Indexed(n, i) : v \in Existing(heap) /\ Resolve(v) \in Existing(heap)
  <1> DEFINE v == globals[n]
             items == heap[v[2]].items
  <1>1. HeapOK(heap) /\ v \in Existing(heap)
    BY DEF Inv, StateOK
  <1>2. CASE v[1] = "object"
    <2>1. /\ v[2] \in Ids /\ Len(items) \in Nat /\ DOMAIN items = 1..Len(items)
          /\ \A j \in DOMAIN items : items[j] \in Existing(heap)
          /\ heap[v[2]].kind = "table" => Len(items) = MaxLen
      BY <1>1, <1>2, ItemFacts, ExistingFacts DEF HeapOK
    <2>2. i \in DOMAIN items => items[i] \in Existing(heap)
      BY <2>1
    <2>3. \A w \in Indexed(n, i) : w = Null \/ (i \in DOMAIN items /\ w = items[i])
      <3>1. IsA("table", v) => i \in DOMAIN items
        BY <2>1 DEF IsA
      <3>2. i <= Len(items) => i \in DOMAIN items
        BY <2>1
      <3>3. QED
        BY <1>2, <3>1, <3>2 DEF Indexed
    <2>4. \A w \in Indexed(n, i) : w \in Existing(heap)
      BY <2>2, <2>3, ExistingFacts
    <2>5. QED
      BY <2>4, ResolvedExists DEF Resolve, Inv
  <1>3. CASE v[1] # "object"
    <2>1. Indexed(n, i) = {Inert}
      BY <1>3 DEF Indexed, IsA
    <2>2. QED
      BY <2>1, ExistingFacts, ResolvedExists DEF Resolve, Inv
  <1>4. QED
    BY <1>2, <1>3

-----------------------------------------------------------------------------
(* New objects *)

\* An object that can be there.
IsNew(x, h) ==
  /\ x \in [kind : Kinds \ {"none"}, items : Seq(Existing(h))]
  /\ x.kind = "table" => Len(x.items) = MaxLen

\* Objects take the numbers of objects nobody refers to.
LEMMA GrowsBy ==
  ASSUME NEW base, HeapOK(base), NEW O \in SUBSET Ids, \A o \in O : base[o] = NoObject,
         NEW h, DOMAIN h = Ids, h = [o \in Ids |-> h[o]],
         \A o \in Ids \ O : h[o] = base[o],
         \A o \in O : IsNew(h[o], h), Ends(h, O)
  PROVE  Grown(base, h) /\ \A o \in O : Object(o) \in Existing(h)
  <1>1. \A o \in O : h[o] # NoObject
    BY DEF IsNew, NoObject
  <1>2. \A o \in Ids : base[o] # NoObject => h[o] = base[o]
    OBVIOUS
  <1>3. Existing(base) \subseteq Existing(h)
    BY <1>2, ExistingFacts DEF Existing
  <1>4. ASSUME NEW o \in Ids
        PROVE  /\ h[o] \in [kind : Kinds, items : Seq(Existing(h))]
               /\ h[o].kind = "table" => Len(h[o].items) = MaxLen
    <2>1. CASE o \in O
      <3>1. IsNew(h[o], h)
        BY <2>1
      <3>2. QED
        BY <3>1 DEF IsNew
    <2>2. CASE o \notin O
      <3>1. h[o] = base[o]
        BY <2>2
      <3>2. base[o].items \in Seq(Existing(h))
        <4>1. base[o].items \in Seq(Existing(base))
          BY ItemFacts
        <4>2. QED
          BY <1>3, <4>1, SeqMonotonic
      <3>3. base[o] \in [kind : Kinds, items : Seq(Existing(h))]
        BY <3>2, ItemFacts, IsObject
      <3>4. QED
        BY <3>1, <3>3 DEF HeapOK
    <2>3. QED
      BY <2>1, <2>2
  <1>5. Ends(h, Lists(h))
    <2> SUFFICES ASSUME NEW S \in SUBSET Lists(h), S # {}
                 PROVE  \E o \in S : \A i \in DOMAIN h[o].items :
                          h[o].items[i][1] = "object" => h[o].items[i][2] \notin S
      BY DEF Ends
    <2>1. CASE S \subseteq O
      BY <2>1 DEF Ends
    <2>2. CASE ~(S \subseteq O)
      <3> DEFINE P == S \ O
      <3>1. P # {} /\ P \subseteq Lists(base) /\ \A o \in P : h[o] = base[o] /\ o \in Ids
        BY <2>2 DEF Lists
      <3>2. PICK o \in P : \A i \in DOMAIN base[o].items :
              base[o].items[i][1] = "object" => base[o].items[i][2] \notin P
        <4> HIDE DEF P
        <4> QED
          BY <3>1 DEF HeapOK, Ends
      <3>3. ASSUME NEW i \in DOMAIN base[o].items, base[o].items[i][1] = "object"
            PROVE  base[o].items[i][2] \notin O
        <4>1. base[o].items[i] \in Existing(base)
          BY <3>1, ItemFacts
        <4>2. QED
          BY <3>3, <4>1, ExistingFacts
      <3>4. h[o] = base[o]
        BY <3>1
      <3>5. QED
        BY <3>2, <3>3, <3>4
    <2>3. QED
      BY <2>1, <2>2
  <1>6. HeapOK(h)
    BY <1>4, <1>5 DEF HeapOK
  <1>7. QED
    BY <1>1, <1>2, <1>6, ExistingFacts DEF Grown

\* One object more.
LEMMA GrowsByOne ==
  ASSUME NEW base, HeapOK(base), NEW o \in Ids, base[o] = NoObject,
         NEW x, IsNew(x, base)
  PROVE  /\ Grown(base, [base EXCEPT ![o] = x])
         /\ Object(o) \in Existing([base EXCEPT ![o] = x])
  <1> DEFINE h == [base EXCEPT ![o] = x]
  <1>1. DOMAIN base = Ids
    BY DEF HeapOK
  <1>2. h[o] = x /\ DOMAIN h = Ids /\ h = [p \in Ids |-> h[p]] /\ \A p \in Ids \ {o} : h[p] = base[p]
    BY <1>1
  <1>3. x # NoObject
    BY DEF IsNew, NoObject
  <1> HIDE DEF h
  <1>4. Existing(base) \subseteq Existing(h)
    BY <1>2, <1>3, ExistingFacts DEF Existing
  <1>5. x.items \in Seq(Existing(h))
    <2>1. x.items \in Seq(Existing(base))
      BY DEF IsNew
    <2>2. QED
      BY <1>4, <2>1, SeqMonotonic
  <1>6. IsNew(h[o], h)
    BY <1>2, <1>5 DEF IsNew
  <1>7. Grown(base, h) /\ Object(o) \in Existing(h)
    <2> DEFINE O == {o}
    <2>1. /\ O \in SUBSET Ids /\ \A p \in O : base[p] = NoObject
          /\ \A p \in Ids \ O : h[p] = base[p]
          /\ \A p \in O : IsNew(h[p], h)
          /\ o \in O
      BY <1>2, <1>6
    <2>2. Ends(h, O)
      <3>1. \A i \in DOMAIN x.items : x.items[i] \in Existing(base)
        <4>1. x.items \in Seq(Existing(base))
          BY DEF IsNew
        <4>2. QED
          BY <4>1, ElementOfSeq
      <3>2. \A i \in DOMAIN h[o].items :
              h[o].items[i][1] = "object" => h[o].items[i][2] \notin O
        BY <1>2, <3>1, ExistingFacts
      <3>3. \A S \in SUBSET O : S # {} => o \in S
        OBVIOUS
      <3> HIDE DEF O
      <3>4. QED
        BY <3>2, <3>3 DEF Ends
    <2> HIDE DEF O
    <2>3. Grown(base, h) /\ \A p \in O : Object(p) \in Existing(h)
      BY <1>2, <2>1, <2>2, GrowsBy
    <2>4. QED
      BY <2>1, <2>3
  <1>8. QED
    BY <1>7 DEF h

-----------------------------------------------------------------------------
(* Copies *)

\* The paths to objects of these kinds.
Ways(kinds) == Seq(Nat) \X {o \in Ids : heap[o].kind \in kinds}

Met(u, kinds) == \E k \in kinds : IsA(k, Resolve(u))

First(v, kinds) == IF Met(v, kinds) THEN {<< << >>, Resolve(v)[2]>>} ELSE {}

Below(p, kinds) ==
  LET items == heap[p[2]].items
  IN  {<<Append(p[1], i), Resolve(items[i])[2]>> : i \in {j \in DOMAIN items : Met(items[j], kinds)}}

AllBelow(ps, kinds) == UNION {Below(p, kinds) : p \in ps}

\* What is met is an object that exists.
LEMMA MetExists ==
  ASSUME Inv, NEW kinds, NEW u \in Existing(heap), Met(u, kinds)
  PROVE  Resolve(u)[2] \in {o \in Ids : heap[o].kind \in kinds}
  <1>1. Resolve(u) \in Existing(heap)
    BY ResolvedExists DEF Resolve, Inv
  <1>2. QED
    BY <1>1, ExistingFacts DEF Met, IsA

LEMMA FirstIsWay ==
  ASSUME Inv, NEW kinds, NEW v \in Existing(heap)
  PROVE  First(v, kinds) \subseteq Ways(kinds)
  <1> DEFINE live == {o \in Ids : heap[o].kind \in kinds}
  <1>1. << >> \in Seq(Nat)
    OBVIOUS
  <1>2. Met(v, kinds) => Resolve(v)[2] \in live
    BY MetExists
  <1> HIDE DEF live
  <1>3. First(v, kinds) \subseteq Seq(Nat) \X live
    <2> DEFINE root == << >>
               o == Resolve(v)[2]
    <2>1. root \in Seq(Nat)
      BY <1>1
    <2>2. Met(v, kinds) => o \in live
      BY <1>2
    <2>3. First(v, kinds) = IF Met(v, kinds) THEN {<<root, o>>} ELSE {}
      BY DEF First
    <2> HIDE DEF root, o
    <2>4. QED
      BY <2>1, <2>2, <2>3
  <1>4. QED
    BY <1>3 DEF Ways, live

LEMMA BelowIsWay ==
  ASSUME Inv, NEW kinds, NEW ps \in SUBSET Ways(kinds)
  PROVE  AllBelow(ps, kinds) \subseteq Ways(kinds)
  <1> SUFFICES ASSUME NEW p \in Ways(kinds) PROVE Below(p, kinds) \subseteq Ways(kinds)
    BY DEF AllBelow
  <1> DEFINE items == heap[p[2]].items
  <1>1. p[1] \in Seq(Nat) /\ p[2] \in Ids
    BY DEF Ways
  <1>2. HeapOK(heap)
    BY DEF Inv, StateOK
  <1>3. /\ DOMAIN items = 1..Len(items) /\ Len(items) \in Nat
        /\ \A i \in DOMAIN items : items[i] \in Existing(heap)
    BY <1>1, <1>2, ItemFacts
  <1>4. ASSUME NEW i \in DOMAIN items, Met(items[i], kinds)
        PROVE  <<Append(p[1], i), Resolve(items[i])[2]>> \in Ways(kinds)
    <2>1. i \in Nat
      BY <1>3
    <2>2. Append(p[1], i) \in Seq(Nat)
      BY <1>1, <2>1
    <2>3. QED
      BY <1>3, <1>4, <2>2, MetExists DEF Ways
  <1>5. QED
    BY <1>4 DEF Below

\* Whatever is met on the way down is an object that exists.
LEMMA OccurrencesAreObjects ==
  ASSUME Inv, NEW kinds, NEW v \in Existing(heap)
  PROVE  Occurrences(v, kinds) \subseteq Ways(kinds)
  <1> DEFINE N == MaxObjects
             X == SUBSET Ways(kinds)
             z == First(v, kinds)
             step == [q \in X \X (1..N) |-> AllBelow(q[1], kinds)]
             Is(f) == f = [d \in 0..N |-> IF d = 0 THEN z ELSE AllBelow(f[d - 1], kinds)]
             at == CHOOSE f : Is(f)
  <1> USE BoundsAssumption
  <1>1. z \in X /\ N \in Nat
    BY FirstIsWay
  <1>2. \A s \in X, i \in 1..N : step[<<s, i>>] = AllBelow(s, kinds)
    OBVIOUS
  <1>3. CanStep(X, N, step)
    BY <1>2, BelowIsWay DEF CanStep
  <1>4. PICK f : Makes(f, X, z, N, step)
    <2> HIDE DEF X, z, N, step
    <2> QED
      BY <1>1, <1>3, IterationExists
  <1>5. \A d \in 0..N : d = 0 \/ (d # 0 /\ d \in 1..N)
    OBVIOUS
  <1>6. Is(f)
    <2>1. f \in [0..N -> X] /\ f[0] = z
      BY <1>4 DEF Makes
    <2>2. \A d \in 1..N : f[d] = AllBelow(f[d - 1], kinds)
      BY <1>2, <1>4 DEF Makes
    <2> HIDE DEF X, z, N
    <2>3. QED
      BY <1>5, <2>1, <2>2
  <1>7. Is(at)
    <2> HIDE DEF Is
    <2> QED
      BY <1>6
  <1>8. Occurrences(v, kinds) = UNION {at[d] : d \in 0..N}
    BY DEF Occurrences, First, AllBelow, Below, Met
  <1> HIDE DEF at
  <1>9. 0..N \subseteq {d \in 0..N : at[d] \in X}
    <2> DEFINE P == {d \in 0..N : at[d] \in X}
    <2>1. 0 \in P
      <3>1. 0 \in 0..N
        BY <1>1
      <3>2. at[0] = z
        BY <1>7, <3>1
      <3>3. QED
        BY <1>1, <3>1, <3>2
    <2>2. ASSUME NEW d \in 1..N, d - 1 \in P PROVE d \in P
      <3>1. d \in 0..N /\ d # 0
        OBVIOUS
      <3>2. at[d] = AllBelow(at[d - 1], kinds)
        BY <1>7, <3>1
      <3>3. AllBelow(at[d - 1], kinds) \in X
        BY <2>2, BelowIsWay
      <3>4. QED
        BY <3>1, <3>2, <3>3
    <2> HIDE DEF P
    <2>3. QED
      BY <1>1, <2>1, <2>2, UpTo DEF P
  <1>10. QED
    BY <1>8, <1>9

\* A copy is made of new objects, around objects that exist.
\* Objects that only refer to deeper ones among them.
LEMMA EndsByDepth ==
  ASSUME NEW h, NEW O, NEW N \in Nat, NEW depth, \A o \in O : depth[o] \in 0..N,
         \A o \in O : \A i \in DOMAIN h[o].items :
           h[o].items[i][1] = "object" /\ h[o].items[i][2] \in O =>
             depth[o] < depth[h[o].items[i][2]]
  PROVE  Ends(h, O)
  <1> SUFFICES ASSUME NEW S \in SUBSET O, S # {}
               PROVE  \E o \in S : \A i \in DOMAIN h[o].items :
                        h[o].items[i][1] = "object" => h[o].items[i][2] \notin S
    BY DEF Ends
  <1> DEFINE L == {N - depth[o] : o \in S}
  <1>1. \A o \in S : depth[o] \in Nat /\ N - depth[o] \in Nat
    OBVIOUS
  <1>2. L \in SUBSET Nat /\ L # {}
    BY <1>1
  <1> HIDE DEF L
  <1>3. PICK k \in L : \A i \in L : k <= i
    BY <1>2, LeastNatural
  <1>4. PICK o \in S : k = N - depth[o]
    BY DEF L
  <1>5. \A p \in S : N - depth[o] <= N - depth[p]
    BY <1>3, <1>4 DEF L
  <1>6. \A p \in S : ~(depth[o] < depth[p])
    BY <1>1, <1>5
  <1>7. QED
    BY <1>6

LEMMA CloneIsNew ==
  ASSUME Inv, NEW kinds, kinds \subseteq Kinds \ {"none"}, NEW v \in Existing(heap),
         NEW r \in Clone(v, kinds)
  PROVE  Grown(heap, r[2]) /\ r[1] \in Existing(r[2])
  <1> DEFINE occ == Occurrences(v, kinds)
             paths == {p[1] : p \in occ}
             node(path) == (CHOOSE p \in occ : p[1] = path)[2]
             placings == {f \in [paths -> Free] : IsInjective(f)}
             fresh == CHOOSE f \in placings : TRUE
             O == {fresh[q] : q \in paths}
             old == [o \in O |-> CHOOSE q \in paths : fresh[q] = o]
             copy(path, u) == IF path \in paths THEN Object(fresh[path]) ELSE Resolve(u)
             items(o) == [i \in DOMAIN heap[node(old[o])].items |->
                            copy(Append(old[o], i), heap[node(old[o])].items[i])]
             new(o) == [heap[node(old[o])] EXCEPT !.items = items(o)]
             h == [o \in Ids |-> IF o \in O THEN new(o) ELSE heap[o]]
  <1>1. /\ placings # {}
        /\ r = <<copy(<< >>, v), h>>
    BY DEF Clone
  <1>2. fresh \in [paths -> Free]
    <2> HIDE DEF paths
    <2> QED
      BY <1>1
  <1>3. O \in SUBSET Ids /\ \A o \in O : heap[o] = NoObject
    <2> HIDE DEF paths, fresh
    <2> QED
      BY <1>2 DEF Free
  <1>4. \A path \in paths : node(path) \in Ids /\ heap[node(path)].kind \in kinds
    <2>1. \A p \in occ : p[2] \in Ids /\ heap[p[2]].kind \in kinds
      BY OccurrencesAreObjects DEF Ways
    <2> HIDE DEF occ
    <2>2. QED
      BY <2>1
  <1>5. \A o \in O : old[o] \in paths
    <2> HIDE DEF paths, fresh
    <2> QED
      OBVIOUS
  <1>6. \A q \in paths : fresh[q] \in O /\ old[fresh[q]] = q
    <2>1. \A q1, q2 \in paths : fresh[q1] = fresh[q2] => q1 = q2
      <3> HIDE DEF paths
      <3>1. fresh \in placings
        BY <1>1
      <3>2. IsInjective(fresh) /\ DOMAIN fresh = paths
        BY <3>1
      <3> HIDE DEF fresh, placings
      <3>3. QED
        BY <3>2 DEF IsInjective
    <2> HIDE DEF paths, fresh
    <2>2. QED
      BY <2>1
  <1>7. \A q \in paths : q \in Seq(Nat) /\ Len(q) \in 0..MaxObjects
    <2>1. occ \subseteq Ways(kinds)
      BY OccurrencesAreObjects
    <2>2. ~Endless(v, kinds)
      <3> HIDE DEF placings, fresh, old, h, copy
      <3> QED
        BY DEF Clone
    <2>3. \A p \in occ : ~(Len(p[1]) >= MaxObjects)
      BY <2>2 DEF Endless
    <2> HIDE DEF occ
    <2>4. \A p \in occ : p[1] \in Seq(Nat) /\ ~(Len(p[1]) >= MaxObjects)
      BY <2>1, <2>3 DEF Ways
    <2>5. \A q \in paths : q \in Seq(Nat) /\ ~(Len(q) >= MaxObjects)
      BY <2>4
    <2> HIDE DEF paths
    <2>6. QED
      BY <2>5, BoundsAssumption
  <1> HIDE DEF occ, paths, node, fresh, old, placings
  <1>8. HeapOK(heap)
    BY DEF Inv, StateOK
  <1>9. DOMAIN h = Ids /\ h = [o \in Ids |-> h[o]]
        /\ (\A o \in Ids \ O : h[o] = heap[o]) /\ (\A o \in O : h[o] = new(o))
    BY <1>3
  <1> HIDE DEF items, copy
  <1>10. \A o \in O : h[o] = [kind |-> heap[node(old[o])].kind, items |-> items(o)]
    <2> SUFFICES ASSUME NEW o \in O
                 PROVE  h[o] = [kind |-> heap[node(old[o])].kind, items |-> items(o)]
      OBVIOUS
    <2>1. node(old[o]) \in Ids
      BY <1>4, <1>5
    <2> DEFINE was == heap[node(old[o])]
    <2>2. was = [kind |-> was.kind, items |-> was.items]
      BY <1>8, <2>1, ItemFacts
    <2>3. h[o] = [was EXCEPT !.items = items(o)]
      BY <1>9
    <2> HIDE DEF was, h
    <2>4. h[o] = [kind |-> was.kind, items |-> items(o)]
      BY <2>2, <2>3
    <2>5. QED
      BY <2>4 DEF was
  <1> HIDE DEF h
  <1>11. \A o \in O : h[o] # NoObject
    <2> SUFFICES ASSUME NEW o \in O PROVE h[o] # NoObject
      OBVIOUS
    <2>1. heap[node(old[o])].kind # "none"
      BY <1>4, <1>5
    <2> DEFINE kind == heap[node(old[o])].kind
    <2>2. h[o] = [kind |-> kind, items |-> items(o)]
      BY <1>10
    <2> HIDE DEF kind
    <2>3. h[o].kind = kind
      BY <2>2
    <2>4. QED
      BY <2>1, <2>3 DEF NoObject, kind
  <1>12. Existing(heap) \subseteq Existing(h)
    BY <1>3, <1>9, ExistingFacts DEF Existing
  <1>13. \A o \in O : Object(o) \in Existing(h)
    BY <1>3, <1>11, ExistingFacts
  <1>14. \A path \in paths : Object(fresh[path]) \in Existing(h)
    BY <1>13
  <1>15. ASSUME NEW path, NEW u \in Existing(heap)
         PROVE  copy(path, u) \in Existing(h)
    <2>1. Resolve(u) \in Existing(h)
      BY <1>12, ResolvedExists DEF Resolve, Inv
    <2>2. QED
      BY <1>14, <2>1 DEF copy
  <1>16. ASSUME NEW o \in O PROVE IsNew(h[o], h)
    <2> DEFINE path == old[o]
               was == heap[node(path)]
               is == items(o)
    <2>1. path \in paths /\ was.kind \in kinds
      BY <1>4, <1>5
    <2>2. /\ DOMAIN was.items = 1..Len(was.items) /\ Len(was.items) \in Nat
          /\ was.kind = "table" => Len(was.items) = MaxLen
          /\ \A i \in DOMAIN was.items : was.items[i] \in Existing(heap)
      BY <1>4, <1>8, <2>1, ItemFacts DEF HeapOK
    <2>3. h[o] = [kind |-> was.kind, items |-> is]
      BY <1>10
    <2>4. is = [i \in DOMAIN was.items |-> copy(Append(path, i), was.items[i])]
      BY DEF items
    <2>5. is \in [1..Len(was.items) -> Existing(h)]
      BY <1>15, <2>2, <2>4
    <2> HIDE DEF was, is, path
    <2>6. is \in Seq(Existing(h)) /\ Len(is) = Len(was.items)
      BY <2>2, <2>5
    <2>7. h[o].kind = was.kind /\ h[o].items = is
      BY <2>3
    <2>8. h[o] \in [kind : Kinds \ {"none"}, items : Seq(Existing(h))]
      BY <2>1, <2>3, <2>6
    <2>9. QED
      BY <2>2, <2>6, <2>7, <2>8 DEF IsNew
  <1>17. Ends(h, O)
    <2> DEFINE depth == [o \in O |-> Len(old[o])]
    <2>1. \A o \in O : depth[o] \in 0..MaxObjects
      <3> HIDE DEF O
      <3> QED
        BY <1>5, <1>7
    <2>2. ASSUME NEW o \in O, NEW i \in DOMAIN h[o].items,
                 h[o].items[i][1] = "object", h[o].items[i][2] \in O
          PROVE  depth[o] < depth[h[o].items[i][2]]
      <3> DEFINE was == heap[node(old[o])]
                 path == Append(old[o], i)
                 u == was.items[i]
      <3>1. h[o].items = items(o)
        <4> DEFINE is == items(o)
                   kind == heap[node(old[o])].kind
        <4>1. h[o] = [kind |-> kind, items |-> is]
          BY <1>10
        <4> HIDE DEF is, kind, O
        <4>2. h[o].items = is
          BY <4>1
        <4>3. QED
          BY <4>2 DEF is
      <3>2. i \in DOMAIN was.items /\ h[o].items[i] = copy(path, u)
        BY <2>2, <3>1 DEF items
      <3>3. i \in Nat /\ u \in Existing(heap)
        <4>1. node(old[o]) \in Ids
          BY <1>4, <1>5
        <4>2. /\ DOMAIN was.items = 1..Len(was.items) /\ Len(was.items) \in Nat
              /\ \A j \in DOMAIN was.items : was.items[j] \in Existing(heap)
          BY <1>8, <4>1, ItemFacts
        <4> HIDE DEF was, O
        <4>3. QED
          BY <3>2, <4>2
      <3>4. CASE path \in paths
        <4>1. h[o].items[i][2] = fresh[path]
          BY <3>2, <3>4, Tagged DEF copy
        <4>2. old[h[o].items[i][2]] = path
          BY <1>6, <3>4, <4>1
        <4>3. old[o] \in Seq(Nat)
          BY <1>5, <1>7
        <4>4. Len(path) = Len(old[o]) + 1 /\ Len(old[o]) \in Nat
          BY <3>3, <4>3
        <4> HIDE DEF O, path
        <4>5. QED
          BY <2>2, <4>2, <4>4
      <3>5. CASE path \notin paths
        <4>1. h[o].items[i] = Resolve(u)
          BY <3>2, <3>5 DEF copy
        <4>2. Resolve(u) \in Existing(heap)
          BY <3>3, ResolvedExists DEF Resolve, Inv
        <4>3. heap[h[o].items[i][2]] # NoObject
          BY <2>2, <4>1, <4>2, ExistingFacts
        <4>4. QED
          BY <1>3, <2>2, <4>3
      <3>6. QED
        BY <3>4, <3>5
    <2> HIDE DEF depth
    <2>3. QED
      BY <2>1, <2>2, BoundsAssumption, EndsByDepth
  <1> HIDE DEF O
  <1>18. Grown(heap, h)
    BY <1>3, <1>8, <1>9, <1>16, <1>17, GrowsBy
  <1>19. copy(<< >>, v) \in Existing(h)
    BY <1>15
  <1>20. QED
    BY <1>1, <1>18, <1>19

-----------------------------------------------------------------------------
(* What an expression evaluates to *)

\* A result refers to nothing that is gone, in a heap that only grew.
IsResult(r) == Grown(heap, r[2]) /\ r[1] \in Existing(r[2])

LEMMA HeapIsGrown == Inv => Grown(heap, heap)
  BY DEF Inv, StateOK, Grown

\* The least number that is free.
LEMMA MinFree ==
  ASSUME NEW F \in SUBSET Ids, F # {}
  PROVE  Min(F) \in F
  <1>1. F \in SUBSET Nat
    BY BoundsAssumption DEF Ids
  <1>2. \E o \in F : \A p \in F : o <= p
    BY <1>1, LeastNatural
  <1>3. QED
    BY <1>2 DEF Min

LEMMA MadeIsResult ==
  ASSUME Inv, Free # {}, NEW x, IsNew(x, heap)
  PROVE  IsResult(Made(Min(Free), x))
  <1>1. Free \in SUBSET Ids
    BY DEF Free
  <1>2. Min(Free) \in Free
    BY <1>1, MinFree
  <1>3. QED
    BY <1>2, GrowsByOne DEF Made, IsResult, Free, Inv, StateOK

LEMMA EmptyTableIsNew == \A h : IsNew(EmptyTable, h)
  <1> SUFFICES ASSUME NEW h PROVE IsNew(EmptyTable, h)
    OBVIOUS
  <1> DEFINE s == [i \in 1..MaxLen |-> Absent]
  <1>1. MaxLen \in Nat /\ Absent \in Existing(h)
    BY BoundsAssumption, ExistingFacts
  <1>2. s \in [1..MaxLen -> Existing(h)]
    BY <1>1
  <1> HIDE DEF s
  <1>3. s \in Seq(Existing(h)) /\ Len(s) = MaxLen
    BY <1>1, <1>2
  <1>4. EmptyTable = [kind |-> "table", items |-> s]
    BY DEF EmptyTable, s
  <1>5. QED
    BY <1>3, <1>4 DEF IsNew, Kinds

\* Lists and sets of values that exist.
LEMMA ListIsNew ==
  ASSUME NEW h, NEW kind \in {"list", "set"}, NEW s \in Seq(Existing(h))
  PROVE  IsNew([kind |-> kind, items |-> s], h)
  BY DEF IsNew, Kinds

LEMMA DisplaysExist ==
  ASSUME Inv
  PROVE  Displays \subseteq Seq(Existing(heap))
  <1> DEFINE V == {Value(n) : n \in Names} \ {Null}
  <1>1. V \subseteq Existing(heap)
    BY EvaluatedExists, HeapIsGrown
  <1> HIDE DEF V
  <1>2. ASSUME NEW k \in 0..MaxLen, NEW s \in [1..k -> V]
        PROVE  s \in Seq(Existing(heap))
    <2>1. k \in Nat /\ s \in [1..k -> Existing(heap)]
      BY <1>1, BoundsAssumption
    <2>2. QED
      BY <2>1
  <1>3. Displays = UNION {[1..k -> V] : k \in 0..MaxLen}
    BY DEF Displays, BoundedSeq, SeqOf, V
  <1>4. QED
    BY <1>2, <1>3

LEMMA SubsopExists ==
  ASSUME Inv, NEW n \in Names, IsA("list", globals[n]), NEW m \in Names,
         NEW i \in DOMAIN heap[globals[n][2]].items
  PROVE  Subsop(n, i, m) \in Seq(Existing(heap))
  <1> DEFINE items == heap[globals[n][2]].items
             E == Existing(heap)
  <1>1. HeapOK(heap) /\ globals[n] \in E /\ globals[n][2] \in Ids
    BY ExistingFacts DEF Inv, StateOK, IsA
  <1>2. items \in Seq(E) /\ Len(items) \in Nat /\ DOMAIN items = 1..Len(items)
    BY <1>1, ItemFacts
  <1>3. i \in 1..Len(items)
    BY <1>2
  <1>4. Symbol(m) \in E /\ Eval(m) \in E
    BY EvaluatedExists, HeapIsGrown, ExistingFacts
  <1>5. Subsop(n, i, m) = IF Eval(m) = Null THEN RemoveAt(items, i)
                          ELSE [items EXCEPT ![i] = IF IsA("table", globals[m]) THEN Symbol(m) ELSE Eval(m)]
    BY DEF Subsop
  <1> HIDE DEF items, E
  <1>6. RemoveAt(items, i) \in Seq(E)
    <2>1. \A j \in 1..Len(items) : items[j] \in E
      BY <1>2
    <2>2. SubSeq(items, 1, i - 1) \in Seq(E)
      <3>1. 1 \in Int /\ i - 1 \in Int /\ \A j \in 1..(i - 1) : j \in 1..Len(items)
        BY <1>2, <1>3
      <3>2. \A j \in 1..(i - 1) : items[j] \in E
        BY <2>1, <3>1
      <3>3. QED
        BY <3>1, <3>2, SubSeqProperties
    <2>3. SubSeq(items, i + 1, Len(items)) \in Seq(E)
      <3>1. i + 1 \in Int /\ Len(items) \in Int /\ \A j \in (i + 1)..Len(items) : j \in 1..Len(items)
        BY <1>2, <1>3
      <3>2. \A j \in (i + 1)..Len(items) : items[j] \in E
        BY <2>1, <3>1
      <3>3. QED
        BY <3>1, <3>2, SubSeqProperties
    <2>4. QED
      BY <2>2, <2>3, ConcatProperties DEF RemoveAt
  <1>7. \A v \in E : [items EXCEPT ![i] = v] \in Seq(E)
    BY <1>2, <1>3, ExceptSeq
  <1>8. QED
    BY <1>4, <1>5, <1>6, <1>7 DEF E

LEMMA SubsopsExist ==
  ASSUME Inv
  PROVE  Subsops \subseteq Seq(Existing(heap))
  <1> SUFFICES ASSUME NEW n \in Names, IsA("list", globals[n]), NEW m \in Names,
                      NEW i \in DOMAIN heap[globals[n][2]].items
               PROVE  Subsop(n, i, m) \in Seq(Existing(heap))
    BY DEF Subsops
  <1> QED
    BY SubsopExists

\* Every result is one.
LEMMA ResultsExist ==
  ASSUME Inv, NEW r \in Results
  PROVE  IsResult(r)
  <1>1. CASE r = <<Null, heap>>
    BY <1>1, HeapIsGrown, ExistingFacts DEF IsResult
  <1>2. ASSUME NEW m \in Names, r = <<Value(m), heap>> PROVE IsResult(r)
    BY <1>2, HeapIsGrown, EvaluatedExists DEF IsResult
  <1>3. ASSUME NEW m \in Names, NEW i \in 1..MaxLen, NEW v \in Indexed(m, i), r = <<Resolve(v), heap>>
        PROVE  IsResult(r)
    BY <1>3, HeapIsGrown, IndexedExists DEF IsResult
  <1>4. ASSUME NEW m \in Names, r \in DeepCopy(Value(m)) PROVE IsResult(r)
    <2>1. {"table", "list"} \subseteq Kinds \ {"none"}
      BY DEF Kinds
    <2>2. Value(m) \in Existing(heap)
      BY HeapIsGrown, EvaluatedExists
    <2>3. QED
      BY <1>4, <2>1, <2>2, CloneIsNew DEF DeepCopy, IsResult
  <1>5. CASE Free # {} /\ r = Made(Min(Free), EmptyTable)
    BY <1>5, MadeIsResult, EmptyTableIsNew
  <1>6. ASSUME Free # {}, NEW kind \in {"list", "set"}, NEW d \in Displays \cup Subsops,
               r = Made(Min(Free), [kind |-> kind, items |-> d])
        PROVE  IsResult(r)
    <2>1. IsNew([kind |-> kind, items |-> d], heap)
      BY DisplaysExist, SubsopsExist, ListIsNew
    <2>2. QED
      BY <1>6, <2>1, MadeIsResult
  <1> DEFINE o == Min(Free)
             values == {<<Value(m), heap>> : m \in Names}
             reads == UNION {{<<Resolve(v), heap>> : v \in Indexed(m, i)} : m \in Names, i \in 1..MaxLen}
             copies == UNION {DeepCopy(Value(m)) : m \in Names}
             lists == {Made(o, [kind |-> "list", items |-> d]) : d \in Displays \cup Subsops}
             sets == {Made(o, [kind |-> "set", items |-> d]) : d \in {e \in Displays : Len(e) = 1}}
  <1>7. \/ r \in values \/ r \in reads \/ r \in copies
        \/ r = <<Null, heap>>
        \/ Free # {} /\ (r = Made(o, EmptyTable) \/ r \in lists \/ r \in sets)
    <2> DEFINE made == IF Free = {} THEN {} ELSE {Made(o, EmptyTable)} \cup lists \cup sets
    <2>1. Results = {<<Null, heap>>} \cup values \cup reads \cup copies \cup made
      BY DEF Results
    <2> HIDE DEF values, reads, copies, lists, sets
    <2>2. QED
      BY <2>1
  <1>8. r \in values \/ r \in reads \/ r \in copies => IsResult(r)
    BY <1>2, <1>3, <1>4
  <1>9. Free # {} /\ (r \in lists \/ r \in sets) => IsResult(r)
    BY <1>6
  <1> HIDE DEF values, reads, copies, lists, sets
  <1>10. QED
    BY <1>1, <1>5, <1>7, <1>8, <1>9

-----------------------------------------------------------------------------
(* Steps of the abstract store *)

LEMMA GrownTouches ==
  ASSUME NEW h, Grown(heap, h)
  PROVE  Touches(h, {})
  BY DEF Grown, Touches

\* A name gets a value, which may be remembered.
LEMMA Binds ==
  ASSUME Inv, NEW h, Grown(heap, h), NEW n \in Names,
         NEW v \in Existing(h), NEW m \in Existing(h),
         m = memo \/ (memo = Unbound /\ m = v),
         Leaves([globals EXCEPT ![n] = v], h, m)
  PROVE  Inv' /\ Store!Bind(n)
  <1> DEFINE g == [globals EXCEPT ![n] = v]
  <1>1. globals \in [Names -> Existing(h)]
    BY GrownFacts DEF Inv, StateOK
  <1>2. g[n] = v /\ \A k \in Names \ {n} : g[k] = globals[k]
    BY <1>1
  <1>3. StateOK(g, h, m)
    BY <1>1 DEF StateOK, Grown
  <1> HIDE DEF g
  <1>4. Leaves(g, h, m)
    BY DEF g
  <1>5. /\ Inv'
        /\ \A k \in Names : g[k] = globals[k] => Tree(heap', globals'[k]) = Tree(heap, globals[k])
        /\ m = memo => Tree(heap', memo') = Tree(heap, memo)
        /\ \A u \in Ids \ {} : heap[u].kind = "table" /\ heap'[u].kind = "table" =>
             Slots(heap')[u] = Slots(heap)[u]
    BY <1>3, <1>4, GrownTouches, StepShows
  <1>6. Store!Unchanged({n}, {})
    BY <1>2, <1>5, ShownUnchanged
  <1>7. \/ Tree(heap', memo') = Tree(heap, memo)
        \/ Tree(heap, memo) = Unbound /\ Tree(heap', memo') = Tree(heap', globals'[n])
    <2>1. CASE m = memo
      BY <1>5, <2>1
    <2>2. CASE memo = Unbound /\ m = v
      <3>1. Tree(heap, memo) = Unbound
        BY <2>2 DEF Tree, Unbound
      <3>2. memo' = globals'[n]
        BY <1>2, <1>4, <2>2 DEF Leaves
      <3>3. QED
        BY <3>1, <3>2
    <2>3. QED
      BY <2>1, <2>2
  <1>8. QED
    BY <1>5, <1>6, <1>7 DEF Store!Bind

\* A slot of a table gets a value.
LEMMA SetsSlot ==
  ASSUME Inv, NEW h, StateOK(globals, h, memo), NEW t \in Ids, Touches(h, {t}),
         Leaves(globals, h, memo)
  PROVE  Inv' /\ Store!SetSlot(t)
  <1>1. /\ Inv'
        /\ \A n \in Names : Tree(heap', globals'[n]) = Tree(heap, globals[n])
        /\ Tree(heap', memo') = Tree(heap, memo)
        /\ \A u \in Ids \ {t} : heap[u].kind = "table" /\ heap'[u].kind = "table" =>
             Slots(heap')[u] = Slots(heap)[u]
    BY StepShows
  <1>2. Store!Unchanged({}, {t})
    BY <1>1, ShownUnchanged
  <1>3. QED
    BY <1>1, <1>2 DEF Store!SetSlot

\* The slot of a table.
Written(h, t, i, v) == [h EXCEPT ![t].items[i] = v]

LEMMA SlotWritten ==
  ASSUME NEW h, HeapOK(h), NEW t \in Ids, h[t].kind = "table",
         NEW i \in 1..MaxLen, NEW v \in Existing(h)
  PROVE  /\ HeapOK(Written(h, t, i, v)) /\ Existing(Written(h, t, i, v)) = Existing(h)
         /\ Written(h, t, i, v)[t].kind = "table"
         /\ \A o \in Ids \ {t} : Written(h, t, i, v)[o] = h[o]
  <1> DEFINE k == Written(h, t, i, v)
  <1>1. /\ h[t].items \in Seq(Existing(h)) /\ Len(h[t].items) = MaxLen
        /\ h[t] = [kind |-> h[t].kind, items |-> h[t].items]
        /\ h \in [Ids -> [kind : Kinds, items : Seq(Existing(h))]]
    BY ItemFacts DEF HeapOK
  <1> DEFINE s == [h[t].items EXCEPT ![i] = v]
  <1>2. s \in Seq(Existing(h)) /\ Len(s) = MaxLen
    BY <1>1, ExceptSeq
  <1>3. /\ k[t] = [h[t] EXCEPT !.items = s]
        /\ DOMAIN k = Ids /\ k = [o \in Ids |-> k[o]]
        /\ \A o \in Ids \ {t} : k[o] = h[o]
    BY <1>1 DEF Written
  <1> HIDE DEF s, k
  <1>4. k[t] = [kind |-> h[t].kind, items |-> s]
    BY <1>1, <1>3
  <1>5. k[t].kind = "table" /\ k[t].items = s /\ k[t] # NoObject /\ h[t] # NoObject
    BY <1>4 DEF NoObject
  <1>6. \A o \in Ids : k[o] = NoObject <=> h[o] = NoObject
    BY <1>3, <1>5
  <1>7. Existing(k) = Existing(h)
    BY <1>6, Tagged DEF Existing
  <1>8. \A o \in Ids : k[o] \in [kind : Kinds, items : Seq(Existing(k))]
    <2>1. k[t] \in [kind : Kinds, items : Seq(Existing(k))]
      BY <1>1, <1>2, <1>4, <1>7 DEF Kinds
    <2>2. QED
      BY <1>1, <1>3, <1>7, <2>1
  <1>9. Ends(k, Lists(k))
    <2>1. Lists(k) \subseteq Lists(h) /\ \A o \in Lists(k) : k[o] = h[o]
      BY <1>3, <1>5 DEF Lists
    <2>2. Ends(h, Lists(h))
      BY DEF HeapOK
    <2>3. QED
      BY <2>1, <2>2, SameEnds
  <1>10. HeapOK(k)
    BY <1>2, <1>3, <1>5, <1>8, <1>9 DEF HeapOK
  <1>11. QED
    BY <1>3, <1>5, <1>7, <1>10 DEF k

-----------------------------------------------------------------------------
(* Statements *)

LEMMA AssignSteps ==
  ASSUME Inv, NEW n \in Names, Assign(n)
  PROVE  Inv' /\ Store!Next
  <1>1. PICK r \in Results : Leaves([globals EXCEPT ![n] = r[1]], r[2], memo)
    BY DEF Assign
  <1>2. Grown(heap, r[2]) /\ r[1] \in Existing(r[2])
    BY ResultsExist DEF IsResult
  <1>3. memo \in Existing(r[2])
    BY <1>2, GrownFacts DEF Inv, StateOK
  <1>4. Inv' /\ Store!Bind(n)
    BY <1>1, <1>2, <1>3, Binds
  <1>5. QED
    BY <1>4 DEF Store!Next

\* A changed list is a copy.
LEMMA WithElementIsNew ==
  ASSUME Inv, NEW l \in Ids, heap[l].kind = "list", NEW i \in 1..MaxLen, i <= Len(heap[l].items),
         NEW v \in Existing(heap), NEW r \in WithElement(l, i, v)
  PROVE  /\ Grown(heap, r[2]) /\ r[1] \in Ids /\ heap[r[1]] = NoObject
         /\ Object(r[1]) \in Existing(r[2])
  <1>1. HeapOK(heap)
    BY DEF Inv, StateOK
  <1> DEFINE s == [heap[l].items EXCEPT ![i] = v]
             x == [heap[l] EXCEPT !.items[i] = v]
  <1>2. /\ heap[l].items \in Seq(Existing(heap)) /\ i \in 1..Len(heap[l].items)
        /\ heap[l] = [kind |-> heap[l].kind, items |-> heap[l].items]
    BY <1>1, ItemFacts
  <1>3. s \in Seq(Existing(heap))
    BY <1>2, ExceptSeq
  <1>4. x = [heap[l] EXCEPT !.items = s]
    OBVIOUS
  <1> HIDE DEF s, x
  <1>5. x = [kind |-> "list", items |-> s]
    BY <1>2, <1>4
  <1>6. IsNew(x, heap)
    BY <1>3, <1>5, ListIsNew
  <1>7. Free # {} /\ r = <<Min(Free), [heap EXCEPT ![Min(Free)] = x]>>
    BY DEF WithElement, x
  <1>8. Min(Free) \in Free
    <2>1. Free \in SUBSET Ids
      BY DEF Free
    <2>2. QED
      BY <1>7, <2>1, MinFree
  <1>9. QED
    BY <1>1, <1>6, <1>7, <1>8, GrowsByOne DEF Free

LEMMA InRangeFacts ==
  ASSUME Inv, NEW v \in Existing(heap), NEW i, InRange(v, i)
  PROVE  v[1] = "object" /\ v[2] \in Ids /\ heap[v[2]].kind = "list" /\ i <= Len(heap[v[2]].items)
  BY ExistingFacts DEF InRange, IsA

LEMMA AssignElementSteps ==
  ASSUME Inv, NEW n \in Names, NEW m \in Names, NEW i \in 1..MaxLen, AssignElement(n, i, m)
  PROVE  Inv' /\ Store!Next
  <1>1. PICK l \in WithElement(globals[n][2], i, Value(m)) :
          Leaves([globals EXCEPT ![n] = Object(l[1])], l[2], memo)
    BY DEF AssignElement
  <1>2. globals[n] \in Existing(heap) /\ Value(m) \in Existing(heap) /\ InRange(globals[n], i)
    BY HeapIsGrown, EvaluatedExists DEF AssignElement
  <1>3. Grown(heap, l[2]) /\ Object(l[1]) \in Existing(l[2])
    BY <1>2, InRangeFacts, WithElementIsNew
  <1>4. memo \in Existing(l[2])
    BY <1>3, GrownFacts DEF Inv, StateOK
  <1>5. Inv' /\ Store!Bind(n)
    BY <1>1, <1>3, <1>4, Binds
  <1>6. QED
    BY <1>5 DEF Store!Next

LEMMA AssignElementInSlotSteps ==
  ASSUME Inv, NEW n \in Names, NEW m \in Names, NEW i \in 1..MaxLen, NEW j \in 1..MaxLen,
         AssignElementInSlot(n, i, j, m)
  PROVE  Inv' /\ Store!Next
  <1> DEFINE t == globals[n][2]
             w == heap[t].items[i]
  <1>1. PICK l \in WithElement(w[2], j, Value(m)) :
          Leaves(globals, [l[2] EXCEPT ![t].items[i] = Object(l[1])], memo)
    BY DEF AssignElementInSlot
  <1>2. IsA("table", globals[n]) /\ globals[n] \in Existing(heap) /\ Value(m) \in Existing(heap)
    BY HeapIsGrown, EvaluatedExists DEF AssignElementInSlot
  <1>3. t \in Ids /\ heap[t].kind = "table" /\ heap[t] # NoObject
    BY <1>2, ExistingFacts DEF IsA
  <1>4. PICK v \in Indexed(n, i) : InRange(v, j)
    BY DEF AssignElementInSlot
  <1>5. v = w /\ w \in Existing(heap)
    <2>1. v = IF w = Absent THEN Null ELSE w
      BY <1>2, <1>4 DEF Indexed
    <2>2. v # Null
      BY <1>4 DEF InRange, IsA, Null
    <2>3. QED
      BY <2>1, <2>2, <1>4, IndexedExists
  <1>6. Grown(heap, l[2]) /\ Object(l[1]) \in Existing(l[2])
    BY <1>2, <1>4, <1>5, InRangeFacts, WithElementIsNew
  <1> DEFINE k == Written(l[2], t, i, Object(l[1]))
  <1> HIDE DEF t, k
  <1>7. HeapOK(l[2]) /\ l[2][t] = heap[t]
    BY <1>3, <1>6 DEF Grown
  <1>8. HeapOK(k) /\ Existing(k) = Existing(l[2]) /\ k[t].kind = "table" /\ \A o \in Ids \ {t} : k[o] = l[2][o]
    BY <1>3, <1>6, <1>7, SlotWritten DEF k
  <1>9. StateOK(globals, k, memo) /\ Touches(k, {t})
    BY <1>3, <1>6, <1>8, GrownFacts DEF StateOK, Touches, Inv, Grown
  <1>10. Leaves(globals, k, memo)
    BY <1>1 DEF k, t, Written
  <1>11. Inv' /\ Store!SetSlot(t)
    BY <1>3, <1>9, <1>10, SetsSlot
  <1>12. QED
    BY <1>3, <1>11 DEF Store!Next

LEMMA AssignSlotInElementSteps ==
  ASSUME Inv, NEW n \in Names, NEW m \in Names, NEW i \in 1..MaxLen, NEW j \in 1..MaxLen,
         AssignSlotInElement(n, i, j, m)
  PROVE  Inv' /\ Store!Next
  <1> DEFINE u == heap[globals[n][2]].items[i]
             t == Resolve(u)
             k == Written(heap, t[2], j, Value(m))
  <1>1. InRange(globals[n], i) /\ IsA("table", t) /\ Leaves(globals, k, memo)
    BY DEF AssignSlotInElement, Written
  <1>2. HeapOK(heap) /\ globals[n] \in Existing(heap) /\ Value(m) \in Existing(heap)
    BY HeapIsGrown, EvaluatedExists DEF Inv, StateOK
  <1>3. u \in Existing(heap)
    <2> DEFINE o == globals[n][2]
    <2>1. o \in Ids /\ i <= Len(heap[o].items)
      BY <1>1, <1>2, InRangeFacts
    <2>2. Len(heap[o].items) \in Nat /\ DOMAIN heap[o].items = 1..Len(heap[o].items)
      BY <1>2, <2>1, ItemFacts
    <2>3. i \in DOMAIN heap[o].items
      BY <2>1, <2>2
    <2>4. QED
      BY <1>2, <2>1, <2>3, ItemFacts
  <1>4. t \in Existing(heap)
    BY <1>3, ResolvedExists DEF Resolve, Inv
  <1>5. t[2] \in Ids /\ heap[t[2]].kind = "table"
    BY <1>1, <1>4, ExistingFacts DEF IsA
  <1> HIDE DEF k, t
  <1>6. HeapOK(k) /\ Existing(k) = Existing(heap) /\ k[t[2]].kind = "table"
        /\ \A o \in Ids \ {t[2]} : k[o] = heap[o]
    BY <1>2, <1>5, SlotWritten DEF k
  <1>7. StateOK(globals, k, memo) /\ Touches(k, {t[2]})
    BY <1>5, <1>6 DEF StateOK, Touches, Inv
  <1>8. Inv' /\ Store!SetSlot(t[2])
    BY <1>1, <1>5, <1>7, SetsSlot
  <1>9. QED
    BY <1>5, <1>8 DEF Store!Next

\* The table that n refers to, or a new one that n gets.
LEMMA TableOfFacts ==
  ASSUME Inv, NEW n \in Names, NEW t \in TableOf(n)
  PROVE  /\ StateOK(t[2], t[3], memo) /\ Grown(heap, t[3])
         /\ t[1] \in Ids /\ t[3][t[1]].kind = "table"
         /\ \/ t[2] = globals /\ t[3] = heap
            \/ /\ t[2] = [globals EXCEPT ![n] = Object(t[1])]
               /\ heap[t[1]] = NoObject /\ t[3][t[1]] = EmptyTable
  <1> DEFINE v == Resolve(globals[n])
             o == Min(Free)
             h == [heap EXCEPT ![o] = EmptyTable]
  <1>1. HeapOK(heap) /\ v \in Existing(heap)
    BY ResolvedExists, HeapIsGrown, EvaluatedExists DEF Inv, StateOK, Resolve
  <1>2. CASE IsA("table", v)
    <2>1. t = <<v[2], globals, heap>>
      BY <1>2 DEF TableOf
    <2>2. v[2] \in Ids /\ heap[v[2]].kind = "table"
      BY <1>1, <1>2, ExistingFacts DEF IsA
    <2>3. QED
      BY <2>1, <2>2, HeapIsGrown DEF Inv
  <1>3. CASE ~IsA("table", v)
    <2>1. Free # {} /\ t = <<o, [globals EXCEPT ![n] = Object(o)], h>>
      BY <1>3 DEF TableOf
    <2>2. o \in Ids /\ heap[o] = NoObject
      <3>1. Free \in SUBSET Ids
        BY DEF Free
      <3>2. o \in Free
        BY <2>1, <3>1, MinFree
      <3>3. QED
        BY <3>2 DEF Free
    <2> HIDE DEF o
    <2>3. Grown(heap, h) /\ Object(o) \in Existing(h)
      BY <1>1, <2>2, EmptyTableIsNew, GrowsByOne
    <2>4. h[o] = EmptyTable /\ EmptyTable.kind = "table"
      BY <1>1, <2>2 DEF HeapOK, EmptyTable
    <2> HIDE DEF h
    <2>5. StateOK([globals EXCEPT ![n] = Object(o)], h, memo)
      BY <2>3, GrownFacts DEF Inv, StateOK, Grown
    <2>6. QED
      BY <2>1, <2>2, <2>3, <2>4, <2>5
  <1>4. QED
    BY <1>2, <1>3

\* An assignment that leaves all but one object u as they were: a slot of u shows
\* it, or the name that now refers to a new table.
LEMMA TableSteps ==
  ASSUME Inv, NEW n \in Names, NEW t \in TableOf(n),
         NEW k, StateOK(t[2], k, memo), Leaves(t[2], k, memo), NEW u \in Ids,
         \A o \in Ids \ {u} : heap[o] # NoObject => k[o] = heap[o],
         heap[u] # NoObject => heap[u].kind = "table" /\ k[u].kind = "table",
         t[2] = globals \/ heap[u] = NoObject
  PROVE  Inv' /\ Store!Next
  <1>1. CASE heap[u] # NoObject
    <2>1. t[2] = globals /\ Touches(k, {u})
      BY <1>1 DEF Touches
    <2>2. Inv' /\ Store!SetSlot(u)
      BY <2>1, SetsSlot
    <2>3. QED
      BY <2>2 DEF Store!Next
  <1>2. CASE heap[u] = NoObject
    <2> DEFINE v == t[2][n]
    <2>1. t[2] = [globals EXCEPT ![n] = v]
      <3>1. globals \in [Names -> Existing(heap)]
        BY DEF Inv, StateOK
      <3>2. t[2] = globals \/ t[2] = [globals EXCEPT ![n] = Object(t[1])]
        BY TableOfFacts
      <3>3. QED
        BY <3>1, <3>2
    <2>2. Grown(heap, k) /\ v \in Existing(k) /\ memo \in Existing(k)
      BY <1>2 DEF StateOK, Grown
    <2> HIDE DEF v
    <2>3. Leaves([globals EXCEPT ![n] = v], k, memo)
      BY <2>1
    <2>4. Inv' /\ Store!Bind(n)
      BY <2>2, <2>3, Binds
    <2>5. QED
      BY <2>4 DEF Store!Next
  <1>3. QED
    BY <1>1, <1>2

LEMMA AssignSlotSteps ==
  ASSUME Inv, NEW n \in Names, NEW m \in Names, NEW i \in 1..MaxLen, AssignSlot(n, i, m)
  PROVE  Inv' /\ Store!Next
  <1>1. PICK t \in TableOf(n) :
          Leaves(t[2], [t[3] EXCEPT ![t[1]].items[i] = ResolveIn(t[2], t[3], Eval(m))], memo)
    BY DEF AssignSlot
  <1> DEFINE v == ResolveIn(t[2], t[3], Eval(m))
             k == Written(t[3], t[1], i, v)
  <1>2. /\ StateOK(t[2], t[3], memo) /\ Grown(heap, t[3])
        /\ t[1] \in Ids /\ t[3][t[1]].kind = "table"
        /\ (t[2] = globals /\ t[3] = heap) \/ heap[t[1]] = NoObject
    BY TableOfFacts
  <1>3. v \in Existing(t[3])
    BY <1>2, ResolvedExists, EvaluatedExists
  <1> HIDE DEF v
  <1>4. HeapOK(k) /\ Existing(k) = Existing(t[3]) /\ k[t[1]].kind = "table"
        /\ \A o \in Ids \ {t[1]} : k[o] = t[3][o]
    BY <1>2, <1>3, SlotWritten DEF StateOK
  <1>5. Leaves(t[2], k, memo)
    BY <1>1 DEF v, Written
  <1> HIDE DEF k
  <1>6. StateOK(t[2], k, memo)
    BY <1>2, <1>4 DEF StateOK
  <1>7. \A o \in Ids \ {t[1]} : heap[o] # NoObject => k[o] = heap[o]
    BY <1>2, <1>4 DEF Grown
  <1>8. QED
    BY <1>2, <1>4, <1>5, <1>6, <1>7, TableSteps

LEMMA AssignSlotInSlotSteps ==
  ASSUME Inv, NEW n \in Names, NEW m \in Names, NEW i \in 1..MaxLen, NEW j \in 1..MaxLen,
         AssignSlotInSlot(n, i, j, m)
  PROVE  Inv' /\ Store!Next
  <1> DEFINE Sets(t, h, o) ==
               Leaves(t[2], [h EXCEPT ![o].items[j] = ResolveIn(t[2], h, Eval(m))], memo)
             slot(t) == ResolveIn(t[2], t[3], t[3][t[1]].items[i])
             free(t) == {o \in Ids : t[3][o] = NoObject}
             made(t) == [t[3] EXCEPT ![Min(free(t))] = EmptyTable,
                                     ![t[1]].items[i] = Object(Min(free(t)))]
  <1>1. PICK t \in TableOf(n) :
          \/ slot(t)[1] = "object" /\ t[3][slot(t)[2]].kind = "table" /\ Sets(t, t[3], slot(t)[2])
          \/ free(t) # {} /\ Sets(t, made(t), Min(free(t)))
    BY DEF AssignSlotInSlot
  <1>2. /\ StateOK(t[2], t[3], memo) /\ Grown(heap, t[3])
        /\ t[1] \in Ids /\ t[3][t[1]].kind = "table" /\ HeapOK(t[3])
        /\ \/ t[2] = globals /\ t[3] = heap
           \/ heap[t[1]] = NoObject /\ t[3][t[1]] = EmptyTable
    BY TableOfFacts DEF Grown
  <1>3. Eval(m) \in Existing(t[3])
    BY <1>2, EvaluatedExists
  <1>4. ASSUME NEW h, HeapOK(h), Existing(t[3]) \subseteq Existing(h), NEW o \in Ids,
               h[o].kind = "table", Sets(t, h, o)
        PROVE  \E k : /\ StateOK(t[2], k, memo) /\ Leaves(t[2], k, memo)
                      /\ k[o].kind = "table" /\ \A p \in Ids \ {o} : k[p] = h[p]
    <2> DEFINE v == ResolveIn(t[2], h, Eval(m))
               k == Written(h, o, j, v)
    <2>1. StateOK(t[2], h, memo)
      BY <1>2, <1>4 DEF StateOK
    <2>2. v \in Existing(h)
      BY <1>3, <1>4, <2>1, ResolvedExists
    <2>3. Leaves(t[2], k, memo)
      BY <1>4 DEF Written
    <2> HIDE DEF v
    <2>4. HeapOK(k) /\ Existing(k) = Existing(h) /\ k[o].kind = "table"
          /\ \A p \in Ids \ {o} : k[p] = h[p]
      <3>1. HeapOK(h) /\ o \in Ids /\ h[o].kind = "table" /\ j \in 1..MaxLen
        BY <1>4
      <3>2. QED
        BY <2>2, <3>1, SlotWritten
    <2>5. StateOK(t[2], k, memo)
      BY <2>1, <2>4 DEF StateOK
    <2>6. QED
      BY <2>3, <2>4, <2>5
  <1>5. CASE slot(t)[1] = "object" /\ t[3][slot(t)[2]].kind = "table" /\ Sets(t, t[3], slot(t)[2])
    <2> DEFINE item == t[3][t[1]].items[i]
               u == slot(t)[2]
    <2>1. item \in Existing(t[3])
      BY <1>2, ItemFacts DEF HeapOK
    <2>2. u \in Ids
      BY <1>2, <1>5, <2>1, ResolvedExists, ExistingFacts
    <2>3. t[2] = globals /\ t[3] = heap
      <3>1. CASE t[3][t[1]] = EmptyTable
        <4>1. item = Absent
          BY <3>1 DEF EmptyTable
        <4>2. slot(t) = Absent
          BY <4>1 DEF ResolveIn, Absent
        <4>3. QED
          BY <1>5, <4>2 DEF Absent
      <3>2. CASE t[3][t[1]] # EmptyTable
        BY <1>2, <3>2
      <3>3. QED
        BY <3>1, <3>2
    <2>4. PICK k : /\ StateOK(t[2], k, memo) /\ Leaves(t[2], k, memo)
                   /\ k[u].kind = "table" /\ \A p \in Ids \ {u} : k[p] = t[3][p]
      <3>1. t[3][u].kind = "table" /\ Sets(t, t[3], u) /\ HeapOK(t[3])
        BY <1>2, <1>5
      <3> HIDE DEF u, Sets
      <3>2. QED
        BY <1>4, <2>2, <3>1
    <2> HIDE DEF u
    <2>5. heap[u].kind = "table"
      BY <1>5, <2>3 DEF u
    <2>6. QED
      BY <2>2, <2>3, <2>4, <2>5, TableSteps
  <1>6. CASE free(t) # {} /\ Sets(t, made(t), Min(free(t)))
    <2> DEFINE o == Min(free(t))
               h == [t[3] EXCEPT ![o] = EmptyTable]
               u == t[1]
    <2>1. o \in Ids /\ t[3][o] = NoObject
      <3>1. free(t) \in SUBSET Ids
        OBVIOUS
      <3> HIDE DEF free
      <3>2. o \in free(t)
        BY <1>6, <3>1, MinFree
      <3>3. QED
        BY <3>2 DEF free
    <2> DEFINE b == made(t)
    <2>2. b = Written(h, u, i, Object(o))
      BY DEF Written
    <2> HIDE DEF o, b
    <2>3. Grown(t[3], h) /\ Object(o) \in Existing(h)
      BY <1>2, <2>1, EmptyTableIsNew, GrowsByOne
    <2>4. h[o] = EmptyTable /\ EmptyTable.kind = "table" /\ \A p \in Ids \ {o} : h[p] = t[3][p]
      BY <1>2, <2>1 DEF HeapOK, EmptyTable
    <2>5. o # u /\ h[u].kind = "table"
      BY <1>2, <2>1, <2>4 DEF NoObject
    <2>14. u \in Ids /\ HeapOK(h)
      BY <1>2, <2>3 DEF Grown
    <2>15. \/ t[2] = globals /\ t[3] = heap
          \/ heap[u] = NoObject
      BY <1>2
    <2>16. heap[u] # NoObject => heap[u].kind = "table"
      BY <1>2 DEF Grown
    <2> HIDE DEF h, u
    <2>6. /\ HeapOK(b) /\ Existing(b) = Existing(h) /\ b[u].kind = "table"
          /\ \A p \in Ids \ {u} : b[p] = h[p]
      BY <2>2, <2>3, <2>5, <2>14, SlotWritten
    <2>7. b[o].kind = "table" /\ Existing(t[3]) \subseteq Existing(b)
      BY <2>1, <2>3, <2>4, <2>5, <2>6, GrownFacts
    <2>8. PICK k : /\ StateOK(t[2], k, memo) /\ Leaves(t[2], k, memo)
                   /\ k[o].kind = "table" /\ \A p \in Ids \ {o} : k[p] = b[p]
      BY <1>4, <1>6, <2>1, <2>6, <2>7 DEF o, b
    <2>9. k[u].kind = "table"
      BY <2>5, <2>6, <2>8, <2>14
    <2>10. ASSUME NEW p \in Ids \ {u}, heap[p] # NoObject PROVE k[p] = heap[p]
      <3>1. t[3][p] = heap[p] /\ p # o
        BY <1>2, <2>1, <2>10 DEF Grown
      <3>2. QED
        BY <2>4, <2>6, <2>8, <3>1
    <2>11. QED
      BY <2>8, <2>9, <2>10, <2>14, <2>15, <2>16, TableSteps
  <1>7. QED
    BY <1>1, <1>5, <1>6

LEMMA CallSteps ==
  ASSUME Inv, NEW n \in Names, Call(n)
  PROVE  Inv' /\ Store!Next
  <1>1. CASE memo # Unbound /\ Leaves([globals EXCEPT ![n] = memo], heap, memo)
    <2>1. memo \in Existing(heap)
      BY DEF Inv, StateOK
    <2>2. Inv' /\ Store!Bind(n)
      BY <1>1, <2>1, HeapIsGrown, Binds
    <2>3. QED
      BY <2>2 DEF Store!Next
  <1>2. CASE memo = Unbound
    <2>0. PICK m \in Names : \E r \in ResolveDeep(Value(m)) :
            Leaves([globals EXCEPT ![n] = r[1]], r[2], r[1])
      BY <1>2 DEF Call
    <2>1. PICK r \in ResolveDeep(Value(m)) :
            Leaves([globals EXCEPT ![n] = r[1]], r[2], r[1])
      BY <2>0
    <2>2. Grown(heap, r[2]) /\ r[1] \in Existing(r[2])
      <3>1. {"list", "set"} \subseteq Kinds \ {"none"} /\ Value(m) \in Existing(heap)
        BY HeapIsGrown, EvaluatedExists DEF Kinds
      <3>2. QED
        BY <3>1, CloneIsNew DEF ResolveDeep
    <2>3. Inv' /\ Store!Bind(n)
      BY <1>2, <2>1, <2>2, Binds
    <2>4. QED
      BY <2>3 DEF Store!Next
  <1>3. QED
    BY <1>1, <1>2 DEF Call

\* A fresh session.
Fresh(g, h, m) ==
  /\ g = [n \in Names |-> Unbound]
  /\ h = [o \in Ids |-> NoObject]
  /\ m = Unbound

LEMMA FreshIsOK ==
  ASSUME NEW g, NEW h, NEW m, Fresh(g, h, m)
  PROVE  /\ StateOK(g, h, m)
         /\ [n \in Names |-> Tree(h, g[n])] = [n \in Names |-> Unbound]
         /\ Slots(h) = [o \in Ids |-> << >>]
         /\ Tree(h, m) = Unbound
  <1>1. g \in [Names -> Existing(h)] /\ m \in Existing(h)
    BY ExistingFacts DEF Fresh
  <1>2. << >> \in Seq(Existing(h))
    OBVIOUS
  <1>3. HeapOK(h)
    <2>1. Lists(h) = {}
      BY DEF Fresh, Lists, NoObject
    <2>2. Ends(h, Lists(h))
      BY <2>1 DEF Ends
    <2>3. QED
      BY <1>2, <2>2 DEF Fresh, HeapOK, NoObject, Kinds
  <1>4. Tree(h, Unbound) = Unbound
    BY DEF Tree, Unbound
  <1>5. Slots(h) = [o \in Ids |-> << >>]
    BY DEF Fresh, Slots, NoObject
  <1>6. [n \in Names |-> Tree(h, g[n])] = [n \in Names |-> Unbound]
    BY <1>4 DEF Fresh
  <1>7. QED
    BY <1>1, <1>3, <1>4, <1>5, <1>6 DEF StateOK, Fresh

LEMMA OverflowSteps ==
  ASSUME Inv, Overflow
  PROVE  Inv' /\ Store!Next
  <1>1. Fresh(globals', heap', memo')
    BY DEF Overflow, Fresh
  <1>2. /\ StateOK(globals', heap', memo')
        /\ [n \in Names |-> Tree(heap', globals'[n])] = [n \in Names |-> Unbound]
        /\ Slots(heap') = [o \in Ids |-> << >>]
        /\ Tree(heap', memo') = Unbound
    BY <1>1, FreshIsOK
  <1>3. Store!Restart
    BY <1>2 DEF Store!Restart, Slots
  <1>4. QED
    BY <1>2, <1>3 DEF Inv, Store!Next

LEMMA InitStore == Init => Inv /\ Store!Init
  <1> SUFFICES ASSUME Init PROVE Inv /\ Store!Init
    OBVIOUS
  <1>1. Fresh(globals, heap, memo)
    BY DEF Init, Fresh
  <1>2. /\ StateOK(globals, heap, memo)
        /\ [n \in Names |-> Tree(heap, globals[n])] = [n \in Names |-> Unbound]
        /\ Slots(heap) = [o \in Ids |-> << >>]
        /\ Tree(heap, memo) = Unbound
    BY <1>1, FreshIsOK
  <1>3. QED
    BY <1>2 DEF Inv, Store!Init, Slots

\* One step of the program is one of the store.
LEMMA NextStore == Inv /\ Next => Inv' /\ Store!Next
  <1> SUFFICES ASSUME Inv, Next PROVE Inv' /\ Store!Next
    OBVIOUS
  <1>1. ASSUME NEW n \in Names, Assign(n) PROVE Inv' /\ Store!Next
    BY <1>1, AssignSteps
  <1>2. ASSUME NEW n \in Names, Call(n) PROVE Inv' /\ Store!Next
    BY <1>2, CallSteps
  <1>3. ASSUME NEW n \in Names, NEW m \in Names, NEW i \in 1..MaxLen, AssignElement(n, i, m)
        PROVE  Inv' /\ Store!Next
    BY <1>3, AssignElementSteps
  <1>4. ASSUME NEW n \in Names, NEW m \in Names, NEW i \in 1..MaxLen, AssignSlot(n, i, m)
        PROVE  Inv' /\ Store!Next
    BY <1>4, AssignSlotSteps
  <1>5. ASSUME NEW n \in Names, NEW m \in Names, NEW i \in 1..MaxLen, NEW j \in 1..MaxLen,
               AssignElementInSlot(n, i, j, m)
        PROVE  Inv' /\ Store!Next
    BY <1>5, AssignElementInSlotSteps
  <1>6. ASSUME NEW n \in Names, NEW m \in Names, NEW i \in 1..MaxLen, NEW j \in 1..MaxLen,
               AssignSlotInElement(n, i, j, m)
        PROVE  Inv' /\ Store!Next
    BY <1>6, AssignSlotInElementSteps
  <1>7. ASSUME NEW n \in Names, NEW m \in Names, NEW i \in 1..MaxLen, NEW j \in 1..MaxLen,
               AssignSlotInSlot(n, i, j, m)
        PROVE  Inv' /\ Store!Next
    BY <1>7, AssignSlotInSlotSteps
  <1>8. CASE Overflow
    BY <1>8, OverflowSteps
  <1>9. QED
    BY <1>1, <1>2, <1>3, <1>4, <1>5, <1>6, <1>7, <1>8 DEF Next

LEMMA StutterStore ==
  Inv /\ UNCHANGED vars =>
    /\ Inv'
    /\ UNCHANGED <<[n \in Names |-> Tree(heap, globals[n])], Slots(heap), Tree(heap, memo)>>
  BY DEF Inv, vars, Slots

\* The heap is well formed: whatever a name, an item or the remembered result refers
\* to exists, a table keeps its slots, what is assigned is a value, and no list or set
\* holds itself.
THEOREM HeapIsSound == Spec => []Inv
  <1>1. Init => Inv
    BY InitStore
  <1>2. Inv /\ [Next]_vars => Inv'
    BY NextStore, StutterStore
  <1>3. QED
    BY <1>1, <1>2, PTL DEF Spec

\* No list and no set is part of itself unless a table comes between, whatever is
\* assigned to its elements (tryListElementAssign, deepCopy, resolveRefDeep, rebuild):
\* what walks through a value without entering tables ends.
THEOREM ListsAreTrees == Spec => []ListsEndAtTables
  <1>1. Inv => ListsEndAtTables
    <2> SUFFICES ASSUME Inv, NEW S \in SUBSET Lists(heap), S # {}
                 PROVE  \E o \in S : Referred(Range(heap[o].items)) \cap S = {}
      BY DEF ListsEndAtTables, Lists
    <2>1. PICK o \in S : \A i \in DOMAIN heap[o].items :
            heap[o].items[i][1] = "object" => heap[o].items[i][2] \notin S
      BY DEF Inv, StateOK, HeapOK, Ends
    <2>2. \A v \in Range(heap[o].items) : v[1] = "object" => v[2] \notin S
      BY <2>1 DEF Range
    <2>3. QED
      BY <2>2 DEF Referred
  <1>2. QED
    BY <1>1, HeapIsSound, PTL

\* An assignment shows in one place, for any names, any number of objects and
\* lists and tables of any length.
THEOREM AssignmentsShowOnce == Spec => AssignsOnePlace
  <1>1. Init => Store!Init
    BY InitStore
  <1>2. Inv /\ [Next]_vars =>
          [Store!Next]_<<[n \in Names |-> Tree(heap, globals[n])],
                         [o \in Ids |-> IF heap[o].kind = "table"
                                        THEN [i \in 1..MaxLen |-> Tree(heap, heap[o].items[i])] ELSE << >>],
                         Tree(heap, memo)>>
    BY NextStore, StutterStore DEF Slots
  <1>3. QED
    BY <1>1, <1>2, HeapIsSound, PTL DEF Spec, AssignsOnePlace, Store!Spec
=============================================================================
