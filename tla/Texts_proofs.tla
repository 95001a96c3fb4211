---------------------------- MODULE Texts_proofs ----------------------------
(***************************************************************************)
(* Proofs about the texts the program writes and reads, of any length.     *)
(*                                                                         *)
(* Session: the file is one finished save, with exports only what was      *)
(* loaded, and a read gives back what was saved.                           *)
(* Lexer: the tokens of a line set apart by blanks are the same tokens.    *)
(*                                                                         *)
(* Reading is a recursive function of the places of a text in both; the    *)
(* facts about it are proved by induction over them.                       *)
(***************************************************************************)
EXTENDS Session, Lexer, Induction, SequenceTheorems, TLAPS

-----------------------------------------------------------------------------
(* The inductive invariant *)

Values == {Unbound, Empty, Other} \cup {Symbol(n) : n \in Names} \cup {Proc(n) : n \in Names}
Statement == [name : Names, value : Values, was : Values]

TypeInv ==
  /\ globals \in [Names -> Values]
  /\ exported \in BOOLEAN /\ broken \in BOOLEAN /\ cut \in BOOLEAN
  /\ file \in [text : Seq(Statement), whole : BOOLEAN]
  /\ saving \in Seq(Statement)

\* Every statement of a text has what its value prints as, and a name has one.
Sound(text) ==
  /\ \A i \in 1..Len(text) : text[i].value = Printed(text[i].was)
  /\ \A i, j \in 1..Len(text) : text[i].name = text[j].name => i = j

\* A text that ends in a part of a statement has that statement.
TextInv ==
  /\ Sound(saving) /\ Sound(file.text)
  /\ file.whole \/ file.text # <<>>

\* with has answered only with ComputeRanking there, and nothing but Restart takes
\* that away; a load that ends with it there is whole, or has failed after it.
GuardInv ==
  /\ exported => Loaded
  /\ Loaded => package = "all" \/ broken

IInv == TypeInv /\ TextInv /\ FileIsOneSave /\ GuardInv

-----------------------------------------------------------------------------
(* Values *)

LEMMA Kinds ==
  ASSUME NEW v \in Values
  PROVE  /\ v[1] \in {"unbound", "empty", "other", "name", "proc"}
         /\ v = Unbound => v[1] = "unbound"
         /\ v = Empty => v[1] = "empty"
         /\ v[1] = "other" => v = Other
         /\ v[1] = "name" => v[2] \in Names /\ v = Symbol(v[2])
         /\ v[1] = "proc" => v[2] \in Names /\ v = Proc(v[2])
  <1>1. /\ Unbound[1] = "unbound" /\ Empty[1] = "empty" /\ Other[1] = "other"
        /\ \A n : /\ Symbol(n)[1] = "name" /\ Symbol(n)[2] = n
                  /\ Proc(n)[1] = "proc" /\ Proc(n)[2] = n
    BY DEF Unbound, Empty, Other, Symbol, Proc
  <1>2. \/ v \in {Unbound, Empty, Other}
        \/ \E n \in Names : v = Symbol(n) \/ v = Proc(n)
    BY DEF Values
  <1>3. QED
    BY <1>1, <1>2

LEMMA ValueFacts ==
  /\ Unbound \in Values /\ Empty \in Values /\ Other \in Values
  /\ \A n \in Names : Symbol(n) \in Values /\ Proc(n) \in Values
  /\ Unbound[1] = "unbound" /\ Empty[1] = "empty" /\ Other[1] = "other"
  /\ \A n : /\ Symbol(n)[1] = "name" /\ Symbol(n)[2] = n
            /\ Proc(n)[1] = "proc" /\ Proc(n)[2] = n
  <1>1. /\ Unbound[1] = "unbound" /\ Empty[1] = "empty" /\ Other[1] = "other"
        /\ \A n : /\ Symbol(n)[1] = "name" /\ Symbol(n)[2] = n
                  /\ Proc(n)[1] = "proc" /\ Proc(n)[2] = n
    BY DEF Unbound, Empty, Other, Symbol, Proc
  <1>2. /\ Unbound \in Values /\ Empty \in Values /\ Other \in Values
        /\ \A n \in Names : Symbol(n) \in Values /\ Proc(n) \in Values
    BY DEF Values
  <1>3. QED
    BY <1>1, <1>2

LEMMA ResolvedType ==
  ASSUME NEW g \in [Names -> Values], NEW v \in Values
  PROVE  Resolved(g, v) \in Values
  <1>1. v[1] = "name" => v[2] \in Names
    BY Kinds
  <1>2. QED
    BY <1>1 DEF Resolved

LEMMA ValueInType ==
  ASSUME NEW g \in [Names -> Values], NEW n \in Names
  PROVE  ValueIn(g, n) \in Values
  BY ValueFacts DEF ValueIn

LEMMA PrintedType ==
  ASSUME NEW v \in Values
  PROVE  Printed(v) \in Values
  <1>1. v[1] = "proc" => v[2] \in Names
    BY Kinds
  <1>2. QED
    BY <1>1, ValueFacts DEF Printed

-----------------------------------------------------------------------------
(* The statements of a file *)

Session0(g) == [globals |-> g, ok |-> TRUE]
SessionState == [globals : [Names -> Values], ok : BOOLEAN]

\* The equations of Run: the session after i statements.
After(text, g, n, after) ==
  after = [i \in 0..n |-> IF i = 0 THEN [globals |-> g, ok |-> TRUE]
                          ELSE Step(after[i - 1], text[i])]

LEMMA AfterExists ==
  ASSUME NEW text, NEW g, NEW n \in Nat
  PROVE  \E after : After(text, g, n, after)
  <1> DEFINE A == {k \in Nat : \E after : After(text, g, k, after)}
  <1>1. 0 \in A
    <2> DEFINE after == [i \in 0..0 |-> [globals |-> g, ok |-> TRUE]]
    <2>1. [i \in 0..0 |-> IF i = 0 THEN [globals |-> g, ok |-> TRUE]
                          ELSE Step(after[i - 1], text[i])] = after
      OBVIOUS
    <2> HIDE DEF after
    <2>2. After(text, g, 0, after)
      BY <2>1 DEF After
    <2>3. QED
      BY <2>2
  <1>2. ASSUME NEW k \in Nat, k \in A PROVE k + 1 \in A
    <2>1. PICK old : After(text, g, k, old)
      BY <1>2
    <2> DEFINE new == [i \in 0..(k + 1) |-> IF i = 0 THEN [globals |-> g, ok |-> TRUE]
                                            ELSE Step(old[i - 1], text[i])]
    <2>2. \A i \in 0..k : i \in 0..(k + 1) /\ new[i] = old[i]
      <3>1. \A i \in 0..k : old[i] = IF i = 0 THEN [globals |-> g, ok |-> TRUE]
                                     ELSE Step(old[i - 1], text[i])
        BY <2>1 DEF After
      <3>2. \A i \in 0..k : i \in 0..(k + 1)
        OBVIOUS
      <3>3. QED
        BY <3>1, <3>2
    <2>3. \A i \in 0..(k + 1) : i # 0 => i - 1 \in 0..k
      OBVIOUS
    <2>4. [i \in 0..(k + 1) |-> IF i = 0 THEN [globals |-> g, ok |-> TRUE]
                                ELSE Step(new[i - 1], text[i])] = new
      BY <2>2, <2>3
    <2> HIDE DEF new
    <2>5. After(text, g, k + 1, new)
      BY <2>4 DEF After
    <2>6. QED
      BY <2>5
  <1>3. n \in A
    <2> HIDE DEF A
    <2> QED
      BY <1>1, <1>2, SetInduction
  <1>4. QED
    BY <1>3

\* One statement: it fails, or gives its name a value; Guard it leaves alone.
LEMMA StepFacts ==
  ASSUME NEW s \in SessionState, NEW stmt \in Statement
  PROVE  /\ Step(s, stmt) \in SessionState
         /\ Step(s, stmt).globals[Guard] = s.globals[Guard]
         /\ Step(s, stmt).ok => s.ok
         /\ \A m \in Names : m # stmt.name => Step(s, stmt).globals[m] = s.globals[m]
         /\ Step(s, stmt).ok =>
              Step(s, stmt).globals[stmt.name] =
                Resolved(s.globals, IF stmt.value[1] = "name"
                                      THEN ValueIn(s.globals, stmt.value[2]) ELSE stmt.value)
  <1> DEFINE v == IF stmt.value[1] = "name" THEN ValueIn(s.globals, stmt.value[2])
                  ELSE stmt.value
             r == Resolved(s.globals, v)
  <1>1. stmt.name \in Names /\ stmt.value \in Values /\ Guard \in Names
    BY DEF Statement, Names
  <1>2. s.globals \in [Names -> Values] /\ s.ok \in BOOLEAN
    BY DEF SessionState
  <1>3. v \in Values
    BY <1>1, <1>2, Kinds, ValueInType
  <1>4. r \in Values
    <2> HIDE DEF v
    <2> QED
      BY <1>2, <1>3, ResolvedType
  <1>5. CASE ~s.ok \/ stmt.name = Guard
    <2>1. Step(s, stmt) = [s EXCEPT !.ok = FALSE]
      BY <1>5 DEF Step
    <2>2. Step(s, stmt) \in SessionState /\ ~Step(s, stmt).ok
          /\ Step(s, stmt).globals = s.globals
      BY <2>1 DEF SessionState
    <2>3. QED
      BY <2>2
  <1>6. CASE s.ok /\ stmt.name # Guard
    <2>1. Step(s, stmt) = [s EXCEPT !.globals[stmt.name] = r]
      BY <1>6 DEF Step
    <2> HIDE DEF r
    <2>2. /\ Step(s, stmt).ok = s.ok
          /\ Step(s, stmt).globals = [s.globals EXCEPT ![stmt.name] = r]
          /\ Step(s, stmt) \in SessionState
      BY <1>1, <1>2, <1>4, <2>1 DEF SessionState
    <2>3. /\ Step(s, stmt).globals[stmt.name] = r
          /\ \A m \in Names : m # stmt.name => Step(s, stmt).globals[m] = s.globals[m]
      BY <1>1, <1>2, <2>2
    <2>4. QED
      BY <1>1, <1>6, <2>2, <2>3 DEF r, v
  <1>7. QED
    BY <1>2, <1>5, <1>6

\* The sessions of a read, one per statement done.
Sessions(after, text, g) ==
  /\ after[0] = [globals |-> g, ok |-> TRUE]
  /\ \A i \in 1..Len(text) : after[i] = Step(after[i - 1], text[i])
  /\ \A i \in 0..Len(text) :
       after[i] \in SessionState /\ after[i].globals[Guard] = g[Guard]

LEMMA SessionsOfRun ==
  ASSUME globals \in [Names -> Values], NEW text \in Seq(Statement)
  PROVE  \E after : Sessions(after, text, globals) /\ Run(text) = after[Len(text)]
  <1>0. Len(text) \in Nat /\ \A i \in 1..Len(text) : text[i] \in Statement
    BY LenProperties, ElementOfSeq
  <1>1. PICK after : After(text, globals, Len(text), after) /\ Run(text) = after[Len(text)]
    <2>1. \E after : After(text, globals, Len(text), after)
      BY <1>0, AfterExists
    <2>2. QED
      BY <2>1 DEF After, Run
  <1>2. after[0] = [globals |-> globals, ok |-> TRUE]
    <2>1. 0 \in 0..Len(text)
      BY <1>0
    <2>2. QED
      BY <1>1, <2>1 DEF After
  <1>3. \A i \in 1..Len(text) : i - 1 \in 0..Len(text) /\ after[i] = Step(after[i - 1], text[i])
    <2>1. \A i \in 1..Len(text) : i \in 0..Len(text) /\ i # 0 /\ i - 1 \in 0..Len(text)
      BY <1>0
    <2>2. QED
      BY <1>1, <2>1 DEF After
  <1> DEFINE A == {k \in Nat : k <= Len(text) =>
                     after[k] \in SessionState /\ after[k].globals[Guard] = globals[Guard]}
  <1>4. 0 \in A
    <2>1. after[0].globals = globals /\ after[0].ok = TRUE /\ after[0] \in SessionState
      BY <1>2 DEF SessionState
    <2>2. QED
      BY <2>1
  <1>5. ASSUME NEW k \in Nat, k \in A PROVE k + 1 \in A
    <2> SUFFICES ASSUME NEW j, j = k + 1, j <= Len(text)
                 PROVE  after[j] \in SessionState /\ after[j].globals[Guard] = globals[Guard]
      OBVIOUS
    <2>1. j \in 1..Len(text) /\ j - 1 = k /\ k <= Len(text)
      BY <1>0
    <2>2. after[j] = Step(after[k], text[j]) /\ text[j] \in Statement
      BY <1>0, <1>3, <2>1
    <2>3. after[k] \in SessionState /\ after[k].globals[Guard] = globals[Guard]
      BY <1>5, <2>1
    <2>4. QED
      BY <2>2, <2>3, StepFacts
  <1>6. Nat \subseteq A
    <2> HIDE DEF A
    <2> QED
      BY <1>4, <1>5, SetInduction
  <1>7. \A i \in 0..Len(text) : i \in Nat /\ i <= Len(text)
    BY <1>0
  <1>8. QED
    BY <1>1, <1>2, <1>3, <1>6, <1>7 DEF Sessions

\* A name keeps its value over the statements that do not name it.
LEMMA UnnamedIsKept ==
  ASSUME NEW text \in Seq(Statement), NEW g, NEW after, Sessions(after, text, g),
         NEW m \in Names, NEW i \in 0..Len(text), NEW k \in i..Len(text),
         \A j \in (i + 1)..k : text[j].name # m
  PROVE  after[k].globals[m] = after[i].globals[m]
  <1>0. Len(text) \in Nat /\ i \in Nat /\ k \in Nat /\ i <= k /\ k <= Len(text)
    BY LenProperties
  <1> DEFINE A == {d \in Nat : i + d <= k => after[i + d].globals[m] = after[i].globals[m]}
  <1>1. 0 \in A
    BY <1>0
  <1>2. ASSUME NEW d \in Nat, d \in A PROVE d + 1 \in A
    <2> SUFFICES ASSUME NEW j, j = i + d + 1, j <= k
                 PROVE  after[j].globals[m] = after[i].globals[m]
      BY <1>0
    <2>1. j \in 1..Len(text) /\ j - 1 = i + d /\ j - 1 \in 0..Len(text) /\ j \in (i + 1)..k
      BY <1>0
    <2>2. after[j] = Step(after[j - 1], text[j]) /\ after[j - 1] \in SessionState
      BY <2>1 DEF Sessions
    <2>3. text[j] \in Statement /\ text[j].name # m
      BY <2>1, ElementOfSeq
    <2>4. after[j].globals[m] = after[j - 1].globals[m]
      BY <2>2, <2>3, StepFacts
    <2>5. after[j - 1].globals[m] = after[i].globals[m]
      BY <1>0, <1>2, <2>1
    <2>6. QED
      BY <2>4, <2>5
  <1>3. k - i \in A
    <2>1. k - i \in Nat
      BY <1>0
    <2> HIDE DEF A
    <2>2. QED
      BY <1>1, <1>2, <2>1, SetInduction
  <1>4. i + (k - i) = k
    BY <1>0
  <1>5. QED
    BY <1>0, <1>3, <1>4

\* A read that has not failed by the end has not failed before.
LEMMA OkBefore ==
  ASSUME NEW text \in Seq(Statement), NEW g, NEW after, Sessions(after, text, g),
         NEW i \in 0..Len(text), after[Len(text)].ok
  PROVE  after[i].ok
  <1>0. Len(text) \in Nat /\ i \in Nat /\ i <= Len(text)
    BY LenProperties
  <1> DEFINE A == {d \in Nat : i + d <= Len(text) => (after[i + d].ok => after[i].ok)}
  <1>1. 0 \in A
    BY <1>0
  <1>2. ASSUME NEW d \in Nat, d \in A PROVE d + 1 \in A
    <2> SUFFICES ASSUME NEW j, j = i + d + 1, j <= Len(text), after[j].ok
                 PROVE  after[i].ok
      BY <1>0
    <2>1. j \in 1..Len(text) /\ j - 1 = i + d /\ j - 1 \in 0..Len(text)
      BY <1>0
    <2>2. after[j] = Step(after[j - 1], text[j]) /\ after[j - 1] \in SessionState
      BY <2>1 DEF Sessions
    <2>3. text[j] \in Statement
      BY <2>1, ElementOfSeq
    <2>4. after[j - 1].ok
      BY <2>2, <2>3, StepFacts
    <2>5. QED
      BY <1>0, <1>2, <2>1, <2>4
  <1>3. Len(text) - i \in A
    <2>1. Len(text) - i \in Nat
      BY <1>0
    <2> HIDE DEF A
    <2>2. QED
      BY <1>1, <1>2, <2>1, SetInduction
  <1>4. i + (Len(text) - i) = Len(text)
    BY <1>0
  <1>5. QED
    BY <1>0, <1>3, <1>4

\* A symbol that is free in the session, and stays free in the statements before
\* the i-th, still is when that one runs.
LEMMA StaysFree ==
  ASSUME NEW text \in Seq(Statement), NEW g, NEW after, Sessions(after, text, g),
         NEW m \in Names, NEW i \in 1..Len(text), g[m] \in {Unbound, Symbol(m)},
         \A j \in 1..(i - 1) : text[j].name = m => text[j].value = Symbol(m),
         after[Len(text)].ok
  PROVE  after[i - 1].globals[m] \in {Unbound, Symbol(m)}
  <1>0. Len(text) \in Nat /\ i \in Nat /\ i <= Len(text) /\ i - 1 \in Nat
    BY LenProperties
  <1> DEFINE A == {k \in Nat : k <= i - 1 => after[k].globals[m] \in {Unbound, Symbol(m)}}
  <1>1. 0 \in A
    BY DEF Sessions
  <1>2. ASSUME NEW k \in Nat, k \in A PROVE k + 1 \in A
    <2> SUFFICES ASSUME NEW j, j = k + 1, j <= i - 1
                 PROVE  after[j].globals[m] \in {Unbound, Symbol(m)}
      BY <1>0
    <2>1. /\ j \in 1..Len(text) /\ j \in 0..Len(text) /\ j \in 1..(i - 1)
          /\ j - 1 = k /\ k \in 0..Len(text)
      BY <1>0
    <2>2. after[j] = Step(after[k], text[j]) /\ after[k] \in SessionState
      BY <2>1 DEF Sessions
    <2>3. text[j] \in Statement /\ after[k].globals[m] \in {Unbound, Symbol(m)}
      BY <1>0, <1>2, <2>1, ElementOfSeq
    <2>4. after[j].ok
      BY <2>1, OkBefore
    <2>5. CASE text[j].name # m
      <3>1. Step(after[k], text[j]).globals[m] = after[k].globals[m]
        BY <2>2, <2>3, <2>5, StepFacts
      <3>2. QED
        BY <2>2, <2>3, <3>1
    <2>6. CASE text[j].name = m
      <3>1. text[j].value = Symbol(m) /\ Symbol(m)[1] = "name" /\ Symbol(m)[2] = m
        BY <2>1, <2>6, ValueFacts
      <3>2. after[j].globals[m] = Resolved(after[k].globals, ValueIn(after[k].globals, m))
        <4> DEFINE e == Step(after[k], text[j])
                   w == IF text[j].value[1] = "name"
                          THEN ValueIn(after[k].globals, text[j].value[2]) ELSE text[j].value
        <4>1. e.ok => e.globals[text[j].name] = Resolved(after[k].globals, w)
          BY <2>2, <2>3, StepFacts
        <4>2. w = ValueIn(after[k].globals, m)
          BY <3>1
        <4>3. e = after[j]
          BY <2>2
        <4> HIDE DEF e, w
        <4>4. QED
          BY <2>4, <2>6, <4>1, <4>2, <4>3
      <3>3. ValueIn(after[k].globals, m) = Symbol(m)
        BY <2>3 DEF ValueIn
      <3>4. after[k].globals[m][1] # "proc"
        BY <2>3, ValueFacts
      <3>5. QED
        BY <3>1, <3>2, <3>3, <3>4 DEF Resolved
    <2>7. QED
      BY <2>5, <2>6
  <1>3. i - 1 \in A
    <2> HIDE DEF A
    <2> QED
      BY <1>0, <1>1, <1>2, SetInduction
  <1>4. QED
    BY <1>0, <1>3

-----------------------------------------------------------------------------
(* What a read gives back *)

\* The free symbol, and the durable statement, of a text read into a session g.
FreeIn(text, g, m, i) ==
  /\ g[m] \in {Unbound, Symbol(m)}
  /\ \A j \in 1..(i - 1) : text[j].name = m => text[j].value = Symbol(m)
DurableIn(text, g, i) ==
  LET v == text[i].was
  IN  /\ v[1] \in {"name", "other"}
      /\ v[1] = "name" => FreeIn(text, g, v[2], i)

LEMMA RunRestores ==
  ASSUME globals \in [Names -> Values], NEW text \in Seq(Statement), Sound(text),
         Run(text).ok, NEW i \in 1..Len(text), DurableIn(text, globals, i)
  PROVE  Run(text).globals[text[i].name] = text[i].was
  <1>0. Len(text) \in Nat /\ i \in 0..Len(text) /\ i - 1 \in 0..Len(text)
        /\ Len(text) \in i..Len(text)
    BY LenProperties
  <1>1. PICK after : Sessions(after, text, globals) /\ Run(text) = after[Len(text)]
    BY SessionsOfRun
  <1> DEFINE v == text[i].was
             n == text[i].name
             before == after[i - 1].globals
  <1>2. text[i] \in Statement /\ v \in Values /\ n \in Names
    <2>1. text[i] \in Statement
      BY ElementOfSeq
    <2>2. QED
      BY <2>1 DEF Statement
  <1>3. text[i].value = v
    <2>1. text[i].value = Printed(v) /\ v[1] # "proc"
      BY DEF Sound, DurableIn
    <2>2. QED
      BY <2>1 DEF Printed
  <1>4. after[i].ok
    BY <1>0, <1>1, OkBefore
  <1>5. after[i].globals[n] =
          Resolved(before, IF v[1] = "name" THEN ValueIn(before, v[2]) ELSE v)
    <2>1. after[i] = Step(after[i - 1], text[i]) /\ after[i - 1] \in SessionState
      BY <1>0, <1>1 DEF Sessions
    <2>2. QED
      <3> DEFINE e == Step(after[i - 1], text[i])
                 w == IF text[i].value[1] = "name"
                        THEN ValueIn(before, text[i].value[2]) ELSE text[i].value
      <3>1. e.ok => e.globals[text[i].name] = Resolved(before, w)
        BY <1>2, <2>1, StepFacts
      <3>2. w = IF v[1] = "name" THEN ValueIn(before, v[2]) ELSE v
        BY <1>3
      <3>3. e = after[i]
        BY <2>1
      <3> HIDE DEF e, w, before
      <3>4. QED
        BY <1>4, <3>1, <3>2, <3>3
  <1>6. after[i].globals[n] = v
    <2>1. CASE v[1] = "other"
      BY <1>5, <2>1 DEF Resolved
    <2>2. CASE v[1] = "name"
      <3>1. v[2] \in Names /\ v = Symbol(v[2]) /\ FreeIn(text, globals, v[2], i)
        BY <1>2, <2>2, Kinds DEF DurableIn
      <3>2. before[v[2]] \in {Unbound, Symbol(v[2])}
        <4> DEFINE m == v[2]
        <4>1. m \in Names /\ FreeIn(text, globals, m, i)
          BY <3>1
        <4> HIDE DEF m
        <4>2. after[i - 1].globals[m] \in {Unbound, Symbol(m)}
          BY <1>1, <4>1, StaysFree DEF FreeIn
        <4>3. QED
          BY <4>2 DEF m
      <3>3. ValueIn(before, v[2]) = v
        BY <3>1, <3>2 DEF ValueIn
      <3>4. before[v[2]][1] # "proc"
        BY <3>2, ValueFacts
      <3> HIDE DEF before
      <3>5. QED
        BY <1>5, <2>2, <3>3, <3>4 DEF Resolved
    <2>3. QED
      BY <2>1, <2>2 DEF DurableIn
  <1>7. \A j \in (i + 1)..Len(text) : text[j].name # n
    <2>1. \A j \in (i + 1)..Len(text) : j \in 1..Len(text) /\ j # i
      BY <1>0
    <2>2. QED
      BY <2>1 DEF Sound
  <1>8. after[Len(text)].globals[n] = after[i].globals[n]
    <2> HIDE DEF n
    <2> QED
      BY <1>0, <1>1, <1>2, <1>7, UnnamedIsKept
  <1>9. QED
    BY <1>1, <1>6, <1>8

-----------------------------------------------------------------------------
(* Texts *)

LEMMA TextFacts ==
  ASSUME TypeInv, NEW k \in Nat \ {0}, NEW ns \in [1..k -> Names], IsInjective(ns)
  PROVE  Text(ns) \in Seq(Statement) /\ Sound(Text(ns)) /\ Text(ns) # <<>>
  <1> DEFINE t == Text(ns)
  <1>1. \A i \in 1..k : /\ t[i] = [name |-> ns[i], value |-> Printed(globals[ns[i]]),
                                   was |-> globals[ns[i]]]
                        /\ t[i] \in Statement
    <2>1. \A i \in 1..k : ns[i] \in Names /\ globals[ns[i]] \in Values
      BY DEF TypeInv
    <2>2. \A i \in 1..k : t[i] = [name |-> ns[i], value |-> Printed(globals[ns[i]]),
                                  was |-> globals[ns[i]]]
      BY DEF Text
    <2> HIDE DEF t
    <2>3. QED
      BY <2>1, <2>2, PrintedType DEF Statement
  <1>2. t \in [1..k -> Statement]
    <2>1. DOMAIN t = 1..k /\ t = [i \in 1..k |-> t[i]]
      BY DEF Text
    <2> HIDE DEF t
    <2>2. QED
      BY <1>1, <2>1
  <1> HIDE DEF t
  <1>3. t \in Seq(Statement) /\ Len(t) = k
    <2>1. t \in Seq(Statement)
      BY <1>2
    <2>2. Len(t) \in Nat /\ DOMAIN t = 1..Len(t) /\ DOMAIN t = 1..k
      BY <1>2, <2>1, LenProperties
    <2>3. 1..Len(t) = 1..k
      BY <2>2
    <2>4. \A n \in Nat : 1..n = 1..k => n = k
      OBVIOUS
    <2>5. QED
      BY <2>1, <2>2, <2>3, <2>4
  <1>4. Sound(t)
    BY <1>1, <1>3 DEF Sound, IsInjective
  <1>5. t # <<>>
    BY <1>3, EmptySeq
  <1>6. QED
    BY <1>3, <1>4, <1>5 DEF t

LEMMA PrefixFacts ==
  ASSUME NEW t \in Seq(Statement), Sound(t), NEW n \in 0..Len(t)
  PROVE  /\ SubSeq(t, 1, n) \in Seq(Statement) /\ Sound(SubSeq(t, 1, n))
         /\ n > 0 => SubSeq(t, 1, n) # <<>>
  <1>1. Len(t) \in Nat /\ n \in Nat /\ n \in Int /\ n <= Len(t)
    BY LenProperties
  <1>2. \A i \in 1..n : i \in 1..Len(t) /\ t[i] \in Statement
    <2>1. \A i \in 1..n : i \in 1..Len(t)
      BY <1>1
    <2>2. QED
      BY <2>1, ElementOfSeq
  <1> DEFINE p == SubSeq(t, 1, n)
  <1>3. p \in Seq(Statement) /\ Len(p) = n /\ \A i \in 1..n : p[i] = t[i]
    <2>1. /\ p \in Seq(Statement) /\ Len(p) = IF 1 <= n THEN n - 1 + 1 ELSE 0
          /\ \A i \in 1..(n - 1 + 1) : p[i] = t[1 + i - 1]
      BY <1>1, <1>2, SubSeqProperties
    <2> HIDE DEF p
    <2>2. n - 1 + 1 = n /\ (\A i \in 1..n : 1 + i - 1 = i) /\ (n >= 1 \/ n = 0)
      BY <1>1
    <2>3. QED
      BY <2>1, <2>2
  <1> HIDE DEF p
  <1>4. Sound(p)
    BY <1>2, <1>3 DEF Sound
  <1>5. n > 0 => p # <<>>
    BY <1>3, EmptySeq
  <1>6. QED
    BY <1>3, <1>4, <1>5 DEF p

LEMMA ReadingTypes ==
  ASSUME IInv, NEW text \in Readings
  PROVE  text \in Seq(Statement)
  <1> DEFINE t == file.text
  <1>1. t \in Seq(Statement) /\ (file.whole \/ t # <<>>) /\ Sound(t)
    BY DEF IInv, TypeInv, TextInv
  <1>2. CASE text = t
    BY <1>1, <1>2
  <1>3. CASE t # <<>> /\ text # t
    <2>1. text = Front(t) \/ \E v \in {Empty, Other} : text = [t EXCEPT ![Len(t)].value = v]
      BY <1>3 DEF Readings
    <2> HIDE DEF t
    <2>2. Len(t) \in Nat \ {0} /\ Len(t) \in 1..Len(t) /\ DOMAIN t = 1..Len(t)
          /\ t[Len(t)] \in Statement
      <3>1. Len(t) \in Nat \ {0} /\ DOMAIN t = 1..Len(t)
        BY <1>1, <1>3, LenProperties, EmptySeq
      <3>2. Len(t) \in 1..Len(t)
        BY <3>1
      <3>3. QED
        BY <1>1, <3>1, <3>2, ElementOfSeq
    <2>3. Front(t) \in Seq(Statement)
      <3>1. Len(t) - 1 \in 0..Len(t)
        BY <2>2
      <3>2. QED
        BY <1>1, <3>1, PrefixFacts DEF Front
    <2>4. ASSUME NEW v \in Values PROVE [t EXCEPT ![Len(t)].value = v] \in Seq(Statement)
      <3> DEFINE e == [t[Len(t)] EXCEPT !.value = v]
      <3>1. e \in Statement
        BY <2>2 DEF Statement
      <3>2. [t EXCEPT ![Len(t)].value = v] = [t EXCEPT ![Len(t)] = e]
        OBVIOUS
      <3> HIDE DEF e
      <3>3. [t EXCEPT ![Len(t)] = e] \in Seq(Statement)
        BY <1>1, <2>2, <3>1, ExceptSeq
      <3>4. QED
        BY <3>2, <3>3
    <2>5. QED
      BY <2>1, <2>3, <2>4, ValueFacts
  <1>4. QED
    BY <1>1, <1>2, <1>3 DEF Readings

-----------------------------------------------------------------------------
(* The steps keep the invariant *)

\* A save that is cut off leaves a part of a sound text.
LEMMA CutFacts ==
  ASSUME IInv, CutOff
  PROVE  /\ file' \in [text : Seq(Statement), whole : BOOLEAN]
         /\ Sound(file'.text) /\ (file'.whole \/ file'.text # <<>>)
         /\ cut' = TRUE /\ saving' = <<>>
  <1>1. saving \in Seq(Statement) /\ Sound(saving) /\ Len(saving) \in Nat
    BY LenProperties DEF IInv, TypeInv, TextInv
  <1>2. PICK k \in 0..Len(saving), whole \in BOOLEAN :
          /\ k = Len(saving) => whole
          /\ file' = [text |-> SubSeq(saving, 1, IF whole THEN k ELSE k + 1), whole |-> whole]
    BY DEF CutOff
  <1>3. PICK n \in 0..Len(saving) :
          (whole \/ n > 0) /\ file' = [text |-> SubSeq(saving, 1, n), whole |-> whole]
    <2>1. whole => k \in 0..Len(saving)
      OBVIOUS
    <2>2. ~whole => k + 1 \in 0..Len(saving) /\ k + 1 > 0
      BY <1>1, <1>2
    <2>3. QED
      BY <1>2, <2>1, <2>2
  <1>4. /\ SubSeq(saving, 1, n) \in Seq(Statement) /\ Sound(SubSeq(saving, 1, n))
        /\ n > 0 => SubSeq(saving, 1, n) # <<>>
    BY <1>1, PrefixFacts
  <1>5. file'.text = SubSeq(saving, 1, n) /\ file'.whole = whole
    BY <1>3
  <1>6. cut' = TRUE /\ saving' = <<>>
    BY DEF CutOff
  <1>7. QED
    BY <1>3, <1>4, <1>5, <1>6

LEMMA EmptyIsSound == <<>> \in Seq(Statement) /\ Sound(<<>>)
  <1>1. <<>> \in Seq(Statement) /\ Len(<<>>) = 0
    BY EmptySeq
  <1>2. 1..0 = {}
    OBVIOUS
  <1>3. QED
    BY <1>1, <1>2 DEF Sound

LEMMA AssignStep ==
  ASSUME IInv, NEW n \in Names, Assign(n)
  PROVE  IInv'
  <1>1. globals \in [Names -> Values] /\ Guard \in Names
    BY DEF IInv, TypeInv, Names
  <1>2. Assignable(n) \subseteq Values
    <2>1. \A m \in Names : /\ Resolved(globals, Symbol(m)) \in Values
                           /\ Resolved(globals, ValueIn(globals, m)) \in Values
      BY <1>1, ValueFacts, ValueInType, ResolvedType
    <2>2. QED
      BY <2>1, ValueFacts DEF Assignable
  <1>3. /\ globals' \in [Names -> Values] /\ (n # Guard => globals'[Guard] = globals[Guard])
        /\ broken' = (broken \/ n = Guard) /\ UNCHANGED <<disk, package, exported>>
    BY <1>1, <1>2 DEF Assign
  <1>4. broken' \in BOOLEAN
    BY <1>3 DEF IInv, TypeInv
  <1>5. TypeInv' /\ TextInv' /\ FileIsOneSave'
    BY <1>3, <1>4 DEF IInv, TypeInv, TextInv, FileIsOneSave, Idle, disk
  <1>6. GuardInv'
    <2>1. CASE n # Guard
      BY <1>3, <2>1 DEF IInv, GuardInv, Loaded
    <2>2. CASE n = Guard
      <3>1. globals'[Guard] = Other /\ Other # Unbound
        BY <1>1, <2>2, ValueFacts DEF Assign, Assignable
      <3>2. QED
        BY <1>3, <2>2, <3>1 DEF GuardInv, Loaded
    <2>3. QED
      BY <2>1, <2>2
  <1>7. QED
    BY <1>5, <1>6 DEF IInv

\* A step that leaves the session alone keeps what it says about Guard.
LEMMA SessionKept ==
  ASSUME IInv, UNCHANGED <<globals, loading>>
  PROVE  GuardInv' /\ globals' \in [Names -> Values] /\ exported' \in BOOLEAN /\ broken' \in BOOLEAN
  BY DEF IInv, GuardInv, TypeInv, Loaded, loading

LEMMA SaveStep ==
  ASSUME IInv, Save \/ SaveEnds \/ SaveFails
  PROVE  IInv'
  <1>1. UNCHANGED <<globals, loading>>
    BY DEF Save, SaveBegins, SaveRefuses, SaveEnds, SaveFails
  <1>2. ASSUME NEW k \in 1..MaxSaved, NEW ns \in [1..k -> Names], IsInjective(ns), SaveBegins(ns)
        PROVE  IInv'
    <2>1. k \in Nat \ {0}
      BY SessionAssumption
    <2>2. Text(ns) \in Seq(Statement) /\ Sound(Text(ns)) /\ Text(ns) # <<>>
      BY <1>2, <2>1, TextFacts DEF IInv
    <2>3. saving' = Text(ns) /\ file' = [text |-> <<>>, whole |-> TRUE] /\ cut' = cut
      BY <1>2 DEF SaveBegins
    <2>4. TypeInv' /\ TextInv'
      BY <1>1, <2>2, <2>3, SessionKept, EmptyIsSound DEF IInv, TypeInv, TextInv
    <2>5. FileIsOneSave'
      BY <2>2, <2>3 DEF FileIsOneSave, Idle
    <2>6. QED
      BY <1>1, <2>4, <2>5, SessionKept DEF IInv
  <1>3. ASSUME NEW ns, SaveRefuses(ns) PROVE IInv'
    <2>1. UNCHANGED <<file, saving, saved, cut>>
      BY <1>3 DEF SaveRefuses, Refused
    <2>2. QED
      BY <1>1, <2>1, SessionKept DEF IInv, TypeInv, TextInv, FileIsOneSave, Idle
  <1>4. CASE SaveEnds
    <2>1. /\ file' = [text |-> saving, whole |-> TRUE] /\ saved' = saving
          /\ saving' = <<>> /\ cut' = FALSE
      BY <1>4 DEF SaveEnds
    <2>2. TypeInv' /\ TextInv'
      BY <1>1, <2>1, SessionKept, EmptyIsSound DEF IInv, TypeInv, TextInv
    <2>3. FileIsOneSave'
      BY <2>1 DEF FileIsOneSave
    <2>4. QED
      BY <1>1, <2>2, <2>3, SessionKept DEF IInv
  <1>5. CASE SaveFails
    <2>1. CutOff
      BY <1>5 DEF SaveFails
    <2>2. TypeInv' /\ TextInv' /\ FileIsOneSave'
      BY <1>1, <2>1, CutFacts, SessionKept, EmptyIsSound
         DEF IInv, TypeInv, TextInv, FileIsOneSave
    <2>3. QED
      BY <1>1, <2>2, SessionKept DEF IInv
  <1>6. QED
    BY <1>2, <1>3, <1>4, <1>5 DEF Save

LEMMA ReadStep ==
  ASSUME IInv, NEW ok \in BOOLEAN, ReadEnds(ok)
  PROVE  IInv'
  <1>1. UNCHANGED <<loading, disk>>
    BY DEF ReadEnds
  <1>2. globals \in [Names -> Values] /\ Guard \in Names
    BY DEF IInv, TypeInv, Names
  <1>3. PICK text \in Readings :
          globals' = IF Parses(text) THEN Run(text).globals ELSE globals
    BY DEF ReadEnds
  <1>4. Run(text).globals \in [Names -> Values] /\ Run(text).globals[Guard] = globals[Guard]
    <2>1. text \in Seq(Statement)
      BY ReadingTypes
    <2>2. PICK after : Sessions(after, text, globals) /\ Run(text) = after[Len(text)]
      BY <1>2, <2>1, SessionsOfRun
    <2>3. Len(text) \in 0..Len(text)
      BY <2>1, LenProperties
    <2>4. after[Len(text)] \in SessionState /\ after[Len(text)].globals[Guard] = globals[Guard]
      BY <2>2, <2>3 DEF Sessions
    <2>5. QED
      BY <2>2, <2>4 DEF SessionState
  <1>5. globals' \in [Names -> Values] /\ globals'[Guard] = globals[Guard]
    BY <1>2, <1>3, <1>4
  <1>6. QED
    BY <1>1, <1>5
       DEF IInv, TypeInv, TextInv, FileIsOneSave, GuardInv, Idle, Loaded, loading, disk

LEMMA WithStep ==
  ASSUME IInv, With
  PROVE  IInv'
  <1>1. /\ globals \in [Names -> Values] /\ Guard \in Names /\ exported \in BOOLEAN
        /\ broken \in BOOLEAN /\ Proc(Guard) \in Values /\ Proc(Guard) # Unbound
    <2>1. Guard \in Names
      BY DEF Names
    <2>2. Proc(Guard) \in Values /\ Proc(Guard) # Unbound
      BY <2>1, ValueFacts
    <2>3. QED
      BY <2>1, <2>2 DEF IInv, TypeInv
  <1>2. UNCHANGED disk
    BY DEF With
  <1>3. CASE Load /\ exported' = TRUE
    BY <1>1, <1>2, <1>3
       DEF IInv, TypeInv, TextInv, FileIsOneSave, GuardInv, Idle, Loaded, disk, Load
  <1>4. CASE Loaded /\ UNCHANGED <<globals, package, broken>> /\ exported' = TRUE
    BY <1>1, <1>2, <1>4
       DEF IInv, TypeInv, TextInv, FileIsOneSave, GuardInv, Idle, Loaded, disk
  <1>5. CASE ~Loaded /\ LoadFails /\ UNCHANGED exported
    <2>1. CASE UNCHANGED <<globals, broken>>
      BY <1>1, <1>2, <1>5, <2>1
         DEF IInv, TypeInv, TextInv, FileIsOneSave, GuardInv, Idle, Loaded, disk
    <2>2. CASE globals' = [globals EXCEPT ![Guard] = Proc(Guard)] /\ broken' = TRUE
      BY <1>1, <1>2, <1>5, <2>2
         DEF IInv, TypeInv, TextInv, FileIsOneSave, GuardInv, Idle, Loaded, disk
    <2>3. QED
      BY <1>5, <2>1, <2>2 DEF LoadFails
  <1>6. QED
    BY <1>3, <1>4, <1>5 DEF With

LEMMA RestartStep ==
  ASSUME IInv, Restart
  PROVE  IInv'
  <1>1. /\ globals' = [n \in Names |-> Unbound] /\ exported' = FALSE /\ broken' = FALSE
        /\ Guard \in Names
    BY DEF Restart, Names
  <1>2. globals' \in [Names -> Values] /\ globals'[Guard] = Unbound
    BY <1>1, ValueFacts
  <1>3. CASE Idle
    <2>1. UNCHANGED disk
      BY <1>3 DEF Restart
    <2>2. QED
      BY <1>1, <1>2, <2>1
         DEF IInv, TypeInv, TextInv, FileIsOneSave, GuardInv, Idle, Loaded, disk
  <1>4. CASE ~Idle
    <2>1. CutOff
      BY <1>4 DEF Restart
    <2>2. QED
      BY <1>1, <1>2, <2>1, CutFacts, EmptyIsSound
         DEF IInv, TypeInv, TextInv, FileIsOneSave, GuardInv, Loaded
  <1>5. QED
    BY <1>3, <1>4

LEMMA InitIsSound == Init => IInv
  <1> SUFFICES ASSUME Init PROVE IInv
    OBVIOUS
  <1>1. globals \in [Names -> Values] /\ globals[Guard] = Unbound
    BY ValueFacts DEF Init, Names
  <1>2. QED
    BY <1>1, EmptyIsSound
       DEF Init, IInv, TypeInv, TextInv, FileIsOneSave, GuardInv, Loaded

LEMMA NextIsSound == IInv /\ [Next]_vars => IInv'
  <1> SUFFICES ASSUME IInv, [Next]_vars PROVE IInv'
    OBVIOUS
  <1>1. CASE UNCHANGED vars
    BY <1>1 DEF vars, IInv, TypeInv, TextInv, FileIsOneSave, GuardInv, Idle, Loaded
  <1>2. QED
    BY <1>1, AssignStep, SaveStep, ReadStep, WithStep, RestartStep DEF Next

\* The session, its file and its package are what save, read and with make them:
\* every text, also a part of one, has each name once, with what its value prints as.
THEOREM SessionIsSound == Spec => []IInv
  <1>1. QED
    BY InitIsSound, NextIsSound, PTL DEF Spec

-----------------------------------------------------------------------------
(* The properties *)

\* Unless a save was cut off, the file is one finished save as a whole.
THEOREM FileHoldsOneSave == Spec => []FileIsOneSave
  <1>1. IInv => FileIsOneSave
    BY DEF IInv
  <1>2. QED
    BY <1>1, SessionIsSound, PTL

\* with has answered without the whole package only after a load that failed behind
\* ComputeRanking, or with that name the program's.
THEOREM WithLoadsThePackage == Spec => []ExportedMeansLoaded
  <1>1. IInv => ExportedMeansLoaded
    BY DEF IInv, GuardInv, ExportedMeansLoaded
  <1>2. QED
    BY <1>1, SessionIsSound, PTL

\* A read that answers has given every durable name its saved value.
THEOREM ReadsGiveBack == Spec => ReadRestores
  <1>1. ASSUME IInv, ReadEnds(TRUE), ~cut, NEW i \in DOMAIN file.text, Durable(i)
        PROVE  globals'[file.text[i].name] = file.text[i].was
    <2> DEFINE t == file.text
    <2>1. globals \in [Names -> Values] /\ t \in Seq(Statement) /\ Sound(t) /\ Readings = {t}
      BY <1>1 DEF IInv, TypeInv, TextInv, FileIsOneSave, ReadEnds, Readings
    <2>2. Run(t).ok /\ globals' = Run(t).globals
      BY <1>1, <2>1 DEF ReadEnds
    <2>3. DurableIn(t, globals, i)
      BY <1>1 DEF Durable, Free, DurableIn, FreeIn
    <2>4. i \in 1..Len(t)
      BY <1>1, <2>1, LenProperties
    <2> HIDE DEF t
    <2>5. Run(t).globals[t[i].name] = t[i].was
      BY <2>1, <2>2, <2>3, <2>4, RunRestores
    <2>6. QED
      BY <2>2, <2>5 DEF t
  <1>2. IInv /\ [Next]_vars =>
          [ReadEnds(TRUE) /\ ~cut =>
             \A i \in DOMAIN file.text :
               Durable(i) => globals'[file.text[i].name] = file.text[i].was]_vars
    BY <1>1
  <1>3. QED
    BY <1>2, SessionIsSound, PTL DEF Spec, ReadRestores

-----------------------------------------------------------------------------
(* Runs *)

LEMMA PastRunIs ==
  ASSUME NEW s, Len(s) \in Nat, NEW i \in 1..(Len(s) + 1), NEW run, Len(s) + 1 \notin run
  PROVE  /\ PastRun(s, i, run) \in i..(Len(s) + 1)
         /\ PastRun(s, i, run) \notin run
         /\ \A k \in i..(PastRun(s, i, run) - 1) : k \in run
  <1> DEFINE S == {k \in i..(Len(s) + 1) : k \notin run}
  <1>1. S \in SUBSET Nat /\ Len(s) + 1 \in S
    OBVIOUS
  <1>2. \E k \in S : \A j \in S : k <= j
    <2> HIDE DEF S
    <2> QED
      BY <1>1, LeastNatural
  <1>3. Min(S) \in S /\ \A j \in S : Min(S) <= j
    <2> HIDE DEF S
    <2> QED
      BY <1>2 DEF Min
  <1>4. PastRun(s, i, run) = Min(S)
    BY DEF PastRun
  <1> DEFINE e == Min(S)
  <1> HIDE DEF e
  <1>5. e \in S /\ \A j \in S : e <= j
    BY <1>3 DEF e
  <1>6. \A k \in i..(e - 1) : k \in run
    <2> SUFFICES ASSUME NEW k \in i..(e - 1), k \notin run PROVE FALSE
      OBVIOUS
    <2>1. k \in S
      BY <1>5
    <2>2. QED
      BY <1>5, <2>1
  <1>7. QED
    BY <1>4, <1>5, <1>6 DEF e

LEMMA PastRunAt ==
  ASSUME NEW s, Len(s) \in Nat, NEW i \in 1..(Len(s) + 1), NEW run, Len(s) + 1 \notin run,
         NEW e \in i..(Len(s) + 1), e \notin run, \A k \in i..(e - 1) : k \in run
  PROVE  PastRun(s, i, run) = e
  <1> DEFINE p == PastRun(s, i, run)
  <1>1. p \in i..(Len(s) + 1) /\ p \notin run /\ \A k \in i..(p - 1) : k \in run
    BY PastRunIs
  <1> HIDE DEF p
  <1>2. ~(p < e) /\ ~(e < p)
    BY <1>1
  <1>3. p = e
    BY <1>1, <1>2
  <1>4. QED
    BY <1>3 DEF p

-----------------------------------------------------------------------------
(* The recursive functions satisfy their equations. *)

QuoteNext(s, k) == IF s[k] = Escape /\ k < Len(s) THEN k + 2 ELSE k + 1

LEMMA QuoteEquation ==
  ASSUME NEW s, Len(s) \in Nat, NEW q
  PROVE  /\ QuoteEnd(s, Len(s) + 1, q) = 0
         /\ \A k \in 1..Len(s) :
              QuoteEnd(s, k, q) = IF s[k] = q THEN k + 1 ELSE QuoteEnd(s, QuoteNext(s, k), q)
  <1> DEFINE n == Len(s)
             X == Nat
             next == [k \in 1..n |-> QuoteNext(s, k)]
             join == [p \in (1..n) \X X |-> IF s[p[1]] = q THEN p[1] + 1 ELSE p[2]]
             Is(f) == f = [k \in 1..(n + 1) |->
                             IF k > n THEN 0
                             ELSE IF s[k] = q THEN k + 1
                             ELSE f[IF s[k] = Escape /\ k < n THEN k + 2 ELSE k + 1]]
             end == CHOOSE f : Is(f)
  <1>1. \A k \in 1..n : QuoteNext(s, k) \in (k + 1)..(n + 1)
    BY DEF QuoteNext
  <1>2. \A k \in 1..n : next[k] = QuoteNext(s, k)
    OBVIOUS
  <1>3. \A k \in 1..n, x \in X : join[<<k, x>>] = IF s[k] = q THEN k + 1 ELSE x
    OBVIOUS
  <1> HIDE DEF next, join
  <1>4. CanDescend(X, n, next, join)
    BY <1>1, <1>2, <1>3 DEF CanDescend
  <1>5. PICK f : Descends(f, X, 0, n, next, join)
    BY <1>4, DescentExists
  <1>6. \A k \in 1..(n + 1) : (k > n /\ k = n + 1) \/ (~(k > n) /\ k \in 1..n)
    OBVIOUS
  <1>7. \A k \in 1..n : k \in 1..(n + 1) /\ QuoteNext(s, k) \in 1..(n + 1) /\ ~(k > n)
    <2>1. \A k \in 1..n : \A j \in (k + 1)..(n + 1) : j \in 1..(n + 1)
      OBVIOUS
    <2>2. QED
      BY <1>1, <2>1
  <1>8. \A k \in 1..n : f[k] = IF s[k] = q THEN k + 1 ELSE f[QuoteNext(s, k)]
    <2> SUFFICES ASSUME NEW k \in 1..n
                 PROVE  f[k] = IF s[k] = q THEN k + 1 ELSE f[QuoteNext(s, k)]
      OBVIOUS
    <2> HIDE DEF Is, end
    <2>1. f[k] = join[<<k, f[next[k]]>>] /\ f \in [1..(n + 1) -> X]
      BY <1>5 DEF Descends
    <2>2. next[k] = QuoteNext(s, k) /\ QuoteNext(s, k) \in 1..(n + 1)
      BY <1>2, <1>7
    <2>3. f[QuoteNext(s, k)] \in X
      BY <2>1, <2>2
    <2>4. QED
      BY <1>3, <2>1, <2>2, <2>3
  <1>9. Is(f)
    BY <1>5, <1>6, <1>8 DEF Descends, QuoteNext
  <1>10. Is(end)
    <2> HIDE DEF Is
    <2> QED
      BY <1>9
  <1>11. \A k : QuoteEnd(s, k, q) = end[k]
    BY DEF QuoteEnd
  <1> HIDE DEF end
  <1>12. end[n + 1] = 0
    <2>1. n + 1 \in 1..(n + 1) /\ n + 1 > n
      OBVIOUS
    <2>2. QED
      BY <1>10, <2>1
  <1>13. \A k \in 1..n : end[k] = IF s[k] = q THEN k + 1 ELSE end[QuoteNext(s, k)]
    BY <1>7, <1>10 DEF QuoteNext
  <1>14. QED
    BY <1>11, <1>12, <1>13

\* The closing quote is behind the place where the search begins.
LEMMA QuoteEndRange ==
  ASSUME NEW s, Len(s) \in Nat, NEW q, NEW i \in 1..(Len(s) + 1)
  PROVE  \/ QuoteEnd(s, i, q) = 0
         \/ QuoteEnd(s, i, q) \in (i + 1)..(Len(s) + 1)
  <1> DEFINE P == {k \in 1..(Len(s) + 1) : \/ QuoteEnd(s, k, q) = 0
                                           \/ QuoteEnd(s, k, q) \in (k + 1)..(Len(s) + 1)}
  <1>1. Len(s) + 1 \in P
    BY QuoteEquation
  <1>2. ASSUME NEW k \in 1..Len(s), \A j \in (k + 1)..(Len(s) + 1) : j \in P
        PROVE  k \in P
    <2>1. QuoteNext(s, k) \in (k + 1)..(Len(s) + 1)
      BY DEF QuoteNext
    <2>2. QuoteNext(s, k) \in P
      BY <1>2, <2>1
    <2>3. QuoteEnd(s, k, q) = IF s[k] = q THEN k + 1 ELSE QuoteEnd(s, QuoteNext(s, k), q)
      BY QuoteEquation
    <2>4. QED
      BY <2>1, <2>2, <2>3
  <1>3. 1..(Len(s) + 1) \subseteq P
    <2> HIDE DEF P
    <2> QED
      BY <1>1, <1>2, DownTo
  <1>4. QED
    BY <1>3

-----------------------------------------------------------------------------
(* What stands at a place *)

\* The second half of a pair is no blank, and not the end of the text.
LEMMA PairFacts ==
  ASSUME NEW a, NEW b, <<a, b>> \in Pairs
  PROVE  /\ a \in {":", ".", "-", "*", "@", "<", ">", "|"}
         /\ b \in {"=", "-", ":", ".", ">", "*", "@", "|"}
  BY DEF Pairs

LEMMA TokenKinds ==
  ASSUME NEW s, NEW i
  PROVE  /\ s[i] \in Quotes => TokenEnd(s, i) = QuoteEnd(s, i + 1, s[i])
         /\ StartsNumber(s, i) => TokenEnd(s, i) = PastRun(s, i, {i} \cup NumberRun(s, i))
         /\ s[i] \in Letters => TokenEnd(s, i) = PastRun(s, i, NameRun(s))
         /\ StartsPair(s, i) => TokenEnd(s, i) = i + 2
         /\ s[i] = "%" => TokenEnd(s, i) = PastRun(s, i, PercentRun(s))
         /\ s[i] = "&" => TokenEnd(s, i) = PastRun(s, i + 1, NameRun(s))
         /\ s[i] = Escape => TokenEnd(s, i) = IF i < Len(s) THEN i + 2 ELSE i + 1
         /\ \/ s[i] \in Quotes \/ StartsNumber(s, i) \/ s[i] \in Letters \/ StartsPair(s, i)
            \/ s[i] = "%" \/ s[i] = "&" \/ s[i] = Escape
            \/ TokenEnd(s, i) = IF s[i] \in Singles THEN i + 1 ELSE 0
  <1>1. StartsPair(s, i) => s[i] \in {":", ".", "-", "*", "@", "<", ">", "|"}
                            /\ ~StartsNumber(s, i)
    <2> SUFFICES ASSUME StartsPair(s, i)
                 PROVE  s[i] \in {":", ".", "-", "*", "@", "<", ">", "|"} /\ ~StartsNumber(s, i)
      OBVIOUS
    <2>1. /\ s[i] \in {":", ".", "-", "*", "@", "<", ">", "|"}
          /\ Char(s, i + 1) \in {"=", "-", ":", ".", ">", "*", "@", "|"}
      BY PairFacts DEF StartsPair
    <2>2. QED
      BY <2>1 DEF StartsNumber, Digit
  <1>2. StartsNumber(s, i) => s[i] \in {Digit, "."}
    BY DEF StartsNumber
  <1>3. QED
    BY <1>1, <1>2 DEF TokenEnd, Letters, Digit, Quotes, Escape

LEMMA SkipKinds ==
  ASSUME NEW s, NEW i
  PROVE  /\ s[i] \in Blanks => SkipEnd(s, i) = i + 1
         /\ s[i] \in {"#", "?"} => SkipEnd(s, i) = PastRun(s, i, LineRun(s))
         /\ s[i] = Escape /\ Char(s, i + 1) = "n" => SkipEnd(s, i) = i + 2
         /\ s[i] \notin Blanks \cup {"#", "?"} /\ ~(s[i] = Escape /\ Char(s, i + 1) = "n")
              => SkipEnd(s, i) = i
  BY DEF SkipEnd, Blanks, Escape

LEMMA CharIs ==
  ASSUME NEW C, NEW s \in Seq(C), NEW i \in Nat \ {0}
  PROVE  /\ i <= Len(s) => Char(s, i) = s[i]
         /\ i > Len(s) => Char(s, i) = "eof"
  BY DEF Char

LEMMA SkipEndRange ==
  ASSUME NEW C, NEW s \in Seq(C), NEW i \in 1..Len(s)
  PROVE  /\ SkipEnd(s, i) \in i..(Len(s) + 1)
         /\ SkipEnd(s, i) = i <=> /\ s[i] \notin Blanks \cup {"#", "?"}
                                  /\ ~(s[i] = Escape /\ Char(s, i + 1) = "n")
  <1>1. Len(s) \in Nat /\ DOMAIN s = 1..Len(s)
    OBVIOUS
  <1>2. CASE s[i] \in Blanks
    BY <1>1, <1>2, SkipKinds
  <1>3. CASE s[i] \in {"#", "?"}
    <2> DEFINE e == PastRun(s, i, LineRun(s))
    <2>1. Len(s) + 1 \notin LineRun(s) /\ i \in LineRun(s)
      BY <1>1, <1>3 DEF LineRun
    <2>2. e \in i..(Len(s) + 1) /\ e \notin LineRun(s)
      BY <1>1, <2>1, PastRunIs
    <2>3. SkipEnd(s, i) = e
      BY <1>3, SkipKinds
    <2>4. QED
      BY <1>3, <2>1, <2>2, <2>3
  <1>4. CASE s[i] = Escape /\ Char(s, i + 1) = "n"
    <2>1. i + 1 <= Len(s)
      <3>1. i + 1 \in Nat \ {0}
        OBVIOUS
      <3>2. QED
        BY <1>1, <1>4, <3>1, CharIs
    <2>2. QED
      BY <1>4, <2>1, SkipKinds
  <1>5. CASE s[i] \notin Blanks \cup {"#", "?"} /\ ~(s[i] = Escape /\ Char(s, i + 1) = "n")
    BY <1>5, SkipKinds
  <1>6. QED
    BY <1>2, <1>3, <1>4, <1>5

LEMMA TokenEndRange ==
  ASSUME NEW C, NEW s \in Seq(C), NEW i \in 1..Len(s)
  PROVE  TokenEnd(s, i) = 0 \/ TokenEnd(s, i) \in (i + 1)..(Len(s) + 1)
  <1>1. Len(s) \in Nat /\ DOMAIN s = 1..Len(s) /\ i + 1 \in 1..(Len(s) + 1) /\ i + 1 \in Nat \ {0}
    OBVIOUS
  <1>2. ASSUME NEW run, i \in run, Len(s) + 1 \notin run
        PROVE  PastRun(s, i, run) \in (i + 1)..(Len(s) + 1)
    <2> DEFINE e == PastRun(s, i, run)
    <2>1. e \in i..(Len(s) + 1) /\ e \notin run
      BY <1>1, <1>2, PastRunIs
    <2>2. QED
      BY <1>2, <2>1
  <1>3. CASE s[i] \in Quotes
    <2>1. TokenEnd(s, i) = QuoteEnd(s, i + 1, s[i])
      BY <1>3, TokenKinds
    <2>2. \/ QuoteEnd(s, i + 1, s[i]) = 0
          \/ QuoteEnd(s, i + 1, s[i]) \in (i + 1 + 1)..(Len(s) + 1)
      BY <1>1, QuoteEndRange
    <2>3. QED
      BY <1>1, <2>1, <2>2
  <1>4. CASE StartsNumber(s, i)
    <2>1. Len(s) + 1 \notin {i} \cup NumberRun(s, i)
      BY <1>1 DEF NumberRun
    <2>2. QED
      BY <1>2, <1>4, <2>1, TokenKinds
  <1>5. CASE s[i] \in Letters
    <2>1. i \in NameRun(s) /\ Len(s) + 1 \notin NameRun(s)
      BY <1>1, <1>5 DEF NameRun
    <2>2. TokenEnd(s, i) = PastRun(s, i, NameRun(s))
      BY <1>5, TokenKinds
    <2>3. QED
      BY <1>2, <2>1, <2>2
  <1>6. CASE StartsPair(s, i)
    <2>1. Char(s, i + 1) # "eof"
      BY <1>6, PairFacts DEF StartsPair
    <2>2. TokenEnd(s, i) = i + 2
      BY <1>6, TokenKinds
    <2>3. i + 1 <= Len(s)
      BY <1>1, <2>1, CharIs
    <2>4. QED
      BY <1>1, <2>2, <2>3
  <1>7. CASE s[i] = "%"
    <2>1. i \in PercentRun(s) /\ Len(s) + 1 \notin PercentRun(s)
      BY <1>1, <1>7 DEF PercentRun
    <2>2. TokenEnd(s, i) = PastRun(s, i, PercentRun(s))
      BY <1>7, TokenKinds
    <2>3. QED
      BY <1>2, <2>1, <2>2
  <1>8. CASE s[i] = "&"
    <2>1. PastRun(s, i + 1, NameRun(s)) \in (i + 1)..(Len(s) + 1)
      <3>1. Len(s) + 1 \notin NameRun(s)
        BY <1>1 DEF NameRun
      <3>2. QED
        BY <1>1, <3>1, PastRunIs
    <2>2. QED
      BY <1>8, <2>1, TokenKinds
  <1>9. CASE s[i] = Escape
    <2>1. TokenEnd(s, i) = IF i < Len(s) THEN i + 2 ELSE i + 1
      BY <1>9, TokenKinds
    <2>2. QED
      BY <1>1, <2>1
  <1>10. CASE TokenEnd(s, i) = IF s[i] \in Singles THEN i + 1 ELSE 0
    BY <1>1, <1>10
  <1>11. QED
    BY <1>3, <1>4, <1>5, <1>6, <1>7, <1>8, <1>9, <1>10, TokenKinds

-----------------------------------------------------------------------------
(* The tokens of a text satisfy their equations. *)

LEMMA TokensEquation ==
  ASSUME NEW C, NEW s \in Seq(C)
  PROVE  /\ TokensFrom(s, Len(s) + 1) = <<>>
         /\ \A k \in 1..Len(s) :
              TokensFrom(s, k) =
                IF SkipEnd(s, k) > k THEN TokensFrom(s, SkipEnd(s, k))
                ELSE IF TokenEnd(s, k) = 0 THEN <<Broken>>
                ELSE <<SubSeq(s, k, TokenEnd(s, k) - 1)>> \o TokensFrom(s, TokenEnd(s, k))
         /\ \A k \in 1..(Len(s) + 1) : TokensFrom(s, k) \in Seq(Seq(C))
  <1> DEFINE n == Len(s)
             X == Seq(Seq(C))
             later(k) == IF SkipEnd(s, k) > k THEN SkipEnd(s, k)
                         ELSE IF TokenEnd(s, k) = 0 THEN k + 1 ELSE TokenEnd(s, k)
             made(k, x) == IF SkipEnd(s, k) > k THEN x
                           ELSE IF TokenEnd(s, k) = 0 THEN <<Broken>>
                           ELSE <<SubSeq(s, k, TokenEnd(s, k) - 1)>> \o x
             next == [k \in 1..n |-> later(k)]
             join == [p \in (1..n) \X X |-> made(p[1], p[2])]
             body(f, k) == IF k > n THEN <<>>
                           ELSE IF SkipEnd(s, k) > k THEN f[SkipEnd(s, k)]
                           ELSE IF TokenEnd(s, k) = 0 THEN <<Broken>>
                           ELSE <<SubSeq(s, k, TokenEnd(s, k) - 1)>> \o f[TokenEnd(s, k)]
             Is(f) == f = [k \in 1..(n + 1) |-> body(f, k)]
             from == CHOOSE f : Is(f)
  <1>0. n \in Nat
    OBVIOUS
  <1>1. \A k \in 1..n : later(k) \in (k + 1)..(n + 1)
    <2> SUFFICES ASSUME NEW k \in 1..n PROVE later(k) \in (k + 1)..(n + 1)
      OBVIOUS
    <2>1. SkipEnd(s, k) \in k..(n + 1)
      BY SkipEndRange
    <2>2. TokenEnd(s, k) = 0 \/ TokenEnd(s, k) \in (k + 1)..(n + 1)
      BY TokenEndRange
    <2>3. QED
      BY <1>0, <2>1, <2>2
  <1>2. \A k \in 1..n, x \in X : made(k, x) \in X
    <2> SUFFICES ASSUME NEW k \in 1..n, NEW x \in X PROVE made(k, x) \in X
      OBVIOUS
    <2>1. <<Broken>> \in X
      BY DEF Broken
    <2>2. ASSUME NEW e \in (k + 1)..(n + 1) PROVE <<SubSeq(s, k, e - 1)>> \o x \in X
      <3>1. SubSeq(s, k, e - 1) \in Seq(C)
        <4>1. \A j \in k..(e - 1) : s[j] \in C
          BY <1>0, ElementOfSeq
        <4>2. QED
          BY <1>0, <4>1, SubSeqProperties
      <3>2. <<SubSeq(s, k, e - 1)>> \in X
        BY <3>1
      <3> HIDE DEF X
      <3>3. QED
        BY <3>2, ConcatProperties DEF X
    <2>3. TokenEnd(s, k) = 0 \/ TokenEnd(s, k) \in (k + 1)..(n + 1)
      BY TokenEndRange
    <2> HIDE DEF X, n
    <2>4. QED
      BY <2>1, <2>2, <2>3
  <1> HIDE DEF later, made
  <1>3. \A k \in 1..n : next[k] = later(k)
    OBVIOUS
  <1>4. \A k \in 1..n, x \in X : join[<<k, x>>] = made(k, x)
    OBVIOUS
  <1> HIDE DEF next, join
  <1>5. CanDescend(X, n, next, join)
    BY <1>1, <1>2, <1>3, <1>4 DEF CanDescend
  <1>6. <<>> \in X
    OBVIOUS
  <1>7. PICK f : Descends(f, X, <<>>, n, next, join)
    <2> HIDE DEF X, n
    <2> QED
      BY <1>0, <1>5, <1>6, DescentExists
  <1>8. \A k \in 1..(n + 1) : (k > n /\ k = n + 1) \/ (~(k > n) /\ k \in 1..n)
    OBVIOUS
  <1>9. n + 1 \in 1..(n + 1) /\ n + 1 > n
        /\ \A k \in 1..n : k \in 1..(n + 1) /\ ~(k > n) /\ \A j \in (k + 1)..(n + 1) : j \in 1..(n + 1)
    OBVIOUS
  <1> HIDE DEF X, n
  <1>10. ASSUME NEW g, g \in [1..(n + 1) -> X], NEW k \in 1..n, g[k] = made(k, g[later(k)])
         PROVE  g[k] = body(g, k)
    BY <1>9, <1>10 DEF made, later
  <1>11. Is(f)
    <2>1. f \in [1..(n + 1) -> X] /\ f[n + 1] = <<>>
          /\ \A k \in 1..n : f[k] = join[<<k, f[next[k]]>>]
      BY <1>7 DEF Descends
    <2>2. \A k \in 1..n : f[k] = made(k, f[later(k)])
      BY <1>1, <1>3, <1>4, <1>9, <2>1
    <2>3. \A k \in 1..n : f[k] = body(f, k)
      BY <1>10, <2>1, <2>2
    <2>4. \A k \in 1..(n + 1) : f[k] = body(f, k)
      BY <1>8, <2>1, <2>3
    <2> HIDE DEF body
    <2>5. QED
      BY <2>1, <2>4
  <1>12. Is(from)
    <2> HIDE DEF Is
    <2> QED
      BY <1>11
  <1>13. \A k : TokensFrom(s, k) = from[k]
    BY DEF TokensFrom, n
  <1> HIDE DEF from
  <1>14. \A k \in 1..(n + 1) : from[k] = body(from, k)
    <2> HIDE DEF body
    <2> QED
      BY <1>12
  <1>15. from[n + 1] = <<>>
    BY <1>9, <1>14
  <1>16. \A k \in 1..n : from[k] = made(k, from[later(k)])
    BY <1>9, <1>14 DEF made, later
  <1>17. \A k \in 1..(n + 1) : from[k] \in X
    <2> DEFINE P == {k \in 1..(n + 1) : from[k] \in X}
    <2>1. n + 1 \in P
      BY <1>6, <1>9, <1>15
    <2>2. ASSUME NEW k \in 1..n, \A j \in (k + 1)..(n + 1) : j \in P PROVE k \in P
      BY <1>1, <1>2, <1>9, <1>16, <2>2
    <2> HIDE DEF P
    <2>3. 1..(n + 1) \subseteq P
      BY <1>0, <2>1, <2>2, DownTo
    <2>4. QED
      BY <2>3 DEF P
  <1>18. \A k \in 1..n : from[k] = body(from, k)
    BY <1>9, <1>14
  <1>19. QED
    BY <1>9, <1>13, <1>15, <1>17, <1>18 DEF X, n

-----------------------------------------------------------------------------
(* What is read from a place depends only on what stands from there on. *)

\* s ends with v, which begins behind the place d.
EndsWith(s, d, v) ==
  /\ Len(s) = d + Len(v)
  /\ \A k \in 1..Len(v) : s[d + k] = v[k]

LEMMA RunShift ==
  ASSUME NEW s, Len(s) \in Nat, NEW v, Len(v) \in Nat, NEW d \in Nat, EndsWith(s, d, v),
         NEW i \in 1..(Len(v) + 1), NEW at, at = d + i, NEW run, NEW shifted,
         Len(v) + 1 \notin run, Len(s) + 1 \notin shifted,
         \A k \in i..Len(v) : d + k \in shifted <=> k \in run
  PROVE  PastRun(s, at, shifted) = d + PastRun(v, i, run)
  <1>0. Len(s) = d + Len(v)
    BY DEF EndsWith
  <1> DEFINE e == PastRun(v, i, run)
             b == d + e
  <1>1. e \in i..(Len(v) + 1) /\ e \notin run /\ \A k \in i..(e - 1) : k \in run
    BY PastRunIs
  <1> HIDE DEF e
  <1>2. at \in 1..(Len(s) + 1) /\ b \in at..(Len(s) + 1)
    BY <1>0, <1>1
  <1>3. b \notin shifted
    <2>1. e = Len(v) + 1 \/ e \in i..Len(v)
      BY <1>1
    <2>2. CASE e = Len(v) + 1
      <3>1. b = Len(s) + 1
        BY <1>0, <2>2
      <3>2. QED
        BY <3>1
    <2>3. CASE e \in i..Len(v)
      BY <1>1, <2>3
    <2>4. QED
      BY <2>1, <2>2, <2>3
  <1>4. \A k \in at..(b - 1) : k \in shifted
    <2> SUFFICES ASSUME NEW k \in at..(b - 1) PROVE k \in shifted
      OBVIOUS
    <2>1. k - d \in i..(e - 1) /\ k - d \in i..Len(v) /\ d + (k - d) = k
      BY <1>1
    <2>2. QED
      BY <1>1, <2>1
  <1> HIDE DEF b
  <1>5. PastRun(s, at, shifted) = b
    BY <1>2, <1>3, <1>4, PastRunAt
  <1>6. QED
    BY <1>5 DEF e, b

LEMMA CharShift ==
  ASSUME NEW C, NEW s \in Seq(C), NEW v \in Seq(C), NEW d \in Nat, EndsWith(s, d, v),
         NEW k \in Nat \ {0}
  PROVE  Char(s, d + k) = Char(v, k)
  <1>1. k <= Len(v) => s[d + k] = v[k]
    BY DEF EndsWith
  <1>2. Len(s) = d + Len(v) /\ Len(v) \in Nat /\ d + k \in Nat \ {0}
    BY DEF EndsWith
  <1>3. QED
    BY <1>1, <1>2, CharIs

LEMMA NumberShift ==
  ASSUME NEW C, NEW s \in Seq(C), NEW v \in Seq(C), NEW d \in Nat, EndsWith(s, d, v),
         NEW k \in 2..Len(v)
  PROVE  InNumber(s, d + k) <=> InNumber(v, k)
  <1>1. ASSUME NEW j \in 1..Len(v)
        PROVE  StartsExponent(s, d + j) <=> StartsExponent(v, j)
    <2>1. s[d + j] = v[j]
      BY DEF EndsWith
    <2>2. Char(s, d + (j + 1)) = Char(v, j + 1) /\ Char(s, d + (j + 2)) = Char(v, j + 2)
      <3>1. j + 1 \in Nat \ {0} /\ j + 2 \in Nat \ {0}
        OBVIOUS
      <3>2. QED
        BY <3>1, CharShift
    <2>3. d + (j + 1) = d + j + 1 /\ d + (j + 2) = d + j + 2
      OBVIOUS
    <2>4. QED
      BY <2>1, <2>2, <2>3 DEF StartsExponent
  <1>2. s[d + k] = v[k]
    BY DEF EndsWith
  <1>3. Char(s, d + k + 1) = Char(v, k + 1)
    <2>1. k + 1 \in Nat \ {0} /\ d + (k + 1) = d + k + 1
      OBVIOUS
    <2>2. QED
      BY <2>1, CharShift
  <1>4. /\ StartsExponent(s, d + k) <=> StartsExponent(v, k)
        /\ StartsExponent(s, d + k - 1) <=> StartsExponent(v, k - 1)
    <2>1. k - 1 \in 1..Len(v) /\ k \in 1..Len(v) /\ d + (k - 1) = d + k - 1
      OBVIOUS
    <2>2. QED
      BY <1>1, <2>1
  <1>5. QED
    BY <1>2, <1>3, <1>4 DEF InNumber

LEMMA QuoteShift ==
  ASSUME NEW s, Len(s) \in Nat, NEW v, Len(v) \in Nat, NEW d \in Nat, EndsWith(s, d, v),
         NEW q, NEW i \in 1..(Len(v) + 1)
  PROVE  QuoteEnd(s, d + i, q) = IF QuoteEnd(v, i, q) = 0 THEN 0 ELSE d + QuoteEnd(v, i, q)
  <1> DEFINE Same(k) ==
               QuoteEnd(s, d + k, q) = IF QuoteEnd(v, k, q) = 0 THEN 0 ELSE d + QuoteEnd(v, k, q)
             P == {k \in 1..(Len(v) + 1) : Same(k)}
  <1>0. Len(s) = d + Len(v)
    BY DEF EndsWith
  <1>1. Len(v) + 1 \in P
    <2>1. QuoteEnd(s, Len(s) + 1, q) = 0 /\ QuoteEnd(v, Len(v) + 1, q) = 0
      BY QuoteEquation
    <2>2. d + (Len(v) + 1) = Len(s) + 1
      BY <1>0
    <2>3. QED
      BY <2>1, <2>2
  <1>2. ASSUME NEW k \in 1..Len(v), \A j \in (k + 1)..(Len(v) + 1) : j \in P
        PROVE  k \in P
    <2>1. s[d + k] = v[k]
      BY DEF EndsWith
    <2>2. QuoteNext(v, k) \in (k + 1)..(Len(v) + 1) /\ QuoteNext(s, d + k) = d + QuoteNext(v, k)
      BY <1>0, <2>1 DEF QuoteNext
    <2>3. Same(QuoteNext(v, k))
      BY <1>2, <2>2
    <2>4. QuoteEnd(v, k, q) = IF v[k] = q THEN k + 1 ELSE QuoteEnd(v, QuoteNext(v, k), q)
      BY QuoteEquation
    <2>5. d + k \in 1..Len(s)
      BY <1>0
    <2>6. QuoteEnd(s, d + k, q) = IF s[d + k] = q THEN d + k + 1
                                  ELSE QuoteEnd(s, QuoteNext(s, d + k), q)
      BY <2>5, QuoteEquation
    <2>7. Same(k)
      <3>1. CASE v[k] = q
        BY <2>1, <2>4, <2>6, <3>1
      <3>2. CASE v[k] # q
        BY <2>1, <2>2, <2>3, <2>4, <2>6, <3>2
      <3>3. QED
        BY <3>1, <3>2
    <2> HIDE DEF Same
    <2>8. QED
      BY <2>7
  <1>3. 1..(Len(v) + 1) \subseteq P
    <2> HIDE DEF P
    <2> QED
      BY <1>1, <1>2, DownTo
  <1>4. QED
    BY <1>3

LEMMA SkipShift ==
  ASSUME NEW C, NEW s \in Seq(C), NEW v \in Seq(C), NEW d \in Nat, EndsWith(s, d, v),
         NEW i \in 1..Len(v)
  PROVE  SkipEnd(s, d + i) = d + SkipEnd(v, i)
  <1>1. Len(s) \in Nat /\ Len(v) \in Nat /\ DOMAIN s = 1..Len(s) /\ DOMAIN v = 1..Len(v)
        /\ Len(s) = d + Len(v)
    BY DEF EndsWith
  <1>2. s[d + i] = v[i] /\ Char(s, d + i + 1) = Char(v, i + 1)
    <2>1. i + 1 \in Nat \ {0} /\ d + (i + 1) = d + i + 1
      OBVIOUS
    <2>2. Char(s, d + (i + 1)) = Char(v, i + 1)
      BY <2>1, CharShift
    <2>3. s[d + i] = v[i]
      BY DEF EndsWith
    <2>4. QED
      BY <2>1, <2>2, <2>3
  <1>3. CASE v[i] \in {"#", "?"}
    <2>1. SkipEnd(s, d + i) = PastRun(s, d + i, LineRun(s)) /\ SkipEnd(v, i) = PastRun(v, i, LineRun(v))
      BY <1>2, <1>3, SkipKinds
    <2>2. \A k \in i..Len(v) : d + k \in LineRun(s) <=> k \in LineRun(v)
      BY <1>1 DEF LineRun, EndsWith
    <2>3. Len(s) + 1 \notin LineRun(s) /\ Len(v) + 1 \notin LineRun(v) /\ i \in 1..(Len(v) + 1)
      BY <1>1 DEF LineRun
    <2>4. QED
      BY <1>1, <2>1, <2>2, <2>3, RunShift
  <1>4. CASE v[i] \in Blanks
    <2>1. SkipEnd(s, d + i) = d + i + 1 /\ SkipEnd(v, i) = i + 1
      BY <1>2, <1>4, SkipKinds
    <2>2. QED
      BY <2>1
  <1>5. CASE v[i] = Escape /\ Char(v, i + 1) = "n"
    <2>1. SkipEnd(s, d + i) = d + i + 2 /\ SkipEnd(v, i) = i + 2
      BY <1>2, <1>5, SkipKinds
    <2>2. QED
      BY <2>1
  <1>6. CASE v[i] \notin Blanks \cup {"#", "?"} /\ ~(v[i] = Escape /\ Char(v, i + 1) = "n")
    BY <1>2, <1>6, SkipKinds
  <1>7. QED
    BY <1>3, <1>4, <1>5, <1>6

LEMMA TokenShift ==
  ASSUME NEW C, NEW s \in Seq(C), NEW v \in Seq(C), NEW d \in Nat, EndsWith(s, d, v),
         NEW i \in 1..Len(v)
  PROVE  TokenEnd(s, d + i) = IF TokenEnd(v, i) = 0 THEN 0 ELSE d + TokenEnd(v, i)
  <1>1. Len(s) \in Nat /\ Len(v) \in Nat /\ DOMAIN s = 1..Len(s) /\ DOMAIN v = 1..Len(v)
        /\ Len(s) = d + Len(v) /\ i \in 1..(Len(v) + 1)
    BY DEF EndsWith
  <1>2. s[d + i] = v[i] /\ Char(s, d + i + 1) = Char(v, i + 1)
    <2>1. i + 1 \in Nat \ {0} /\ d + (i + 1) = d + i + 1
      OBVIOUS
    <2>2. Char(s, d + (i + 1)) = Char(v, i + 1)
      BY <2>1, CharShift
    <2>3. s[d + i] = v[i]
      BY DEF EndsWith
    <2>4. QED
      BY <2>1, <2>2, <2>3
  <1>3. (StartsNumber(s, d + i) <=> StartsNumber(v, i)) /\ (StartsPair(s, d + i) <=> StartsPair(v, i))
    BY <1>2 DEF StartsNumber, StartsPair
  <1>4. ASSUME NEW k \in 1..(Len(v) + 1), NEW at, at = d + k, NEW run, NEW shifted,
               Len(v) + 1 \notin run, Len(s) + 1 \notin shifted,
               \A j \in k..Len(v) : d + j \in shifted <=> j \in run
        PROVE  /\ PastRun(s, at, shifted) = d + PastRun(v, k, run)
               /\ PastRun(v, k, run) # 0
    <2>1. PastRun(s, at, shifted) = d + PastRun(v, k, run)
      BY <1>1, <1>4, RunShift
    <2>2. PastRun(v, k, run) \in k..(Len(v) + 1)
      BY <1>1, <1>4, PastRunIs
    <2>3. QED
      BY <2>1, <2>2
  <1>5. /\ Len(s) + 1 \notin NameRun(s) /\ Len(v) + 1 \notin NameRun(v)
        /\ \A k \in 1..Len(v) : d + k \in NameRun(s) <=> k \in NameRun(v)
    BY <1>1 DEF NameRun, EndsWith
  <1>6. CASE v[i] \in Quotes
    <2>1. /\ TokenEnd(s, d + i) = QuoteEnd(s, d + i + 1, s[d + i])
          /\ TokenEnd(v, i) = QuoteEnd(v, i + 1, v[i])
      <3>1. s[d + i] \in Quotes
        BY <1>2, <1>6
      <3>2. QED
        BY <1>6, <3>1, TokenKinds
    <2>2. i + 1 \in 1..(Len(v) + 1) /\ d + (i + 1) = d + i + 1
      BY <1>1
    <2>3. QuoteEnd(s, d + (i + 1), v[i]) = IF QuoteEnd(v, i + 1, v[i]) = 0 THEN 0
                                           ELSE d + QuoteEnd(v, i + 1, v[i])
      BY <1>1, <2>2, QuoteShift
    <2>4. QED
      BY <1>2, <2>1, <2>2, <2>3
  <1>7. CASE StartsNumber(v, i)
    <2> DEFINE run == {i} \cup NumberRun(v, i)
               shifted == {d + i} \cup NumberRun(s, d + i)
    <2>1. TokenEnd(s, d + i) = PastRun(s, d + i, shifted) /\ TokenEnd(v, i) = PastRun(v, i, run)
      BY <1>3, <1>7, TokenKinds
    <2>2. Len(v) + 1 \notin run /\ Len(s) + 1 \notin shifted
      BY <1>1 DEF NumberRun
    <2>3. ASSUME NEW k \in i..Len(v) PROVE d + k \in shifted <=> k \in run
      <3>1. CASE k = i
        BY <3>1
      <3>2. CASE k # i
        <4>1. k \in (i + 1)..Len(v) /\ k \in 2..Len(v) /\ d + k \in (d + i + 1)..Len(s) /\ d + k # d + i
          BY <1>1, <3>2
        <4>2. InNumber(s, d + k) <=> InNumber(v, k)
          BY <4>1, NumberShift
        <4>3. QED
          BY <3>2, <4>1, <4>2 DEF NumberRun
      <3>3. QED
        BY <3>1, <3>2
    <2> HIDE DEF run, shifted
    <2>4. QED
      BY <1>1, <1>4, <2>1, <2>2, <2>3
  <1>8. CASE v[i] \in Letters
    <2>1. TokenEnd(s, d + i) = PastRun(s, d + i, NameRun(s)) /\ TokenEnd(v, i) = PastRun(v, i, NameRun(v))
      BY <1>2, <1>8, TokenKinds
    <2>2. \A j \in i..Len(v) : d + j \in NameRun(s) <=> j \in NameRun(v)
      BY <1>5
    <2>3. QED
      BY <1>1, <1>4, <1>5, <2>1, <2>2
  <1>9. CASE StartsPair(v, i)
    <2>1. TokenEnd(s, d + i) = d + i + 2 /\ TokenEnd(v, i) = i + 2
      BY <1>3, <1>9, TokenKinds
    <2>2. QED
      BY <2>1
  <1>10. CASE v[i] = "%"
    <2>1. TokenEnd(s, d + i) = PastRun(s, d + i, PercentRun(s))
          /\ TokenEnd(v, i) = PastRun(v, i, PercentRun(v))
      BY <1>2, <1>10, TokenKinds
    <2>2. /\ Len(s) + 1 \notin PercentRun(s) /\ Len(v) + 1 \notin PercentRun(v)
          /\ \A k \in i..Len(v) : d + k \in PercentRun(s) <=> k \in PercentRun(v)
      BY <1>1 DEF PercentRun, EndsWith
    <2>3. QED
      BY <1>1, <1>4, <2>1, <2>2
  <1>11. CASE v[i] = "&"
    <2>1. TokenEnd(s, d + i) = PastRun(s, d + i + 1, NameRun(s))
          /\ TokenEnd(v, i) = PastRun(v, i + 1, NameRun(v))
      BY <1>2, <1>11, TokenKinds
    <2>2. \A j \in (i + 1)..Len(v) : d + j \in NameRun(s) <=> j \in NameRun(v)
      BY <1>5
    <2>3. i + 1 \in 1..(Len(v) + 1) /\ d + (i + 1) = d + i + 1
      BY <1>1
    <2>4. PastRun(s, d + (i + 1), NameRun(s)) = d + PastRun(v, i + 1, NameRun(v))
          /\ PastRun(v, i + 1, NameRun(v)) # 0
      BY <1>4, <1>5, <2>2, <2>3
    <2>5. QED
      BY <2>1, <2>3, <2>4
  <1>12. CASE v[i] = Escape
    <2>1. /\ TokenEnd(s, d + i) = IF d + i < Len(s) THEN d + i + 2 ELSE d + i + 1
          /\ TokenEnd(v, i) = IF i < Len(v) THEN i + 2 ELSE i + 1
      BY <1>2, <1>12, TokenKinds
    <2>2. QED
      BY <1>1, <2>1
  <1>13. CASE /\ v[i] \notin Quotes /\ ~StartsNumber(v, i) /\ v[i] \notin Letters /\ ~StartsPair(v, i)
              /\ v[i] # "%" /\ v[i] # "&" /\ v[i] # Escape
    <2>1. /\ TokenEnd(s, d + i) = IF v[i] \in Singles THEN d + i + 1 ELSE 0
          /\ TokenEnd(v, i) = IF v[i] \in Singles THEN i + 1 ELSE 0
      BY <1>2, <1>3, <1>13, TokenKinds
    <2>2. QED
      BY <1>1, <2>1
  <1>14. QED
    BY <1>6, <1>7, <1>8, <1>9, <1>10, <1>11, <1>12, <1>13

LEMMA SubSeqIs ==
  ASSUME NEW C, NEW s \in Seq(C), NEW a \in 1..Len(s), NEW z \in a..Len(s)
  PROVE  /\ SubSeq(s, a, z) \in Seq(C)
         /\ Len(SubSeq(s, a, z)) = z - a + 1
         /\ \A j \in 1..(z - a + 1) : SubSeq(s, a, z)[j] = s[a + j - 1]
  <1>1. \A j \in a..z : s[j] \in C
    BY ElementOfSeq
  <1>2. a \in Int /\ z \in Int /\ a <= z
    OBVIOUS
  <1>3. QED
    BY <1>1, <1>2, SubSeqProperties

LEMMA TokensShift ==
  ASSUME NEW C, NEW s \in Seq(C), NEW v \in Seq(C), NEW d \in Nat, EndsWith(s, d, v),
         NEW i \in 1..(Len(v) + 1)
  PROVE  TokensFrom(s, d + i) = TokensFrom(v, i)
  <1> DEFINE P == {k \in 1..(Len(v) + 1) : TokensFrom(s, d + k) = TokensFrom(v, k)}
  <1>0. Len(s) = d + Len(v) /\ Len(v) \in Nat /\ Len(s) \in Nat
    BY DEF EndsWith
  <1>1. Len(v) + 1 \in P
    <2>1. TokensFrom(s, Len(s) + 1) = <<>> /\ TokensFrom(v, Len(v) + 1) = <<>>
      BY TokensEquation
    <2>2. d + (Len(v) + 1) = Len(s) + 1
      BY <1>0
    <2>3. QED
      BY <1>0, <2>1, <2>2
  <1>2. ASSUME NEW k \in 1..Len(v), \A j \in (k + 1)..(Len(v) + 1) : j \in P
        PROVE  k \in P
    <2> DEFINE b == d + k
               e == SkipEnd(v, k)
               t == TokenEnd(v, k)
    <2>1. SkipEnd(s, b) = d + e
      BY SkipShift
    <2>2. TokenEnd(s, b) = IF t = 0 THEN 0 ELSE d + t
      BY TokenShift
    <2>3. e \in k..(Len(v) + 1) /\ (t = 0 \/ t \in (k + 1)..(Len(v) + 1))
      BY SkipEndRange, TokenEndRange
    <2>4. b \in 1..Len(s)
      BY <1>0
    <2>5. TokensFrom(v, k) =
            IF e > k THEN TokensFrom(v, e)
            ELSE IF t = 0 THEN <<Broken>>
            ELSE <<SubSeq(v, k, t - 1)>> \o TokensFrom(v, t)
      BY TokensEquation
    <2>6. TokensFrom(s, b) =
            IF SkipEnd(s, b) > b THEN TokensFrom(s, SkipEnd(s, b))
            ELSE IF TokenEnd(s, b) = 0 THEN <<Broken>>
            ELSE <<SubSeq(s, b, TokenEnd(s, b) - 1)>> \o TokensFrom(s, TokenEnd(s, b))
      BY <2>4, TokensEquation
    <2> HIDE DEF e, t, b
    <2>7. CASE e > k
      <3>1. SkipEnd(s, b) > b /\ e \in (k + 1)..(Len(v) + 1)
        BY <2>1, <2>3, <2>7 DEF b
      <3>2. TokensFrom(s, d + e) = TokensFrom(v, e)
        BY <1>2, <3>1
      <3>3. TokensFrom(s, b) = TokensFrom(v, k)
        BY <2>1, <2>5, <2>6, <2>7, <3>1, <3>2
      <3>4. QED
        BY <3>3 DEF b
    <2>8. CASE ~(e > k) /\ t = 0
      <3>1. ~(SkipEnd(s, b) > b)
        BY <2>1, <2>3, <2>8 DEF b
      <3>2. TokensFrom(s, b) = TokensFrom(v, k)
        BY <2>2, <2>5, <2>6, <2>8, <3>1
      <3>3. QED
        BY <3>2 DEF b
    <2>9. CASE ~(e > k) /\ t # 0
      <3>1. ~(SkipEnd(s, b) > b) /\ t \in (k + 1)..(Len(v) + 1)
        BY <2>1, <2>3, <2>9 DEF b
      <3>2. TokensFrom(s, d + t) = TokensFrom(v, t)
        BY <1>2, <3>1
      <3>3. SubSeq(s, b, d + t - 1) = SubSeq(v, k, t - 1)
        <4> DEFINE u == d + t - 1
                   x == SubSeq(s, b, u)
                   y == SubSeq(v, k, t - 1)
        <4>1. \A j \in k..(t - 1) : v[j] \in C /\ s[d + j] = v[j]
          BY <1>0, <3>1, ElementOfSeq DEF EndsWith
        <4>2. u \in b..Len(s)
          BY <1>0, <3>1 DEF b
        <4>3. y \in Seq(C) /\ Len(y) = t - k /\ \A j \in 1..(t - k) : y[j] = v[k + j - 1]
          <5>1. t - 1 \in k..Len(v) /\ k \in 1..Len(v) /\ t - 1 - k + 1 = t - k
            BY <3>1
          <5>2. QED
            BY <5>1, SubSeqIs
        <4>4. x \in Seq(C) /\ Len(x) = t - k /\ \A j \in 1..(t - k) : x[j] = s[b + j - 1]
          <5>1. u - b + 1 = t - k
            BY <3>1 DEF b
          <5> HIDE DEF u
          <5>2. QED
            BY <2>4, <4>2, <5>1, SubSeqIs
        <4>5. \A j \in 1..(t - k) : y[j] = x[j]
          <5> SUFFICES ASSUME NEW j \in 1..(t - k) PROVE y[j] = x[j]
            OBVIOUS
          <5>1. k + j - 1 \in k..(t - 1) /\ d + (k + j - 1) = b + j - 1
            BY <3>1 DEF b
          <5>2. s[b + j - 1] = v[k + j - 1]
            BY <4>1, <5>1
          <5> HIDE DEF x, y
          <5>3. QED
            BY <4>3, <4>4, <5>2
        <4> HIDE DEF x, y
        <4>6. x = y
          BY <4>3, <4>4, <4>5, SeqEqual
        <4>7. QED
          BY <4>6 DEF x, y
      <3>4. TokenEnd(s, b) = d + t /\ TokenEnd(s, b) # 0
        BY <2>2, <2>9, <3>1
      <3>5. TokensFrom(s, b) = TokensFrom(v, k)
        <4>1. TokensFrom(s, b) = <<SubSeq(s, b, TokenEnd(s, b) - 1)>> \o TokensFrom(s, TokenEnd(s, b))
          BY <2>6, <3>1, <3>4
        <4>2. TokensFrom(v, k) = <<SubSeq(v, k, t - 1)>> \o TokensFrom(v, t)
          BY <2>5, <2>9
        <4>3. SubSeq(s, b, TokenEnd(s, b) - 1) = SubSeq(v, k, t - 1)
          <5>1. TokenEnd(s, b) - 1 = d + t - 1
            BY <3>1, <3>4
          <5>2. QED
            BY <3>3, <5>1
        <4>4. TokensFrom(s, TokenEnd(s, b)) = TokensFrom(v, t)
          BY <3>2, <3>4
        <4>5. QED
          BY <4>1, <4>2, <4>3, <4>4
      <3>6. QED
        BY <3>5 DEF b
    <2>10. QED
      BY <2>7, <2>8, <2>9
  <1>3. 1..(Len(v) + 1) \subseteq P
    <2> HIDE DEF P
    <2> QED
      BY <1>0, <1>1, <1>2, DownTo
  <1>4. QED
    BY <1>3

-----------------------------------------------------------------------------
(* A token that stands alone *)

\* t is what s has from i on up to the end of the token that begins there.
TakenAt(s, i, t) ==
  /\ i \in 1..Len(s) /\ SkipEnd(s, i) = i /\ TokenEnd(s, i) # 0
  /\ t = SubSeq(s, i, TokenEnd(s, i) - 1)

\* w begins with the token that s has from i on; then it ends, or has a blank.
SetApart(s, i, w) ==
  LET n == TokenEnd(s, i) - i
  IN  /\ n <= Len(w)
      /\ \A k \in 1..n : w[k] = s[i - 1 + k]
      /\ Len(w) = n \/ w[n + 1] = " "

\* What stands behind the first character of w is what stands in s.
LEMMA ApartChar ==
  ASSUME NEW C, NEW s \in Seq(C), NEW w \in Seq(C), NEW i \in 1..Len(s),
         TokenEnd(s, i) \in (i + 1)..(Len(s) + 1), SetApart(s, i, w),
         NEW k \in Nat \ {0}
  PROVE  /\ k <= TokenEnd(s, i) - i => Char(w, k) = Char(s, i - 1 + k)
         /\ k = TokenEnd(s, i) - i + 1 => Char(w, k) \in {" ", "eof"}
  <1> DEFINE n == TokenEnd(s, i) - i
  <1>1. n \in Nat \ {0} /\ n \in Nat /\ n > 0 /\ i + n <= Len(s) + 1 /\ Len(w) \in Nat /\ Len(s) \in Nat /\ i \in Nat \ {0}
    OBVIOUS
  <1>2. /\ n <= Len(w)
        /\ \A j \in 1..n : w[j] = s[i - 1 + j]
        /\ Len(w) = n \/ w[n + 1] = " "
    BY DEF SetApart
  <1> HIDE DEF n
  <1>3. CASE k <= n
    <2>0. n <= Len(w)
      BY <1>2
    <2>1. k \in 1..n /\ k <= Len(w) /\ i - 1 + k \in Nat \ {0} /\ i - 1 + k <= Len(s)
      BY <1>1, <1>3, <2>0
    <2>2. Char(w, k) = w[k] /\ Char(s, i - 1 + k) = s[i - 1 + k]
      BY <2>1, CharIs
    <2>3. ~(k = n + 1)
      BY <1>1, <1>3
    <2>4. QED
      BY <1>2, <2>1, <2>2, <2>3 DEF n
  <1>4. CASE k = n + 1
    <2>1. Char(w, k) \in {" ", "eof"}
      <3>1. CASE Len(w) = n
        <4>1. k > Len(w)
          BY <1>1, <1>4, <3>1
        <4>2. QED
          BY <4>1, CharIs
      <3>2. CASE Len(w) > n
        <4>1. k <= Len(w)
          BY <1>1, <1>4, <3>2
        <4>2. Len(w) # n
          BY <1>1, <3>2
        <4>3. w[k] = " "
          BY <1>2, <1>4, <4>2
        <4>4. QED
          BY <4>1, <4>3, CharIs
      <3>3. n <= Len(w)
        BY <1>2
      <3>4. Len(w) = n \/ Len(w) > n
        BY <1>1, <3>3
      <3>5. QED
        BY <3>1, <3>2, <3>4
    <2>2. ~(k <= n)
      BY <1>1, <1>4
    <2>3. QED
      BY <2>1, <2>2 DEF n
  <1>5. QED
    BY <1>1, <1>3, <1>4 DEF n

\* A literal is closed by the same quote.
LEMMA QuoteApart ==
  ASSUME NEW C, NEW s \in Seq(C), NEW w \in Seq(C), NEW i \in 1..Len(s),
         TokenEnd(s, i) \in (i + 1)..(Len(s) + 1), SetApart(s, i, w), NEW q,
         QuoteEnd(s, i + 1, q) = TokenEnd(s, i)
  PROVE  QuoteEnd(w, 2, q) = TokenEnd(s, i) - i + 1
  <1> DEFINE e == TokenEnd(s, i)
             P == {k \in 1..(Len(s) + 1) :
                     i < k /\ QuoteEnd(s, k, q) = e => QuoteEnd(w, k - i + 1, q) = e - i + 1}
  <1>1. e \in (i + 1)..(Len(s) + 1) /\ e - i <= Len(w) /\ Len(w) \in Nat /\ Len(s) \in Nat
        /\ \A k \in 1..(e - i) : w[k] = s[i - 1 + k]
    <2>1. e - i <= Len(w) /\ \A k \in 1..(e - i) : w[k] = s[i - 1 + k]
      BY DEF SetApart
    <2>2. Len(w) \in Nat /\ Len(s) \in Nat
      OBVIOUS
    <2>3. QED
      BY <2>1, <2>2
  <1> HIDE DEF e
  <1>2. Len(s) + 1 \in P
    <2>1. QuoteEnd(s, Len(s) + 1, q) = 0 /\ e # 0
      BY <1>1, QuoteEquation
    <2>2. QED
      BY <1>1, <2>1
  <1>3. ASSUME NEW k \in 1..Len(s), \A j \in (k + 1)..(Len(s) + 1) : j \in P
        PROVE  k \in P
    <2> SUFFICES ASSUME i < k, QuoteEnd(s, k, q) = e
                 PROVE  QuoteEnd(w, k - i + 1, q) = e - i + 1
      BY <1>1
    <2> DEFINE m == k - i + 1
    <2>1. e \in (k + 1)..(Len(s) + 1)
      <3>1. k \in 1..(Len(s) + 1) /\ e # 0
        BY <1>1
      <3>2. QED
        BY <1>1, <3>1, QuoteEndRange
    <2>2. m \in 1..(e - i) /\ m \in 1..Len(w) /\ i - 1 + m = k
      <3>1. i - 1 + m = k /\ m > 0 /\ m \in Nat
        OBVIOUS
      <3>2. m <= e - i
        BY <1>1, <2>1
      <3> HIDE DEF m
      <3>3. QED
        BY <1>1, <3>1, <3>2
    <2>3. w[m] = s[k]
      <3> HIDE DEF m
      <3>1. w[m] = s[i - 1 + m]
        BY <1>1, <2>2
      <3>2. QED
        BY <2>2, <3>1
    <2>4. QuoteEnd(s, k, q) = IF s[k] = q THEN k + 1 ELSE QuoteEnd(s, QuoteNext(s, k), q)
      <3>1. Len(s) \in Nat
        BY <1>1
      <3> HIDE DEF m
      <3>2. QED
        BY <3>1, QuoteEquation, ZenonT(30)
    <2>5. QuoteEnd(w, m, q) = IF w[m] = q THEN m + 1 ELSE QuoteEnd(w, QuoteNext(w, m), q)
      BY <1>1, <2>2, QuoteEquation
    <2>6. CASE s[k] = q
      <3>1. e = k + 1 /\ QuoteEnd(w, m, q) = m + 1
        BY <2>3, <2>4, <2>5, <2>6
      <3>2. QED
        BY <1>1, <3>1
    <2>7. CASE s[k] # q
      <3> DEFINE j == QuoteNext(s, k)
      <3>1. j \in (k + 1)..(Len(s) + 1)
        BY <1>1 DEF QuoteNext
      <3>2. QuoteEnd(s, j, q) = e
        BY <2>4, <2>7
      <3>3. e \in (j + 1)..(Len(s) + 1)
        <4>1. j \in 1..(Len(s) + 1) /\ e # 0
          BY <1>1, <3>1
        <4> HIDE DEF j
        <4>2. QED
          BY <1>1, <3>2, <4>1, QuoteEndRange
      <3>4. QuoteEnd(w, j - i + 1, q) = e - i + 1
        <4>1. j \in P /\ i < j
          BY <1>1, <1>3, <3>1
        <4> HIDE DEF j
        <4>2. QED
          BY <3>2, <4>1
      <3>5. QuoteNext(w, m) = j - i + 1
        <4>1. CASE s[k] = Escape /\ k < Len(s)
          <5>1. j = k + 2
            BY <4>1 DEF QuoteNext
          <5>2. m < Len(w)
            BY <1>1, <3>3, <5>1
          <5>3. QuoteNext(w, m) = m + 2
            BY <2>3, <4>1, <5>2 DEF QuoteNext
          <5> HIDE DEF j
          <5>4. QED
            BY <1>1, <5>1, <5>3
        <4>2. CASE s[k] = Escape /\ ~(k < Len(s))
          <5>1. j = Len(s) + 1
            <6>1. k = Len(s)
              BY <1>1, <4>2
            <6>2. QED
              BY <4>2, <6>1 DEF QuoteNext
          <5> HIDE DEF j
          <5>2. QED
            BY <1>1, <3>3, <5>1
        <4>3. CASE s[k] # Escape
          <5>1. j = k + 1 /\ QuoteNext(w, m) = m + 1
            BY <2>3, <4>3 DEF QuoteNext
          <5> HIDE DEF j
          <5>2. QED
            BY <1>1, <5>1
        <4>4. QED
          BY <4>1, <4>2, <4>3
      <3> HIDE DEF j, m
      <3>6. QuoteEnd(w, m, q) = e - i + 1
        BY <2>3, <2>5, <2>7, <3>4, <3>5
      <3>7. QED
        BY <3>6 DEF m
    <2>8. QED
      BY <2>6, <2>7
  <1>4. 1..(Len(s) + 1) \subseteq P
    <2> HIDE DEF P
    <2> QED
      BY <1>1, <1>2, <1>3, DownTo
  <1>5. i + 1 \in P /\ i < i + 1 /\ i + 1 - i + 1 = 2
    BY <1>1, <1>4
  <1>6. QED
    BY <1>5 DEF e

\* The exponents of a number are in it, with their digits.
LEMMA ExponentApart ==
  ASSUME NEW C, NEW s \in Seq(C), NEW w \in Seq(C), NEW i \in 1..Len(s),
         TokenEnd(s, i) \in (i + 1)..(Len(s) + 1), SetApart(s, i, w),
         TokenEnd(s, i) \notin NumberRun(s, i),
         NEW k \in 1..(TokenEnd(s, i) - i), StartsExponent(s, i - 1 + k)
  PROVE  StartsExponent(w, k)
  <1> DEFINE e == TokenEnd(s, i)
             K == i - 1 + k
  <1>1. e \in (i + 1)..(Len(s) + 1) /\ Len(s) \in Nat /\ e \notin NumberRun(s, i)
    OBVIOUS
  <1>2. K \in i..(e - 1) /\ K \in Nat /\ K <= Len(s) /\ K < e /\ i <= K
        /\ K + 1 \in Nat \ {0} /\ K + 2 \in Nat \ {0}
    <2>1. K \in Nat /\ i <= K
      OBVIOUS
    <2>2. e \in Nat /\ K < e /\ e <= Len(s) + 1
      BY <1>1
    <2>3. Len(s) \in Nat /\ i \in Nat
      BY <1>1
    <2> HIDE DEF K, e
    <2>4. K + 1 \in Nat \ {0} /\ K + 2 \in Nat \ {0}
      BY <2>1
    <2>5. QED
      BY <2>1, <2>2, <2>3, <2>4
  <1>3. \A j \in Nat \ {0} : j <= e - i => Char(w, j) = Char(s, i - 1 + j)
    BY ApartChar, ZenonT(30)
  <1>4. \A j \in 1..(e - i) : w[j] = s[i - 1 + j]
    BY DEF SetApart
  <1> HIDE DEF e
  <1>5. w[k] = "e"
    BY <1>4 DEF StartsExponent, e
  <1>6. ASSUME NEW j \in Nat, j < e, InNumber(s, j + 1), j + 1 <= Len(s), i <= j
        PROVE  j + 1 < e
    <2>1. j + 1 \in NumberRun(s, i)
      BY <1>6 DEF NumberRun
    <2>2. j + 1 # e
      BY <1>1, <2>1
    <2>3. QED
      BY <1>1, <1>6, <2>2
  <1>7. ASSUME NEW j \in Nat \ {0}, Char(s, j) # "eof" PROVE j <= Len(s) /\ Char(s, j) = s[j]
    BY <1>1, <1>7, CharIs
  <1>8. CASE Char(s, K + 1) = Digit
    <2>1. K + 1 <= Len(s) /\ s[K + 1] = Digit
      BY <1>2, <1>7, <1>8 DEF Digit
    <2>2. K + 1 < e
      <3>1. InNumber(s, K + 1)
        BY <2>1 DEF InNumber
      <3> HIDE DEF K
      <3>2. QED
        BY <1>2, <1>6, <2>1, <3>1
    <2>3. k + 1 <= e - i /\ k + 1 \in Nat \ {0} /\ i - 1 + (k + 1) = K + 1
      BY <1>1, <2>2
    <2>4. Char(w, k + 1) = Digit
      BY <1>3, <1>8, <2>3
    <2>5. QED
      BY <1>5, <2>4 DEF StartsExponent
  <1>9. CASE Char(s, K + 1) \in {"+", "-"} /\ Char(s, K + 2) = Digit
    <2>1. K + 1 <= Len(s) /\ s[K + 1] \in {"+", "-"}
      BY <1>2, <1>7, <1>9
    <2>2. K + 2 <= Len(s) /\ s[K + 2] = Digit
      BY <1>2, <1>7, <1>9 DEF Digit
    <2>3. K + 1 < e
      <3>1. K + 1 - 1 = K
        BY <1>2
      <3>2. InNumber(s, K + 1)
        BY <2>1, <3>1 DEF InNumber
      <3> HIDE DEF K
      <3>3. QED
        BY <1>2, <1>6, <2>1, <3>2
    <2>4. K + 2 < e
      <3>1. K + 1 \in Nat /\ K + 1 + 1 = K + 2 /\ i <= K + 1
        BY <1>2
      <3>2. QED
        BY <1>6, <2>2, <2>3, <3>1 DEF InNumber
    <2>5. /\ k + 1 <= e - i /\ k + 1 \in Nat \ {0} /\ i - 1 + (k + 1) = K + 1
          /\ k + 2 <= e - i /\ k + 2 \in Nat \ {0} /\ i - 1 + (k + 2) = K + 2
      BY <1>1, <2>4
    <2>6. Char(w, k + 1) \in {"+", "-"} /\ Char(w, k + 2) = Digit
      BY <1>3, <1>9, <2>5
    <2>7. QED
      BY <1>5, <2>6 DEF StartsExponent
  <1>10. QED
    BY <1>8, <1>9 DEF StartsExponent

\* A token that is set apart from what stood beside it is the same token.  The
\* backslash at the end of a text is a token that would take a character along.
LEMMA StandsAlone ==
  ASSUME NEW C, NEW s \in Seq(C), NEW w \in Seq(C), NEW i \in 1..Len(s),
         SkipEnd(s, i) = i, TokenEnd(s, i) # 0, SetApart(s, i, w),
         s[i] = Escape /\ TokenEnd(s, i) = i + 1 => Len(w) = 1
  PROVE  SkipEnd(w, 1) = 1 /\ TokenEnd(w, 1) = TokenEnd(s, i) - i + 1
  <1> DEFINE e == TokenEnd(s, i)
             n == e - i
  <1>0. e \in (i + 1)..(Len(s) + 1)
    BY TokenEndRange
  <1>1. /\ n \in Nat /\ n > 0 /\ n \in Nat \ {0} /\ i + n = e /\ e <= Len(s) + 1
        /\ Len(w) \in Nat /\ Len(s) \in Nat
        /\ i \in Nat /\ i > 0 /\ DOMAIN s = 1..Len(s) /\ DOMAIN w = 1..Len(w)
        /\ n + 1 = e - i + 1 /\ n <= Len(w)
    <2>1. n <= Len(w)
      BY DEF SetApart
    <2>2. /\ n \in Nat /\ n > 0 /\ n \in Nat \ {0} /\ i + n = e /\ e <= Len(s) + 1
          /\ i \in Nat /\ i > 0 /\ n + 1 = e - i + 1
      BY <1>0
    <2>3. Len(w) \in Nat /\ Len(s) \in Nat /\ DOMAIN s = 1..Len(s) /\ DOMAIN w = 1..Len(w)
      OBVIOUS
    <2>4. QED
      BY <2>1, <2>2, <2>3
  <1>2. /\ n <= Len(w)
        /\ \A k \in 1..n : w[k] = s[i - 1 + k]
        /\ Len(w) = n \/ w[n + 1] = " "
    BY DEF SetApart
  <1>3. /\ \A k \in Nat \ {0} : k <= n => Char(w, k) = Char(s, i - 1 + k)
        /\ Char(w, n + 1) \in {" ", "eof"}
    <2>1. n + 1 \in Nat \ {0} /\ n + 1 = TokenEnd(s, i) - i + 1
      BY <1>1
    <2>2. QED
      BY <1>0, <2>1, ApartChar
  <1>4. w[1] = s[i] /\ 1 \in 1..Len(w) /\ 1 \in 1..n
    <2> HIDE DEF n
    <2>1. 1 \in 1..n /\ i - 1 + 1 = i /\ 1 \in 1..Len(w)
      BY <1>1
    <2>2. w[1] = s[i - 1 + 1]
      BY <1>2, <2>1
    <2>3. QED
      BY <2>1, <2>2
  <1>5. Char(w, 2) = Char(s, i + 1) \/ Char(w, 2) \in {" ", "eof"}
    <2>1. CASE n = 1
      <3>1. n + 1 = 2
        BY <2>1
      <3>2. QED
        BY <1>3, <3>1
    <2>2. CASE n > 1
      <3>1. 2 \in Nat \ {0} /\ 2 <= n /\ i - 1 + 2 = i + 1
        BY <1>1, <2>2
      <3>2. QED
        BY <1>3, <3>1
    <2>3. n = 1 \/ n > 1
      BY <1>1
    <2>4. QED
      BY <2>1, <2>2, <2>3
  <1>6. SkipEnd(w, 1) = 1
    <2>1. s[i] \notin Blanks \cup {"#", "?"} /\ ~(s[i] = Escape /\ Char(s, i + 1) = "n")
      BY SkipEndRange
    <2>2. w[1] \notin Blanks \cup {"#", "?"}
      BY <1>4, <2>1
    <2>3. ~(w[1] = Escape /\ Char(w, 1 + 1) = "n")
      <3>1. Char(w, 2) = "n" => Char(s, i + 1) = "n"
        BY <1>5
      <3>2. 1 + 1 = 2
        OBVIOUS
      <3>3. QED
        BY <1>4, <2>1, <3>1, <3>2
    <2>4. QED
      BY <2>2, <2>3, SkipKinds
  <1> HIDE DEF n
  <1>7. ASSUME NEW run, NEW own, NEW a \in {i, i + 1}, NEW b, b = a - i + 1,
               Len(s) + 1 \notin run, e = PastRun(s, a, run),
               \A k \in 1..n : i - 1 + k \in run => k \in own,
               own \subseteq 1..Len(w), n + 1 \notin own
        PROVE  PastRun(w, b, own) = n + 1
    <2>1. a \in 1..(Len(s) + 1) /\ b \in 1..2 /\ b \in 1..(Len(w) + 1) /\ b <= n + 1
          /\ b \in Nat
      <3>1. a = i \/ a = i + 1
        OBVIOUS
      <3>2. i <= Len(s)
        OBVIOUS
      <3>3. CASE a = i
        BY <1>1, <1>7, <3>2, <3>3
      <3>4. CASE a = i + 1
        BY <1>1, <1>7, <3>2, <3>4
      <3>5. QED
        BY <3>1, <3>3, <3>4
    <2>2. \A k \in a..(e - 1) : k \in run
      BY <1>1, <1>7, <2>1, PastRunIs
    <2>3. \A k \in b..n : k \in own
      <3> SUFFICES ASSUME NEW k \in b..n PROVE k \in own
        OBVIOUS
      <3>1. i - 1 + k \in a..(e - 1) /\ k \in 1..n
        BY <1>1, <1>7, <2>1
      <3>2. QED
        BY <1>7, <2>2, <3>1
    <2>4. n + 1 \in b..(Len(w) + 1) /\ n + 1 - 1 = n
      BY <1>1, <2>1
    <2>7. Len(w) + 1 \notin own
      BY <1>1, <1>7
    <2>5. PastRun(w, b, own) = n + 1
      <3> DEFINE z == n + 1
      <3>1. z \in b..(Len(w) + 1) /\ z \notin own /\ \A k \in b..(z - 1) : k \in own
        <4>1. \A k \in b..(z - 1) : k \in own
          BY <1>1, <2>3, <2>4
        <4>2. QED
          BY <1>7, <2>4, <4>1
      <3> HIDE DEF z
      <3>2. PastRun(w, b, own) = z
        BY <1>1, <2>1, <2>7, <3>1, PastRunAt
      <3>3. QED
        BY <3>2 DEF z
    <2>6. QED
      BY <2>5
  <1>8. \A x : x \in 1..Len(w) /\ x = n + 1 => w[x] = " "
    <2>1. ASSUME n + 1 \in 1..Len(w), Len(w) = n PROVE FALSE
      BY <1>1, <2>1
    <2>2. QED
      BY <1>2, <2>1
  <1>9. i - i + 1 = 1 /\ i + 1 - i + 1 = 2 /\ i + 1 <= Len(s) + 1
    BY <1>1
  <1>10. CASE s[i] \in Quotes
    <2>1. QuoteEnd(s, i + 1, s[i]) = TokenEnd(s, i)
      BY <1>10, TokenKinds
    <2>2. QuoteEnd(w, 2, s[i]) = TokenEnd(s, i) - i + 1
      BY <1>0, <2>1, QuoteApart
    <2>3. TokenEnd(w, 1) = QuoteEnd(w, 1 + 1, w[1])
      BY <1>4, <1>10, TokenKinds
    <2>4. QED
      BY <1>4, <1>6, <2>2, <2>3
  <1>11. CASE StartsNumber(s, i)
    <2> DEFINE run == {i} \cup NumberRun(s, i)
               own == {1} \cup NumberRun(w, 1)
    <2>1. e = PastRun(s, i, run)
      BY <1>11, TokenKinds
    <2>2. Len(s) + 1 \notin run
      BY <1>1 DEF NumberRun
    <2>3. e \notin NumberRun(s, i)
      <3>1. i \in 1..(Len(s) + 1)
        BY <1>1
      <3> HIDE DEF run
      <3>2. e \notin run
        BY <1>1, <2>1, <2>2, <3>1, PastRunIs
      <3>3. QED
        BY <3>2 DEF run
    <2>4. ASSUME NEW k \in 1..n, StartsExponent(s, i - 1 + k) PROVE StartsExponent(w, k)
      BY <1>0, <2>3, <2>4, ExponentApart DEF n
    <2>5. ASSUME NEW k \in 2..n, InNumber(s, i - 1 + k) PROVE InNumber(w, k)
      <3> DEFINE K == i - 1 + k
      <3>0. k \in 1..n /\ k - 1 \in 1..n /\ i - 1 + (k - 1) = K - 1 /\ k \in Nat
        BY <1>1
      <3>1. w[k] = s[K]
        BY <1>2, <3>0
      <3>2. CASE s[K] = Digit
        BY <3>1, <3>2 DEF InNumber
      <3>3. CASE s[K] = "." /\ Char(s, K + 1) # "."
        <4>1. CASE k < n
          <5>1. k + 1 \in Nat \ {0} /\ k + 1 <= n /\ i - 1 + (k + 1) = K + 1
            BY <1>1, <4>1
          <5>2. Char(w, k + 1) = Char(s, K + 1)
            BY <1>3, <5>1
          <5>3. QED
            BY <3>1, <3>3, <5>2 DEF InNumber
        <4>2. CASE k = n
          <5>1. Char(w, k + 1) # "."
            BY <1>3, <4>2
          <5>2. QED
            BY <3>1, <3>3, <5>1 DEF InNumber
        <4>3. QED
          BY <1>1, <4>1, <4>2
      <3>4. CASE StartsExponent(s, K)
        BY <2>4, <3>0, <3>4 DEF InNumber
      <3>5. CASE s[K] \in {"+", "-"} /\ StartsExponent(s, K - 1)
        <4>1. StartsExponent(w, k - 1)
          BY <2>4, <3>0, <3>5
        <4>2. QED
          BY <3>1, <3>5, <4>1 DEF InNumber
      <3>6. QED
        BY <2>5, <3>2, <3>3, <3>4, <3>5 DEF InNumber
    <2>6. ASSUME NEW k \in 1..n, i - 1 + k \in run PROVE k \in own
      <3>1. CASE k = 1
        BY <3>1
      <3>2. CASE k # 1
        <4>1. k \in 2..n /\ k \in 2..Len(w) /\ i - 1 + k # i
          BY <1>1, <3>2
        <4>2. InNumber(s, i - 1 + k)
          BY <2>6, <4>1 DEF NumberRun
        <4>3. InNumber(w, k)
          BY <2>5, <4>1, <4>2
        <4>4. QED
          BY <4>1, <4>3 DEF NumberRun
      <3>3. QED
        BY <3>1, <3>2
    <2>7. own \subseteq 1..Len(w)
      BY <1>1, <1>4 DEF NumberRun
    <2>8. n + 1 \notin own
      <3> SUFFICES ASSUME n + 1 \in own PROVE FALSE
        OBVIOUS
      <3>1. n + 1 \in NumberRun(w, 1) /\ n + 1 \in 1..Len(w)
        BY <1>1, <2>7
      <3>2. w[n + 1] = " "
        BY <1>8, <3>1
      <3>3. InNumber(w, n + 1)
        BY <3>1 DEF NumberRun
      <3>4. QED
        BY <3>2, <3>3 DEF InNumber, StartsExponent, Digit
    <2>9. StartsNumber(w, 1)
      <3>1. CASE s[i] = Digit
        BY <1>4, <3>1 DEF StartsNumber
      <3>2. CASE s[i] = "." /\ Char(s, i + 1) = Digit
        <4>1. i + 1 \in Nat \ {0} /\ i + 1 - 1 = i
          BY <1>1
        <4>2. i + 1 <= Len(s) /\ s[i + 1] = Digit
          BY <1>1, <3>2, <4>1, CharIs DEF Digit
        <4>3. i + 1 \in NumberRun(s, i)
          BY <1>1, <4>1, <4>2 DEF NumberRun, InNumber
        <4>4. i + 1 # e
          BY <2>3, <4>3
        <4>5. 2 <= n /\ 2 \in Nat \ {0} /\ i - 1 + 2 = i + 1 /\ 1 + 1 = 2
          BY <1>1, <4>4
        <4>6. Char(w, 1 + 1) = Digit
          BY <1>3, <3>2, <4>5
        <4>7. QED
          BY <1>4, <3>2, <4>6 DEF StartsNumber
      <3>3. QED
        BY <1>11, <3>1, <3>2 DEF StartsNumber
    <2>10. TokenEnd(w, 1) = PastRun(w, 1, own)
      BY <2>9, TokenKinds
    <2> HIDE DEF run, own
    <2>11. PastRun(w, 1, own) = n + 1
      BY <1>7, <1>9, <2>1, <2>2, <2>6, <2>7, <2>8
    <2>12. QED
      BY <1>1, <1>6, <1>9, <2>10, <2>11
  <1>12. /\ Len(s) + 1 \notin NameRun(s) /\ NameRun(w) \subseteq 1..Len(w)
         /\ \A k \in 1..n : i - 1 + k \in NameRun(s) => k \in NameRun(w)
         /\ n + 1 \notin NameRun(w)
    <2>1. \A k \in 1..n : k \in 1..Len(w)
      BY <1>1
    <2>2. " " \notin Letters \cup {Digit}
      BY DEF Letters, Digit
    <2>3. \A k \in 1..n : i - 1 + k \in NameRun(s) => k \in NameRun(w)
      BY <1>1, <1>2, <2>1 DEF NameRun
    <2>4. n + 1 \notin NameRun(w)
      BY <1>1, <1>8, <2>2 DEF NameRun
    <2>5. QED
      BY <1>1, <2>3, <2>4 DEF NameRun
  <1>13. CASE s[i] \in Letters
    <2>1. e = PastRun(s, i, NameRun(s)) /\ TokenEnd(w, 1) = PastRun(w, 1, NameRun(w))
      BY <1>4, <1>13, TokenKinds
    <2>2. PastRun(w, 1, NameRun(w)) = n + 1
      BY <1>7, <1>9, <1>12, <2>1
    <2>3. QED
      BY <1>1, <1>6, <1>9, <2>1, <2>2
  <1>14. CASE StartsPair(s, i)
    <2>1. e = i + 2 /\ n = 2
      <3>1. e = i + 2
        BY <1>14, TokenKinds
      <3>2. QED
        BY <1>1, <3>1
    <2>2. 2 \in Nat \ {0} /\ 2 <= n /\ i - 1 + 2 = i + 1 /\ 1 + 1 = 2
      BY <1>1, <2>1
    <2>3. Char(w, 1 + 1) = Char(s, i + 1)
      BY <1>3, <2>2
    <2>4. StartsPair(w, 1)
      BY <1>4, <1>14, <2>3 DEF StartsPair
    <2>5. TokenEnd(w, 1) = 1 + 2
      BY <2>4, TokenKinds
    <2>6. QED
      BY <1>1, <1>6, <2>1, <2>5
  <1>15. CASE s[i] = "%"
    <2>1. e = PastRun(s, i, PercentRun(s)) /\ TokenEnd(w, 1) = PastRun(w, 1, PercentRun(w))
      BY <1>4, <1>15, TokenKinds
    <2>2. Len(s) + 1 \notin PercentRun(s) /\ PercentRun(w) \subseteq 1..Len(w)
      BY <1>1 DEF PercentRun
    <2>3. \A k \in 1..n : i - 1 + k \in PercentRun(s) => k \in PercentRun(w)
      <3>1. \A k \in 1..n : k \in 1..Len(w)
        BY <1>1
      <3>2. QED
        BY <1>1, <1>2, <3>1 DEF PercentRun
    <2>4. n + 1 \notin PercentRun(w)
      BY <1>1, <1>8 DEF PercentRun
    <2>5. PastRun(w, 1, PercentRun(w)) = n + 1
      BY <1>7, <1>9, <2>1, <2>2, <2>3, <2>4
    <2>6. QED
      BY <1>1, <1>6, <1>9, <2>1, <2>5
  <1>16. CASE s[i] = "&"
    <2>1. e = PastRun(s, i + 1, NameRun(s)) /\ TokenEnd(w, 1) = PastRun(w, 1 + 1, NameRun(w))
      BY <1>4, <1>16, TokenKinds
    <2>2. PastRun(w, 2, NameRun(w)) = n + 1
      <3> DEFINE a == i + 1
      <3>1. a \in {i, i + 1} /\ 2 = a - i + 1 /\ e = PastRun(s, a, NameRun(s))
        BY <1>9, <2>1
      <3> HIDE DEF a
      <3>2. QED
        BY <1>7, <1>12, <3>1
    <2>3. 1 + 1 = 2
      OBVIOUS
    <2>4. QED
      BY <1>1, <1>6, <1>9, <2>1, <2>2, <2>3
  <1>17. CASE s[i] = Escape
    <2>1. e = IF i < Len(s) THEN i + 2 ELSE i + 1
      BY <1>17, TokenKinds
    <2>2. TokenEnd(w, 1) = IF 1 < Len(w) THEN 1 + 2 ELSE 1 + 1
      BY <1>4, <1>17, TokenKinds
    <2>3. CASE e = i + 1
      <3>1. Len(w) = 1
        BY <1>17, <2>3
      <3>2. QED
        BY <1>1, <1>6, <2>2, <2>3, <3>1
    <2>4. CASE e = i + 2
      <3>1. 1 < Len(w)
        BY <1>1, <2>4
      <3>2. QED
        BY <1>1, <1>6, <2>2, <2>4, <3>1
    <2>5. QED
      BY <2>1, <2>3, <2>4
  <1>18. CASE /\ s[i] \notin Quotes /\ ~StartsNumber(s, i) /\ s[i] \notin Letters
              /\ ~StartsPair(s, i) /\ s[i] # "%" /\ s[i] # "&" /\ s[i] # Escape
    <2>1. e = i + 1 /\ s[i] \in Singles
      <3>1. TokenEnd(s, i) = IF s[i] \in Singles THEN i + 1 ELSE 0
        BY <1>18, TokenKinds
      <3>2. QED
        BY <3>1
    <2>2. Char(w, 1 + 1) \in {" ", "eof"}
      <3>1. n = 1
        BY <1>1, <2>1
      <3>2. QED
        BY <1>3, <3>1
    <2>3. ~StartsPair(w, 1)
      BY <2>2, PairFacts DEF StartsPair
    <2>4. ~StartsNumber(w, 1)
      BY <1>4, <1>18, <2>2 DEF StartsNumber, Digit
    <2>5. TokenEnd(w, 1) = IF w[1] \in Singles THEN 1 + 1 ELSE 0
      BY <1>4, <1>18, <2>3, <2>4, TokenKinds
    <2>6. QED
      BY <1>1, <1>4, <1>6, <2>1, <2>5
  <1>19. QED
    BY <1>10, <1>11, <1>13, <1>14, <1>15, <1>16, <1>17, <1>18

\* Only a literal and the range operator itself hold a range.
LEMMA RangesStandAlone ==
  ASSUME NEW C, NEW s \in Seq(C), NEW i, NEW t, TakenAt(s, i, t), HoldsRange(t)
  PROVE  Len(t) = 2 \/ t[1] \in Quotes
  <1> DEFINE e == TokenEnd(s, i)
  <1>1. i \in 1..Len(s) /\ Len(s) \in Nat /\ t = SubSeq(s, i, e - 1) /\ e # 0
    BY DEF TakenAt
  <1>2. e \in (i + 1)..(Len(s) + 1)
    BY <1>1, TokenEndRange
  <1>3. Len(t) = e - i /\ \A j \in 1..(e - i) : t[j] = s[i + j - 1]
    <2>1. e - 1 \in i..Len(s) /\ e - 1 - i + 1 = e - i
      BY <1>1, <1>2
    <2> HIDE DEF e
    <2>2. QED
      BY <1>1, <2>1, SubSeqIs
  <1>4. PICK j \in 1..(Len(t) - 1) : t[j] = "." /\ t[j + 1] = "."
    BY DEF HoldsRange
  <1> DEFINE K == i + j - 1
  <1>5. /\ K \in i..(e - 1) /\ K \in Nat \ {0} /\ K + 1 \in Nat \ {0} /\ K + 1 <= Len(s)
        /\ i + 2 <= e /\ K \in 1..Len(s) /\ (K = i \/ K \in (i + 1)..Len(s)) /\ i \in 1..(Len(s) + 1)
    <2>1. e \in Nat /\ Len(t) = e - i /\ e > i
      BY <1>1, <1>2, <1>3
    <2>2. Len(t) \in Nat /\ j \in Nat /\ j > 0 /\ j <= Len(t) - 1
      BY <1>1, <2>1
    <2>3. K \in Nat /\ i <= K /\ K + 1 < e /\ e <= Len(s) + 1
      BY <1>1, <1>2, <2>1, <2>2
    <2> HIDE DEF K, e
    <2>4. QED
      BY <1>1, <2>1, <2>3
  <1>6. s[K] = "." /\ s[K + 1] = "." /\ Char(s, K + 1) = "."
    <2>1. j \in 1..(e - i) /\ j + 1 \in 1..(e - i) /\ i + (j + 1) - 1 = K + 1
      BY <1>1, <1>2, <1>3, <1>4
    <2>2. s[K] = "." /\ s[K + 1] = "."
      BY <1>3, <1>4, <2>1
    <2>3. QED
      BY <1>5, <2>2, CharIs
  <1> HIDE DEF K
  <1>7. ASSUME NEW run, e = PastRun(s, i, run), Len(s) + 1 \notin run PROVE K \in run
    BY <1>1, <1>5, <1>7, PastRunIs
  <1>8. CASE s[i] \in Quotes
    <2>1. 1 \in 1..(e - i) /\ i + 1 - 1 = i
      BY <1>1, <1>2
    <2>2. QED
      BY <1>3, <1>8, <2>1
  <1>9. CASE StartsNumber(s, i)
    <2> DEFINE run == {i} \cup NumberRun(s, i)
    <2>1. e = PastRun(s, i, run) /\ Len(s) + 1 \notin run
      BY <1>1, <1>9, TokenKinds DEF NumberRun
    <2>2. K \in run
      <3> HIDE DEF run
      <3> QED
        BY <1>7, <2>1
    <2>3. K # i
      BY <1>6, <1>9 DEF StartsNumber, Digit
    <2>4. InNumber(s, K)
      BY <2>2, <2>3 DEF NumberRun
    <2>5. QED
      BY <1>6, <2>4 DEF InNumber, StartsExponent, Digit
  <1>10. Len(s) + 1 \notin NameRun(s) /\ Len(s) + 1 \notin PercentRun(s)
         /\ K \notin NameRun(s) /\ K \notin PercentRun(s)
    BY <1>1, <1>6 DEF NameRun, PercentRun, Letters, Digit
  <1>11. CASE s[i] \in Letters
    <2>1. e = PastRun(s, i, NameRun(s))
      BY <1>11, TokenKinds
    <2>2. QED
      BY <1>7, <1>10, <2>1
  <1>12. CASE StartsPair(s, i)
    <2>1. e = i + 2
      BY <1>12, TokenKinds
    <2>2. QED
      BY <1>1, <1>3, <2>1
  <1>13. CASE s[i] = "%"
    <2>1. e = PastRun(s, i, PercentRun(s))
      BY <1>13, TokenKinds
    <2>2. QED
      BY <1>7, <1>10, <2>1
  <1>14. CASE s[i] = "&"
    <2>1. e = PastRun(s, i + 1, NameRun(s))
      BY <1>14, TokenKinds
    <2>2. K # i
      BY <1>6, <1>14
    <2>3. K \in (i + 1)..(e - 1) /\ i + 1 \in 1..(Len(s) + 1)
      BY <1>1, <1>2, <1>5, <2>2
    <2>4. K \in NameRun(s)
      BY <1>1, <1>10, <2>1, <2>3, PastRunIs
    <2>5. QED
      BY <1>10, <2>4
  <1>15. CASE s[i] = Escape
    <2>1. e = i + 2 \/ e = i + 1
      BY <1>15, TokenKinds
    <2>2. QED
      BY <1>1, <1>3, <1>5, <2>1
  <1>16. CASE e = IF s[i] \in Singles THEN i + 1 ELSE 0
    <2>1. e = i + 1
      BY <1>1, <1>16
    <2>2. QED
      BY <1>1, <1>5, <2>1
  <1>17. QED
    BY <1>8, <1>9, <1>11, <1>12, <1>13, <1>14, <1>15, <1>16, TokenKinds

\* Every token of a text is taken from it; a backslash alone is the last one.
FromText(s, tokens) ==
  \A j \in 1..Len(tokens) :
    \/ tokens[j] = Broken
    \/ \E i \in 1..Len(s) :
         /\ TakenAt(s, i, tokens[j])
         /\ s[i] = Escape /\ TokenEnd(s, i) = i + 1 => j = Len(tokens)

LEMMA TokensFromText ==
  ASSUME NEW C, NEW s \in Seq(C), NEW k \in 1..(Len(s) + 1)
  PROVE  FromText(s, TokensFrom(s, k))
  <1> DEFINE P == {l \in 1..(Len(s) + 1) : FromText(s, TokensFrom(s, l))}
  <1>0. Len(s) \in Nat
    OBVIOUS
  <1>1. Len(s) + 1 \in P
    <2>1. TokensFrom(s, Len(s) + 1) = <<>>
      BY TokensEquation
    <2>2. QED
      BY <1>0, <2>1 DEF FromText
  <1>2. ASSUME NEW l \in 1..Len(s), \A j \in (l + 1)..(Len(s) + 1) : j \in P
        PROVE  l \in P
    <2> DEFINE b == SkipEnd(s, l)
               e == TokenEnd(s, l)
    <2>1. b \in l..(Len(s) + 1) /\ (e = 0 \/ e \in (l + 1)..(Len(s) + 1))
      BY SkipEndRange, TokenEndRange
    <2>2. TokensFrom(s, l) = IF b > l THEN TokensFrom(s, b)
                             ELSE IF e = 0 THEN <<Broken>>
                             ELSE <<SubSeq(s, l, e - 1)>> \o TokensFrom(s, e)
      BY TokensEquation
    <2>3. CASE b > l
      BY <1>2, <2>1, <2>2, <2>3
    <2>4. CASE ~(b > l) /\ e = 0
      <3>1. TokensFrom(s, l) = <<Broken>>
        BY <2>2, <2>4
      <3> HIDE DEF b, e
      <3>2. \A j \in 1..Len(<<Broken>>) : <<Broken>>[j] = Broken
        OBVIOUS
      <3>3. FromText(s, <<Broken>>)
        BY <3>2 DEF FromText
      <3>4. QED
        BY <3>1, <3>3
    <2>5. CASE ~(b > l) /\ e # 0
      <3> DEFINE t == SubSeq(s, l, e - 1)
                 rest == TokensFrom(s, e)
                 all == TokensFrom(s, l)
      <3>1. b = l /\ e \in (l + 1)..(Len(s) + 1)
        BY <2>1, <2>5
      <3>2. TakenAt(s, l, t)
        BY <2>5, <3>1 DEF TakenAt
      <3>3. rest \in Seq(Seq(C)) /\ FromText(s, rest)
        BY <1>2, <3>1, TokensEquation
      <3>4. t \in Seq(C)
        <4>1. e - 1 \in l..Len(s)
          BY <1>0, <3>1
        <4> HIDE DEF e
        <4>2. QED
          BY <4>1, SubSeqIs
      <3>5. all = <<t>> \o rest
        BY <2>2, <2>5
      <3>6. s[l] = Escape /\ e = l + 1 => rest = <<>>
        <4> SUFFICES ASSUME s[l] = Escape, e = l + 1 PROVE rest = <<>>
          OBVIOUS
        <4>1. e = IF l < Len(s) THEN l + 2 ELSE l + 1
          BY TokenKinds
        <4>2. e = Len(s) + 1
          BY <1>0, <4>1
        <4>3. QED
          BY <4>2, TokensEquation
      <3> HIDE DEF t, rest, all, b
      <3>7. Len(rest) \in Nat /\ Len(all) = 1 + Len(rest) /\ all[1] = t
            /\ \A j \in 1..Len(rest) : all[1 + j] = rest[j]
        <4>1. <<t>> \in Seq(Seq(C)) /\ Len(<<t>>) = 1 /\ <<t>>[1] = t
          BY <3>4
        <4> DEFINE D == Seq(C)
        <4> HIDE DEF D
        <4>2. Len(<<t>> \o rest) = Len(<<t>>) + Len(rest)
              /\ \A j \in 1..(Len(<<t>>) + Len(rest)) :
                   (<<t>> \o rest)[j] = IF j <= Len(<<t>>) THEN <<t>>[j] ELSE rest[j - Len(<<t>>)]
          BY <3>3, <4>1, ConcatProperties DEF D
        <4>3. Len(rest) \in Nat
          BY <3>3
        <4>4. QED
          BY <3>5, <4>1, <4>2, <4>3
      <3>8. ASSUME NEW j \in 1..Len(all)
            PROVE  \/ all[j] = Broken
                   \/ \E i \in 1..Len(s) :
                        /\ TakenAt(s, i, all[j])
                        /\ s[i] = Escape /\ TokenEnd(s, i) = i + 1 => j = Len(all)
        <4>1. CASE j = 1
          <5>1. s[l] = Escape /\ e = l + 1 => j = Len(all)
            <6>1. rest = <<>> => Len(rest) = 0
              OBVIOUS
            <6>2. QED
              BY <3>6, <3>7, <4>1, <6>1
          <5>2. QED
            BY <3>2, <3>7, <4>1, <5>1
        <4>2. CASE j > 1
          <5>1. j - 1 \in 1..Len(rest) /\ 1 + (j - 1) = j
            BY <3>7, <4>2
          <5>2. all[j] = rest[j - 1]
            BY <3>7, <5>1
          <5>3. \/ rest[j - 1] = Broken
                \/ \E i \in 1..Len(s) :
                     /\ TakenAt(s, i, rest[j - 1])
                     /\ s[i] = Escape /\ TokenEnd(s, i) = i + 1 => j - 1 = Len(rest)
            BY <3>3, <5>1 DEF FromText
          <5>4. j - 1 = Len(rest) => j = Len(all)
            BY <3>7
          <5>5. QED
            BY <5>2, <5>3, <5>4
        <4>3. QED
          BY <3>7, <4>1, <4>2
      <3>9. FromText(s, all)
        BY <3>8 DEF FromText
      <3>10. QED
        BY <3>9 DEF all
    <2>6. QED
      BY <2>3, <2>4, <2>5
  <1>3. 1..(Len(s) + 1) \subseteq P
    <2> HIDE DEF P
    <2> QED
      BY <1>0, <1>1, <1>2, DownTo
  <1>4. QED
    BY <1>3

-----------------------------------------------------------------------------
(* The tokens set apart *)

\* The blank is one of the characters C.
HasBlank(C) == " " \in C

LEMMA OneElement ==
  ASSUME NEW C, NEW c \in C
  PROVE  <<c>> \in Seq(C)
  OBVIOUS

LEMMA BlankText ==
  ASSUME NEW C, HasBlank(C)
  PROVE  <<" ">> \in Seq(C)
  <1> DEFINE blank == " "
  <1>1. blank \in C
    BY DEF HasBlank
  <1> HIDE DEF blank
  <1>2. <<blank>> \in Seq(C)
    BY <1>1, OneElement
  <1>3. QED
    BY ONLY <1>2 DEF blank

LEMMA SpacedEquation ==
  ASSUME NEW C, HasBlank(C), NEW tokens \in Seq(Seq(C))
  PROVE  /\ SpacedFrom(tokens, Len(tokens) + 1) = <<>>
         /\ \A k \in 1..Len(tokens) :
              SpacedFrom(tokens, k) = <<" ">> \o tokens[k] \o SpacedFrom(tokens, k + 1)
         /\ \A k \in 1..(Len(tokens) + 1) : SpacedFrom(tokens, k) \in Seq(C)
  <1> DEFINE n == Len(tokens)
             X == Seq(C)
             made(k, x) == <<" ">> \o tokens[k] \o x
             next == [k \in 1..n |-> k + 1]
             join == [p \in (1..n) \X X |-> made(p[1], p[2])]
             body(f, k) == IF k > n THEN <<>> ELSE <<" ">> \o tokens[k] \o f[k + 1]
             Is(f) == f = [k \in 1..(n + 1) |-> body(f, k)]
             from == CHOOSE f : Is(f)
  <1>0. n \in Nat
    OBVIOUS
  <1>1. \A k \in 1..n, x \in X : made(k, x) \in X
    <2> SUFFICES ASSUME NEW k \in 1..n, NEW x \in X PROVE made(k, x) \in X
      OBVIOUS
    <2>1. tokens[k] \in X
      BY ElementOfSeq
    <2>2. <<" ">> \in X
      BY BlankText
    <2> HIDE DEF X
    <2>3. <<" ">> \o tokens[k] \in X
      BY <2>1, <2>2, ConcatProperties DEF X
    <2>4. QED
      BY <2>3, ConcatProperties DEF X
  <1> HIDE DEF made
  <1>2. \A k \in 1..n : next[k] = k + 1 /\ next[k] \in (k + 1)..(n + 1)
    BY <1>0
  <1>3. \A k \in 1..n, x \in X : join[<<k, x>>] = made(k, x)
    OBVIOUS
  <1> HIDE DEF next, join
  <1>4. CanDescend(X, n, next, join)
    BY <1>1, <1>2, <1>3 DEF CanDescend
  <1>5. <<>> \in X
    OBVIOUS
  <1>6. PICK f : Descends(f, X, <<>>, n, next, join)
    <2> HIDE DEF X, n
    <2> QED
      BY <1>0, <1>4, <1>5, DescentExists
  <1>7. /\ n + 1 \in 1..(n + 1) /\ n + 1 > n
        /\ \A k \in 1..n : k \in 1..(n + 1) /\ ~(k > n) /\ k + 1 \in 1..(n + 1)
        /\ \A k \in 1..(n + 1) : (k > n /\ k = n + 1) \/ (~(k > n) /\ k \in 1..n)
    BY <1>0
  <1> HIDE DEF X, n
  <1>8. Is(f)
    <2>1. f \in [1..(n + 1) -> X] /\ f[n + 1] = <<>>
          /\ \A k \in 1..n : f[k] = join[<<k, f[next[k]]>>]
      BY <1>6 DEF Descends
    <2>2. \A k \in 1..n : f[k] = made(k, f[k + 1])
      BY <1>2, <1>3, <1>7, <2>1
    <2>3. \A k \in 1..(n + 1) : f[k] = body(f, k)
      BY <1>7, <2>1, <2>2 DEF made
    <2> HIDE DEF body
    <2>4. QED
      BY <2>1, <2>3
  <1>9. Is(from)
    <2> HIDE DEF Is
    <2> QED
      BY <1>8
  <1>10. \A k : SpacedFrom(tokens, k) = from[k]
    BY DEF SpacedFrom, n
  <1> HIDE DEF from
  <1>11. \A k \in 1..(n + 1) : from[k] = body(from, k)
    <2> HIDE DEF body
    <2> QED
      BY <1>9
  <1>12. from[n + 1] = <<>> /\ \A k \in 1..n : from[k] = made(k, from[k + 1])
    BY <1>7, <1>11 DEF made
  <1>13. \A k \in 1..(n + 1) : from[k] \in X
    <2> DEFINE P == {k \in 1..(n + 1) : from[k] \in X}
    <2>1. n + 1 \in P
      BY <1>5, <1>7, <1>12
    <2>2. ASSUME NEW k \in 1..n, \A j \in (k + 1)..(n + 1) : j \in P PROVE k \in P
      <3>1. k + 1 \in (k + 1)..(n + 1)
        BY <1>0
      <3>2. QED
        BY <1>1, <1>7, <1>12, <2>2, <3>1
    <2> HIDE DEF P
    <2>3. 1..(n + 1) \subseteq P
      BY <1>0, <2>1, <2>2, DownTo
    <2>4. QED
      BY <2>3 DEF P
  <1>14. QED
    BY <1>7, <1>10, <1>12, <1>13 DEF X, n, made

\* v is set apart from what stands before it.
BeginsApart(v) == v # <<>> => v[1] = " "

\* A token, a blank before it, and what is set apart behind it.
LEMMA NextToken ==
  ASSUME NEW C, HasBlank(C), NEW s \in Seq(C), NEW v \in Seq(C), NEW i, NEW t,
         TakenAt(s, i, t), BeginsApart(v),
         s[i] = Escape /\ TokenEnd(s, i) = i + 1 => v = <<>>
  PROVE  Tokenize(<<" ">> \o t \o v) = <<t>> \o Tokenize(v)
  <1> DEFINE e == TokenEnd(s, i)
             n == e - i
             w == t \o v
             blank == <<" ">>
             u == blank \o w
  <1>1. i \in 1..Len(s) /\ Len(s) \in Nat /\ SkipEnd(s, i) = i /\ e # 0 /\ t = SubSeq(s, i, e - 1)
    BY DEF TakenAt
  <1>2. e \in (i + 1)..(Len(s) + 1)
    BY <1>1, TokenEndRange
  <1>3. /\ n \in Nat /\ n > 0 /\ n \in 1..n /\ 1 \in 1..n /\ n + 1 = e - i + 1 /\ n + 1 # 0
        /\ e - 1 \in i..Len(s) /\ e - 1 - i + 1 = n
    BY <1>1, <1>2
  <1> HIDE DEF e, n
  <1>4. t \in Seq(C) /\ Len(t) = n /\ \A j \in 1..n : t[j] = s[i + j - 1]
    BY <1>1, <1>3, SubSeqIs
  <1>5. w \in Seq(C) /\ Len(w) = n + Len(v) /\ Len(v) \in Nat
        /\ \A j \in 1..(n + Len(v)) : w[j] = IF j <= n THEN t[j] ELSE v[j - n]
    <2>1. /\ w \in Seq(C) /\ Len(w) = Len(t) + Len(v)
          /\ \A j \in 1..(Len(t) + Len(v)) : w[j] = IF j <= Len(t) THEN t[j] ELSE v[j - Len(t)]
      BY <1>4, ConcatProperties
    <2>2. Len(t) = n /\ Len(v) \in Nat
      BY <1>4
    <2> HIDE DEF w
    <2>3. QED
      BY <2>1, <2>2
  <1>6. (\A j \in 1..n : w[j] = t[j]) /\ \A j \in 1..Len(v) : w[n + j] = v[j]
    <2> HIDE DEF w
    <2>1. \A j \in 1..n : j \in 1..(n + Len(v)) /\ j <= n
      BY <1>3, <1>5
    <2>2. \A j \in 1..Len(v) : n + j \in 1..(n + Len(v)) /\ ~(n + j <= n) /\ n + j - n = j
      BY <1>3, <1>5
    <2>3. \A j \in 1..n : w[j] = t[j]
      BY <1>5, <2>1
    <2>4. ASSUME NEW j \in 1..Len(v) PROVE w[n + j] = v[j]
      <3> DEFINE at == n + j
      <3>1. at \in 1..(n + Len(v)) /\ ~(at <= n) /\ at - n = j
        BY <1>3, <1>5
      <3> HIDE DEF at
      <3>2. w[at] = v[at - n]
        BY <1>5, <3>1
      <3>3. QED
        BY <3>1, <3>2 DEF at
    <2>5. QED
      BY <2>3, <2>4
  <1>7. blank \in Seq(C) /\ Len(blank) = 1 /\ blank[1] \in Blanks
    <2>1. blank \in Seq(C)
      BY BlankText
    <2>2. Len(blank) = 1 /\ blank[1] \in Blanks
      BY DEF Blanks
    <2>3. QED
      BY <2>1, <2>2
  <1> HIDE DEF blank
  <1>8. blank \o t \o v = u
    <2>1. t \in Seq(C) /\ blank \in Seq(C)
      BY <1>4, <1>7
    <2> HIDE DEF blank
    <2>2. QED
      BY <2>1, ConcatAssociative
  <1> HIDE DEF w
  <1>9. u \in Seq(C) /\ Len(u) = 1 + Len(w) /\ u[1] \in Blanks
        /\ \A j \in 1..Len(w) : u[1 + j] = w[j]
    <2>1. /\ u \in Seq(C) /\ Len(u) = Len(blank) + Len(w)
          /\ \A j \in 1..(Len(blank) + Len(w)) :
               u[j] = IF j <= Len(blank) THEN blank[j] ELSE w[j - Len(blank)]
      BY <1>5, <1>7, ConcatProperties
    <2>2. Len(w) \in Nat
      BY <1>5
    <2> HIDE DEF u
    <2>3. QED
      BY <1>7, <2>1, <2>2
  <1> HIDE DEF u
  <1>10. EndsWith(u, 1, w) /\ EndsWith(w, n, v)
    BY <1>5, <1>6, <1>9 DEF EndsWith
  <1>11. Len(w) \in Nat /\ 1 \in 1..(Len(w) + 1) /\ 1 \in 1..(Len(v) + 1) /\ 1 \in 1..Len(w)
         /\ 1 \in 1..Len(u) /\ n \in 1..Len(w) /\ 1 + 1 = 2 /\ 2 > 1
    BY <1>3, <1>5, <1>9
  <1>12. TokensFrom(u, 1) = TokensFrom(w, 1)
    <2>1. SkipEnd(u, 1) = 2
      <3>1. SkipEnd(u, 1) = 1 + 1
        BY <1>9, SkipKinds
      <3>2. QED
        BY <3>1
    <2>2. TokensFrom(u, 1) = TokensFrom(u, 2)
      <3>1. TokensFrom(u, 1) = IF SkipEnd(u, 1) > 1 THEN TokensFrom(u, SkipEnd(u, 1))
              ELSE IF TokenEnd(u, 1) = 0 THEN <<Broken>>
              ELSE <<SubSeq(u, 1, TokenEnd(u, 1) - 1)>> \o TokensFrom(u, TokenEnd(u, 1))
        BY <1>9, <1>11, TokensEquation
      <3>2. QED
        BY <1>11, <2>1, <3>1
    <2>3. TokensFrom(u, 1 + 1) = TokensFrom(w, 1)
      BY <1>5, <1>9, <1>10, <1>11, TokensShift
    <2>4. QED
      BY <1>11, <2>2, <2>3
  <1>13. SkipEnd(w, 1) = 1 /\ TokenEnd(w, 1) = n + 1
    <2>1. SetApart(s, i, w)
      <3>1. \A k \in 1..n : w[k] = s[i - 1 + k]
        <4>1. \A k \in 1..n : i + k - 1 = i - 1 + k
          BY <1>1, <1>3
        <4>2. QED
          BY <1>4, <1>6, <4>1
      <3>2. n <= Len(w)
        BY <1>11
      <3>3. Len(w) = n \/ w[n + 1] = " "
        <4>1. CASE v = <<>>
          <5>1. Len(v) = 0
            BY <4>1
          <5>2. QED
            BY <1>3, <1>5, <5>1
        <4>2. CASE v # <<>>
          <5>1. Len(v) # 0
            BY <4>2, EmptySeq
          <5>2. 1 \in 1..Len(v)
            BY <1>5, <5>1
          <5>3. w[n + 1] = v[1]
            BY <1>6, <5>2
          <5>4. v[1] = " "
            BY <4>2 DEF BeginsApart
          <5>5. QED
            BY ONLY <5>3, <5>4
        <4>3. QED
          BY <4>1, <4>2
      <3>4. QED
        BY <3>1, <3>2, <3>3 DEF SetApart, n, e
    <2>2. s[i] = Escape /\ TokenEnd(s, i) = i + 1 => Len(w) = 1
      <3> SUFFICES ASSUME s[i] = Escape, e = i + 1 PROVE Len(w) = 1
        BY DEF e
      <3>1. Len(v) = 0
        <4>1. v = <<>>
          BY DEF e
        <4>2. QED
          BY <4>1
      <3>2. n = 1
        BY <1>1 DEF n
      <3>3. QED
        BY <1>5, <3>1, <3>2
    <2>3. SkipEnd(w, 1) = 1 /\ TokenEnd(w, 1) = TokenEnd(s, i) - i + 1
      BY <1>1, <1>5, <2>1, <2>2, StandsAlone DEF e
    <2>4. QED
      BY <2>3 DEF n, e
  <1>14. TokensFrom(w, 1) = <<SubSeq(w, 1, n)>> \o TokensFrom(w, n + 1)
    <2>1. TokensFrom(w, 1) = IF SkipEnd(w, 1) > 1 THEN TokensFrom(w, SkipEnd(w, 1))
            ELSE IF TokenEnd(w, 1) = 0 THEN <<Broken>>
            ELSE <<SubSeq(w, 1, TokenEnd(w, 1) - 1)>> \o TokensFrom(w, TokenEnd(w, 1))
      BY <1>5, <1>11, TokensEquation
    <2>2. TokenEnd(w, 1) - 1 = n /\ ~(SkipEnd(w, 1) > 1) /\ TokenEnd(w, 1) # 0
      <3>1. ~(SkipEnd(w, 1) > 1)
        BY <1>13
      <3>2. TokenEnd(w, 1) # 0 /\ TokenEnd(w, 1) - 1 = n
        BY <1>3, <1>13
      <3>3. QED
        BY <3>1, <3>2
    <2>3. QED
      BY <1>13, <2>1, <2>2
  <1>15. SubSeq(w, 1, n) = t
    <2>1. /\ SubSeq(w, 1, n) \in Seq(C) /\ Len(SubSeq(w, 1, n)) = n - 1 + 1
          /\ \A j \in 1..(n - 1 + 1) : SubSeq(w, 1, n)[j] = w[1 + j - 1]
      BY <1>5, <1>11, SubSeqIs
    <2>2. n - 1 + 1 = n /\ \A j \in 1..n : 1 + j - 1 = j
      BY <1>3
    <2>3. Len(SubSeq(w, 1, n)) = Len(t) /\ \A j \in 1..Len(t) : SubSeq(w, 1, n)[j] = t[j]
      BY <1>4, <1>6, <2>1, <2>2
    <2>4. QED
      BY <1>4, <2>1, <2>3, SeqEqual
  <1>16. TokensFrom(w, n + 1) = TokensFrom(v, 1)
    BY <1>3, <1>5, <1>10, <1>11, TokensShift
  <1>17. QED
    BY <1>8, <1>12, <1>14, <1>15, <1>16 DEF Tokenize, blank

LEMMA BlankFirst ==
  ASSUME NEW C, HasBlank(C), NEW t \in Seq(C), NEW x \in Seq(C)
  PROVE  BeginsApart(<<" ">> \o t \o x)
  <1> DEFINE blank == <<" ">>
             y == t \o x
  <1>1. blank \in Seq(C) /\ y \in Seq(C)
    BY BlankText, ConcatProperties
  <1>2. Len(blank) = 1
    OBVIOUS
  <1>3. blank[1] = " "
    OBVIOUS
  <1> HIDE DEF blank
  <1>4. blank \o t \o x = blank \o y
    BY <1>1, ConcatAssociative
  <1> HIDE DEF y
  <1>5. (blank \o y)[1] = blank[1]
    <2>1. \A i \in 1..(Len(blank) + Len(y)) :
            (blank \o y)[i] = IF i <= Len(blank) THEN blank[i] ELSE y[i - Len(blank)]
      BY <1>1, ConcatProperties
    <2>2. 1 \in 1..(Len(blank) + Len(y)) /\ 1 <= Len(blank)
      <3>1. Len(y) \in Nat
        BY <1>1
      <3>2. QED
        BY <1>2, <3>1
    <2>3. QED
      BY <2>1, <2>2
  <1>6. (blank \o t \o x)[1] = " "
    BY ONLY <1>3, <1>4, <1>5
  <1>7. QED
    BY <1>6 DEF BeginsApart, blank

\* The tokens of a text, set apart by blanks, are read as they are.
LEMMA SpacedTokens ==
  ASSUME NEW C, HasBlank(C), NEW s \in Seq(C), NEW tokens, tokens = Tokenize(s),
         \A j \in 1..Len(tokens) : tokens[j] # Broken
  PROVE  Tokenize(Spaced(tokens)) = tokens
  <1> DEFINE n == Len(tokens)
             X == Seq(C)
             P == {k \in 1..(n + 1) : Tokenize(SpacedFrom(tokens, k)) = SubSeq(tokens, k, n)}
  <1>1. tokens \in Seq(X) /\ FromText(s, tokens)
    <2>1. 1 \in 1..(Len(s) + 1)
      OBVIOUS
    <2>2. QED
      BY <2>1, TokensEquation, TokensFromText DEF Tokenize
  <1>2. n \in Nat
    BY <1>1
  <1>3. /\ SpacedFrom(tokens, n + 1) = <<>>
        /\ \A k \in 1..n : SpacedFrom(tokens, k) = <<" ">> \o tokens[k] \o SpacedFrom(tokens, k + 1)
        /\ \A k \in 1..(n + 1) : SpacedFrom(tokens, k) \in X
    BY <1>1, SpacedEquation
  <1> HIDE DEF X
  <1>4. \A k \in 1..n : tokens[k] \in X
    BY <1>1, ElementOfSeq
  <1>5. n + 1 \in P
    <2>1. Tokenize(<<>>) = <<>>
      <3> DEFINE none == <<>>
      <3>1. none \in Seq(C) /\ Len(none) + 1 = 1
        OBVIOUS
      <3> HIDE DEF none
      <3>2. TokensFrom(none, 1) = <<>>
        BY <3>1, TokensEquation
      <3>3. QED
        BY <3>2 DEF Tokenize, none
    <2>2. SubSeq(tokens, n + 1, n) = <<>>
      <3> HIDE DEF n
      <3>1. n < n + 1 /\ n \in Int /\ n + 1 \in Int
        BY <1>2
      <3>2. QED
        BY <3>1, SubSeqEmpty
    <2>3. n + 1 \in 1..(n + 1)
      BY <1>2
    <2>4. Tokenize(SpacedFrom(tokens, n + 1)) = SubSeq(tokens, n + 1, n)
      BY <1>3, <2>1, <2>2
    <2> HIDE DEF n
    <2>5. QED
      BY <2>3, <2>4
  <1>6. ASSUME NEW k \in 1..n, \A j \in (k + 1)..(n + 1) : j \in P PROVE k \in P
    <2> DEFINE v == SpacedFrom(tokens, k + 1)
               t == tokens[k]
    <2>1. /\ k \in 1..(n + 1) /\ k + 1 \in 1..(n + 1) /\ k + 1 \in (k + 1)..(n + 1)
          /\ n \in k..n /\ (k = n \/ k + 1 \in 1..n) /\ \A i \in 1..n : i + 1 \in 1..(n + 1)
      BY <1>2
    <2>2. v \in Seq(C) /\ t \in Seq(C)
      BY <1>3, <1>4, <2>1 DEF X
    <2>3. BeginsApart(v)
      <3>1. CASE k = n
        BY <1>3, <3>1 DEF BeginsApart
      <3>2. CASE k + 1 \in 1..n
        <4> DEFINE x == SpacedFrom(tokens, k + 1 + 1)
                   y == tokens[k + 1]
        <4>1. x \in Seq(C) /\ y \in Seq(C)
          BY <1>3, <1>4, <2>1, <3>2 DEF X
        <4>2. v = <<" ">> \o y \o x
          BY <1>3, <3>2
        <4> HIDE DEF x, y, v
        <4>3. QED
          BY <4>1, <4>2, BlankFirst
      <3>3. QED
        BY <2>1, <3>1, <3>2
    <2>4. PICK i \in 1..Len(s) :
            TakenAt(s, i, t) /\ (s[i] = Escape /\ TokenEnd(s, i) = i + 1 => k = n)
      <3>1. tokens[k] # Broken
        OBVIOUS
      <3> HIDE DEF v
      <3>2. QED
        BY <1>1, <3>1 DEF FromText
    <2>5. k = n => v = <<>>
      BY <1>3
    <2> HIDE DEF v, t
    <2>6. Tokenize(<<" ">> \o t \o v) = <<t>> \o Tokenize(v)
      <3>1. TakenAt(s, i, t) /\ (s[i] = Escape /\ TokenEnd(s, i) = i + 1 => v = <<>>)
        BY <2>4, <2>5
      <3>2. QED
        BY <2>2, <2>3, <3>1, NextToken, ZenonT(30)
    <2>7. Tokenize(v) = SubSeq(tokens, k + 1, n)
      BY <1>6, <2>1 DEF v
    <2>8. SpacedFrom(tokens, k) = <<" ">> \o t \o v
      BY <1>3 DEF t, v
    <2>9. SubSeq(tokens, k, n) = <<t>> \o SubSeq(tokens, k + 1, n)
      BY <1>1, <2>1, SubSeqRecursiveFirst DEF t
    <2>10. Tokenize(SpacedFrom(tokens, k)) = SubSeq(tokens, k, n)
      BY ONLY <2>6, <2>7, <2>8, <2>9
    <2> HIDE DEF n
    <2>11. QED
      BY <2>1, <2>10
  <1>7. 1 \in P
    <2>1. 1 \in 1..(n + 1)
      BY <1>2
    <2> HIDE DEF P, n
    <2>2. QED
      BY <1>2, <1>5, <1>6, <2>1, DownTo
  <1>8. SubSeq(tokens, 1, n) = tokens
    BY <1>1, SubSeqFull
  <1>9. QED
    BY <1>7, <1>8 DEF Spaced

-----------------------------------------------------------------------------

\* A line is a sequence of characters.
LEMMA LineIsText == LineSpec => [](line \in Seq(Chars))
  <1>1. LineInit => line \in Seq(Chars)
    BY DEF LineInit
  <1>2. line \in Seq(Chars) /\ [\E c \in Chars : TypeChar(c)]_line => (line \in Seq(Chars))'
    BY DEF TypeChar
  <1>3. QED
    BY <1>1, <1>2, PTL DEF LineSpec

\* Whatever the characters and the length of a line, its tokens set apart by
\* blanks are read as the same tokens, and only a literal or the operator .. holds
\* a range (tokenizer.go 104-459).
THEOREM TokensAreApart == LineSpec => []TokensStandAlone
  <1>1. line \in Seq(Chars) => TokensStandAlone
    <2> DEFINE C == Chars \cup {" "}
               tokens == Tokenize(line)
    <2> SUFFICES ASSUME line \in Seq(Chars), \A i \in DOMAIN tokens : tokens[i] # Broken
                 PROVE  /\ Tokenize(Spaced(tokens)) = tokens
                        /\ \A i \in DOMAIN tokens :
                             HoldsRange(tokens[i]) => Len(tokens[i]) = 2 \/ tokens[i][1] \in Quotes
      BY DEF TokensStandAlone
    <2>1. HasBlank(C)
      BY DEF HasBlank
    <2>2. line \in Seq(C)
      <3>1. Chars \subseteq C
        OBVIOUS
      <3> HIDE DEF C, tokens
      <3>2. QED
        BY <3>1, SeqMonotonic
    <2> HIDE DEF C
    <2>3. tokens \in Seq(Seq(C)) /\ FromText(line, tokens)
      <3>1. 1 \in 1..(Len(line) + 1)
        BY <2>2
      <3>2. QED
        BY <2>2, <3>1, TokensEquation, TokensFromText DEF Tokenize
    <2>4. DOMAIN tokens = 1..Len(tokens)
      BY <2>3
    <2>5. Tokenize(Spaced(tokens)) = tokens
      <3> HIDE DEF tokens
      <3>1. tokens = Tokenize(line)
        BY DEF tokens
      <3>2. QED
        BY <2>1, <2>2, <2>4, <3>1, SpacedTokens
    <2>6. ASSUME NEW j \in DOMAIN tokens, HoldsRange(tokens[j])
          PROVE  Len(tokens[j]) = 2 \/ tokens[j][1] \in Quotes
      <3>1. PICK i \in 1..Len(line) : TakenAt(line, i, tokens[j])
        BY <2>3, <2>4 DEF FromText
      <3> HIDE DEF tokens
      <3>2. QED
        BY <2>2, <2>6, <3>1, RangesStandAlone
    <2>7. QED
      BY <2>5, <2>6
  <1>2. QED
    BY <1>1, LineIsText, PTL
=============================================================================
