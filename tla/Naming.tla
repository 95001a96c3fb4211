------------------------------- MODULE Naming -------------------------------
(***************************************************************************)
(* The names of requests (sage_cas.go 1149-1393 and 1402-1470).  The ring  *)
(* of a request has one generator per indeterminate of its operands: the   *)
(* jet u[1,0] travels as u_DT_1_0, and a table of the request maps it back.*)
(* A handle keeps the table of the request that made it, because its       *)
(* expression stays in the process under the names of that table; a later  *)
(* request with the handle merges the table into its own.                  *)
(*                                                                         *)
(* A flat name is a sequence of words, which "_" joins.  A word is a number *)
(* as it prints, "neg" and a number, or another text; an index is a word or *)
(* a negative number.  The algebra of the process is left out: the answer  *)
(* to a request has every generator of its operands, and two indeterminates*)
(* under one name are one generator.                                       *)
(***************************************************************************)
EXTENDS Naturals, SequencesExt, FiniteSetsExt

CONSTANTS
    Texts,       \* the words that are neither a number nor "neg" and one
    Atoms,       \* indeterminates: [head, idx], a bare name if idx is empty
    MaxCalls,    \* bound: requests
    MaxOperands  \* bound: operands of a request

Text(t)   == <<"text", t>>
Number(k) == <<"number", k>>
Neg(k)    == <<"neg", k>>
Minus(k)  == <<"minus", k>>

Word  == ({"text"} \X Texts) \cup ({"number", "neg"} \X Nat)
Index == Word \cup ({"minus"} \X (Nat \ {0}))
DT    == Text("DT")

ASSUME AtomsAssumption ==
    "DT" \in Texts /\ Atoms \subseteq [head : Seq(Word), idx : Seq(Index)]
ASSUME BoundsAssumption == MaxCalls \in Nat /\ MaxOperands \in Nat

VARIABLES
    answers,     \* the handles issued
    stale        \* those a statement boundary has materialized and cleared

vars == <<answers, stale>>

Handles  == DOMAIN answers
Operands == [atom : Atoms] \cup [ref : Handles]
IsRef(x) == "ref" \in DOMAIN x
IsLive(x) == IsRef(x) /\ x.ref \notin stale

-----------------------------------------------------------------------------
(* Flat names.                                                             *)

IsInteger(i) == i[1] \in {"number", "minus"}
IndexPart(i) == IF i[1] = "minus" THEN Neg(i[2]) ELSE i

Flat(a) ==
    IF a.idx = <<>> THEN a.head
    ELSE a.head \o <<DT>> \o [i \in DOMAIN a.idx |-> IndexPart(a.idx[i])]

Numbered(name, i) == IF i = 0 THEN name ELSE Append(name, Number(i))

\* Mutant: a name that is taken is taken over.
TakeOver(back, name, a) == name

\* The first number under which the name is free, or already that of the atom.
Dedupe(back, name, a) ==
    LET fits(i) == Numbered(name, i) \in DOMAIN back => back[Numbered(name, i)] = a
    IN  Numbered(name, Min({i \in 0..Cardinality(DOMAIN back) : fits(i)}))

-----------------------------------------------------------------------------
(* The tables of a request.  The names of its ring are those of back.      *)

\* A table with one entry more or changed, and one with what only another has.
With(f, x, v) == [y \in DOMAIN f \cup {x} |-> IF y = x THEN v ELSE f[y]]
Merged(f, g)  == [x \in DOMAIN f \cup DOMAIN g |-> IF x \in DOMAIN f THEN f[x] ELSE g[x]]

Empty == [fwd |-> <<>>, back |-> <<>>]

Sanitize(s, a) ==
    IF a \in DOMAIN s.fwd THEN s
    ELSE LET name == Dedupe(s.back, Flat(a), a)
         IN  [fwd |-> With(s.fwd, a, name), back |-> With(s.back, name, a)]

\* What a name of an answer is read back as.
Unsanitize(back, name) ==
    IF name \in DOMAIN back THEN back[name] ELSE [head |-> name, idx |-> <<>>]

Read(h) == {Unsanitize(answers[h].back, n) : n \in answers[h].gens}

\* Mutant: the tables of handles are left out.
CollectAtoms(s, x) == IF IsRef(x) THEN s ELSE Sanitize(s, x.atom)

\* The first table that has a name keeps it.
Collect(s, x) ==
    IF IsRef(x) THEN [s EXCEPT !.back = Merged(@, answers[x.ref].back)]
    ELSE Sanitize(s, x.atom)

\* What is registered before anything is printed.
Collected(args) ==
    LET after[i \in 0..Len(args)] ==
            IF i = 0 THEN Empty ELSE Collect(after[i - 1], args[i])
    IN  after[Len(args)]

\* Operands are registered once more when they are printed, the value of a
\* stale handle only then.
Printed(x) == IF ~IsRef(x) THEN {x.atom} ELSE IF IsLive(x) THEN {} ELSE Read(x.ref)

Encode(s, x) ==
    LET atoms == SetToSeq(Printed(x))
        after[i \in 0..Len(atoms)] ==
            IF i = 0 THEN s ELSE Sanitize(after[i - 1], atoms[i])
    IN  after[Len(atoms)]

Tables(args) ==
    LET after[i \in 0..Len(args)] ==
            IF i = 0 THEN Collected(args) ELSE Encode(after[i - 1], args[i])
    IN  after[Len(args)]

\* The generators an operand comes to in the process.
Sent(s, x) == IF IsLive(x) THEN answers[x.ref].gens ELSE {s.fwd[a] : a \in Printed(x)}

Meant(x) == IF IsRef(x) THEN answers[x.ref].meant ELSE {x.atom}

-----------------------------------------------------------------------------

Init == answers = <<>> /\ stale = {}

\* Ghosts: meant is what the answer is about; inOrder says that no request
\* behind it had a live handle but as its first operand.
Request(args) ==
    /\ Len(answers) < MaxCalls
    /\ LET s == Tables(args)
       IN  answers' = Append(answers,
             [gens    |-> UNION {Sent(s, x) : x \in Range(args)},
              back    |-> s.back,
              meant   |-> UNION {Meant(x) : x \in Range(args)},
              inOrder |-> \A i \in DOMAIN args : IsRef(args[i]) =>
                              /\ answers[args[i].ref].inOrder
                              /\ i = 1 \/ ~IsLive(args[i])])
    /\ UNCHANGED stale

\* ClearCache materializes what is live first.
Clear ==
    /\ stale # Handles
    /\ stale' = Handles
    /\ UNCHANGED answers

Next ==
    \/ \E args \in BoundedSeq(Operands, MaxOperands) : args # <<>> /\ Request(args)
    \/ Clear

Spec == Init /\ [][Next]_vars

-----------------------------------------------------------------------------

\* Every generator of an operand is in the ring of its request, also those a
\* handle brings along from a request made long before.
RingCoversOperands == \A h \in Handles : answers[h].gens \subseteq DOMAIN answers[h].back

\* What the differential algebra of the package uses: heads without the infix
\* and integer indices.
Ordinary(a) ==
    /\ DT \notin Range(a.head)
    /\ \A i \in DOMAIN a.idx : IsInteger(a.idx[i])

\* An answer is about the indeterminates of the operands, however many requests
\* it went through: always for ordinary names, and for all names as long as
\* handles come first.
NamesComeBack ==
    \A h \in Handles :
        (\/ answers[h].inOrder
         \/ \A a \in answers[h].meant : Ordinary(a)) => Read(h) = answers[h].meant

\* The promise of the comment on the tables (1164-1167): even pathological
\* names round-trip.  The code breaks this: a handle that is no first operand
\* brings names that a fresh atom may have taken.
PathologicalNamesComeBack == \A h \in Handles : Read(h) = answers[h].meant
=============================================================================
