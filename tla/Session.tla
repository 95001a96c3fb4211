------------------------------- MODULE Session -------------------------------
(***************************************************************************)
(* What outlives a statement, a failure or a process: the names of a       *)
(* session, the file of save and read (src/src/save_read.go) and the       *)
(* package that with loads (loader.go, biWith in builtins.go).             *)
(*                                                                         *)
(* The source files of the package, which are not in the repository, are   *)
(* those up to the one that defines ComputeRanking, which with looks for,  *)
(* and those after it.  Failing reads and statements of a package file     *)
(* are errors a program may catch, so it goes on after them.  A crash      *)
(* while the file is written leaves a part of the text.                    *)
(***************************************************************************)
EXTENDS Naturals, SequencesExt

CONSTANTS
  Plain,        \* names that print as they are
  Guard,        \* DifferentialThomas/ComputeRanking
  MaxSaved      \* bound: names in a save

ASSUME SessionAssumption == Guard \notin Plain /\ MaxSaved \in Nat

VARIABLES
  globals,      \* it.globals: the names the program uses, and Guard
  package,      \* what else of the package there is: "none", "part", "all"
  exported,     \* it.exports has the public names of the package
  file,         \* the file on disk, empty at first: its statements, and whether
                \* the last is whole
  saving,       \* the text of the save under way, or empty
  saved,        \* ghost: the text of the last save that finished
  cut,          \* ghost: the last save was cut off, by a crash or the disk
  broken        \* ghost: a load failed after Guard was there, or Guard is the program's

vars == <<globals, package, exported, file, saving, saved, cut, broken>>
disk == <<file, saving, saved, cut>>
loading == <<package, exported, broken>>

Names == Plain \cup {Guard}

\* Values: a symbol, a procedure by its own name, the empty sequence, and any other.
Unbound == <<"unbound">>
Empty == <<"empty">>
Other == <<"other">>
Symbol(n) == <<"name", n>>
Proc(n) == <<"proc", n>>

Init ==
  /\ globals = [n \in Names |-> Unbound]
  /\ package = "none" /\ exported = FALSE
  /\ file = [text |-> << >>, whole |-> TRUE]
  /\ saving = << >> /\ saved = << >> /\ cut = FALSE
  /\ broken = FALSE

Idle == saving = << >>

\* evalName and resolveRefForStore: the value an expression n gives its name.
ValueIn(g, n) == IF g[n] = Unbound THEN Symbol(n) ELSE g[n]

Resolved(g, v) == IF v[1] = "name" /\ g[v[2]][1] = "proc" THEN g[v[2]] ELSE v

\* n := 1, n := NULL, n := 'm', n := m, n := proc() ... end.  Bound: the program
\* gives Guard one value only.
Assignable(n) ==
  IF n = Guard THEN {Other}
  ELSE {Other, Empty, Proc(n)}
       \cup {Resolved(globals, Symbol(m)) : m \in Names}
       \cup {Resolved(globals, ValueIn(globals, m)) : m \in Names}

Assign(n) ==
  /\ Idle
  /\ \E v \in Assignable(n) : globals' = [globals EXCEPT ![n] = v]
  /\ broken' = (broken \/ n = Guard)
  /\ UNCHANGED <<disk, package, exported>>

-----------------------------------------------------------------------------
(* save *)

\* printValue, inverted by the reader of the file: a procedure prints as its name,
\* without the backticks that a name with a slash needs; the empty sequence prints
\* as nothing, and no file with it parses.
Printed(v) ==
  IF v[1] # "proc" THEN v ELSE IF v[2] \in Plain THEN Symbol(v[2]) ELSE Other

Text(ns) == [i \in DOMAIN ns |-> [name |-> ns[i], value |-> Printed(globals[ns[i]]),
                                  was |-> globals[ns[i]]]]

Assigned(ns) == \A i \in DOMAIN ns : globals[ns[i]] # Unbound

\* Fault for mutation: the names are written to the open file one by one.
RefusedLate(ns) == file' = [text |-> << >>, whole |-> TRUE]

Refused(ns) == UNCHANGED file

\* The text is built first, so that a name without a value is an error before the
\* file is touched.  os.WriteFile then empties the file.
SaveBegins(ns) ==
  /\ Idle
  /\ Assigned(ns)
  /\ saving' = Text(ns)
  /\ file' = [text |-> << >>, whole |-> TRUE]
  /\ UNCHANGED <<globals, loading, saved, cut>>

SaveRefuses(ns) ==
  /\ Idle
  /\ ~Assigned(ns)
  /\ Refused(ns)
  /\ UNCHANGED <<globals, loading, saving, saved, cut>>

Save == \E ns \in UNION {{f \in [1..k -> Names] : IsInjective(f)} : k \in 1..MaxSaved} :
          SaveBegins(ns) \/ SaveRefuses(ns)

SaveEnds ==
  /\ ~Idle
  /\ file' = [text |-> saving, whole |-> TRUE]
  /\ saved' = saving /\ saving' = << >>
  /\ cut' = FALSE
  /\ UNCHANGED <<globals, loading>>

\* A part of the text: whole statements, and perhaps a part of the next.
CutOff ==
  /\ cut' = TRUE /\ saving' = << >> /\ saved' = << >>
  /\ \E k \in 0..Len(saving), whole \in BOOLEAN :
       /\ k = Len(saving) => whole
       /\ file' = [text |-> SubSeq(saving, 1, IF whole THEN k ELSE k + 1), whole |-> whole]

\* os.WriteFile fails, with what it has written left in the file.
SaveFails ==
  /\ ~Idle
  /\ CutOff
  /\ UNCHANGED <<globals, loading>>

-----------------------------------------------------------------------------
(* read *)

\* Fault for mutation: a statement that fails is passed over.
StepOver(s, stmt) ==
  IF stmt.name = Guard THEN s
  ELSE LET v == IF stmt.value[1] = "name" THEN ValueIn(s.globals, stmt.value[2])
                ELSE stmt.value
       IN  [s EXCEPT !.globals[stmt.name] = Resolved(s.globals, v)]

\* One statement of the file.  The value is evaluated once more; a name with a
\* slash is a quotient without its backticks, which cannot be assigned to.
Step(s, stmt) ==
  IF ~s.ok \/ stmt.name = Guard THEN [s EXCEPT !.ok = FALSE]
  ELSE LET v == IF stmt.value[1] = "name" THEN ValueIn(s.globals, stmt.value[2])
                ELSE stmt.value
       IN  [s EXCEPT !.globals[stmt.name] = Resolved(s.globals, v)]

Run(text) ==
  LET after[i \in 0..Len(text)] ==
        IF i = 0 THEN [globals |-> globals, ok |-> TRUE] ELSE Step(after[i - 1], text[i])
  IN  after[Len(text)]

Parses(text) == \A i \in DOMAIN text : text[i].value # Empty

\* A part of a statement may not parse, may be another expression, or may assign
\* another value.
Readings ==
  IF file.whole THEN {file.text}
  ELSE LET t == file.text
       IN  {Front(t), [t EXCEPT ![Len(t)].value = Empty],
            [t EXCEPT ![Len(t)].value = Other], t}

\* The whole file is parsed before its statements run in the session; the first
\* that fails ends the read, and those before it have happened.
ReadEnds(ok) ==
  /\ Idle
  /\ \E text \in Readings :
       LET end == IF Parses(text) THEN Run(text) ELSE [globals |-> globals, ok |-> FALSE]
       IN  end.ok = ok /\ globals' = end.globals
  /\ UNCHANGED <<loading, disk>>

-----------------------------------------------------------------------------
(* with *)

\* Fault for mutation: a package is loaded once its list of functions is made.
LoadBegun == package # "none"

Loaded == globals[Guard] # Unbound

\* LoadDifferentialThomas: it empties the lists of the package, then the files run in
\* order, then init and the wrappers.  It may fail anywhere; what was defined stays.
Load ==
  /\ package' = "all"
  /\ globals' = [globals EXCEPT ![Guard] = Proc(Guard)]
  /\ UNCHANGED broken

LoadFails ==
  /\ package' = "part"
  /\ \/ UNCHANGED <<globals, broken>>
     \/ /\ globals' = [globals EXCEPT ![Guard] = Proc(Guard)]
        /\ broken' = TRUE

\* biWith: the package is there if ComputeRanking is; the public names are
\* registered when nothing failed.
With ==
  /\ Idle
  /\ \/ /\ \/ ~Loaded /\ Load
           \/ Loaded /\ UNCHANGED <<globals, package, broken>>
        /\ exported' = TRUE
     \/ ~Loaded /\ LoadFails /\ UNCHANGED exported
  /\ UNCHANGED disk

\* The process ends, or crashes in the middle of a save.
Restart ==
  /\ IF Idle THEN UNCHANGED disk ELSE CutOff
  /\ globals' = [n \in Names |-> Unbound]
  /\ package' = "none" /\ exported' = FALSE /\ broken' = FALSE

Next ==
  \/ \E n \in Names : Assign(n)
  \/ Save \/ SaveEnds \/ SaveFails
  \/ \E ok \in BOOLEAN : ReadEnds(ok)
  \/ With
  \/ Restart

Spec == Init /\ [][Next]_vars

-----------------------------------------------------------------------------
(* Properties *)

\* Unless a save was cut off, the file between two statements is one finished save
\* as a whole: a save that is refused has not touched it (evalSave builds the text
\* before it writes).
FileIsOneSave == Idle /\ ~cut => file.text = saved /\ file.whole

\* A statement of the saved text means at read time what it meant when it was
\* written: it was no procedure, and the symbol it stands for is still free, in the
\* session and in the part of the file before it.
Free(m, i) ==
  /\ globals[m] \in {Unbound, Symbol(m)}
  /\ \A j \in 1..(i - 1) : file.text[j].name = m => file.text[j].value = Symbol(m)

Durable(i) ==
  LET v == file.text[i].was
  IN  /\ v[1] \in {"name", "other"}
      /\ v[1] = "name" => Free(v[2], i)

\* A read that answers has given every saved name its saved value, unless that was
\* a procedure or named something bound by now (evalSave, evalRead).
ReadRestores ==
  [][ReadEnds(TRUE) /\ ~cut =>
       \A i \in DOMAIN file.text :
         Durable(i) => globals'[file.text[i].name] = file.text[i].was]_vars

\* with has answered without the whole package only when an earlier load failed
\* after the file of ComputeRanking, or the program assigned that name itself
\* (biWith): an earlier failure is made good by the next with.
ExportedMeansLoaded == exported => package = "all" \/ broken

PlainSymmetry == Permutations(Plain)

=============================================================================
