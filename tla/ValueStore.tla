----------------------------- MODULE ValueStore ------------------------------
(***************************************************************************)
(* What a program may rely on about assignments: a list or a set is a      *)
(* value, a table is shared by all that refer to it.  An assignment        *)
(* therefore shows in one place, a name or a slot of one table, and        *)
(* nowhere else.                                                           *)
(*                                                                         *)
(* A value here is a whole tree in which only tables are references.  New  *)
(* tables may appear with any step, and tables nobody refers to vanish.    *)
(***************************************************************************)
CONSTANTS Names, Tables, NoValue, NoTable

VARIABLES
  names,      \* the value of each name
  tables,     \* the slots of each table, or NoTable
  remembered  \* the remembered result of the procedure

\* No name but those of ns and no table but those of ts changes.
Unchanged(ns, ts) ==
  LET before == tables
      after == tables'
  IN  /\ \A u \in Tables \ ts :
           before[u] # NoTable /\ after[u] # NoTable => after[u] = before[u]
      /\ LET was == names
             is == names'
         IN  \A m \in Names \ ns : is[m] = was[m]

\* A name is assigned, perhaps the result of a call that is then remembered.
Bind(n) ==
  /\ Unchanged({n}, {})
  /\ \/ remembered' = remembered
     \/ remembered = NoValue /\ remembered' = names'[n]

\* A slot of a table is assigned.
SetSlot(t) == Unchanged({}, {t}) /\ remembered' = remembered

Init ==
  /\ names = [n \in Names |-> NoValue]
  /\ tables = [t \in Tables |-> NoTable]
  /\ remembered = NoValue

\* The process ends, and a session starts afresh.
Restart ==
  /\ names' = [n \in Names |-> NoValue]
  /\ tables' = [t \in Tables |-> NoTable]
  /\ remembered' = NoValue

Next ==
  \/ \E n \in Names : Bind(n)
  \/ \E t \in Tables : SetSlot(t)
  \/ Restart

Spec == Init /\ [][Next]_<<names, tables, remembered>>

=============================================================================
