--------------------------- MODULE SageWire_proofs ---------------------------
(***************************************************************************)
(* Proofs about SageWire for any number of calls, processes and flushes.   *)
(* Nothing on the wire says which request an answer belongs to, so the     *)
(* invariant follows the lines: while the process is in use and not given  *)
(* up, its pipes hold at most the line that the interpreter waits for; in  *)
(* a process that was given up, only lines of the call it was given up in. *)
(***************************************************************************)
EXTENDS SageWire, FiniteSetTheorems, SequenceTheorems, TLAPS

-----------------------------------------------------------------------------
(* Sequences as pipes *)

Inside(s) == {s[i] : i \in DOMAIN s}
Once(s, r) == \A i, j \in DOMAIN s : s[i] = r /\ s[j] = r => i = j

LEMMA EmptyPipe ==
  /\ Inside(<<>>) = {} /\ Len(<<>>) = 0
  /\ \A r : Once(<<>>, r)
  /\ \A S : <<>> \in Seq(S)
  BY EmptySeq DEF Inside, Once

LEMMA PipeFacts ==
  ASSUME NEW S, NEW s \in Seq(S)
  PROVE  /\ Len(s) \in Nat /\ (Len(s) = 0 <=> s = <<>>)
         /\ Inside(s) \subseteq S
         /\ s = <<>> => Inside(s) = {}
  <1>1. Len(s) \in Nat /\ (Len(s) = 0 <=> s = <<>>) /\ DOMAIN s = 1..Len(s)
    BY LenProperties, EmptySeq
  <1>2. Inside(s) \subseteq S
    BY <1>1, ElementOfSeq DEF Inside
  <1>3. QED
    BY <1>1, <1>2, EmptyPipe

LEMMA AppendPipe ==
  ASSUME NEW S, NEW s \in Seq(S), NEW x \in S
  PROVE  /\ Append(s, x) \in Seq(S) /\ Len(Append(s, x)) = Len(s) + 1
         /\ Inside(Append(s, x)) = Inside(s) \cup {x}
         /\ \A r : Once(s, r) /\ (r = x => r \notin Inside(s)) => Once(Append(s, x), r)
  <1> DEFINE t == Append(s, x)
  <1>1. /\ t \in Seq(S) /\ Len(t) = Len(s) + 1 /\ Len(s) \in Nat
        /\ \A i \in 1..Len(s) : t[i] = s[i]
        /\ t[Len(s) + 1] = x
        /\ DOMAIN s = 1..Len(s) /\ DOMAIN t = 1..(Len(s) + 1)
    BY AppendProperties, LenProperties
  <1> HIDE DEF t
  <1>2. DOMAIN t = DOMAIN s \cup {Len(s) + 1} /\ Len(s) + 1 \notin DOMAIN s
    BY <1>1
  <1>3. Inside(t) = Inside(s) \cup {x}
    BY <1>1, <1>2 DEF Inside
  <1>4. ASSUME NEW r, Once(s, r), r = x => r \notin Inside(s) PROVE Once(t, r)
    <2> SUFFICES ASSUME NEW i \in DOMAIN t, NEW j \in DOMAIN t, t[i] = r, t[j] = r
                 PROVE  i = j
      BY DEF Once
    <2>1. ASSUME NEW k \in DOMAIN s, t[k] = r PROVE s[k] = r /\ r \in Inside(s)
      BY <1>1, <2>1 DEF Inside
    <2>2. QED
      BY <1>1, <1>2, <1>4, <2>1 DEF Once
  <1>5. QED
    BY <1>1, <1>3, <1>4 DEF t

LEMMA TailPipe ==
  ASSUME NEW S, NEW s \in Seq(S), s # <<>>
  PROVE  /\ Head(s) \in S /\ Head(s) \in Inside(s)
         /\ Tail(s) \in Seq(S) /\ Len(Tail(s)) = Len(s) - 1 /\ Len(s) \in Nat \ {0}
         /\ Inside(Tail(s)) \subseteq Inside(s)
         /\ \A r : Once(s, r) => Once(Tail(s), r)
         /\ Once(s, Head(s)) => Head(s) \notin Inside(Tail(s))
  <1> DEFINE t == Tail(s)
  <1>1. /\ t \in Seq(S) /\ Len(t) = Len(s) - 1 /\ Head(s) = s[1] /\ Head(s) \in S
        /\ \A i \in 1..Len(t) : t[i] = s[i + 1]
        /\ Len(s) \in Nat \ {0} /\ DOMAIN s = 1..Len(s) /\ DOMAIN t = 1..(Len(s) - 1)
    BY HeadTailProperties, LenProperties, EmptySeq
  <1> HIDE DEF t
  <1>2. 1 \in DOMAIN s /\ \A i \in DOMAIN t : i + 1 \in DOMAIN s /\ t[i] = s[i + 1] /\ i + 1 # 1
    BY <1>1
  <1>3. Head(s) \in Inside(s) /\ Inside(t) \subseteq Inside(s)
    BY <1>1, <1>2 DEF Inside
  <1>4. ASSUME NEW r, Once(s, r) PROVE Once(t, r)
    <2> SUFFICES ASSUME NEW i \in DOMAIN t, NEW j \in DOMAIN t, t[i] = r, t[j] = r
                 PROVE  i = j
      BY DEF Once
    <2>1. i + 1 = j + 1
      BY <1>2, <1>4 DEF Once
    <2>2. QED
      BY <1>1, <2>1
  <1>5. Once(s, Head(s)) => Head(s) \notin Inside(t)
    BY <1>1, <1>2 DEF Once, Inside
  <1>6. QED
    BY <1>1, <1>3, <1>4, <1>5 DEF t

-----------------------------------------------------------------------------
(* The inductive invariant *)

Clear == [kind |-> "clear", call |-> 0]
Op(c) == [kind |-> "op", call |-> c]
Sendable == {Clear} \cup {Op(c) : c \in CallNumbers}

Goroutines ==
  [at : {"none", "write", "look", "read", "done"}, req : Sendable \cup {Lost},
   to : Procs \cup {0}, from : Procs \cup {0}, line : Sendable \cup {Lost}]

TypeInv ==
  /\ bounded \in Budgets
  /\ status \in [Procs -> {"unborn", "running", "gone"}]
  /\ inbox \in [Procs -> Seq(Sendable)] /\ outbox \in [Procs -> Seq(Sendable)]
  /\ computed \in [CallNumbers -> Nat]
  /\ proc \in Procs \cup {0}
  /\ hasCmd \in BOOLEAN /\ dead \in BOOLEAN /\ pending \in BOOLEAN
  /\ frees \in 0..MaxFrees
  /\ calls \in Seq(Call) /\ Len(calls) <= MaxCalls
  /\ pc \in Waits \cup {"idle", "ensure", "flush", "send", "restart", "sendAgain"}
  /\ got \in CallNumbers \cup {0}
  /\ mine \in Goroutines /\ others \subseteq Goroutines

\* The goroutine the interpreter waits for has the request of this wait and the
\* pipes of the process in use.
MineInv ==
  /\ (mine.at = "none") = (pc \notin Waits)
  /\ mine.at = "none" => mine = NoSend
  /\ mine.at # "none" =>
       /\ mine.to = proc /\ proc \in Procs
       /\ mine.from \in {0, proc} /\ (mine.at = "read" => mine.from = proc)
  /\ pc \in {"awaitClear", "drain"} => mine.req = Clear
  /\ pc \in {"await", "awaitAgain"} => mine.req = Op(Current)

OthersInv ==
  \A g \in others :
    /\ g.at \in {"write", "look", "read"}
    /\ g.req \in Sendable /\ g.to \in Procs /\ g.to <= proc /\ g.from <= proc
    /\ g.at = "read" => g.from \in Procs

\* Processes are numbered in the order they were started.
ProcInv ==
  /\ \A p \in Procs : /\ status[p] = "unborn" <=> p > proc
                      /\ p > proc => inbox[p] = <<>> /\ outbox[p] = <<>>
  /\ hasCmd => proc \in Procs

PcInv ==
  /\ pc \notin {"idle", "drain"} => calls # <<>>
  /\ pc \notin {"idle", "ensure", "restart"} => hasCmd
  /\ pc \in {"flush", "awaitClear", "sendAgain", "awaitAgain", "drain"} => ~dead
  /\ pc = "restart" => dead
  /\ pc \in {"restart", "sendAgain", "awaitAgain"} => ~HasRef

\* The lines that may still come out of a process.
Load(out, in, st) == IF st = "running" THEN Len(out) + Len(in) ELSE Len(out)
Owed == Load(outbox[proc], inbox[proc], status[proc])

\* A process that is in use and not given up owes at most one line: to the
\* goroutine the interpreter waits for.
CleanInv ==
  hasCmd /\ ~dead =>
    /\ \A g \in others : ~(g.at = "write" /\ g.to = proc)
    /\ Owed <= IF mine.at \in {"look", "read"} THEN 1 ELSE 0

\* While a call is with a process, given up or not, only its own lines come.
OwnLines == {Clear, Op(Current)}
OwnInv ==
  pc \in {"awaitClear", "send", "await", "sendAgain", "awaitAgain"} =>
    /\ Inside(outbox[proc]) \subseteq OwnLines
    /\ status[proc] = "running" => Inside(inbox[proc]) \subseteq OwnLines
    /\ \A g \in others : g.at = "write" /\ g.to = proc => g.req \in OwnLines
    /\ mine.at = "done" => mine.line \in OwnLines \cup {Lost}

\* A process receives the op of a call once at most.
Writes(g, c, p) == g.at = "write" /\ g.to = p /\ g.req = Op(c)
UniqueInv ==
  /\ \A c \in CallNumbers, p \in Procs :
       /\ Once(inbox[p], Op(c))
       /\ \A g \in others \cup {mine} : Writes(g, c, p) => Op(c) \notin Inside(inbox[p])
       /\ \A g \in others : ~(Writes(g, c, p) /\ Writes(mine, c, p))
       /\ \A g, h \in others : Writes(g, c, p) /\ Writes(h, c, p) => g = h
  /\ pc = "sendAgain" => inbox[proc] = <<>>

\* What was answered was computed.
Answers(r, times) == \A c \in CallNumbers : r = Op(c) => times[c] > 0
AnswerInv ==
  /\ \A p \in Procs : \A r \in Inside(outbox[p]) : Answers(r, computed)
  /\ mine.at = "done" => Answers(mine.line, computed)

\* The processes that the op of call c has yet to reach or to be computed by.
Holders(c) ==
  {p \in Procs : \/ Op(c) \in Inside(inbox[p])
                 \/ \E g \in others \cup {mine} : Writes(g, c, p)}

\* How often it was sent, or may have been when the call is over.
Limit(c) == IF c > Len(calls) THEN 0 ELSE IF calls[c].hasRef THEN 1 ELSE 2
Tries(c) ==
  IF c # Len(calls) \/ pc \in {"idle", "drain"} THEN Limit(c)
  ELSE IF pc \in {"ensure", "flush", "awaitClear", "send"} THEN 0
  ELSE IF pc = "awaitAgain" THEN 2 ELSE 1
CountInv == \A c \in CallNumbers : computed[c] + Cardinality(Holders(c)) <= Tries(c)

IInv ==
  /\ TypeInv /\ MineInv /\ OthersInv /\ ProcInv /\ PcInv
  /\ CleanInv /\ OwnInv /\ UniqueInv /\ AnswerInv /\ CountInv

-----------------------------------------------------------------------------
(* Counting *)

LEMMA CountFacts ==
  ASSUME NEW S, NEW T, T \subseteq Procs, S \subseteq T
  PROVE  /\ IsFiniteSet(S) /\ IsFiniteSet(T)
         /\ Cardinality(S) \in Nat /\ Cardinality(T) \in Nat
         /\ Cardinality(S) <= Cardinality(T)
  <1>1. IsFiniteSet(Procs)
    BY FS_Interval, WireBounds DEF Procs
  <1>2. IsFiniteSet(T)
    BY <1>1, FS_Subset
  <1>3. QED
    BY <1>2, FS_Subset, FS_CardinalityType

LEMMA OneMore ==
  ASSUME NEW S \in SUBSET Procs, NEW T, NEW p \in Procs, T \subseteq S \cup {p}
  PROVE  Cardinality(T) <= Cardinality(S) + 1
  <1>1. IsFiniteSet(S) /\ Cardinality(S) \in Nat
    BY CountFacts
  <1>2. Cardinality(S \cup {p}) <= Cardinality(S) + 1 /\ Cardinality(S \cup {p}) \in Nat
    <2>1. Cardinality(S \cup {p}) = IF p \in S THEN Cardinality(S) ELSE Cardinality(S) + 1
      BY <1>1, FS_AddElement
    <2>2. QED
      BY <1>1, <2>1
  <1>3. Cardinality(T) <= Cardinality(S \cup {p}) /\ Cardinality(T) \in Nat
    BY CountFacts
  <1>4. QED
    BY <1>1, <1>2, <1>3

LEMMA OneLess ==
  ASSUME NEW S \in SUBSET Procs, NEW T, NEW p \in S, T \subseteq S \ {p}
  PROVE  Cardinality(T) + 1 <= Cardinality(S)
  <1>1. IsFiniteSet(S) /\ Cardinality(S) \in Nat
    BY CountFacts
  <1>2. Cardinality(S \ {p}) = Cardinality(S) - 1
    BY <1>1, FS_RemoveElement
  <1>3. Cardinality(T) <= Cardinality(S \ {p}) /\ Cardinality(T) \in Nat
    BY CountFacts
  <1>4. QED
    BY <1>1, <1>2, <1>3

LEMMA TriesFacts ==
  ASSUME TypeInv, NEW c \in CallNumbers
  PROVE  Tries(c) \in Nat /\ Limit(c) \in 0..2
  BY DEF TypeInv, Tries, Limit

\* No call has more holders or computations than before, and none has fewer tries.
LEMMA CountStays ==
  ASSUME CountInv, TypeInv, TypeInv', computed' = computed,
         \A c \in CallNumbers : Holders(c)' \subseteq Holders(c) /\ Tries(c) <= Tries(c)'
  PROVE  CountInv'
  <1> SUFFICES ASSUME NEW c \in CallNumbers
               PROVE  computed[c] + Cardinality(Holders(c)') <= Tries(c)'
    BY DEF CountInv
  <1>1. Holders(c) \subseteq Procs
    BY DEF Holders
  <1>2. /\ Cardinality(Holders(c)') <= Cardinality(Holders(c))
        /\ Cardinality(Holders(c)') \in Nat /\ Cardinality(Holders(c)) \in Nat
    BY <1>1, CountFacts
  <1>3. computed[c] \in Nat /\ Tries(c) \in Nat /\ Tries(c)' \in Nat
    BY DEF TypeInv, Tries, Limit
  <1>4. computed[c] + Cardinality(Holders(c)) <= Tries(c) /\ Tries(c) <= Tries(c)'
    BY DEF CountInv
  <1>5. QED
    BY <1>2, <1>3, <1>4

LEMMA LoadFacts ==
  ASSUME NEW S, NEW out \in Seq(S), NEW in \in Seq(S), NEW st
  PROVE  /\ Load(out, in, st) \in Nat
         /\ Load(out, in, st) = 0 => out = <<>>
         /\ Load(out, in, st) = 0 /\ st = "running" => in = <<>>
         /\ st = "gone" /\ out = <<>> => Load(out, in, st) = 0
         /\ Load(out, in, "gone") <= Load(out, in, st)
  <1>1. Len(out) \in Nat /\ Len(in) \in Nat
    BY PipeFacts
  <1>2. Len(<<>>) = 0 /\ (Len(out) = 0 => out = <<>>) /\ (Len(in) = 0 => in = <<>>)
    BY PipeFacts, EmptyPipe
  <1>3. CASE st = "running"
    BY <1>1, <1>2, <1>3 DEF Load
  <1>4. CASE st # "running"
    BY <1>1, <1>2, <1>4 DEF Load
  <1>5. QED
    BY <1>3, <1>4

\* What happens to the load when lines are added or taken away.
LEMMA LoadChanges ==
  ASSUME NEW S, NEW out \in Seq(S), NEW in \in Seq(S), NEW st,
         NEW o \in Seq(S), NEW i \in Seq(S)
  PROVE  /\ Len(o) <= Len(out) => Load(o, in, st) <= Load(out, in, st)
         /\ Len(o) = Len(out) - 1 => Load(o, in, st) = Load(out, in, st) - 1
         /\ Len(i) = Len(in) + 1 /\ st = "running" => Load(out, i, st) = Load(out, in, st) + 1
         /\ Len(o) = Len(out) + 1 /\ Len(i) = Len(in) - 1 /\ st = "running" =>
              Load(o, i, st) = Load(out, in, st)
  <1>1. Len(out) \in Nat /\ Len(in) \in Nat /\ Len(o) \in Nat /\ Len(i) \in Nat
    BY PipeFacts
  <1>2. CASE st = "running"
    <2> DEFINE a == Len(out)
               b == Len(in)
               c == Len(o)
               d == Len(i)
    <2>1. /\ Load(out, in, st) = a + b /\ Load(o, in, st) = c + b
          /\ Load(out, i, st) = a + d /\ Load(o, i, st) = c + d
      BY <1>2 DEF Load
    <2>2. a \in Nat /\ b \in Nat /\ c \in Nat /\ d \in Nat
      BY <1>1
    <2> HIDE DEF a, b, c, d
    <2>3. c <= a => c + b <= a + b
      BY <2>2
    <2>4. c = a - 1 => c + b = (a + b) - 1
      BY <2>2
    <2>5. d = b + 1 => a + d = (a + b) + 1
      BY <2>2
    <2>6. c = a + 1 /\ d = b - 1 => c + d = a + b
      BY <2>2
    <2>7. QED
      BY <2>1, <2>3, <2>4, <2>5, <2>6 DEF a, b, c, d
  <1>3. CASE st # "running"
    BY <1>1, <1>3 DEF Load
  <1>4. QED
    BY <1>2, <1>3

-----------------------------------------------------------------------------
(* Steps of the goroutines *)

\* A goroutine g that is under way becomes h without having written.
LEMMA MoveStep ==
  ASSUME IInv, NEW g \in others \cup {mine}, NEW h \in Goroutines, Step(g, h),
         g.at # "none", h.req = g.req, h.to = g.to,
         h.at \in {"look", "read", "done"},
         h.from \in {g.from, proc}, h.at = "read" => h.from = proc /\ proc \in Procs,
         h.at = "done" =>
           \/ h.line = Lost
           \/ g.from \in Procs /\ h.line \in Inside(outbox[g.from]) /\ g.at = "read",
         h.at \in {"look", "read"} => g.at \in {"look", "read"},
         outbox' \in [Procs -> Seq(Sendable)],
         \A p \in Procs : /\ Inside(outbox'[p]) \subseteq Inside(outbox[p])
                          /\ Len(outbox'[p]) <= Len(outbox[p])
                          /\ outbox[p] = <<>> => outbox'[p] = <<>>,
         g = mine /\ h.at = "done" /\ hasCmd /\ ~dead => Owed' = 0,
         UNCHANGED <<bounded, status, inbox, computed, backendVars, callVars>>
  PROVE  IInv'
  <1> USE DEF IInv
  <1>0. /\ UNCHANGED <<bounded, status, inbox, computed, proc, hasCmd, dead, pending, frees,
                       calls, pc, got>>
        /\ \/ g = mine /\ mine' = h /\ others' = others
           \/ /\ g \in others /\ mine' = mine
              /\ others' \subseteq (others \ {g}) \cup {h}
              /\ h \in others' => h.at # "done" \/ h \in others
    BY DEF backendVars, callVars, Step
  <1> USE <1>0
  <1>1. TypeInv'
    BY DEF TypeInv
  <1>2. MineInv'
    BY DEF MineInv, Current
  <1>3. OthersInv'
    BY DEF OthersInv, TypeInv, Procs
  <1>4. ProcInv'
    BY DEF ProcInv
  <1>5. PcInv'
    BY DEF PcInv, HasRef
  <1>6. \A p \in Procs : Len(outbox'[p]) \in Nat /\ Len(outbox[p]) \in Nat /\ Len(inbox[p]) \in Nat
    BY PipeFacts DEF TypeInv
  <1>7. CleanInv'
    <2> SUFFICES ASSUME hasCmd, ~dead
                 PROVE  /\ \A k \in others' : ~(k.at = "write" /\ k.to = proc)
                        /\ Owed' <= IF mine'.at \in {"look", "read"} THEN 1 ELSE 0
      BY DEF CleanInv
    <2>0. proc \in Procs
      BY DEF ProcInv
    <2>1. Owed' <= Owed /\ Owed' \in Nat /\ Owed \in Nat
      <3>1. /\ outbox'[proc] \in Seq(Sendable) /\ Len(outbox'[proc]) <= Len(outbox[proc])
            /\ inbox'[proc] = inbox[proc] /\ status'[proc] = status[proc]
            /\ outbox[proc] \in Seq(Sendable) /\ inbox[proc] \in Seq(Sendable)
        BY <2>0 DEF TypeInv
      <3>2. /\ Load(outbox'[proc], inbox[proc], status[proc]) <= Owed
            /\ Load(outbox'[proc], inbox[proc], status[proc]) \in Nat /\ Owed \in Nat
        BY <3>1, LoadFacts, LoadChanges DEF Owed
      <3>3. Owed' = Load(outbox'[proc], inbox[proc], status[proc])
        BY <3>1 DEF Owed
      <3>4. QED
        BY <3>2, <3>3
    <2>2. \A k \in others' : ~(k.at = "write" /\ k.to = proc)
      BY DEF CleanInv
    <2>3. QED
      BY <2>1, <2>2 DEF CleanInv
  <1>8. OwnInv'
    <2> SUFFICES ASSUME pc \in {"awaitClear", "send", "await", "sendAgain", "awaitAgain"}
                 PROVE  OwnInv'
      BY DEF OwnInv
    <2>1. proc \in Procs
      BY DEF PcInv, ProcInv
    <2>2. OwnLines' = OwnLines
      BY DEF OwnLines, Current
    <2>3. mine'.at = "done" => mine'.line \in OwnLines \cup {Lost}
      BY <2>1 DEF OwnInv, MineInv, Procs
    <2>4. QED
      BY <2>1, <2>2, <2>3 DEF OwnInv
  <1>9. \A c \in CallNumbers, p \in Procs, k \in others' \cup {mine'} :
          Writes(k, c, p) => k \in others \cup {mine} /\ (k \in others' => k \in others)
                             /\ (mine' = k => mine = k)
    BY DEF Writes
  <1>10. UniqueInv'
    BY <1>9 DEF UniqueInv
  <1>11. AnswerInv'
    BY DEF AnswerInv, Answers, Lost, Op
  <1>12. CountInv'
    <2>1. \A c \in CallNumbers : Holders(c)' \subseteq Holders(c)
      BY <1>9 DEF Holders
    <2>2. \A c \in CallNumbers : Tries(c)' = Tries(c) /\ Tries(c) \in Nat
      BY TriesFacts DEF Tries, Limit
    <2>3. QED
      BY <1>1, <2>1, <2>2, CountStays
  <1>13. QED
    BY <1>1, <1>2, <1>3, <1>4, <1>5, <1>7, <1>8, <1>10, <1>11, <1>12

LEMMA GoroutineFacts ==
  ASSUME IInv, NEW g \in others \cup {mine}, g.at \in {"write", "look", "read"}
  PROVE  /\ g \in Goroutines /\ g.req \in Sendable /\ g.to \in Procs /\ proc \in Procs
         /\ g.at = "read" => g.from \in Procs
         /\ g = mine => g.to = proc /\ (g.at = "read" => g.from = proc)
  <1>1. g \in Goroutines
    BY DEF IInv, TypeInv
  <1>2. CASE g = mine
    <2>1. pc \in Waits
      BY <1>2 DEF IInv, MineInv
    <2>2. mine.req = Clear \/ mine.req = Op(Current)
      BY <2>1 DEF IInv, MineInv, Waits
    <2>3. mine.req # Lost
      BY <2>2 DEF Lost, Clear, Op
    <2>4. g.req \in Sendable
      BY <1>1, <1>2, <2>3 DEF Goroutines
    <2>5. QED
      BY <1>1, <1>2, <2>4 DEF IInv, MineInv
  <1>3. CASE g \in others
    <2>1. g.to \in Procs /\ g.to <= proc /\ proc \in Procs \cup {0}
      BY <1>3 DEF IInv, OthersInv, TypeInv
    <2>2. proc \in Procs
      BY <2>1 DEF Procs
    <2>3. g = mine => g.to = proc /\ (g.at = "read" => g.from = proc)
      BY DEF IInv, MineInv
    <2>4. QED
      BY <1>1, <1>3, <2>1, <2>2, <2>3 DEF IInv, OthersInv
  <1>4. QED
    BY <1>2, <1>3

LEMMA StepMove ==
  ASSUME IInv, NEW g \in others \cup {mine},
         (Write(g) /\ status[g.to] # "running") \/ Look(g) \/ Read(g) \/ ReadEOF(g)
  PROVE  IInv'
  <1>0. g.at \in {"write", "look", "read"}
    BY DEF Write, Look, Read, ReadEOF
  <1>1. /\ g \in Goroutines /\ g.req \in Sendable /\ g.to \in Procs /\ proc \in Procs
        /\ g.at = "read" => g.from \in Procs
        /\ g = mine => g.to = proc /\ (g.at = "read" => g.from = proc)
    BY <1>0, GoroutineFacts
  <1>2. g.at # "none"
    BY <1>0
  <1>3. /\ outbox \in [Procs -> Seq(Sendable)] /\ TypeInv
        /\ \A p \in Procs : Len(outbox[p]) \in Nat
        /\ outbox[proc] \in Seq(Sendable) /\ inbox[proc] \in Seq(Sendable)
    BY <1>1, PipeFacts DEF IInv, TypeInv
  <1>4. hasCmd /\ ~dead => Owed <= IF mine.at \in {"look", "read"} THEN 1 ELSE 0
    BY DEF IInv, CleanInv
  <1>5. \A line \in Sendable \cup {Lost} :
          LET h == Done(g, line)
          IN  h \in Goroutines /\ h.at = "done" /\ h.line = line /\ h.req = g.req
              /\ h.to = g.to /\ h.from = g.from
    BY <1>1 DEF Done, Goroutines
  <1>6. CASE Write(g) /\ status[g.to] # "running"
    <2> DEFINE h == Done(g, Lost)
    <2>1. /\ Step(g, h) /\ g.at = "write"
          /\ UNCHANGED <<bounded, status, inbox, outbox, computed, backendVars, callVars>>
      BY <1>6 DEF Write
    <2>2. g = mine /\ hasCmd /\ ~dead => Owed' = 0
      <3>1. Owed' = Owed
        BY <2>1 DEF Owed, backendVars
      <3>2. Owed \in Nat
        BY <1>1, <1>3, LoadFacts DEF Owed
      <3>3. QED
        BY <1>4, <2>1, <3>1, <3>2
    <2>3. h \in Goroutines /\ h.at = "done" /\ h.line = Lost /\ h.req = g.req /\ h.to = g.to
          /\ h.from = g.from
      BY <1>5
    <2> HIDE DEF h
    <2>4. QED
      BY <1>2, <1>3, <2>1, <2>2, <2>3, MoveStep
  <1>7. CASE Look(g)
    <2> DEFINE h == [g EXCEPT !.at = "read", !.from = proc]
    <2>1. /\ Step(g, h) /\ g.at = "look"
          /\ UNCHANGED <<bounded, status, inbox, outbox, computed, backendVars, callVars>>
      BY <1>7 DEF Look, procVars
    <2>2. h \in Goroutines /\ h.at = "read" /\ h.req = g.req /\ h.to = g.to /\ h.from = proc
      BY <1>1 DEF Goroutines
    <2>3. /\ g.at # "none" /\ g.at \in {"look", "read"} /\ h.at \in {"look", "read", "done"}
          /\ h.at # "done" /\ h.from \in {g.from, proc}
      BY <2>1, <2>2
    <2>4. /\ outbox' \in [Procs -> Seq(Sendable)]
          /\ \A p \in Procs : /\ Inside(outbox'[p]) \subseteq Inside(outbox[p])
                              /\ Len(outbox'[p]) <= Len(outbox[p])
                              /\ outbox[p] = <<>> => outbox'[p] = <<>>
      BY <1>3, <2>1
    <2> HIDE DEF h
    <2>5. QED
      BY <1>1, <2>1, <2>2, <2>3, <2>4, MoveStep
  <1>8. CASE Read(g)
    <2>1. PICK line \in {Head(outbox[g.from]), Lost} : Step(g, Done(g, line))
      BY <1>8 DEF Read
    <2>2. /\ g.at = "read" /\ outbox[g.from] # <<>> /\ g.from \in Procs
          /\ outbox' = [outbox EXCEPT ![g.from] = Tail(@)]
          /\ UNCHANGED <<bounded, status, inbox, computed, backendVars, callVars>>
      BY <1>1, <1>8 DEF Read
    <2>3. /\ Head(outbox[g.from]) \in Sendable /\ Head(outbox[g.from]) \in Inside(outbox[g.from])
          /\ Tail(outbox[g.from]) \in Seq(Sendable)
          /\ Len(Tail(outbox[g.from])) = Len(outbox[g.from]) - 1
          /\ Inside(Tail(outbox[g.from])) \subseteq Inside(outbox[g.from])
      BY <1>3, <2>2, TailPipe
    <2>4. /\ outbox' \in [Procs -> Seq(Sendable)]
          /\ \A p \in Procs : /\ Inside(outbox'[p]) \subseteq Inside(outbox[p])
                              /\ Len(outbox'[p]) <= Len(outbox[p])
                              /\ outbox[p] = <<>> => outbox'[p] = <<>>
      BY <1>3, <2>2, <2>3
    <2>5. g = mine /\ hasCmd /\ ~dead => Owed' = 0
      <3> SUFFICES ASSUME g = mine, hasCmd, ~dead
                   PROVE  Owed' = 0
        OBVIOUS
      <3>1. outbox'[proc] = Tail(outbox[proc]) /\ g.from = proc
        BY <1>1, <1>3, <2>2
      <3>2. outbox'[proc] \in Seq(Sendable) /\ Len(outbox'[proc]) = Len(outbox[proc]) - 1
        BY <2>3, <3>1
      <3>3. Load(outbox'[proc], inbox[proc], status[proc]) = Owed - 1
        BY <1>3, <3>2, LoadChanges DEF Owed
      <3>4. Owed <= 1 /\ Owed # 0 /\ Owed \in Nat
        BY <1>3, <1>4, <2>2, <3>1, LoadFacts DEF Owed
      <3>5. inbox'[proc] = inbox[proc] /\ status'[proc] = status[proc]
        BY <2>2
      <3>6. Owed' = Owed - 1
        BY <2>2, <3>3, <3>5 DEF Owed, backendVars
      <3>7. QED
        BY <3>4, <3>6
    <2> DEFINE h == Done(g, line)
    <2>6. h \in Goroutines /\ h.at = "done" /\ h.line = line /\ h.req = g.req /\ h.to = g.to
          /\ h.from = g.from
      BY <1>5, <2>1, <2>3
    <2>7. h.line = Lost \/ h.line \in Inside(outbox[g.from])
      BY <2>1, <2>3, <2>6
    <2>8. Step(g, h)
      BY <2>1
    <2> HIDE DEF h
    <2>9. QED
      BY <1>2, <2>2, <2>4, <2>5, <2>6, <2>7, <2>8, MoveStep
  <1>9. CASE ReadEOF(g)
    <2> DEFINE h == Done(g, Lost)
    <2>1. /\ Step(g, h) /\ g.at = "read" /\ outbox[g.from] = <<>> /\ status[g.from] = "gone"
          /\ UNCHANGED <<bounded, status, inbox, outbox, computed, backendVars, callVars>>
      BY <1>9 DEF ReadEOF, procVars
    <2>2. g = mine /\ hasCmd /\ ~dead => Owed' = 0
      <3>1. Owed' = Owed
        BY <2>1 DEF Owed, backendVars
      <3>2. g = mine => Owed = 0
        BY <1>1, <1>3, <2>1, LoadFacts DEF Owed
      <3>3. QED
        BY <3>1, <3>2
    <2>3. h \in Goroutines /\ h.at = "done" /\ h.line = Lost /\ h.req = g.req /\ h.to = g.to
          /\ h.from = g.from
      BY <1>5
    <2> HIDE DEF h
    <2>4. QED
      BY <1>2, <1>3, <2>1, <2>2, <2>3, MoveStep
  <1>10. QED
    BY <1>6, <1>7, <1>8, <1>9

\* A request goes into the pipe of a process that runs.
LEMMA StepWrite ==
  ASSUME IInv, NEW g \in others \cup {mine}, Write(g), status[g.to] = "running"
  PROVE  IInv'
  <1> USE DEF IInv
  <1>0. g.at = "write"
    BY DEF Write
  <1>1. /\ g \in Goroutines /\ g.req \in Sendable /\ g.to \in Procs /\ proc \in Procs
        /\ g = mine => g.to = proc
    BY <1>0, GoroutineFacts
  <1> DEFINE h == [g EXCEPT !.at = "look"]
             q == g.to
  <1>2. h \in Goroutines /\ h.at = "look" /\ h.req = g.req /\ h.to = q /\ h.from = g.from
    BY <1>1 DEF Goroutines
  <1>3. /\ inbox' = [inbox EXCEPT ![q] = Append(@, g.req)]
        /\ Step(g, h)
        /\ UNCHANGED <<bounded, status, outbox, computed, backendVars, callVars>>
    BY DEF Write
  <1> HIDE DEF h
  <1>4. /\ UNCHANGED <<bounded, status, outbox, computed, proc, hasCmd, dead, pending, frees,
                       calls, pc, got>>
        /\ \/ g = mine /\ mine' = h /\ others' = others
           \/ g \in others /\ mine' = mine /\ others' = (others \ {g}) \cup {h}
    BY <1>2, <1>3 DEF backendVars, callVars, Step
  <1>5. /\ inbox[q] \in Seq(Sendable) /\ outbox[q] \in Seq(Sendable)
        /\ inbox'[q] = Append(inbox[q], g.req)
        /\ \A p \in Procs : p # q => inbox'[p] = inbox[p]
        /\ inbox' \in [Procs -> Seq(Sendable)]
        /\ Len(inbox'[q]) = Len(inbox[q]) + 1
        /\ Inside(inbox'[q]) = Inside(inbox[q]) \cup {g.req}
        /\ \A r : Once(inbox[q], r) /\ (r = g.req => r \notin Inside(inbox[q]))
                    => Once(inbox'[q], r)
    <2>1. inbox[q] \in Seq(Sendable) /\ outbox[q] \in Seq(Sendable)
      BY <1>1 DEF TypeInv
    <2>2. inbox'[q] = Append(inbox[q], g.req) /\ \A p \in Procs : p # q => inbox'[p] = inbox[p]
      BY <1>1, <1>3 DEF TypeInv
    <2>3. inbox'[q] \in Seq(Sendable)
      BY <1>1, <2>1, <2>2, AppendPipe
    <2>4. inbox' \in [Procs -> Seq(Sendable)]
      BY <1>1, <1>3, <2>2, <2>3 DEF TypeInv
    <2>5. QED
      BY <1>1, <2>1, <2>2, <2>4, AppendPipe
  <1>6. TypeInv'
    BY <1>2, <1>4, <1>5 DEF TypeInv
  <1>7. MineInv'
    BY <1>0, <1>2, <1>4 DEF MineInv, Current
  <1>8. OthersInv'
    BY <1>2, <1>4 DEF OthersInv
  <1>9. ProcInv'
    <2>1. status[q] # "unborn"
      OBVIOUS
    <2>2. QED
      BY <1>4, <1>5, <2>1 DEF ProcInv
  <1>10. PcInv'
    BY <1>4 DEF PcInv, HasRef
  <1>11. CleanInv'
    <2> SUFFICES ASSUME hasCmd, ~dead
                 PROVE  /\ \A k \in others' : ~(k.at = "write" /\ k.to = proc)
                        /\ Owed' <= IF mine'.at \in {"look", "read"} THEN 1 ELSE 0
      BY <1>4 DEF CleanInv
    <2>1. /\ \A k \in others : ~(k.at = "write" /\ k.to = proc)
          /\ Owed <= IF mine.at \in {"look", "read"} THEN 1 ELSE 0
      BY DEF CleanInv
    <2>2. \A k \in others' : ~(k.at = "write" /\ k.to = proc)
      BY <1>2, <1>4, <2>1
    <2>3. CASE g = mine /\ mine' = h
      <3>1. Owed = 0
        <4>1. Owed \in Nat
          BY <1>1, LoadFacts DEF Owed, TypeInv
        <4>2. QED
          BY <1>0, <2>1, <2>3, <4>1
      <3>2. outbox'[proc] = outbox[proc] /\ status'[proc] = "running" /\ status[proc] = "running"
        BY <1>1, <1>4, <2>3 DEF Owed
      <3>3. Owed' = Owed + 1
        <4>1. /\ outbox[proc] \in Seq(Sendable) /\ inbox[proc] \in Seq(Sendable)
              /\ inbox'[proc] \in Seq(Sendable) /\ Len(inbox'[proc]) = Len(inbox[proc]) + 1
          BY <1>1, <1>5, <2>3
        <4>2. Load(outbox[proc], inbox'[proc], status[proc]) = Owed + 1
          BY <3>2, <4>1, LoadChanges DEF Owed
        <4>3. Owed' = Load(outbox[proc], inbox'[proc], status[proc])
          BY <1>4, <3>2 DEF Owed
        <4>4. QED
          BY <4>2, <4>3
      <3>4. QED
        BY <1>2, <2>2, <2>3, <3>1, <3>3
    <2>4. CASE g \in others /\ mine' = mine
      <3>1. q # proc
        BY <1>0, <2>1, <2>4
      <3>2. Owed' = Owed
        BY <1>1, <1>4, <1>5, <3>1 DEF Owed
      <3>3. QED
        BY <2>1, <2>2, <2>4, <3>2
    <2>5. QED
      BY <1>4, <2>3, <2>4
  <1>12. OwnInv'
    <2> SUFFICES ASSUME pc \in {"awaitClear", "send", "await", "sendAgain", "awaitAgain"}
                 PROVE  OwnInv'
      BY <1>4 DEF OwnInv
    <2>1. OwnLines' = OwnLines
      BY <1>4 DEF OwnLines, Current
    <2>2. q = proc => g.req \in OwnLines
      <3>1. g = mine => g.req \in OwnLines
        BY <1>0 DEF MineInv, OwnLines, Waits
      <3>2. QED
        BY <1>0, <3>1 DEF OwnInv
    <2>3. Inside(inbox'[proc]) \subseteq Inside(inbox[proc]) \cup (IF q = proc THEN {g.req} ELSE {})
      BY <1>1, <1>5
    <2>4. QED
      BY <1>1, <1>2, <1>4, <2>1, <2>2, <2>3 DEF OwnInv
  <1>13. \A c \in CallNumbers, p \in Procs, k \in others' \cup {mine'} :
           Writes(k, c, p) => k \in others \cup {mine} /\ (k \in others' => k \in others)
                              /\ (mine' = k => mine = k) /\ k # h
    BY <1>2, <1>4 DEF Writes
  <1>14. UniqueInv'
    <2> SUFFICES ASSUME NEW c \in CallNumbers, NEW p \in Procs
                 PROVE  /\ Once(inbox'[p], Op(c))
                        /\ \A k \in others' \cup {mine'} :
                             Writes(k, c, p) => Op(c) \notin Inside(inbox'[p])
                        /\ \A k \in others' : ~(Writes(k, c, p) /\ Writes(mine', c, p))
                        /\ \A k, l \in others' : Writes(k, c, p) /\ Writes(l, c, p) => k = l
      <3>1. pc = "sendAgain" => inbox'[proc] = <<>>
        <4> SUFFICES ASSUME pc = "sendAgain" PROVE inbox'[proc] = <<>>
          OBVIOUS
        <4>1. g \in others
          BY <1>0 DEF MineInv, Waits
        <4>2. q # proc
          BY <1>0, <4>1 DEF PcInv, CleanInv
        <4>3. QED
          BY <1>1, <1>5, <4>2 DEF UniqueInv
      <3>2. QED
        BY <1>4, <3>1 DEF UniqueInv
    <2>0. Writes(g, c, p) <=> p = q /\ g.req = Op(c)
      BY <1>0 DEF Writes
    <2>1. CASE Writes(g, c, p)
      <3>1. Op(c) \notin Inside(inbox[p]) /\ Once(inbox[p], Op(c)) /\ p = q /\ g.req = Op(c)
        BY <2>0, <2>1 DEF UniqueInv
      <3>2. Once(inbox'[p], Op(c))
        BY <1>5, <3>1
      <3>3. \A k \in others' \cup {mine'} : ~Writes(k, c, p)
        <4> SUFFICES ASSUME NEW k \in others' \cup {mine'}, Writes(k, c, p) PROVE FALSE
          OBVIOUS
        <4>1. /\ k \in others \cup {mine} /\ k # h
              /\ k \in others' => k \in others
              /\ mine' = k => mine = k
          BY <1>13
        <4>2. CASE g = mine /\ mine' = h /\ others' = others
          BY <2>1, <4>1, <4>2 DEF UniqueInv
        <4>3. CASE g \in others /\ mine' = mine /\ others' = (others \ {g}) \cup {h}
          BY <2>1, <4>1, <4>3 DEF UniqueInv
        <4>4. QED
          BY <1>4, <4>2, <4>3
      <3>4. QED
        BY <3>2, <3>3
    <2>2. CASE ~Writes(g, c, p)
      <3>1. Once(inbox'[p], Op(c)) /\ (Op(c) \in Inside(inbox'[p]) => Op(c) \in Inside(inbox[p]))
        <4>1. CASE p = q
          <5>1. g.req # Op(c)
            BY <2>0, <2>2, <4>1
          <5>2. QED
            BY <1>5, <4>1, <5>1 DEF UniqueInv
        <4>2. CASE p # q
          BY <1>5, <4>2 DEF UniqueInv
        <4>3. QED
          BY <4>1, <4>2
      <3>2. QED
        BY <1>13, <3>1 DEF UniqueInv
    <2>3. QED
      BY <2>1, <2>2
  <1>15. AnswerInv'
    BY <1>2, <1>4 DEF AnswerInv, Answers
  <1>16. CountInv'
    <2>1. \A c \in CallNumbers : Holders(c)' \subseteq Holders(c)
      <3> SUFFICES ASSUME NEW c \in CallNumbers, NEW p \in Procs, p \in Holders(c)'
                   PROVE  p \in Holders(c)
        BY DEF Holders
      <3>1. CASE \E k \in others' \cup {mine'} : Writes(k, c, p)
        BY <1>13, <3>1 DEF Holders
      <3>2. CASE Op(c) \in Inside(inbox'[p])
        <4>1. Op(c) \in Inside(inbox[p]) \/ (p = q /\ g.req = Op(c))
          BY <1>5, <3>2
        <4>2. QED
          BY <1>0, <4>1 DEF Holders, Writes
      <3>3. QED
        BY <3>1, <3>2 DEF Holders
    <2>2. \A c \in CallNumbers : Tries(c)' = Tries(c) /\ Tries(c) \in Nat
      BY <1>4, TriesFacts DEF Tries, Limit
    <2>3. QED
      BY <1>4, <1>6, <2>1, <2>2, CountStays
  <1>17. QED
    BY <1>6, <1>7, <1>8, <1>9, <1>10, <1>11, <1>12, <1>14, <1>15, <1>16

-----------------------------------------------------------------------------
(* Steps of the processes *)

\* A process answers a line: if it is the op of call c, the process no longer
\* holds that op, and the op has been computed once more.
LEMMA StepServe ==
  ASSUME IInv, NEW q \in Procs, Serve(q)
  PROVE  IInv'
  <1> USE DEF IInv
  <1> DEFINE r == Head(inbox[q])
  <1>1. /\ status[q] = "running" /\ inbox[q] # <<>>
        /\ outbox' = [outbox EXCEPT ![q] = Append(@, r)]
        /\ computed' = IF r.kind = "clear" THEN computed ELSE [computed EXCEPT ![r.call] = @ + 1]
        /\ inbox' = [inbox EXCEPT ![q] = Tail(@)]
        /\ UNCHANGED <<bounded, status, backendVars, callVars, mine, others>>
    BY DEF Serve
  <1>2. inbox[q] \in Seq(Sendable) /\ outbox[q] \in Seq(Sendable)
    BY DEF TypeInv
  <1>3. /\ r \in Sendable /\ r \in Inside(inbox[q])
        /\ Tail(inbox[q]) \in Seq(Sendable) /\ Len(Tail(inbox[q])) = Len(inbox[q]) - 1
        /\ Len(inbox[q]) \in Nat \ {0}
        /\ Inside(Tail(inbox[q])) \subseteq Inside(inbox[q])
        /\ \A x : Once(inbox[q], x) => Once(Tail(inbox[q]), x)
        /\ Once(inbox[q], r) => r \notin Inside(Tail(inbox[q]))
    BY <1>1, <1>2, TailPipe
  <1> HIDE DEF r
  <1>4. /\ Append(outbox[q], r) \in Seq(Sendable) /\ Len(Append(outbox[q], r)) = Len(outbox[q]) + 1
        /\ Inside(Append(outbox[q], r)) = Inside(outbox[q]) \cup {r}
        /\ Len(outbox[q]) \in Nat
    BY <1>2, <1>3, AppendPipe, PipeFacts
  <1>5. /\ inbox' \in [Procs -> Seq(Sendable)] /\ outbox' \in [Procs -> Seq(Sendable)]
        /\ inbox'[q] = Tail(inbox[q]) /\ outbox'[q] = Append(outbox[q], r)
        /\ \A p \in Procs : p # q => inbox'[p] = inbox[p] /\ outbox'[p] = outbox[p]
        /\ UNCHANGED <<bounded, status, proc, hasCmd, dead, pending, frees,
                       calls, pc, got, mine, others>>
    BY <1>1, <1>3, <1>4 DEF TypeInv, backendVars, callVars
  <1>6. /\ r = Clear \/ \E c \in CallNumbers : r = Op(c)
        /\ r = Clear => computed' = computed
        /\ \A c \in CallNumbers :
             r = Op(c) => computed' = [computed EXCEPT ![c] = @ + 1]
    BY <1>1, <1>3 DEF Sendable, Clear, Op
  <1>7. /\ computed' \in [CallNumbers -> Nat]
        /\ \A c \in CallNumbers : /\ r = Op(c) => computed'[c] = computed[c] + 1
                                  /\ r # Op(c) => computed'[c] = computed[c]
    <2>1. computed \in [CallNumbers -> Nat] /\ \A c \in CallNumbers : Op(c) # Clear
      BY DEF TypeInv, Op, Clear
    <2>2. CASE r = Clear
      BY <1>6, <2>1, <2>2
    <2>3. ASSUME NEW b \in CallNumbers, r = Op(b)
          PROVE  /\ computed' \in [CallNumbers -> Nat]
                 /\ \A c \in CallNumbers : /\ r = Op(c) => computed'[c] = computed[c] + 1
                                           /\ r # Op(c) => computed'[c] = computed[c]
      <3>1. computed' = [computed EXCEPT ![b] = @ + 1] /\ \A c \in CallNumbers : r = Op(c) => c = b
        BY <1>6, <2>3 DEF Op
      <3>2. QED
        BY <2>1, <2>3, <3>1
    <2>4. QED
      BY <1>6, <2>2, <2>3
  <1>8. TypeInv'
    BY <1>5, <1>7 DEF TypeInv
  <1>9. MineInv' /\ OthersInv' /\ PcInv'
    BY <1>5 DEF MineInv, OthersInv, PcInv, HasRef, Current
  <1>10. ProcInv'
    BY <1>1, <1>5 DEF ProcInv
  <1>11. CleanInv'
    <2>1. hasCmd => Owed' = Owed
      <3> SUFFICES ASSUME hasCmd PROVE Owed' = Owed
        OBVIOUS
      <3>1. CASE q = proc
        <4>1. status[q] = "running" /\ status'[q] = "running"
          BY <1>1, <1>5
        <4>2. /\ Len(outbox'[q]) = Len(outbox[q]) + 1 /\ Len(inbox'[q]) = Len(inbox[q]) - 1
              /\ outbox'[q] \in Seq(Sendable) /\ inbox'[q] \in Seq(Sendable)
          BY <1>3, <1>4, <1>5
        <4>3. Load(outbox'[proc], inbox'[proc], status[proc]) = Owed
          BY <1>2, <3>1, <4>1, <4>2, LoadChanges DEF Owed
        <4>4. Owed' = Load(outbox'[proc], inbox'[proc], status[proc])
          BY <1>5, <3>1, <4>1 DEF Owed
        <4>5. QED
          BY <4>3, <4>4
      <3>2. CASE q # proc
        BY <1>5, <3>2 DEF Owed, ProcInv
      <3>3. QED
        BY <3>1, <3>2
    <2>2. QED
      BY <1>5, <2>1 DEF CleanInv
  <1>12. OwnInv'
    <2> SUFFICES ASSUME pc \in {"awaitClear", "send", "await", "sendAgain", "awaitAgain"}
                 PROVE  OwnInv'
      BY <1>5 DEF OwnInv
    <2>1. OwnLines' = OwnLines
      BY <1>5 DEF OwnLines, Current
    <2>2. proc \in Procs
      BY DEF PcInv, ProcInv
    <2>3. Inside(inbox'[proc]) \subseteq Inside(inbox[proc])
      BY <1>3, <1>5, <2>2
    <2>4. Inside(outbox'[proc]) \subseteq OwnLines
      BY <1>1, <1>3, <1>4, <1>5, <2>2 DEF OwnInv
    <2>5. QED
      BY <1>5, <2>1, <2>3, <2>4 DEF OwnInv
  <1>13. \A p \in Procs : /\ Inside(inbox'[p]) \subseteq Inside(inbox[p])
                          /\ \A x : Once(inbox[p], x) => Once(inbox'[p], x)
                          /\ inbox[p] = <<>> => inbox'[p] = <<>>
    BY <1>1, <1>3, <1>5
  <1>14. UniqueInv'
    <2>1. pc = "sendAgain" => inbox'[proc] = <<>>
      BY <1>13 DEF UniqueInv, PcInv, ProcInv
    <2>2. \A c \in CallNumbers, p \in Procs :
            /\ Once(inbox'[p], Op(c))
            /\ \A g \in others \cup {mine} : Writes(g, c, p) => Op(c) \notin Inside(inbox'[p])
            /\ \A g \in others : ~(Writes(g, c, p) /\ Writes(mine, c, p))
            /\ \A g, h \in others : Writes(g, c, p) /\ Writes(h, c, p) => g = h
      BY <1>13 DEF UniqueInv
    <2>3. QED
      BY <1>5, <2>1, <2>2 DEF UniqueInv
  <1>15. AnswerInv'
    <2>1. \A x : Answers(x, computed) => Answers(x, computed')
      <3>1. \A c \in CallNumbers :
              computed[c] \in Nat /\ computed'[c] \in {computed[c], computed[c] + 1}
        BY <1>7 DEF TypeInv
      <3>2. QED
        BY <3>1 DEF Answers
    <2>2. Answers(r, computed')
      BY <1>7 DEF Answers, TypeInv
    <2>3. \A p \in Procs : \A x \in Inside(outbox'[p]) : Answers(x, computed')
      BY <1>4, <1>5, <2>1, <2>2 DEF AnswerInv
    <2>4. QED
      BY <1>5, <2>1, <2>3 DEF AnswerInv
  <1>16. CountInv'
    <2> SUFFICES ASSUME NEW c \in CallNumbers
                 PROVE  computed'[c] + Cardinality(Holders(c)') <= Tries(c)'
      BY DEF CountInv
    <2>1. Holders(c)' \subseteq Holders(c) /\ Holders(c) \in SUBSET Procs
      BY <1>5, <1>13 DEF Holders
    <2>2. Tries(c)' = Tries(c) /\ Tries(c) \in Nat /\ computed[c] \in Nat
      BY <1>5, TriesFacts DEF Tries, Limit, TypeInv
    <2>3. computed[c] + Cardinality(Holders(c)) <= Tries(c)
      BY DEF CountInv
    <2>4. /\ Cardinality(Holders(c)') <= Cardinality(Holders(c))
          /\ Cardinality(Holders(c)') \in Nat /\ Cardinality(Holders(c)) \in Nat
      BY <2>1, CountFacts
    <2>5. CASE r # Op(c)
      BY <1>7, <2>2, <2>3, <2>4, <2>5
    <2>6. CASE r = Op(c)
      <3>1. q \in Holders(c)
        BY <1>3, <2>6 DEF Holders
      <3>2. q \notin Holders(c)'
        <4>1. Op(c) \notin Inside(inbox'[q])
          BY <1>3, <1>5, <2>6 DEF UniqueInv
        <4>2. \A g \in others \cup {mine} : ~Writes(g, c, q)
          BY <1>3, <2>6 DEF UniqueInv
        <4>3. QED
          BY <1>5, <4>1, <4>2 DEF Holders, Writes
      <3>3. Cardinality(Holders(c)') + 1 <= Cardinality(Holders(c))
        BY <2>1, <3>1, <3>2, OneLess
      <3>4. QED
        BY <1>7, <2>2, <2>3, <2>4, <2>6, <3>3
    <2>7. QED
      BY <2>5, <2>6
  <1>17. QED
    BY <1>8, <1>9, <1>10, <1>11, <1>12, <1>14, <1>15, <1>16

LEMMA StepDie ==
  ASSUME IInv, NEW q \in Procs, Die(q)
  PROVE  IInv'
  <1> USE DEF IInv
  <1>1. /\ status[q] = "running" /\ status' = [status EXCEPT ![q] = "gone"]
        /\ UNCHANGED <<bounded, inbox, outbox, computed, proc, hasCmd, dead, pending, frees,
                       calls, pc, got, mine, others>>
    BY DEF Die, backendVars, callVars
  <1>2. /\ status' \in [Procs -> {"unborn", "running", "gone"}]
        /\ \A p \in Procs : /\ status'[p] = "unborn" <=> status[p] = "unborn"
                            /\ status'[p] = "running" => status[p] = "running"
    BY <1>1 DEF TypeInv
  <1>3. TypeInv' /\ MineInv' /\ OthersInv' /\ PcInv' /\ ProcInv'
    BY <1>1, <1>2 DEF TypeInv, MineInv, OthersInv, PcInv, ProcInv, HasRef, Current
  <1>4. CleanInv'
    <2>1. hasCmd => Owed' <= Owed /\ Owed' \in Nat /\ Owed \in Nat
      <3> SUFFICES ASSUME hasCmd
                   PROVE  Owed' <= Owed /\ Owed' \in Nat /\ Owed \in Nat
        OBVIOUS
      <3>1. proc \in Procs /\ outbox[proc] \in Seq(Sendable) /\ inbox[proc] \in Seq(Sendable)
        BY DEF ProcInv, TypeInv
      <3>2. Owed \in Nat
        BY <3>1, LoadFacts DEF Owed
      <3>3. CASE q # proc
        BY <1>1, <3>1, <3>2, <3>3 DEF Owed, TypeInv
      <3>4. CASE q = proc
        <4>1. status'[proc] = "gone" /\ outbox'[proc] = outbox[proc] /\ inbox'[proc] = inbox[proc]
          BY <1>1, <3>1, <3>4 DEF TypeInv
        <4>2. /\ Load(outbox[proc], inbox[proc], "gone") <= Owed /\ Owed \in Nat
              /\ Load(outbox[proc], inbox[proc], "gone") \in Nat
          BY <3>1, LoadFacts DEF Owed
        <4>3. Owed' = Load(outbox[proc], inbox[proc], "gone")
          BY <1>1, <4>1 DEF Owed
        <4>4. QED
          BY <4>2, <4>3
      <3>5. QED
        BY <3>3, <3>4
    <2>2. QED
      BY <1>1, <2>1 DEF CleanInv
  <1>5. OwnInv'
    BY <1>1, <1>2 DEF OwnInv, OwnLines, Current, PcInv, ProcInv
  <1>6. UniqueInv' /\ AnswerInv'
    BY <1>1 DEF UniqueInv, AnswerInv, Answers, Writes
  <1>7. CountInv'
    BY <1>1 DEF CountInv, Holders, Writes, Tries, Limit
  <1>8. QED
    BY <1>3, <1>4, <1>5, <1>6, <1>7

-----------------------------------------------------------------------------
(* Steps of the interpreter *)

\* A process in use, not given up and not waited for owes nothing.
LEMMA Quiet ==
  ASSUME IInv, hasCmd, ~dead, mine.at \notin {"look", "read"}
  PROVE  /\ proc \in Procs /\ outbox[proc] = <<>> /\ Inside(outbox[proc]) = {}
         /\ status[proc] = "running" => inbox[proc] = <<>> /\ Inside(inbox[proc]) = {}
         /\ \A g \in others : ~(g.at = "write" /\ g.to = proc)
         /\ Owed = 0
  <1> USE DEF IInv
  <1>1. /\ proc \in Procs /\ outbox[proc] \in Seq(Sendable) /\ inbox[proc] \in Seq(Sendable)
    BY DEF ProcInv, TypeInv
  <1>2. Owed \in Nat
    BY <1>1, LoadFacts DEF Owed
  <1>3. Owed = 0 /\ \A g \in others : ~(g.at = "write" /\ g.to = proc)
    BY <1>2 DEF CleanInv
  <1>4. outbox[proc] = <<>> /\ (status[proc] = "running" => inbox[proc] = <<>>)
    BY <1>1, <1>3, LoadFacts DEF Owed
  <1>5. QED
    BY <1>1, <1>3, <1>4, EmptyPipe

\* The wait is over: the answer is there, or the goroutine is given up.
LEMMA EndStep ==
  ASSUME IInv, pc \in Waits, mine.at \in {"write", "look", "read", "done"}, mine' = NoSend,
         others' = IF mine.at = "done" THEN others ELSE others \cup {mine},
         dead' \in BOOLEAN, ~dead' => mine.at = "done" /\ ~dead,
         pc' \in {"send", "restart", "idle"},
         pc' = "send" => pc = "awaitClear", pc = "awaitClear" => pc' = "send",
         pc' = "restart" => dead' /\ ~HasRef /\ pc = "await",
         got' \in CallNumbers \cup {0},
         UNCHANGED <<bounded, procVars, proc, hasCmd, pending, frees, calls>>
  PROVE  IInv'
  <1> USE DEF IInv
  <1>0. UNCHANGED <<bounded, status, inbox, outbox, computed, proc, hasCmd, pending, frees, calls>>
    BY DEF procVars
  <1>1. mine \in Goroutines /\ mine.to = proc /\ proc \in Procs /\ mine.from \in {0, proc}
        /\ (mine.at = "read" => mine.from = proc)
    BY DEF TypeInv, MineInv
  <1>2. mine.at # "done" => mine.req \in Sendable
    BY GoroutineFacts
  <1>3. NoSend \in Goroutines /\ NoSend.at = "none"
    BY DEF NoSend, Goroutines
  <1>4. others \subseteq others' /\ others' \subseteq others \cup {mine}
    OBVIOUS
  <1>5. TypeInv'
    BY <1>0, <1>1, <1>3 DEF TypeInv, Waits
  <1>6. MineInv'
    BY <1>3 DEF MineInv, Waits
  <1>7. OthersInv'
    BY <1>0, <1>1, <1>2, <1>4 DEF OthersInv, Procs
  <1>8. ProcInv'
    BY <1>0 DEF ProcInv
  <1>9. PcInv'
    BY <1>0 DEF PcInv, HasRef, Waits
  <1>10. CleanInv'
    <2> SUFFICES ASSUME hasCmd, ~dead'
                 PROVE  /\ \A k \in others : ~(k.at = "write" /\ k.to = proc)
                        /\ Owed' <= 0
      BY <1>0, <1>3 DEF CleanInv
    <2>1. mine.at \notin {"look", "read"} /\ ~dead
      OBVIOUS
    <2>2. Owed = 0 /\ \A k \in others : ~(k.at = "write" /\ k.to = proc)
      BY <2>1, Quiet
    <2>3. Owed' = Owed
      BY <1>0 DEF Owed
    <2>4. QED
      BY <2>2, <2>3
  <1>11. OwnInv'
    <2> SUFFICES ASSUME pc' = "send" PROVE OwnInv'
      BY DEF OwnInv
    <2>1. OwnLines' = OwnLines /\ pc = "awaitClear" /\ mine.req = Clear
      BY <1>0 DEF OwnLines, Current, MineInv
    <2>2. QED
      BY <1>0, <1>3, <1>4, <2>1 DEF OwnInv, OwnLines
  <1>12. \A c \in CallNumbers, p \in Procs : ~Writes(mine', c, p)
    BY <1>3 DEF Writes
  <1>13. UniqueInv'
    <2>1. \A c \in CallNumbers, p \in Procs :
            /\ Once(inbox[p], Op(c))
            /\ \A g \in others' : Writes(g, c, p) => Op(c) \notin Inside(inbox[p])
            /\ \A g, h \in others' : Writes(g, c, p) /\ Writes(h, c, p) => g = h
      BY <1>4 DEF UniqueInv
    <2>2. pc' # "sendAgain"
      OBVIOUS
    <2>3. QED
      BY <1>0, <1>12, <2>1, <2>2 DEF UniqueInv
  <1>14. AnswerInv'
    BY <1>0, <1>3 DEF AnswerInv, Answers
  <1>15. CountInv'
    <2>1. \A c \in CallNumbers : Holders(c)' \subseteq Holders(c)
      BY <1>0, <1>4, <1>12 DEF Holders
    <2>2. \A c \in CallNumbers : Tries(c) <= Tries(c)'
      <3> SUFFICES ASSUME NEW c \in CallNumbers PROVE Tries(c) <= Tries(c)'
        OBVIOUS
      <3>1. Limit(c)' = Limit(c) /\ Limit(c) \in 0..2
        BY <1>0, TriesFacts DEF Limit
      <3>2. CASE c # Len(calls) \/ pc = "drain"
        <4>1. Tries(c) = Limit(c)
          BY <3>2 DEF Tries
        <4>2. Tries(c)' = Limit(c)
          BY <1>0, <3>1, <3>2 DEF Tries
        <4>3. QED
          BY <3>1, <4>1, <4>2
      <3>3. CASE c = Len(calls) /\ pc # "drain"
        <4>1. pc \in {"await", "awaitAgain"} => Limit(c) = (IF HasRef THEN 1 ELSE 2)
          <5>1. c \in 1..Len(calls) /\ calls # <<>> /\ HasRef = calls[c].hasRef
            BY <3>3 DEF TypeInv, CallNumbers, HasRef, Last
          <5>2. ~(c > Len(calls))
            BY <3>3 DEF CallNumbers
          <5>3. QED
            BY <5>1, <5>2 DEF Limit
        <4>2. pc = "awaitAgain" => ~HasRef
          BY DEF PcInv
        <4>3. CASE pc = "awaitClear"
          BY <1>0, <3>3, <4>3 DEF Tries
        <4>4. CASE pc = "await"
          BY <1>0, <3>1, <3>3, <4>1, <4>4 DEF Tries
        <4>5. CASE pc = "awaitAgain"
          BY <1>0, <3>1, <3>3, <4>1, <4>2, <4>5 DEF Tries
        <4>6. QED
          BY <3>3, <4>3, <4>4, <4>5 DEF Waits
      <3>4. QED
        BY <3>2, <3>3
    <2>3. QED
      BY <1>0, <1>5, <2>1, <2>2, CountStays
  <1>16. QED
    BY <1>5, <1>6, <1>7, <1>8, <1>9, <1>10, <1>11, <1>13, <1>14, <1>15

\* A goroutine begins to write line r.
LEMMA SendStep ==
  ASSUME IInv, NEW r \in Sendable, mine' = Send(r), hasCmd, pending' \in BOOLEAN,
         <<pc, pc'>> \in {<<"flush", "awaitClear">>, <<"send", "await">>,
                          <<"sendAgain", "awaitAgain">>, <<"idle", "drain">>},
         pc' \in {"awaitClear", "drain"} => r = Clear /\ ~dead,
         pc' \in {"await", "awaitAgain"} => r = Op(Current),
         UNCHANGED <<bounded, procVars, proc, hasCmd, dead, frees, calls, got, others>>
  PROVE  IInv'
  <1> USE DEF IInv
  <1>0. /\ UNCHANGED <<bounded, status, inbox, outbox, computed, proc, hasCmd, dead, frees, calls,
                       got, others>>
        /\ \/ pc = "flush" /\ pc' = "awaitClear"
           \/ pc = "send" /\ pc' = "await"
           \/ pc = "sendAgain" /\ pc' = "awaitAgain"
           \/ pc = "idle" /\ pc' = "drain"
    BY DEF procVars
  <1>1. /\ mine.at = "none" /\ proc \in Procs
        /\ pc' \in {"awaitClear", "await", "awaitAgain", "drain"}
    BY <1>0 DEF MineInv, ProcInv, Waits
  <1>2. /\ mine' \in Goroutines /\ mine'.at = "write" /\ mine'.req = r /\ mine'.to = proc
        /\ mine'.from = 0
    BY <1>1 DEF Send, Goroutines
  <1>3. Current' = Current /\ OwnLines' = OwnLines /\ HasRef' = HasRef
    BY <1>0 DEF Current, OwnLines, HasRef
  <1>4. TypeInv'
    BY <1>0, <1>2 DEF TypeInv, Waits
  <1>5. MineInv'
    BY <1>0, <1>1, <1>2, <1>3 DEF MineInv, Waits
  <1>6. OthersInv' /\ ProcInv'
    BY <1>0 DEF OthersInv, ProcInv
  <1>7. PcInv'
    BY <1>0, <1>3 DEF PcInv
  <1>8. CleanInv'
    <2>1. Owed' = Owed
      BY <1>0 DEF Owed
    <2>2. ~dead => Owed = 0 /\ \A k \in others : ~(k.at = "write" /\ k.to = proc)
      BY <1>1, Quiet
    <2>3. QED
      BY <1>0, <1>2, <2>1, <2>2 DEF CleanInv
  <1>9. OwnInv'
    <2>1. /\ ~dead => /\ Inside(outbox[proc]) = {}
                      /\ status[proc] = "running" => Inside(inbox[proc]) = {}
                      /\ \A k \in others : ~(k.at = "write" /\ k.to = proc)
      BY <1>1, Quiet
    <2>2. CASE pc = "send"
      BY <1>0, <1>2, <1>3, <2>2 DEF OwnInv
    <2>3. CASE pc # "send"
      <3>1. ~dead
        BY <1>0, <2>3 DEF PcInv
      <3>2. QED
        BY <1>0, <1>2, <1>3, <2>1, <3>1 DEF OwnInv
    <2>4. QED
      BY <2>2, <2>3
  <1>10. \A c \in CallNumbers, p \in Procs : Writes(mine', c, p) => r = Op(c) /\ p = proc
    BY <1>2 DEF Writes
  <1>11. \A c \in CallNumbers :
           r = Op(c) => /\ c = Len(calls) /\ pc \in {"send", "sendAgain"}
                        /\ Op(c) \notin Inside(inbox[proc])
                        /\ \A k \in others : ~Writes(k, c, proc)
    <2> SUFFICES ASSUME NEW c \in CallNumbers, r = Op(c)
                 PROVE  /\ c = Len(calls) /\ pc \in {"send", "sendAgain"}
                        /\ Op(c) \notin Inside(inbox[proc])
                        /\ \A k \in others : ~Writes(k, c, proc)
      OBVIOUS
    <2>1. r # Clear
      BY DEF Clear, Op
    <2>2. c = Len(calls) /\ pc \in {"send", "sendAgain"}
      BY <1>0, <2>1 DEF Op, Current
    <2>3. CASE pc = "sendAgain"
      <3>1. ~dead /\ inbox[proc] = <<>>
        BY <2>3 DEF PcInv, UniqueInv
      <3>2. QED
        BY <1>1, <2>2, <3>1, Quiet, EmptyPipe DEF Writes
    <2>4. CASE pc = "send"
      <3>1. Tries(c) = 0 /\ computed[c] \in Nat
        BY <2>2, <2>4 DEF Tries, TypeInv
      <3>2. IsFiniteSet(Holders(c)) /\ Cardinality(Holders(c)) \in Nat
        BY CountFacts DEF Holders
      <3>3. Cardinality(Holders(c)) = 0
        BY <3>1, <3>2 DEF CountInv
      <3>4. Holders(c) = {}
        BY <3>2, <3>3, FS_EmptySet
      <3>5. QED
        BY <1>1, <2>2, <3>4 DEF Holders
    <2>5. QED
      BY <2>2, <2>3, <2>4
  <1>12. UniqueInv'
    <2> SUFFICES ASSUME NEW c \in CallNumbers, NEW p \in Procs
                 PROVE  /\ Once(inbox[p], Op(c))
                        /\ \A k \in others \cup {mine'} :
                             Writes(k, c, p) => Op(c) \notin Inside(inbox[p])
                        /\ \A k \in others : ~(Writes(k, c, p) /\ Writes(mine', c, p))
                        /\ \A k, l \in others : Writes(k, c, p) /\ Writes(l, c, p) => k = l
      BY <1>0, <1>1 DEF UniqueInv
    <2>1. QED
      BY <1>10, <1>11 DEF UniqueInv
  <1>13. AnswerInv'
    BY <1>0, <1>2 DEF AnswerInv, Answers
  <1>14. CountInv'
    <2> SUFFICES ASSUME NEW c \in CallNumbers
                 PROVE  computed[c] + Cardinality(Holders(c)') <= Tries(c)'
      BY <1>0 DEF CountInv
    <2>1. /\ computed[c] \in Nat /\ Holders(c) \in SUBSET Procs
          /\ Holders(c)' \in SUBSET Procs
      BY DEF TypeInv, Holders
    <2>2. Cardinality(Holders(c)) \in Nat /\ Cardinality(Holders(c)') \in Nat
      BY <2>1, CountFacts
    <2>3. computed[c] + Cardinality(Holders(c)) <= Tries(c)
      BY DEF CountInv
    <2>4. Tries(c) \in Nat
      BY TriesFacts
    <2>5. Limit(c)' = Limit(c)
      BY <1>0 DEF Limit
    <2>6. CASE r = Op(c)
      <3>1. Holders(c)' \subseteq Holders(c) \cup {proc}
        BY <1>0, <1>10 DEF Holders
      <3>2. Cardinality(Holders(c)') <= Cardinality(Holders(c)) + 1
        BY <1>1, <2>1, <3>1, OneMore
      <3>3. c = Len(calls) /\ pc \in {"send", "sendAgain"}
        BY <1>11, <2>6
      <3>4. Tries(c)' = Tries(c) + 1
        BY <1>0, <3>3 DEF Tries
      <3>5. QED
        BY <2>1, <2>2, <2>3, <2>4, <3>2, <3>4
    <2>7. CASE r # Op(c)
      <3>1. Holders(c)' \subseteq Holders(c)
        BY <1>0, <1>10, <2>7 DEF Holders
      <3>2. Cardinality(Holders(c)') <= Cardinality(Holders(c))
        BY <2>1, <3>1, CountFacts
      <3>3. Tries(c)' = Tries(c)
        <4>1. c # Len(calls) \/ pc \notin {"send", "sendAgain"}
          BY <1>0, <2>7 DEF Current
        <4>2. QED
          BY <1>0, <2>5, <4>1 DEF Tries
      <3>4. QED
        BY <2>1, <2>2, <2>3, <2>4, <3>2, <3>3
    <2>8. QED
      BY <2>6, <2>7
  <1>15. QED
    BY <1>4, <1>5, <1>6, <1>7, <1>8, <1>9, <1>12, <1>13, <1>14

\* Steps that wait for nothing, before and after, and touch no pipe.
LEMMA IdleStep ==
  ASSUME IInv, mine.at = "none", mine' = mine, hasCmd' \in BOOLEAN, dead' \in BOOLEAN,
         pending' \in BOOLEAN, frees' \in 0..MaxFrees, got' \in CallNumbers \cup {0},
         pc' \in {"idle", "flush", "send"}, pc' = "idle" => pc \in {"idle", "ensure", "restart"},
         pc' = "flush" => pc = "ensure" /\ hasCmd' /\ ~dead',
         pc' = "send" => pc = "flush" /\ hasCmd' /\ status' = status,
         hasCmd' => hasCmd, ~dead' => ~dead,
         status' \in [Procs -> {"unborn", "running", "gone"}],
         \A p \in Procs : status'[p] = status[p] \/ (status[p] # "unborn" /\ status'[p] = "gone"),
         UNCHANGED <<bounded, inbox, outbox, computed, proc, calls, others>>
  PROVE  IInv'
  <1> USE DEF IInv
  <1>1. pc \in {"idle", "ensure", "flush", "send", "restart", "sendAgain"} /\ pc \notin Waits
    BY DEF TypeInv, MineInv
  <1>2. TypeInv'
    BY DEF TypeInv
  <1>3. MineInv' /\ OthersInv'
    BY <1>1 DEF MineInv, OthersInv, Waits
  <1>4. ProcInv'
    BY DEF ProcInv
  <1>5. PcInv'
    BY <1>1 DEF PcInv, HasRef
  <1>6. CleanInv'
    <2> SUFFICES ASSUME hasCmd', ~dead'
                 PROVE  Owed' <= 0 /\ \A g \in others : ~(g.at = "write" /\ g.to = proc)
      BY DEF CleanInv
    <2>1. /\ Owed = 0 /\ proc \in Procs
          /\ \A g \in others : ~(g.at = "write" /\ g.to = proc)
      BY Quiet
    <2>2. outbox[proc] \in Seq(Sendable) /\ inbox[proc] \in Seq(Sendable)
      BY <2>1 DEF TypeInv
    <2>3. Load(outbox[proc], inbox[proc], "gone") <= 0
      BY <2>1, <2>2, LoadFacts DEF Owed
    <2>4. Owed' = Load(outbox[proc], inbox[proc], status'[proc])
      BY DEF Owed
    <2>5. status'[proc] = status[proc] \/ status'[proc] = "gone"
      BY <2>1
    <2>6. QED
      BY <2>1, <2>3, <2>4, <2>5 DEF Owed
  <1>7. OwnInv'
    <2> SUFFICES ASSUME pc' = "send" PROVE OwnInv'
      BY DEF OwnInv
    <2>1. hasCmd /\ ~dead
      BY DEF PcInv
    <2>2. QED
      BY <2>1, Quiet DEF OwnInv, OwnLines, Current
  <1>8. UniqueInv' /\ AnswerInv'
    BY DEF UniqueInv, AnswerInv, Answers, Writes
  <1>9. CountInv'
    <2>1. \A c \in CallNumbers : Holders(c)' \subseteq Holders(c)
      BY DEF Holders, Writes
    <2>2. \A c \in CallNumbers : Tries(c) <= Tries(c)'
      <3> SUFFICES ASSUME NEW c \in CallNumbers PROVE Tries(c) <= Tries(c)'
        OBVIOUS
      <3>1. Limit(c)' = Limit(c) /\ Limit(c) \in 0..2
        BY TriesFacts DEF Limit
      <3>2. CASE pc = "restart" /\ c = Len(calls)
        <4>1. ~HasRef /\ calls # <<>> /\ ~(c > Len(calls)) /\ HasRef = calls[c].hasRef
          BY <3>2 DEF PcInv, HasRef, Last, CallNumbers
        <4>2. Limit(c) = 2
          BY <4>1 DEF Limit
        <4>3. QED
          BY <3>1, <3>2, <4>2 DEF Tries
      <3>3. CASE ~(pc = "restart" /\ c = Len(calls))
        BY <1>1, <3>1, <3>3 DEF Tries
      <3>4. QED
        BY <3>2, <3>3
    <2>3. QED
      BY <1>2, <2>1, <2>2, CountStays
  <1>10. QED
    BY <1>2, <1>3, <1>4, <1>5, <1>6, <1>7, <1>8, <1>9

\* Processes are started one after the other.
LEMMA NextIsNew ==
  ASSUME IInv
  PROVE  NextProc = proc + 1
  <1>1. {p \in Procs : status[p] # "unborn"} = 1..proc
    <2>1. proc \in 0..MaxStarts /\ MaxStarts \in Nat
      BY WireBounds DEF IInv, TypeInv, Procs
    <2>2. \A p \in Procs : status[p] # "unborn" <=> p \in Nat /\ p <= proc
      BY <2>1 DEF IInv, ProcInv, Procs
    <2>3. 1..proc \subseteq Procs
      BY <2>1 DEF Procs
    <2>4. QED
      BY <2>1, <2>2, <2>3 DEF Procs
  <1>2. Cardinality(1..proc) = proc
    <2>1. proc \in Int /\ proc >= 0
      BY WireBounds DEF IInv, TypeInv, Procs
    <2>2. Cardinality(1..proc) = IF 1 > proc THEN 0 ELSE proc - 1 + 1
      BY <2>1, FS_Interval
    <2>3. QED
      BY <2>1, <2>2
  <1>3. QED
    BY <1>1, <1>2 DEF NextProc

\* A new process is started: no goroutine knows it yet.
LEMMA StartStep ==
  ASSUME IInv, NEW next, <<pc, next>> \in {<<"ensure", "flush">>, <<"restart", "sendAgain">>},
         NextProc <= MaxStarts, Start(next),
         UNCHANGED <<bounded, inbox, outbox, computed, pending, frees, mine, others>>
  PROVE  IInv'
  <1> USE DEF IInv
  <1>1. /\ status' = [(IF hasCmd THEN Killed ELSE status) EXCEPT ![proc + 1] = "running"]
        /\ proc' = proc + 1 /\ proc + 1 \in Procs
        /\ hasCmd' = TRUE /\ dead' = FALSE /\ pc' = next /\ got' = got /\ calls' = calls
    <2>1. proc \in Nat
      BY WireBounds DEF TypeInv, Procs
    <2>2. QED
      BY <2>1, NextIsNew, WireBounds DEF Start, Procs
  <1>2. /\ \/ pc = "ensure" /\ pc' = "flush"
           \/ pc = "restart" /\ pc' = "sendAgain"
        /\ mine.at = "none"
    BY <1>1 DEF MineInv, Waits
  <1>3. /\ status' \in [Procs -> {"unborn", "running", "gone"}]
        /\ status'[proc + 1] = "running"
        /\ \A p \in Procs : p # proc + 1 => (status'[p] = "unborn" <=> status[p] = "unborn")
        /\ \A p \in Procs : p <= proc \/ p >= proc + 1
    <2>1. \A p \in Procs : p <= proc \/ p >= proc + 1
      BY WireBounds DEF TypeInv, Procs
    <2>2. CASE hasCmd
      <3>1. proc \in Procs /\ status[proc] # "unborn"
        BY <2>2, WireBounds DEF ProcInv, Procs
      <3>2. QED
        BY <1>1, <2>1, <2>2, <3>1 DEF TypeInv, Killed
    <2>3. CASE ~hasCmd
      BY <1>1, <2>1, <2>3 DEF TypeInv
    <2>4. QED
      BY <2>2, <2>3
  <1>4. inbox[proc + 1] = <<>> /\ outbox[proc + 1] = <<>> /\ Inside(<<>>) = {}
    <2>1. proc \in Nat
      BY WireBounds DEF TypeInv, Procs
    <2>2. proc + 1 > proc
      BY <2>1
    <2>3. QED
      BY <1>1, <2>2, EmptyPipe DEF ProcInv
  <1>5. \A g \in others : g.to <= proc /\ g.from <= proc /\ g.to # proc + 1
    BY WireBounds DEF OthersInv, TypeInv, Procs
  <1>6. TypeInv'
    BY <1>1, <1>2, <1>3 DEF TypeInv
  <1>7. MineInv'
    BY <1>2 DEF MineInv, Waits
  <1>8. OthersInv'
    <2>1. proc \in Int /\ \A g \in others : g.to \in Int /\ g.from \in Int
      BY WireBounds DEF OthersInv, TypeInv, Procs, Goroutines
    <2>2. \A g \in others : g.to <= proc + 1 /\ g.from <= proc + 1
      BY <2>1, <1>5
    <2>3. QED
      BY <1>1, <2>2 DEF OthersInv
  <1>9. ProcInv'
    <2>1. proc \in Nat /\ \A p \in Procs : p \in Nat
      BY WireBounds DEF TypeInv, Procs
    <2>2. \A p \in Procs : p > proc + 1 <=> p > proc /\ p # proc + 1
      BY <2>1
    <2>3. \A p \in Procs : /\ status[p] = "unborn" <=> p > proc
                           /\ p > proc => inbox[p] = <<>> /\ outbox[p] = <<>>
      BY DEF ProcInv
    <2>4. \A p \in Procs : /\ status'[p] = "unborn" <=> p > proc + 1
                           /\ p > proc + 1 => inbox'[p] = <<>> /\ outbox'[p] = <<>>
      BY <1>3, <2>2, <2>3
    <2>5. QED
      BY <1>1, <2>4 DEF ProcInv
  <1>10. PcInv'
    BY <1>1, <1>2 DEF PcInv, HasRef
  <1>11. CleanInv'
    <2>1. Load(<<>>, <<>>, "running") <= 0
      BY EmptyPipe DEF Load
    <2>2. Owed' = Load(<<>>, <<>>, "running")
      BY <1>1, <1>3, <1>4 DEF Owed
    <2>3. QED
      BY <1>1, <1>2, <1>5, <2>1, <2>2 DEF CleanInv
  <1>12. OwnInv'
    BY <1>1, <1>2, <1>4, <1>5 DEF OwnInv
  <1>13. UniqueInv'
    BY <1>1, <1>4 DEF UniqueInv, Writes
  <1>14. AnswerInv'
    BY <1>2 DEF AnswerInv
  <1>15. CountInv'
    <2>1. \A c \in CallNumbers : Holders(c)' \subseteq Holders(c)
      BY DEF Holders, Writes
    <2>2. \A c \in CallNumbers : Tries(c)' = Tries(c) /\ Tries(c) \in Nat
      BY <1>1, <1>2, TriesFacts DEF Tries, Limit
    <2>3. QED
      BY <1>6, <2>1, <2>2, CountStays
  <1>16. QED
    BY <1>6, <1>7, <1>8, <1>9, <1>10, <1>11, <1>12, <1>13, <1>14, <1>15

LEMMA BeginStep ==
  ASSUME IInv, NEW c \in Call, Begin(c)
  PROVE  IInv'
  <1> USE DEF IInv
  <1>1. /\ pc = "idle" /\ Len(calls) < MaxCalls
        /\ calls' = Append(calls, c) /\ pc' = "ensure" /\ mine.at = "none"
        /\ UNCHANGED <<bounded, status, inbox, outbox, computed, proc, hasCmd, dead, pending, frees,
                       got, mine, others>>
    BY DEF Begin, procVars, backendVars, MineInv, Waits
  <1>2. /\ calls' \in Seq(Call) /\ Len(calls') = Len(calls) + 1 /\ calls' # <<>>
        /\ Len(calls) \in Nat
        /\ \A k \in 1..Len(calls) : calls'[k] = calls[k]
    <2>1. calls \in Seq(Call)
      BY DEF TypeInv
    <2>2. /\ calls' \in Seq(Call) /\ Len(calls') = Len(calls) + 1 /\ Len(calls) \in Nat
          /\ \A k \in 1..Len(calls) : calls'[k] = calls[k]
      BY <1>1, <2>1, AppendProperties, LenProperties
    <2>3. calls' # <<>>
      BY <2>2, EmptyPipe
    <2>4. QED
      BY <2>2, <2>3
  <1>3. TypeInv'
    BY <1>1, <1>2, WireBounds DEF TypeInv
  <1>4. MineInv' /\ OthersInv' /\ ProcInv' /\ PcInv'
    BY <1>1, <1>2 DEF MineInv, OthersInv, ProcInv, PcInv, Waits
  <1>5. CleanInv' /\ OwnInv' /\ UniqueInv' /\ AnswerInv'
    <2>1. CleanInv' /\ OwnInv'
      BY <1>1 DEF CleanInv, Owed, OwnInv
    <2>2. UniqueInv'
      BY <1>1 DEF UniqueInv, Writes
    <2>3. AnswerInv'
      BY <1>1 DEF AnswerInv, Answers
    <2>4. QED
      BY <2>1, <2>2, <2>3
  <1>6. CountInv'
    <2>1. \A k \in CallNumbers : Holders(k)' \subseteq Holders(k)
      BY <1>1 DEF Holders, Writes
    <2>2. \A k \in CallNumbers : Tries(k) <= Tries(k)'
      <3> SUFFICES ASSUME NEW k \in CallNumbers PROVE Tries(k) <= Tries(k)'
        OBVIOUS
      <3>1. Tries(k) = Limit(k) /\ Limit(k) \in 0..2 /\ k \in Nat /\ k >= 1
        BY <1>1, TriesFacts DEF Tries, CallNumbers
      <3>2. CASE k <= Len(calls)
        <4>1. calls'[k] = calls[k] /\ k # Len(calls') /\ ~(k > Len(calls')) /\ ~(k > Len(calls))
          BY <1>2, <3>1, <3>2
        <4>2. Tries(k)' = Limit(k)
          BY <4>1 DEF Tries, Limit
        <4>3. QED
          BY <3>1, <4>2
      <3>3. CASE k > Len(calls)
        <4>1. Tries(k) = 0
          BY <3>1, <3>3 DEF Limit
        <4>2. Tries(k)' \in Nat
          BY <1>3 DEF TypeInv, Tries, Limit
        <4>3. QED
          BY <4>1, <4>2
      <3>4. QED
        BY <1>2, <3>1, <3>2, <3>3
    <2>3. QED
      BY <1>1, <1>3, <2>1, <2>2, CountStays
  <1>7. QED
    BY <1>3, <1>4, <1>5, <1>6

LEMMA StartSteps ==
  ASSUME IInv, NEW from, NEW next,
         <<from, next>> \in {<<"ensure", "flush">>, <<"restart", "sendAgain">>},
         EnsureStarted(from, next)
  PROVE  IInv'
  <1>0. TypeInv /\ MineInv /\ ProcInv /\ PcInv
    BY DEF IInv
  <1>1. /\ pc = from /\ mine.at = "none"
        /\ UNCHANGED <<bounded, inbox, outbox, computed, pending, frees, mine, others>>
    BY <1>0 DEF EnsureStarted, MineInv, Waits
  <1>2. /\ hasCmd \in BOOLEAN /\ dead \in BOOLEAN /\ pending \in BOOLEAN /\ frees \in 0..MaxFrees
        /\ got \in CallNumbers \cup {0} /\ status \in [Procs -> {"unborn", "running", "gone"}]
    BY <1>0 DEF TypeInv
  <1>3. CASE hasCmd /\ ~dead
    <2>1. pc' = next /\ UNCHANGED <<status, proc, hasCmd, dead, calls, got>>
      BY <1>3 DEF EnsureStarted
    <2>2. pc = "ensure" /\ next = "flush"
      BY <1>0, <1>1, <1>3 DEF PcInv
    <2>3. QED
      BY <1>1, <1>2, <1>3, <2>1, <2>2, IdleStep
  <1>4. CASE ~(hasCmd /\ ~dead) /\ NextProc <= MaxStarts /\ Start(next)
    BY <1>1, <1>4, StartStep
  <1>5. CASE ~(hasCmd /\ ~dead) /\ StartFails
    <2>1. /\ status' = (IF hasCmd THEN Killed ELSE status)
          /\ hasCmd' = FALSE /\ pc' = "idle" /\ got' = 0 /\ UNCHANGED <<proc, dead, calls>>
      BY <1>5 DEF StartFails, Return
    <2>2. hasCmd => proc \in Procs /\ status[proc] # "unborn"
      BY <1>0, WireBounds DEF ProcInv, Procs
    <2>3. /\ status' \in [Procs -> {"unborn", "running", "gone"}]
          /\ \A p \in Procs : \/ status'[p] = status[p]
                              \/ (status[p] # "unborn" /\ status'[p] = "gone")
      BY <1>2, <2>1, <2>2 DEF Killed
    <2>4. pc \in {"idle", "ensure", "restart"}
      BY <1>1
    <2>5. QED
      BY <1>1, <1>2, <2>1, <2>3, <2>4, IdleStep
  <1>6. QED
    BY <1>3, <1>4, <1>5 DEF EnsureStarted

LEMMA FlushSteps ==
  ASSUME IInv, Flush("flush", "awaitClear", "send") \/ Drain
  PROVE  IInv'
  <1>0. TypeInv /\ MineInv /\ ProcInv /\ PcInv
    BY DEF IInv
  <1>1. /\ pc \in {"flush", "idle"} /\ mine.at = "none" /\ pending' \in BOOLEAN
        /\ UNCHANGED <<bounded, procVars, proc, hasCmd, dead, frees, calls, got, others>>
    BY <1>0 DEF Flush, Drain, MineInv, Waits, TypeInv
  <1>2. /\ hasCmd \in BOOLEAN /\ dead \in BOOLEAN /\ frees \in 0..MaxFrees
        /\ got \in CallNumbers \cup {0} /\ status \in [Procs -> {"unborn", "running", "gone"}]
    BY <1>0 DEF TypeInv
  <1>3. CASE mine' = mine
    <2>1. \/ pc = "flush" /\ pc' = "send" /\ hasCmd
          \/ pc = "idle" /\ pc' = "idle"
      <3>1. NoSend.at = "none" /\ Send(Clear).at = "write" /\ mine.at = "none"
        BY <1>1 DEF NoSend, Send
      <3>2. QED
        BY <1>0, <1>3, <3>1 DEF Flush, Drain, PcInv, Clear
    <2>2. QED
      BY <1>1, <1>2, <1>3, <2>1, IdleStep DEF procVars
  <1>4. CASE mine' # mine
    <2>1. /\ mine' = Send(Clear)
          /\ \/ pc = "flush" /\ pc' = "awaitClear" /\ hasCmd /\ ~dead
             \/ pc = "idle" /\ pc' = "drain" /\ hasCmd /\ ~dead
      BY <1>0, <1>4 DEF Flush, Drain, PcInv, Clear
    <2>2. Clear \in Sendable
      BY DEF Sendable
    <2>3. QED
      BY <1>1, <2>1, <2>2, SendStep
  <1>5. QED
    BY <1>3, <1>4

LEMMA OpSteps ==
  ASSUME IInv, SendOp("send", "await") \/ SendOp("sendAgain", "awaitAgain")
  PROVE  IInv'
  <1>1. /\ <<pc, pc'>> \in {<<"send", "await">>, <<"sendAgain", "awaitAgain">>}
        /\ mine' = Send(Op(Current))
        /\ UNCHANGED <<bounded, procVars, backendVars, calls, got, others>>
    BY DEF SendOp, Op
  <1>2. hasCmd /\ pending \in BOOLEAN /\ Current \in CallNumbers
    <2>1. /\ calls \in Seq(Call) /\ Len(calls) <= MaxCalls /\ calls # <<>>
          /\ hasCmd /\ pending \in BOOLEAN
      BY <1>1 DEF IInv, TypeInv, PcInv
    <2>2. Len(calls) \in Nat /\ Len(calls) # 0
      BY <2>1, PipeFacts
    <2>3. QED
      BY <2>1, <2>2, WireBounds DEF Current, CallNumbers
  <1>3. Op(Current) \in Sendable
    BY <1>2 DEF Sendable
  <1>4. UNCHANGED <<proc, hasCmd, dead, pending, frees>>
    BY <1>1 DEF backendVars
  <1>5. QED
    BY <1>1, <1>2, <1>3, <1>4, SendStep

LEMMA EndSteps ==
  ASSUME IInv,
         \/ FlushEnds("awaitClear", "send") \/ FlushEnds("drain", "idle")
         \/ SendAnswered \/ SendFails \/ SendFailsAgain
  PROVE  IInv'
  <1>0. TypeInv /\ MineInv /\ OwnInv /\ PcInv
    BY DEF IInv
  <1>1. /\ pc \in Waits /\ mine.at \in {"write", "look", "read", "done"} /\ mine' = NoSend
        /\ UNCHANGED <<bounded, procVars, proc, hasCmd, pending, frees, calls>>
    BY DEF FlushEnds, SendAnswered, SendFails, SendFailsAgain, Received, Return, Waits, Answered,
           SendBroke, Arrived, TimedOut
  <1>2. others' = IF mine.at = "done" THEN others ELSE others \cup {mine}
    BY DEF FlushEnds, SendAnswered, SendFails, SendFailsAgain, GiveUp, Answered, Arrived
  <1>3. dead' \in BOOLEAN /\ (~dead' => mine.at = "done" /\ ~dead)
    BY <1>0 DEF FlushEnds, SendAnswered, SendFails, SendFailsAgain, TypeInv, Answered, Arrived
  <1>4. /\ pc' \in {"send", "restart", "idle"} /\ (pc' = "send" <=> pc = "awaitClear")
        /\ pc' = "restart" => dead' /\ ~HasRef /\ pc = "await"
    BY DEF FlushEnds, SendAnswered, SendFails, SendFailsAgain, Return, Repeats
  <1>5. got' \in CallNumbers \cup {0}
    <2>1. CASE SendAnswered
      <3>1. got' = Decoded(mine.line) /\ mine.line \in Sendable \cup {Lost}
        BY <1>0, <2>1 DEF SendAnswered, Return, TypeInv, Goroutines
      <3>2. QED
        BY <3>1 DEF Decoded, Sendable, Lost, Clear, Op
    <2>2. CASE ~SendAnswered
      BY <1>0, <2>2 DEF FlushEnds, SendFails, SendFailsAgain, Return, TypeInv
    <2>3. QED
      BY <2>1, <2>2
  <1>6. QED
    BY <1>1, <1>2, <1>3, <1>4, <1>5, EndStep

LEMMA CloseStep ==
  ASSUME IInv, Close
  PROVE  IInv'
  <1>1. /\ pc = "idle" /\ hasCmd /\ hasCmd' = FALSE /\ dead' = TRUE
        /\ status' = [status EXCEPT ![proc] = "gone"]
        /\ UNCHANGED <<bounded, inbox, outbox, computed, proc, pending, frees, calls, pc, got,
                       mine, others>>
    BY DEF Close, Killed, callVars
  <1>2. /\ mine.at = "none" /\ pending \in BOOLEAN /\ frees \in 0..MaxFrees
        /\ got \in CallNumbers \cup {0} /\ status \in [Procs -> {"unborn", "running", "gone"}]
        /\ proc \in Procs /\ status[proc] # "unborn"
    BY <1>1, WireBounds DEF IInv, TypeInv, MineInv, ProcInv, Procs, Waits
  <1>3. /\ status' \in [Procs -> {"unborn", "running", "gone"}]
        /\ \A p \in Procs : status'[p] = status[p] \/ (status[p] # "unborn" /\ status'[p] = "gone")
    BY <1>1, <1>2
  <1>4. QED
    BY <1>1, <1>2, <1>3, IdleStep

\* Steps that change at most the queue of ids to free.
LEMMA QueueStep ==
  ASSUME IInv, QueueFree \/ UNCHANGED vars
  PROVE  IInv'
  <1> USE DEF IInv
  <1>1. /\ UNCHANGED <<bounded, status, inbox, outbox, computed, proc, hasCmd, dead, calls, pc,
                       got, mine, others>>
        /\ pending' \in BOOLEAN /\ frees' \in 0..MaxFrees
    <2>1. pending \in BOOLEAN /\ frees \in 0..MaxFrees /\ MaxFrees \in Nat
      BY WireBounds DEF TypeInv
    <2>2. CASE QueueFree
      <3>1. frees' \in 0..MaxFrees /\ pending' = TRUE
        BY <2>1, <2>2 DEF QueueFree
      <3>2. QED
        BY <2>2, <3>1 DEF QueueFree, procVars, callVars
    <2>3. CASE UNCHANGED vars
      BY <2>1, <2>3 DEF vars, procVars, backendVars, callVars
    <2>4. QED
      BY <2>2, <2>3
  <1>2. TypeInv' /\ MineInv' /\ OthersInv' /\ ProcInv' /\ PcInv'
    BY <1>1 DEF TypeInv, MineInv, OthersInv, ProcInv, PcInv, Current, HasRef
  <1>3. CleanInv' /\ OwnInv' /\ UniqueInv' /\ AnswerInv'
    BY <1>1 DEF CleanInv, Owed, OwnInv, OwnLines, Current, UniqueInv, Writes, AnswerInv, Answers
  <1>4. CountInv'
    BY <1>1 DEF CountInv, Holders, Writes, Tries, Limit
  <1>5. QED
    BY <1>2, <1>3, <1>4

-----------------------------------------------------------------------------
(* The theorems *)

LEMMA InitIsSound == Init => IInv
  <1> SUFFICES ASSUME Init PROVE IInv
    OBVIOUS
  <1>0. MaxCalls \in Nat /\ MaxStarts \in Nat \ {0} /\ MaxFrees \in Nat
    BY WireBounds
  <1>1. /\ proc = 0 /\ hasCmd = FALSE /\ dead = FALSE /\ pending = FALSE /\ frees = 0
        /\ calls = <<>> /\ pc = "idle" /\ got = 0 /\ mine = NoSend /\ others = {}
        /\ mine.at = "none" /\ Len(calls) = 0
        /\ \A p \in Procs : /\ status[p] = "unborn" /\ inbox[p] = <<>> /\ outbox[p] = <<>>
                            /\ p > 0
    BY <1>0, EmptyPipe DEF Init, NoSend, Procs
  <1>2. TypeInv
    <2>1. NoSend \in Goroutines
      BY DEF NoSend, Goroutines
    <2>2. inbox \in [Procs -> Seq(Sendable)] /\ outbox \in [Procs -> Seq(Sendable)]
      BY EmptyPipe DEF Init
    <2>3. calls \in Seq(Call) /\ Len(calls) <= MaxCalls
      BY <1>0, <1>1, EmptyPipe
    <2>4. frees \in 0..MaxFrees
      BY <1>0, <1>1
    <2>5. QED
      BY <1>1, <2>1, <2>2, <2>3, <2>4 DEF TypeInv, Init
  <1>3. MineInv /\ OthersInv /\ ProcInv /\ PcInv /\ CleanInv /\ OwnInv
    BY <1>1 DEF MineInv, OthersInv, ProcInv, PcInv, CleanInv, OwnInv, Waits
  <1>4. Inside(<<>>) = {} /\ \A r : Once(<<>>, r)
    BY EmptyPipe
  <1>5. UniqueInv /\ AnswerInv
    BY <1>1, <1>4 DEF UniqueInv, AnswerInv, Writes
  <1>6. CountInv
    <2> SUFFICES ASSUME NEW c \in CallNumbers
                 PROVE  computed[c] + Cardinality(Holders(c)) <= Tries(c)
      BY DEF CountInv
    <2>1. Holders(c) = {}
      BY <1>1, <1>4 DEF Holders, Writes
    <2>2. computed[c] = 0 /\ Tries(c) = 0
      BY <1>1, EmptyPipe DEF Init, Tries, Limit, CallNumbers
    <2>3. QED
      BY <2>1, <2>2, FS_EmptySet
  <1>7. QED
    BY <1>2, <1>3, <1>5, <1>6 DEF IInv

LEMMA NextIsSound == IInv /\ [Next]_vars => IInv'
  <1> SUFFICES ASSUME IInv, [Next]_vars PROVE IInv'
    OBVIOUS
  <1>1. ASSUME NEW p \in Procs, Serve(p) \/ Die(p) PROVE IInv'
    BY <1>1, StepServe, StepDie
  <1>2. ASSUME NEW g \in others \cup {mine}, Goroutine(g) PROVE IInv'
    BY <1>2, StepMove, StepWrite DEF Goroutine
  <1>3. ASSUME NEW c \in Call, Begin(c) PROVE IInv'
    BY <1>3, BeginStep
  <1>4. CASE CallStep
    <2>1. CASE EnsureStarted("ensure", "flush")
      BY <2>1, StartSteps
    <2>2. CASE EnsureStarted("restart", "sendAgain")
      BY <2>2, StartSteps
    <2>3. CASE Flush("flush", "awaitClear", "send")
      BY <2>3, FlushSteps
    <2>4. CASE SendOp("send", "await") \/ SendOp("sendAgain", "awaitAgain")
      BY <2>4, OpSteps
    <2>5. CASE \/ FlushEnds("awaitClear", "send") \/ FlushEnds("drain", "idle")
               \/ SendAnswered \/ SendFails \/ SendFailsAgain
      BY <2>5, EndSteps
    <2>6. QED
      BY <1>4, <2>1, <2>2, <2>3, <2>4, <2>5 DEF CallStep
  <1>5. CASE Drain
    BY <1>5, FlushSteps
  <1>6. CASE Close
    BY <1>6, CloseStep
  <1>7. CASE QueueFree \/ UNCHANGED vars
    BY <1>7, QueueStep
  <1>8. QED
    BY <1>1, <1>2, <1>3, <1>4, <1>5, <1>6, <1>7 DEF Next

\* In every state the pipes carry, in order, what the goroutines wrote: a
\* process in use owes one line at most, and no process gets the op of a call
\* twice (send, roundtrip and ensureStarted, sage_cas.go 403-658).
THEOREM WireIsSound == Spec => []IInv
  BY InitIsSound, NextIsSound, PTL DEF Spec

\* The type invariant of the wire follows (state of SageBackend,
\* sage_cas.go 300-330, and of the goroutines of send).
THEOREM WireTypes == Spec => []TypeOK
  <1>1. IInv => TypeOK
    <2> SUFFICES ASSUME IInv PROVE TypeOK
      OBVIOUS
    <2>1. TypeInv /\ MineInv /\ OthersInv
      BY DEF IInv
    <2>2. Sendable \subseteq Request
      BY DEF Sendable, Clear, Op, Request
    <2>3. \A p \in Procs : inbox[p] \in Seq(Request) /\ outbox[p] \in Seq(Request)
      <3> SUFFICES ASSUME NEW s \in Seq(Sendable) PROVE s \in Seq(Request)
        BY <2>1 DEF TypeInv
      <3>1. \A i \in 1..Len(s) : s[i] \in Request
        BY <2>2, ElementOfSeq
      <3>2. QED
        BY <2>2
    <2>4. proc \in Nat
      BY <2>1, WireBounds DEF TypeInv, Procs
    <2>5. ASSUME NEW g \in others \cup {mine}
          PROVE  /\ g.at \in {"none", "write", "look", "read", "done"}
                 /\ {g.to, g.from} \subseteq 0..proc
      <3>1. g \in Goroutines
        BY <2>1 DEF TypeInv
      <3>2. g.to \in 0..proc /\ g.from \in 0..proc
        <4>1. g.to \in Nat /\ g.from \in Nat
          BY <3>1, WireBounds DEF Goroutines, Procs
        <4>2. g.to <= proc /\ g.from <= proc
          BY <2>1, <2>4 DEF OthersInv, MineInv, NoSend
        <4>3. QED
          BY <2>4, <4>1, <4>2
      <3>3. QED
        BY <3>1, <3>2 DEF Goroutines
    <2>6. {hasCmd, dead, pending} \subseteq BOOLEAN
      BY <2>1 DEF TypeInv
    <2>7. QED
      BY <2>1, <2>3, <2>5, <2>6 DEF TypeOK, TypeInv, MineInv
  <1>2. QED
    BY <1>1, WireIsSound, PTL

-----------------------------------------------------------------------------
(* SageWire implements CallService *)

\* What the mapping gives the variables of CallService.
Asked  == IF pc \in {"idle", "drain"} THEN 0 ELSE Current
Limits == [c \in CallNumbers |-> Limit(c)]

LEMMA MappedNext ==
  \/ \E c \in CallNumbers, tries \in 1..2 :
       /\ Asked = 0 /\ Limits[c] = 0 /\ Asked' = c
       /\ Limits' = [Limits EXCEPT ![c] = tries] /\ got' = got /\ computed' = computed
  \/ \E c \in CallNumbers :
       /\ computed[c] < Limits[c] /\ computed' = [computed EXCEPT ![c] = @ + 1]
       /\ Asked' = Asked /\ got' = got /\ Limits' = Limits
  \/ /\ Asked # 0 /\ computed[Asked] > 0 /\ got' = Asked /\ Asked' = 0
     /\ Limits' = Limits /\ computed' = computed
  \/ /\ Asked # 0 /\ got' = 0 /\ Asked' = 0 /\ Limits' = Limits /\ computed' = computed
  => Service!ServiceNext
  BY DEF Service!ServiceNext, Service!Ask, Service!Compute, Service!Answer, Service!Fail,
         Asked, Limits, Limit

\* While a call runs it has a number; no other call sends more often than it may.
LEMMA RunningCall ==
  ASSUME IInv
  PROVE  /\ pc \notin {"idle", "drain"} => Asked = Current /\ Current \in CallNumbers /\ Asked # 0
         /\ \A c \in CallNumbers : Tries(c) <= Limit(c) /\ Limits[c] = Limit(c)
  <1> USE DEF IInv
  <1>1. calls \in Seq(Call) /\ Len(calls) <= MaxCalls /\ Len(calls) \in Nat
        /\ (Len(calls) = 0 <=> calls = <<>>)
    BY PipeFacts DEF TypeInv
  <1>2. pc \notin {"idle", "drain"} => Current \in CallNumbers
    BY <1>1, WireBounds DEF PcInv, Current, CallNumbers
  <1>3. pc \notin {"idle", "drain"} => Asked = Current /\ Asked # 0
    BY <1>1, <1>2 DEF Asked, PcInv, Current
  <1>4. ASSUME NEW c \in CallNumbers PROVE Tries(c) <= Limit(c)
    <2>1. Limit(c) \in 0..2
      BY TriesFacts
    <2>2. CASE c # Len(calls) \/ pc \in {"idle", "drain"}
      BY <2>1, <2>2 DEF Tries
    <2>3. CASE c = Len(calls) /\ pc \notin {"idle", "drain"}
      <3>1. ~(c > Len(calls)) /\ HasRef = calls[c].hasRef
        BY <1>1, <2>3 DEF HasRef, Last
      <3>2. Limit(c) = IF HasRef THEN 1 ELSE 2
        BY <3>1 DEF Limit
      <3>3. pc = "awaitAgain" => ~HasRef
        BY DEF PcInv
      <3>4. QED
        BY <2>3, <3>2, <3>3 DEF Tries
    <2>4. QED
      BY <2>2, <2>3
  <1>5. QED
    BY <1>2, <1>3, <1>4 DEF Limits

LEMMA ServiceStarts == Init => Service!ServiceInit
  <1> SUFFICES ASSUME Init PROVE Service!ServiceInit
    OBVIOUS
  <1>1. pc = "idle" /\ calls = <<>> /\ got = 0 /\ computed = [c \in CallNumbers |-> 0]
    BY DEF Init
  <1>2. \A c \in CallNumbers : c > Len(calls)
    BY <1>1, EmptyPipe DEF CallNumbers
  <1>3. [c \in CallNumbers |-> IF c > Len(calls) THEN 0 ELSE IF calls[c].hasRef THEN 1 ELSE 2]
          = [c \in CallNumbers |-> 0]
    BY <1>2
  <1>4. QED
    BY <1>1, <1>3 DEF Service!ServiceInit

LEMMA ServiceSteps == IInv /\ [Next]_vars => [Service!ServiceNext]_(Service!serviceVars)
  <1> SUFFICES ASSUME IInv, [Next]_vars
               PROVE  Service!ServiceNext \/ UNCHANGED <<Asked, got, Limits, computed>>
    BY DEF Service!serviceVars, Asked, Limits, Limit
  <1>0. TypeInv /\ MineInv /\ PcInv /\ OwnInv /\ AnswerInv /\ CountInv
    BY DEF IInv
  <1>1. ASSUME UNCHANGED <<calls, computed>>
        PROVE  /\ Limits' = Limits
               /\ pc' = "idle" /\ pc \notin {"idle", "drain"} /\ got' = 0 => Service!ServiceNext
               /\ got' = got /\ (pc \in {"idle", "drain"} <=> pc' \in {"idle", "drain"}) =>
                    UNCHANGED <<Asked, got, Limits, computed>>
    <2>1. Limits' = Limits
      BY <1>1 DEF Limits, Limit
    <2>2. pc' = "idle" => Asked' = 0
      BY DEF Asked
    <2>3. (pc \in {"idle", "drain"} <=> pc' \in {"idle", "drain"}) => Asked' = Asked
      BY <1>1 DEF Asked, Current
    <2>4. QED
      BY <1>1, <2>1, <2>2, <2>3, RunningCall, MappedNext
  <1>2. ASSUME NEW p \in Procs, Serve(p)
        PROVE  Service!ServiceNext \/ UNCHANGED <<Asked, got, Limits, computed>>
    <2>1. /\ inbox[p] # <<>> /\ UNCHANGED <<calls, pc, got>>
          /\ computed' = IF Head(inbox[p]).kind = "clear" THEN computed
                         ELSE [computed EXCEPT ![Head(inbox[p]).call] = @ + 1]
      BY <1>2 DEF Serve, callVars
    <2>2. Asked' = Asked /\ Limits' = Limits
      BY <2>1 DEF Asked, Current, Limits, Limit
    <2>3. inbox[p] \in Seq(Sendable)
      BY <1>0 DEF TypeInv
    <2>4. Head(inbox[p]) \in Sendable /\ Head(inbox[p]) \in Inside(inbox[p])
      BY <2>1, <2>3, TailPipe
    <2>5. CASE Head(inbox[p]) = Clear
      BY <2>1, <2>2, <2>5 DEF Clear
    <2>6. ASSUME NEW c \in CallNumbers, Head(inbox[p]) = Op(c) PROVE Service!ServiceNext
      <3>0. Head(inbox[p]).kind # "clear" /\ Head(inbox[p]).call = c
        BY <2>6 DEF Op
      <3>1. computed' = [computed EXCEPT ![c] = @ + 1]
        BY <2>1, <3>0
      <3>2. p \in Holders(c) /\ Holders(c) \in SUBSET Procs
        BY <2>4, <2>6 DEF Holders
      <3>3. Cardinality({}) + 1 <= Cardinality(Holders(c))
        BY <3>2, OneLess
      <3>4. Cardinality(Holders(c)) \in Nat /\ Cardinality({}) = 0
        BY <3>2, CountFacts, FS_EmptySet
      <3>5. computed[c] + Cardinality(Holders(c)) <= Tries(c)
        BY <1>0 DEF CountInv
      <3>6. Tries(c) <= Limit(c) /\ Limits[c] = Limit(c) /\ Tries(c) \in Nat /\ Limit(c) \in 0..2
        BY <1>0, RunningCall, TriesFacts
      <3>7. computed[c] \in Nat
        BY <1>0 DEF TypeInv
      <3>8. computed[c] < Limits[c]
        BY <3>3, <3>4, <3>5, <3>6, <3>7
      <3>9. QED
        BY <2>1, <2>2, <3>1, <3>8, MappedNext
    <2>7. QED
      BY <2>4, <2>5, <2>6 DEF Sendable
  <1>3. ASSUME NEW p \in Procs, Die(p)
        PROVE  UNCHANGED <<Asked, got, Limits, computed>>
    BY <1>1, <1>3 DEF Die, callVars
  <1>4. ASSUME NEW g \in others \cup {mine}, Goroutine(g)
        PROVE  UNCHANGED <<Asked, got, Limits, computed>>
    BY <1>1, <1>4 DEF Goroutine, Write, Look, Read, ReadEOF, procVars, callVars
  <1>5. ASSUME NEW c \in Call, Begin(c)
        PROVE  Service!ServiceNext
    <2>1. /\ pc = "idle" /\ Len(calls) < MaxCalls /\ calls \in Seq(Call) /\ c \in Call
          /\ calls' = Append(calls, c) /\ pc' = "ensure" /\ got' = got /\ computed' = computed
      BY <1>0, <1>5 DEF Begin, procVars, TypeInv
    <2>2. /\ Len(calls) \in Nat /\ Len(calls') = Len(calls) + 1
          /\ calls'[Len(calls) + 1] = c
          /\ \A k \in 1..Len(calls) : calls'[k] = calls[k]
      BY <2>1, AppendProperties, LenProperties
    <2> DEFINE n == Len(calls) + 1
               tries == IF c.hasRef THEN 1 ELSE 2
    <2>3. n \in CallNumbers
      BY <2>1, <2>2, WireBounds DEF CallNumbers
    <2>4. Asked = 0 /\ Asked' = n
      BY <2>1, <2>2 DEF Asked, Current
    <2>5. Limits[n] = 0
      <3>1. n > Len(calls)
        BY <2>2
      <3>2. QED
        BY <2>3, <3>1 DEF Limits, Limit
    <2>6. Limits' = [Limits EXCEPT ![n] = tries]
      <3>1. ASSUME NEW k \in CallNumbers
            PROVE  Limit(k)' = IF k = n THEN tries ELSE Limit(k)
        <4>1. k \in Nat /\ k >= 1
          BY DEF CallNumbers
        <4>2. CASE k = n
          <5>1. ~(k > Len(calls')) /\ calls'[k] = c
            BY <2>2, <4>1, <4>2
          <5>2. QED
            BY <4>2, <5>1 DEF Limit
        <4>3. CASE k < n
          <5>1. ~(k > Len(calls')) /\ ~(k > Len(calls)) /\ calls'[k] = calls[k] /\ k # n
            BY <2>2, <4>1, <4>3
          <5>2. QED
            BY <5>1 DEF Limit
        <4>4. CASE k > n
          <5>1. k > Len(calls') /\ k > Len(calls) /\ k # n
            BY <2>2, <4>1, <4>4
          <5>2. QED
            BY <5>1 DEF Limit
        <4>5. QED
          BY <2>2, <4>1, <4>2, <4>3, <4>4
      <3>2. QED
        BY <3>1 DEF Limits
    <2>7. tries \in 1..2
      OBVIOUS
    <2> HIDE DEF n, tries
    <2>8. QED
      BY <2>1, <2>3, <2>4, <2>5, <2>6, <2>7, MappedNext
  <1>6. CASE SendAnswered
    <2>1. /\ pc \in {"await", "awaitAgain"} /\ mine.at = "done" /\ mine.line # Lost
          /\ pc' = "idle" /\ got' = Decoded(mine.line) /\ UNCHANGED <<calls, computed>>
      BY <1>6 DEF SendAnswered, Answered, Arrived, Return, Received, procVars
    <2>2. mine.line \in {Clear, Op(Current)}
      BY <1>0, <2>1 DEF OwnInv, OwnLines
    <2>3. Asked = Current /\ Asked \in CallNumbers /\ Asked # 0 /\ Asked' = 0
      BY <2>1, RunningCall DEF Asked
    <2>4. CASE mine.line = Clear
      <3>1. got' = 0
        BY <2>1, <2>4 DEF Decoded, Clear
      <3>2. QED
        BY <1>1, <2>1, <3>1
    <2>5. CASE mine.line = Op(Current)
      <3>1. got' = Asked
        BY <2>1, <2>3, <2>5 DEF Decoded, Op
      <3>2. computed[Asked] > 0
        BY <1>0, <2>1, <2>3, <2>5 DEF AnswerInv, Answers
      <3>3. Limits' = Limits
        BY <1>1, <2>1
      <3>4. QED
        BY <2>1, <2>3, <3>1, <3>2, <3>3, MappedNext
    <2>6. QED
      BY <2>2, <2>4, <2>5
  <1>7. ASSUME NEW from, NEW next,
               <<from, next>> \in {<<"ensure", "flush">>, <<"restart", "sendAgain">>},
               EnsureStarted(from, next)
        PROVE  Service!ServiceNext \/ UNCHANGED <<Asked, got, Limits, computed>>
    <2>1. pc \in {"ensure", "restart"} /\ UNCHANGED <<calls, computed>>
      BY <1>7 DEF EnsureStarted, Start, StartFails, Return
    <2>2. \/ got' = got /\ pc' \in {"flush", "sendAgain"}
          \/ got' = 0 /\ pc' = "idle"
      BY <1>7 DEF EnsureStarted, Start, StartFails, Return
    <2>3. QED
      BY <1>1, <2>1, <2>2
  <1>8. CASE SendFails \/ SendFailsAgain
    <2>1. pc \in {"await", "awaitAgain"} /\ UNCHANGED <<calls, computed>>
      BY <1>8 DEF SendFails, SendFailsAgain, Received, Return, procVars
    <2>2. \/ got' = got /\ pc' = "restart"
          \/ got' = 0 /\ pc' = "idle"
      BY <1>8 DEF SendFails, SendFailsAgain, Return
    <2>3. QED
      BY <1>1, <2>1, <2>2
  <1>9. CASE Flush("flush", "awaitClear", "send")
    BY <1>1, <1>9 DEF Flush, procVars
  <1>10. CASE FlushEnds("awaitClear", "send") \/ FlushEnds("drain", "idle")
    BY <1>1, <1>10 DEF FlushEnds, Received, procVars
  <1>11. CASE SendOp("send", "await") \/ SendOp("sendAgain", "awaitAgain")
    BY <1>1, <1>11 DEF SendOp, procVars
  <1>12. CASE Drain
    BY <1>1, <1>12 DEF Drain, procVars
  <1>13. CASE Close \/ QueueFree
    BY <1>1, <1>13 DEF Close, QueueFree, procVars, callVars
  <1>14. CASE UNCHANGED vars
    BY <1>1, <1>14 DEF vars, procVars, callVars
  <1>15. CASE CallStep
    BY <1>6, <1>7, <1>8, <1>9, <1>10, <1>11, <1>15 DEF CallStep
  <1>16. QED
    BY <1>2, <1>3, <1>4, <1>5, <1>12, <1>13, <1>14, <1>15 DEF Next

\* Whatever lines are late, lost or out of order, a call ends with the answer
\* to its own request or with an error, and the request is computed before it
\* is answered and not more often than it may be sent: once when it has
\* references (roundtrip, sage_cas.go 568-618).
THEOREM CallsGetTheirAnswers == Spec => ImplementsService
  BY ServiceStarts, ServiceSteps, WireIsSound, PTL
     DEF Spec, ImplementsService, Service!ServiceSpec
=============================================================================
