---------------------------- MODULE Control_proofs ----------------------------
(***************************************************************************)
(* Proofs about Control for every depth of constructs.  What a frame saved *)
(* is right when it names what was innermost below it, and a signal on its *)
(* way is aimed at something that is still there; the lemmas about the     *)
(* innermost call take the stack as a parameter, since they are used of    *)
(* frames and of frames'.                                                  *)
(***************************************************************************)
EXTENDS Control, Induction, TLAPS

-----------------------------------------------------------------------------
(* Numbers *)

\* A set of positions that is not empty has a greatest member.
LEMMA GreatestPosition ==
  ASSUME NEW n \in Nat, NEW S \in SUBSET (1..n), S # {}
  PROVE  \E m \in S : \A k \in S : k <= m
  <1> DEFINE A == {k \in Nat : (\E s \in S : s <= k) =>
                                 \E m \in S : m <= k /\ \A s \in S : s <= k => s <= m}
  <1>1. 0 \in A
    OBVIOUS
  <1>2. ASSUME NEW k \in Nat, k \in A PROVE k + 1 \in A
    <2>1. CASE k + 1 \in S
      BY <2>1
    <2>2. CASE k + 1 \notin S
      <3>1. \A s \in S : s <= k + 1 <=> s <= k
        BY <2>2
      <3>2. QED
        BY <1>2, <3>1
    <2>3. QED
      BY <2>1, <2>2
  <1>3. n \in A
    <2> HIDE DEF A
    <2> QED
      BY <1>1, <1>2, SetInduction
  <1>4. \E s \in S : s <= n
    <2> PICK s \in S : TRUE
      OBVIOUS
    <2> QED
      OBVIOUS
  <1>5. (\E k \in S : k <= n) => \E m \in S : m <= n /\ \A k \in S : k <= n => k <= m
    BY <1>3
  <1>6. \A k \in S : k <= n
    OBVIOUS
  <1>7. QED
    BY <1>4, <1>5, <1>6

-----------------------------------------------------------------------------
(* The innermost call of a stack *)

Innermost(S) == IF S = {} THEN 0 ELSE CHOOSE i \in S : \A j \in S : j <= i

IsBody(f) == f.kind = "call" /\ f.stage = "body"
IsOpen(f) == f.kind = "call" /\ f.stage # "bind"

\* The call whose body, or whose body or default value, runs at height k.
ActiveAt(stack, k) == Innermost({i \in 1..k : IsBody(stack[i])})
OpenAt(stack, k) == Innermost({i \in 1..k : IsOpen(stack[i])})

LEMMA InnermostIs ==
  ASSUME NEW n \in Nat, NEW S \in SUBSET (1..n)
  PROVE  /\ Innermost(S) \in 0..n
         /\ \A m \in S : (\A j \in S : j <= m) => Innermost(S) = m
         /\ S = {} => Innermost(S) = 0
         /\ S # {} => Innermost(S) \in S /\ \A j \in S : j <= Innermost(S)
  <1>0. \A x \in S : x \in 1..n
    OBVIOUS
  <1>1. CASE S = {}
    BY <1>1 DEF Innermost
  <1>2. CASE S # {}
    <2>1. Innermost(S) \in S /\ \A j \in S : j <= Innermost(S)
      BY <1>2, GreatestPosition DEF Innermost
    <2>2. \A m \in S : (\A j \in S : j <= m) => Innermost(S) = m
      <3> SUFFICES ASSUME NEW m \in S, \A j \in S : j <= m PROVE Innermost(S) = m
        OBVIOUS
      <3>1. Innermost(S) <= m /\ m <= Innermost(S)
        BY <2>1
      <3>2. Innermost(S) \in 1..n /\ m \in 1..n
        BY <1>0, <2>1
      <3>3. QED
        BY <3>1, <3>2
    <2>3. Innermost(S) \in 0..n
      <3>1. Innermost(S) \in 1..n
        BY <1>0, <2>1
      <3>2. QED
        BY <3>1
    <2>4. QED
      BY <1>2, <2>1, <2>2, <2>3
  <1>3. QED
    BY <1>1, <1>2

\* A set and itself without its members above n - 1.
LEMMA InnermostBelow ==
  ASSUME NEW n \in Nat \ {0}, NEW S \in SUBSET (1..n), NEW T, T = S \cap (1..(n - 1))
  PROVE  Innermost(S) = IF n \in S THEN n ELSE Innermost(T)
  <1>1. CASE n \in S
    BY <1>1, InnermostIs
  <1>2. CASE n \notin S
    <2>1. \A x \in S : x \in 1..n /\ x # n
      BY <1>2
    <2>2. \A x \in S : x \in 1..(n - 1)
      BY <2>1
    <2>3. S = T
      BY <2>2
    <2>4. QED
      BY <1>2, <2>3
  <1>3. QED
    BY <1>1, <1>2

LEMMA HeightZero ==
  ASSUME NEW stack
  PROVE  ActiveAt(stack, 0) = 0 /\ OpenAt(stack, 0) = 0
  BY DEF ActiveAt, OpenAt, Innermost

LEMMA HeightRange ==
  ASSUME NEW stack, NEW k \in Nat
  PROVE  ActiveAt(stack, k) \in 0..k /\ OpenAt(stack, k) \in 0..k
  BY InnermostIs DEF ActiveAt, OpenAt

LEMMA OneHigher ==
  ASSUME NEW stack, NEW k \in Nat \ {0}
  PROVE  /\ ActiveAt(stack, k) = IF IsBody(stack[k]) THEN k ELSE ActiveAt(stack, k - 1)
         /\ OpenAt(stack, k) = IF IsOpen(stack[k]) THEN k ELSE OpenAt(stack, k - 1)
  <1>1. {i \in 1..(k - 1) : IsBody(stack[i])} = {i \in 1..k : IsBody(stack[i])} \cap (1..(k - 1))
    OBVIOUS
  <1>2. {i \in 1..(k - 1) : IsOpen(stack[i])} = {i \in 1..k : IsOpen(stack[i])} \cap (1..(k - 1))
    OBVIOUS
  <1>3. ActiveAt(stack, k) = IF IsBody(stack[k]) THEN k ELSE ActiveAt(stack, k - 1)
    BY <1>1, InnermostBelow DEF ActiveAt
  <1>4. OpenAt(stack, k) = IF IsOpen(stack[k]) THEN k ELSE OpenAt(stack, k - 1)
    BY <1>2, InnermostBelow DEF OpenAt
  <1>5. QED
    BY <1>3, <1>4

\* Only the frames up to height k matter.
LEMMA SameBelow ==
  ASSUME NEW f, NEW g, NEW k \in Nat, \A i \in 1..k : f[i] = g[i]
  PROVE  ActiveAt(f, k) = ActiveAt(g, k) /\ OpenAt(f, k) = OpenAt(g, k)
  <1>1. {i \in 1..k : IsBody(f[i])} = {i \in 1..k : IsBody(g[i])}
    OBVIOUS
  <1>2. {i \in 1..k : IsOpen(f[i])} = {i \in 1..k : IsOpen(g[i])}
    OBVIOUS
  <1>3. QED
    BY <1>1, <1>2 DEF ActiveAt, OpenAt

LEMMA SameBelowTop ==
  ASSUME depth - 1 \in Nat, \A i \in 1..(depth - 1) : frames'[i] = frames[i]
  PROVE  /\ ActiveAt(frames', depth - 1) = ActiveAt(frames, depth - 1)
         /\ OpenAt(frames', depth - 1) = OpenAt(frames, depth - 1)
  <1> DEFINE k == depth - 1
  <1>1. k \in Nat /\ \A i \in 1..k : frames'[i] = frames[i]
    OBVIOUS
  <1> HIDE DEF k
  <1>2. {i \in 1..k : IsBody(frames'[i])} = {i \in 1..k : IsBody(frames[i])}
    BY <1>1
  <1>3. {i \in 1..k : IsOpen(frames'[i])} = {i \in 1..k : IsOpen(frames[i])}
    BY <1>1
  <1>4. ActiveAt(frames', k) = ActiveAt(frames, k) /\ OpenAt(frames', k) = OpenAt(frames, k)
    BY <1>2, <1>3 DEF ActiveAt, OpenAt
  <1>5. QED
    BY <1>4 DEF k

-----------------------------------------------------------------------------
(* Types *)

Kinds == {"call", "loop", "try", "binder", "quiet"}
Stages == {"bind", "default", "body", "try", "catch", "finally"}
Signal == [kind : {"none", "return"} \cup LoopSignals \cup Errors,
           from : 0..MaxDepth, looped : BOOLEAN]
Histories == [1..HistLen -> Int]
Frame == [kind : Kinds \cup {"none"}, stage : Stages, prev : 0..MaxDepth,
          prevHistory : Histories, catches : BOOLEAN, hasFinally : BOOLEAN,
          pending : Signal, runs : Nat]

TypeInv ==
  /\ depth \in 0..MaxDepth
  /\ frames \in [Positions -> Frame]
  /\ \A i \in Positions : frames[i].kind = "none" <=> i > depth
  /\ sig \in Signal
  /\ scope \in 0..MaxDepth
  /\ history \in Histories
  /\ status \in {"running", "ended", "crashed"}

-----------------------------------------------------------------------------
(* The inductive invariant *)

\* A loop is open at height k in the procedure that runs there.
LoopAt(stack, k) == \E i \in 1..k : i > ActiveAt(stack, k) /\ stack[i].kind = "loop"

\* Signal s has somewhere to go from height k.
Aimed(s, stack, k) ==
  /\ s.kind = "return" => s.from = ActiveAt(stack, k)
  /\ s.kind \in LoopSignals /\ s.looped => s.from = ActiveAt(stack, k) /\ LoopAt(stack, k)

Own(h, stack, k) == \A j \in 1..HistLen : h[j] \in {NoEntry, ActiveAt(stack, k)}

\* What frame f saved is right for the stack up to height k that it is put on, and
\* how often its finally block has run shows in its stage.
Sound(f, stack, k) ==
  /\ f.kind = "call" => f.prev = OpenAt(stack, k)
  /\ IsBody(f) => Own(f.prevHistory, stack, k)
  /\ Aimed(f.pending, stack, k)
  /\ f.kind = "try" =>
       \/ f.stage \in {"try", "catch"} /\ f.runs = 0
       \/ f.stage = "finally" /\ f.hasFinally /\ f.runs = 1

StackInv == \A i \in 1..depth : Sound(frames[i], frames, i - 1)

IInv ==
  /\ TypeInv
  /\ StackInv
  /\ scope = OpenAt(frames, depth)
  /\ Own(history, frames, depth)
  /\ Aimed(sig, frames, depth)

LEMMA AimedSame ==
  ASSUME NEW f, NEW g, NEW k \in Nat, \A j \in 1..k : f[j] = g[j], NEW s
  PROVE  Aimed(s, f, k) <=> Aimed(s, g, k)
  <1>1. ActiveAt(f, k) = ActiveAt(g, k)
    BY SameBelow
  <1>2. LoopAt(f, k) <=> LoopAt(g, k)
    BY <1>1 DEF LoopAt
  <1>3. QED
    BY <1>1, <1>2 DEF Aimed

LEMMA SoundSame ==
  ASSUME NEW f, NEW g, NEW k \in Nat, \A j \in 1..k : f[j] = g[j], NEW top
  PROVE  Sound(top, f, k) <=> Sound(top, g, k)
  <1>1. ActiveAt(f, k) = ActiveAt(g, k) /\ OpenAt(f, k) = OpenAt(g, k)
    BY SameBelow
  <1>2. Aimed(top.pending, f, k) <=> Aimed(top.pending, g, k)
    BY AimedSame
  <1>3. QED
    BY <1>1, <1>2 DEF Sound, Own

\* A signal goes down past a frame that is neither a loop nor the body of a call.
LEMMA AimedBelow ==
  ASSUME NEW stack, NEW k \in Nat \ {0}, NEW s,
         ~IsBody(stack[k]), stack[k].kind # "loop"
  PROVE  Aimed(s, stack, k) <=> Aimed(s, stack, k - 1)
  <1>1. ActiveAt(stack, k) = ActiveAt(stack, k - 1)
    BY OneHigher
  <1>2. LoopAt(stack, k) <=> LoopAt(stack, k - 1)
    BY <1>1 DEF LoopAt
  <1>3. QED
    BY <1>1, <1>2 DEF Aimed

LEMMA ActivationIs ==
  ASSUME TypeInv
  PROVE  /\ Activation = ActiveAt(frames, depth)
         /\ InLoop <=> LoopAt(frames, depth)
         /\ Activation \in 0..MaxDepth
         /\ Activation <= depth
  <1>1. Activation = ActiveAt(frames, depth)
    BY DEF Activation, Bodies, ActiveAt, Innermost, IsBody
  <1>2. ActiveAt(frames, depth) \in 0..depth
    BY HeightRange DEF TypeInv
  <1>3. QED
    BY <1>1, <1>2, DepthAssumption DEF InLoop, LoopAt, TypeInv

-----------------------------------------------------------------------------
(* The shapes of a step: a frame is pushed, popped or changed, or the stack *)
(* stays as it is.                                                          *)

LEMMA NoSignalFacts ==
  /\ NoSignal \in Signal /\ NoSignal.kind = "none"
  /\ \A stack, k : Aimed(NoSignal, stack, k)
  /\ NoFrame \in Frame /\ NoFrame.kind = "none"
  /\ EmptyHistory \in Histories
  BY DepthAssumption DEF NoSignal, Signal, Aimed, LoopSignals, Errors, NoFrame, Frame, Kinds,
     Stages, Histories, EmptyHistory, HistLen, NoEntry

\* The frames below height k stay, and so does what is sound about them.
LEMMA BelowStays ==
  ASSUME IInv, NEW k \in 0..depth, \A i \in 1..k : frames'[i] = frames[i]
  PROVE  \A i \in 1..k : Sound(frames'[i], frames', i - 1)
  <1> SUFFICES ASSUME NEW i \in 1..k PROVE Sound(frames'[i], frames', i - 1)
    OBVIOUS
  <1>1. i \in 1..depth /\ i - 1 \in Nat /\ \A j \in 1..(i - 1) : frames[j] = frames'[j]
    BY DEF IInv, TypeInv
  <1>2. Sound(frames[i], frames, i - 1)
    BY <1>1 DEF IInv, StackInv
  <1>3. Sound(frames[i], frames', i - 1)
    BY <1>1, <1>2, SoundSame
  <1>4. QED
    BY <1>3

LEMMA PushStep ==
  ASSUME IInv, depth < MaxDepth, Quiet,
         NEW f \in Frame, f.kind \in Kinds, Pushed(f),
         ~IsOpen(f), ~IsBody(f), f.pending = NoSignal,
         f.kind = "call" => f.prev = scope,
         f.kind = "try" => f.stage = "try" /\ f.runs = 0,
         UNCHANGED <<sig, scope, history, status>>
  PROVE  IInv'
  <1>1. depth \in Nat /\ depth + 1 \in Positions /\ depth' = depth + 1 /\ MaxDepth \in Nat
    BY DepthAssumption DEF IInv, TypeInv, Pushed, Positions
  <1>2. /\ frames' \in [Positions -> Frame]
        /\ frames'[depth + 1] = f
        /\ \A i \in Positions : i # depth + 1 => frames'[i] = frames[i]
    BY <1>1 DEF IInv, TypeInv, Pushed
  <1>3. \A i \in 1..depth : frames'[i] = frames[i]
    BY <1>1, <1>2 DEF Positions
  <1>4. TypeInv'
    <2>1. \A i \in Positions : frames'[i].kind = "none" <=> i > depth'
      BY <1>1, <1>2 DEF IInv, TypeInv, Kinds, Positions
    <2>2. QED
      BY <1>1, <1>2, <2>1 DEF IInv, TypeInv
  <1>5. /\ ActiveAt(frames', depth) = ActiveAt(frames, depth)
        /\ OpenAt(frames', depth) = OpenAt(frames, depth)
    BY <1>1, <1>3, SameBelow
  <1>6. /\ ActiveAt(frames', depth') = ActiveAt(frames, depth)
        /\ OpenAt(frames', depth') = OpenAt(frames, depth)
    BY <1>1, <1>2, <1>5, OneHigher
  <1>7. Sound(f, frames', depth)
    BY <1>5, NoSignalFacts DEF IInv, Sound
  <1>8. StackInv'
    <2>1. \A i \in 1..depth : Sound(frames'[i], frames', i - 1)
      BY <1>1, <1>3, BelowStays
    <2>2. QED
      BY <1>1, <1>2, <1>7, <2>1 DEF StackInv
  <1>9. Own(history', frames', depth')
    BY <1>6 DEF IInv, Own
  <1>10. Aimed(sig', frames', depth')
    BY DEF Quiet, Aimed, LoopSignals
  <1>11. QED
    BY <1>4, <1>6, <1>8, <1>9, <1>10 DEF IInv

LEMMA PopStep ==
  ASSUME IInv, depth > 0, Popped,
         scope' = OpenAt(frames, depth - 1),
         history' \in Histories, Own(history', frames, depth - 1),
         sig' \in Signal, Aimed(sig', frames, depth - 1),
         status' = status
  PROVE  IInv'
  <1>1. /\ depth \in Nat \ {0} /\ depth' = depth - 1 /\ depth' \in 0..MaxDepth
        /\ depth \in Positions /\ MaxDepth \in Nat /\ depth <= MaxDepth
    BY DepthAssumption DEF IInv, TypeInv, Popped, Positions
  <1>2. /\ frames' \in [Positions -> Frame]
        /\ frames'[depth] = NoFrame
        /\ \A i \in Positions : i # depth => frames'[i] = frames[i]
    BY <1>1, NoSignalFacts DEF IInv, TypeInv, Popped
  <1>3. \A i \in 1..(depth - 1) : frames'[i] = frames[i]
    <2>1. \A i \in 1..(depth - 1) : i \in Positions /\ i # depth
      BY <1>1 DEF Positions
    <2>2. QED
      BY <1>2, <2>1
  <1>4. /\ ActiveAt(frames', depth') = ActiveAt(frames, depth - 1)
        /\ OpenAt(frames', depth') = OpenAt(frames, depth - 1)
    BY <1>1, <1>3, SameBelow
  <1>5. TypeInv'
    <2>1. \A i \in Positions : frames'[i].kind = "none" <=> i > depth'
      BY <1>1, <1>2, NoSignalFacts DEF IInv, TypeInv, Positions
    <2>2. scope' \in 0..MaxDepth
      <3>1. OpenAt(frames, depth - 1) \in 0..(depth - 1)
        BY <1>1, HeightRange
      <3>2. QED
        BY <1>1, <3>1, DepthAssumption
    <2>3. QED
      BY <1>1, <1>2, <2>1, <2>2 DEF IInv, TypeInv
  <1>6. StackInv'
    BY <1>1, <1>3, BelowStays DEF StackInv
  <1>7. Own(history', frames', depth')
    BY <1>4 DEF Own
  <1>8. Aimed(sig', frames', depth')
    BY <1>1, <1>3, AimedSame
  <1>9. QED
    BY <1>4, <1>5, <1>6, <1>7, <1>8 DEF IInv

LEMMA TopStep ==
  ASSUME IInv, depth > 0, depth' = depth, NEW g \in Frame, g.kind \in Kinds,
         frames' = [frames EXCEPT ![depth] = g],
         Sound(g, frames, depth - 1),
         scope' = IF IsOpen(g) THEN depth ELSE OpenAt(frames, depth - 1),
         history' \in Histories,
         \A j \in 1..HistLen :
           history'[j] \in {NoEntry, IF IsBody(g) THEN depth ELSE ActiveAt(frames, depth - 1)},
         sig' \in Signal, sig'.kind = "none",
         status' = status
  PROVE  IInv'
  <1>1. depth \in Nat \ {0} /\ depth \in Positions /\ MaxDepth \in Nat /\ depth \in 0..MaxDepth
    BY DepthAssumption DEF IInv, TypeInv, Positions
  <1>0. depth - 1 \in Nat /\ depth - 1 \in 0..depth
    BY <1>1
  <1>2. /\ frames' \in [Positions -> Frame]
        /\ frames'[depth] = g
        /\ \A i \in Positions : i # depth => frames'[i] = frames[i]
    BY <1>1 DEF IInv, TypeInv
  <1>3. \A i \in 1..(depth - 1) : frames'[i] = frames[i]
    BY <1>1, <1>2 DEF Positions
  <1>4. /\ ActiveAt(frames', depth) = IF IsBody(g) THEN depth ELSE ActiveAt(frames, depth - 1)
        /\ OpenAt(frames', depth) = IF IsOpen(g) THEN depth ELSE OpenAt(frames, depth - 1)
    <2>1. /\ ActiveAt(frames', depth - 1) = ActiveAt(frames, depth - 1)
          /\ OpenAt(frames', depth - 1) = OpenAt(frames, depth - 1)
      BY <1>0, <1>3, SameBelowTop
    <2>2. QED
      BY <1>1, <1>2, <2>1, OneHigher
  <1>5. TypeInv'
    <2>1. \A i \in Positions : frames'[i].kind = "none" <=> i > depth'
      BY <1>1, <1>2 DEF IInv, TypeInv, Kinds, Positions
    <2>2. scope' \in 0..MaxDepth
      <3>1. OpenAt(frames, depth - 1) \in 0..(depth - 1)
        BY <1>1, HeightRange
      <3>2. QED
        BY <1>1, <3>1
    <2>3. QED
      BY <1>1, <1>2, <2>1, <2>2 DEF IInv, TypeInv
  <1>6. Sound(g, frames', depth - 1)
    <2>1. \A i \in 1..(depth - 1) : frames[i] = frames'[i]
      BY <1>3
    <2>2. QED
      BY <1>0, <2>1, SoundSame
  <1>7. StackInv'
    <2>1. \A i \in 1..(depth - 1) : Sound(frames'[i], frames', i - 1)
      BY <1>0, <1>3, BelowStays
    <2>2. Sound(frames'[depth], frames', depth - 1)
      BY <1>2, <1>6
    <2>3. \A i \in 1..depth : i = depth \/ i \in 1..(depth - 1)
      BY <1>1
    <2>4. QED
      BY <2>1, <2>2, <2>3 DEF StackInv
  <1>8. Own(history', frames', depth')
    BY <1>4 DEF Own
  <1>9. Aimed(sig', frames', depth')
    BY DEF Aimed, LoopSignals
  <1>10. QED
    BY <1>4, <1>5, <1>7, <1>8, <1>9 DEF IInv

-----------------------------------------------------------------------------
(* One lemma per action *)

LEMMA TopFacts ==
  ASSUME IInv, depth > 0
  PROVE  /\ depth \in Positions /\ depth \in 1..MaxDepth
         /\ Top \in Frame /\ Top.kind \in Kinds
         /\ Sound(Top, frames, depth - 1)
         /\ scope = IF IsOpen(Top) THEN depth ELSE OpenAt(frames, depth - 1)
         /\ \A j \in 1..HistLen :
              history[j] \in {NoEntry, IF IsBody(Top) THEN depth ELSE ActiveAt(frames, depth - 1)}
         /\ history \in Histories /\ scope \in 0..MaxDepth /\ sig \in Signal
         /\ (~IsBody(Top) /\ Top.kind # "loop") => Aimed(sig, frames, depth - 1)
  <1>1. depth \in Positions /\ depth \in 1..MaxDepth /\ depth \in Nat \ {0}
    BY DepthAssumption DEF IInv, TypeInv, Positions
  <1>2. Top \in Frame /\ Top.kind \in Kinds
    BY <1>1 DEF IInv, TypeInv, Top, Frame
  <1>3. Sound(Top, frames, depth - 1)
    BY <1>1 DEF IInv, StackInv, Top
  <1>4. /\ ActiveAt(frames, depth) = IF IsBody(Top) THEN depth ELSE ActiveAt(frames, depth - 1)
        /\ OpenAt(frames, depth) = IF IsOpen(Top) THEN depth ELSE OpenAt(frames, depth - 1)
    BY <1>1, OneHigher DEF Top
  <1>5. (~IsBody(Top) /\ Top.kind # "loop") => Aimed(sig, frames, depth - 1)
    BY <1>1, AimedBelow DEF IInv, Top
  <1>6. QED
    BY <1>1, <1>2, <1>3, <1>4, <1>5 DEF IInv, TypeInv, Own

\* A signal that is raised is aimed at what is there.
LEMMA RaiseFacts ==
  ASSUME IInv, NEW kind \in LoopSignals \cup {"return"} \cup Errors, Raise(kind)
  PROVE  /\ sig' \in Signal
         /\ Aimed(sig', frames, depth)
         /\ kind \in Errors => \A k : Aimed(sig', frames, k)
  <1>1. TypeInv
    BY DEF IInv
  <1>2. InLoop \in BOOLEAN
    BY DEF InLoop
  <1>3. sig' \in Signal
    BY <1>1, <1>2, ActivationIs DEF Raise, Signal, Errors
  <1>4. Aimed(sig', frames, depth)
    BY <1>1, ActivationIs DEF Raise, Aimed
  <1>5. kind \in Errors => \A k : Aimed(sig', frames, k)
    BY DEF Raise, Aimed, Errors, LoopSignals
  <1>6. QED
    BY <1>3, <1>4, <1>5

\* The stack does not change.
LEMMA FlatStep ==
  ASSUME IInv, UNCHANGED <<frames, depth, scope>>,
         history' \in Histories, Own(history', frames, depth),
         sig' \in Signal, Aimed(sig', frames, depth),
         status' \in {"running", "ended", "crashed"}
  PROVE  IInv'
  BY DEF IInv, TypeInv, StackInv

LEMMA StepFlat ==
  ASSUME IInv, CompleteStatement \/ Jump \/ Fail \/ Panic \/ End \/ UNCHANGED vars
  PROVE  IInv'
  <1>1. CASE CompleteStatement
    <2>1. Activation = ActiveAt(frames, depth) /\ Activation \in Int
      BY ActivationIs DEF IInv
    <2>2. history' \in Histories /\ Own(history', frames, depth)
      BY <1>1, <2>1 DEF CompleteStatement, IInv, TypeInv, Histories, Own, HistLen
    <2>3. QED
      BY <1>1, <2>2, FlatStep DEF CompleteStatement, IInv, TypeInv
  <1>2. CASE Jump
    BY <1>2, RaiseFacts, FlatStep DEF Jump, IInv, TypeInv
  <1>3. CASE Fail
    BY <1>3, RaiseFacts, FlatStep DEF Fail, IInv, TypeInv
  <1>4. CASE Panic \/ End
    BY <1>4, FlatStep DEF Panic, End, IInv, TypeInv
  <1>5. CASE UNCHANGED vars
    BY <1>5, FlatStep DEF vars, IInv, TypeInv
  <1>6. QED
    BY <1>1, <1>2, <1>3, <1>4, <1>5

LEMMA StepPush ==
  ASSUME IInv, BeginCall \/ BeginLoop \/ BeginTry \/ BeginExpression
  PROVE  IInv'
  <1> USE NoSignalFacts DEF IsOpen, IsBody
  <1>0. scope \in 0..MaxDepth
    BY DEF IInv, TypeInv
  <1>1. CASE BeginCall
    <2> DEFINE f == [NoFrame EXCEPT !.kind = "call", !.stage = "bind", !.prev = scope]
    <2>1. /\ f \in Frame /\ f.kind = "call" /\ f.stage = "bind"
          /\ f.prev = scope /\ f.pending = NoSignal
      BY <1>0 DEF NoFrame, Frame, Kinds, Stages
    <2>2. Pushed(f) /\ depth < MaxDepth /\ Quiet /\ UNCHANGED <<sig, scope, history, status>>
      BY <1>1 DEF BeginCall, Running
    <2>3. QED
      <3> HIDE DEF f
      <3> QED
        BY <2>1, <2>2, PushStep DEF Kinds
  <1>2. CASE BeginLoop
    <2> DEFINE f == [NoFrame EXCEPT !.kind = "loop"]
    <2>1. f \in Frame /\ f.kind = "loop" /\ f.pending = NoSignal
      BY DEF NoFrame, Frame, Kinds, Stages
    <2>2. Pushed(f) /\ depth < MaxDepth /\ Quiet /\ UNCHANGED <<sig, scope, history, status>>
      BY <1>2 DEF BeginLoop, Running
    <2>3. QED
      <3> HIDE DEF f
      <3> QED
        BY <2>1, <2>2, PushStep DEF Kinds
  <1>3. CASE BeginTry
    <2>1. PICK catches \in BOOLEAN, hasFinally \in BOOLEAN :
            Pushed([NoFrame EXCEPT !.kind = "try", !.stage = "try",
                                   !.catches = catches, !.hasFinally = hasFinally])
      BY <1>3 DEF BeginTry
    <2> DEFINE f == [NoFrame EXCEPT !.kind = "try", !.stage = "try",
                                    !.catches = catches, !.hasFinally = hasFinally]
    <2>2. f \in Frame /\ f.kind = "try" /\ f.stage = "try" /\ f.runs = 0 /\ f.pending = NoSignal
      BY DEF NoFrame, Frame, Kinds, Stages
    <2>3. Pushed(f) /\ depth < MaxDepth /\ Quiet /\ UNCHANGED <<sig, scope, history, status>>
      BY <1>3, <2>1 DEF BeginTry, Running
    <2>4. QED
      <3> HIDE DEF f
      <3> QED
        BY <2>2, <2>3, PushStep DEF Kinds
  <1>4. CASE BeginExpression
    <2>1. PICK kind \in {"binder", "quiet"} : Pushed([NoFrame EXCEPT !.kind = kind])
      BY <1>4 DEF BeginExpression
    <2> DEFINE f == [NoFrame EXCEPT !.kind = kind]
    <2>2. f \in Frame /\ f.kind \in {"binder", "quiet"} /\ f.pending = NoSignal
      BY DEF NoFrame, Frame, Kinds, Stages
    <2>3. Pushed(f) /\ depth < MaxDepth /\ Quiet /\ UNCHANGED <<sig, scope, history, status>>
      BY <1>4, <2>1 DEF BeginExpression, Running
    <2>4. QED
      <3> HIDE DEF f
      <3> QED
        BY <2>2, <2>3, PushStep DEF Kinds
  <1>5. QED
    BY <1>1, <1>2, <1>3, <1>4

\* What is left when a frame is gone that saved nothing.
LEMMA StepPop ==
  ASSUME IInv,
         \/ RejectArgument \/ FailType \/ FailDefault \/ LeaveCall \/ EndLoop
         \/ LeaveTry \/ EndFinally \/ EndBinder \/ EndQuiet
  PROVE  IInv'
  <1>0. depth > 0
    BY DEF RejectArgument, FailType, FailDefault, LeaveCall, EndLoop, LeaveTry, EndFinally,
       EndBinder, EndQuiet, TopIs
  <1> USE <1>0, TopFacts
  <1>1. ASSUME Popped, Top.kind # "call", UNCHANGED <<scope, history, status>>,
               sig' \in Signal, Aimed(sig', frames, depth - 1)
        PROVE  IInv'
    <2>1. scope' = OpenAt(frames, depth - 1)
      BY <1>1 DEF IsOpen
    <2>2. history' \in Histories /\ Own(history', frames, depth - 1)
      BY <1>1 DEF IsBody, Own
    <2>3. QED
      BY <1>1, <2>1, <2>2, PopStep
  <1>2. CASE RejectArgument
    <2>1. Top.kind = "call" /\ Top.stage = "bind" /\ Popped /\ UNCHANGED <<scope, history, status>>
      BY <1>2 DEF RejectArgument, TopIs
    <2>2. sig' \in Signal /\ Aimed(sig', frames, depth - 1)
      BY <1>2, RaiseFacts DEF RejectArgument, Errors
    <2>3. scope' = OpenAt(frames, depth - 1) /\ history' \in Histories
      BY <2>1 DEF IsOpen
    <2>4. Own(history', frames, depth - 1)
      BY <2>1 DEF IsBody, Own
    <2>5. QED
      BY <2>1, <2>2, <2>3, <2>4, PopStep
  <1>3. CASE FailType
    <2>1. /\ Top.kind = "call" /\ Top.stage = "bind" /\ Popped
          /\ UNCHANGED <<sig, scope, history, status>>
      BY <1>3 DEF FailType, TopIs
    <2>2. sig' \in Signal /\ Aimed(sig', frames, depth - 1)
      BY <2>1 DEF IsBody
    <2>3. scope' = OpenAt(frames, depth - 1) /\ history' \in Histories
      BY <2>1 DEF IsOpen
    <2>4. Own(history', frames, depth - 1)
      BY <2>1 DEF IsBody, Own
    <2>5. QED
      BY <2>1, <2>2, <2>3, <2>4, PopStep
  <1>4. CASE FailDefault
    <2>1. /\ Top.kind = "call" /\ Top.stage = "default" /\ Popped
          /\ UNCHANGED <<sig, history, status>> /\ scope' = Top.prev
      BY <1>4 DEF FailDefault, TopIs
    <2>2. sig' \in Signal /\ Aimed(sig', frames, depth - 1)
      BY <2>1 DEF IsBody
    <2>3. scope' = OpenAt(frames, depth - 1) /\ history' \in Histories
      BY <2>1 DEF Sound
    <2>4. Own(history', frames, depth - 1)
      BY <2>1 DEF IsBody, Own
    <2>5. QED
      BY <2>1, <2>2, <2>3, <2>4, PopStep
  <1>5. CASE LeaveCall
    <2>1. /\ Top.kind = "call" /\ Top.stage = "body" /\ Popped
          /\ scope' = Top.prev /\ history' = Top.prevHistory /\ UNCHANGED status
          /\ sig' = IF sig.kind = "return" THEN NoSignal ELSE sig
      BY <1>5 DEF LeaveCall, TopIs
    <2>2. sig' \in Signal /\ Aimed(sig', frames, depth - 1)
      <3>1. ActiveAt(frames, depth) = depth
        BY <2>1, OneHigher DEF IsBody, Top, Positions
      <3>2. ~LoopAt(frames, depth)
        BY <3>1 DEF LoopAt
      <3>3. Aimed(sig, frames, depth)
        BY DEF IInv
      <3>4. sig.kind # "return" => Aimed(sig, frames, depth - 1)
        BY <3>2, <3>3 DEF Aimed
      <3>5. QED
        BY <2>1, <3>4, NoSignalFacts
    <2>3. scope' = OpenAt(frames, depth - 1)
      BY <2>1 DEF Sound
    <2>4. Own(history', frames, depth - 1) /\ history' \in Histories
      BY <2>1 DEF Sound, IsBody, Frame
    <2>5. QED
      BY <2>1, <2>2, <2>3, <2>4, PopStep
  <1>6. CASE EndLoop
    <2>1. Top.kind = "loop" /\ Popped /\ UNCHANGED <<scope, history, status>> /\ Quiet
      BY <1>6 DEF EndLoop, TopIs, Running
    <2>2. CASE UNCHANGED sig
      BY <1>1, <2>1, <2>2 DEF Quiet, Aimed, LoopSignals
    <2>3. CASE Raise("other")
      <3>1. sig' \in Signal /\ Aimed(sig', frames, depth - 1)
        BY <2>3, RaiseFacts DEF Errors
      <3>2. QED
        BY <1>1, <2>1, <3>1
    <2>4. QED
      BY <1>6, <2>2, <2>3 DEF EndLoop
  <1>7. CASE LeaveTry \/ EndBinder
    <2>1. Top.kind \in {"try", "binder"} /\ Popped /\ UNCHANGED <<sig, scope, history, status>>
      BY <1>7 DEF LeaveTry, EndBinder, TopIs
    <2>2. QED
      BY <1>1, <2>1 DEF IsBody
  <1>8. CASE EndQuiet
    BY <1>1, <1>8, NoSignalFacts DEF EndQuiet, TopIs
  <1>9. CASE EndFinally
    <2>1. /\ Top.kind = "try" /\ Popped /\ UNCHANGED <<scope, history, status>>
          /\ sig' = IF Top.pending.kind = "none" THEN sig ELSE Top.pending
      BY <1>9 DEF EndFinally, TopIs
    <2>2. Aimed(sig, frames, depth - 1) /\ Aimed(Top.pending, frames, depth - 1)
      BY <2>1 DEF IsBody, Sound
    <2>3. Top.pending \in Signal
      BY DEF Frame
    <2>4. QED
      BY <1>1, <2>1, <2>2, <2>3
  <1>10. QED
    BY <1>2, <1>3, <1>4, <1>5, <1>6, <1>7, <1>8, <1>9

LEMMA StepSignalLoop ==
  ASSUME IInv, SignalLoop
  PROVE  IInv'
  <1>1. /\ depth > 0 /\ Top.kind = "loop" /\ UNCHANGED <<scope, history, status>>
        /\ sig' = IF sig.kind \in LoopSignals THEN NoSignal ELSE sig
        /\ IF sig.kind = "next" THEN UNCHANGED <<frames, depth>> ELSE Popped
    BY DEF SignalLoop, TopIs
  <1>2. CASE sig.kind = "next"
    BY <1>1, <1>2, FlatStep, NoSignalFacts DEF LoopSignals, IInv, TypeInv
  <1>3. CASE sig.kind # "next"
    <2>1. ActiveAt(frames, depth) = ActiveAt(frames, depth - 1)
      BY <1>1, TopFacts, OneHigher DEF IsBody, Top, Positions
    <2>2. sig.kind \notin LoopSignals => Aimed(sig, frames, depth - 1)
      BY <2>1 DEF IInv, Aimed
    <2>3. sig' \in Signal /\ Aimed(sig', frames, depth - 1)
      BY <1>1, <2>2, TopFacts, NoSignalFacts
    <2>4. scope' = OpenAt(frames, depth - 1) /\ history' \in Histories
      BY <1>1, TopFacts DEF IsOpen
    <2>5. Own(history', frames, depth - 1)
      BY <1>1, TopFacts DEF IsBody, Own
    <2>6. QED
      BY <1>1, <1>3, <2>3, <2>4, <2>5, PopStep
  <1>4. QED
    BY <1>2, <1>3

\* A frame changes in place: a default value begins or ends, the body of a call
\* begins, an error is caught, a finally block begins.
LEMMA StepTop ==
  ASSUME IInv, BeginDefault \/ EndDefault \/ Activate \/ Catch \/ BeginFinally
  PROVE  IInv'
  <1>0. depth > 0
    BY DEF BeginDefault, EndDefault, Activate, Catch, BeginFinally, TopIs
  <1> USE <1>0, TopFacts
  <1>1. frames \in [Positions -> Frame]
    BY DEF IInv, TypeInv
  <1>2. CASE BeginDefault \/ EndDefault
    <2>1. PICK stage \in {"bind", "default"} :
            /\ Restaged(stage)
            /\ scope' = IF stage = "default" THEN depth ELSE Top.prev
      BY <1>2 DEF BeginDefault, EndDefault
    <2>2. /\ Top.kind = "call" /\ Top.stage # "body" /\ UNCHANGED <<sig, history, status>>
          /\ sig.kind = "none"
      BY <1>2 DEF BeginDefault, EndDefault, TopIs, Running, Quiet
    <2> DEFINE g == [Top EXCEPT !.stage = stage]
    <2>3. /\ g \in Frame /\ g.kind = "call" /\ g.stage = stage /\ g.prev = Top.prev
          /\ g.pending = Top.pending
      BY <2>2 DEF Frame, Stages
    <2>4. frames' = [frames EXCEPT ![depth] = g] /\ depth' = depth
      BY <1>1, <2>1 DEF Restaged, Top
    <2>5. Sound(g, frames, depth - 1) /\ ~IsBody(g)
      BY <2>2, <2>3 DEF Sound, IsBody
    <2>6. scope' = IF IsOpen(g) THEN depth ELSE OpenAt(frames, depth - 1)
      BY <2>1, <2>2, <2>3 DEF IsOpen, Sound
    <2>7. QED
      <3> HIDE DEF g
      <3> QED
        BY <2>2, <2>3, <2>4, <2>5, <2>6, TopStep DEF IsBody, Kinds
  <1>3. CASE Activate
    <2>1. /\ Top.kind = "call" /\ Top.stage = "bind" /\ UNCHANGED <<depth, sig, status>>
          /\ sig.kind = "none" /\ scope' = depth /\ history' = EmptyHistory
      BY <1>3 DEF Activate, TopIs, Running, Quiet
    <2> DEFINE g == [Top EXCEPT !.stage = "body", !.prevHistory = history]
    <2>2. /\ g \in Frame /\ g.kind = "call" /\ g.stage = "body" /\ g.prev = Top.prev
          /\ g.pending = Top.pending /\ g.prevHistory = history
      BY <2>1 DEF Frame, Stages
    <2>3. frames' = [frames EXCEPT ![depth] = g]
      BY <1>1, <1>3 DEF Activate, Top
    <2>4. Sound(g, frames, depth - 1) /\ IsBody(g) /\ IsOpen(g)
      BY <2>1, <2>2 DEF Sound, IsBody, IsOpen, Own
    <2>5. history' \in Histories /\ \A j \in 1..HistLen : history'[j] = NoEntry
      BY <2>1, NoSignalFacts DEF EmptyHistory
    <2>6. QED
      <3> HIDE DEF g
      <3> QED
        BY <2>1, <2>2, <2>3, <2>4, <2>5, TopStep DEF Kinds
  <1>4. CASE Catch
    <2>1. /\ Top.kind = "try" /\ Top.stage = "try" /\ UNCHANGED <<scope, history, status>>
          /\ sig' = NoSignal /\ Restaged("catch")
      BY <1>4 DEF Catch, TopIs
    <2> DEFINE g == [Top EXCEPT !.stage = "catch"]
    <2>2. /\ g \in Frame /\ g.kind = "try" /\ g.stage = "catch" /\ g.runs = Top.runs
          /\ g.pending = Top.pending
      BY <2>1 DEF Frame, Stages
    <2>3. frames' = [frames EXCEPT ![depth] = g] /\ depth' = depth
      BY <1>1, <2>1 DEF Restaged, Top
    <2>4. Sound(g, frames, depth - 1) /\ ~IsBody(g) /\ ~IsOpen(g)
      BY <2>1, <2>2 DEF Sound, IsBody, IsOpen
    <2>5. QED
      <3> HIDE DEF g
      <3> QED
        BY <2>1, <2>2, <2>3, <2>4, TopStep, NoSignalFacts DEF Kinds, IsBody, IsOpen
  <1>5. CASE BeginFinally
    <2>1. /\ Top.kind = "try" /\ Top.stage \in {"try", "catch"} /\ Top.hasFinally
          /\ UNCHANGED <<depth, scope, history, status>> /\ sig' = NoSignal
      BY <1>5 DEF BeginFinally, TopIs
    <2> DEFINE g == [Top EXCEPT !.stage = "finally", !.pending = sig, !.runs = @ + 1]
    <2>2. Top.runs = 0
      BY <2>1 DEF Sound
    <2>3. /\ g \in Frame /\ g.kind = "try" /\ g.stage = "finally" /\ g.runs = 1
          /\ g.hasFinally /\ g.pending = sig
      <3>1. sig \in Signal /\ Top \in Frame /\ 0 + 1 = 1 /\ 1 \in Nat
        OBVIOUS
      <3>2. g = [Top EXCEPT !.stage = "finally", !.pending = sig, !.runs = 1]
        BY <2>2
      <3>3. QED
        BY <2>1, <3>1, <3>2 DEF Frame, Stages
    <2>4. frames' = [frames EXCEPT ![depth] = g]
      BY <1>1, <1>5 DEF BeginFinally, Top
    <2>5. Sound(g, frames, depth - 1) /\ ~IsBody(g) /\ ~IsOpen(g)
      BY <2>1, <2>3 DEF Sound, IsBody, IsOpen
    <2>6. QED
      <3> HIDE DEF g
      <3> QED
        BY <2>1, <2>3, <2>4, <2>5, TopStep, NoSignalFacts DEF Kinds, IsBody, IsOpen
  <1>6. QED
    BY <1>2, <1>3, <1>4, <1>5

-----------------------------------------------------------------------------
(* The invariant and what follows from it *)

LEMMA InitIInv == Init => IInv
  <1> SUFFICES ASSUME Init PROVE IInv
    OBVIOUS
  <1> USE NoSignalFacts, HeightZero, DepthAssumption
  <1>1. TypeInv
    BY DEF Init, TypeInv, Positions
  <1>2. StackInv
    BY DEF Init, StackInv
  <1>3. Own(history, frames, depth)
    BY DEF Init, Own, EmptyHistory
  <1>4. QED
    BY <1>1, <1>2, <1>3 DEF Init, IInv

LEMMA NextIInv == IInv /\ [Next]_vars => IInv'
  <1> SUFFICES ASSUME IInv, [Next]_vars PROVE IInv'
    OBVIOUS
  <1>1. CASE CompleteStatement \/ Jump \/ Fail \/ Panic \/ End \/ UNCHANGED vars
    BY <1>1, StepFlat
  <1>2. CASE BeginCall \/ BeginLoop \/ BeginTry \/ BeginExpression
    BY <1>2, StepPush
  <1>3. CASE \/ RejectArgument \/ FailType \/ FailDefault \/ LeaveCall \/ EndLoop
             \/ LeaveTry \/ EndFinally \/ EndBinder \/ EndQuiet
    BY <1>3, StepPop
  <1>4. CASE BeginDefault \/ EndDefault \/ Activate \/ Catch \/ BeginFinally
    BY <1>4, StepTop
  <1>5. CASE SignalLoop
    BY <1>5, StepSignalLoop
  <1>6. CASE Stopped
    BY <1>6, StepFlat DEF Stopped
  <1>7. QED
    BY <1>1, <1>2, <1>3, <1>4, <1>5, <1>6 DEF Next

\* A frame saved what was innermost below it, the scope and the history belong to
\* what is innermost now, and a signal on its way, or waiting for a finally block, is
\* aimed at a call or a loop that is still open.
THEOREM StackIsSound == Spec => []IInv
  BY InitIInv, NextIInv, PTL DEF Spec

\* However deep calls, default values, loops and try statements are nested and
\* whatever signal unwinds them, it.scope is that of the innermost call that is
\* running, and %, %% and %%% are results of its own statements (callProcWB).
THEOREM CallerIsRestored == Spec => []CallerRestored
  <1>1. IInv => CallerRestored
    <2> SUFFICES ASSUME IInv PROVE CallerRestored
      OBVIOUS
    <2>1. scope = Innermost({i \in 1..depth : frames[i].kind = "call" /\ frames[i].stage # "bind"})
      BY DEF IInv, OpenAt, IsOpen
    <2>2. \A i \in 1..HistLen : history[i] \in {NoEntry, Activation}
      BY ActivationIs DEF IInv, Own
    <2>3. QED
      BY <2>1, <2>2 DEF CallerRestored, Innermost
  <1>2. QED
    BY <1>1, StackIsSound, PTL

\* A return reaches the procedure it stands in, and a break or next that stands in
\* a loop reaches a loop of the same procedure, past any number of try statements
\* and finally blocks.
THEOREM SignalReachesItsTarget == Spec => []SignalFindsItsTarget
  <1>1. IInv => SignalFindsItsTarget
    BY ActivationIs DEF IInv, Aimed, SignalFindsItsTarget
  <1>2. QED
    BY <1>1, StackIsSound, PTL

\* A frame that is not popped keeps its kind.
LEMMA KindsStay ==
  ASSUME IInv, [Next]_vars
  PROVE  \/ \A i \in 1..depth : frames'[i].kind = frames[i].kind
         \/ Popped /\ depth > 0 /\ (Top.kind = "try" => LeaveTry \/ EndFinally)
  <1>0. /\ frames \in [Positions -> Frame] /\ depth \in Nat
        /\ \A i \in 1..depth : i \in Positions /\ i # depth + 1
    BY DepthAssumption DEF IInv, TypeInv, Positions
  <1>1. CASE \/ CompleteStatement \/ Jump \/ Fail \/ Panic \/ End \/ Stopped
             \/ UNCHANGED vars
    BY <1>1 DEF CompleteStatement, Jump, Fail, Panic, End, Stopped, vars
  <1>2. CASE BeginCall \/ BeginLoop \/ BeginTry \/ BeginExpression
    <2>1. \E f : Pushed(f)
      BY <1>2 DEF BeginCall, BeginLoop, BeginTry, BeginExpression
    <2>2. QED
      BY <1>0, <2>1 DEF Pushed
  <1>3. CASE \/ RejectArgument \/ FailType \/ FailDefault \/ LeaveCall \/ EndLoop
             \/ LeaveTry \/ EndFinally \/ EndBinder \/ EndQuiet
    BY <1>3 DEF RejectArgument, FailType, FailDefault, LeaveCall, EndLoop, LeaveTry,
                EndFinally, EndBinder, EndQuiet, TopIs
  <1>4. CASE SignalLoop
    BY <1>4 DEF SignalLoop, TopIs
  <1>5. CASE BeginDefault \/ EndDefault \/ Catch
    <2>1. \E stage : frames' = [frames EXCEPT ![depth].stage = stage]
      BY <1>5 DEF BeginDefault, EndDefault, Catch, Restaged
    <2>2. QED
      BY <1>0, <2>1 DEF Frame
  <1>6. CASE Activate
    BY <1>0, <1>6 DEF Activate, Frame
  <1>7. CASE BeginFinally
    <2>1. \E stage, pending, runs :
            frames' = [frames EXCEPT ![depth] = [@ EXCEPT !.stage = stage, !.pending = pending,
                                                          !.runs = runs]]
      BY <1>7 DEF BeginFinally
    <2>2. QED
      BY <1>0, <2>1 DEF Frame
  <1>8. QED
    BY <1>1, <1>2, <1>3, <1>4, <1>5, <1>6, <1>7 DEF Next

\* A try statement with a finally block is gone only when that block has run once:
\* every other way of leaving it is closed.
THEOREM FinallyHasRunOnce == Spec => FinallyRunsOnce
  <1>1. ASSUME IInv, [Next]_vars, NEW i \in Positions,
               frames[i].kind = "try", frames[i].hasFinally, frames'[i] = NoFrame
        PROVE  frames[i].runs = 1
    <2>1. i \in 1..depth
      BY <1>1, DepthAssumption DEF IInv, TypeInv, Positions
    <2>2. frames'[i].kind # frames[i].kind
      BY <1>1, NoSignalFacts
    <2>3. Popped /\ depth > 0 /\ (Top.kind = "try" => LeaveTry \/ EndFinally)
      BY <1>1, <2>1, <2>2, KindsStay
    <2>4. i = depth
      BY <1>1, <2>2, <2>3 DEF Popped, IInv, TypeInv
    <2>5. EndFinally
      BY <1>1, <2>3, <2>4 DEF Top, LeaveTry
    <2>6. Top.stage = "finally" /\ Sound(Top, frames, depth - 1)
      BY <1>1, <2>3, <2>5, TopFacts DEF EndFinally, TopIs
    <2>7. QED
      BY <1>1, <2>4, <2>6 DEF Sound, Top
  <1>2. IInv /\ [Next]_vars =>
          \A i \in Positions :
            (frames[i].kind = "try" /\ frames[i].hasFinally /\ frames'[i] = NoFrame)
              => frames[i].runs = 1
    BY <1>1
  <1>3. IInv /\ [Next]_vars =>
          [\A i \in Positions :
            (frames[i].kind = "try" /\ frames[i].hasFinally /\ frames'[i] = NoFrame)
              => frames[i].runs = 1]_vars
    BY <1>2
  <1>4. QED
    BY <1>3, StackIsSound, PTL DEF Spec, FinallyRunsOnce
=============================================================================
