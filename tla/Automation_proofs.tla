-------------------------- MODULE Automation_proofs --------------------------
(***************************************************************************)
(* Proofs about Automation: type correctness, the bound on nested changes, *)
(* the order of the rules a change runs, one rule per id, and that deleted *)
(* rules stay gone, for every layered set of rules and every instance.     *)
(***************************************************************************)
EXTENDS Automation, TLAPS, SequenceTheorems

-----------------------------------------------------------------------------
(* Sequences: the ends of a stack, and a list without one of its items.    *)

LEMMA StartOfSeq ==
  ASSUME NEW S, NEW s \in Seq(S), NEW m \in 0 .. Len(s)
  PROVE  /\ SubSeq(s, 1, m) \in Seq(S) /\ Len(SubSeq(s, 1, m)) = m
         /\ \A n \in 1 .. m : SubSeq(s, 1, m)[n] = s[n]
<1>1. \A n \in 1 .. m : s[n] \in S
  BY ElementOfSeq
<1> DEFINE p == SubSeq(s, 1, m)
<1>2. /\ p \in Seq(S)
      /\ Len(p) = IF 1 <= m THEN m - 1 + 1 ELSE 0
      /\ \A n \in 1 .. m - 1 + 1 : p[n] = s[1 + n - 1]
  BY <1>1, SubSeqProperties
<1> HIDE DEF p
<1>3. Len(p) = m /\ \A n \in 1 .. m : p[n] = s[n]
  BY <1>2
<1> QED
  BY <1>2, <1>3 DEF p

LEMMA EndOfSeq ==
  ASSUME NEW S, NEW s \in Seq(S), s # <<>>
  PROVE  /\ Last(s) \in S /\ Last(s) = s[Len(s)] /\ Len(s) \in Nat /\ Len(s) >= 1
         /\ Front(s) \in Seq(S) /\ Len(Front(s)) = Len(s) - 1
         /\ \A n \in 1 .. Len(s) - 1 : Front(s)[n] = s[n]
<1>1. Len(s) \in Nat /\ Len(s) >= 1
  BY EmptySeq
<1>2. s[Len(s)] \in S
  BY <1>1, ElementOfSeq
<1>3. PICK m \in 0 .. Len(s) : m = Len(s) - 1
  <2>1. \A k \in Nat : k >= 1 => k - 1 \in 0 .. k
    OBVIOUS
  <2>2. Len(s) - 1 \in 0 .. Len(s)
    BY <1>1, <2>1
  <2> QED
    BY <2>2
<1>4. /\ SubSeq(s, 1, m) \in Seq(S) /\ Len(SubSeq(s, 1, m)) = m
      /\ \A n \in 1 .. m : SubSeq(s, 1, m)[n] = s[n]
  BY StartOfSeq
<1>5. Front(s) = SubSeq(s, 1, m) /\ Last(s) = s[Len(s)]
  BY <1>3 DEF Front, Last
<1> QED
  BY <1>1, <1>2, <1>3, <1>4, <1>5

LEMMA LongerSeq ==
  ASSUME NEW S, NEW s \in Seq(S), NEW e \in S
  PROVE  /\ Append(s, e) \in Seq(S) /\ Len(Append(s, e)) = Len(s) + 1
         /\ \A n \in 1 .. Len(s) : Append(s, e)[n] = s[n]
         /\ Append(s, e)[Len(s) + 1] = e
OBVIOUS

LEMMA ShorterSeq ==
  ASSUME NEW S, NEW s \in Seq(S), NEW k \in 1 .. Len(s)
  PROVE  /\ RemoveAt(s, k) \in Seq(S) /\ Len(RemoveAt(s, k)) = Len(s) - 1
         /\ \A n \in 1 .. Len(s) - 1 :
              RemoveAt(s, k)[n] = IF n < k THEN s[n] ELSE s[n + 1]
<1>1. Len(s) \in Nat /\ k \in Int
  OBVIOUS
<1>2. \A n \in 1 .. Len(s) : s[n] \in S
  BY ElementOfSeq
<1> DEFINE p == SubSeq(s, 1, k - 1)  q == SubSeq(s, k + 1, Len(s))
<1>3. /\ p \in Seq(S) /\ Len(p) = k - 1
      /\ \A n \in 1 .. k - 1 : p[n] = s[n]
  <2>1. \A n \in 1 .. k - 1 : s[n] \in S
    BY <1>1, <1>2
  <2>2. /\ p \in Seq(S)
        /\ Len(p) = IF 1 <= k - 1 THEN k - 1 - 1 + 1 ELSE 0
        /\ \A n \in 1 .. k - 1 - 1 + 1 : p[n] = s[1 + n - 1]
    BY <1>1, <2>1, SubSeqProperties
  <2> QED
    BY <1>1, <2>2
<1>4. /\ q \in Seq(S) /\ Len(q) = Len(s) - k
      /\ \A n \in 1 .. Len(s) - k : q[n] = s[k + n]
  <2>1. \A n \in k + 1 .. Len(s) : s[n] \in S
    BY <1>1, <1>2
  <2>2. /\ q \in Seq(S)
        /\ Len(q) = IF k + 1 <= Len(s) THEN Len(s) - (k + 1) + 1 ELSE 0
        /\ \A n \in 1 .. Len(s) - (k + 1) + 1 : q[n] = s[(k + 1) + n - 1]
    BY <1>1, <2>1, SubSeqProperties
  <2> QED
    BY <1>1, <2>2
<1>5. /\ p \o q \in Seq(S) /\ Len(p \o q) = Len(p) + Len(q)
      /\ \A n \in 1 .. Len(p) + Len(q) :
           (p \o q)[n] = IF n <= Len(p) THEN p[n] ELSE q[n - Len(p)]
  BY <1>3, <1>4, ConcatProperties
<1>6. RemoveAt(s, k) = p \o q
  BY DEF RemoveAt
<1> HIDE DEF p, q
<1>7. Len(p \o q) = Len(s) - 1
  BY <1>1, <1>3, <1>4, <1>5
<1>8. ASSUME NEW n \in 1 .. Len(s) - 1
      PROVE  (p \o q)[n] = IF n < k THEN s[n] ELSE s[n + 1]
  <2>1. CASE n < k
    BY <1>1, <1>3, <1>4, <1>5, <2>1
  <2>2. CASE ~(n < k)
    <3>0. /\ n \in 1 .. Len(p) + Len(q) /\ ~(n <= Len(p)) /\ n - Len(p) = n - (k - 1)
          /\ n - (k - 1) \in 1 .. Len(s) - k
      BY <1>1, <1>3, <1>4, <2>2
    <3>1. (p \o q)[n] = q[n - (k - 1)] /\ n - (k - 1) \in 1 .. Len(s) - k
      <4>1. (p \o q)[n] = q[n - Len(p)]
        BY <1>5, <3>0, Zenon
      <4> QED
        BY <3>0, <4>1
    <3>2. q[n - (k - 1)] = s[k + (n - (k - 1))] /\ k + (n - (k - 1)) = n + 1
      BY <1>1, <1>4, <3>1
    <3> QED
      BY <2>2, <3>1, <3>2
  <2> QED
    BY <2>1, <2>2
<1> QED
  BY <1>5, <1>6, <1>7, <1>8

-----------------------------------------------------------------------------
(* Frames.  A change of a source sets deeper variables only; the sort has    *)
(* put the best i - 1 of its rules in front, and of those it has compared    *)
(* with rule i none is better.                                               *)

Deeper(todo, src) ==
  \A k \in 1 .. Len(todo) : \A n \in 1 .. Len(todo[k].ops) :
    todo[k].ops[n].do \notin {"send", "none"} => Rank[todo[k].ops[n].var] > Rank[src]

SortedUpTo(todo, i, j) ==
  /\ i <= Len(todo)
  /\ i < Len(todo) => i < j /\ j <= Len(todo)
  /\ \A a, b \in 1 .. Len(todo) :
       a < b /\ (a < i \/ (a = i /\ b < j)) => todo[a].prio >= todo[b].prio

Sorted(todo) ==
  \A a, b \in 1 .. Len(todo) : a < b => todo[a].prio >= todo[b].prio

Sound(f) ==
  /\ f \in Frame /\ Deeper(f.todo, f.src)
  /\ f.phase = "sort" => SortedUpTo(f.todo, f.i, f.j)
  /\ f.phase = "run" => Sorted(f.todo)

\* A stack of changes: its n-th frame is at least n - 1 layers deep.
Nested(s) ==
  /\ s \in Seq(Frame)
  /\ \A n \in 1 .. Len(s) : Sound(s[n]) /\ Rank[s[n].src] >= n - 1

LEMMA NestedEnds ==
  ASSUME NEW s, Nested(s), s # <<>>
  PROVE  /\ Sound(Last(s)) /\ Rank[Last(s).src] >= Len(s) - 1
         /\ Nested(Front(s)) /\ Len(s) \in Nat /\ Len(Front(s)) = Len(s) - 1
<1>1. s \in Seq(Frame)
  BY DEF Nested
<1>2. /\ Last(s) = s[Len(s)] /\ Len(s) \in Nat /\ Len(s) >= 1
      /\ Front(s) \in Seq(Frame) /\ Len(Front(s)) = Len(s) - 1
      /\ \A n \in 1 .. Len(s) - 1 : Front(s)[n] = s[n]
  BY <1>1, EndOfSeq
<1>3. Sound(Last(s)) /\ Rank[Last(s).src] >= Len(s) - 1
  BY <1>2 DEF Nested
<1>4. ASSUME NEW n \in 1 .. Len(s) - 1
      PROVE  Sound(Front(s)[n]) /\ Rank[Front(s)[n].src] >= n - 1
  BY <1>2 DEF Nested
<1> QED
  BY <1>2, <1>3, <1>4 DEF Nested

LEMMA NestedGrows ==
  ASSUME NEW s, Nested(s), NEW f, Sound(f), Rank[f.src] >= Len(s)
  PROVE  Nested(Append(s, f))
<1>1. /\ Append(s, f) \in Seq(Frame) /\ Len(Append(s, f)) = Len(s) + 1
      /\ \A n \in 1 .. Len(s) : Append(s, f)[n] = s[n]
      /\ Append(s, f)[Len(s) + 1] = f
      /\ Len(s) \in Nat
  BY LongerSeq DEF Nested, Sound
<1>2. ASSUME NEW n \in 1 .. Len(s) + 1
      PROVE  Sound(Append(s, f)[n]) /\ Rank[Append(s, f)[n].src] >= n - 1
  <2>1. CASE n = Len(s) + 1
    BY <1>1, <2>1
  <2>2. CASE n \in 1 .. Len(s)
    BY <1>1, <2>2 DEF Nested
  <2> QED
    BY <1>1, <2>1, <2>2
<1> QED
  BY <1>1, <1>2 DEF Nested

LEMMA NestedTop ==
  ASSUME NEW s, Nested(s), s # <<>>, NEW f, Sound(f), f.src = Last(s).src
  PROVE  Nested(Append(Front(s), f))
BY NestedEnds, NestedGrows

(* What the constants are, in the form the steps use.                        *)
LEMMA Constants ==
  /\ \A d \in Runnable :
       d \in Written
  /\ \A d \in Texts : /\ d.id \in Rule /\ d.ops \in Seq(Op) /\ Parsed(d) \in Texts
                        /\ Parsed(d).id = d.id
                        /\ \A n \in 1 .. Len(d.ops) :
                             d.ops[n].do \notin {"send", "none"} =>
                               Rank[d.ops[n].var] > Rank[d.cause]
<1> DEFINE P(d) == [n \in DOMAIN d.ops |->
                     IF d.ops[n].do = "set" /\ d.ops[n].var \in Wide THEN Inert ELSE d.ops[n]]
<1>1. Inert \in Step /\ Step \subseteq Op /\ Inert.do = "none"
  BY DEF Inert, Step, Op
<1>2. ASSUME NEW d \in Written
      PROVE  /\ P(d) \in Seq(Op) /\ Len(P(d)) = Len(d.ops)
             /\ \A n \in 1 .. Len(d.ops) :
                  P(d)[n] = IF d.ops[n].do = "set" /\ d.ops[n].var \in Wide THEN Inert ELSE d.ops[n]
  <2>1. d.ops \in Seq(Op) /\ DOMAIN d.ops = 1 .. Len(d.ops) /\ Len(d.ops) \in Nat
    BY DEF Written
  <2>2. P(d) \in [1 .. Len(d.ops) -> Op]
    BY <1>1, <2>1
  <2> QED
    BY <2>1, <2>2
<1>3. ASSUME NEW d \in Written
      PROVE  /\ Parsed(d) \in Written /\ Parsed(d).id = d.id /\ Parsed(d).cause = d.cause
             /\ Parsed(d).ops = P(d)
  BY <1>2 DEF Parsed, Written
<1>4. ASSUME NEW d \in Written PROVE Parsed(Parsed(d)) = Parsed(d)
  <2>1. P(Parsed(d)) = P(d)
    <3>1. DOMAIN d.ops = 1 .. Len(d.ops) /\ DOMAIN P(d) = DOMAIN d.ops
      BY DEF Written
    <3>2. \A n \in DOMAIN d.ops : P(Parsed(d))[n] = P(d)[n]
      BY <1>1, <1>2, <1>3, <3>1
    <3> QED
      BY <1>3, <3>1, <3>2
  <2>2. Parsed(Parsed(d)) = [Parsed(d) EXCEPT !.ops = P(Parsed(d))]
    BY DEF Parsed
  <2>3. Parsed(d) = [d EXCEPT !.ops = P(d)]
    BY DEF Parsed
  <2> QED
    BY <2>1, <2>2, <2>3 DEF Written
<1> HIDE DEF P
<1>5. \A d \in Runnable : d \in Written
  BY <1>3, Shapes DEF Texts, Runnable
<1>6. ASSUME NEW d \in Defs, NEW n \in 1 .. Len(d.ops)
      PROVE  d.ops[n].do \notin {"send", "none"} => Rank[d.ops[n].var] > Rank[d.cause]
  <2>1. d.ops[n] \in Step /\ n \in DOMAIN d.ops
    BY Shapes
  <2>2. d.ops[n].do \in {"send", "none", "set"}
    BY <2>1 DEF Step, Inert
  <2> QED
    BY <2>1, <2>2, Layered
<1>7. ASSUME NEW d \in Defs, NEW n \in 1 .. Len(Parsed(d).ops)
      PROVE  Parsed(d).ops[n].do \notin {"send", "none"} =>
               Rank[Parsed(d).ops[n].var] > Rank[Parsed(d).cause]
  <2>1. d \in Written
    BY Shapes
  <2>2. Parsed(d).ops = P(d) /\ Parsed(d).cause = d.cause /\ Len(P(d)) = Len(d.ops)
    BY <1>2, <1>3, <2>1
  <2>3. P(d)[n] = Inert \/ P(d)[n] = d.ops[n]
    BY <1>2, <2>1, <2>2
  <2>4. n \in 1 .. Len(d.ops)
    BY <2>2
  <2> QED
    BY <1>1, <1>6, <2>2, <2>3, <2>4
<1>8. ASSUME NEW d \in Texts PROVE Parsed(d) \in Texts
  <2>1. CASE d \in Defs
    BY <2>1 DEF Texts
  <2>2. CASE \E e \in Defs : d = Parsed(e)
    BY <1>4, <2>2, Shapes DEF Texts
  <2> QED
    BY <2>1, <2>2 DEF Texts
<1>9. \A d \in Texts : d.id \in Rule /\ d.ops \in Seq(Op)
  BY <1>3, <1>5, Shapes DEF Texts, Written
<1> QED
  BY <1>3, <1>5, <1>6, <1>7, <1>8, <1>9 DEF Texts, Runnable

-----------------------------------------------------------------------------
(* The frames a change begins with.                                          *)

LEMMA WalkBegins ==
  ASSUME NEW src \in Attr \cup Var, NEW x \in Value
  PROVE  Sound(WalkFrame(src, x)) /\ WalkFrame(src, x).src = src
<1>1. <<>> \in Seq(Runnable) /\ Len(<<>>) = 0
  OBVIOUS
<1>2. WalkFrame(src, x) \in Frame
  BY <1>1 DEF WalkFrame, Frame, Source
<1> QED
  BY <1>1, <1>2 DEF WalkFrame, Sound, Deeper

LEMMA RunBegins ==
  ASSUME NEW src \in Source, NEW d \in Runnable,
         \A n \in 1 .. Len(d.ops) :
           d.ops[n].do \notin {"send", "none"} => Rank[d.ops[n].var] > Rank[src]
  PROVE  Sound(RunFrame(src, d)) /\ RunFrame(src, d).src = src
<1>1. /\ <<d>> \in Seq(Runnable)
      /\ Len(<<d>>) = 1 /\ <<d>>[1] = d
  OBVIOUS
<1>2. 0 \in Value
  BY Shapes DEF Value
<1>3. RunFrame(src, d) \in Frame
  BY <1>1, <1>2 DEF RunFrame, Frame
<1>4. Deeper(<<d>>, src) /\ Sorted(<<d>>)
  BY <1>1 DEF Deeper, Sorted
<1> QED
  BY <1>3, <1>4 DEF RunFrame, Sound

(* A behaviour hangs on an attribute, and what it sets are variables.        *)
LEMMA BodyDeeper ==
  ASSUME NEW b \in Behaviour, NEW src \in Attr, NEW n \in 1 .. Len(Body[b].ops),
         Body[b].ops[n].do \notin {"send", "none"}
  PROVE  Rank[Body[b].ops[n].var] > Rank[src]
<1>1. Body[b].ops \in Seq(Op)
  BY Constants DEF Written, Runnable
<1>2. Body[b].ops[n] \in Op
  BY <1>1
<1>3. Body[b].ops[n].var \in Var
  BY <1>2 DEF Op, Step
<1>4. Rank[src] = 0
  BY Layered
<1> QED
  BY <1>3, <1>4, Layered

LEMMA ChangeNests ==
  ASSUME NEW s, Nested(s), NEW src \in Attr \cup Var, NEW x \in Value, NEW now,
         behs \subseteq Behaviour, Rank[src] >= Len(s)
  PROVE  Nested(Change(s, src, x, now))
<1>1. CASE src \in Attr /\ Bound[src] \in behs
  <2>1. Sound(RunFrame(src, Body[Bound[src]])) /\ RunFrame(src, Body[Bound[src]]).src = src
    BY <1>1, RunBegins, BodyDeeper DEF Source, Runnable
  <2> QED
    BY <1>1, <2>1, NestedGrows DEF Change
<1>2. CASE ~(src \in Attr /\ Bound[src] \in behs)
  BY <1>2, WalkBegins, NestedGrows DEF Change
<1> QED
  BY <1>1, <1>2

-----------------------------------------------------------------------------
(* The engine: the stacks, the values and the core lock.                     *)

EngineInv ==
  /\ stack \in [Task -> Seq(Frame)] /\ \A t \in Task : Nested(stack[t])
  /\ value \in [Attr \cup Var -> Value]
  /\ behs \subseteq Behaviour
  /\ holder \in Task \cup {Nobody} /\ inside \subseteq Task
  /\ Zb \notin inside => stack[Zb] = <<>>

(* A step of the task's top frame, the rest of the engine as it was.         *)
LEMMA TopReplaced ==
  ASSUME EngineInv, NEW t \in Task, Running(t), NEW f, Sound(f), f.src = Top(t).src,
         stack' = SetTop(t, f), UNCHANGED <<value, behs, core>>
  PROVE  EngineInv'
<1>1. Nested(Append(Front(stack[t]), f))
  BY NestedTop DEF EngineInv, Running, Top
<1>2. Append(Front(stack[t]), f) \in Seq(Frame)
  BY <1>1 DEF Nested
<1> QED
  BY <1>1, <1>2 DEF EngineInv, SetTop, Running, core

LEMMA TopPopped ==
  ASSUME EngineInv, NEW t \in Task, Running(t), stack' = Pop(t),
         UNCHANGED <<value, behs, core>>
  PROVE  EngineInv'
<1>1. Nested(Front(stack[t]))
  BY NestedEnds DEF EngineInv, Running
<1>2. Front(stack[t]) \in Seq(Frame)
  BY <1>1 DEF Nested
<1> QED
  BY <1>1, <1>2 DEF EngineInv, Pop, Running, core

LEMMA TopIsSound ==
  ASSUME EngineInv, NEW t \in Task, Running(t)
  PROVE  Sound(Top(t)) /\ Top(t) \in Frame
BY NestedEnds DEF EngineInv, Running, Top, Sound

(* A change of field values in a frame of the engine.                        *)
LEMMA FrameFields ==
  ASSUME NEW f \in Frame
  PROVE  /\ f.src \in Source /\ f.was \in Value /\ f.phase \in {"walk", "sort", "run"}
         /\ f.todo \in Seq(Runnable) /\ Len(f.todo) \in Nat
         /\ f.i \in Nat /\ f.i >= 1 /\ f.j \in Nat /\ f.j >= 1
         /\ f.at \in Nat /\ f.at >= 1 /\ f.op \in Nat /\ f.op >= 1
         /\ \A k \in 1 .. Len(f.todo) : f.todo[k] \in Written
<1>1. f.todo \in Seq(Runnable)
  BY DEF Frame
<1>2. \A k \in 1 .. Len(f.todo) : f.todo[k] \in Written
  BY <1>1, ElementOfSeq, Constants
<1> QED
  BY <1>1, <1>2 DEF Frame

(* The frame a step leaves on top.                                           *)
Walked(f, todo)     == [f EXCEPT !.i = @ + 1, !.todo = todo]
Ranked(f)           == [f EXCEPT !.phase = "sort", !.i = 1, !.j = 2]
Compared(f, todo, i, j) == [f EXCEPT !.todo = todo, !.i = i, !.j = j]
Chosen(f, todo)     == [f EXCEPT !.phase = "run", !.todo = todo]
Acted(f)            == [f EXCEPT !.op = @ + 1]
NextRule(f)         == [f EXCEPT !.at = @ + 1, !.op = 1]

LEMMA FramesOfSteps ==
  ASSUME NEW f \in Frame, NEW todo \in Seq(Runnable)
  PROVE  /\ Walked(f, todo) \in Frame /\ Ranked(f) \in Frame
         /\ \A i, j \in Nat \ {0} : Compared(f, todo, i, j) \in Frame
         /\ Chosen(f, todo) \in Frame /\ Acted(f) \in Frame /\ NextRule(f) \in Frame
<1>0. /\ f.i + 1 \in Nat \ {0} /\ f.at + 1 \in Nat \ {0} /\ f.op + 1 \in Nat \ {0}
      /\ 1 \in Nat \ {0}
  <2>1. f.i \in Nat /\ f.at \in Nat /\ f.op \in Nat
    BY FrameFields
  <2>2. 1 \in Nat \ {0} /\ \A k \in Nat : k + 1 \in Nat \ {0}
    OBVIOUS
  <2> QED
    BY <2>1, <2>2
<1>1. Walked(f, todo) \in Frame
  BY <1>0 DEF Frame, Walked
<1>2. Ranked(f) \in Frame
  <2>1. 1 \in Nat \ {0} /\ 2 \in Nat \ {0} /\ "sort" \in {"walk", "sort", "run"}
    OBVIOUS
  <2> QED
    BY <2>1 DEF Frame, Ranked
<1>3. ASSUME NEW i \in Nat \ {0}, NEW j \in Nat \ {0}
      PROVE  Compared(f, todo, i, j) \in Frame
  BY DEF Frame, Compared
<1>4. Chosen(f, todo) \in Frame
  BY DEF Frame, Chosen
<1>5. Acted(f) \in Frame
  BY <1>0 DEF Frame, Acted
<1>6. NextRule(f) \in Frame
  BY <1>0 DEF Frame, NextRule
<1> QED
  BY <1>1, <1>2, <1>3, <1>4, <1>5, <1>6

LEMMA FieldsOfSteps ==
  ASSUME NEW f \in Frame, NEW todo, NEW i, NEW j
  PROVE  /\ LET g == Walked(f, todo)
             IN  g.phase = f.phase /\ g.src = f.src /\ g.todo = todo
         /\ LET g == Ranked(f)
             IN  g.phase = "sort" /\ g.src = f.src /\ g.todo = f.todo /\ g.i = 1 /\ g.j = 2
         /\ LET g == Compared(f, todo, i, j)
             IN  g.phase = f.phase /\ g.src = f.src /\ g.todo = todo /\ g.i = i /\ g.j = j
         /\ LET g == Chosen(f, todo)
             IN  g.phase = "run" /\ g.src = f.src /\ g.todo = todo
         /\ LET g == Acted(f)
             IN  g.phase = f.phase /\ g.src = f.src /\ g.todo = f.todo
         /\ LET g == NextRule(f)
             IN  g.phase = f.phase /\ g.src = f.src /\ g.todo = f.todo
BY DEF Frame, Walked, Ranked, Compared, Chosen, Acted, NextRule

LEMMA AddedDeeper ==
  ASSUME NEW todo \in Seq(Runnable), NEW d \in Texts, NEW src \in Source,
         Deeper(todo, src), Rank[d.cause] = Rank[src]
  PROVE  Append(todo, d) \in Seq(Runnable) /\ Deeper(Append(todo, d), src)
<1> DEFINE s == Append(todo, d)
<1>1. /\ s \in Seq(Runnable) /\ Len(s) = Len(todo) + 1 /\ s[Len(todo) + 1] = d
      /\ \A k \in 1 .. Len(todo) : s[k] = todo[k]
      /\ Len(todo) \in Nat
  BY LongerSeq DEF Runnable
<1> HIDE DEF s
<1>2. ASSUME NEW k \in 1 .. Len(s), NEW n \in 1 .. Len(s[k].ops),
             s[k].ops[n].do \notin {"send", "none"}
      PROVE  Rank[s[k].ops[n].var] > Rank[src]
  <2>1. CASE k = Len(todo) + 1
    BY <1>1, <1>2, <2>1, Constants
  <2>2. CASE k \in 1 .. Len(todo)
    <3>1. s[k] = todo[k]
      BY <1>1, <2>2
    <3> QED
      BY <1>2, <2>2, <3>1 DEF Deeper
  <2> QED
    BY <1>1, <2>1, <2>2
<1> QED
  BY <1>1, <1>2 DEF Deeper, s

LEMMA WalkSteps ==
  ASSUME EngineInv, rules \in Seq(Text), NEW t \in Task, Walk(t)
  PROVE  EngineInv'
<1> DEFINE f == Top(t)  r == rules[f.i]
           Todo(hour) == IF Triggered(r, f, hour) THEN Append(f.todo, r.def) ELSE f.todo
<1>1. \E hour \in BOOLEAN : stack' = SetTop(t, Walked(f, Todo(hour)))
  BY Zenon DEF Walk, Walked
<1>2. Sound(f) /\ f \in Frame /\ f.phase = "walk" /\ f.i <= Len(rules) /\ Running(t)
  BY TopIsSound DEF Walk
<1>3. /\ f.i \in Nat /\ f.i >= 1 /\ f.src \in Source /\ f.todo \in Seq(Runnable)
  BY <1>2, FrameFields
<1>4. r.def \in Texts
  <2>1. r \in Text
    BY <1>2, <1>3
  <2> QED
    BY <2>1 DEF Text
<1>5. ASSUME NEW hour \in BOOLEAN
      PROVE  Todo(hour) \in Seq(Runnable) /\ Deeper(Todo(hour), f.src)
  <2>1. CASE Triggered(r, f, hour)
    <3>1. Rank[r.def.cause] = Rank[f.src]
      BY <2>1 DEF Triggered
    <3> QED
      BY <1>2, <1>3, <1>4, <2>1, <3>1, AddedDeeper DEF Sound
  <2>2. CASE ~Triggered(r, f, hour)
    BY <1>2, <1>3, <2>2 DEF Sound
  <2> QED
    BY <2>1, <2>2
<1> HIDE DEF Todo
<1>6. ASSUME NEW hour \in BOOLEAN
      PROVE  Sound(Walked(f, Todo(hour))) /\ Walked(f, Todo(hour)).src = f.src
  <2>1. Walked(f, Todo(hour)) \in Frame
    BY <1>2, <1>5, FramesOfSteps
  <2>2. /\ Walked(f, Todo(hour)).phase = "walk" /\ Walked(f, Todo(hour)).src = f.src
        /\ Walked(f, Todo(hour)).todo = Todo(hour)
    BY <1>2, FieldsOfSteps
  <2> QED
    BY <1>5, <2>1, <2>2 DEF Sound
<1> QED
  BY <1>1, <1>2, <1>6, TopReplaced DEF Walk, memory

LEMMA WalkEndSteps ==
  ASSUME EngineInv, NEW t \in Task, WalkEnd(t)
  PROVE  EngineInv'
<1> DEFINE f == Top(t)
<1>1. Sound(f) /\ f \in Frame /\ Running(t)
  BY TopIsSound DEF WalkEnd
<1>2. CASE f.todo = <<>>
  BY <1>1, <1>2, TopPopped DEF WalkEnd, memory
<1>3. CASE f.todo # <<>>
  <2>1. Ranked(f) \in Frame
    BY <1>1, FramesOfSteps, FrameFields
  <2>2. LET g == Ranked(f)
        IN  g.phase = "sort" /\ g.src = f.src /\ g.todo = f.todo /\ g.i = 1 /\ g.j = 2
    BY <1>1, FieldsOfSteps
  <2>3. Len(f.todo) \in Nat /\ Len(f.todo) >= 1
    BY <1>1, <1>3, FrameFields, EmptySeq
  <2>4. SortedUpTo(f.todo, 1, 2)
    BY <2>3 DEF SortedUpTo
  <2>5. Sound(Ranked(f))
    BY <1>1, <2>1, <2>2, <2>4 DEF Sound
  <2>6. stack' = SetTop(t, Ranked(f))
    BY <1>3 DEF WalkEnd, Ranked
  <2> QED
    BY <1>1, <2>2, <2>5, <2>6, TopReplaced DEF WalkEnd, memory
<1> QED
  BY <1>2, <1>3

(* One comparison extends what is sorted.                                    *)
LEMMA ExchangeSorts ==
  ASSUME NEW s \in Seq(Runnable), NEW src \in Source, Deeper(s, src),
         NEW i \in Nat, i >= 1, NEW j \in Nat, SortedUpTo(s, i, j), i < Len(s),
         NEW u, u = IF s[i].prio < s[j].prio THEN Swap(s, i, j) ELSE s
  PROVE  /\ u \in Seq(Runnable) /\ Deeper(u, src)
         /\ NextPair(i, j, Len(s))[1] \in Nat \ {0}
         /\ NextPair(i, j, Len(s))[2] \in Nat \ {0}
         /\ SortedUpTo(u, NextPair(i, j, Len(s))[1], NextPair(i, j, Len(s))[2])
<1>1. Len(s) \in Nat /\ i < j /\ j <= Len(s) /\ i \in 1 .. Len(s) /\ j \in 1 .. Len(s)
  BY DEF SortedUpTo
<1>2. \A k \in 1 .. Len(s) : s[k] \in Runnable /\ s[k].prio \in Int
  BY ElementOfSeq, Constants DEF Written
<1>3. ASSUME s[i].prio < s[j].prio
      PROVE  /\ u \in Seq(Runnable) /\ Len(u) = Len(s) /\ u[i] = s[j] /\ u[j] = s[i]
             /\ \A k \in 1 .. Len(s) : k # i /\ k # j => u[k] = s[k]
  <2>1. u = [[s EXCEPT ![i] = s[j]] EXCEPT ![j] = s[i]]
    BY <1>3 DEF Swap
  <2> DEFINE v == [s EXCEPT ![i] = s[j]]
  <2>2. /\ v \in Seq(Runnable) /\ Len(v) = Len(s)
        /\ \A k \in 1 .. Len(s) : v[k] = IF k = i THEN s[j] ELSE s[k]
    BY <1>1, <1>2, ExceptSeq
  <2>3. u = [v EXCEPT ![j] = s[i]]
    BY <2>1
  <2> HIDE DEF v
  <2>4. /\ u \in Seq(Runnable) /\ Len(u) = Len(v)
        /\ \A k \in 1 .. Len(v) : u[k] = IF k = j THEN s[i] ELSE v[k]
    BY <1>1, <1>2, <2>2, <2>3, ExceptSeq
  <2> QED
    BY <1>1, <2>2, <2>4
<1>4. ASSUME ~(s[i].prio < s[j].prio) PROVE u = s
  BY <1>4
<1>5. u \in Seq(Runnable) /\ Len(u) = Len(s)
  BY <1>3, <1>4
<1>6. Deeper(u, src)
  <2>1. ASSUME NEW k \in 1 .. Len(u)
        PROVE  \A n \in 1 .. Len(u[k].ops) :
                 u[k].ops[n].do \notin {"send", "none"} => Rank[u[k].ops[n].var] > Rank[src]
    <3>1. PICK m \in 1 .. Len(s) : u[k] = s[m]
      BY <1>1, <1>3, <1>4, <1>5
    <3> QED
      BY <3>1 DEF Deeper
  <2> QED
    BY <2>1 DEF Deeper
<1>7. ASSUME NEW a \in 1 .. Len(s), NEW b \in 1 .. Len(s), a < b, a < i \/ (a = i /\ b <= j)
      PROVE  u[a].prio >= u[b].prio
  <2>1. CASE s[i].prio < s[j].prio
    <3>1. CASE a < i
      <4>1. u[a] = s[a] /\ s[a].prio >= s[b].prio /\ s[a].prio >= s[i].prio /\ s[a].prio >= s[j].prio
        BY <1>1, <1>3, <1>7, <2>1, <3>1 DEF SortedUpTo
      <4> QED
        BY <1>1, <1>3, <2>1, <4>1
    <3>2. CASE a = i /\ b = j
      BY <1>2, <1>3, <2>1, <3>2
    <3>3. CASE a = i /\ b < j
      <4>1. u[a] = s[j] /\ u[b] = s[b] /\ s[i].prio >= s[b].prio
        BY <1>1, <1>3, <1>7, <2>1, <3>3 DEF SortedUpTo
      <4>2. s[i].prio \in Int /\ s[j].prio \in Int /\ s[b].prio \in Int
        BY <1>1, <1>2
      <4>3. \A x, y, z \in Int : x < y /\ x >= z => y >= z
        OBVIOUS
      <4>4. s[j].prio >= s[b].prio
        BY <2>1, <4>1, <4>2, <4>3
      <4> QED
        BY <4>1, <4>4
    <3> QED
      BY <1>1, <1>7, <3>1, <3>2, <3>3
  <2>2. CASE ~(s[i].prio < s[j].prio)
    <3>1. CASE b = j /\ a = i
      BY <1>1, <1>2, <1>4, <2>2, <3>1
    <3>2. CASE ~(b = j /\ a = i)
      BY <1>1, <1>4, <1>7, <2>2, <3>2 DEF SortedUpTo
    <3> QED
      BY <3>1, <3>2
  <2> QED
    BY <2>1, <2>2
<1>8. CASE j < Len(s)
  <2>1. NextPair(i, j, Len(s)) = <<i, j + 1>>
    BY <1>8 DEF NextPair
  <2>2. SortedUpTo(u, i, j + 1)
    BY <1>1, <1>5, <1>7, <1>8 DEF SortedUpTo
  <2> QED
    BY <1>1, <1>5, <1>6, <2>1, <2>2
<1>9. CASE j = Len(s)
  <2>1. NextPair(i, j, Len(s)) = <<i + 1, i + 2>>
    BY <1>1, <1>9 DEF NextPair
  <2>2. SortedUpTo(u, i + 1, i + 2)
    BY <1>1, <1>5, <1>7, <1>9 DEF SortedUpTo
  <2> QED
    BY <1>1, <1>5, <1>6, <2>1, <2>2
<1> QED
  BY <1>1, <1>8, <1>9

LEMMA ExchangeSteps ==
  ASSUME EngineInv, NEW t \in Task, Exchange(t)
  PROVE  EngineInv'
<1> DEFINE f == Top(t)
           todo == IF f.todo[f.i].prio < f.todo[f.j].prio THEN Swap(f.todo, f.i, f.j) ELSE f.todo
           i == NextPair(f.i, f.j, Len(f.todo))[1]
           j == NextPair(f.i, f.j, Len(f.todo))[2]
<1>1. Sound(f) /\ f \in Frame /\ Running(t) /\ f.phase = "sort" /\ f.i < Len(f.todo)
  BY TopIsSound DEF Exchange
<1>2. /\ f.todo \in Seq(Runnable) /\ f.src \in Source /\ f.i \in Nat /\ f.i >= 1 /\ f.j \in Nat
      /\ Deeper(f.todo, f.src) /\ SortedUpTo(f.todo, f.i, f.j)
  BY <1>1, FrameFields DEF Sound
<1>3. /\ todo \in Seq(Runnable) /\ Deeper(todo, f.src)
      /\ i \in Nat \ {0} /\ j \in Nat \ {0} /\ SortedUpTo(todo, i, j)
  BY <1>1, <1>2, ExchangeSorts
<1>4. stack' = SetTop(t, Compared(f, todo, i, j))
  BY DEF Exchange, Compared
<1> HIDE DEF todo, i, j
<1>5. Compared(f, todo, i, j) \in Frame
  BY <1>1, <1>3, FramesOfSteps
<1>6. LET g == Compared(f, todo, i, j)
      IN  g.phase = "sort" /\ g.src = f.src /\ g.todo = todo /\ g.i = i /\ g.j = j
  BY <1>1, FieldsOfSteps
<1>7. Sound(Compared(f, todo, i, j))
  BY <1>3, <1>5, <1>6 DEF Sound
<1> QED
  BY <1>1, <1>4, <1>6, <1>7, TopReplaced DEF Exchange, memory

LEMMA SortEndSteps ==
  ASSUME EngineInv, NEW t \in Task, SortEnd(t)
  PROVE  EngineInv'
<1> DEFINE f == Top(t)
           todo == IF f.todo[1].first THEN <<f.todo[1]>> ELSE f.todo
<1>1. Sound(f) /\ f \in Frame /\ Running(t) /\ f.phase = "sort" /\ f.i >= Len(f.todo)
  BY TopIsSound DEF SortEnd
<1>2. /\ f.todo \in Seq(Runnable) /\ Len(f.todo) \in Nat /\ f.i \in Nat /\ f.i >= 1
      /\ Deeper(f.todo, f.src) /\ SortedUpTo(f.todo, f.i, f.j)
  BY <1>1, FrameFields DEF Sound
<1>3. f.i = Len(f.todo) /\ 1 \in 1 .. Len(f.todo)
  BY <1>1, <1>2 DEF SortedUpTo
<1>4. todo \in Seq(Runnable) /\ Deeper(todo, f.src) /\ Sorted(todo)
  <2>1. CASE f.todo[1].first
    <3>1. todo = <<f.todo[1]>> /\ f.todo[1] \in Runnable
      BY <1>2, <1>3, <2>1
    <3>2. /\ <<f.todo[1]>> \in Seq(Runnable) /\ Len(<<f.todo[1]>>) = 1
          /\ <<f.todo[1]>>[1] = f.todo[1]
      BY <3>1
    <3> HIDE DEF todo
    <3>3. Deeper(todo, f.src)
      BY <1>2, <1>3, <3>1, <3>2 DEF Deeper
    <3>4. Sorted(todo)
      BY <3>1, <3>2 DEF Sorted
    <3> QED
      BY <3>1, <3>2, <3>3, <3>4
  <2>2. CASE ~f.todo[1].first
    <3>1. Sorted(f.todo)
      BY <1>2, <1>3 DEF SortedUpTo, Sorted
    <3> QED
      BY <1>2, <2>2, <3>1
  <2> QED
    BY <2>1, <2>2
<1>5. stack' = SetTop(t, Chosen(f, todo))
  BY DEF SortEnd, Chosen
<1> HIDE DEF todo
<1>6. Chosen(f, todo) \in Frame
  BY <1>1, <1>4, FramesOfSteps
<1>7. LET g == Chosen(f, todo)
      IN  g.phase = "run" /\ g.src = f.src /\ g.todo = todo
  BY <1>1, FieldsOfSteps
<1>8. Sound(Chosen(f, todo))
  BY <1>4, <1>6, <1>7 DEF Sound
<1> QED
  BY <1>1, <1>5, <1>7, <1>8, TopReplaced DEF SortEnd, memory

(* What an action makes of a variable is a value.                            *)
LEMMA SetsVar ==
  ASSUME NEW o \in Op, o.do \notin {"send", "none"}
  PROVE  o.var \in Var
BY DEF Op, Step

LEMMA ResultIsValue ==
  ASSUME NEW o \in Op, o.do \notin {"send", "none"}, NEW x \in Value
  PROVE  Result(o, x) \in Value
<1>1. o.do = "set" => o.to \in Value
  BY DEF Op, Step
<1>2. Values \in Nat /\ Values >= 1 /\ Value = 0 .. Values - 1
  BY Shapes DEF Value
<1>3. \A k \in Nat : k % Values \in 0 .. Values - 1
  BY <1>2
<1>4. x + 1 \in Nat /\ 1 \in Nat /\ 0 \in Value /\ (x > 0 => x - 1 \in Value)
  BY <1>2
<1> QED
  BY <1>1, <1>2, <1>3, <1>4 DEF Result

LEMMA StackReplaced ==
  ASSUME EngineInv, NEW t \in Task, Running(t), NEW s, Nested(s),
         stack' = [stack EXCEPT ![t] = s], value' \in [Attr \cup Var -> Value],
         UNCHANGED <<behs, holder, inside>>
  PROVE  EngineInv'
<1>1. s \in Seq(Frame)
  BY DEF Nested
<1> QED
  BY <1>1 DEF EngineInv, Running

LEMMA ChangedFunction ==
  ASSUME NEW S, NEW T, NEW g \in [S -> T], NEW i \in S, NEW y \in T
  PROVE  [g EXCEPT ![i] = y] \in [S -> T]
OBVIOUS

LEMMA ChangedTwice ==
  ASSUME NEW g, NEW i \in DOMAIN g, NEW y, NEW z
  PROVE  LET h == [g EXCEPT ![i] = y]
         IN  h[i] = y /\ [h EXCEPT ![i] = z] = [g EXCEPT ![i] = z]
OBVIOUS

LEMMA PerformSteps ==
  ASSUME EngineInv, NEW t \in Task, Perform(t)
  PROVE  EngineInv'
<1> DEFINE f == Top(t)  o == f.todo[f.at].ops[f.op]
           below == Append(Front(stack[t]), Acted(f))
<1>0. /\ Running(t) /\ f.phase = "run"
      /\ f.at <= Len(f.todo) /\ f.op <= Len(f.todo[f.at].ops)
  BY Zenon DEF Perform
<1>1. /\ Sound(f) /\ f \in Frame /\ Running(t) /\ f.phase = "run"
      /\ f.at <= Len(f.todo) /\ f.op <= Len(f.todo[f.at].ops)
  BY <1>0, TopIsSound
<1>2. /\ f.at \in 1 .. Len(f.todo) /\ f.todo[f.at] \in Written
      /\ Deeper(f.todo, f.src) /\ f.op \in Nat /\ f.op >= 1
      /\ f.todo \in Seq(Runnable)
  BY <1>1, FrameFields DEF Sound
<1>3. o \in Op /\ f.op \in 1 .. Len(f.todo[f.at].ops)
  <2>1. f.todo[f.at].ops \in Seq(Op)
    BY <1>2 DEF Written
  <2>2. \A s \in Seq(Op), k \in Nat : k >= 1 /\ k <= Len(s) => k \in 1 .. Len(s) /\ s[k] \in Op
    OBVIOUS
  <2> QED
    BY <1>1, <1>2, <2>1, <2>2
<1>4. Sound(Acted(f)) /\ Acted(f).src = f.src
  <2>1. Acted(f) \in Frame
    BY <1>1, <1>2, FramesOfSteps
  <2>2. LET g == Acted(f) IN g.phase = "run" /\ g.src = f.src /\ g.todo = f.todo
    BY <1>1, FieldsOfSteps
  <2> QED
    BY <1>1, <2>1, <2>2 DEF Sound
<1>5. SetTop(t, [f EXCEPT !.op = @ + 1]) = SetTop(t, Acted(f))
  BY DEF Acted
<1>6. UNCHANGED <<behs, holder, inside>>
  <2>1. UNCHANGED <<memory, flash, web, core, asked>>
    BY Zenon DEF Perform
  <2> QED
    BY <2>1 DEF memory, core
<1>7. CASE o.do \in {"send", "none"}
  <2>1. stack' = SetTop(t, Acted(f)) /\ UNCHANGED value
    BY Zenon, <1>5, <1>7 DEF Perform
  <2> QED
    BY <1>1, <1>4, <1>6, <2>1, TopReplaced DEF core
<1>8. CASE o.do \notin {"send", "none"}
  <2> DEFINE x == Result(o, value[o.var])
  <2>1. o.var \in Var /\ x \in Value
    <3>1. o.var \in Var
      BY <1>3, <1>8, SetsVar
    <3>2. value[o.var] \in Value
      BY <3>1 DEF EngineInv
    <3> QED
      BY <1>3, <1>8, <3>1, <3>2, ResultIsValue
  <2>2. /\ value' = [value EXCEPT ![o.var] = x]
        /\ stack' = [SetTop(t, Acted(f)) EXCEPT ![t] = Change(@, o.var, x, value')]
    BY Zenon, <1>5, <1>8 DEF Perform
  <2>3. value' \in [Attr \cup Var -> Value]
    <3>1. value \in [Attr \cup Var -> Value] /\ o.var \in Attr \cup Var
      BY <2>1, Zenon DEF EngineInv
    <3>2. value' = [value EXCEPT ![o.var] = x]
      BY <2>2, Zenon
    <3> HIDE DEF x, o, f
    <3> QED
      BY <2>1, <3>1, <3>2, ChangedFunction
  <2>4. Nested(below) /\ Len(below) = Len(stack[t]) /\ Len(stack[t]) \in Nat
    <3>1. Nested(stack[t]) /\ stack[t] # <<>>
      BY <1>1 DEF EngineInv, Running
    <3>2. /\ Nested(Front(stack[t])) /\ Len(Front(stack[t])) = Len(stack[t]) - 1
          /\ Len(stack[t]) \in Nat /\ Front(stack[t]) \in Seq(Frame)
      BY <3>1, NestedEnds DEF Nested
    <3>3. Acted(f) \in Frame
      BY <1>4 DEF Sound
    <3>4. Nested(below)
      BY <1>4, <3>1, NestedTop DEF Top
    <3>5. Len(below) = Len(Front(stack[t])) + 1
      BY <3>2, <3>3, LongerSeq
    <3> QED
      BY <3>2, <3>4, <3>5
  <2>5. Rank[o.var] >= Len(below)
    <3>1. Rank[o.var] > Rank[f.src]
      <4>1. \A n \in 1 .. Len(f.todo[f.at].ops) :
              f.todo[f.at].ops[n].do \notin {"send", "none"} =>
                Rank[f.todo[f.at].ops[n].var] > Rank[f.src]
        BY <1>2, Zenon DEF Deeper
      <4> QED
        BY <1>3, <1>8, <4>1, Zenon
    <3>2. Rank[f.src] >= Len(stack[t]) - 1
      BY <1>1, NestedEnds DEF EngineInv, Running, Top
    <3>3. Rank[o.var] \in Int /\ Rank[f.src] \in Int
      <4>1. \A s \in Source : Rank[s] \in Int
        BY Shapes DEF Source
      <4>2. o.var \in Source /\ f.src \in Source
        BY <1>1, <2>1, FrameFields, Zenon DEF Source
      <4> QED
        BY <4>1, <4>2, Zenon
    <3> QED
      BY <2>4, <3>1, <3>2, <3>3
  <2>6. SetTop(t, Acted(f)) = [stack EXCEPT ![t] = below] /\ t \in DOMAIN stack
    BY DEF SetTop, EngineInv
  <2>7. stack' = [stack EXCEPT ![t] = Change(below, o.var, x, value')]
    <3> DEFINE h == SetTop(t, Acted(f))
    <3>1. stack' = [h EXCEPT ![t] = Change(h[t], o.var, x, value')]
      BY <2>2, Zenon
    <3> HIDE DEF f, o, x, below, h
    <3>2. h = [stack EXCEPT ![t] = below]
      BY <2>6 DEF h
    <3>3. h[t] = below
      BY <2>6, <3>2, ChangedTwice
    <3>4. stack' = [h EXCEPT ![t] = Change(below, o.var, x, value')]
      BY <3>1, <3>3
    <3> QED
      BY <2>6, <3>2, <3>4, ChangedTwice
  <2> HIDE DEF x, below
  <2>8. Nested(Change(below, o.var, x, value'))
    BY <2>1, <2>4, <2>5, ChangeNests DEF EngineInv
  <2> DEFINE s == Change(below, o.var, x, value')
  <2>9. Nested(s) /\ stack' = [stack EXCEPT ![t] = s]
    BY <2>7, <2>8
  <2> HIDE DEF s, f, o
  <2> QED
    BY <1>1, <1>6, <2>3, <2>9, StackReplaced
<1> QED
  BY <1>7, <1>8

LEMMA RunEndSteps ==
  ASSUME EngineInv, NEW t \in Task, RunEnd(t)
  PROVE  EngineInv'
<1> DEFINE f == Top(t)
<1>1. Sound(f) /\ f \in Frame /\ Running(t) /\ f.phase = "run"
  BY TopIsSound DEF RunEnd
<1>2. CASE f.at = Len(f.todo)
  BY <1>1, <1>2, TopPopped DEF RunEnd, memory
<1>3. CASE f.at # Len(f.todo)
  <2>1. NextRule(f) \in Frame
    BY <1>1, FramesOfSteps, FrameFields
  <2>2. LET g == NextRule(f) IN g.phase = "run" /\ g.src = f.src /\ g.todo = f.todo
    BY <1>1, FieldsOfSteps
  <2>3. Sound(NextRule(f))
    BY <1>1, <2>1, <2>2 DEF Sound
  <2>4. stack' = SetTop(t, NextRule(f))
    BY <1>3 DEF RunEnd, NextRule
  <2> QED
    BY <1>1, <2>2, <2>3, <2>4, TopReplaced DEF RunEnd, memory
<1> QED
  BY <1>2, <1>3

LEMMA EngineSteps ==
  ASSUME EngineInv, rules \in Seq(Text), NEW t \in Task, Engine(t)
  PROVE  EngineInv'
BY WalkSteps, WalkEndSteps, ExchangeSteps, SortEndSteps, PerformSteps, RunEndSteps DEF Engine

(* Reports, requests that enter the engine, and their ends.                  *)
LEMMA ReportSteps ==
  ASSUME EngineInv, NEW a \in Attr, NEW x \in Value, Report(a, x)
  PROVE  EngineInv'
<1> DEFINE s == Change(<<>>, a, x, value')
<1>1. Zb \in Task /\ Http \in Task
  BY DEF Task
<1>2. /\ value' = [value EXCEPT ![a] = x] /\ inside' = inside \cup {Zb}
      /\ holder' \in {Zb, holder} /\ stack[Zb] = <<>>
      /\ stack' = [stack EXCEPT ![Zb] = Change(@, a, x, value')] /\ UNCHANGED behs
  BY DEF Report, Enter, EngineInv, memory
<1>3. stack' = [stack EXCEPT ![Zb] = s]
  BY <1>2
<1>4. Nested(<<>>) /\ Len(<<>>) = 0
  BY DEF Nested
<1>5. Rank[a] = 0
  BY Layered
<1>6. Nested(s)
  BY <1>4, <1>5, ChangeNests DEF EngineInv
<1> HIDE DEF s
<1>7. s \in Seq(Frame)
  BY <1>6 DEF Nested
<1>8. value' \in [Attr \cup Var -> Value]
  BY <1>2 DEF EngineInv
<1> QED
  BY <1>1, <1>2, <1>3, <1>6, <1>7, <1>8 DEF EngineInv

LEMMA RunSteps ==
  ASSUME EngineInv, rules \in Seq(Text), NEW id \in Rule, Run(id)
  PROVE  EngineInv'
<1> DEFINE d == rules[Place(id)].def  s == <<RunFrame(Manual, d)>>
<1>1. Place(id) \in DOMAIN rules
  BY DEF Run, InMemory, Place
<1>2. rules[Place(id)] \in Text
  BY <1>1
<1>3. d \in Texts
  BY <1>2 DEF Text
<1>4. Manual \in Source /\ Rank[Manual] = 0
  BY Layered DEF Source
<1>5. d.cause \in Source /\ d \in Runnable
  BY <1>3, Constants DEF Written, Source, Runnable
<1>6. \A n \in 1 .. Len(d.ops) :
        d.ops[n].do \notin {"send", "none"} => Rank[d.ops[n].var] > Rank[Manual]
  <2>1. Rank[d.cause] \in 0 .. MaxRank /\ MaxRank \in Nat
    BY <1>5, Shapes
  <2>2. ASSUME NEW n \in 1 .. Len(d.ops), d.ops[n].do \notin {"send", "none"}
        PROVE  Rank[d.ops[n].var] > Rank[Manual]
    <3>1. d.ops \in Seq(Op)
      BY <1>3, Constants
    <3>2. d.ops[n] \in Op
      BY <3>1
    <3>3. d.ops[n].var \in Var
      BY <2>2, <3>2, SetsVar
    <3> QED
      BY <1>4, <3>3, Layered
  <2> QED
    BY <2>2
<1>7. stack' = [stack EXCEPT ![Http] = s] /\ UNCHANGED <<value, behs, holder, inside>>
  BY DEF Run, memory, core
<1> HIDE DEF d
<1>8. Sound(RunFrame(Manual, d)) /\ RunFrame(Manual, d).src = Manual
  BY <1>4, <1>5, <1>6, RunBegins
<1>9. s \in Seq(Frame) /\ Len(s) = 1 /\ s[1] = RunFrame(Manual, d)
  BY <1>8 DEF Sound
<1> HIDE DEF s
<1>10. Nested(s)
  BY <1>4, <1>8, <1>9 DEF Nested
<1>11. Http \in Task /\ Http # Zb
  BY Shapes DEF Task
<1> QED
  BY <1>7, <1>9, <1>10, <1>11 DEF EngineInv

LEMMA LockSteps ==
  ASSUME EngineInv, ReportEnd \/ Base \/ BaseEnd \/ RunDone
  PROVE  EngineInv'
<1>1. Zb \in Task /\ Http \in Task /\ Http # Zb
  BY Shapes DEF Task
<1>2. CASE ReportEnd
  BY <1>1, <1>2 DEF ReportEnd, Leave, Running, EngineInv, memory
<1>3. CASE Base
  BY <1>1, <1>3 DEF Base, Enter, EngineInv, memory
<1>4. CASE BaseEnd
  BY <1>1, <1>4 DEF BaseEnd, Leave, EngineInv, memory
<1>5. CASE RunDone
  BY <1>5 DEF RunDone, EngineInv, memory, core
<1> QED
  BY <1>2, <1>3, <1>4, <1>5

LEMMA CrashResets ==
  ASSUME EngineInv, NEW cut \in BOOLEAN, NEW old \in [Attr \cup Var -> Value],
         NEW on \in SUBSET Behaviour, Crash(cut, old, on)
  PROVE  EngineInv'
<1>1. /\ stack' = [t \in Task |-> <<>>] /\ value' = old /\ behs' = on
      /\ holder' = Nobody /\ inside' = {}
  BY DEF Crash
<1>2. Nested(<<>>) /\ <<>> \in Seq(Frame)
  BY DEF Nested
<1>3. Zb \in Task
  BY DEF Task
<1> QED
  BY <1>1, <1>2, <1>3 DEF EngineInv

LEMMA EngineStarts == Init => EngineInv
<1>1. Nested(<<>>) /\ <<>> \in Seq(Frame)
  BY DEF Nested
<1>2. 0 \in Value /\ Zb \in Task
  BY Shapes DEF Value, Task
<1> QED
  BY <1>1, <1>2 DEF Init, EngineInv

LEMMA EngineKept ==
  ASSUME EngineInv, UNCHANGED <<stack, value, behs, core>>
  PROVE  EngineInv'
BY DEF EngineInv, core

-----------------------------------------------------------------------------
(* The store: rules in memory and in flash.  A request in its middle knows   *)
(* what it has done; a load has met the entries before "boot" only.          *)

StoreTypes ==
  /\ rules \in Seq(Text) /\ Len(rules) <= MaxRules /\ boot \in Nat
  /\ file \in [Rule -> Text \cup {NoFile, Torn}]
  /\ index \in Seq(Entry) \cup {Torn}
  /\ web \in Request
  /\ asked \in [Rule -> Defs \cup {Gone, Nothing}]

FilesOwn == \A id \in Rule : file[id] \in Text => file[id].def.id = id

Loading ==
  boot > 0 /\ index # Torn =>
    \A k \in 1 .. Len(rules) : \E n \in 1 .. Len(index) :
      n < boot /\ index[n].id = rules[k].def.id

Midway ==
  /\ web.op # "idle" => boot = 0
  /\ web.op \in {"post", "delete", "toggle"} => web.id \in Rule
  /\ web.op = "post" => /\ InMemory(web.id) /\ rules[Place(web.id)].def \in Defs
                        /\ asked[web.id] = Nothing
  /\ web.op = "delete" => /\ ~InMemory(web.id) /\ asked[web.id] = Nothing
                          /\ web.step = "index" => file[web.id] = NoFile
  /\ web.op = "toggle" => /\ Indexed(web.id)
                          /\ web.step = "file" => file[web.id] \in Text

StoreInv ==
  StoreTypes /\ OnePerId /\ FilesOwn /\ Loading /\ Midway /\ DeletedStaysGone

LEMMA NoOneIsRequest == NoOne \in Request /\ NoOne.op = "idle"
BY DEF NoOne, Request

(* Removing an item keeps the others and their number apart.                 *)
Rest(u, s, k) ==
  /\ Len(u) = Len(s) - 1
  /\ \A n \in 1 .. Len(u) : \E m \in 1 .. Len(s) : m # k /\ u[n] = s[m]
  /\ \A a, b \in 1 .. Len(u) : a # b =>
       \E c, d \in 1 .. Len(s) : c # d /\ u[a] = s[c] /\ u[b] = s[d]

LEMMA RestOfSeq ==
  ASSUME NEW S, NEW s \in Seq(S), NEW k \in 1 .. Len(s)
  PROVE  RemoveAt(s, k) \in Seq(S) /\ Rest(RemoveAt(s, k), s, k)
<1> DEFINE u == RemoveAt(s, k)
<1>1. /\ u \in Seq(S) /\ Len(u) = Len(s) - 1 /\ Len(s) \in Nat
      /\ \A n \in 1 .. Len(s) - 1 : u[n] = IF n < k THEN s[n] ELSE s[n + 1]
  BY ShorterSeq
<1> HIDE DEF u
<1>2. ASSUME NEW n \in 1 .. Len(s) - 1
      PROVE  \/ n < k /\ n \in 1 .. Len(s) /\ u[n] = s[n]
             \/ n >= k /\ n + 1 \in 1 .. Len(s) /\ u[n] = s[n + 1]
  <2>1. CASE n < k
    BY <1>1, <2>1
  <2>2. CASE ~(n < k)
    BY <1>1, <2>2
  <2> QED
    BY <2>1, <2>2
<1>3. ASSUME NEW n \in 1 .. Len(s) - 1
      PROVE  \E m \in 1 .. Len(s) : m # k /\ u[n] = s[m]
  <2>1. CASE n < k /\ n \in 1 .. Len(s) /\ u[n] = s[n]
    BY <2>1
  <2>2. CASE n >= k /\ n + 1 \in 1 .. Len(s) /\ u[n] = s[n + 1]
    <3>1. n + 1 # k
      BY <2>2
    <3> QED
      BY <2>2, <3>1
  <2> QED
    BY <1>2, <2>1, <2>2
<1>4. ASSUME NEW a \in 1 .. Len(s) - 1, NEW b \in 1 .. Len(s) - 1, a # b
      PROVE  \E c, d \in 1 .. Len(s) : c # d /\ u[a] = s[c] /\ u[b] = s[d]
  <2>1. PICK c \in 1 .. Len(s) : u[a] = s[c] /\ ((a < k /\ c = a) \/ (a >= k /\ c = a + 1))
    BY <1>2
  <2>2. PICK d \in 1 .. Len(s) : u[b] = s[d] /\ ((b < k /\ d = b) \/ (b >= k /\ d = b + 1))
    BY <1>2
  <2>3. c # d
    BY <1>4, <2>1, <2>2
  <2> QED
    BY <2>1, <2>2, <2>3
<1>5. Rest(u, s, k)
  BY <1>1, <1>3, <1>4 DEF Rest
<1> QED
  BY <1>1, <1>5 DEF u

LEMMA WithoutRule ==
  ASSUME rules \in Seq(Text), OnePerId, NEW id \in Rule, NEW u, u = Without(id)
  PROVE  /\ u \in Seq(Text) /\ Len(u) \in Nat /\ Len(u) <= Len(rules)
         /\ \A n \in 1 .. Len(u) : u[n].def.id # id
         /\ \A n \in 1 .. Len(u) : \E m \in 1 .. Len(rules) : u[n] = rules[m]
         /\ \A a, b \in 1 .. Len(u) : u[a].def.id = u[b].def.id => a = b
<1>1. DOMAIN rules = 1 .. Len(rules) /\ Len(rules) \in Nat
  OBVIOUS
<1>2. \A a, b \in 1 .. Len(rules) : rules[a].def.id = rules[b].def.id => a = b
  BY <1>1 DEF OnePerId
<1>3. CASE InMemory(id)
  <2>1. /\ Place(id) \in 1 .. Len(rules) /\ rules[Place(id)].def.id = id
        /\ u = RemoveAt(rules, Place(id))
    BY <1>1, <1>3 DEF InMemory, Place, Without
  <2>2. u \in Seq(Text) /\ Rest(u, rules, Place(id))
    BY <2>1, RestOfSeq
  <2>3. \A n \in 1 .. Len(u) : u[n].def.id # id
    BY <1>2, <2>1, <2>2 DEF Rest
  <2>4. ASSUME NEW a \in 1 .. Len(u), NEW b \in 1 .. Len(u), a # b
        PROVE  u[a].def.id # u[b].def.id
    <3>1. PICK c \in 1 .. Len(rules), d \in 1 .. Len(rules) :
            c # d /\ u[a] = rules[c] /\ u[b] = rules[d]
      BY <2>2, <2>4 DEF Rest
    <3> QED
      BY <1>2, <3>1
  <2> QED
    <3>1. Len(u) \in Nat /\ Len(u) <= Len(rules)
      BY <1>1, <2>2 DEF Rest
    <3>2. \A n \in 1 .. Len(u) : \E m \in 1 .. Len(rules) : u[n] = rules[m]
      BY Zenon, <2>2 DEF Rest
    <3>3. \A a, b \in 1 .. Len(u) : u[a].def.id = u[b].def.id => a = b
      BY <2>4
    <3> QED
      BY <2>2, <2>3, <3>1, <3>2, <3>3
<1>4. CASE ~InMemory(id)
  BY <1>1, <1>2, <1>4 DEF InMemory, Without
<1> QED
  BY <1>3, <1>4

LEMMA UnlistedEntry ==
  ASSUME index \in Seq(Entry) \cup {Torn}, OnePerId, NEW id \in Rule, NEW u, u = Unlisted(id)
  PROVE  /\ u \in Seq(Entry) /\ Len(u) \in Nat
         /\ \A n \in 1 .. Len(u) : u[n].id # id
         /\ \A n \in 1 .. Len(u) : index # Torn /\ \E m \in DOMAIN index : u[n] = index[m]
         /\ \A a, b \in 1 .. Len(u) : u[a].id = u[b].id => a = b
<1>1. CASE index = Torn
  BY <1>1 DEF Unlisted, Indexed
<1>2. CASE index # Torn
  <2>1. index \in Seq(Entry) /\ DOMAIN index = 1 .. Len(index) /\ Len(index) \in Nat
    BY <1>2
  <2>2. \A a, b \in 1 .. Len(index) : index[a].id = index[b].id => a = b
    BY <1>2, <2>1 DEF OnePerId
  <2>3. CASE Indexed(id)
    <3>1. /\ Position(id) \in 1 .. Len(index) /\ index[Position(id)].id = id
          /\ u = RemoveAt(index, Position(id))
      BY <2>1, <2>3 DEF Indexed, Position, Unlisted
    <3>2. u \in Seq(Entry) /\ Rest(u, index, Position(id))
      BY <2>1, <3>1, RestOfSeq
    <3>3. \A n \in 1 .. Len(u) : u[n].id # id
      BY <2>2, <3>1, <3>2 DEF Rest
    <3>4. \A a, b \in 1 .. Len(u) : u[a].id = u[b].id => a = b
      BY <2>2, <3>2 DEF Rest
    <3>5. Len(u) \in Nat
      BY <3>2
    <3>6. \A n \in 1 .. Len(u) : \E m \in DOMAIN index : u[n] = index[m]
      BY Zenon, <2>1, <3>2 DEF Rest
    <3> QED
      BY <1>2, <3>2, <3>3, <3>4, <3>5, <3>6
  <2>4. CASE ~Indexed(id)
    BY <1>2, <2>1, <2>2, <2>4 DEF Indexed, Unlisted
  <2> QED
    BY <2>3, <2>4
<1> QED
  BY <1>1, <1>2

(* What an action of the engine, or of a request that stores nothing, keeps. *)
LEMMA StoreKept ==
  ASSUME StoreInv, UNCHANGED <<rules, boot, file, index, asked>>,
         \/ UNCHANGED web
         \/ /\ web' \in Request /\ web'.op \in {"idle", "run", "base"}
            /\ web'.op # "idle" => boot = 0
  PROVE  StoreInv'
<1>1. StoreTypes' /\ OnePerId' /\ FilesOwn' /\ Loading' /\ DeletedStaysGone'
  BY DEF StoreInv, StoreTypes, OnePerId, FilesOwn, Loading, DeletedStaysGone, InMemory, Indexed
<1>2. Midway'
  <2>1. CASE UNCHANGED web
    BY <2>1 DEF StoreInv, Midway, InMemory, Indexed, Place
  <2>2. CASE web'.op \in {"idle", "run", "base"} /\ (web'.op # "idle" => boot = 0)
    BY <2>2 DEF Midway
  <2> QED
    BY <2>1, <2>2
<1> QED
  BY <1>1, <1>2 DEF StoreInv

LEMMA StoreUntouched ==
  ASSUME StoreInv,
         \/ \E t \in Task : Engine(t)
         \/ \E a \in Attr, x \in Value : Report(a, x)
         \/ \E id \in Rule : Run(id)
         \/ ReportEnd \/ Base \/ BaseEnd \/ RunDone
  PROVE  StoreInv'
<1>1. CASE \E t \in Task : Engine(t)
  <2>1. UNCHANGED <<memory, flash, web, core, asked>>
    BY <1>1, Zenon DEF Engine, Walk, WalkEnd, Exchange, SortEnd, Perform, RunEnd
  <2> QED
    BY <2>1, StoreKept DEF memory, flash
<1>2. CASE \E a \in Attr, x \in Value : Report(a, x)
  BY <1>2, StoreKept DEF Report, memory, flash
<1>3. CASE \E id \in Rule : Run(id)
  <2>1. PICK id \in Rule : Run(id)
    BY <1>3
  <2>2. web' = [op |-> "run", id |-> id, on |-> FALSE, step |-> "none"] /\ boot = 0
    BY <2>1 DEF Run, Asks
  <2>3. web' \in Request /\ web'.op = "run"
    BY <2>2 DEF Request
  <2>4. UNCHANGED <<rules, boot, file, index, asked>>
    BY <2>1 DEF Run, memory, flash
  <2> QED
    BY <2>2, <2>3, <2>4, StoreKept
<1>4. CASE ReportEnd
  BY <1>4, StoreKept DEF ReportEnd, memory, flash
<1>5. CASE Base
  <2>1. web' = [op |-> "base", id |-> NoRule, on |-> FALSE, step |-> "none"] /\ boot = 0
    BY <1>5 DEF Base, Asks
  <2>2. web' \in Request /\ web'.op = "base"
    BY <2>1 DEF Request
  <2>3. UNCHANGED <<rules, boot, file, index, asked>>
    BY <1>5 DEF Base, memory, flash
  <2> QED
    BY <2>1, <2>2, <2>3, StoreKept
<1>6. CASE BaseEnd
  BY <1>6, NoOneIsRequest, StoreKept DEF BaseEnd, memory, flash
<1>7. CASE RunDone
  BY <1>7, NoOneIsRequest, StoreKept DEF RunDone, memory, flash
<1> QED
  BY <1>1, <1>2, <1>3, <1>4, <1>5, <1>6, <1>7

(* A rule or an entry added behind those of other ids.                       *)
LEMMA RuleAdded ==
  ASSUME NEW u \in Seq(Text), NEW e \in Text, NEW w, w = Append(u, e),
         \A n \in 1 .. Len(u) : u[n].def.id # e.def.id,
         \A a, b \in 1 .. Len(u) : u[a].def.id = u[b].def.id => a = b
  PROVE  /\ w \in Seq(Text) /\ Len(w) = Len(u) + 1 /\ DOMAIN w = 1 .. Len(u) + 1
         /\ Len(u) \in Nat
         /\ w[Len(u) + 1] = e /\ \A n \in 1 .. Len(u) : w[n] = u[n]
         /\ \A n \in DOMAIN w : w[n].def.id = e.def.id => w[n] = e
         /\ \A a, b \in DOMAIN w : w[a].def.id = w[b].def.id => a = b
<1>1. /\ w \in Seq(Text) /\ Len(w) = Len(u) + 1 /\ DOMAIN w = 1 .. Len(u) + 1
      /\ Len(u) \in Nat
      /\ w[Len(u) + 1] = e /\ \A n \in 1 .. Len(u) : w[n] = u[n]
  BY LongerSeq
<1>2. \A n \in DOMAIN w : n \in 1 .. Len(u) \/ n = Len(u) + 1
  BY <1>1
<1>3. \A n \in DOMAIN w : w[n].def.id = e.def.id => w[n] = e
  BY <1>1, <1>2
<1>4. ASSUME NEW a \in DOMAIN w, NEW b \in DOMAIN w, w[a].def.id = w[b].def.id
      PROVE  a = b
  BY <1>1, <1>2, <1>4
<1> QED
  BY <1>1, <1>3, <1>4

LEMMA EntryAdded ==
  ASSUME NEW u \in Seq(Entry), NEW e \in Entry, NEW w, w = Append(u, e),
         \A n \in 1 .. Len(u) : u[n].id # e.id,
         \A a, b \in 1 .. Len(u) : u[a].id = u[b].id => a = b
  PROVE  /\ w \in Seq(Entry) /\ DOMAIN w = 1 .. Len(u) + 1 /\ Len(u) \in Nat
         /\ w[Len(u) + 1] = e /\ \A n \in 1 .. Len(u) : w[n] = u[n]
         /\ \A a, b \in DOMAIN w : w[a].id = w[b].id => a = b
<1>1. /\ w \in Seq(Entry) /\ Len(w) = Len(u) + 1 /\ DOMAIN w = 1 .. Len(u) + 1
      /\ Len(u) \in Nat
      /\ w[Len(u) + 1] = e /\ \A n \in 1 .. Len(u) : w[n] = u[n]
  BY LongerSeq
<1>2. \A n \in DOMAIN w : n \in 1 .. Len(u) \/ n = Len(u) + 1
  BY <1>1
<1>3. ASSUME NEW a \in DOMAIN w, NEW b \in DOMAIN w, w[a].id = w[b].id
      PROVE  a = b
  BY <1>1, <1>2, <1>3
<1> QED
  BY <1>1, <1>3

LEMMA PostSteps ==
  ASSUME StoreInv, NEW d \in Defs, NEW on \in BOOLEAN, Post(d, on)
  PROVE  StoreInv'
<1> DEFINE u == Without(d.id)  e == [def |-> d, on |-> on]
<1>1. /\ boot = 0 /\ Len(u) < MaxRules /\ rules' = Append(u, e)
      /\ web' = [op |-> "post", id |-> d.id, on |-> on, step |-> "file"]
      /\ asked' = [asked EXCEPT ![d.id] = Nothing]
      /\ UNCHANGED <<boot, file, index>>
  BY DEF Post, Asks, flash
<1>2. d.id \in Rule /\ e \in Text /\ e.def = d /\ MaxRules \in Nat
  BY Shapes DEF Text, Texts
<1>3. /\ u \in Seq(Text) /\ Len(u) \in Nat
      /\ \A n \in 1 .. Len(u) : u[n].def.id # d.id
      /\ \A n \in 1 .. Len(u) : \E m \in 1 .. Len(rules) : u[n] = rules[m]
      /\ \A a, b \in 1 .. Len(u) : u[a].def.id = u[b].def.id => a = b
  BY <1>2, WithoutRule DEF StoreInv, StoreTypes
<1> HIDE DEF u, e
<1>4. /\ rules' \in Seq(Text) /\ Len(rules') = Len(u) + 1 /\ DOMAIN rules' = 1 .. Len(u) + 1
      /\ rules'[Len(u) + 1] = e /\ \A n \in 1 .. Len(u) : rules'[n] = u[n]
      /\ \A n \in DOMAIN rules' : rules'[n].def.id = e.def.id => rules'[n] = e
      /\ \A a, b \in DOMAIN rules' : rules'[a].def.id = rules'[b].def.id => a = b
  BY <1>1, <1>2, <1>3, RuleAdded
<1>5. web' \in Request /\ web'.op = "post" /\ web'.id = d.id
  BY <1>1, <1>2 DEF Request
<1>6. asked' \in [Rule -> Defs \cup {Gone, Nothing}] /\ asked'[d.id] = Nothing
  BY <1>1, <1>2 DEF StoreInv, StoreTypes
<1>7. StoreTypes'
  BY <1>1, <1>2, <1>3, <1>4, <1>5, <1>6 DEF StoreInv, StoreTypes
<1>8. OnePerId' /\ FilesOwn' /\ Loading'
  BY <1>1, <1>4 DEF StoreInv, OnePerId, FilesOwn, Loading
<1>9. Midway'
  <2>1. \E k \in DOMAIN rules' : rules'[k].def.id = d.id
    BY <1>2, <1>3, <1>4
  <2>2. (CHOOSE k \in DOMAIN rules' : rules'[k].def.id = d.id) \in DOMAIN rules'
        /\ rules'[CHOOSE k \in DOMAIN rules' : rules'[k].def.id = d.id].def.id = d.id
    BY <2>1
  <2>3. rules'[CHOOSE k \in DOMAIN rules' : rules'[k].def.id = d.id].def \in Defs
    BY <1>2, <1>4, <2>2
  <2> QED
    BY <1>1, <1>2, <1>5, <1>6, <2>1, <2>3 DEF Midway, InMemory, Place
<1>10. DeletedStaysGone'
  <2>1. ASSUME NEW id \in Rule, asked'[id] = Gone
        PROVE  /\ ~\E k \in DOMAIN rules' : rules'[k].def.id = id
               /\ ~(Indexed(id) /\ file[id] \in Text)
    <3>1. id # d.id /\ asked[id] = Gone
      BY <1>1, <1>2, <2>1, Shapes DEF StoreInv, StoreTypes
    <3>2. ~InMemory(id) /\ ~(Indexed(id) /\ file[id] \in Text)
      BY <3>1 DEF StoreInv, DeletedStaysGone
    <3>3. \A m \in 1 .. Len(rules) : rules[m].def.id # id
      BY <3>2 DEF InMemory, StoreInv, StoreTypes
    <3> QED
      BY <1>2, <1>3, <1>4, <3>1, <3>2, <3>3
  <2> QED
    BY <1>1, <2>1 DEF DeletedStaysGone, InMemory, Indexed
<1> QED
  BY <1>7, <1>8, <1>9, <1>10 DEF StoreInv

LEMMA PostFileSteps ==
  ASSUME StoreInv, PostFile
  PROVE  StoreInv'
<1> DEFINE id == web.id  r == rules[Place(id)]
<1>1. /\ web.op = "post" /\ web' = [web EXCEPT !.step = "index"]
      /\ file' = [file EXCEPT ![id] = r]
      /\ UNCHANGED <<rules, boot, index, asked>>
  BY DEF PostFile, At, Goes, memory
<1>2. /\ id \in Rule /\ InMemory(id) /\ r.def \in Defs /\ asked[id] = Nothing /\ boot = 0
  BY <1>1 DEF StoreInv, Midway
<1>3. Place(id) \in DOMAIN rules /\ r.def.id = id
  BY <1>2 DEF InMemory, Place
<1>4. r \in Text
  BY <1>3 DEF StoreInv, StoreTypes
<1>5. /\ web' \in Request /\ web'.op = "post" /\ web'.id = id
  BY <1>1 DEF StoreInv, StoreTypes, Request
<1>6. StoreTypes'
  BY <1>1, <1>2, <1>4, <1>5 DEF StoreInv, StoreTypes
<1>7. OnePerId' /\ Loading' /\ FilesOwn'
  BY <1>1, <1>2, <1>3 DEF StoreInv, StoreTypes, OnePerId, Loading, FilesOwn
<1>8. Midway'
  BY <1>1, <1>2, <1>5 DEF Midway, InMemory, Place
<1>9. DeletedStaysGone'
  BY <1>1, <1>2, Shapes DEF StoreInv, StoreTypes, DeletedStaysGone, InMemory, Indexed
<1> QED
  BY <1>6, <1>7, <1>8, <1>9 DEF StoreInv

LEMMA PostIndexSteps ==
  ASSUME StoreInv, PostIndex
  PROVE  StoreInv'
<1> DEFINE id == web.id  d == rules[Place(id)].def
           u == Unlisted(id)  e == [id |-> id, on |-> web.on]
<1>1. /\ web.op = "post" /\ web' = NoOne /\ index' = Append(u, e)
      /\ asked' = [asked EXCEPT ![id] = d]
      /\ UNCHANGED <<rules, boot, file>>
  BY DEF PostIndex, At, memory
<1>2. id \in Rule /\ d \in Defs /\ boot = 0
  BY <1>1 DEF StoreInv, Midway
<1>3. e \in Entry /\ e.id = id
  BY <1>2 DEF StoreInv, StoreTypes, Request, Entry
<1>4. /\ u \in Seq(Entry) /\ Len(u) \in Nat
      /\ \A n \in 1 .. Len(u) : u[n].id # id
      /\ \A n \in 1 .. Len(u) : index # Torn /\ \E m \in DOMAIN index : u[n] = index[m]
      /\ \A a, b \in 1 .. Len(u) : u[a].id = u[b].id => a = b
  BY <1>2, UnlistedEntry DEF StoreInv, StoreTypes
<1> HIDE DEF u, e, d
<1>5. /\ index' \in Seq(Entry) /\ DOMAIN index' = 1 .. Len(u) + 1
      /\ index'[Len(u) + 1] = e /\ \A n \in 1 .. Len(u) : index'[n] = u[n]
      /\ \A a, b \in DOMAIN index' : index'[a].id = index'[b].id => a = b
  BY <1>1, <1>3, <1>4, EntryAdded
<1>6. StoreTypes'
  BY <1>1, <1>2, <1>5, NoOneIsRequest DEF StoreInv, StoreTypes
<1>7. OnePerId' /\ FilesOwn' /\ Loading' /\ Midway'
  BY <1>1, <1>2, <1>5, NoOneIsRequest DEF StoreInv, OnePerId, FilesOwn, Loading, Midway
<1>8. DeletedStaysGone'
  <2>1. ASSUME NEW x \in Rule, asked'[x] = Gone
        PROVE  ~InMemory(x) /\ ~((\E k \in DOMAIN index' : index'[k].id = x) /\ file[x] \in Text)
    <3>1. x # id /\ asked[x] = Gone
      BY <1>1, <1>2, <2>1, Shapes DEF StoreInv, StoreTypes
    <3>2. ~InMemory(x) /\ ~(Indexed(x) /\ file[x] \in Text)
      BY <3>1 DEF StoreInv, DeletedStaysGone
    <3>3. (\E k \in DOMAIN index' : index'[k].id = x) => Indexed(x)
      BY <1>3, <1>4, <1>5, <3>1 DEF Indexed
    <3> QED
      BY <3>2, <3>3
  <2> QED
    BY <1>1, <2>1 DEF DeletedStaysGone, InMemory, Indexed
<1> QED
  BY <1>6, <1>7, <1>8 DEF StoreInv

LEMMA DeleteSteps ==
  ASSUME StoreInv, NEW id \in Rule, Delete(id)
  PROVE  StoreInv'
<1> DEFINE u == Without(id)
<1>1. /\ boot = 0 /\ rules' = u
      /\ web' = [op |-> "delete", id |-> id, on |-> FALSE, step |-> "file"]
      /\ asked' = [asked EXCEPT ![id] = Nothing]
      /\ UNCHANGED <<boot, file, index>>
  BY DEF Delete, Asks, flash
<1>2. /\ u \in Seq(Text) /\ Len(u) \in Nat /\ Len(u) <= Len(rules)
      /\ \A n \in 1 .. Len(u) : u[n].def.id # id
      /\ \A n \in 1 .. Len(u) : \E m \in 1 .. Len(rules) : u[n] = rules[m]
      /\ \A a, b \in 1 .. Len(u) : u[a].def.id = u[b].def.id => a = b
  BY WithoutRule DEF StoreInv, StoreTypes
<1> HIDE DEF u
<1>3. DOMAIN u = 1 .. Len(u) /\ DOMAIN rules = 1 .. Len(rules)
  BY <1>2 DEF StoreInv, StoreTypes
<1>4. web' \in Request /\ web'.op = "delete" /\ web'.id = id /\ web'.step = "file"
  BY <1>1 DEF Request
<1>5. StoreTypes'
  <2>1. Len(u) <= MaxRules
    BY <1>2, Shapes DEF StoreInv, StoreTypes
  <2> QED
    BY <1>1, <1>2, <1>4, <2>1 DEF StoreInv, StoreTypes
<1>6. OnePerId' /\ FilesOwn' /\ Loading'
  BY <1>1, <1>2, <1>3 DEF StoreInv, OnePerId, FilesOwn, Loading
<1>7. Midway'
  BY <1>1, <1>2, <1>3, <1>4 DEF StoreInv, StoreTypes, Midway, InMemory
<1>8. DeletedStaysGone'
  <2>1. ASSUME NEW x \in Rule, asked'[x] = Gone
        PROVE  (~\E k \in DOMAIN u : u[k].def.id = x) /\ ~(Indexed(x) /\ file[x] \in Text)
    <3>1. asked[x] = Gone
      BY <1>1, <2>1, Shapes DEF StoreInv, StoreTypes
    <3>2. ~InMemory(x) /\ ~(Indexed(x) /\ file[x] \in Text)
      BY <3>1 DEF StoreInv, DeletedStaysGone
    <3> QED
      BY <1>2, <1>3, <3>2 DEF InMemory
  <2> QED
    BY <1>1, <2>1 DEF DeletedStaysGone, InMemory, Indexed
<1> QED
  BY <1>5, <1>6, <1>7, <1>8 DEF StoreInv

LEMMA DeleteFileSteps ==
  ASSUME StoreInv, DeleteFile
  PROVE  StoreInv'
<1>1. /\ web.op = "delete" /\ web' = [web EXCEPT !.step = "index"]
      /\ file' = [file EXCEPT ![web.id] = NoFile]
      /\ UNCHANGED <<rules, boot, index, asked>>
  BY DEF DeleteFile, At, Goes, memory
<1>2. /\ web.id \in Rule /\ ~InMemory(web.id) /\ asked[web.id] = Nothing /\ boot = 0
  BY <1>1 DEF StoreInv, Midway
<1>3. web' \in Request /\ web'.op = "delete" /\ web'.id = web.id
  BY <1>1 DEF StoreInv, StoreTypes, Request
<1>4. StoreTypes'
  BY <1>1, <1>3 DEF StoreInv, StoreTypes
<1>5. OnePerId' /\ FilesOwn' /\ Loading'
  BY <1>1, <1>2, Shapes DEF StoreInv, StoreTypes, OnePerId, FilesOwn, Loading
<1>6. Midway'
  BY <1>1, <1>2, <1>3 DEF StoreInv, StoreTypes, Midway, InMemory
<1>7. DeletedStaysGone'
  BY <1>1, Shapes DEF StoreInv, StoreTypes, DeletedStaysGone, InMemory, Indexed
<1> QED
  BY <1>4, <1>5, <1>6, <1>7 DEF StoreInv

LEMMA DeleteIndexSteps ==
  ASSUME StoreInv, DeleteIndex
  PROVE  StoreInv'
<1> DEFINE u == Unlisted(web.id)
<1>1. /\ web.op = "delete" /\ web.step = "index" /\ web' = NoOne
      /\ index' = IF index = Torn THEN Torn ELSE u
      /\ asked' = [asked EXCEPT ![web.id] = Gone]
      /\ UNCHANGED <<rules, boot, file>>
  BY DEF DeleteIndex, At, memory
<1>2. /\ web.id \in Rule /\ ~InMemory(web.id) /\ file[web.id] = NoFile /\ boot = 0
  BY <1>1 DEF StoreInv, Midway
<1>3. /\ u \in Seq(Entry) /\ Len(u) \in Nat
      /\ \A n \in 1 .. Len(u) : index # Torn /\ \E m \in DOMAIN index : u[n] = index[m]
      /\ \A a, b \in 1 .. Len(u) : u[a].id = u[b].id => a = b
  BY <1>2, UnlistedEntry DEF StoreInv, StoreTypes
<1> HIDE DEF u
<1>4. DOMAIN u = 1 .. Len(u)
  BY <1>3
<1>5. StoreTypes'
  BY <1>1, <1>3, NoOneIsRequest DEF StoreInv, StoreTypes
<1>6. OnePerId' /\ FilesOwn' /\ Loading' /\ Midway'
  BY <1>1, <1>2, <1>3, <1>4, NoOneIsRequest DEF StoreInv, OnePerId, FilesOwn, Loading, Midway
<1>7. DeletedStaysGone'
  <2>1. ASSUME NEW x \in Rule, asked'[x] = Gone
        PROVE  /\ ~InMemory(x)
               /\ ~(index' # Torn /\ (\E k \in DOMAIN index' : index'[k].id = x) /\ file[x] \in Text)
    <3>1. CASE x = web.id
      BY <1>2, <3>1, Shapes
    <3>2. CASE x # web.id
      <4>1. asked[x] = Gone
        BY <1>1, <2>1, <3>2 DEF StoreInv, StoreTypes
      <4>2. ~InMemory(x) /\ ~(Indexed(x) /\ file[x] \in Text)
        BY <4>1 DEF StoreInv, DeletedStaysGone
      <4>3. index' # Torn /\ (\E k \in DOMAIN index' : index'[k].id = x) => Indexed(x)
        BY <1>1, <1>3, <1>4 DEF Indexed
      <4> QED
        BY <4>2, <4>3
    <3> QED
      BY <3>1, <3>2
  <2> QED
    BY <1>1, <2>1 DEF DeletedStaysGone, InMemory, Indexed
<1> QED
  BY <1>5, <1>6, <1>7 DEF StoreInv

LEMMA ToggleSteps ==
  ASSUME StoreInv, NEW id \in Rule, NEW on \in BOOLEAN, Toggle(id, on)
  PROVE  StoreInv'
<1>1. /\ web' = [op |-> "toggle", id |-> id, on |-> on, step |-> "file"]
      /\ boot = 0 /\ Indexed(id) /\ file[id] \in Text
      /\ UNCHANGED <<rules, boot, file, index, asked>>
  BY DEF Toggle, Asks, memory, flash
<1>2. web' \in Request /\ web'.op = "toggle" /\ web'.id = id
  BY <1>1 DEF Request
<1>3. StoreTypes' /\ OnePerId' /\ FilesOwn' /\ Loading' /\ DeletedStaysGone'
  BY <1>1, <1>2 DEF StoreInv, StoreTypes, OnePerId, FilesOwn, Loading, DeletedStaysGone,
                    InMemory, Indexed
<1>4. Midway'
  BY <1>1, <1>2 DEF Midway, Indexed
<1> QED
  BY <1>3, <1>4 DEF StoreInv

LEMMA ToggleFileSteps ==
  ASSUME StoreInv, ToggleFile
  PROVE  StoreInv'
<1> DEFINE id == web.id
<1>1. /\ web.op = "toggle" /\ web.step = "file" /\ web' = [web EXCEPT !.step = "index"]
      /\ \/ file' = [file EXCEPT ![id].on = web.on] /\ UNCHANGED asked
         \/ file' = [file EXCEPT ![id] = Torn] /\ asked' = [asked EXCEPT ![id] = Nothing]
      /\ UNCHANGED <<rules, boot, index>>
  BY DEF ToggleFile, At, Goes, memory
<1>2. /\ id \in Rule /\ Indexed(id) /\ file[id] \in Text /\ boot = 0 /\ web.on \in BOOLEAN
  BY <1>1 DEF StoreInv, StoreTypes, Midway, Request
<1>3. web' \in Request /\ web'.op = "toggle" /\ web'.id = id /\ web'.step = "index"
  BY <1>1 DEF StoreInv, StoreTypes, Request
<1>4. /\ file' \in [Rule -> Text \cup {NoFile, Torn}]
      /\ \A x \in Rule : file'[x] \in Text =>
           file[x] \in Text /\ file'[x].def.id = file[x].def.id
  <2>1. [file[id] EXCEPT !.on = web.on] \in Text
        /\ [file[id] EXCEPT !.on = web.on].def = file[id].def
    BY <1>2 DEF Text
  <2>2. CASE file' = [file EXCEPT ![id].on = web.on]
    BY <1>2, <2>1, <2>2 DEF StoreInv, StoreTypes
  <2>3. CASE file' = [file EXCEPT ![id] = Torn]
    BY <1>2, <2>3, Shapes DEF StoreInv, StoreTypes
  <2> QED
    BY <1>1, <2>2, <2>3
<1>5. /\ asked' \in [Rule -> Defs \cup {Gone, Nothing}]
      /\ \A x \in Rule : asked'[x] = Gone => asked[x] = Gone
  BY <1>1, Shapes DEF StoreInv, StoreTypes
<1>6. StoreTypes'
  BY <1>1, <1>3, <1>4, <1>5 DEF StoreInv, StoreTypes
<1>7. OnePerId' /\ FilesOwn' /\ Loading'
  BY <1>1, <1>2, <1>4 DEF StoreInv, OnePerId, FilesOwn, Loading
<1>8. Midway'
  BY <1>1, <1>2, <1>3 DEF Midway, Indexed
<1>9. DeletedStaysGone'
  BY <1>1, <1>4, <1>5 DEF StoreInv, DeletedStaysGone, InMemory, Indexed
<1> QED
  BY <1>6, <1>7, <1>8, <1>9 DEF StoreInv

LEMMA ToggleIndexSteps ==
  ASSUME StoreInv, ToggleIndex
  PROVE  StoreInv'
<1> DEFINE p == Position(web.id)
<1>1. /\ web.op = "toggle" /\ web' = NoOne
      /\ \/ index' = [index EXCEPT ![p].on = web.on] /\ UNCHANGED asked
         \/ /\ index' = Torn
            /\ asked' = [id \in Rule |-> IF asked[id] \in Defs THEN Nothing ELSE asked[id]]
      /\ UNCHANGED <<rules, boot, file>>
  BY DEF ToggleIndex, At, memory
<1>2. /\ web.id \in Rule /\ Indexed(web.id) /\ boot = 0 /\ web.on \in BOOLEAN
  BY <1>1 DEF StoreInv, StoreTypes, Midway, Request
<1>3. index \in Seq(Entry) /\ p \in DOMAIN index
  BY <1>2 DEF Indexed, Position, StoreInv, StoreTypes
<1> HIDE DEF p
<1>4. index' # Torn => /\ index' \in Seq(Entry) /\ DOMAIN index' = DOMAIN index
                       /\ \A k \in DOMAIN index : index'[k].id = index[k].id
  <2>1. index[p] \in Entry
    BY <1>3
  <2>2. [index[p] EXCEPT !.on = web.on] \in Entry
        /\ [index[p] EXCEPT !.on = web.on].id = index[p].id
    BY <1>2, <2>1 DEF Entry
  <2>3. CASE index' = [index EXCEPT ![p] = [index[p] EXCEPT !.on = web.on]]
    BY <1>3, <2>2, <2>3
  <2> QED
    BY <1>1, <2>3
<1>5. /\ asked' \in [Rule -> Defs \cup {Gone, Nothing}]
      /\ \A x \in Rule : asked'[x] = Gone => asked[x] = Gone
  BY <1>1, Shapes DEF StoreInv, StoreTypes
<1>6. StoreTypes'
  BY <1>1, <1>4, <1>5, NoOneIsRequest DEF StoreInv, StoreTypes
<1>7. index # Torn
  BY <1>2 DEF Indexed
<1>8. OnePerId' /\ FilesOwn' /\ Loading' /\ Midway'
  BY <1>1, <1>2, <1>4, <1>7, NoOneIsRequest DEF StoreInv, OnePerId, FilesOwn, Loading, Midway
<1>9. DeletedStaysGone'
  BY <1>1, <1>4, <1>5, <1>7 DEF StoreInv, DeletedStaysGone, InMemory, Indexed
<1> QED
  BY <1>6, <1>8, <1>9 DEF StoreInv

LEMMA LoadSteps ==
  ASSUME StoreInv, Load
  PROVE  StoreInv'
<1> DEFINE e == index[boot]  r == [def |-> Parsed(file[e.id].def), on |-> e.on]
<1>1. /\ boot > 0 /\ index # Torn /\ boot <= Len(index) /\ boot' = boot + 1
      /\ rules' = IF file[e.id] \in Text /\ Len(rules) < MaxRules
                    THEN Append(rules, r) ELSE rules
      /\ UNCHANGED <<file, index, web, asked>>
  BY DEF Load, flash
<1>2. /\ index \in Seq(Entry) /\ DOMAIN index = 1 .. Len(index) /\ Len(index) \in Nat
      /\ boot \in Nat /\ boot \in DOMAIN index
      /\ rules \in Seq(Text) /\ DOMAIN rules = 1 .. Len(rules) /\ Len(rules) \in Nat
      /\ MaxRules \in Nat
  BY <1>1, Shapes DEF StoreInv, StoreTypes
<1>3. e \in Entry /\ e.id \in Rule
  <2>1. e \in Entry
    BY <1>2
  <2> QED
    BY <2>1 DEF Entry
<1>4. web.op = "idle"
  BY <1>1 DEF StoreInv, Midway
<1>5. \A k \in 1 .. Len(rules) : \E n \in 1 .. Len(index) :
        n < boot /\ index[n].id = rules[k].def.id
  BY <1>1 DEF StoreInv, Loading
<1>6. CASE rules' = rules
  <2>1. boot' = boot + 1 /\ UNCHANGED <<rules, file, index, web, asked>>
    BY <1>1, <1>6
  <2>2. StoreTypes' /\ FilesOwn' /\ Midway'
    BY <1>2, <1>4, <2>1 DEF StoreInv, StoreTypes, FilesOwn, Midway
  <2>3. OnePerId' /\ DeletedStaysGone'
    BY <2>1 DEF StoreInv, OnePerId, DeletedStaysGone, InMemory, Indexed
  <2>4. Loading'
    <3>1. \A n \in 1 .. Len(index) : n < boot => n < boot + 1
      BY <1>2
    <3> QED
      BY <1>5, <2>1, <3>1 DEF Loading
  <2> QED
    BY <2>2, <2>3, <2>4 DEF StoreInv
<1>7. CASE file[e.id] \in Text /\ Len(rules) < MaxRules /\ rules' = Append(rules, r)
  <2>1. file[e.id].def \in Texts /\ file[e.id].def.id = e.id
    BY <1>3, <1>7 DEF Text, StoreInv, FilesOwn
  <2>2. r \in Text /\ r.def.id = e.id
    BY <1>3, <2>1, Constants DEF Text, Entry
  <2> HIDE DEF r
  <2>3. \A k \in 1 .. Len(rules) : rules[k].def.id # r.def.id
    <3>1. \A m, n \in DOMAIN index : index[m].id = index[n].id => m = n
      BY <1>1 DEF StoreInv, OnePerId
    <3> QED
      BY <1>2, <1>5, <2>2, <3>1
  <2>4. \A a, b \in 1 .. Len(rules) : rules[a].def.id = rules[b].def.id => a = b
    BY <1>2 DEF StoreInv, OnePerId
  <2>5. /\ rules' \in Seq(Text) /\ Len(rules') = Len(rules) + 1 /\ DOMAIN rules' = 1 .. Len(rules) + 1
        /\ rules'[Len(rules) + 1] = r /\ \A n \in 1 .. Len(rules) : rules'[n] = rules[n]
        /\ \A a, b \in DOMAIN rules' : rules'[a].def.id = rules'[b].def.id => a = b
    BY <1>2, <1>7, <2>2, <2>3, <2>4, RuleAdded
  <2>6. \A k \in DOMAIN rules' : k \in 1 .. Len(rules) \/ k = Len(rules) + 1
    BY <1>2, <2>5
  <2>7. StoreTypes'
    BY <1>1, <1>2, <1>7, <2>5 DEF StoreInv, StoreTypes
  <2>8. OnePerId' /\ FilesOwn' /\ Midway'
    BY <1>1, <1>4, <2>5 DEF StoreInv, OnePerId, FilesOwn, Midway
  <2>9. Loading'
    <3>1. ASSUME NEW k \in 1 .. Len(rules')
          PROVE  \E n \in 1 .. Len(index) : n < boot + 1 /\ index[n].id = rules'[k].def.id
      <4>1. CASE k \in 1 .. Len(rules)
        BY <1>2, <1>5, <2>5, <4>1
      <4>2. CASE k = Len(rules) + 1
        BY <1>2, <2>2, <2>5, <4>2
      <4> QED
        BY <1>2, <2>5, <4>1, <4>2
    <3> QED
      BY <1>1, <3>1 DEF Loading
  <2>10. DeletedStaysGone'
    <3>1. ASSUME NEW x \in Rule, asked[x] = Gone
          PROVE  /\ ~\E k \in DOMAIN rules' : rules'[k].def.id = x
                 /\ ~(Indexed(x) /\ file[x] \in Text)
      <4>1. ~InMemory(x) /\ ~(Indexed(x) /\ file[x] \in Text)
        BY <3>1 DEF StoreInv, DeletedStaysGone
      <4>2. x # e.id
        BY <1>1, <1>2, <1>7, <4>1 DEF Indexed
      <4> QED
        BY <1>2, <2>2, <2>5, <2>6, <4>1, <4>2 DEF InMemory
    <3> QED
      BY <1>1, <3>1 DEF DeletedStaysGone, InMemory, Indexed
  <2> QED
    BY <2>7, <2>8, <2>9, <2>10 DEF StoreInv
<1> QED
  BY <1>1, <1>6, <1>7

LEMMA LoadEndSteps ==
  ASSUME StoreInv, LoadEnd
  PROVE  StoreInv'
<1>1. boot > 0 /\ boot' = 0 /\ UNCHANGED <<rules, file, index, web, asked>>
  BY DEF LoadEnd, flash
<1>2. web.op = "idle"
  BY <1>1 DEF StoreInv, Midway
<1> QED
  BY <1>1, <1>2 DEF StoreInv, StoreTypes, OnePerId, FilesOwn, Loading, Midway,
                    DeletedStaysGone, InMemory, Indexed

LEMMA CrashSteps ==
  ASSUME StoreInv, NEW cut \in BOOLEAN, NEW old \in [Attr \cup Var -> Value],
         NEW on \in SUBSET Behaviour, Crash(cut, old, on)
  PROVE  StoreInv'
<1>1. /\ file' = IF cut /\ web.op # "delete" /\ web.step = "file"
                   THEN [file EXCEPT ![web.id] = Torn] ELSE file
      /\ index' = IF cut /\ web.step = "index" THEN Torn ELSE index
      /\ asked' = [id \in Rule |->
                     IF asked[id] # Gone /\ (index' = Torn \/ file'[id] = Torn)
                       THEN Nothing ELSE asked[id]]
      /\ rules' = <<>> /\ boot' = 1 /\ web' = NoOne
  BY DEF Crash
<1>2. /\ file' \in [Rule -> Text \cup {NoFile, Torn}]
      /\ \A x \in Rule : file'[x] \in Text => file'[x] = file[x]
  BY <1>1, Shapes DEF StoreInv, StoreTypes
<1>3. index' \in {index, Torn}
  BY <1>1
<1>4. /\ asked' \in [Rule -> Defs \cup {Gone, Nothing}]
      /\ \A x \in Rule : asked'[x] = Gone => asked[x] = Gone
  BY <1>1, Shapes DEF StoreInv, StoreTypes
<1>5. rules' \in Seq(Text) /\ Len(rules') = 0 /\ DOMAIN rules' = {}
  BY <1>1
<1>6. StoreTypes'
  BY <1>1, <1>2, <1>3, <1>4, <1>5, NoOneIsRequest, Shapes DEF StoreInv, StoreTypes
<1>7. OnePerId' /\ FilesOwn' /\ Loading' /\ Midway'
  BY <1>1, <1>2, <1>3, <1>5, NoOneIsRequest DEF StoreInv, OnePerId, FilesOwn, Loading, Midway
<1>8. DeletedStaysGone'
  BY <1>2, <1>3, <1>4, <1>5 DEF StoreInv, DeletedStaysGone, InMemory, Indexed
<1> QED
  BY <1>6, <1>7, <1>8 DEF StoreInv

LEMMA StoreStarts == Init => StoreInv
<1> SUFFICES ASSUME Init PROVE StoreInv
  OBVIOUS
<1>1. /\ rules = <<>> /\ boot = 1 /\ file = FlashFiles /\ index = FlashRules
      /\ web = NoOne /\ asked = [id \in Rule |-> Nothing]
  BY DEF Init
<1>2. rules \in Seq(Text) /\ Len(rules) = 0 /\ DOMAIN rules = {}
  BY <1>1
<1>3. StoreTypes
  BY <1>1, <1>2, NoOneIsRequest, Shapes, InFlash DEF StoreTypes
<1>4. OnePerId /\ FilesOwn /\ Loading /\ Midway /\ DeletedStaysGone
  BY <1>1, <1>2, NoOneIsRequest, Shapes, InFlash
     DEF OnePerId, FilesOwn, Loading, Midway, DeletedStaysGone
<1> QED
  BY <1>3, <1>4 DEF StoreInv

-----------------------------------------------------------------------------
(* The invariant of the whole, and what follows from it.                     *)

IInv == EngineInv /\ StoreInv

LEMMA Starts == Init => IInv
BY EngineStarts, StoreStarts DEF IInv

LEMMA Steps == IInv /\ [Next]_vars => IInv'
<1> SUFFICES ASSUME EngineInv, StoreInv, [Next]_vars
             PROVE  EngineInv' /\ StoreInv'
  BY DEF IInv
<1>1. rules \in Seq(Text)
  BY DEF StoreInv, StoreTypes
<1>2. CASE \E t \in Task : Engine(t)
  BY <1>1, <1>2, EngineSteps, StoreUntouched
<1>3. CASE \E a \in Attr, x \in Value : Report(a, x)
  BY <1>3, ReportSteps, StoreUntouched
<1>4. CASE ReportEnd \/ Base \/ BaseEnd \/ RunDone
  BY <1>4, LockSteps, StoreUntouched
<1>5. CASE \E d \in Defs, on \in BOOLEAN : Post(d, on)
  <2>1. PICK d \in Defs, on \in BOOLEAN : Post(d, on)
    BY <1>5
  <2>2. UNCHANGED <<stack, value, behs, core>>
    BY <2>1 DEF Post
  <2> QED
    BY <2>1, <2>2, EngineKept, PostSteps
<1>6. CASE \E id \in Rule : Delete(id)
  <2>1. PICK id \in Rule : Delete(id)
    BY <1>6
  <2>2. UNCHANGED <<stack, value, behs, core>>
    BY <2>1 DEF Delete
  <2> QED
    BY <2>1, <2>2, EngineKept, DeleteSteps
<1>7. CASE \E id \in Rule : Run(id)
  BY <1>1, <1>7, RunSteps, StoreUntouched
<1>8. CASE \E id \in Rule, on \in BOOLEAN : Toggle(id, on)
  <2>1. PICK id \in Rule, on \in BOOLEAN : Toggle(id, on)
    BY <1>8
  <2>2. UNCHANGED <<stack, value, behs, core>>
    BY <2>1 DEF Toggle, memory
  <2> QED
    BY <2>1, <2>2, EngineKept, ToggleSteps
<1>9. CASE PostFile \/ PostIndex \/ DeleteFile \/ DeleteIndex \/ ToggleFile \/ ToggleIndex
  <2>1. UNCHANGED <<stack, value, behs, core>>
    BY <1>9 DEF PostFile, PostIndex, DeleteFile, DeleteIndex, ToggleFile, ToggleIndex, memory
  <2> QED
    BY <1>9, <2>1, EngineKept, PostFileSteps, PostIndexSteps, DeleteFileSteps,
       DeleteIndexSteps, ToggleFileSteps, ToggleIndexSteps
<1>10. CASE \E cut \in BOOLEAN, old \in [Attr \cup Var -> Value], on \in SUBSET Behaviour :
              Crash(cut, old, on)
  BY <1>10, CrashResets, CrashSteps
<1>11. CASE Load \/ LoadEnd
  <2>1. UNCHANGED <<stack, value, behs, core>>
    BY <1>11 DEF Load, LoadEnd
  <2> QED
    BY <1>11, <2>1, EngineKept, LoadSteps, LoadEndSteps
<1>12. CASE UNCHANGED vars
  <2>1. UNCHANGED <<stack, value, behs, core>> /\ UNCHANGED <<rules, boot, file, index, asked, web>>
    BY <1>12 DEF vars, core
  <2> QED
    BY <2>1, EngineKept, StoreKept
<1> QED
  BY <1>2, <1>3, <1>4, <1>5, <1>6, <1>7, <1>8, <1>9, <1>10, <1>11, <1>12
     DEF Next, Answer, Boot

LEMMA Always == Spec => []IInv
<1>1. Init => IInv
  BY Starts
<1>2. IInv /\ [Next]_vars => IInv'
  BY Steps
<1> QED
  BY <1>1, <1>2, PTL DEF Spec

\* Every variable keeps its type, whatever rules are posted, fire, and are cut
\* short by a power failure (all of main/zbm_automation as modelled).
THEOREM TypeCorrect == Spec => []TypeOK
<1>1. IInv => TypeOK
  BY DEF IInv, EngineInv, StoreInv, StoreTypes, TypeOK
<1> QED
  BY <1>1, Always, PTL

\* zb_automation_v2_on_data_change calls itself no deeper than the rules of the
\* site are layered: for every set of layered rules and behaviours.
THEOREM NestingIsBounded == Spec => []NestingBounded
<1>1. IInv => NestingBounded
  <2> SUFFICES ASSUME IInv, NEW t \in Task
               PROVE  Len(stack[t]) <= MaxRank + 1
    BY DEF NestingBounded
  <2>1. Nested(stack[t]) /\ Len(stack[t]) \in Nat
    BY DEF IInv, EngineInv
  <2>2. CASE Len(stack[t]) = 0
    BY <2>2, Shapes
  <2>3. CASE Len(stack[t]) > 0
    <3>1. Len(stack[t]) \in 1 .. Len(stack[t])
      BY <2>1, <2>3
    <3>2. /\ stack[t][Len(stack[t])] \in Frame
          /\ Rank[stack[t][Len(stack[t])].src] >= Len(stack[t]) - 1
      BY <2>1, <3>1 DEF Nested, Sound
    <3>3. Rank[stack[t][Len(stack[t])].src] \in 0 .. MaxRank
      BY <3>2, Shapes DEF Frame
    <3> QED
      BY <2>1, <3>2, <3>3, Shapes
  <2> QED
    BY <2>1, <2>2, <2>3
<1> QED
  BY <1>1, Always, PTL

\* The rules a change runs are in the order of their priorities, for any number
\* of rules found (the exchange sort of zb_automation_v2_on_data_change).
THEOREM RunByPriority == Spec => []ByPriority
<1>1. IInv => ByPriority
  <2> SUFFICES ASSUME IInv, NEW t \in Task, NEW n \in DOMAIN stack[t],
                      stack[t][n].phase = "run",
                      NEW a \in DOMAIN stack[t][n].todo, NEW b \in DOMAIN stack[t][n].todo,
                      a < b
               PROVE  stack[t][n].todo[a].prio >= stack[t][n].todo[b].prio
    BY DEF ByPriority
  <2>1. Nested(stack[t]) /\ n \in 1 .. Len(stack[t])
    BY DEF IInv, EngineInv
  <2>2. Sound(stack[t][n])
    BY <2>1 DEF Nested
  <2>3. Sorted(stack[t][n].todo) /\ stack[t][n].todo \in Seq(Runnable)
    BY <2>2 DEF Sound, Frame
  <2>4. a \in 1 .. Len(stack[t][n].todo) /\ b \in 1 .. Len(stack[t][n].todo)
    BY <2>3
  <2> QED
    BY <2>3, <2>4 DEF Sorted
<1> QED
  BY <1>1, Always, PTL

\* The table in memory and the index in flash name a rule once, over any history
\* of posts, deletions, toggles, power failures and loads.
THEOREM OneRulePerId == Spec => []OnePerId
<1>1. IInv => OnePerId
  BY DEF IInv, StoreInv
<1> QED
  BY <1>1, Always, PTL

\* A rule the answer to DELETE said was gone stays gone, whichever write a power
\* failure cuts and however often the rules are loaded again.
THEOREM DeletedStayGone == Spec => []DeletedStaysGone
<1>1. IInv => DeletedStaysGone
  BY DEF IInv, StoreInv
<1> QED
  BY <1>1, Always, PTL

\* The core mutex leaves an owner only when the owner leaves, although tasks that
\* waited in vain unlock it too (zbm_core_sync_lock and _unlock).
THEOREM LockGivenByTaker == Spec => GivenByTaker
<1> DEFINE Given == holder # holder' /\ holder # Nobody => holder \notin inside'
<1>1. ASSUME [Next]_vars PROVE [Given]_vars
  <2>1. CASE UNCHANGED vars
    BY <2>1
  <2>2. CASE UNCHANGED holder
    BY <2>2
  <2>3. CASE \E t \in Task : Enter(t) \/ Leave(t)
    BY <2>3 DEF Enter, Leave
  <2>4. CASE inside' = {}
    BY <2>4
  <2>5. CASE \E t \in Task : Engine(t)
    <3>1. UNCHANGED core
      BY <2>5, Zenon DEF Engine, Walk, WalkEnd, Exchange, SortEnd, Perform, RunEnd
    <3> QED
      BY <2>2, <3>1 DEF core
  <2>6. CASE \E a \in Attr, x \in Value : Report(a, x)
    BY <2>3, <2>6 DEF Report, Task
  <2>7. CASE ReportEnd \/ Base \/ BaseEnd
    BY <2>3, <2>7 DEF ReportEnd, Base, BaseEnd, Task
  <2>8. CASE \/ \E d \in Defs, on \in BOOLEAN : Post(d, on)
             \/ \E id \in Rule : Delete(id) \/ Run(id)
             \/ \E id \in Rule, on \in BOOLEAN : Toggle(id, on)
    BY <2>2, <2>8 DEF Post, Delete, Run, Toggle, core
  <2>9. CASE PostFile \/ PostIndex \/ DeleteFile \/ DeleteIndex \/ ToggleFile \/ ToggleIndex \/ RunDone
    BY <2>2, <2>9 DEF PostFile, PostIndex, DeleteFile, DeleteIndex, ToggleFile, ToggleIndex, RunDone, core
  <2>10. CASE \E cut \in BOOLEAN, old \in [Attr \cup Var -> Value], on \in SUBSET Behaviour :
                Crash(cut, old, on)
    BY <2>4, <2>10 DEF Crash
  <2>11. CASE Load \/ LoadEnd
    BY <2>2, <2>11 DEF Load, LoadEnd, core
  <2> QED
    BY <1>1, <2>1, <2>5, <2>6, <2>7, <2>8, <2>9, <2>10, <2>11 DEF Next, Answer, Boot
<1> QED
  BY <1>1, PTL DEF Spec, GivenByTaker
=============================================================================
