------------------------- MODULE NcpFirmware_proofs --------------------------
(***************************************************************************)
(* What the tasks of the NCP keep, for any commands, notifications, sizes  *)
(* of frames, of the buffer and of the queue.                              *)
(*                                                                         *)
(*   PutInv    a task copies under the semaphore and into room it has seen *)
(*   CallInv   a command is served for each one that waits                 *)
(*   CountInv  what the events count and what tasks are about to count is  *)
(*             there                                                       *)
(*   ByteInv   a byte follows the one before it of its frame               *)
(***************************************************************************)
EXTENDS NcpFirmware, TLAPS, SequenceTheorems, FunctionTheorems, FiniteSetTheorems

Event == Input \cup Output
Puts  == [pc : {"none", "space", "wait", "sem", "copy", "post"}, frame : Frame,
          done : 0 .. Space, goal : 0 .. Space]

-----------------------------------------------------------------------------
(* What the events of a queue count.                                       *)

Units(q, kind) ==
  {b \in (DOMAIN q) \X (1 .. Space) : q[b[1]].event = kind /\ b[2] <= q[b[1]].size}

Column(n, k) == {n} \X (1 .. k)

LEMMA SpaceIs == Space \in Nat \ {0} /\ QueueLen \in Nat \ {0}
BY Shapes DEF Frame

LEMMA EventIs == \A e \in Event : e.event \in {"input", "output"} /\ e.size \in 1 .. Space
BY SpaceIs DEF Event, Input, Output

LEMMA ColumnIs ==
  ASSUME NEW n, NEW k \in Nat
  PROVE  IsFiniteSet(Column(n, k)) /\ Cardinality(Column(n, k)) = k
<1>1. IsFiniteSet({n}) /\ Cardinality({n}) = 1
  BY FS_Singleton
<1>2. IsFiniteSet(1 .. k) /\ Cardinality(1 .. k) = k
  BY FS_Interval
<1> QED
  <2> DEFINE S == {n}
             T == 1 .. k
  <2>1. IsFiniteSet(S \X T) /\ Cardinality(S \X T) = Cardinality(S) * Cardinality(T)
    <3> HIDE DEF S, T
    <3>1. IsFiniteSet(S) /\ IsFiniteSet(T)
      BY <1>1, <1>2 DEF S, T
    <3> QED
      BY <3>1, FS_Product
  <2>2. Cardinality(S) * Cardinality(T) = k
    BY <1>1, <1>2
  <2> QED
    BY <2>1, <2>2 DEF Column

LEMMA ApartIs ==
  ASSUME NEW S, NEW T, IsFiniteSet(S), IsFiniteSet(T), S \cap T = {}
  PROVE  Cardinality(S \cup T) = Cardinality(S) + Cardinality(T)
<1>1. Cardinality(S \cap T) = 0
  BY FS_EmptySet
<1>2. Cardinality(S) \in Nat /\ Cardinality(T) \in Nat
  BY FS_CardinalityType
<1>3. Cardinality(S \cup T) = Cardinality(S) + Cardinality(T) - Cardinality(S \cap T)
  BY FS_Union
<1> QED
  BY <1>1, <1>2, <1>3

LEMMA UnitsFinite ==
  ASSUME NEW q \in Seq(Event), NEW kind
  PROVE  IsFiniteSet(Units(q, kind)) /\ Cardinality(Units(q, kind)) \in Nat
<1>1. IsFiniteSet(DOMAIN q) /\ IsFiniteSet(1 .. Space)
  BY SpaceIs, FS_Interval
<1>2. IsFiniteSet((DOMAIN q) \X (1 .. Space))
  BY <1>1, FS_Product
<1>3. Units(q, kind) \in SUBSET ((DOMAIN q) \X (1 .. Space))
  BY DEF Units
<1> QED
  BY <1>2, <1>3, FS_Subset, FS_CardinalityType

LEMMA UnitsOfNone == \A kind : Cardinality(Units(<<>>, kind)) = 0
<1> SUFFICES ASSUME NEW kind PROVE Units(<<>>, kind) = {}
  BY FS_EmptySet
<1> QED
  BY DEF Units

Weight(e, kind) == IF e.event = kind THEN e.size ELSE 0

\* An event more counts its bytes.
LEMMA UnitsAppended ==
  ASSUME NEW q \in Seq(Event), NEW e \in Event, NEW kind
  PROVE  Cardinality(Units(Append(q, e), kind)) = Cardinality(Units(q, kind)) + Weight(e, kind)
<1> DEFINE n == Len(q) + 1
           r == Append(q, e)
           S == Units(q, kind)
           T == Column(n, Weight(e, kind))
<1>1. /\ Len(q) \in Nat /\ DOMAIN q = 1 .. Len(q) /\ DOMAIN r = 1 .. n
      /\ r[n] = e /\ \A k \in 1 .. Len(q) : r[k] = q[k]
  OBVIOUS
<1>2. e.size \in 1 .. Space /\ Weight(e, kind) \in Nat /\ Weight(e, kind) <= Space
  BY EventIs, SpaceIs DEF Weight
<1> HIDE DEF r
<1>3. Units(r, kind) = S \cup T
  <2>1. ASSUME NEW b \in Units(r, kind) PROVE b \in S \cup T
    BY <1>1, <1>2 DEF Units, Column, Weight
  <2>2. ASSUME NEW b \in S PROVE b \in Units(r, kind)
    BY <1>1 DEF Units
  <2>3. ASSUME NEW b \in T PROVE b \in Units(r, kind)
    BY <1>1, <1>2, SpaceIs DEF Units, Column, Weight
  <2> QED
    BY <2>1, <2>2, <2>3
<1>4. S \cap T = {}
  BY <1>1 DEF Units, Column
<1>5. IsFiniteSet(S) /\ Cardinality(S) \in Nat
  BY UnitsFinite
<1>6. IsFiniteSet(T) /\ Cardinality(T) = Weight(e, kind)
  BY <1>2, ColumnIs
<1> HIDE DEF S, T
<1>7. Cardinality(S \cup T) = Cardinality(S) + Cardinality(T)
  BY <1>4, <1>5, <1>6, ApartIs
<1> QED
  BY <1>3, <1>6, <1>7 DEF r, S

LEMMA UnitsSame ==
  ASSUME NEW q \in Seq(Event), NEW e \in Event, NEW kind, Weight(e, kind) = 0
  PROVE  Cardinality(Units(Append(q, e), kind)) = Cardinality(Units(q, kind))
<1> DEFINE n == Cardinality(Units(q, kind))
<1>1. n \in Nat
  BY UnitsFinite
<1>2. Cardinality(Units(Append(q, e), kind)) = n + 0
  BY UnitsAppended
<1> QED
  <2> HIDE DEF n
  <2>1. n + 0 = n
    BY <1>1
  <2> QED
    BY <1>2, <2>1 DEF n

\* The first event taken, its bytes are counted no more.
LEMMA UnitsTaken ==
  ASSUME NEW q \in Seq(Event), q # <<>>, NEW kind
  PROVE  /\ Head(q) \in Event /\ Tail(q) \in Seq(Event)
         /\ Cardinality(Units(q, kind)) = Cardinality(Units(Tail(q), kind)) + Weight(Head(q), kind)
<1> DEFINE e == Head(q)
           r == Tail(q)
           S == Units(r, kind)
           T == Column(1, Weight(e, kind))
           f == [b \in S |-> <<b[1] + 1, b[2]>>]
           U == {b \in Units(q, kind) : b[1] # 1}
<1>1. /\ e \in Event /\ r \in Seq(Event) /\ Len(q) \in Nat \ {0} /\ q[1] = e
      /\ DOMAIN q = 1 .. Len(q) /\ DOMAIN r = 1 .. Len(q) - 1
      /\ \A k \in 1 .. Len(q) - 1 : r[k] = q[k + 1]
  OBVIOUS
<1>2. e.size \in 1 .. Space /\ Weight(e, kind) \in Nat /\ Weight(e, kind) <= Space
  BY <1>1, EventIs, SpaceIs DEF Weight
<1> HIDE DEF r, e
<1>3. Units(q, kind) = U \cup T /\ U \cap T = {}
  <2>1. ASSUME NEW b \in Units(q, kind), b[1] = 1 PROVE b \in T
    BY <1>1, <1>2, <2>1 DEF Units, Column, Weight
  <2>2. ASSUME NEW b \in T PROVE b \in Units(q, kind) /\ b[1] = 1
    BY <1>1, <1>2, SpaceIs DEF Units, Column, Weight
  <2> QED
    BY <2>1, <2>2
<1>4. f \in Bijection(S, U)
  <2>1. ASSUME NEW b \in S PROVE <<b[1] + 1, b[2]>> \in U
    BY <1>1 DEF Units
  <2>2. ASSUME NEW u \in U PROVE \E b \in S : f[b] = u
    <3> DEFINE b == <<u[1] - 1, u[2]>>
    <3>1. u \in (1 .. Len(q)) \X (1 .. Space) /\ u[1] # 1
      BY <1>1 DEF Units
    <3>2. b \in S
      BY <1>1, <3>1 DEF Units
    <3>3. <<b[1] + 1, b[2]>> = u
      BY <3>1
    <3> QED
      BY <3>2, <3>3
  <2>3. ASSUME NEW b \in S, NEW c \in S, f[b] = f[c] PROVE b = c
    <3>1. b \in (1 .. Len(q) - 1) \X (1 .. Space) /\ c \in (1 .. Len(q) - 1) \X (1 .. Space)
      BY <1>1 DEF Units
    <3>2. f[b] = <<b[1] + 1, b[2]>> /\ f[c] = <<c[1] + 1, c[2]>>
      OBVIOUS
    <3> QED
      BY <2>3, <3>1, <3>2
  <2>4. f \in [S -> U]
    BY <2>1
  <2> HIDE DEF f, S, U
  <2> QED
    BY <2>2, <2>3, <2>4, Fun_IsBij
<1>5. IsFiniteSet(S) /\ Cardinality(S) \in Nat
  BY <1>1, UnitsFinite
<1>6. IsFiniteSet(T) /\ Cardinality(T) = Weight(e, kind)
  BY <1>2, ColumnIs
<1> HIDE DEF f, S, T, U
<1>7. IsFiniteSet(U) /\ Cardinality(U) = Cardinality(S)
  BY <1>4, <1>5, FS_Bijection DEF ExistsBijection
<1>8. Cardinality(U \cup T) = Cardinality(U) + Cardinality(T)
  BY <1>3, <1>6, <1>7, ApartIs
<1> QED
  BY <1>1, <1>3, <1>6, <1>7, <1>8 DEF r, e, S

-----------------------------------------------------------------------------
(* The invariant.                                                          *)

\* A put has all of its frame before it until it copies; it copies under the semaphore, no
\* more than there was room for, and has copied the whole frame when it posts the event.
PutRight(t) ==
  /\ put[t].pc \in {"space", "wait", "sem"} =>
       put[t].done = 0 /\ put[t].goal = Size[put[t].frame]
  /\ put[t].pc = "copy" =>
       /\ input_sem = t
       /\ put[t].done <= put[t].goal /\ put[t].goal <= Size[put[t].frame]
       /\ put[t].goal - put[t].done <= Room
  /\ put[t].pc = "post" => put[t].done = Size[put[t].frame]

PutInv ==
  /\ main \in {"loop", "handle", "ended"} => put[Main] = Idle
  /\ \A t \in Task : PutRight(t)

\* Each command read, counted or being handled is still in output_buf.
Handling == IF main = "handle" THEN 1 ELSE 0
CallInv  == Len(bus) + Cardinality(Units(queue, "output")) + Handling <= Len(output_buf)

\* The bytes counted, and those of frames that will be, are in the buffer.
CountInv ==
  /\ Queued + Copied <= Len(input_buf)
  /\ ~lost => Queued + Copied = Len(input_buf)

\* What the task that copies has copied of its frame was put last.
ByteInv ==
  /\ Together
  /\ LET s == line \o input_buf
     IN  \A t \in Task : put[t].pc = "copy" /\ put[t].done > 0 =>
           s # <<>> /\ s[Len(s)] = <<put[t].frame, put[t].done>>

IInv == TypeOK /\ PutInv /\ CallInv /\ CountInv /\ ByteInv

-----------------------------------------------------------------------------
(* The steps, and what they do to the puts.                                *)

LEMMA Steps ==
  ASSUME [Next]_vars
  PROVE  \/ \E c \in Command : HostCalls(c)
         \/ BusCounts \/ MainTakes \/ Answer \/ Refuse \/ RefuseLocked
         \/ ZbossTakes \/ ZbossGives \/ \E n \in Note : Notify(n)
         \/ \E t \in Task : \/ PutSpace(t) \/ PutWaited(t) \/ PutTake(t)
                            \/ PutCopy(t) \/ PutGive(t) \/ PutPost(t)
         \/ UNCHANGED vars
BY DEF Next, MainStep, Put, Task

LEMMA PutIs ==
  ASSUME TypeOK, NEW t \in Task
  PROVE  /\ put \in [Task -> Puts] /\ put[t] \in Puts
         /\ put[t].pc \in {"none", "space", "wait", "sem", "copy", "post"}
         /\ put[t].frame \in Frame /\ put[t].done \in 0 .. Space /\ put[t].goal \in 0 .. Space
         /\ Size[put[t].frame] \in 1 .. Space
         /\ Room \in 0 .. Space /\ Len(input_buf) \in 0 .. Space
<1>1. put \in [Task -> Puts] /\ put[t] \in Puts
  BY DEF TypeOK, Puts
<1>2. \A f \in Frame : Size[f] \in 1 .. Space
  BY Shapes
<1>3. Len(input_buf) \in 0 .. Space
  BY SpaceIs DEF TypeOK
<1> QED
  BY <1>1, <1>2, <1>3, SpaceIs DEF Puts, Room

LEMMA Tasks == Main \in Task /\ Zboss \in Task /\ Main # Zboss /\ Free \notin Task
               /\ \A t \in Task : t = Main \/ t = Zboss
BY Shapes DEF Task

LEMMA PutsAre ==
  /\ Idle \in Puts /\ Idle.pc = "none"
  /\ \A f \in Frame : /\ Begin(f) \in Puts /\ Begin(f).pc = "space" /\ Begin(f).frame = f
                      /\ Begin(f).done = 0 /\ Begin(f).goal = Size[f]
<1>1. \A f \in Frame : Size[f] \in 1 .. Space
  BY Shapes
<1> QED
  BY <1>1, SpaceIs DEF Puts, Idle, Begin, Frame

\* One put is replaced by another.
LEMMA PutReplaced ==
  ASSUME TypeOK, NEW t \in Task, NEW r \in Puts, put' = [put EXCEPT ![t] = r]
  PROVE  /\ put' \in [Task -> Puts] /\ put'[t] = r
         /\ \A u \in Task : u # t => put'[u] = put[u]
BY DEF TypeOK, Puts

Then(t, x) == [put[t] EXCEPT !.pc = x]

LEMMA Goings ==
  ASSUME TypeOK, NEW t \in Task, NEW x \in {"none", "space", "wait", "sem", "copy", "post"}
  PROVE  /\ Goes(t, x) => put' = [put EXCEPT ![t] = Then(t, x)]
         /\ Then(t, x) \in Puts /\ Then(t, x).pc = x /\ Then(t, x).frame = put[t].frame
         /\ Then(t, x).done = put[t].done /\ Then(t, x).goal = put[t].goal
BY PutIs DEF Goes, Then, Puts

Fitting(t) == IF Room < put[t].goal THEN Room ELSE put[t].goal
Took(t)    == [put[t] EXCEPT !.pc = "copy", !.goal = Fitting(t)]

LEMMA Taking ==
  ASSUME TypeOK, NEW t \in Task, PutTake(t)
  PROVE  /\ put' = [put EXCEPT ![t] = Took(t)] /\ Took(t) \in Puts
         /\ Took(t).pc = "copy" /\ Took(t).frame = put[t].frame /\ Took(t).done = put[t].done
         /\ Took(t).goal <= Room /\ Took(t).goal <= put[t].goal
<1>1. Fitting(t) \in 0 .. Space /\ Fitting(t) <= Room /\ Fitting(t) <= put[t].goal
  BY PutIs, SpaceIs DEF Fitting
<1>2. put' = [put EXCEPT ![t].pc = "copy", ![t].goal = Fitting(t)]
  BY PutIs DEF PutTake, Fitting
<1>3. put[t] \in Puts /\ put \in [Task -> Puts]
  BY PutIs
<1>4. put' = [put EXCEPT ![t] = Took(t)]
  BY <1>2, <1>3 DEF Took
<1> QED
  BY <1>1, <1>3, <1>4 DEF Took, Puts

Copying(t) == [put[t] EXCEPT !.done = @ + 1]

LEMMA Copies ==
  ASSUME TypeOK, NEW t \in Task, PutCopy(t)
  PROVE  /\ put' = [put EXCEPT ![t] = Copying(t)] /\ Copying(t) \in Puts
         /\ Copying(t).pc = "copy" /\ Copying(t).frame = put[t].frame
         /\ Copying(t).done = put[t].done + 1 /\ Copying(t).goal = put[t].goal
BY PutIs, SpaceIs DEF PutCopy, Copying, Puts

LEMMA Returned ==
  ASSUME TypeOK, NEW t \in Task, NEW ok, Returns(t, ok)
  PROVE  /\ put' = [put EXCEPT ![t] = Idle] /\ Idle \in Puts
         /\ t = Main => main' \in {"loop", "ended"}
         /\ t # Main => main' = main
         /\ main' \in {"loop", "handle", "answer", "refuse", "ended"}
BY PutsAre DEF Returns, TypeOK

LEMMA Replied ==
  ASSUME TypeOK, CallInv, Answer \/ Refuse \/ RefuseLocked
  PROVE  \E f \in Frame : /\ main = "handle" /\ main' \in {"answer", "refuse"}
                          /\ put' = [put EXCEPT ![Main] = Begin(f)] /\ Begin(f) \in Puts
                          /\ output_buf # <<>> /\ output_buf' = Tail(output_buf)
                          /\ lock' \in {lock, Main}
                          /\ UNCHANGED <<bus, queue, bytes, line, call, noted, lost>>
<1>1. main = "handle"
  BY DEF Answer, Refuse, RefuseLocked
<1>2. Len(bus) \in Nat /\ Cardinality(Units(queue, "output")) \in Nat
  <2>1. queue \in Seq(Event) /\ bus \in Seq(Command)
    BY DEF TypeOK, Event
  <2> QED
    BY <2>1, UnitsFinite
<1>3. Len(output_buf) >= 1
  BY <1>1, <1>2 DEF CallInv, Handling, TypeOK
<1>4. output_buf # <<>> /\ Head(output_buf) \in Command
  BY <1>3 DEF TypeOK
<1>5. Head(output_buf) \in Frame /\ Refusal \in Frame
  BY <1>4 DEF Frame
<1> QED
  BY <1>1, <1>4, <1>5, PutsAre DEF Answer, Refuse, RefuseLocked, Replies

LEMMA Splits ==
  ASSUME NEW S, NEW l \in Seq(S), NEW s \in Seq(S), NEW n \in 0 .. Len(s)
  PROVE  (l \o SubSeq(s, 1, n)) \o SubSeq(s, n + 1, Len(s)) = l \o s
<1> DEFINE a == SubSeq(s, 1, n)
           b == SubSeq(s, n + 1, Len(s))
<1>1. Len(s) \in Nat /\ n \in Nat /\ n <= Len(s)
  OBVIOUS
<1>2. a \in Seq(S) /\ Len(a) = n /\ \A i \in 1 .. n : a[i] = s[i]
  BY <1>1
<1>3. b \in Seq(S) /\ Len(b) = Len(s) - n /\ \A i \in 1 .. Len(s) - n : b[i] = s[n + i]
  BY <1>1
<1> HIDE DEF a, b
<1>4. /\ a \o b \in Seq(S) /\ Len(a \o b) = Len(a) + Len(b)
      /\ \A i \in 1 .. Len(a) + Len(b) : (a \o b)[i] = IF i <= Len(a) THEN a[i] ELSE b[i - Len(a)]
  BY <1>2, <1>3, ConcatProperties
<1>5. \A i \in 1 .. Len(s) : (a \o b)[i] = s[i]
  BY <1>1, <1>2, <1>3, <1>4
<1>6. a \o b = s
  <2> DEFINE c == a \o b
  <2>1. c \in Seq(S) /\ Len(c) = Len(s) /\ \A i \in 1 .. Len(c) : c[i] = s[i]
    <3>1. Len(c) = Len(s)
      BY <1>1, <1>2, <1>3, <1>4
    <3> QED
      BY <1>4, <1>5, <3>1
  <2> HIDE DEF c
  <2>2. c = s
    BY <2>1, SeqEqual
  <2> QED
    BY <2>2 DEF c
<1>7. (l \o a) \o b = l \o (a \o b)
  BY SMTT(20), <1>2, <1>3, ConcatAssociative
<1> QED
  BY <1>6, <1>7 DEF a, b

\* An event taken: a command, or bytes, of which as many are there as it counts.
LEMMA TakenIs ==
  ASSUME TypeOK, MainTakes
  PROVE  /\ queue \in Seq(Event) /\ queue # <<>> /\ Head(queue) \in Event
         /\ queue' = Tail(queue) /\ queue' \in Seq(Event)
         /\ UNCHANGED <<bus, output_buf, put, input_sem, lock, call, noted, lost>>
         /\ \/ /\ Head(queue).event = "output"
               /\ main' = "handle" /\ UNCHANGED <<input_buf, line>>
            \/ /\ Head(queue).event = "input" /\ UNCHANGED main
               /\ input_buf' \in Seq(Byte) /\ Len(input_buf') <= Len(input_buf)
               /\ line' \in Seq(Byte)
               /\ Head(queue).size <= Len(input_buf) =>
                    /\ Len(input_buf') = Len(input_buf) - Head(queue).size
                    /\ line' \o input_buf' = line \o input_buf
<1> DEFINE e == Head(queue)
           l == Len(input_buf)
           n == IF e.size < l THEN e.size ELSE l
<1>1. /\ queue \in Seq(Event) /\ queue # <<>> /\ e \in Event
      /\ queue' = Tail(queue) /\ queue' \in Seq(Event)
  BY DEF TypeOK, MainTakes, Event
<1>2. e.event \in {"input", "output"} /\ e.size \in 1 .. Space
  BY <1>1, EventIs
<1>3. UNCHANGED <<bus, output_buf, put, input_sem, lock, call, noted, lost>>
  BY DEF MainTakes
<1>4. CASE e.event = "output"
  BY <1>1, <1>3, <1>4 DEF MainTakes
<1>5. CASE e.event = "input"
  <2>1. /\ input_buf' = SubSeq(input_buf, n + 1, l)
        /\ line' = IF n = e.size THEN line \o SubSeq(input_buf, 1, n) ELSE line
        /\ UNCHANGED main
    BY <1>5 DEF MainTakes
  <2>2. /\ input_buf \in Seq(Byte) /\ line \in Seq(Byte) /\ l \in Nat
        /\ n \in 0 .. l /\ (e.size <= l => n = e.size)
    BY <1>2 DEF TypeOK
  <2> HIDE DEF n
  <2>3. /\ SubSeq(input_buf, n + 1, l) \in Seq(Byte) /\ Len(SubSeq(input_buf, n + 1, l)) = l - n
        /\ SubSeq(input_buf, 1, n) \in Seq(Byte)
    BY <2>2
  <2>5. (line \o SubSeq(input_buf, 1, n)) \o SubSeq(input_buf, n + 1, l) = line \o input_buf
    BY <2>2, Splits
  <2>6. input_buf' \in Seq(Byte) /\ Len(input_buf') <= l /\ line' \in Seq(Byte)
    BY <2>1, <2>2, <2>3
  <2>7. e.size <= l => Len(input_buf') = l - e.size /\ line' \o input_buf' = line \o input_buf
    BY <2>1, <2>2, <2>3, <2>5
  <2> QED
    BY <1>1, <1>3, <1>5, <2>1, <2>6, <2>7
<1> QED
  BY <1>2, <1>4, <1>5

-----------------------------------------------------------------------------
(* Types.                                                                  *)

\* An event is queued if there is room.
LEMMA Sent ==
  ASSUME TypeOK, NEW e \in Event, Send(e)
  PROVE  /\ queue \in Seq(Event) /\ queue' \in Seq(Event) /\ Len(queue') <= QueueLen
         /\ lost' \in BOOLEAN
         /\ \/ Accepts /\ queue' = Append(queue, e) /\ UNCHANGED lost
            \/ ~Accepts /\ UNCHANGED queue /\ lost' = TRUE
<1>1. queue \in Seq(Event) /\ Len(queue) <= QueueLen /\ lost \in BOOLEAN /\ QueueLen \in Nat
  BY SpaceIs DEF TypeOK, Event
<1>2. CASE Accepts
  BY <1>1, <1>2 DEF Send, Accepts
<1>3. CASE ~Accepts
  BY <1>1, <1>3 DEF Send
<1> QED
  BY <1>2, <1>3

LEMMA EventsAre ==
  /\ [event |-> "output", size |-> 1] \in Event
  /\ \A f \in Frame : [event |-> "input", size |-> Size[f]] \in Event
<1>1. \A f \in Frame : Size[f] \in 1 .. Space
  BY Shapes
<1> QED
  BY <1>1 DEF Event, Input, Output

LEMMA TypeInit == Init => TypeOK
<1> SUFFICES ASSUME Init PROVE TypeOK
  OBVIOUS
<1>1. put \in [Task -> Puts]
  BY PutsAre DEF Init
<1>2. <<>> \in Seq(Input \cup Output) /\ <<>> \in Seq(Command) /\ <<>> \in Seq(Byte) /\ Len(<<>>) = 0
  OBVIOUS
<1>3. input_sem \in Task \cup {Free} /\ lock \in Task \cup {Free} /\ noted \subseteq Note
  BY DEF Init
<1>4. Len(queue) <= QueueLen /\ Len(input_buf) <= Space
  BY <1>2, SpaceIs DEF Init
<1> QED
  BY <1>1, <1>2, <1>3, <1>4 DEF Init, TypeOK, Puts

LEMMA CopyFits ==
  ASSUME TypeOK, PutInv, NEW t \in Task, PutCopy(t)
  PROVE  /\ put[t].done + 1 <= put[t].goal /\ put[t].done + 1 <= Size[put[t].frame]
         /\ put[t].goal - put[t].done <= Room /\ Len(input_buf) < Space
         /\ <<put[t].frame, put[t].done + 1>> \in Byte
<1>1. put[t].pc = "copy" /\ put[t].done < put[t].goal
  BY DEF PutCopy
<1>2. put[t].goal <= Size[put[t].frame] /\ put[t].goal - put[t].done <= Room
  BY <1>1 DEF PutInv, PutRight
<1>3. /\ put[t].done \in Nat /\ put[t].goal \in Nat /\ Size[put[t].frame] \in 1 .. Space
      /\ put[t].frame \in Frame /\ Room \in Nat /\ Len(input_buf) \in Nat /\ Space \in Nat
  BY PutIs, SpaceIs
<1> DEFINE x == put[t].done + 1
           f == put[t].frame
<1>4. x <= put[t].goal /\ x <= Size[f] /\ x \in 1 .. Space
  BY <1>1, <1>2, <1>3
<1>5. <<f, x>> \in Byte
  BY <1>3, <1>4 DEF Byte
<1>6. Room > 0
  BY <1>1, <1>2, <1>3
<1>7. Len(input_buf) < Space
  BY <1>3, <1>6 DEF Room
<1> QED
  BY <1>2, <1>4, <1>5, <1>7

LEMMA TypeStep ==
  ASSUME TypeOK, PutInv, CallInv, [Next]_vars
  PROVE  TypeOK'
<1> USE DEF bytes, tasks
<1>1. ASSUME NEW c \in Command, HostCalls(c) PROVE TypeOK'
  BY <1>1 DEF HostCalls, TypeOK
<1>2. CASE BusCounts
  <2>1. Send([event |-> "output", size |-> 1])
    BY <1>2 DEF BusCounts
  <2>2. queue' \in Seq(Event) /\ Len(queue') <= QueueLen /\ lost' \in BOOLEAN
    BY <2>1, Sent, EventsAre
  <2> QED
    BY <1>2, <2>2 DEF BusCounts, Event, TypeOK
<1>3. CASE MainTakes
  <2>1. /\ queue' \in Seq(Event) /\ Len(queue') <= QueueLen
        /\ UNCHANGED <<bus, output_buf, put, input_sem, lock, call, noted, lost>>
        /\ main' \in {main, "handle"}
    <3>1. queue \in Seq(Event) /\ queue # <<>> /\ queue' = Tail(queue)
      BY <1>3, TakenIs
    <3>2. Len(queue') <= QueueLen
      BY <3>1, SpaceIs DEF TypeOK
    <3> QED
      BY <1>3, <3>2, TakenIs
  <2>2. input_buf' \in Seq(Byte) /\ Len(input_buf') <= Space /\ line' \in Seq(Byte)
    <3>1. /\ input_buf' \in Seq(Byte) /\ Len(input_buf') <= Len(input_buf)
          /\ line' \in Seq(Byte)
      BY <1>3, TakenIs DEF TypeOK
    <3> QED
      BY <3>1, SpaceIs DEF TypeOK
  <2> QED
    BY <2>1, <2>2 DEF Event, TypeOK
<1>4. CASE Answer \/ Refuse \/ RefuseLocked
  <2>1. PICK f \in Frame : /\ main' \in {"answer", "refuse"}
                           /\ put' = [put EXCEPT ![Main] = Begin(f)] /\ Begin(f) \in Puts
                           /\ output_buf # <<>> /\ output_buf' = Tail(output_buf)
                           /\ lock' \in {lock, Main}
                           /\ UNCHANGED <<bus, queue, bytes, line, call, noted, lost>>
    BY <1>4, Replied
  <2>2. put' \in [Task -> Puts]
    BY <2>1, PutReplaced, Tasks
  <2>3. output_buf' \in Seq(Command)
    BY <2>1 DEF TypeOK
  <2>4. lock' \in Task \cup {Free}
    BY <2>1, Tasks DEF TypeOK
  <2> QED
    BY <2>1, <2>2, <2>3, <2>4 DEF Puts, TypeOK
<1>5. CASE ZbossTakes \/ ZbossGives
  BY <1>5, Tasks DEF ZbossTakes, ZbossGives, TypeOK
<1>6. ASSUME NEW n \in Note, Notify(n) PROVE TypeOK'
  <2>1. put' \in [Task -> Puts]
    BY <1>6, PutsAre, PutReplaced, Tasks DEF Notify, Frame
  <2> QED
    BY <1>6, <2>1 DEF Notify, Puts, TypeOK
<1>7. ASSUME NEW t \in Task, PutSpace(t) PROVE TypeOK'
  <2>1. put' \in [Task -> Puts]
    BY <1>7, Goings, PutReplaced DEF PutSpace
  <2> QED
    BY <1>7, <2>1 DEF PutSpace, Puts, TypeOK
<1>8. ASSUME NEW t \in Task, PutWaited(t) PROVE TypeOK'
  <2>1. /\ put' \in [Task -> Puts]
        /\ main' \in {"loop", "handle", "answer", "refuse", "ended"} /\ lost' \in BOOLEAN
    <3>1. CASE Goes(t, "sem") /\ UNCHANGED <<main, lost>>
      <4>1. put' \in [Task -> Puts]
        BY <3>1, Goings, PutReplaced
      <4> QED
        BY <3>1, <4>1 DEF TypeOK
    <3>2. CASE Returns(t, FALSE) /\ lost' = (lost \/ t = Main)
      BY <3>2, Returned, PutReplaced
    <3> QED
      BY <1>8, <3>1, <3>2 DEF PutWaited
  <2> QED
    BY <1>8, <2>1 DEF PutWaited, Puts, TypeOK
<1>9. ASSUME NEW t \in Task, PutTake(t) PROVE TypeOK'
  <2>1. put' \in [Task -> Puts]
    BY <1>9, Taking, PutReplaced
  <2> QED
    BY <1>9, <2>1 DEF PutTake, Puts, TypeOK
<1>10. ASSUME NEW t \in Task, PutCopy(t) PROVE TypeOK'
  <2>1. put' \in [Task -> Puts]
    BY <1>10, Copies, PutReplaced
  <2>2. <<put[t].frame, put[t].done + 1>> \in Byte /\ Len(input_buf) < Space
    BY <1>10, CopyFits
  <2>3. input_buf' = Append(input_buf, <<put[t].frame, put[t].done + 1>>)
    BY <1>10 DEF PutCopy
  <2>4. input_buf' \in Seq(Byte) /\ Len(input_buf') <= Space
    BY <2>2, <2>3, SpaceIs DEF TypeOK
  <2> QED
    BY <1>10, <2>1, <2>4 DEF PutCopy, Puts, TypeOK
<1>11. ASSUME NEW t \in Task, PutGive(t) PROVE TypeOK'
  <2>1. /\ put' \in [Task -> Puts]
        /\ main' \in {"loop", "handle", "answer", "refuse", "ended"} /\ lost' \in BOOLEAN
    <3>1. CASE Goes(t, "post") /\ UNCHANGED <<main, lost>>
      <4>1. put' \in [Task -> Puts]
        BY <3>1, Goings, PutReplaced
      <4> QED
        BY <3>1, <4>1 DEF TypeOK
    <3>2. CASE Returns(t, FALSE) /\ lost' = TRUE
      BY <3>2, Returned, PutReplaced
    <3> QED
      BY <1>11, <3>1, <3>2 DEF PutGive
  <2> QED
    BY <1>11, <2>1 DEF PutGive, Puts, TypeOK
<1>12. ASSUME NEW t \in Task, PutPost(t) PROVE TypeOK'
  <2>1. /\ Send([event |-> "input", size |-> Size[put[t].frame]])
        /\ Returns(t, Accepts)
        /\ UNCHANGED <<bus, output_buf, lock, bytes, line, call, noted>>
    BY <1>12 DEF PutPost
  <2>2. queue' \in Seq(Event) /\ Len(queue') <= QueueLen /\ lost' \in BOOLEAN
    BY <2>1, Sent, EventsAre, PutIs
  <2>3. /\ put' \in [Task -> Puts]
        /\ main' \in {"loop", "handle", "answer", "refuse", "ended"}
    BY <2>1, Returned, PutReplaced
  <2> QED
    BY <2>1, <2>2, <2>3 DEF Event, Puts, TypeOK
<1>13. CASE UNCHANGED vars
  BY <1>13 DEF vars, TypeOK
<1> QED
  BY <1>1, <1>2, <1>3, <1>4, <1>5, <1>6, <1>7, <1>8, <1>9, <1>10, <1>11, <1>12, <1>13, Steps

-----------------------------------------------------------------------------
(* Puts.                                                                   *)

\* A put no step touches stays right while it has the semaphore and its room.
LEMMA PutStays ==
  ASSUME TypeOK, TypeOK', PutInv, NEW u \in Task, put'[u] = put[u],
         put[u].pc = "copy" => UNCHANGED input_sem /\ Len(input_buf') <= Len(input_buf)
  PROVE  PutRight(u)'
<1>1. PutRight(u)
  BY DEF PutInv
<1>2. put[u].pc = "copy" => put[u].goal - put[u].done <= Room'
  <2>1. /\ Len(input_buf) \in Nat /\ Len(input_buf') \in Nat /\ Space \in Nat
        /\ put[u].goal \in Nat /\ put[u].done \in Nat
    BY SMTT(20), PutIs, SpaceIs DEF TypeOK
  <2> QED
    BY <1>1, <2>1 DEF PutRight, Room
<1> QED
  BY <1>1, <1>2 DEF PutRight

\* The semaphore is with one task.
LEMMA CopyAlone ==
  ASSUME PutInv, NEW t \in Task, NEW u \in Task, put[t].pc = "copy", put[u].pc = "copy"
  PROVE  t = u
BY DEF PutInv, PutRight

LEMMA PutStep ==
  ASSUME TypeOK, PutInv, CallInv, [Next]_vars
  PROVE  PutInv'
<1>0. TypeOK'
  BY TypeStep
<1> DEFINE Quiet == main \in {"loop", "handle", "ended"} => put[Main] = Idle
<1>a. Quiet /\ \A t \in Task : PutRight(t)
  BY DEF PutInv
<1>b. Quiet' /\ (\A t \in Task : PutRight(t)') => PutInv'
  BY DEF PutInv
<1>c. put' = put /\ UNCHANGED <<input_sem, input_buf>> => \A t \in Task : PutRight(t)'
  BY <1>0, <1>a DEF PutRight, Room
<1> HIDE DEF Quiet
<1>1. CASE \/ (\E c \in Command : HostCalls(c)) \/ BusCounts \/ ZbossTakes \/ ZbossGives \/ UNCHANGED vars
  <2>1. UNCHANGED <<put, main, input_sem, input_buf>>
    BY <1>1 DEF HostCalls, BusCounts, ZbossTakes, ZbossGives, vars, tasks, bytes
  <2>2. Quiet'
    BY <1>a, <2>1 DEF Quiet
  <2> QED
    BY <1>b, <1>c, <2>1, <2>2
<1>2. CASE MainTakes
  <2>1. /\ UNCHANGED <<put, input_sem>> /\ Len(input_buf') <= Len(input_buf)
        /\ (main' = main \/ main' = "handle") /\ main = "loop"
    <3>1. main = "loop"
      BY <1>2 DEF MainTakes
    <3>2. Len(input_buf) <= Len(input_buf)
      BY PutIs, Tasks
    <3> QED
      BY <1>2, <3>1, <3>2, TakenIs
  <2>2. \A t \in Task : PutRight(t)'
    BY <1>0, <2>1, PutStays
  <2>3. Quiet'
    BY <1>a, <2>1 DEF Quiet
  <2> QED
    BY <1>b, <2>2, <2>3
<1>3. CASE Answer \/ Refuse \/ RefuseLocked
  <2>1. PICK f \in Frame : /\ main = "handle" /\ main' \in {"answer", "refuse"}
                           /\ put' = [put EXCEPT ![Main] = Begin(f)] /\ Begin(f) \in Puts
                           /\ UNCHANGED bytes
    BY <1>3, Replied
  <2>2. put'[Main] = Begin(f) /\ \A u \in Task : u # Main => put'[u] = put[u]
    BY <2>1, PutReplaced, Tasks
  <2>3. PutRight(Main)'
    BY <2>2, PutsAre DEF PutRight
  <2>4. \A u \in Task : u # Main => PutRight(u)'
    BY <1>0, <2>1, <2>2, PutStays, PutIs DEF bytes
  <2>5. Quiet'
    BY <2>1 DEF Quiet
  <2> QED
    BY <1>b, <2>3, <2>4, <2>5
<1>4. ASSUME NEW n \in Note, Notify(n) PROVE PutInv'
  <2>1. /\ put' = [put EXCEPT ![Zboss] = Begin(n)] /\ n \in Frame
        /\ UNCHANGED <<main, bytes>>
    BY <1>4 DEF Notify, Frame, tasks
  <2>2. put'[Zboss] = Begin(n) /\ \A u \in Task : u # Zboss => put'[u] = put[u]
    BY <2>1, PutsAre, PutReplaced, Tasks
  <2>3. PutRight(Zboss)'
    BY <2>1, <2>2, PutsAre DEF PutRight
  <2>4. \A u \in Task : u # Zboss => PutRight(u)'
    BY <1>0, <2>1, <2>2, PutStays, PutIs DEF bytes
  <2>5. Quiet'
    BY <1>a, <2>1, <2>2, Tasks DEF Quiet
  <2> QED
    BY <1>b, <2>3, <2>4, <2>5
<1>5. ASSUME NEW t \in Task, NEW x \in {"wait", "sem"}, put[t].pc \in {"space", "wait"},
             Goes(t, x), UNCHANGED <<main, bytes>>
      PROVE  PutInv'
  <2>1. put'[t] = Then(t, x) /\ \A u \in Task : u # t => put'[u] = put[u]
    BY <1>5, Goings, PutReplaced
  <2>2. PutRight(t)'
    BY <1>5, <1>a, <2>1, Goings DEF PutRight
  <2>3. \A u \in Task : u # t => PutRight(u)'
    BY <1>0, <1>5, <2>1, PutStays, PutIs DEF bytes
  <2>4. Quiet'
    <3>1. put[t] # Idle
      BY <1>5, PutsAre
    <3> QED
      BY <1>a, <1>5, <2>1, <3>1, Tasks DEF Quiet
  <2> QED
    BY <1>b, <2>2, <2>3, <2>4
<1>6. ASSUME NEW t \in Task, NEW ok, Returns(t, ok),
             UNCHANGED input_buf, UNCHANGED input_sem \/ put[t].pc = "copy"
      PROVE  PutInv'
  <2>1. /\ put'[t] = Idle /\ \A u \in Task : u # t => put'[u] = put[u]
        /\ (t # Main => main' = main)
    BY <1>6, Returned, PutReplaced
  <2>2. PutRight(t)'
    BY <2>1, PutsAre DEF PutRight
  <2>3. \A u \in Task : u # t => PutRight(u)'
    <3>1. \A u \in Task : u # t /\ put[u].pc = "copy" => UNCHANGED input_sem
      BY <1>6, CopyAlone
    <3>2. Len(input_buf') <= Len(input_buf)
      BY <1>6, PutIs
    <3> QED
      BY <1>0, <2>1, <3>1, <3>2, PutStays
  <2>4. Quiet'
    BY <1>a, <2>1, Tasks DEF Quiet
  <2> QED
    BY <1>b, <2>2, <2>3, <2>4
<1>7. ASSUME NEW t \in Task, PutTake(t) PROVE PutInv'
  <2>1. /\ put[t].pc = "sem" /\ input_sem = Free /\ input_sem' = t
        /\ UNCHANGED <<main, input_buf>>
    BY <1>7 DEF PutTake, tasks
  <2>2. put'[t] = Took(t) /\ \A u \in Task : u # t => put'[u] = put[u]
    BY <1>7, Taking, PutReplaced
  <2>3. PutRight(t)'
    <3>1. put[t].done = 0 /\ put[t].goal = Size[put[t].frame]
      BY <1>a, <2>1 DEF PutRight
    <3>2. /\ Took(t).pc = "copy" /\ Took(t).frame = put[t].frame /\ Took(t).done = 0
          /\ Took(t).goal <= Room /\ Took(t).goal <= Size[put[t].frame] /\ Took(t).goal \in Nat
      BY <1>7, <3>1, Taking, SpaceIs DEF Puts
    <3>3. Room' = Room
      BY <2>1 DEF Room
    <3>4. 0 <= Took(t).goal /\ Took(t).goal - 0 <= Room
      BY <3>2
    <3> QED
      BY <2>1, <2>2, <3>2, <3>3, <3>4 DEF PutRight
  <2>4. \A u \in Task : u # t => PutRight(u)'
    <3>1. \A u \in Task : put[u].pc # "copy"
      BY <1>a, <2>1, Tasks DEF PutRight
    <3> QED
      BY <1>0, <2>2, <3>1, PutStays
  <2>5. Quiet'
    <3>1. put[t] # Idle
      BY <2>1, PutsAre
    <3> QED
      BY <1>a, <2>1, <2>2, <3>1, Tasks DEF Quiet
  <2> QED
    BY <1>b, <2>3, <2>4, <2>5
<1>8. ASSUME NEW t \in Task, PutCopy(t) PROVE PutInv'
  <2>1. /\ put[t].pc = "copy" /\ UNCHANGED <<main, input_sem>>
        /\ Len(input_buf') = Len(input_buf) + 1
    BY <1>8, CopyFits DEF PutCopy, tasks, TypeOK
  <2>2. put'[t] = Copying(t) /\ \A u \in Task : u # t => put'[u] = put[u]
    BY <1>8, Copies, PutReplaced
  <2>3. PutRight(t)'
    <3>1. /\ Copying(t).pc = "copy" /\ Copying(t).frame = put[t].frame
          /\ Copying(t).done = put[t].done + 1 /\ Copying(t).goal = put[t].goal
      BY <1>8, Copies
    <3>2. /\ put[t].done + 1 <= put[t].goal /\ put[t].goal - put[t].done <= Room
          /\ input_sem = t /\ put[t].goal <= Size[put[t].frame]
      BY <1>8, <1>a, <2>1, CopyFits DEF PutRight
    <3>3. put[t].goal - (put[t].done + 1) <= Room'
      <4>1. put[t].goal \in Nat /\ put[t].done \in Nat /\ Len(input_buf) \in Nat /\ Space \in Nat
        BY PutIs, SpaceIs
      <4> QED
        BY <2>1, <3>2, <4>1 DEF Room
    <3> QED
      BY <2>1, <2>2, <3>1, <3>2, <3>3 DEF PutRight
  <2>4. \A u \in Task : u # t => PutRight(u)'
    <3>1. \A u \in Task : u # t => put[u].pc # "copy"
      BY <2>1, CopyAlone
    <3> QED
      BY <1>0, <2>2, <3>1, PutStays
  <2>5. Quiet'
    <3>1. put[t] # Idle
      BY <2>1, PutsAre
    <3> QED
      BY <1>a, <2>1, <2>2, <3>1, Tasks DEF Quiet
  <2> QED
    BY <1>b, <2>3, <2>4, <2>5
<1>9. ASSUME NEW t \in Task, PutGive(t), put[t].goal = Size[put[t].frame] PROVE PutInv'
  <2>1. /\ put[t].pc = "copy" /\ put[t].done = put[t].goal /\ Goes(t, "post")
        /\ UNCHANGED <<main, input_buf>>
    BY <1>9 DEF PutGive
  <2>2. put'[t] = Then(t, "post") /\ \A u \in Task : u # t => put'[u] = put[u]
    BY <2>1, Goings, PutReplaced
  <2>3. PutRight(t)'
    BY <1>9, <2>1, <2>2, Goings DEF PutRight
  <2>4. \A u \in Task : u # t => PutRight(u)'
    <3>1. \A u \in Task : u # t => put[u].pc # "copy"
      BY <2>1, CopyAlone
    <3> QED
      BY <1>0, <2>2, <3>1, PutStays
  <2>5. Quiet'
    <3>1. put[t] # Idle
      BY <2>1, PutsAre
    <3> QED
      BY <1>a, <2>1, <2>2, <3>1, Tasks DEF Quiet
  <2> QED
    BY <1>b, <2>3, <2>4, <2>5
<1>10. ASSUME NEW t \in Task, PutSpace(t) PROVE PutInv'
  <2>1. /\ put[t].pc = "space" /\ (Goes(t, "sem") \/ Goes(t, "wait")) /\ UNCHANGED <<main, bytes>>
    BY <1>10 DEF PutSpace, tasks
  <2> QED
    BY <1>5, <2>1
<1>11. ASSUME NEW t \in Task, PutWaited(t) PROVE PutInv'
  <2>1. /\ put[t].pc = "wait" /\ UNCHANGED bytes
        /\ ((Goes(t, "sem") /\ UNCHANGED main) \/ Returns(t, FALSE))
    BY <1>11 DEF PutWaited
  <2> QED
    BY <1>5, <1>6, <2>1 DEF bytes
<1>12. ASSUME NEW t \in Task, PutGive(t), put[t].goal # Size[put[t].frame] PROVE PutInv'
  <2>1. put[t].pc = "copy" /\ Returns(t, FALSE) /\ UNCHANGED input_buf
    BY <1>12 DEF PutGive
  <2> QED
    BY <1>6, <2>1
<1>13. ASSUME NEW t \in Task, PutPost(t) PROVE PutInv'
  <2>1. Returns(t, Accepts) /\ UNCHANGED <<input_buf, input_sem>>
    BY <1>13 DEF PutPost, bytes
  <2> QED
    BY <1>6, <2>1
<1> QED
  BY <1>1, <1>2, <1>3, <1>4, <1>7, <1>8, <1>9, <1>10, <1>11, <1>12, <1>13, Steps

-----------------------------------------------------------------------------
(* Commands.                                                               *)

LEMMA CallStep ==
  ASSUME TypeOK, PutInv, CallInv, [Next]_vars
  PROVE  CallInv'
<1> DEFINE n == Cardinality(Units(queue, "output"))
<1>0. /\ queue \in Seq(Event) /\ n \in Nat /\ Len(bus) \in Nat /\ Len(output_buf) \in Nat
      /\ Len(bus) + n + Handling <= Len(output_buf) /\ Handling \in {0, 1}
  <2>1. queue \in Seq(Event)
    BY DEF TypeOK, Event
  <2> QED
    BY <2>1, UnitsFinite DEF TypeOK, CallInv, Handling
<1>a. UNCHANGED <<bus, queue, output_buf, main>> => CallInv'
  BY DEF CallInv, Handling
<1>1. ASSUME NEW c \in Command, HostCalls(c) PROVE CallInv'
  <2>1. Len(bus') = Len(bus) + 1 /\ Len(output_buf') = Len(output_buf) + 1 /\ UNCHANGED <<queue, main>>
    BY <1>1 DEF HostCalls, tasks, TypeOK
  <2> QED
    BY <1>0, <2>1 DEF CallInv, Handling
<1>2. CASE BusCounts
  <2> DEFINE e == [event |-> "output", size |-> 1]
  <2>1. Send(e) /\ Len(bus') = Len(bus) - 1 /\ UNCHANGED <<output_buf, main>>
    BY <1>2 DEF BusCounts, tasks, TypeOK
  <2>2. e \in Event /\ Weight(e, "output") = 1
    BY EventsAre DEF Weight
  <2> HIDE DEF e
  <2>3. queue' = queue \/ queue' = Append(queue, e)
    BY <2>1, <2>2, Sent
  <2>4. Cardinality(Units(queue', "output")) \in {n, n + 1}
    BY <1>0, <2>2, <2>3, UnitsAppended
  <2> QED
    BY <1>0, <2>1, <2>4 DEF CallInv, Handling
<1>3. CASE MainTakes
  <2>1. /\ queue # <<>> /\ Head(queue) \in Event /\ queue' = Tail(queue)
        /\ UNCHANGED <<bus, output_buf>> /\ main = "loop"
        /\ \/ Head(queue).event = "output" /\ main' = "handle"
           \/ Head(queue).event = "input" /\ UNCHANGED main
    <3>1. main = "loop"
      BY <1>3 DEF MainTakes
    <3> QED
      BY <1>3, <3>1, TakenIs
  <2>2. /\ n = Cardinality(Units(queue', "output")) + Weight(Head(queue), "output")
        /\ Cardinality(Units(queue', "output")) \in Nat
    BY <1>0, <2>1, UnitsTaken, UnitsFinite
  <2>3. Head(queue).event = "output" => Weight(Head(queue), "output") = 1
    BY <2>1 DEF Weight, Event, Input, Output
  <2>4. Head(queue).event = "input" => Weight(Head(queue), "output") = 0
    BY DEF Weight
  <2> QED
    BY <1>0, <2>1, <2>2, <2>3, <2>4 DEF CallInv, Handling
<1>4. CASE Answer \/ Refuse \/ RefuseLocked
  <2>1. /\ main = "handle" /\ main' \in {"answer", "refuse"} /\ output_buf # <<>>
        /\ output_buf' = Tail(output_buf) /\ UNCHANGED <<bus, queue>>
    BY <1>4, Replied
  <2>2. Len(output_buf') = Len(output_buf) - 1
    BY <2>1 DEF TypeOK
  <2> QED
    BY <1>0, <2>1, <2>2 DEF CallInv, Handling
<1>5. ASSUME NEW t \in Task, NEW ok, Returns(t, ok), UNCHANGED <<bus, output_buf>>,
             queue' = queue \/ Cardinality(Units(queue', "output")) = n
      PROVE  CallInv'
  <2>1. Handling' <= Handling
    BY <1>5, Returned DEF Handling
  <2>2. Handling' \in {0, 1}
    BY DEF Handling
  <2> QED
    BY <1>0, <1>5, <2>1, <2>2 DEF CallInv
<1>6. ASSUME NEW t \in Task, PutPost(t) PROVE CallInv'
  <2> DEFINE e == [event |-> "input", size |-> Size[put[t].frame]]
  <2>1. Send(e) /\ Returns(t, Accepts) /\ UNCHANGED <<bus, output_buf>>
    BY <1>6 DEF PutPost
  <2>2. e \in Event /\ Weight(e, "output") = 0
    BY EventsAre, PutIs DEF Weight
  <2> HIDE DEF e
  <2>3. queue' = queue \/ queue' = Append(queue, e)
    BY <2>1, <2>2, Sent
  <2>4. Cardinality(Units(queue', "output")) = n
    BY <1>0, <2>2, <2>3, UnitsSame
  <2> QED
    BY <1>5, <2>1, <2>4
<1>7. ASSUME NEW t \in Task, PutWaited(t) \/ PutGive(t) PROVE CallInv'
  BY <1>a, <1>5, <1>7 DEF PutWaited, PutGive
<1>8. CASE \/ ZbossTakes \/ ZbossGives \/ (\E k \in Note : Notify(k)) \/ UNCHANGED vars
           \/ \E t \in Task : PutSpace(t) \/ PutTake(t) \/ PutCopy(t)
  BY <1>a, <1>8 DEF ZbossTakes, ZbossGives, Notify, PutSpace, PutTake, PutCopy, vars, tasks
<1> QED
  BY <1>1, <1>2, <1>3, <1>4, <1>6, <1>7, <1>8, Steps

-----------------------------------------------------------------------------
(* Bytes counted.                                                          *)

Part(t) == IF put[t].pc \in {"copy", "post"} THEN put[t].done ELSE 0

LEMMA CopiedIs ==
  ASSUME TypeOK
  PROVE  /\ Copied = Part(Main) + Part(Zboss)
         /\ \A t \in Task : Part(t) \in Nat /\ Part(t) <= Copied
         /\ Copied \in Nat
<1>1. \A t \in Task : Part(t) \in Nat
  BY PutIs, SpaceIs DEF Part
<1>2. Copied = Part(Main) + Part(Zboss)
  BY DEF Copied, Part
<1> QED
  BY <1>1, <1>2, Tasks

\* One put alone has changed.
LEMMA CopiedChanges ==
  ASSUME TypeOK, TypeOK', NEW t \in Task, \A u \in Task : u # t => put'[u] = put[u]
  PROVE  Copied' = Copied - Part(t) + Part(t)' /\ Part(t)' \in Nat
<1>1. Copied = Part(Main) + Part(Zboss) /\ \A u \in Task : Part(u) \in Nat
  BY CopiedIs
<1>2. Part(Main)' \in Nat /\ Part(Zboss)' \in Nat
  <2>1. \A u \in Task : put'[u].done \in 0 .. Space
    BY DEF TypeOK
  <2>2. put'[Main].done \in Nat /\ put'[Zboss].done \in Nat
    BY <2>1, Tasks, SpaceIs
  <2> QED
    BY <2>2 DEF Part
<1>3. Copied' = Part(Main)' + Part(Zboss)'
  BY DEF Copied, Part
<1>4. \A u \in Task : u # t => Part(u)' = Part(u)
  BY DEF Part
<1>5. CASE t = Main
  <2>1. Part(Zboss)' = Part(Zboss) /\ Part(t)' = Part(Main)' /\ Part(t) = Part(Main)
    BY <1>4, <1>5, Tasks DEF Part
  <2> QED
    BY <1>1, <1>2, <1>3, <2>1, Tasks
<1>6. CASE t = Zboss
  <2>1. Part(Main)' = Part(Main) /\ Part(t)' = Part(Zboss)' /\ Part(t) = Part(Zboss)
    BY <1>4, <1>6, Tasks DEF Part
  <2> QED
    BY <1>1, <1>2, <1>3, <2>1, Tasks
<1> QED
  BY <1>5, <1>6, Tasks

LEMMA CountStep ==
  ASSUME TypeOK, PutInv, CallInv, CountInv, [Next]_vars
  PROVE  CountInv'
<1>0. TypeOK'
  BY TypeStep
<1>a. /\ queue \in Seq(Event) /\ Queued = Cardinality(Units(queue, "input")) /\ Queued \in Nat
      /\ Len(input_buf) \in Nat /\ Copied \in Nat /\ lost \in BOOLEAN
      /\ Queued' = Cardinality(Units(queue', "input"))
  <2>1. queue \in Seq(Event)
    BY DEF TypeOK, Event
  <2>2. Queued = Cardinality(Units(queue, "input")) /\ Queued' = Cardinality(Units(queue', "input"))
    BY DEF Queued, Units
  <2> QED
    BY <2>1, <2>2, UnitsFinite, CopiedIs DEF TypeOK
<1>b. Queued + Copied <= Len(input_buf) /\ (~lost => Queued + Copied = Len(input_buf))
  BY DEF CountInv
\* Nothing counted or put: neither the buffer changes, nor what is to be counted.
<1>c. ASSUME Queued' = Queued, Copied' = Copied, UNCHANGED input_buf, lost => lost' PROVE CountInv'
  BY <1>b, <1>c DEF CountInv
<1>d. UNCHANGED queue => Queued' = Queued
  BY <1>a
<1>e. UNCHANGED put => Copied' = Copied
  BY DEF Copied
\* As many bytes taken as are counted no more.
<1>f. ASSUME NEW k \in Nat, Queued' \in Nat, Queued = Queued' + k,
             Len(input_buf') = Len(input_buf) - k, Copied' = Copied, lost' = lost
      PROVE  CountInv'
  <2>1. Queued' + Copied' <= Len(input_buf')
    BY <1>a, <1>b, <1>f
  <2>2. ~lost' => Queued' + Copied' = Len(input_buf')
    <3> DEFINE q == Queued'
               c == Copied
               l == Len(input_buf)
    <3>1. q \in Nat /\ c \in Nat /\ l \in Nat
      BY <1>a, <1>f
    <3>2. (q + k) + c = l => q + c = l - k
      <4> HIDE DEF q, c, l
      <4> QED
        BY <3>1
    <3>3. ~lost' => (q + k) + c = l
      BY <1>b, <1>f
    <3> QED
      BY <1>f, <3>2, <3>3
  <2> QED
    BY <2>1, <2>2 DEF CountInv
\* What was about to be counted is counted.
<1>h. ASSUME NEW k \in Nat, Queued' = Queued + k, Copied' \in Nat, Copied' + k = Copied,
             UNCHANGED input_buf, lost' = lost
      PROVE  CountInv'
  <2>1. Queued' + Copied' = Queued + Copied
    <3> DEFINE q == Queued
               d == Copied'
    <3>1. q \in Nat /\ d \in Nat
      BY <1>a, <1>h
    <3>2. Queued' = q + k /\ d + k = Copied
      BY <1>h
    <3>3. (q + k) + d = q + (d + k)
      <4> HIDE DEF q, d
      <4> QED
        BY <3>1
    <3> QED
      BY <3>2, <3>3
  <2> QED
    BY <1>b, <1>h, <2>1 DEF CountInv
<1>g. ASSUME NEW t \in Task, NEW r \in Puts, put' = [put EXCEPT ![t] = r],
             put[t].pc \notin {"copy", "post"}, r.pc \notin {"copy", "post"} \/ r.done = 0
      PROVE  Copied' = Copied
  <2>1. put'[t] = r /\ \A u \in Task : u # t => put'[u] = put[u]
    BY <1>g, PutReplaced
  <2>2. Part(t) = 0 /\ Part(t)' = 0
    BY <1>g, <2>1 DEF Part
  <2>3. Copied' = Copied - Part(t) + Part(t)'
    BY <1>0, <2>1, CopiedChanges
  <2> QED
    BY <1>a, <2>2, <2>3
<1>1. CASE (\E c \in Command : HostCalls(c)) \/ ZbossTakes \/ ZbossGives \/ UNCHANGED vars
  BY <1>1, <1>c, <1>d, <1>e DEF HostCalls, ZbossTakes, ZbossGives, vars, bytes
<1>2. CASE BusCounts
  <2> DEFINE e == [event |-> "output", size |-> 1]
  <2>1. Send(e) /\ UNCHANGED <<put, input_buf>>
    BY <1>2 DEF BusCounts, bytes
  <2>2. e \in Event /\ Weight(e, "input") = 0
    BY EventsAre DEF Weight
  <2> HIDE DEF e
  <2>3. (queue' = queue \/ queue' = Append(queue, e)) /\ (lost => lost')
    BY <2>1, <2>2, Sent
  <2>4. Queued' = Queued
    BY <1>a, <2>2, <2>3, UnitsSame
  <2> QED
    BY <1>c, <1>e, <2>1, <2>3, <2>4
<1>3. CASE MainTakes
  <2> DEFINE e == Head(queue)
  <2>1. queue # <<>> /\ e \in Event /\ queue' = Tail(queue) /\ UNCHANGED <<put, lost>>
    BY <1>3, TakenIs
  <2>2. Queued = Queued' + Weight(e, "input") /\ Queued' \in Nat
    <3>1. Tail(queue) \in Seq(Event)
      BY <1>a, <2>1, UnitsTaken
    <3> QED
      BY <1>a, <2>1, <3>1, UnitsTaken, UnitsFinite
  <2>3. CASE e.event = "output"
    <3>1. UNCHANGED input_buf
      BY <1>3, <2>3, TakenIs
    <3>2. Weight(e, "input") = 0
      BY <2>3 DEF Weight
    <3>3. Queued' = Queued
      BY <2>2, <3>2
    <3> QED
      BY <1>c, <1>e, <2>1, <3>1, <3>3
  <2>4. CASE e.event = "input"
    <3>1. Weight(e, "input") = e.size /\ e.size \in Nat
      BY <2>1, <2>4, EventIs, SpaceIs DEF Weight
    <3>2. e.size <= Len(input_buf)
      BY <1>a, <1>b, <2>2, <3>1
    <3>3. Len(input_buf') = Len(input_buf) - e.size
      BY <1>3, <2>4, <3>2, TakenIs
    <3>4. Copied' = Copied /\ lost' = lost
      BY <1>e, <2>1
    <3>5. Queued = Queued' + e.size
      BY <2>2, <3>1
    <3> QED
      BY <1>f, <2>2, <3>1, <3>3, <3>4, <3>5
  <2> QED
    BY <2>1, <2>3, <2>4, EventIs
<1>4. CASE Answer \/ Refuse \/ RefuseLocked
  <2>1. PICK f \in Frame : /\ main = "handle"
                           /\ put' = [put EXCEPT ![Main] = Begin(f)] /\ Begin(f) \in Puts
                           /\ UNCHANGED <<queue, bytes, lost>>
    BY <1>4, Replied
  <2>2. put[Main].pc = "none"
    BY <2>1, PutsAre DEF PutInv
  <2>3. Copied' = Copied
    BY <1>g, <2>1, <2>2, PutsAre, Tasks
  <2> QED
    BY <1>c, <1>d, <2>1, <2>3 DEF bytes
<1>5. ASSUME NEW n \in Note, Notify(n) PROVE CountInv'
  <2>1. /\ put' = [put EXCEPT ![Zboss] = Begin(n)] /\ n \in Frame /\ put[Zboss] = Idle
        /\ UNCHANGED <<queue, bytes, lost>>
    BY <1>5 DEF Notify, Frame
  <2>2. Copied' = Copied
    BY <1>g, <2>1, PutsAre, Tasks
  <2> QED
    BY <1>c, <1>d, <2>1, <2>2 DEF bytes
<1>6. ASSUME NEW t \in Task, NEW x \in {"wait", "sem"}, put[t].pc \in {"space", "wait"},
             Goes(t, x), UNCHANGED <<queue, bytes, lost>>
      PROVE  CountInv'
  <2>1. Copied' = Copied
    BY <1>g, <1>6, Goings
  <2> QED
    BY <1>c, <1>d, <1>6, <2>1 DEF bytes
<1>7. ASSUME NEW t \in Task, PutSpace(t) PROVE CountInv'
  <2>1. /\ put[t].pc = "space" /\ (Goes(t, "sem") \/ Goes(t, "wait"))
        /\ UNCHANGED <<queue, bytes, lost>>
    BY <1>7 DEF PutSpace
  <2> QED
    BY <1>6, <2>1
<1>8. ASSUME NEW t \in Task, PutWaited(t) PROVE CountInv'
  <2>1. /\ put[t].pc = "wait" /\ UNCHANGED <<queue, bytes>>
        /\ \/ Goes(t, "sem") /\ UNCHANGED lost
           \/ Returns(t, FALSE) /\ lost' = (lost \/ t = Main)
    BY <1>8 DEF PutWaited
  <2>2. CASE Goes(t, "sem") /\ UNCHANGED lost
    BY <1>6, <2>1, <2>2
  <2>3. CASE Returns(t, FALSE) /\ lost' = (lost \/ t = Main)
    <3>1. Copied' = Copied
      BY <1>g, <2>1, <2>3, Returned, PutsAre
    <3> QED
      BY <1>c, <1>d, <2>1, <2>3, <3>1 DEF bytes
  <2> QED
    BY <2>1, <2>2, <2>3
<1>9. ASSUME NEW t \in Task, PutTake(t) PROVE CountInv'
  <2>1. put[t].pc = "sem" /\ UNCHANGED <<queue, input_buf, lost>>
    BY <1>9 DEF PutTake
  <2>2. put[t].done = 0
    BY <2>1 DEF PutInv, PutRight
  <2>3. Copied' = Copied
    BY <1>9, <1>g, <2>1, <2>2, Taking
  <2> QED
    BY <1>c, <1>d, <2>1, <2>3
<1>10. ASSUME NEW t \in Task, PutCopy(t) PROVE CountInv'
  <2>1. /\ put[t].pc = "copy" /\ UNCHANGED <<queue, lost>>
        /\ Len(input_buf') = Len(input_buf) + 1
    BY <1>10, CopyFits DEF PutCopy, TypeOK
  <2>2. put'[t] = Copying(t) /\ \A u \in Task : u # t => put'[u] = put[u]
    BY <1>10, Copies, PutReplaced
  <2>3. Part(t)' = Part(t) + 1 /\ Part(t) \in Nat
    BY <1>10, <2>1, <2>2, Copies, CopiedIs DEF Part
  <2>4. Copied' = Copied - Part(t) + Part(t)'
    BY <1>0, <2>2, CopiedChanges
  <2>5. Copied' = Copied + 1
    BY <1>a, <2>3, <2>4
  <2> QED
    BY <1>a, <1>b, <1>d, <2>1, <2>5 DEF CountInv
<1>11. ASSUME NEW t \in Task, PutGive(t) PROVE CountInv'
  <2>1. /\ put[t].pc = "copy" /\ put[t].done = put[t].goal /\ UNCHANGED <<queue, input_buf>>
        /\ \/ Goes(t, "post") /\ UNCHANGED lost
           \/ Returns(t, FALSE) /\ lost' = TRUE
    BY <1>11 DEF PutGive
  <2>2. CASE Goes(t, "post") /\ UNCHANGED lost
    <3>1. put'[t] = Then(t, "post") /\ \A u \in Task : u # t => put'[u] = put[u]
      BY <2>2, Goings, PutReplaced
    <3>2. Part(t)' = Part(t) /\ Part(t) \in Nat
      BY <2>1, <3>1, Goings, CopiedIs DEF Part
    <3>3. Copied' = Copied - Part(t) + Part(t)'
      BY <1>0, <3>1, CopiedChanges
    <3> QED
      BY <1>a, <1>c, <1>d, <2>1, <2>2, <3>2, <3>3
  <2>3. CASE Returns(t, FALSE) /\ lost' = TRUE
    <3>1. put'[t] = Idle /\ \A u \in Task : u # t => put'[u] = put[u]
      BY <2>3, Returned, PutReplaced
    <3>2. Part(t)' = 0 /\ Part(t) \in Nat /\ Part(t) <= Copied
      BY <3>1, PutsAre, CopiedIs DEF Part
    <3>3. Copied' = Copied - Part(t) + Part(t)'
      BY <1>0, <3>1, CopiedChanges
    <3>4. Copied' \in Nat /\ Copied' <= Copied
      BY <1>a, <3>2, <3>3
    <3> QED
      BY <1>a, <1>b, <1>d, <2>1, <2>3, <3>4 DEF CountInv
  <2> QED
    BY <2>1, <2>2, <2>3
<1>12. ASSUME NEW t \in Task, PutPost(t) PROVE CountInv'
  <2> DEFINE e == [event |-> "input", size |-> Size[put[t].frame]]
  <2>1. put[t].pc = "post" /\ Send(e) /\ Returns(t, Accepts) /\ UNCHANGED input_buf
    BY <1>12 DEF PutPost, bytes
  <2>2. put[t].done = Size[put[t].frame]
    BY <2>1 DEF PutInv, PutRight
  <2>3. e \in Event /\ Weight(e, "input") = Part(t)
    BY <2>1, <2>2, EventsAre, PutIs DEF Weight, Part
  <2> HIDE DEF e
  <2>4. put'[t] = Idle /\ \A u \in Task : u # t => put'[u] = put[u]
    BY <2>1, Returned, PutReplaced
  <2>5. Part(t)' = 0 /\ Part(t) \in Nat /\ Part(t) <= Copied
    BY <2>4, PutsAre, CopiedIs DEF Part
  <2>6. Copied' = Copied - Part(t) + Part(t)'
    BY <1>0, <2>4, CopiedChanges
  <2>7. Copied' + Part(t) = Copied /\ Copied' \in Nat
    BY <1>a, <2>5, <2>6
  <2>8. \/ queue' = Append(queue, e) /\ UNCHANGED lost
        \/ UNCHANGED queue /\ lost' = TRUE
    BY <2>1, <2>3, Sent
  <2>9. CASE queue' = Append(queue, e) /\ UNCHANGED lost
    <3>1. Queued' = Queued + Part(t)
      BY <1>a, <2>3, <2>9, UnitsAppended
    <3> QED
      BY <1>h, <2>1, <2>5, <2>7, <2>9, <3>1
  <2>10. CASE UNCHANGED queue /\ lost' = TRUE
    BY SMTT(20), <1>a, <1>b, <1>d, <2>1, <2>5, <2>7, <2>10 DEF CountInv
  <2> QED
    BY <2>8, <2>9, <2>10
<1> QED
  BY <1>1, <1>2, <1>3, <1>4, <1>5, <1>7, <1>8, <1>9, <1>10, <1>11, <1>12, Steps

-----------------------------------------------------------------------------
(* The bytes of a frame.                                                   *)

Follows(s) ==
  \A k \in DOMAIN s : s[k][2] > 1 => k > 1 /\ s[k - 1] = <<s[k][1], s[k][2] - 1>>

EndsWith(s, b) == s # <<>> /\ s[Len(s)] = b

LEMMA FollowsAppended ==
  ASSUME NEW s \in Seq(Byte), Follows(s), NEW b \in Byte,
         b[2] > 1 => EndsWith(s, <<b[1], b[2] - 1>>)
  PROVE  Follows(Append(s, b)) /\ EndsWith(Append(s, b), b)
<1> DEFINE r == Append(s, b)
           n == Len(s)
<1>1. /\ n \in Nat /\ DOMAIN s = 1 .. n /\ DOMAIN r = 1 .. n + 1 /\ r[n + 1] = b
      /\ Len(r) = n + 1 /\ r # <<>> /\ \A k \in 1 .. n : r[k] = s[k]
  OBVIOUS
<1>2. s # <<>> => n >= 1
  OBVIOUS
<1> HIDE DEF r, n
<1>3. ASSUME NEW k \in 1 .. n, r[k][2] > 1 PROVE k > 1 /\ r[k - 1] = <<r[k][1], r[k][2] - 1>>
  <2>1. r[k] = s[k] /\ k \in DOMAIN s
    BY <1>1
  <2>2. k > 1 /\ s[k - 1] = <<s[k][1], s[k][2] - 1>>
    BY <1>3, <2>1 DEF Follows
  <2>3. k - 1 \in 1 .. n
    BY <1>1, <2>2
  <2> QED
    BY <1>1, <2>1, <2>2, <2>3
<1>4. ASSUME b[2] > 1 PROVE n + 1 > 1 /\ r[n] = <<b[1], b[2] - 1>>
  <2>1. s # <<>> /\ s[n] = <<b[1], b[2] - 1>>
    BY <1>4 DEF EndsWith, n
  <2> QED
    BY <1>1, <1>2, <2>1
<1>5. Follows(r)
  <2> SUFFICES ASSUME NEW k \in 1 .. n + 1, r[k][2] > 1
               PROVE  k > 1 /\ r[k - 1] = <<r[k][1], r[k][2] - 1>>
    BY <1>1 DEF Follows
  <2>1. CASE k \in 1 .. n
    BY <1>3, <2>1
  <2>2. CASE k = n + 1
    <3>1. r[k] = b /\ k - 1 = n
      BY <1>1, <2>2
    <3> QED
      BY <1>4, <2>2, <3>1
  <2> QED
    BY <1>1, <2>1, <2>2
<1> QED
  BY <1>1, <1>5 DEF EndsWith, r

LEMMA AppendedAfter ==
  ASSUME NEW S, NEW l \in Seq(S), NEW s \in Seq(S), NEW b \in S
  PROVE  l \o Append(s, b) = Append(l \o s, b) /\ l \o s \in Seq(S)
OBVIOUS

\* The buffer holds what the event taken counts.
LEMMA Enough ==
  ASSUME TypeOK, CountInv, MainTakes, Head(queue).event = "input"
  PROVE  Head(queue).size <= Len(input_buf)
<1> DEFINE n == Cardinality(Units(Tail(queue), "input"))
           e == Head(queue)
<1>1. queue \in Seq(Event) /\ queue # <<>> /\ e \in Event
  BY TakenIs
<1>2. Weight(e, "input") = e.size /\ e.size \in Nat
  BY <1>1, EventIs, SpaceIs DEF Weight
<1>3. Queued = n + e.size /\ n \in Nat
  <2>1. Queued = Cardinality(Units(queue, "input"))
    BY DEF Queued, Units
  <2>2. Tail(queue) \in Seq(Event)
    BY <1>1, UnitsTaken
  <2> QED
    BY <1>1, <1>2, <2>1, <2>2, UnitsTaken, UnitsFinite
<1>4. Copied \in Nat /\ Len(input_buf) \in Nat
  BY CopiedIs DEF TypeOK
<1> HIDE DEF n, e
<1>5. n + e.size + Copied <= Len(input_buf)
  BY <1>3 DEF CountInv
<1> QED
  BY <1>2, <1>3, <1>4, <1>5 DEF e

LEMMA ByteIs ==
  ByteInv <=> LET s == line \o input_buf
              IN  /\ Follows(s)
                  /\ \A t \in Task : put[t].pc = "copy" /\ put[t].done > 0 =>
                       EndsWith(s, <<put[t].frame, put[t].done>>)
BY DEF ByteInv, Together, Follows, EndsWith

LEMMA ByteStep ==
  ASSUME TypeOK, PutInv, CallInv, CountInv, ByteInv, [Next]_vars
  PROVE  ByteInv'
<1> DEFINE s == line \o input_buf
<1>0. /\ Follows(s)
      /\ \A t \in Task : put[t].pc = "copy" /\ put[t].done > 0 =>
           EndsWith(s, <<put[t].frame, put[t].done>>)
  BY ByteIs
<1>a. ASSUME s' = s,
             \A t \in Task : put'[t].pc = "copy" /\ put'[t].done > 0 =>
               put[t].pc = "copy" /\ put'[t].frame = put[t].frame /\ put'[t].done = put[t].done
      PROVE  ByteInv'
  <2> DEFINE Bytes(u) == /\ Follows(u)
                         /\ \A t \in Task : put'[t].pc = "copy" /\ put'[t].done > 0 =>
                              EndsWith(u, <<put'[t].frame, put'[t].done>>)
  <2>1. Bytes(s)
    BY <1>0, <1>a
  <2>2. Bytes(s')
    BY <1>a, <2>1
  <2> QED
    BY <2>2 DEF ByteInv, Together, Follows, EndsWith
<1>b. UNCHANGED <<line, input_buf, put>> => ByteInv'
  BY <1>a
<1>c. ASSUME NEW t \in Task, NEW r \in Puts, put' = [put EXCEPT ![t] = r],
             r.pc # "copy" \/ r.done = 0, UNCHANGED <<line, input_buf>>
      PROVE  ByteInv'
  <2>1. put'[t] = r /\ \A u \in Task : u # t => put'[u] = put[u]
    BY <1>c, PutReplaced
  <2>2. \A u \in Task : put'[u].pc = "copy" /\ put'[u].done > 0 => put'[u] = put[u]
    BY <1>c, <2>1
  <2> QED
    BY <1>a, <1>c, <2>2
<1>1. CASE \/ \E c \in Command : HostCalls(c)
           \/ BusCounts \/ ZbossTakes \/ ZbossGives \/ UNCHANGED vars
  BY <1>1, <1>b DEF HostCalls, BusCounts, ZbossTakes, ZbossGives, vars, bytes
<1>2. CASE MainTakes
  <2>1. UNCHANGED put /\ s' = s
    BY <1>2, TakenIs, Enough
  <2> QED
    BY <1>a, <2>1
<1>3. CASE Answer \/ Refuse \/ RefuseLocked
  <2>1. PICK f \in Frame : /\ put' = [put EXCEPT ![Main] = Begin(f)] /\ Begin(f) \in Puts
                           /\ UNCHANGED <<bytes, line>>
    BY <1>3, Replied
  <2> QED
    BY <1>c, <2>1, PutsAre, Tasks DEF bytes
<1>4. ASSUME NEW n \in Note, Notify(n) PROVE ByteInv'
  <2>1. n \in Frame /\ put' = [put EXCEPT ![Zboss] = Begin(n)] /\ UNCHANGED <<bytes, line>>
    BY <1>4 DEF Notify, Frame
  <2> QED
    BY <1>c, <2>1, PutsAre, Tasks DEF bytes
<1>5. ASSUME NEW t \in Task, NEW x \in {"wait", "sem", "post"}, Goes(t, x),
             UNCHANGED <<line, input_buf>>
      PROVE  ByteInv'
  BY <1>5, <1>c, Goings
<1>6. ASSUME NEW t \in Task, NEW ok, Returns(t, ok), UNCHANGED <<line, input_buf>> PROVE ByteInv'
  BY <1>6, <1>c, Returned, PutsAre
<1>7. ASSUME NEW t \in Task, PutSpace(t) \/ PutWaited(t) \/ PutGive(t) \/ PutPost(t) PROVE ByteInv'
  <2>1. UNCHANGED <<line, input_buf>>
    BY <1>7 DEF PutSpace, PutWaited, PutGive, PutPost, bytes
  <2>2. \/ \E x \in {"wait", "sem", "post"} : Goes(t, x)
        \/ \E ok \in BOOLEAN : Returns(t, ok)
    BY <1>7 DEF PutSpace, PutWaited, PutGive, PutPost, Accepts
  <2> QED
    BY <1>5, <1>6, <2>1, <2>2
<1>8. ASSUME NEW t \in Task, PutTake(t) PROVE ByteInv'
  <2>1. put[t].pc = "sem" /\ UNCHANGED <<line, input_buf>>
    BY <1>8 DEF PutTake
  <2>2. put[t].done = 0
    BY <2>1 DEF PutInv, PutRight
  <2> QED
    BY <1>8, <1>c, <2>1, <2>2, Taking
<1>9. ASSUME NEW t \in Task, PutCopy(t) PROVE ByteInv'
  <2> DEFINE b == <<put[t].frame, put[t].done + 1>>
  <2>1. /\ put[t].pc = "copy" /\ input_buf' = Append(input_buf, b) /\ line' = line
        /\ b \in Byte
    BY <1>9, CopyFits DEF PutCopy
  <2>2. put[t].done \in Nat
    BY PutIs, SpaceIs
  <2>3. s \in Seq(Byte) /\ s' = Append(s, b)
    <3>1. line \in Seq(Byte) /\ input_buf \in Seq(Byte)
      BY DEF TypeOK
    <3>2. s' = line \o Append(input_buf, b)
      BY <2>1
    <3> HIDE DEF b
    <3> QED
      BY <2>1, <3>1, <3>2, AppendedAfter
  <2>4. put'[t] = Copying(t) /\ \A u \in Task : u # t => put'[u] = put[u]
    BY <1>9, Copies, PutReplaced
  <2>5. put'[t].frame = b[1] /\ put'[t].done = b[2]
    BY <1>9, <2>4, Copies
  <2>6. b[2] > 1 => EndsWith(s, <<b[1], b[2] - 1>>)
    <3>1. b[2] > 1 => put[t].done > 0
      BY <2>2
    <3>2. b[1] = put[t].frame /\ b[2] - 1 = put[t].done
      BY <2>2
    <3> QED
      BY <1>0, <2>1, <3>1, <3>2
  <2>7. Follows(Append(s, b)) /\ EndsWith(Append(s, b), b)
    <3> HIDE DEF s, b
    <3> QED
      BY <1>0, <2>1, <2>3, <2>6, FollowsAppended
  <2>8. \A u \in Task : put'[u].pc = "copy" => u = t
    BY <2>1, <2>4, CopyAlone
  <2>9. b = <<b[1], b[2]>>
    OBVIOUS
  <2> DEFINE Bytes(u) == /\ Follows(u)
                         /\ \A v \in Task : put'[v].pc = "copy" /\ put'[v].done > 0 =>
                              EndsWith(u, <<put'[v].frame, put'[v].done>>)
  <2>10. Bytes(Append(s, b))
    BY <2>5, <2>7, <2>8, <2>9
  <2>11. Bytes(s')
    BY <2>3, <2>10
  <2> QED
    BY <2>11 DEF ByteInv, Together, Follows, EndsWith
<1> QED
  BY <1>1, <1>2, <1>3, <1>4, <1>7, <1>8, <1>9, Steps

-----------------------------------------------------------------------------
(* The theorems.                                                           *)

LEMMA Starts == Init => IInv
<1> SUFFICES ASSUME Init PROVE IInv
  OBVIOUS
<1>1. TypeOK
  BY TypeInit
<1>2. put = [t \in Task |-> Idle]
  BY DEF Init
<1>3. PutInv
  BY <1>2, PutsAre, Tasks DEF PutInv, PutRight
<1>4. Queued = 0 /\ Cardinality(Units(queue, "output")) = 0
  <2>1. queue = <<>>
    BY DEF Init
  <2>2. Queued = Cardinality(Units(queue, "input"))
    BY DEF Queued, Units
  <2> QED
    BY <2>1, <2>2, UnitsOfNone
<1>5. CallInv
  BY <1>4 DEF Init, CallInv, Handling
<1>6. Copied = 0
  BY <1>2, PutsAre, Tasks DEF Copied
<1>7. CountInv
  BY <1>4, <1>6 DEF CountInv, Init
<1>8. ByteInv
  <2>1. line \o input_buf = <<>>
    BY DEF Init
  <2>2. \A t \in Task : put[t].pc # "copy"
    BY <1>2, PutsAre
  <2> QED
    BY <2>1, <2>2 DEF ByteInv, Together
<1> QED
  BY <1>1, <1>3, <1>5, <1>7, <1>8 DEF IInv

LEMMA Kept == IInv /\ [Next]_vars => IInv'
<1> SUFFICES ASSUME IInv, [Next]_vars PROVE IInv'
  OBVIOUS
<1>1. TypeOK /\ PutInv /\ CallInv /\ CountInv /\ ByteInv
  BY DEF IInv
<1>2. TypeOK' /\ PutInv' /\ CallInv' /\ CountInv' /\ ByteInv'
  BY <1>1, TypeStep, PutStep, CallStep, CountStep, ByteStep
<1> QED
  BY <1>2 DEF IInv

LEMMA Invariant == Spec => []IInv
BY Starts, Kept, PTL DEF Spec

\* Buffers, queue, puts and owners keep their types; the queue and the buffer stay
\* within QueueLen and Space, whatever the two tasks put into them.
THEOREM TypeCorrect == Spec => []TypeOK
<1>1. IInv => TypeOK
  BY DEF IInv
<1> QED
  BY <1>1, Invariant, PTL

\* The bytes of a frame follow one another on the UART, however the puts of the
\* main task and of the Zigbee task interleave and wherever a frame was cut.
THEOREM FramesTogether == Spec => []Together
<1>1. IInv => Together
  BY DEF IInv, ByteInv
<1> QED
  BY <1>1, Invariant, PTL

\* The events never count bytes that are not in the buffer, so that the main task throws none
\* away, and while nothing is lost every byte is counted or is about to be.
THEOREM BytesCounted == Spec => []Counted
<1>1. IInv => Counted
  <2> SUFFICES ASSUME IInv PROVE Counted
    OBVIOUS
  <2>1. TypeOK /\ CountInv
    BY DEF IInv
  <2>2. queue \in Seq(Event)
    BY <2>1 DEF TypeOK, Event
  <2>3. Queued \in Nat /\ Copied \in Nat /\ Len(input_buf) \in Nat
    <3>1. Queued = Cardinality(Units(queue, "input"))
      BY DEF Queued, Units
    <3> QED
      BY <2>1, <2>2, <3>1, UnitsFinite, CopiedIs DEF TypeOK
  <2> QED
    BY <2>1, <2>3 DEF CountInv, Counted
<1> QED
  BY <1>1, Invariant, PTL

=============================================================================
