--------------------------- MODULE NcpLink_proofs ---------------------------
(***************************************************************************)
(* Proofs about NcpLink: type correctness, the serialisation of commands   *)
(* over the link, and that a call's answer is its own, for every set of    *)
(* tasks, command ids, notifications and faults and for queues of any      *)
(* length.                                                                 *)
(***************************************************************************)
EXTENDS NcpLink, TLAPS

(* The one-line tests and copies that the actions are built from.          *)
USE DEF LockFree, EventsFull, Post, CopyAnswer, IsAnswer, IsNote, Faulty

LEMMA FramesTyped ==
  /\ \A c \in Command, k \in Call : Request(c, k) \in RequestFrame
  /\ \A c \in Command \cup {ErrorId}, k \in Call, b \in BOOLEAN :
       Response(c, k, b) \in ResponseFrame
  /\ \A n \in Note \cup {"failure"} : Noti(n) \in NoteFrame
  /\ Bad \in Frame /\ Break \in Frame
  /\ RequestFrame \subseteq Frame /\ ResponseFrame \subseteq Frame /\ NoteFrame \subseteq Frame
BY DEF Request, Response, Noti, RequestFrame, ResponseFrame, NoteFrame, Frame

(* The task sets, and what a frame of each type is.                        *)
LEMMA TasksTyped ==
  /\ Caller \subseteq Task /\ Starter \subseteq Task /\ Zb \in Task /\ Main \in Task
  /\ Zb \in Starter /\ Main \in Starter
  /\ Plain \subseteq Command /\ InitCmd \in Command /\ StartCmd \in Command
  /\ \A t \in Task, b \in 0 .. Turns - 1 : <<t, b>> \in Call
BY DEF Task, Starter, Command, Call

LEMMA FrameByType ==
  ASSUME NEW m \in Frame
  PROVE  /\ m.type = "req"  => m \in RequestFrame
         /\ m.type = "resp" => m \in ResponseFrame
         /\ m.type = "note" => m \in NoteFrame
<1>1. ASSUME m \in RequestFrame PROVE m.type = "req"
  BY <1>1 DEF RequestFrame
<1>2. ASSUME m \in ResponseFrame PROVE m.type = "resp"
  BY <1>2 DEF ResponseFrame
<1>3. ASSUME m \in NoteFrame PROVE m.type = "note"
  BY <1>3 DEF NoteFrame
<1>4. Bad.type = "bad" /\ Break.type = "break"
  BY DEF Bad, Break
<1> QED
  BY <1>1, <1>2, <1>3, <1>4 DEF Frame

LEMMA FieldsTyped ==
  /\ \A m \in RequestFrame  : m.id \in Command /\ m.call \in Call
  /\ \A m \in ResponseFrame : m.call \in Call /\ m.ok \in BOOLEAN
  /\ \A m \in NoteFrame     : m.id \in Note \cup {"failure"}
BY DEF RequestFrame, ResponseFrame, NoteFrame

LEMMA AppendTyped ==
  ASSUME NEW S, NEW q \in Seq(S), NEW x \in S
  PROVE  Append(q, x) \in Seq(S) /\ Append(q, x) # <<>>
<1> DEFINE r == Append(q, x)
<1>1. r \in Seq(S) /\ Len(r) = Len(q) + 1 /\ Len(q) \in Nat
  OBVIOUS
<1> HIDE DEF r
<1>2. r # <<>>
  BY <1>1
<1> QED
  BY <1>1, <1>2 DEF r

(* A post adds its frame or nothing.                                       *)
LEMMA PostAdds ==
  ASSUME NEW m PROVE Post(m) = events \/ Post(m) = Append(events, m)
OBVIOUS

LEMMA EmptyTyped == \A S : <<>> \in Seq(S)
OBVIOUS

LEMMA BringTyped ==
  /\ SetupCalls + ReadCalls \in 0 .. SetupCalls + ReadCalls
  /\ 0 \in 0 .. SetupCalls + ReadCalls
  /\ \A n \in 0 .. SetupCalls + ReadCalls : n > 0 => n - 1 \in 0 .. SetupCalls + ReadCalls
<1>1. SetupCalls \in Nat /\ ReadCalls \in Nat
  BY LinkAssumption
<1> QED
  BY <1>1

(* What an action leaves alone keeps its type.                             *)
LEMMA TypesKept ==
  ASSUME TypeOK
  PROVE  /\ UNCHANGED <<state, up, panicked>> => ModuleType'
         /\ UNCHANGED callVars => CallType'
         /\ UNCHANGED hostVars => HostType'
         /\ UNCHANGED busVars  => BusType'
         /\ UNCHANGED loopVars => LoopType'
         /\ UNCHANGED ncpVars  => NcpType'
         /\ UNCHANGED wireVars => WireType'
BY DEF TypeOK, ModuleType, CallType, HostType, BusType, LoopType, NcpType, WireType,
       callVars, hostVars, busVars, bringVars, loopVars, ncpVars, wireVars

(* The steps of a call.                                                    *)
LEMMA IssueTyped ==
  ASSUME CallType, NEW t \in Task, NEW c \in Command, IssueCall(t, c)
  PROVE  CallType'
<1>1. \A b \in 0 .. Turns - 1 : (b + 1) % Turns \in 0 .. Turns - 1
  <2> SUFFICES ASSUME NEW b \in 0 .. Turns - 1 PROVE (b + 1) % Turns \in 0 .. Turns - 1
    OBVIOUS
  <2>1. Turns \in Nat \ {0} /\ b + 1 \in Nat
    BY LinkAssumption
  <2> QED
    BY <2>1
<1>2. (turn[t] + 1) % Turns \in 0 .. Turns - 1
  BY <1>1 DEF CallType
<1> QED
  BY <1>2 DEF IssueCall, CallType

LEMMA EndTyped ==
  ASSUME CallType, NEW t \in Task, EndCall(t), UNCHANGED <<lock, cmd, turn>>
  PROVE  CallType'
BY DEF EndCall, CallType

LEMMA CallSteps ==
  ASSUME TypeOK, NEW t \in Task, CallStep(t)
  PROVE  TypeOK'
<1>1. CASE TakeLock(t)
  <2>1. CallType' /\ ModuleType'
    BY <1>1 DEF TakeLock, TypeOK, CallType, ModuleType
  <2> QED
    BY <1>1, <2>1, TypesKept DEF TakeLock, TypeOK
<1>2. CASE Send(t)
  <2>1. CallType'
    BY <1>2 DEF Send, TypeOK, CallType
  <2>2. Request(cmd[t], <<t, turn[t]>>) \in Frame
    BY FramesTyped, TasksTyped DEF TypeOK, CallType
  <2>3. overrun' \in BOOLEAN /\ events' \in Seq(Frame)
    BY <1>2, <2>2 DEF Send, TypeOK, HostType
  <2>4. HostType'
    BY <1>2, <2>3 DEF Send, TypeOK, HostType
  <2> QED
    BY <1>2, <2>1, <2>4, TypesKept DEF Send, TypeOK
<1>3. CASE Wait(t)
  <2>1. CallType' /\ ModuleType'
    BY <1>3 DEF Wait, TypeOK, CallType, ModuleType
  <2> QED
    BY <1>3, <2>1, TypesKept DEF Wait, TypeOK
<1>4. CASE Receive(t)
  <2>1. Head(outq) \in ResponseFrame /\ Tail(outq) \in Seq(ResponseFrame)
    BY <1>4 DEF Receive, TypeOK, HostType
  <2>2. CallType'
    BY <1>4, <2>1, FieldsTyped DEF Receive, TypeOK, CallType
  <2>3. HostType'
    BY <1>4, <2>1 DEF Receive, TypeOK, HostType
  <2> QED
    BY <1>4, <2>2, <2>3, TypesKept DEF Receive, TypeOK
<1> QED
  BY <1>1, <1>2, <1>3, <1>4 DEF CallStep

LEMMA CallerSteps ==
  ASSUME TypeOK, NEW t \in Caller, CallerStep(t)
  PROVE  TypeOK'
<1>1. CASE CallerIssues(t)
  BY <1>1, IssueTyped, TypesKept, TasksTyped DEF CallerIssues, TypeOK
<1>2. CASE CallerReturns(t)
  BY <1>2, EndTyped, TypesKept, TasksTyped DEF CallerReturns, TypeOK
<1> QED
  BY <1>1, <1>2 DEF CallerStep

LEMMA BringUpSteps ==
  ASSUME TypeOK, NEW t \in Starter, BringUpStep(t)
  PROVE  TypeOK'
<1>0. t \in Task
  BY TasksTyped DEF Starter
<1>1. CASE BringUpIssues(t)
  <2>1. \A n : BringUpCommands(n) \subseteq Command
    BY TasksTyped DEF BringUpCommands
  <2> QED
    BY <1>0, <1>1, <2>1, IssueTyped, TypesKept DEF BringUpIssues, TypeOK
<1>2. CASE BringUpReturns(t)
  <2>1. CallType'
    BY <1>0, <1>2, EndTyped DEF BringUpReturns, TypeOK
  <2>2. ModuleType'
    BY <1>2 DEF BringUpReturns, BringUpAdvances, TypeOK, ModuleType
  <2>3. LoopType'
    BY <1>2, BringTyped DEF BringUpReturns, BringUpAdvances, TypeOK, LoopType
  <2> QED
    BY <1>2, <2>1, <2>2, <2>3, TypesKept DEF BringUpReturns, TypeOK
<1> QED
  BY <1>1, <1>2 DEF BringUpStep

LEMMA HostSteps ==
  ASSUME TypeOK, HostStep
  PROVE  TypeOK'
<1>0. events # <<>> => Head(events) \in Frame /\ Tail(events) \in Seq(Frame)
  BY DEF TypeOK, HostType
<1>1. CASE HostOutput
  <2>1. HostType'
    BY <1>0, <1>1 DEF HostOutput, TypeOK, HostType
  <2>2. WireType'
    BY <1>0, <1>1, FrameByType DEF HostOutput, TypeOK, WireType
  <2> QED
    BY <1>1, <2>1, <2>2, TypesKept DEF HostOutput, TypeOK
<1>2. CASE HostInput
  <2> DEFINE m == Head(events)
  <2>0. events # <<>> /\ m \in Frame /\ Tail(events) \in Seq(Frame)
    BY <1>0, <1>2 DEF HostInput
  <2>1. ASSUME m.type = "resp", events' = Tail(events), outq' = Append(outq, m),
               UNCHANGED <<late, notq, hostTask, overrun>>
        PROVE  HostType'
    BY <2>0, <2>1, FrameByType DEF TypeOK, HostType
  <2>2. ASSUME m.type = "note", events' = Tail(events), notq' = Append(notq, m),
               UNCHANGED <<late, outq, hostTask, overrun>>
        PROVE  HostType'
    BY <2>0, <2>2, FrameByType DEF TypeOK, HostType
  <2>3. ASSUME HostTaskFails, overrun' \in BOOLEAN PROVE HostType'
    BY <2>3, EmptyTyped DEF HostTaskFails, TypeOK, HostType
  <2>4. HostType'
    BY <1>2, <2>1, <2>2, <2>3 DEF HostInput, TypeOK, HostType
  <2>5. BusType'
    BY <1>2 DEF HostInput, HostTaskFails, TypeOK, BusType
  <2> QED
    BY <1>2, <2>4, <2>5, TypesKept DEF HostInput, TypeOK
<1> QED
  BY <1>1, <1>2 DEF HostStep

(* What one event makes host_task read of the unread frames.               *)
LEMMA CountedFrames ==
  ASSUME NEW q \in Seq(Frame), q # <<>>
  PROVE  /\ Head(q) \in Frame /\ Tail(q) \in Seq(Frame)
         /\ \A m \in Counted(q) : m \in Frame /\ (m = Head(q) \/ m = Bad)
BY FramesTyped DEF Counted

LEMMA BusSteps ==
  ASSUME TypeOK, BusStep \/ BusOverflow
  PROVE  TypeOK'
<1>1. CASE BusData
  <2>1. Head(toHost) \in Frame /\ Tail(toHost) \in Seq(Frame)
    BY <1>1 DEF BusData, TypeOK, WireType
  <2> DEFINE q == Append(late, Head(toHost))
  <2>2. q \in Seq(Frame) /\ q # <<>>
    BY <2>1, AppendTyped DEF TypeOK, HostType
  <2>3. Tail(q) \in Seq(Frame) /\ \A m \in Counted(q) : m \in Frame
    BY <2>2, CountedFrames
  <2> HIDE DEF q
  <2>4. \/ /\ late' = q /\ overrun' = TRUE /\ UNCHANGED events
        \/ /\ \E m \in Counted(q) : events' = Post(m)
           /\ late' = Tail(q) /\ UNCHANGED overrun
    BY <1>1 DEF BusData, q
  <2>5. events' \in Seq(Frame) /\ late' \in Seq(Frame) /\ overrun' \in BOOLEAN
    BY <2>2, <2>3, <2>4, PostAdds, AppendTyped DEF TypeOK, HostType
  <2>6. HostType' /\ BusType' /\ WireType'
    BY <1>1, <2>1, <2>5 DEF BusData, TypeOK, HostType, BusType, WireType
  <2> QED
    BY <1>1, <2>6, TypesKept DEF BusData, TypeOK
<1>2. CASE BusBreak
  <2>1. ModuleType' /\ BusType' /\ WireType'
    BY <1>2, EmptyTyped DEF BusBreak, TypeOK, ModuleType, BusType, WireType
  <2> QED
    BY <1>2, <2>1, TypesKept DEF BusBreak, TypeOK
<1>3. CASE BusOverflow
  <2>1. BusType' /\ WireType'
    BY <1>3, EmptyTyped DEF BusOverflow, Occurs, TypeOK, BusType, WireType
  <2> QED
    BY <1>3, <2>1, TypesKept DEF BusOverflow, TypeOK
<1> QED
  BY <1>1, <1>2, <1>3 DEF BusStep

LEMMA LoopSteps ==
  ASSUME TypeOK, LoopStep
  PROVE  TypeOK'
<1>1. CASE LoopCheck \/ LoopTake \/ HandleEvent \/ HandleFailure
  <2>1. LoopType' /\ BusType'
    BY <1>1 DEF LoopCheck, LoopTake, HandleEvent, HandleFailure, bringVars, busVars,
                TypeOK, LoopType, BusType
  <2> QED
    BY <1>1, <2>1, TypesKept
    DEF LoopCheck, LoopTake, HandleEvent, HandleFailure, TypeOK
<1>2. CASE LoopReceive
  <2>1. notq # <<>> => Head(notq) \in NoteFrame /\ Tail(notq) \in Seq(NoteFrame)
    BY DEF TypeOK, HostType
  <2>2. LoopType'
    BY <1>2, <2>1, FieldsTyped DEF LoopReceive, bringVars, TypeOK, LoopType
  <2>3. HostType'
    BY <1>2, <2>1 DEF LoopReceive, TypeOK, HostType
  <2> QED
    BY <1>2, <2>2, <2>3, TypesKept DEF LoopReceive, TypeOK
<1>3. CASE HandleQuery \/ HandleQueryReturns
  <2>1. CallType'
    BY <1>3, IssueTyped, EndTyped, TasksTyped DEF HandleQuery, HandleQueryReturns, TypeOK
  <2>2. LoopType'
    BY <1>3 DEF HandleQuery, HandleQueryReturns, bringVars, TypeOK, LoopType
  <2> QED
    BY <1>3, <2>1, <2>2, TypesKept DEF HandleQuery, HandleQueryReturns, TypeOK
<1>4. CASE TearDown
  <2>1. CallType'
    BY <1>4 DEF TearDown, TypeOK, CallType
  <2>2. ModuleType' /\ HostType' /\ BusType' /\ LoopType' /\ WireType'
    BY <1>4, EmptyTyped
    DEF TearDown, bringVars, TypeOK, ModuleType, HostType, BusType, LoopType, WireType
  <2> QED
    BY <1>4, <2>1, <2>2, TypesKept DEF TearDown, TypeOK
<1>5. CASE Rebuild
  <2>1. LoopType'
    BY <1>5, BringTyped DEF Rebuild, TypeOK, LoopType
  <2>2. ModuleType' /\ HostType' /\ BusType'
    BY <1>5 DEF Rebuild, TypeOK, ModuleType, HostType, BusType
  <2> QED
    BY <1>5, <2>1, <2>2, TypesKept DEF Rebuild, TypeOK
<1> QED
  BY <1>1, <1>2, <1>3, <1>4, <1>5 DEF LoopStep

LEMMA DeliverTyped ==
  ASSUME TypeOK, NEW m \in Frame, Deliver(m)
  PROVE  toHost' \in Seq(Frame)
BY DEF Deliver, TypeOK, WireType

LEMMA FaultsTyped ==
  ASSUME TypeOK, NEW f, Occurs(f)
  PROVE  faults' \in Seq(Fault)
BY DEF Occurs, TypeOK, WireType

LEMMA NcpSteps ==
  ASSUME TypeOK, NcpStep \/ Garble \/ NcpReset
  PROVE  TypeOK'
<1>0. toNcp # <<>> => Head(toNcp) \in RequestFrame /\ Tail(toNcp) \in Seq(RequestFrame)
  BY DEF TypeOK, WireType
<1>1. CASE NcpServe
  <2>1. toHost' \in Seq(Frame)
    BY <1>0, <1>1, FramesTyped, FieldsTyped, DeliverTyped DEF NcpServe, NcpAccepts
  <2>2. WireType' /\ NcpType'
    BY <1>0, <1>1, <2>1 DEF NcpServe, TypeOK, WireType, NcpType
  <2> QED
    BY <1>1, <2>2, TypesKept DEF NcpServe, TypeOK
<1>2. CASE NcpRefuse
  <2>1. toHost' \in Seq(Frame)
    BY <1>0, <1>2, FramesTyped, FieldsTyped, DeliverTyped DEF NcpRefuse
  <2>2. faults' \in Seq(Fault)
    BY <1>2, FaultsTyped DEF NcpRefuse, TypeOK, WireType
  <2>3. WireType'
    BY <1>0, <1>2, <2>1, <2>2 DEF NcpRefuse, TypeOK, WireType
  <2> QED
    BY <1>2, <2>3, TypesKept DEF NcpRefuse, TypeOK
<1>3. CASE NcpNotify
  <2>1. toHost' \in Seq(Frame)
    BY <1>3, FramesTyped, DeliverTyped DEF NcpNotify
  <2>2. WireType'
    BY <1>3, <2>1 DEF NcpNotify, TypeOK, WireType
  <2> QED
    BY <1>3, <2>2, TypesKept DEF NcpNotify, TypeOK
<1>4. CASE NcpReportsFailure
  <2>1. toHost' \in Seq(Frame)
    BY <1>4, FramesTyped, DeliverTyped DEF NcpReportsFailure, TypeOK, WireType
  <2>2. toNcp' \in Seq(RequestFrame) /\ NcpType'
    BY <1>4 DEF NcpReportsFailure, TypeOK, WireType, NcpType
  <2>3. faults' \in Seq(Fault)
    BY <1>4, FaultsTyped DEF NcpReportsFailure, TypeOK, WireType
  <2>4. WireType'
    BY <2>1, <2>2, <2>3 DEF WireType
  <2> QED
    BY <1>4, <2>2, <2>4, TypesKept DEF NcpReportsFailure, TypeOK
<1>5. CASE Garble
  <2>1. WireType'
    BY <1>5, FramesTyped DEF Garble, Occurs, TypeOK, WireType
  <2> QED
    BY <1>5, <2>1, TypesKept DEF Garble, TypeOK
<1>6. CASE NcpReset
  <2>1. toHost' \in Seq(Frame)
    BY <1>6, FramesTyped, DeliverTyped DEF NcpReset
  <2>2. toNcp' \in Seq(RequestFrame) /\ NcpType'
    BY <1>6, EmptyTyped DEF NcpReset, NcpType
  <2>3. faults' \in Seq(Fault)
    BY <1>6, FaultsTyped DEF NcpReset
  <2> QED
    BY <1>6, <2>1, <2>2, <2>3, TypesKept DEF NcpReset, TypeOK, WireType
<1> QED
  BY <1>1, <1>2, <1>3, <1>4, <1>5, <1>6 DEF NcpStep

LEMMA TypeInit == Init => TypeOK
<1> SUFFICES ASSUME Init PROVE TypeOK
  OBVIOUS
<1>1. CallType /\ LoopType
  BY TasksTyped, LinkAssumption DEF Init, CallType, LoopType
<1>2. ModuleType /\ BusType /\ NcpType
  BY DEF Init, ModuleType, BusType, NcpType
<1>3. HostType /\ WireType
  BY EmptyTyped, LinkAssumption DEF Init, HostType, WireType
<1> QED
  BY <1>1, <1>2, <1>3 DEF TypeOK

LEMMA TypeStep == TypeOK /\ [Next]_vars => TypeOK'
<1> SUFFICES ASSUME TypeOK, [Next]_vars PROVE TypeOK'
  OBVIOUS
<1>1. CASE UNCHANGED vars
  BY <1>1, TypesKept DEF vars, TypeOK
<1>2. CASE Next
  BY <1>2, CallSteps, CallerSteps, BringUpSteps, HostSteps, BusSteps, LoopSteps, NcpSteps
  DEF Next, FaultStep
<1> QED
  BY <1>1, <1>2

(* Every variable keeps its type; in particular only responses reach the   *)
(* output queue, only notifications the notify queue, and only requests    *)
(* the NCP.                                                                *)
THEOREM TypeCorrect == Spec => []TypeOK
BY TypeInit, TypeStep, PTL DEF Spec
-----------------------------------------------------------------------------
(* Sequences of frames: where the frames of a command's exchange are.      *)

LEMMA NoneIsOne == \A q, k : ~Carries(q) => OneIn(q, k)
BY DEF Carries, OneIn

LEMMA EmptyCarriesNone == ~Carries(<<>>)
BY DEF Carries

LEMMA AppendExchange ==
  ASSUME NEW q \in Seq(Frame), NEW m \in Frame, NEW k
  PROVE  /\ Carries(Append(q, m)) <=> Carries(q) \/ IsExchange(m)
         /\ OneIn(q, k) /\ ~IsExchange(m) => OneIn(Append(q, m), k)
         /\ ~Carries(q) /\ m.call = k => OneIn(Append(q, m), k)
<1> DEFINE r == Append(q, m)
<1>1. /\ DOMAIN r = 1 .. Len(q) + 1 /\ DOMAIN q = 1 .. Len(q) /\ Len(q) \in Nat
      /\ \A i \in 1 .. Len(q) : r[i] = q[i]
      /\ r[Len(q) + 1] = m
  OBVIOUS
<1> HIDE DEF r
<1>2. Carries(r) <=> Carries(q) \/ IsExchange(m)
  BY <1>1 DEF Carries
<1>3. OneIn(q, k) /\ ~IsExchange(m) => OneIn(r, k)
  BY <1>1 DEF OneIn
<1>4. ~Carries(q) /\ m.call = k => OneIn(r, k)
  BY <1>1 DEF OneIn, Carries
<1> QED
  BY <1>2, <1>3, <1>4 DEF r

LEMMA TailExchange ==
  ASSUME NEW q \in Seq(Frame), q # <<>>, NEW k, OneIn(q, k)
  PROVE  /\ Carries(Tail(q)) => Carries(q)
         /\ OneIn(Tail(q), k)
         /\ IsExchange(Head(q)) => Carries(q) /\ ~Carries(Tail(q)) /\ Head(q).call = k
<1> DEFINE r == Tail(q)
<1>1. /\ DOMAIN r = 1 .. Len(q) - 1 /\ DOMAIN q = 1 .. Len(q) /\ Len(q) \in Nat /\ Len(q) > 0
      /\ \A i \in 1 .. Len(q) - 1 : r[i] = q[i + 1]
      /\ Head(q) = q[1]
  OBVIOUS
<1> HIDE DEF r
<1>2. \A i \in DOMAIN r : i + 1 \in DOMAIN q /\ r[i] = q[i + 1] /\ i + 1 # 1
  BY <1>1
<1>3. \A i, j \in DOMAIN r : i + 1 = j + 1 => i = j
  BY <1>1
<1>4. Carries(r) => Carries(q)
  BY <1>2 DEF Carries
<1>5. OneIn(r, k)
  BY <1>2, <1>3 DEF OneIn
<1>6. IsExchange(Head(q)) => Carries(q) /\ ~Carries(r) /\ Head(q).call = k
  <2>1. 1 \in DOMAIN q
    BY <1>1
  <2> QED
    BY <2>1, <1>1, <1>2 DEF Carries, OneIn
<1> QED
  BY <1>4, <1>5, <1>6 DEF r

LEMMA GarbleExchange ==
  ASSUME NEW q \in Seq(Frame), NEW i \in DOMAIN q, NEW k, OneIn(q, k)
  PROVE  /\ Carries([q EXCEPT ![i] = Bad]) => Carries(q)
         /\ OneIn([q EXCEPT ![i] = Bad], k)
<1>1. ~IsExchange(Bad)
  BY DEF IsExchange, Bad
<1> QED
  BY <1>1 DEF Carries, OneIn

LEMMA ExchangeFrames ==
  /\ \A m \in RequestFrame \cup ResponseFrame : IsExchange(m)
  /\ ~IsExchange(Bad) /\ ~IsExchange(Break)
  /\ \A m \in NoteFrame : ~IsExchange(m)
  /\ \A c, k : IsExchange(Request(c, k)) /\ Request(c, k).call = k
  /\ \A c, k, b : IsExchange(Response(c, k, b)) /\ Response(c, k, b).call = k
  /\ \A n : ~IsExchange(Noti(n))
BY DEF IsExchange, Bad, Break, Request, Response, Noti, RequestFrame, ResponseFrame, NoteFrame
-----------------------------------------------------------------------------
(* What keeps LinkInv: steps outside the calls, and steps that move no     *)
(* frame of an exchange.                                                   *)

LEMMA CallKept ==
  ASSUME CallInv, UNCHANGED <<up, callVars>>
  PROVE  CallInv'
BY DEF CallInv, LockFollowsCall, OneOnLink, WrittenWhenDone, OwnAnswer, OnLink, callVars

LEMMA HolderKept ==
  ASSUME UNCHANGED callVars
  PROVE  HolderCall' = HolderCall /\ Waiting' = Waiting
BY DEF HolderCall, Waiting, callVars

LEMMA ExchangeKept ==
  ASSUME OneExchange, UNCHANGED <<up, events, late, toNcp, toHost, outq>>,
         up /\ Waiting => Waiting' /\ HolderCall' = HolderCall
  PROVE  OneExchange'
<1>1. CASE up /\ Waiting
  BY <1>1 DEF OneExchange
<1>2. CASE up /\ ~Waiting
  <2>1. \A q \in {events, late, toNcp, toHost, outq} : ~Carries(q)
    BY <1>2 DEF OneExchange
  <2> QED
    BY <2>1, NoneIsOne DEF OneExchange
<1>3. CASE ~up
  BY <1>3 DEF OneExchange
<1> QED
  BY <1>1, <1>2, <1>3

LEMMA DownKept ==
  ASSUME DownIsEmpty, UNCHANGED <<up, callVars, hostVars, toHost>>
  PROVE  DownIsEmpty'
BY DEF DownIsEmpty, callVars, hostVars

(* A task that is not on the link asks or leaves.                          *)
LEMMA IssueKeeps ==
  ASSUME LinkInv, NEW t \in Task, NEW c, IssueCall(t, c),
         UNCHANGED <<up, hostVars, toNcp, toHost>>
  PROVE  CallInv' /\ DownIsEmpty' /\ OneExchange'
<1>1. CallInv'
  BY DEF LinkInv, CallInv, IssueCall, LockFollowsCall, OneOnLink, WrittenWhenDone, OwnAnswer,
         OnLink, TypeOK, CallType
<1>2. DownIsEmpty'
  BY DEF LinkInv, IssueCall, DownIsEmpty, hostVars, TypeOK, CallType
<1>3. up /\ Waiting => Waiting' /\ HolderCall' = HolderCall
  BY DEF LinkInv, IssueCall, Waiting, HolderCall, TypeOK, CallType
<1>4. OneExchange'
  BY <1>3, ExchangeKept DEF LinkInv, hostVars
<1> QED
  BY <1>1, <1>2, <1>4

LEMMA EndKeeps ==
  ASSUME LinkInv, NEW t \in Task, EndCall(t),
         UNCHANGED <<up, lock, cmd, turn, hostVars, toNcp, toHost>>
  PROVE  CallInv' /\ DownIsEmpty' /\ OneExchange'
<1>1. CallInv'
  BY DEF LinkInv, CallInv, EndCall, LockFollowsCall, OneOnLink, WrittenWhenDone, OwnAnswer,
         OnLink, TypeOK, CallType
<1>2. DownIsEmpty'
  BY DEF LinkInv, EndCall, DownIsEmpty, hostVars, TypeOK, CallType
<1>3. up /\ Waiting => Waiting' /\ HolderCall' = HolderCall
  BY DEF LinkInv, EndCall, Waiting, HolderCall, TypeOK, CallType
<1>4. OneExchange'
  BY <1>3, ExchangeKept DEF LinkInv, hostVars
<1> QED
  BY <1>1, <1>2, <1>4

(* esp_host_zb_output.                                                     *)
LEMMA TakeLockKeeps ==
  ASSUME LinkInv, NEW t \in Task, TakeLock(t)
  PROVE  CallInv' /\ DownIsEmpty' /\ OneExchange'
<1>0. NoTask \notin Task
  BY LinkAssumption
<1> USE DEF TakeLock, LinkInv
<1>1. CallInv'
  <2>1. LockFollowsCall' /\ OneOnLink'
    BY <1>0 DEF CallInv, LockFollowsCall, OneOnLink, OnLink, TypeOK, CallType
  <2>2. WrittenWhenDone' /\ OwnAnswer'
    BY DEF CallInv, WrittenWhenDone, OwnAnswer, TypeOK, CallType
  <2> QED
    BY <2>1, <2>2 DEF CallInv
<1>2. DownIsEmpty'
  BY DEF DownIsEmpty, hostVars, wireVars
<1>3. ~Waiting \/ ~up
  BY LinkAssumption DEF Waiting, LockFollowsCall
<1>4. OneExchange'
  BY <1>3, ExchangeKept DEF hostVars, wireVars
<1> QED
  BY <1>1, <1>2, <1>4

LEMMA SendKeeps ==
  ASSUME LinkInv, NEW t \in Task, Send(t)
  PROVE  CallInv' /\ DownIsEmpty' /\ OneExchange'
<1> USE DEF Send, LinkInv
<1>1. CallInv'
  BY DEF CallInv, LockFollowsCall, OneOnLink, WrittenWhenDone, OwnAnswer,
         OnLink, TypeOK, CallType
<1>2. DownIsEmpty'
  BY DEF DownIsEmpty, wireVars, TypeOK, CallType
<1>3. CASE up
  <2>1. lock = t /\ ~Waiting
    BY <1>3 DEF CallInv, LockFollowsCall, OnLink, Waiting
  <2>2. /\ ~Carries(events) /\ ~Carries(late) /\ ~Carries(toNcp)
        /\ ~Carries(toHost) /\ ~Carries(outq)
    BY <1>3, <2>1 DEF OneExchange
  <2>3. Waiting' /\ HolderCall' = <<t, turn[t]>>
    BY <2>1 DEF Waiting, HolderCall, TypeOK, CallType
  <2>4. Request(cmd[t], <<t, turn[t]>>) \in Frame
    BY FramesTyped, TasksTyped DEF TypeOK, CallType
  <2>5. OneIn(events', HolderCall')
    <3> DEFINE m == Request(cmd[t], <<t, turn[t]>>)
    <3>1. events' = events \/ events' = Append(events, m)
      BY PostAdds
    <3>2. events \in Seq(Frame) /\ m.call = HolderCall'
      BY <2>3, ExchangeFrames DEF TypeOK, HostType
    <3>3. m \in Frame
      BY <2>4
    <3> HIDE DEF m
    <3>4. OneIn(events, HolderCall') /\ OneIn(Append(events, m), HolderCall')
      BY <2>2, <3>2, <3>3, AppendExchange, NoneIsOne
    <3> QED
      BY <3>1, <3>4
  <2> QED
    BY <1>1, <1>2, <2>2, <2>3, <2>5, NoneIsOne DEF OneExchange, wireVars
<1>4. CASE ~up
  BY <1>1, <1>2, <1>4 DEF OneExchange
<1> QED
  BY <1>3, <1>4

LEMMA WaitKeeps ==
  ASSUME LinkInv, NEW t \in Task, Wait(t)
  PROVE  CallInv' /\ DownIsEmpty' /\ OneExchange'
<1> USE DEF Wait, LinkInv
<1>1. CallInv'
  BY DEF CallInv, LockFollowsCall, OneOnLink, WrittenWhenDone, OwnAnswer,
         OnLink, TypeOK, CallType
<1>2. DownIsEmpty'
  BY DEF DownIsEmpty, hostVars, wireVars
<1>3. up /\ Waiting => Waiting' /\ HolderCall' = HolderCall
  BY DEF Waiting, HolderCall, TypeOK, CallType
<1>4. OneExchange'
  BY <1>3, ExchangeKept DEF hostVars, wireVars
<1> QED
  BY <1>1, <1>2, <1>4

LEMMA ReceiveKeeps ==
  ASSUME LinkInv, NEW t \in Task, Receive(t)
  PROVE  CallInv' /\ DownIsEmpty' /\ OneExchange'
<1> USE DEF Receive, LinkInv
<1>1. up /\ lock = t
  BY DEF DownIsEmpty, CallInv, LockFollowsCall, OnLink
<1>2. outq \in Seq(Frame) /\ Head(outq) \in ResponseFrame
  BY FramesTyped DEF TypeOK, HostType
<1>3. OneIn(outq, HolderCall)
  BY <1>1 DEF OneExchange
<1>4. Carries(outq) /\ ~Carries(Tail(outq)) /\ Head(outq).call = <<t, turn[t]>>
  BY <1>1, <1>2, <1>3, TailExchange, ExchangeFrames DEF HolderCall
<1>5. CallInv'
  <2>1. LockFollowsCall' /\ OneOnLink'
    BY <1>1, LinkAssumption DEF CallInv, LockFollowsCall, OneOnLink, OnLink, TypeOK, CallType
  <2>2. WrittenWhenDone' /\ OwnAnswer'
    BY <1>4 DEF CallInv, WrittenWhenDone, OwnAnswer, TypeOK, CallType
  <2> QED
    BY <2>1, <2>2 DEF CallInv
<1>6. DownIsEmpty'
  BY <1>1 DEF DownIsEmpty
<1>7. OneExchange'
  BY <1>1, <1>4, NoneIsOne DEF OneExchange, wireVars
<1> QED
  BY <1>5, <1>6, <1>7

(* A frame moves from the head of one queue to the tail of the next.       *)
LEMMA HostKeeps ==
  ASSUME LinkInv, HostStep
  PROVE  CallInv' /\ DownIsEmpty' /\ OneExchange'
<1> USE DEF LinkInv
<1>0. up /\ events \in Seq(Frame) /\ toNcp \in Seq(Frame) /\ outq \in Seq(Frame)
         /\ UNCHANGED <<up, callVars>> /\ UNCHANGED toHost /\ events # <<>>
         /\ OneIn(events, HolderCall) /\ Head(events) \in Frame
  BY FramesTyped
  DEF HostStep, HostOutput, HostInput, HostTaskFails, DownIsEmpty, TypeOK, HostType,
      WireType, OneExchange, wireVars
<1>1. CallInv' /\ DownIsEmpty' /\ HolderCall' = HolderCall /\ Waiting' = Waiting
  BY <1>0, CallKept, HolderKept DEF DownIsEmpty
<1>2. CASE HostOutput
  <2>1. IsExchange(Head(events))
    BY <1>2 DEF HostOutput, IsExchange
  <2>2. /\ Carries(events) /\ ~Carries(Tail(events)) /\ Head(events).call = HolderCall
        /\ OneIn(Tail(events), HolderCall)
    BY <1>0, <2>1, TailExchange
  <2>3. Waiting /\ ~Carries(late) /\ ~Carries(toNcp) /\ ~Carries(toHost) /\ ~Carries(outq)
    BY <1>0, <2>2 DEF OneExchange
  <2>4. OneIn(Append(toNcp, Head(events)), HolderCall)
    BY <1>0, <2>2, <2>3, AppendExchange
  <2> QED
    BY <1>0, <1>1, <1>2, <2>2, <2>3, <2>4, NoneIsOne DEF HostOutput, OneExchange
<1>3. CASE HostInput
  <2>1. ASSUME Head(events).type = "resp", events' = Tail(events), late' = late,
               outq' = Append(outq, Head(events))
        PROVE  OneExchange'
    <3>1. IsExchange(Head(events))
      BY <2>1 DEF IsExchange
    <3>2. /\ Carries(events) /\ ~Carries(Tail(events)) /\ Head(events).call = HolderCall
          /\ OneIn(Tail(events), HolderCall)
      BY <1>0, <3>1, TailExchange
    <3>3. Waiting /\ ~Carries(late) /\ ~Carries(toNcp) /\ ~Carries(toHost) /\ ~Carries(outq)
      BY <1>0, <3>2 DEF OneExchange
    <3>4. OneIn(Append(outq, Head(events)), HolderCall)
      BY <1>0, <3>2, <3>3, AppendExchange
    <3> QED
      BY <1>0, <1>1, <1>3, <2>1, <3>2, <3>3, <3>4, NoneIsOne
      DEF HostInput, OneExchange, wireVars
  <2>2. ASSUME events' = Tail(events) \/ events' = <<>>, late' = late \/ late' = <<>>,
               outq' = outq
        PROVE  OneExchange'
    <3>1. OneIn(events', HolderCall) /\ (Carries(events') => Carries(events))
      <4>1. CASE events' = Tail(events)
        BY <1>0, <4>1, TailExchange
      <4>2. CASE events' = <<>>
        BY <4>2, EmptyCarriesNone, NoneIsOne
      <4> QED
        BY <2>2, <4>1, <4>2
    <3>2. OneIn(late', HolderCall) /\ (Carries(late') => Carries(late))
      BY <1>0, <2>2, EmptyCarriesNone, NoneIsOne DEF OneExchange
    <3> QED
      BY <1>0, <1>1, <1>3, <2>2, <3>1, <3>2 DEF HostInput, OneExchange, wireVars
  <2> QED
    BY <1>1, <1>3, <2>1, <2>2 DEF HostInput, HostTaskFails
<1> QED
  BY <1>2, <1>3 DEF HostStep

LEMMA BusKeeps ==
  ASSUME LinkInv, BusStep \/ BusOverflow
  PROVE  CallInv' /\ DownIsEmpty' /\ OneExchange'
<1> USE DEF LinkInv
<1>0. up /\ events \in Seq(Frame) /\ toHost \in Seq(Frame) /\ toHost # <<>>
         /\ UNCHANGED <<up, callVars, outq, toNcp>>
         /\ OneIn(toHost, HolderCall) /\ Head(toHost) \in Frame
  BY DEF BusStep, BusData, BusBreak, BusOverflow, DownIsEmpty, TypeOK, HostType, WireType,
         OneExchange, wireVars, hostVars
<1>1. CallInv' /\ DownIsEmpty' /\ HolderCall' = HolderCall /\ Waiting' = Waiting
  BY <1>0, CallKept, HolderKept DEF DownIsEmpty
<1>2. CASE BusData
  <2>1. /\ OneIn(toHost', HolderCall) /\ (Carries(toHost') => Carries(toHost))
        /\ IsExchange(Head(toHost)) => /\ Carries(toHost) /\ ~Carries(toHost')
                                       /\ Head(toHost).call = HolderCall
    BY <1>0, <1>2, TailExchange DEF BusData
  <2> DEFINE q == Append(late, Head(toHost))
  <2>2. /\ q \in Seq(Frame) /\ q # <<>> /\ OneIn(q, HolderCall)
        /\ Carries(q) => /\ Waiting /\ ~Carries(events) /\ ~Carries(toNcp)
                         /\ ~Carries(outq) /\ ~Carries(toHost')
    <3>1. late \in Seq(Frame) /\ OneIn(late, HolderCall)
      BY <1>0 DEF OneExchange, TypeOK, HostType
    <3>2. Carries(q) <=> Carries(late) \/ IsExchange(Head(toHost))
      BY <1>0, <3>1, AppendExchange
    <3>3. OneIn(q, HolderCall)
      <4>1. IsExchange(Head(toHost)) => ~Carries(late) /\ Head(toHost).call = HolderCall
        BY <1>0, <2>1 DEF OneExchange
      <4> QED
        BY <1>0, <3>1, <4>1, AppendExchange
    <3>4. q \in Seq(Frame) /\ q # <<>>
      BY <1>0, <3>1
    <3> HIDE DEF q
    <3> QED
      BY <1>0, <2>1, <3>2, <3>3, <3>4 DEF OneExchange
  <2> HIDE DEF q
  <2>3. CASE events' = events /\ late' = q
    BY <1>0, <1>1, <2>1, <2>2, <2>3 DEF OneExchange
  <2>4. ASSUME NEW m \in Counted(q), events' = Post(m), late' = Tail(q)
        PROVE  OneExchange'
    <3>1. /\ OneIn(late', HolderCall) /\ (Carries(late') => Carries(q))
          /\ IsExchange(m) => Carries(q) /\ ~Carries(late') /\ m.call = HolderCall
          /\ m \in Frame
      BY <2>2, <2>4, TailExchange, CountedFrames, ExchangeFrames
    <3>2. CASE events' = events
      BY <1>0, <1>1, <2>1, <2>2, <3>1, <3>2 DEF OneExchange
    <3>3. CASE events' = Append(events, m) /\ ~IsExchange(m)
      <4>1. OneIn(events', HolderCall) /\ (Carries(events') => Carries(events))
        BY <1>0, <3>1, <3>3, AppendExchange DEF OneExchange
      <4> QED
        BY <1>0, <1>1, <2>1, <2>2, <3>1, <4>1 DEF OneExchange
    <3>4. CASE events' = Append(events, m) /\ IsExchange(m)
      <4>1. OneIn(events', HolderCall)
        BY <1>0, <2>2, <3>1, <3>4, AppendExchange
      <4> QED
        BY <1>0, <1>1, <2>1, <2>2, <3>1, <3>4, <4>1, NoneIsOne DEF OneExchange
    <3> QED
      BY <2>4, <3>2, <3>3, <3>4
  <2>5. \/ late' = q /\ events' = events
        \/ \E m \in Counted(q) : events' = Post(m) /\ late' = Tail(q)
    BY <1>2 DEF BusData, q
  <2> QED
    BY <1>1, <2>3, <2>4, <2>5
<1>3. CASE BusBreak \/ BusOverflow
  <2>1. events' = events /\ late' = late /\ toHost' = <<>>
    BY <1>3 DEF BusBreak, BusOverflow, hostVars
  <2> QED
    BY <1>0, <1>1, <2>1, EmptyCarriesNone, NoneIsOne DEF OneExchange
<1> QED
  BY <1>2, <1>3 DEF BusStep

LEMMA LoopKeeps ==
  ASSUME LinkInv, LoopStep
  PROVE  CallInv' /\ DownIsEmpty' /\ OneExchange'
<1> USE DEF LinkInv
<1>1. CASE LoopCheck \/ LoopTake \/ LoopReceive \/ HandleEvent \/ HandleFailure
  <2>1. /\ UNCHANGED <<up, callVars, events, late, outq, hostTask, toHost, toNcp>>
        /\ notq = <<>> => notq' = <<>>
    BY <1>1 DEF LoopCheck, LoopTake, LoopReceive, HandleEvent, HandleFailure, hostVars, wireVars
  <2>2. DownIsEmpty'
    BY <2>1 DEF DownIsEmpty, callVars
  <2> QED
    BY <2>1, <2>2, CallKept, HolderKept, ExchangeKept
<1>2. CASE HandleQuery
  BY <1>2, IssueKeeps, TasksTyped DEF HandleQuery, wireVars
<1>3. CASE HandleQueryReturns
  BY <1>3, EndKeeps, TasksTyped DEF HandleQueryReturns, wireVars
<1>4. CASE TearDown
  <2>1. CallInv'
    BY <1>4 DEF TearDown, CallInv, LockFollowsCall, OneOnLink, WrittenWhenDone, OwnAnswer,
                OnLink, TypeOK, CallType
  <2> QED
    BY <1>4, <2>1 DEF TearDown, DownIsEmpty, OneExchange, TypeOK, CallType
<1>5. CASE Rebuild
  <2>1. CASE up
    BY <1>5, <2>1, CallKept, HolderKept, ExchangeKept DEF Rebuild, wireVars, DownIsEmpty
  <2>2. CASE ~up
    <3>1. CallInv'
      BY <1>5, <2>2, LinkAssumption
      DEF Rebuild, Quiet, CallInv, LockFollowsCall, OneOnLink, WrittenWhenDone, OwnAnswer,
          OnLink, DownIsEmpty, callVars
    <3>2. events' = <<>> /\ late' = <<>> /\ outq' = <<>> /\ toHost' = <<>> /\ toNcp' = <<>> /\ up'
      BY <1>5, <2>2 DEF Rebuild, Quiet, DownIsEmpty, wireVars
    <3> QED
      BY <3>1, <3>2, EmptyCarriesNone, NoneIsOne DEF DownIsEmpty, OneExchange
  <2> QED
    BY <2>1, <2>2
<1> QED
  BY <1>1, <1>2, <1>3, <1>4, <1>5 DEF LoopStep

LEMMA NcpKeeps ==
  ASSUME LinkInv, NcpStep \/ Garble \/ NcpReset
  PROVE  CallInv' /\ DownIsEmpty' /\ OneExchange'
<1> USE DEF LinkInv
<1>0. /\ UNCHANGED <<up, callVars, hostVars>>
      /\ toHost \in Seq(Frame) /\ toNcp \in Seq(Frame)
      /\ toNcp # <<>> => Head(toNcp) \in RequestFrame
      /\ up => OneIn(toHost, HolderCall) /\ OneIn(toNcp, HolderCall)
  <2>1. UNCHANGED <<up, callVars, hostVars>>
    BY DEF NcpStep, NcpServe, NcpRefuse, NcpNotify, NcpReportsFailure, Garble, NcpReset
  <2>2. toHost \in Seq(Frame) /\ toNcp \in Seq(RequestFrame)
    BY DEF TypeOK, WireType
  <2>3. toNcp \in Seq(Frame) /\ (toNcp # <<>> => Head(toNcp) \in RequestFrame)
    BY <2>2, FramesTyped
  <2>4. up => OneIn(toHost, HolderCall) /\ OneIn(toNcp, HolderCall)
    BY DEF OneExchange
  <2> QED
    BY <2>1, <2>2, <2>3, <2>4
<1>1. CallInv' /\ HolderCall' = HolderCall /\ Waiting' = Waiting
  BY <1>0, CallKept, HolderKept
<1>2. DownIsEmpty'
  BY <1>0
  DEF NcpStep, NcpServe, NcpRefuse, NcpNotify, NcpReportsFailure, Garble, NcpReset, Deliver,
      DownIsEmpty, callVars, hostVars
<1>3. ASSUME up, NcpServe \/ NcpRefuse
      PROVE  OneExchange'
  <2>1. PICK m \in Frame : IsExchange(m) /\ m.call = Head(toNcp).call /\ toHost' = Append(toHost, m)
    <3> DEFINE r == Head(toNcp)
    <3>1. r \in RequestFrame /\ r.id \in Command /\ r.call \in Call
      BY <1>0, <1>3, FieldsTyped DEF NcpServe, NcpRefuse
    <3>2. CASE NcpServe
      <4>1. NcpAccepts(r.id) \in BOOLEAN
        BY DEF NcpAccepts
      <4>2. Response(r.id, r.call, NcpAccepts(r.id)) \in Frame
        BY <3>1, <4>1, FramesTyped
      <4> QED
        BY <1>3, <3>2, <4>2, ExchangeFrames DEF NcpServe, Deliver
    <3>3. CASE NcpRefuse
      <4>1. Response(ErrorId, r.call, FALSE) \in Frame
        BY <3>1, FramesTyped
      <4> QED
        BY <1>3, <3>3, <4>1, ExchangeFrames DEF NcpRefuse, Deliver
    <3> QED
      BY <1>3, <3>2, <3>3
  <2>2. toNcp # <<>> /\ toNcp' = Tail(toNcp) /\ IsExchange(Head(toNcp))
    BY <1>0, <1>3, ExchangeFrames DEF NcpServe, NcpRefuse
  <2>3. Carries(toNcp) /\ ~Carries(toNcp') /\ m.call = HolderCall
    BY <1>0, <1>3, <2>1, <2>2, TailExchange
  <2>4. Waiting /\ ~Carries(events) /\ ~Carries(late) /\ ~Carries(toHost) /\ ~Carries(outq)
    BY <1>3, <2>3 DEF OneExchange
  <2>5. OneIn(toHost', HolderCall)
    BY <1>0, <2>1, <2>3, <2>4, AppendExchange
  <2> QED
    BY <1>0, <1>1, <1>3, <2>3, <2>4, <2>5, NoneIsOne DEF OneExchange, hostVars
<1>4. ASSUME up, NcpNotify \/ NcpReportsFailure \/ Garble \/ NcpReset
      PROVE  OneExchange'
  <2>1. OneIn(toHost', HolderCall) /\ (Carries(toHost') => Carries(toHost))
    <3>1. ASSUME NEW m \in Frame, ~IsExchange(m), toHost' = Append(toHost, m)
          PROVE  OneIn(toHost', HolderCall) /\ (Carries(toHost') => Carries(toHost))
      BY <1>0, <1>4, <3>1, AppendExchange
    <3>2. CASE NcpNotify
      BY <1>4, <3>1, <3>2, FramesTyped, ExchangeFrames DEF NcpNotify, Deliver
    <3>3. CASE NcpReportsFailure
      BY <1>0, <1>4, <3>1, <3>3, FramesTyped, ExchangeFrames DEF NcpReportsFailure, Deliver
    <3>4. CASE Garble
      BY <1>0, <1>4, <3>4, GarbleExchange DEF Garble
    <3>5. CASE NcpReset
      BY <1>4, <3>1, <3>5, FramesTyped, ExchangeFrames DEF NcpReset, Deliver
    <3> QED
      BY <1>4, <3>2, <3>3, <3>4, <3>5
  <2>2. OneIn(toNcp', HolderCall) /\ (Carries(toNcp') => Carries(toNcp))
    BY <1>0, <1>4, EmptyCarriesNone, NoneIsOne DEF NcpNotify, NcpReportsFailure, Garble, NcpReset
  <2> QED
    BY <1>0, <1>1, <1>4, <2>1, <2>2 DEF OneExchange, hostVars
<1> QED
  BY <1>0, <1>1, <1>2, <1>3, <1>4 DEF NcpStep, OneExchange

LEMMA LinkInit == Init => LinkInv
<1> SUFFICES ASSUME Init PROVE LinkInv
  OBVIOUS
<1>1. LockFollowsCall /\ OneOnLink /\ WrittenWhenDone /\ OwnAnswer /\ DownIsEmpty
  BY LinkAssumption
  DEF Init, LockFollowsCall, OneOnLink, WrittenWhenDone, OwnAnswer, DownIsEmpty, OnLink
<1>2. OneExchange
  BY EmptyCarriesNone, NoneIsOne DEF Init, OneExchange
<1> QED
  BY <1>1, <1>2, TypeInit DEF LinkInv, CallInv

LEMMA LinkStep == LinkInv /\ [Next]_vars => LinkInv'
<1> SUFFICES ASSUME LinkInv, [Next]_vars PROVE LinkInv'
  OBVIOUS
<1>1. TypeOK'
  BY TypeStep DEF LinkInv
<1>2. CASE UNCHANGED vars
  BY <1>1, <1>2, CallKept, HolderKept, ExchangeKept, DownKept
  DEF vars, hostVars, wireVars, LinkInv
<1>3. ASSUME NEW t \in Task, CallStep(t) PROVE LinkInv'
  BY <1>1, <1>3, TakeLockKeeps, SendKeeps, WaitKeeps, ReceiveKeeps DEF CallStep, LinkInv
<1>4. ASSUME NEW t \in Caller, CallerStep(t) PROVE LinkInv'
  BY <1>1, <1>4, IssueKeeps, EndKeeps, TasksTyped
  DEF CallerStep, CallerIssues, CallerReturns, wireVars, LinkInv
<1>5. ASSUME NEW t \in Starter, BringUpStep(t) PROVE LinkInv'
  BY <1>1, <1>5, IssueKeeps, EndKeeps, TasksTyped
  DEF BringUpStep, BringUpIssues, BringUpReturns, wireVars, LinkInv
<1>6. CASE HostStep \/ BusStep \/ LoopStep \/ NcpStep \/ FaultStep
  BY <1>1, <1>6, HostKeeps, BusKeeps, LoopKeeps, NcpKeeps DEF FaultStep, LinkInv
<1> QED
  BY <1>2, <1>3, <1>4, <1>5, <1>6 DEF Next

THEOREM LinkCorrect == Spec => []LinkInv
BY LinkInit, LinkStep, PTL DEF Spec

(* Whatever the faults, restarts and notifications, two tasks are never    *)
(* both between sending a command and taking its answer, although the lock *)
(* they serialise on is deleted and created again.                         *)
THEOREM CommandsSerialised == Spec => []OneOnLink
<1>1. LinkInv => OneOnLink
  BY DEF LinkInv, CallInv
<1> QED
  BY <1>1, LinkCorrect, PTL

(* What a call copies to its caller's buffer answers that call.            *)
THEOREM AnswersOwn == Spec => []OwnAnswer
<1>1. LinkInv => OwnAnswer
  BY DEF LinkInv, CallInv
<1> QED
  BY <1>1, LinkCorrect, PTL
-----------------------------------------------------------------------------
(* The link implements RpcChannel.                                         *)

LEMMA RpcInit == Init => Rpc!Init
BY DEF Init, Rpc!Init, Phase

LEMMA RpcKept ==
  ASSUME UNCHANGED callVars
  PROVE  UNCHANGED Rpc!rpcVars
BY DEF callVars, Rpc!rpcVars

LEMMA RpcAsks ==
  ASSUME CallType, NEW t \in Task, NEW c, IssueCall(t, c)
  PROVE  Rpc!Ask(t)
BY DEF CallType, IssueCall, Rpc!Ask, Phase

LEMMA RpcLeaves ==
  ASSUME CallType, NEW t \in Task, EndCall(t), UNCHANGED turn
  PROVE  Rpc!Leave(t)
BY DEF CallType, EndCall, Rpc!Leave, Phase

LEMMA RpcCallStep ==
  ASSUME LinkInv, NEW t \in Task, CallStep(t)
  PROVE  Rpc!Admit(t) \/ Rpc!Answer(t) \/ UNCHANGED Rpc!rpcVars
<1> USE DEF LinkInv, TypeOK, CallType
<1>1. CASE TakeLock(t)
  <2>1. CASE up
    <3>1. \A u \in Task : Phase(pc[u]) # "talking"
      BY <1>1, <2>1, LinkAssumption DEF TakeLock, CallInv, LockFollowsCall, OnLink, Phase
    <3> QED
      BY <1>1, <2>1, <3>1 DEF TakeLock, Rpc!Admit, Phase
  <2>2. CASE ~up
    BY <1>1, <2>2 DEF TakeLock, Rpc!rpcVars
  <2> QED
    BY <2>1, <2>2
<1>2. CASE Send(t) \/ Wait(t)
  <2>1. \A u \in Task : Phase(pc'[u]) = Phase(pc[u])
    BY <1>2 DEF Send, Wait, Phase
  <2> QED
    BY <1>2, <2>1 DEF Send, Wait, Rpc!rpcVars
<1>3. CASE Receive(t)
  <2>1. up /\ lock = t
    BY <1>3 DEF Receive, DownIsEmpty, CallInv, LockFollowsCall, OnLink
  <2>2. Head(outq).call = <<t, turn[t]>>
    <3>1. outq \in Seq(Frame) /\ Head(outq) \in ResponseFrame /\ OneIn(outq, HolderCall)
      BY <1>3, <2>1, FramesTyped DEF Receive, HostType, OneExchange
    <3> QED
      BY <1>3, <2>1, <3>1, TailExchange, ExchangeFrames DEF Receive, HolderCall
  <2> QED
    BY <1>3, <2>2 DEF Receive, Rpc!Answer, Phase
<1> QED
  BY <1>1, <1>2, <1>3 DEF CallStep

LEMMA RpcLoses ==
  ASSUME LinkInv, TearDown
  PROVE  \E S \in SUBSET Task : Rpc!Lose(S)
<1> DEFINE S == {t \in Task : pc[t] = "blocked" \/ (pc[t] = "lock" /\ lock # NoTask)}
<1>1. Rpc!Lose(S)
  BY DEF TearDown, LinkInv, TypeOK, CallType, Rpc!Lose, Phase
<1> QED
  BY <1>1

LEMMA RpcStep == LinkInv /\ [Next]_vars => [Rpc!Next]_(Rpc!rpcVars)
<1> SUFFICES ASSUME LinkInv, [Next]_vars PROVE [Rpc!Next]_(Rpc!rpcVars)
  OBVIOUS
<1>0. CallType
  BY DEF LinkInv, TypeOK
<1>1. CASE UNCHANGED callVars
  BY <1>1, RpcKept
<1>2. CASE UNCHANGED vars
  BY <1>1, <1>2 DEF vars
<1>3. ASSUME NEW t \in Task, CallStep(t) PROVE [Rpc!Next]_(Rpc!rpcVars)
  BY <1>3, RpcCallStep DEF Rpc!Next
<1>4. ASSUME NEW t \in Caller, CallerStep(t) PROVE [Rpc!Next]_(Rpc!rpcVars)
  BY <1>0, <1>4, RpcAsks, RpcLeaves, TasksTyped
  DEF CallerStep, CallerIssues, CallerReturns, Rpc!Next
<1>5. ASSUME NEW t \in Starter, BringUpStep(t) PROVE [Rpc!Next]_(Rpc!rpcVars)
  BY <1>0, <1>5, RpcAsks, RpcLeaves, TasksTyped
  DEF BringUpStep, BringUpIssues, BringUpReturns, Rpc!Next
<1>6. CASE HandleQuery \/ HandleQueryReturns
  BY <1>0, <1>6, RpcAsks, RpcLeaves, TasksTyped DEF HandleQuery, HandleQueryReturns, Rpc!Next
<1>7. CASE TearDown
  BY <1>7, RpcLoses DEF Rpc!Next
<1>8. CASE HostStep \/ BusStep \/ NcpStep \/ FaultStep
  BY <1>1, <1>8
  DEF HostStep, HostOutput, HostInput, BusStep, BusData, BusBreak, NcpStep, NcpServe, NcpRefuse,
      NcpNotify, NcpReportsFailure, FaultStep, BusOverflow, Garble, NcpReset
<1>9. CASE LoopCheck \/ LoopTake \/ LoopReceive \/ HandleEvent \/ HandleFailure \/ Rebuild
  BY <1>1, <1>9 DEF LoopCheck, LoopTake, LoopReceive, HandleEvent, HandleFailure, Rebuild
<1> QED
  BY <1>2, <1>3, <1>4, <1>5, <1>6, <1>7, <1>8, <1>9 DEF Next, LoopStep

(* What the tasks see of the link is RpcChannel: calls one at a time, each *)
(* ending with its own answer or none, or lost to a rebuild.               *)
THEOREM LinkImplementsRpc == Spec => ImplementsRpc
<1>1. Init => Rpc!Init
  BY RpcInit
<1>2. LinkInv /\ [Next]_vars => [Rpc!Next]_(Rpc!rpcVars)
  BY RpcStep
<1> QED
  BY <1>1, <1>2, LinkCorrect, PTL DEF Spec, ImplementsRpc, Rpc!Spec
-----------------------------------------------------------------------------
(* No report of a failure is on its way before the NCP has made one.       *)
NoReport(q) == \A k \in DOMAIN q : IsNote(q[k]) => q[k].id # "failure"

Silent ==
  ~FailureReported =>
    /\ NoReport(toHost) /\ NoReport(events) /\ NoReport(late) /\ NoReport(notq)
    /\ cur # "failure"

LEMMA EmptyNoReport == NoReport(<<>>)
BY DEF NoReport

LEMMA AppendNoReport ==
  ASSUME NEW S, NEW q \in Seq(S), NEW m \in S, NoReport(q),
         IsNote(m) => m.id # "failure"
  PROVE  NoReport(Append(q, m))
<1> DEFINE r == Append(q, m)
<1>1. /\ DOMAIN r = 1 .. Len(q) + 1 /\ DOMAIN q = 1 .. Len(q) /\ Len(q) \in Nat
      /\ \A i \in 1 .. Len(q) : r[i] = q[i]
      /\ r[Len(q) + 1] = m
  OBVIOUS
<1> HIDE DEF r
<1>2. NoReport(r)
  BY <1>1 DEF NoReport
<1> QED
  BY <1>2 DEF r

LEMMA TailNoReport ==
  ASSUME NEW S, NEW q \in Seq(S), q # <<>>, NoReport(q)
  PROVE  NoReport(Tail(q)) /\ (IsNote(Head(q)) => Head(q).id # "failure")
<1> DEFINE r == Tail(q)
<1>1. /\ DOMAIN r = 1 .. Len(q) - 1 /\ DOMAIN q = 1 .. Len(q) /\ Len(q) \in Nat /\ Len(q) > 0
      /\ \A i \in 1 .. Len(q) - 1 : r[i] = q[i + 1]
      /\ Head(q) = q[1]
  OBVIOUS
<1> HIDE DEF r
<1>2. \A i \in DOMAIN r : i + 1 \in DOMAIN q /\ r[i] = q[i + 1]
  BY <1>1
<1>3. NoReport(r)
  BY <1>2 DEF NoReport
<1>4. 1 \in DOMAIN q
  BY <1>1
<1> QED
  BY <1>1, <1>3, <1>4 DEF NoReport, r

LEMMA GarbleNoReport ==
  ASSUME NEW q \in Seq(Frame), NEW i \in DOMAIN q, NoReport(q)
  PROVE  NoReport([q EXCEPT ![i] = Bad])
BY DEF NoReport, Bad

(* What was reported stays in the history of faults.                       *)
LEMMA OccursRemembered ==
  ASSUME TypeOK, NEW f, Occurs(f)
  PROVE  /\ FailureReported => FailureReported'
         /\ f = "failure" => FailureReported'
<1> DEFINE r == Append(faults, f)
<1>1. faults \in Seq(Fault) /\ f \in Fault /\ faults' = r
  BY DEF Occurs, TypeOK, WireType
<1>2. /\ DOMAIN r = 1 .. Len(faults) + 1 /\ DOMAIN faults = 1 .. Len(faults)
      /\ Len(faults) \in Nat /\ r[Len(faults) + 1] = f
      /\ \A i \in 1 .. Len(faults) : r[i] = faults[i]
  BY <1>1
<1> HIDE DEF r
<1>3. /\ \A k \in DOMAIN faults : k \in DOMAIN r /\ r[k] = faults[k]
      /\ Len(faults) + 1 \in DOMAIN r
  BY <1>2
<1>4. FailureReported => FailureReported'
  BY <1>1, <1>3 DEF FailureReported
<1>5. f = "failure" => FailureReported'
  BY <1>1, <1>2, <1>3 DEF FailureReported
<1> QED
  BY <1>4, <1>5

LEMMA ReportsKept ==
  ASSUME TypeOK, [Next]_vars, FailureReported
  PROVE  FailureReported'
<1>1. CASE UNCHANGED faults
  BY <1>1 DEF FailureReported
<1>2. CASE \E f : Occurs(f)
  BY <1>2, OccursRemembered
<1>3. CASE UNCHANGED vars
  BY <1>1, <1>3 DEF vars, wireVars
<1>4. ASSUME NEW t \in Task, CallStep(t) \/ (t \in Caller /\ CallerStep(t))
             \/ (t \in Starter /\ BringUpStep(t))
      PROVE  FailureReported'
  BY <1>1, <1>4
  DEF CallStep, TakeLock, Send, Wait, Receive, CallerStep, CallerIssues, CallerReturns,
      BringUpStep, BringUpIssues, BringUpReturns, wireVars
<1>5. CASE HostStep \/ BusStep \/ LoopStep
  BY <1>1, <1>5
  DEF HostStep, HostOutput, HostInput, BusStep, BusData, BusBreak, LoopStep, LoopCheck,
      LoopTake, LoopReceive, HandleEvent, HandleQuery, HandleQueryReturns, HandleFailure,
      TearDown, Rebuild, wireVars
<1>6. CASE NcpStep
  BY <1>1, <1>2, <1>6
  DEF NcpStep, NcpServe, NcpRefuse, NcpNotify, NcpReportsFailure
<1>7. CASE FaultStep
  BY <1>2, <1>7 DEF FaultStep, BusOverflow, Garble, NcpReset
<1> QED
  BY <1>3, <1>4, <1>5, <1>6, <1>7, TasksTyped DEF Next

LEMMA SilentInit == Init => Silent
BY EmptyNoReport DEF Init, Silent, NoId

LEMMA PostNoReport ==
  ASSUME TypeOK, NoReport(events), NEW m \in Frame, IsNote(m) => m.id # "failure",
         events' = Post(m)
  PROVE  NoReport(events')
BY AppendNoReport DEF TypeOK, HostType

LEMMA DeliverNoReport ==
  ASSUME TypeOK, NoReport(toHost), NEW m \in Frame, IsNote(m) => m.id # "failure",
         Deliver(m)
  PROVE  NoReport(toHost')
BY AppendNoReport DEF Deliver, TypeOK, WireType

LEMMA SilentStep ==
  ASSUME TypeOK, Silent, [Next]_vars
  PROVE  Silent'
<1> DEFINE Quiets == /\ NoReport(toHost) /\ NoReport(events) /\ NoReport(late)
                     /\ NoReport(notq) /\ cur # "failure"
<1> SUFFICES ASSUME ~FailureReported' PROVE Quiets'
  BY DEF Silent
<1>0. /\ Quiets /\ toHost \in Seq(Frame) /\ events \in Seq(Frame) /\ late \in Seq(Frame)
      /\ notq \in Seq(NoteFrame)
  BY ReportsKept DEF Silent, TypeOK, HostType, WireType
<1>a. CASE UNCHANGED <<toHost, events, late, notq, cur>>
  BY <1>0, <1>a DEF NoReport
<1>1. CASE UNCHANGED vars
  BY <1>1, <1>a DEF vars, wireVars, hostVars, loopVars
<1>2. ASSUME NEW t \in Task, CallStep(t) PROVE Quiets'
  <2>1. CASE Send(t)
    <3>1. Request(cmd[t], <<t, turn[t]>>) \in Frame
      BY FramesTyped, TasksTyped DEF TypeOK, CallType
    <3>2. NoReport(events')
      BY <1>0, <2>1, <3>1, PostNoReport DEF Send, Request
    <3> QED
      BY <1>0, <2>1, <3>2 DEF Send, wireVars, loopVars, NoReport
  <2>2. CASE ~Send(t)
    BY <1>2, <1>a, <2>2
    DEF CallStep, TakeLock, Wait, Receive, hostVars, loopVars, wireVars
  <2> QED
    BY <2>1, <2>2
<1>3. ASSUME NEW t \in Task, CallerStep(t) \/ BringUpStep(t) PROVE Quiets'
  BY <1>3, <1>a
  DEF CallerStep, CallerIssues, CallerReturns, BringUpStep, BringUpIssues, BringUpReturns,
      hostVars, loopVars, wireVars
<1>4. CASE HostStep
  <2>1. events # <<>> /\ Head(events) \in Frame /\ NoReport(Tail(events))
        /\ (IsNote(Head(events)) => Head(events).id # "failure")
    BY <1>0, <1>4, TailNoReport DEF HostStep, HostOutput, HostInput
  <2>2. NoReport(events')
    BY <1>4, <2>1, EmptyNoReport DEF HostStep, HostOutput, HostInput, HostTaskFails
  <2>3. NoReport(late')
    BY <1>0, <1>4, EmptyNoReport DEF HostStep, HostOutput, HostInput, HostTaskFails
  <2>4. NoReport(notq')
    <3>1. CASE notq' = notq
      BY <1>0, <3>1
    <3>2. CASE IsNote(Head(events)) /\ notq' = Append(notq, Head(events))
      BY <1>0, <2>1, <3>2, FrameByType, AppendNoReport
    <3> QED
      BY <1>4, <3>1, <3>2 DEF HostStep, HostOutput, HostInput, HostTaskFails
  <2> QED
    BY <1>0, <1>4, <2>2, <2>3, <2>4
    DEF HostStep, HostOutput, HostInput, HostTaskFails, wireVars, loopVars, NoReport
<1>5. CASE BusData
  <2>1. Head(toHost) \in Frame /\ NoReport(Tail(toHost))
        /\ (IsNote(Head(toHost)) => Head(toHost).id # "failure")
    BY <1>0, <1>5, TailNoReport DEF BusData
  <2> DEFINE q == Append(late, Head(toHost))
  <2>2. q \in Seq(Frame) /\ q # <<>> /\ NoReport(q)
    BY <1>0, <2>1, AppendNoReport, AppendTyped
  <2> HIDE DEF q
  <2>3. NoReport(Tail(q)) /\ \A m \in Counted(q) : m \in Frame /\ (IsNote(m) => m.id # "failure")
    BY <2>2, TailNoReport, CountedFrames DEF Bad
  <2>4. NoReport(events') /\ NoReport(late')
    <3>1. CASE events' = events /\ late' = q
      BY <1>0, <2>2, <3>1
    <3>2. ASSUME NEW m \in Counted(q), events' = Post(m), late' = Tail(q)
          PROVE  NoReport(events') /\ NoReport(late')
      BY <1>0, <2>3, <3>2, PostNoReport
    <3> QED
      BY <1>5, <3>1, <3>2 DEF BusData, q
  <2> QED
    BY <1>0, <1>5, <2>1, <2>4 DEF BusData, loopVars, NoReport
<1>6. CASE BusBreak \/ BusOverflow
  BY <1>0, <1>6, EmptyNoReport DEF BusBreak, BusOverflow, hostVars, loopVars, NoReport
<1>7. CASE LoopStep
  <2>1. CASE LoopReceive
    <3>1. notq # <<>> => NoReport(Tail(notq)) /\ Head(notq) \in NoteFrame
                         /\ (IsNote(Head(notq)) => Head(notq).id # "failure")
      BY <1>0, TailNoReport
    <3>2. notq # <<>> => Head(notq).id # "failure"
      BY <3>1 DEF NoteFrame
    <3> QED
      BY <1>0, <2>1, <3>1, <3>2 DEF LoopReceive, wireVars, NoReport
  <2>2. CASE TearDown
    BY <1>0, <2>2, EmptyNoReport DEF TearDown
  <2>3. CASE HandleEvent \/ HandleQueryReturns \/ HandleFailure
    BY <1>0, <2>3
    DEF HandleEvent, HandleQueryReturns, HandleFailure, NoId, hostVars, wireVars, NoReport
  <2>4. CASE LoopCheck \/ LoopTake \/ HandleQuery \/ Rebuild
    BY <1>a, <2>4 DEF LoopCheck, LoopTake, HandleQuery, Rebuild, hostVars, wireVars
  <2> QED
    BY <1>7, <2>1, <2>2, <2>3, <2>4 DEF LoopStep
<1>8. CASE NcpStep
  <2>1. NoReport(toHost')
    <3>1. CASE NcpServe
      <4>1. Head(toNcp) \in RequestFrame
        BY <3>1 DEF NcpServe, TypeOK, WireType
      <4>2. \A b \in BOOLEAN : Response(Head(toNcp).id, Head(toNcp).call, b) \in Frame
        BY <4>1, FramesTyped, FieldsTyped
      <4>3. NcpAccepts(Head(toNcp).id) \in BOOLEAN
        BY DEF NcpAccepts
      <4>4. Deliver(Response(Head(toNcp).id, Head(toNcp).call, NcpAccepts(Head(toNcp).id)))
        BY <3>1 DEF NcpServe
      <4> QED
        BY <1>0, <4>2, <4>3, <4>4, DeliverNoReport DEF Response
    <3>2. CASE NcpRefuse
      <4>1. Head(toNcp) \in RequestFrame
        BY <3>2 DEF NcpRefuse, TypeOK, WireType
      <4>2. Response(ErrorId, Head(toNcp).call, FALSE) \in Frame
        BY <4>1, FramesTyped, FieldsTyped
      <4> QED
        BY <1>0, <3>2, <4>2, DeliverNoReport DEF NcpRefuse, Response
    <3>3. CASE NcpNotify
      <4>1. PICK n \in Note : Deliver(Noti(n))
        BY <3>3 DEF NcpNotify
      <4>2. n # "failure" /\ Noti(n) \in Frame
        BY FramesTyped, LinkAssumption
      <4> QED
        BY <1>0, <4>1, <4>2, DeliverNoReport DEF Noti
    <3>4. CASE NcpReportsFailure
      <4>1. ~Occurs("failure")
        BY OccursRemembered
      <4> QED
        BY <1>0, <3>4, <4>1 DEF NcpReportsFailure
    <3> QED
      BY <1>8, <3>1, <3>2, <3>3, <3>4 DEF NcpStep
  <2> QED
    BY <1>0, <1>8, <2>1
    DEF NcpStep, NcpServe, NcpRefuse, NcpNotify, NcpReportsFailure, hostVars, loopVars,
        NoReport
<1>9. CASE Garble \/ NcpReset
  <2>1. NoReport(toHost')
    <3>1. CASE Garble
      BY <1>0, <3>1, GarbleNoReport DEF Garble
    <3>2. CASE NcpReset
      BY <1>0, <3>2, FramesTyped, DeliverNoReport DEF NcpReset, Break
    <3> QED
      BY <1>9, <3>1, <3>2
  <2> QED
    BY <1>0, <1>9, <2>1 DEF Garble, NcpReset, hostVars, loopVars, NoReport
<1> QED
  BY <1>1, <1>2, <1>3, <1>4, <1>5, <1>6, <1>7, <1>8, <1>9, TasksTyped
  DEF Next, BusStep, FaultStep

-----------------------------------------------------------------------------
(* Bring-ups and restart notifications, when the NCP reports no failure.   *)

LEMMA BringUpKept ==
  ASSUME BringUpInv, UNCHANGED <<state, notified, loop, bring>>
  PROVE  BringUpInv'
BY DEF BringUpInv

LEMMA BringUpInit == Init => BringUpInv
BY DEF Init, BringUpInv

LEMMA BringUpStepKeeps ==
  ASSUME TypeOK, BringUpInv, cur # "failure", [Next]_vars
  PROVE  BringUpInv'
<1>1. CASE UNCHANGED vars
  BY <1>1, BringUpKept DEF vars, busVars, loopVars, bringVars
<1>2. ASSUME NEW t \in Task, CallStep(t) PROVE BringUpInv'
  BY <1>2, BringUpKept
  DEF CallStep, TakeLock, Send, Wait, Receive, busVars, loopVars, bringVars
<1>3. ASSUME NEW t \in Caller, CallerStep(t) PROVE BringUpInv'
  BY <1>3, BringUpKept
  DEF CallerStep, CallerIssues, CallerReturns, busVars, loopVars, bringVars
<1>4. ASSUME NEW t \in Starter, BringUpStep(t) PROVE BringUpInv'
  <2>1. CASE BringUpIssues(t)
    BY <2>1, BringUpKept DEF BringUpIssues, busVars, loopVars, bringVars
  <2>2. CASE BringUpReturns(t)
    <3>1. CASE UNCHANGED <<state, loop, bring>>
      BY <2>2, <3>1, BringUpKept DEF BringUpReturns, busVars
    <3>2. CASE BringUpAdvances(t)
      <4>1. ReadCalls \in Nat \ {0} /\ Main # Zb
        BY LinkAssumption
      <4>2. bring[t] \in Nat /\ bring[t] > 0 /\ notified' = notified
        BY <2>2 DEF BringUpReturns, busVars, TypeOK, LoopType
      <4>3. CASE t = Zb
        <5>1. loop = "bringup" /\ bring'[Main] = bring[Main] /\ bring[Main] \in Nat
          BY <2>2, <3>2, <4>1, <4>3, TasksTyped
          DEF BringUpReturns, BringUpAdvances, TypeOK, LoopType
        <5> QED
          BY <3>2, <4>2, <4>3, <5>1 DEF BringUpAdvances, BringUpInv
      <4>4. CASE t # Zb
        <5>1. t = Main /\ loop' = loop /\ bring'[Main] = bring[Main] - 1
          BY <3>2, <4>4, TasksTyped DEF BringUpAdvances, Starter, TypeOK, LoopType
        <5> QED
          BY <3>2, <4>1, <4>2, <5>1 DEF BringUpAdvances, BringUpInv, IsStart
      <4> QED
        BY <4>3, <4>4
    <3> QED
      BY <2>2, <3>1, <3>2 DEF BringUpReturns
  <2> QED
    BY <1>4, <2>1, <2>2 DEF BringUpStep
<1>5. CASE HostStep \/ NcpStep \/ FaultStep \/ BusData
  BY <1>5, BringUpKept
  DEF HostStep, HostOutput, HostInput, NcpStep, NcpServe, NcpRefuse, NcpNotify,
      NcpReportsFailure, FaultStep, BusOverflow, Garble, NcpReset, BusData, busVars,
      loopVars, bringVars
<1>6. CASE BusBreak
  BY <1>6 DEF BusBreak, BringUpInv, loopVars, bringVars
<1>7. CASE LoopCheck \/ LoopTake \/ LoopReceive \/ HandleEvent \/ HandleQuery \/ HandleQueryReturns
  BY <1>7
  DEF LoopCheck, LoopTake, LoopReceive, HandleEvent, HandleQuery, HandleQueryReturns,
      busVars, bringVars, BringUpInv
<1>8. CASE HandleFailure
  BY <1>8 DEF HandleFailure
<1>9. CASE TearDown
  BY <1>9 DEF TearDown, bringVars, BringUpInv
<1>10. CASE Rebuild
  <2>1. bring'[Main] = bring[Main] /\ bring[Main] \in Nat
    BY <1>10, LinkAssumption, TasksTyped DEF Rebuild, TypeOK, LoopType
  <2> QED
    BY <1>10, <2>1 DEF Rebuild, BringUpInv
<1> QED
  BY <1>1, <1>2, <1>3, <1>4, <1>5, <1>6, <1>7, <1>8, <1>9, <1>10
  DEF Next, BusStep, LoopStep

ReportInv == Silent /\ (~FailureReported => BringUpInv)

LEMMA ReportCorrect == Spec => []ReportInv
<1>1. Init => ReportInv
  BY SilentInit, BringUpInit DEF ReportInv
<1>2. TypeOK /\ ReportInv /\ [Next]_vars => ReportInv'
  BY SilentStep, ReportsKept, BringUpStepKeeps DEF ReportInv, Silent
<1> QED
  BY <1>1, <1>2, TypeCorrect, PTL DEF Spec

(* A restart notification is never stale when it is taken, so that a       *)
(* rebuilt link is not torn down again for the fault it was rebuilt for.   *)
THEOREM NotificationsFresh == Spec => []NotificationIsFresh
<1>1. ReportInv => NotificationIsFresh
  BY DEF ReportInv, BringUpInv, NotificationIsFresh
<1> QED
  BY <1>1, ReportCorrect, PTL

(* app_main and esp_zb_task never bring the link up at the same time.      *)
THEOREM BringUpsDoNotOverlap == Spec => []OneBringUp
<1>1. TypeOK /\ ReportInv => OneBringUp
  BY TasksTyped DEF ReportInv, BringUpInv, OneBringUp, TypeOK, LoopType
<1> QED
  BY <1>1, TypeCorrect, ReportCorrect, PTL
=============================================================================
