---------------------------- MODULE NcpFirmware -----------------------------
(***************************************************************************)
(* The tasks of the NCP (zigbee_ncp/components/ncp_manager) and the bytes  *)
(* between them.  esp_ncp_bus_task reads the UART; esp_ncp_main_task serves*)
(* commands and writes the UART; the Zigbee task notifies.  A frame for    *)
(* the host is put as bytes into input_buf, under a semaphore, and counted *)
(* by an event, which is posted after it; the main task, which also puts   *)
(* its answers there, takes an event and as many bytes as it counts.       *)
(*                                                                         *)
(* Buffer and queue are small, a put gives up when there is no room, and   *)
(* handlers give up on the Zigbee lock.  The host makes one call at a time *)
(* and waits for its answer; SLIP and checksums are in NcpLink's frames.   *)
(***************************************************************************)
EXTENDS Naturals, Sequences, SequencesExt, FiniteSets

CONSTANTS
  Main, Zboss,  \* esp_ncp_main_task and the task of the Zigbee stack
  Free,         \* nobody holds the semaphore, or the Zigbee lock
  Command,      \* calls of the host; also the names of their answers
  Locking,      \* commands whose handler takes the Zigbee lock
  Note,         \* notifications of the Zigbee task
  Refusal,      \* the frame of id 0xFFFF that reports an error
  Size,         \* frame for the host |-> its bytes
  Space,        \* NCP_BUS_RINGBUF_SIZE
  QueueLen      \* NCP_EVENT_QUEUE_LEN

Task  == {Main, Zboss}
Frame == Command \cup Note \cup {Refusal}

\* Frames are apart and have bytes; one fits into the buffer.
ASSUME Shapes ==
  /\ Main # Zboss /\ Free \notin Task
  /\ Command \cap Note = {} /\ Refusal \notin Command \cup Note
  /\ Locking \subseteq Command
  /\ Size \in [Frame -> Nat \ {0}]
  /\ Space \in Nat /\ QueueLen \in Nat \ {0}
  /\ \A f \in Frame : Size[f] <= Space

Byte == {b \in Frame \X (1 .. Space) : b[2] <= Size[b[1]]}
Output == [event : {"output"}, size : {1}]   \* a whole command has come
Input  == [event : {"input"}, size : 1 .. Space]

VARIABLES
  bus,        \* commands read from the UART and not yet counted
  output_buf, \* commands for the main task
  queue,      \* dev->queue
  main,       \* "loop", "handle" a command, "answer", "refuse" or "ended"
  put,        \* task |-> the call of esp_ncp_bus_input it is in
  input_sem,
  input_buf,  \* bytes for the host
  line,       \* bytes written to the UART so far
  lock,       \* owner of the Zigbee lock; Main when a handler kept it
  call,       \* the commands the host has sent, in order
  noted,      \* notifications made so far
  lost        \* bytes were put and not counted, or a reply was given up

tasks == <<main, lock>>
bytes == <<input_sem, input_buf>>
vars  == <<bus, output_buf, queue, main, put, input_sem, input_buf, line, lock,
           call, noted, lost>>

-----------------------------------------------------------------------------
(* The host, from outside, and the task that reads the UART.  It sends     *)
(* commands the table of handlers has: another would be neither answered   *)
(* nor refused.                                                            *)

Answered(c) == <<c, Size[c]>> \in Range(line)

\* The host sends a command when the one before is answered.
HostCalls(c) ==
  /\ c \notin Range(call) /\ \A d \in Range(call) : Answered(d)
  /\ call' = Append(call, c) /\ bus' = Append(bus, c)
  /\ output_buf' = Append(output_buf, c)
  /\ UNCHANGED <<queue, tasks, put, bytes, line, noted, lost>>

SendGrowing(e) == queue' = Append(queue, e) /\ UNCHANGED lost

\* esp_ncp_send_event: nobody waits for room in the queue, and there is no
\* queue when the main task has ended.
Accepts == main # "ended" /\ Len(queue) < QueueLen
Send(e) ==
  /\ queue' = IF Accepts THEN Append(queue, e) ELSE queue
  /\ lost' = (lost \/ ~Accepts)

\* esp_ncp_bus_task counts the bytes it has read; it ignores the result.
BusCounts ==
  /\ bus # <<>> /\ main # "ended"
  /\ bus' = Tail(bus)
  /\ Send([event |-> "output", size |-> 1])
  /\ UNCHANGED <<output_buf, tasks, put, bytes, line, call, noted>>

-----------------------------------------------------------------------------
(* esp_ncp_bus_input, in the main task and in the Zigbee task.             *)

Idle      == [pc |-> "none",  frame |-> Refusal, done |-> 0, goal |-> 0]
Begin(f)  == [pc |-> "space", frame |-> f, done |-> 0, goal |-> Size[f]]
Goes(t, pc) == put' = [put EXCEPT ![t].pc = pc]
Room      == Space - Len(input_buf)

\* What a task does with the result: the Zigbee task ignores it, and so does
\* the main task for an answer; an error it cannot report ends the main task.
Returns(t, ok) ==
  /\ put' = [put EXCEPT ![t] = Idle]
  /\ main' = IF t # Main THEN main
             ELSE IF main = "refuse" /\ ~ok THEN "ended" ELSE "loop"

\* Without the semaphore: is there room?
PutSpace(t) ==
  /\ put[t].pc = "space"
  /\ Goes(t, IF Room >= put[t].goal THEN "sem" ELSE "wait")
  /\ UNCHANGED <<bus, output_buf, queue, tasks, bytes, line, call, noted, lost>>

PutWaitsOn(t) ==
  /\ put[t].pc = "wait" /\ Room >= put[t].goal
  /\ Goes(t, "sem")
  /\ UNCHANGED <<bus, output_buf, queue, tasks, bytes, line, call, noted, lost>>

\* Wait for room; after 50 ms give up, also when room has come by then.
PutWaited(t) ==
  /\ put[t].pc = "wait"
  /\ \/ /\ Room >= put[t].goal
        /\ Goes(t, "sem") /\ UNCHANGED <<main, lost>>
     \/ Returns(t, FALSE) /\ lost' = (lost \/ t = Main)
  /\ UNCHANGED <<bus, output_buf, queue, bytes, line, lock, call, noted>>

PutTakeAnyway(t) ==
  /\ put[t].pc = "sem"
  /\ input_sem' = t
  /\ put' = [put EXCEPT ![t].pc = "copy", ![t].goal = IF Room < @ THEN Room ELSE @]
  /\ UNCHANGED <<bus, output_buf, queue, tasks, input_buf, line, call, noted, lost>>

\* xSemaphoreTake; then xStreamBufferSend looks for room and takes what there
\* is: another task may have used the room found before.
PutTake(t) ==
  /\ put[t].pc = "sem" /\ input_sem = Free
  /\ input_sem' = t
  /\ put' = [put EXCEPT ![t].pc = "copy", ![t].goal = IF Room < @ THEN Room ELSE @]
  /\ UNCHANGED <<bus, output_buf, queue, tasks, input_buf, line, call, noted, lost>>

\* The copy, byte by byte.
PutCopy(t) ==
  /\ put[t].pc = "copy" /\ put[t].done < put[t].goal
  /\ put' = [put EXCEPT ![t].done = @ + 1]
  /\ input_buf' = Append(input_buf, <<put[t].frame, put[t].done + 1>>)
  /\ UNCHANGED <<bus, output_buf, queue, tasks, input_sem, line, call, noted, lost>>

PutGiveUntested(t) ==
  /\ put[t].pc = "copy" /\ put[t].done = put[t].goal
  /\ input_sem' = Free /\ Goes(t, "post")
  /\ UNCHANGED <<bus, output_buf, queue, tasks, input_buf, line, call, noted, lost>>

\* xSemaphoreGive; a frame that was cut is not counted, and its bytes stay.
PutGive(t) ==
  /\ put[t].pc = "copy" /\ put[t].done = put[t].goal
  /\ input_sem' = Free
  /\ IF put[t].goal = Size[put[t].frame]
       THEN Goes(t, "post") /\ UNCHANGED <<main, lost>>
       ELSE Returns(t, FALSE) /\ lost' = TRUE
  /\ UNCHANGED <<bus, output_buf, queue, lock, input_buf, line, call, noted>>

\* The event that counts the bytes, after the semaphore is given: two tasks
\* may post in the other order.
PutPost(t) ==
  /\ put[t].pc = "post"
  /\ Send([event |-> "input", size |-> Size[put[t].frame]])
  /\ Returns(t, Accepts)
  /\ UNCHANGED <<bus, output_buf, lock, bytes, line, call, noted>>

Put(t) == PutSpace(t) \/ PutWaited(t) \/ PutTake(t) \/ PutCopy(t) \/ PutGive(t) \/ PutPost(t)

-----------------------------------------------------------------------------
(* esp_ncp_main_task and the Zigbee task.                                  *)

\* Take an event: a command to handle, or bytes to write to the UART.  Fewer
\* bytes than the event counts are thrown away.
MainTakes ==
  /\ main = "loop" /\ queue # <<>>
  /\ queue' = Tail(queue)
  /\ LET e == Head(queue)
         n == IF e.size < Len(input_buf) THEN e.size ELSE Len(input_buf)
     IN  IF e.event = "output"
           THEN main' = "handle" /\ UNCHANGED <<input_buf, line>>
           ELSE /\ input_buf' = SubSeq(input_buf, n + 1, Len(input_buf))
                /\ line' = IF n = e.size THEN line \o SubSeq(input_buf, 1, n) ELSE line
                /\ UNCHANGED main
  /\ UNCHANGED <<bus, output_buf, put, input_sem, lock, call, noted, lost>>

Replies(as, f) ==
  /\ main' = as /\ put' = [put EXCEPT ![Main] = Begin(f)]
  /\ output_buf' = Tail(output_buf)
  /\ UNCHANGED <<bus, queue, bytes, line, call, noted, lost>>

\* The handler has succeeded.  One that does not get the Zigbee lock in 500 ms
\* succeeds too, most of them: it leaves the request out.
Answer ==
  /\ main = "handle" /\ Replies("answer", Head(output_buf))
  /\ UNCHANGED lock

Refuse ==
  /\ main = "handle" /\ Replies("refuse", Refusal)
  /\ UNCHANGED lock

\* An error between taking the Zigbee lock and giving it back keeps the lock.
RefuseLocked ==
  /\ main = "handle" /\ Head(output_buf) \in Locking /\ lock # Zboss
  /\ lock' = Main
  /\ Replies("refuse", Refusal)

MainStep == MainTakes \/ Answer \/ Refuse \/ RefuseLocked \/ Put(Main)

\* The stack takes its lock, makes notifications, and gives the lock back.
ZbossTakes ==
  /\ lock = Free /\ lock' = Zboss
  /\ UNCHANGED <<bus, output_buf, queue, main, put, bytes, line, call, noted, lost>>

Notify(n) ==
  /\ lock = Zboss /\ put[Zboss] = Idle /\ n \notin noted
  /\ noted' = noted \cup {n}
  /\ put' = [put EXCEPT ![Zboss] = Begin(n)]
  /\ UNCHANGED <<bus, output_buf, queue, tasks, bytes, line, call, lost>>

ZbossGives ==
  /\ lock = Zboss /\ put[Zboss] = Idle /\ lock' = Free
  /\ UNCHANGED <<bus, output_buf, queue, main, put, bytes, line, call, noted, lost>>

-----------------------------------------------------------------------------
Init ==
  /\ bus = <<>> /\ output_buf = <<>> /\ queue = <<>> /\ main = "loop"
  /\ put = [t \in Task |-> Idle]
  /\ input_sem = Free /\ input_buf = <<>> /\ line = <<>> /\ lock = Free
  /\ call = <<>> /\ noted = {} /\ lost = FALSE

Next ==
  \/ \E c \in Command : HostCalls(c)
  \/ BusCounts
  \/ MainStep
  \/ ZbossTakes \/ ZbossGives \/ Put(Zboss)
  \/ \E n \in Note : Notify(n)

Spec == Init /\ [][Next]_vars

\* The tasks run, and a put that waits for the semaphore gets it: it is given
\* after every copy.
Fairness ==
  /\ WF_vars(BusCounts) /\ WF_vars(MainStep) /\ WF_vars(Put(Zboss))
  /\ SF_vars(PutTake(Main))

FairSpec == Spec /\ Fairness

-----------------------------------------------------------------------------
(* Properties.                                                             *)

TypeOK ==
  /\ bus \in Seq(Command) /\ output_buf \in Seq(Command)
  /\ queue \in Seq(Input \cup Output) /\ Len(queue) <= QueueLen
  /\ main \in {"loop", "handle", "answer", "refuse", "ended"}
  /\ put \in [Task -> [pc : {"none", "space", "wait", "sem", "copy", "post"}, frame : Frame,
                       done : 0 .. Space, goal : 0 .. Space]]
  /\ input_sem \in Task \cup {Free} /\ lock \in Task \cup {Free}
  /\ input_buf \in Seq(Byte) /\ Len(input_buf) <= Space /\ line \in Seq(Byte)
  /\ call \in Seq(Command) /\ noted \subseteq Note /\ lost \in BOOLEAN

\* The bytes of a frame follow one another on the UART, however the two tasks
\* that put frames interleave, and if a frame was cut (input_sem in
\* esp_ncp_bus_input).
Together ==
  LET s == line \o input_buf
  IN  \A k \in DOMAIN s : s[k][2] > 1 =>
        k > 1 /\ s[k - 1] = <<s[k][1], s[k][2] - 1>>

\* The bytes the events in the queue count; <<n, k>> is the k-th byte of the n-th event.
Queued == Cardinality({b \in (DOMAIN queue) \X (1 .. Space) :
                         queue[b[1]].event = "input" /\ b[2] <= queue[b[1]].size})
Copied == (IF put[Main].pc \in {"copy", "post"} THEN put[Main].done ELSE 0)
          + (IF put[Zboss].pc \in {"copy", "post"} THEN put[Zboss].done ELSE 0)

\* The events never count more bytes than there are, so the main task never
\* throws bytes away; while none is lost they count every byte but those a
\* task is about to count.
Counted ==
  /\ Queued <= Len(input_buf)
  /\ ~lost => Queued + Copied = Len(input_buf)

\* A command of the host is answered or refused, although the main task is the
\* one that empties the buffer it puts its answer into and waits for a lock
\* whose owner may be waiting for that room; or the queue or the buffer was
\* full and something is lost.
CallAnswered ==
  \A c \in Command : c \in Range(call) ~>
    (Answered(c) \/ <<Refusal, Size[Refusal]>> \in Range(line) \/ lost)
=============================================================================
