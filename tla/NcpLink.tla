------------------------------ MODULE NcpLink ------------------------------
(***************************************************************************)
(* The serial link between the ESP32 host and the Zigbee network           *)
(* co-processor (NCP): zbm_ncp_connect/ on the host side and the command   *)
(* loop of ncp_manager/ on the other.                                      *)
(*                                                                         *)
(* Any host task may issue a command with esp_host_zb_output: it takes the *)
(* link lock, posts a frame to host_task, and blocks on the output queue   *)
(* with no timeout.  host_task is the only task that writes the UART and   *)
(* that parses what host_bus_task reads from it: a response goes to the    *)
(* output queue, a notification to the notify queue, which esp_zb_task     *)
(* drains.  esp_zb_task also rebuilds the whole link after a UART break or *)
(* a stack-failure notification, and its handlers issue commands too.      *)
(*                                                                         *)
(* One frame is one UART_DATA event here; bytes, SLIP and CRC are not      *)
(* modelled, a frame that fails them is of type "bad".  An event that      *)
(* finds its queue full is lost while its bytes stay in the stream buffer. *)
(***************************************************************************)
EXTENDS Naturals, Sequences

CONSTANTS
  Caller,      \* tasks other than Main and Zb that issue commands
  Main,        \* app_main, which brings the link up at boot
  Zb,          \* esp_zb_task
  InitCmd,     \* ZB_MANAGER_INIT_CMD
  StartCmd,    \* ZB_MANAGER_START_CMD
  Plain,       \* the other ids the NCP has a handler for
  Note,        \* notifications the NCP sends, besides the report of a failure
  Fault,       \* subset of {"reset", "garble", "overflow", "refuse", "failure"}: faults injected
  MaxFaults,   \* bound: faults in a behaviour
  QueueLen,    \* HOST_EVENT_QUEUE_LEN, for the event queue and the notify queue
  Burst,       \* bound: notifications sent and not yet taken by esp_zb_task
  SetupCalls,  \* commands issued before the module counts as STARTED
  ReadCalls,   \* commands issued between STARTED and WORKING
  Turns        \* calls of one task in a row that are told apart

Command  == Plain \cup {InitCmd, StartCmd}
Task     == Caller \cup {Main, Zb}
Starter  == {Main, Zb}
NoTask   == "none"
ErrorId  == "0xFFFF"
NoId     == "noId"
NoCall   == <<"noCall", 0>>
Call     == Task \X (0 .. Turns - 1)

ASSUME LinkAssumption ==
  /\ Main \notin Caller /\ Zb \notin Caller /\ Main # Zb
  /\ NoTask \notin Task
  /\ "noCall" \notin Task
  /\ "failure" \notin Note /\ NoId \notin Note
  /\ Fault \subseteq {"reset", "garble", "overflow", "refuse", "failure"}
  /\ InitCmd # StartCmd /\ Plain \cap {InitCmd, StartCmd} = {}
  /\ Plain # {}
  /\ ErrorId \notin Command /\ NoId \notin Command
  /\ MaxFaults \in Nat /\ QueueLen \in Nat /\ Burst \in Nat
  /\ SetupCalls \in Nat \ {0, 1} /\ ReadCalls \in Nat \ {0} /\ Turns \in Nat \ {0}

(***************************************************************************)
(* A frame carries its header's type and id.  "call" names the command it  *)
(* belongs to: the header's sn, which the NCP echoes and no one compares.  *)
(* Here it is the issuing task and the number of its call modulo Turns, so *)
(* that Turns calls in a row differ.  "ok" is the status byte a response   *)
(* carries: ESP_NCP_SUCCESS or ESP_NCP_ERR_FATAL.                          *)
(***************************************************************************)
RequestFrame  == [type : {"req"}, id : Command, call : Call, ok : {TRUE}]
ResponseFrame == [type : {"resp"}, id : Command \cup {ErrorId}, call : Call, ok : BOOLEAN]
NoteFrame     == [type : {"note"}, id : Note \cup {"failure"}, call : {NoCall}, ok : {TRUE}]

Request(c, k)     == [type |-> "req",   id |-> c,    call |-> k,      ok |-> TRUE]
Response(c, k, b) == [type |-> "resp",  id |-> c,    call |-> k,      ok |-> b]
Noti(n)           == [type |-> "note",  id |-> n,    call |-> NoCall, ok |-> TRUE]
Bad               == [type |-> "bad",   id |-> NoId, call |-> NoCall, ok |-> TRUE]
Break             == [type |-> "break", id |-> NoId, call |-> NoCall, ok |-> TRUE]

Frame == RequestFrame \cup ResponseFrame \cup NoteFrame \cup {Bad, Break}

IsNote(m) == m.type = "note"

VARIABLES
  state,      \* zigbee_ncp_module_state
  up,         \* bus, queues and lock exist (FALSE between deinit and re-creation)
  panicked,   \* configASSERT on a deleted object or a failed ESP_ERROR_CHECK: reboot
  lock,       \* holder of ncp_host_lock_semaphore
  pc,         \* where each task is in esp_host_zb_output
  cmd,        \* the id each task passed to it
  turn,       \* number of each task's current call, modulo Turns
  got,        \* whose answer the call copied to the caller's buffer
  res,        \* the status the caller's buffer holds, ESP_OK until copied to
  events,     \* s_host_dev.queue with the frames its events stand for
  late,       \* frames received whose event was lost: the last in input_buf
  outq,       \* ncp_host_output_queue
  notq,       \* ncp_host_notify_queue
  hostTask,   \* host_task: "run" or "dead"
  overrun,    \* history: one of the two queues was full since the link was built
  busTask,    \* host_bus_task: "run", or "gone" when it only waits to be deleted
  busStart,   \* bus->state = BUS_INIT_START
  notified,   \* esp_zb_task's task notification
  loop,       \* where esp_zb_task is in zbm_zigbee_stack_main_loop
  cur,        \* the notification esp_zb_task handles
  bring,      \* commands a bring-up of the link has still to complete
  retried,    \* the bring-up has used its second attempt to initialise
  ncpInit,    \* s_init_flag of the NCP
  ncpStart,   \* the NCP's stack runs: its long address is not zero
  ncpTold,    \* the NCP has made the one check its app_main makes after boot
  toNcp,      \* requests written to the UART
  toHost,     \* UART events waiting for host_bus_task
  faults      \* the faults so far, in order

callVars == <<lock, pc, cmd, turn, got, res>>
hostVars == <<events, late, outq, notq, hostTask, overrun>>
busVars  == <<busTask, busStart, notified>>
bringVars == <<bring, retried>>
loopVars == <<loop, cur, bringVars>>
ncpVars  == <<ncpInit, ncpStart, ncpTold>>
wireVars == <<toNcp, toHost, faults>>
vars     == <<state, up, panicked, callVars, hostVars, busVars, loopVars,
              ncpVars, wireVars>>

ModuleType == /\ state \in {"NOT_INIT", "STARTED", "FOULTED", "RESTARTING", "WORKING"}
              /\ up \in BOOLEAN /\ panicked \in BOOLEAN
CallType   == /\ lock \in Task \cup {NoTask}
              /\ pc \in [Task -> {"idle", "lock", "send", "sent", "blocked", "done", "stuck"}]
              /\ cmd \in [Task -> Command]
              /\ turn \in [Task -> 0 .. Turns - 1]
              /\ got \in [Task -> Call \cup {NoCall}]
              /\ res \in [Task -> BOOLEAN]
HostType   == /\ events \in Seq(Frame) /\ late \in Seq(Frame) /\ outq \in Seq(ResponseFrame)
              /\ notq \in Seq(NoteFrame) /\ hostTask \in {"run", "dead"}
              /\ overrun \in BOOLEAN
BusType    == busTask \in {"run", "gone"} /\ busStart \in BOOLEAN /\ notified \in BOOLEAN
LoopType   == /\ loop \in {"check", "take", "recv", "handle", "query", "teardown",
                           "rebuild", "bringup"}
              /\ cur \in Note \cup {"failure", NoId}
              /\ bring \in [Starter -> 0 .. SetupCalls + ReadCalls]
              /\ retried \in [Starter -> BOOLEAN]
NcpType    == ncpInit \in BOOLEAN /\ ncpStart \in BOOLEAN /\ ncpTold \in BOOLEAN
WireType   == /\ toNcp \in Seq(RequestFrame) /\ toHost \in Seq(Frame)
              /\ faults \in Seq(Fault)

TypeOK == ModuleType /\ CallType /\ HostType /\ BusType /\ LoopType /\ NcpType /\ WireType

(***************************************************************************)
(* zbm_ncp_connect_start has created the queues, the lock, esp_zb_task and *)
(* the host tasks; app_main is about to issue the first command.           *)
(***************************************************************************)
Init ==
  /\ state = "NOT_INIT" /\ up = TRUE /\ panicked = FALSE
  /\ lock = NoTask
  /\ pc = [t \in Task |-> "idle"]
  /\ cmd = [t \in Task |-> InitCmd]
  /\ turn = [t \in Task |-> 0]
  /\ got = [t \in Task |-> NoCall]
  /\ res = [t \in Task |-> TRUE]
  /\ events = <<>> /\ late = <<>> /\ outq = <<>> /\ notq = <<>> /\ overrun = FALSE
  /\ hostTask = "run" /\ busTask = "run" /\ busStart = TRUE /\ notified = FALSE
  /\ loop = "check" /\ cur = NoId
  /\ bring = [t \in Starter |-> IF t = Main THEN SetupCalls + ReadCalls ELSE 0]
  /\ retried = [t \in Starter |-> FALSE]
  /\ ncpInit = FALSE /\ ncpStart = FALSE /\ ncpTold = FALSE
  /\ toNcp = <<>> /\ toHost = <<>> /\ faults = <<>>
-----------------------------------------------------------------------------
(* esp_host_zb_output, one action per point where another task may run.   *)

IssueCall(t, c) ==
  /\ pc[t] = "idle"
  /\ pc'   = [pc EXCEPT ![t] = "lock"]
  /\ cmd'  = [cmd EXCEPT ![t] = c]
  /\ turn' = [turn EXCEPT ![t] = (@ + 1) % Turns]
  /\ UNCHANGED <<lock, got, res>>

(* A request handler of the web server or the automation task.            *)
CallerIssues(t) ==
  /\ \E c \in Plain : IssueCall(t, c)
  /\ UNCHANGED <<state, up, panicked, hostVars, busVars, loopVars, ncpVars,
                 wireVars>>

LockIgnored == TRUE              \* mutant of LockFree: the lock is not waited for
LockFree    == lock = NoTask

TakeLock(t) ==
  /\ pc[t] = "lock"
  /\ IF up THEN /\ LockFree
                /\ lock' = t
                /\ pc' = [pc EXCEPT ![t] = "send"]
                /\ UNCHANGED panicked
           ELSE /\ panicked' = TRUE
                /\ UNCHANGED <<lock, pc>>
  /\ UNCHANGED <<state, up, cmd, turn, got, res, hostVars, busVars, loopVars,
                 ncpVars, wireVars>>

(* esp_host_send_event: an event for host_task, if it still has its queue  *)
(* and there is room; a full queue is not waited for.                      *)
EventsFull == hostTask = "run" /\ Len(events) >= QueueLen

PostToFront(m) ==                \* mutant of Post
  IF hostTask = "run" /\ ~EventsFull THEN <<m>> \o events ELSE events
Post(m) ==
  IF hostTask = "run" /\ ~EventsFull THEN Append(events, m) ELSE events

(* The result of esp_host_frame_output is ignored: when the bus is gone or *)
(* host_task's queue is full or no longer exists, the call goes on to wait *)
(* all the same.                                                           *)
Send(t) ==
  /\ pc[t] = "send"
  /\ pc' = [pc EXCEPT ![t] = "sent"]
  /\ events' = Post(Request(cmd[t], <<t, turn[t]>>))
  /\ overrun' = (overrun \/ EventsFull)
  /\ UNCHANGED <<state, up, panicked, lock, cmd, turn, got, res, late, outq, notq,
                 hostTask, busVars, loopVars, ncpVars, wireVars>>

(* xQueueReceive(ncp_host_output_queue, portMAX_DELAY): a deleted queue is *)
(* NULL, an empty one blocks the task.                                     *)
Wait(t) ==
  /\ pc[t] = "sent"
  /\ IF up THEN /\ pc' = [pc EXCEPT ![t] = "blocked"]
                /\ UNCHANGED panicked
           ELSE /\ panicked' = TRUE
                /\ UNCHANGED pc
  /\ UNCHANGED <<state, up, lock, cmd, turn, got, res, hostVars, busVars,
                 loopVars, ncpVars, wireVars>>

(* An answer whose id differs is dropped; the call reports ESP_OK anyway.  *)
CopyAnswer(t, m) ==
  IF m.id = cmd[t]
    THEN got' = [got EXCEPT ![t] = m.call] /\ res' = [res EXCEPT ![t] = m.ok]
    ELSE UNCHANGED <<got, res>>

(* Mutant of Receive: an unexpected answer returns early, the lock held.   *)
ReceiveLeaksLock(t) ==
  /\ pc[t] = "blocked"
  /\ outq # <<>>
  /\ outq' = Tail(outq)
  /\ CopyAnswer(t, Head(outq))
  /\ pc'   = [pc EXCEPT ![t] = "done"]
  /\ lock' = IF Head(outq).id = cmd[t] THEN NoTask ELSE lock
  /\ UNCHANGED <<state, up, panicked, cmd, turn, events, late, notq, hostTask,
                 overrun, busVars, loopVars, ncpVars, wireVars>>

Receive(t) ==
  /\ pc[t] = "blocked"
  /\ outq # <<>>
  /\ outq' = Tail(outq)
  /\ CopyAnswer(t, Head(outq))
  /\ pc'   = [pc EXCEPT ![t] = "done"]
  /\ lock' = NoTask
  /\ UNCHANGED <<state, up, panicked, cmd, turn, events, late, notq, hostTask,
                 overrun, busVars, loopVars, ncpVars, wireVars>>

(* The caller reads its buffer and forgets it.                             *)
EndCall(t) ==
  /\ pc[t] = "done"
  /\ pc'  = [pc EXCEPT ![t] = "idle"]
  /\ got' = [got EXCEPT ![t] = NoCall]
  /\ res' = [res EXCEPT ![t] = TRUE]

CallerReturns(t) ==
  /\ EndCall(t)
  /\ UNCHANGED <<state, up, panicked, lock, cmd, turn, hostVars,
                 busVars, loopVars, ncpVars, wireVars>>
-----------------------------------------------------------------------------
(* host_task: esp_host_main_task and esp_host_process_event.              *)

HostTaskFails ==
  /\ hostTask' = "dead"
  /\ events' = <<>> /\ late' = <<>>
  /\ busStart' = FALSE
  /\ UNCHANGED <<outq, notq>>

(* HOST_EVENT_OUTPUT: the request is written to the UART.                  *)
HostOutput ==
  /\ hostTask = "run" /\ events # <<>>
  /\ Head(events).type = "req"
  /\ events' = Tail(events)
  /\ toNcp' = Append(toNcp, Head(events))
  /\ UNCHANGED <<state, up, panicked, callVars, late, outq, notq, hostTask, overrun,
                 busVars, loopVars, ncpVars, toHost, faults>>

(* esp_host_zb_input: where a frame goes, and when there is no room.       *)
AnyFrame(m)   == m.type \in {"resp", "note"}      \* mutant of IsAnswer
IsAnswer(m)   == m.type = "resp"
NotifyFull    == Len(notq) >= QueueLen

(* HOST_EVENT_INPUT: esp_host_frame_input and esp_host_zb_input.  A frame  *)
(* that does not parse, or a full notify queue, is an error, and an error  *)
(* ends host_task for good.                                                *)
HostInput ==
  /\ hostTask = "run" /\ events # <<>>
  /\ LET m == Head(events) IN
       \/ /\ IsAnswer(m)
          /\ events' = Tail(events) /\ outq' = Append(outq, m)
          /\ UNCHANGED <<late, notq, hostTask, overrun, busStart>>
       \/ /\ IsNote(m) /\ ~NotifyFull
          /\ events' = Tail(events) /\ notq' = Append(notq, m)
          /\ UNCHANGED <<late, outq, hostTask, overrun, busStart>>
       \/ /\ \/ m.type = "bad" /\ UNCHANGED overrun
             \/ IsNote(m) /\ NotifyFull /\ overrun' = TRUE
          /\ HostTaskFails
  /\ UNCHANGED <<state, up, panicked, callVars, busTask, notified, loopVars,
                 ncpVars, wireVars>>
-----------------------------------------------------------------------------
(* host_bus_task.                                                         *)

(* What host_task reads for the next event, q being the frames without     *)
(* one: the first of them, or a part that does not parse when the event    *)
(* counts more or fewer bytes than that frame has.                         *)
Counted(q) == IF Len(q) = 1 THEN {Head(q)} ELSE {Head(q), Bad}

(* UART_DATA: the bytes to the stream buffer, then the event that counts   *)
(* them.  After host_task has stopped the bus the task still handles the   *)
(* event it was blocked for, then leaves its loop; esp_host_send_event     *)
(* then has no queue and the frame is lost.                                *)
BusData ==
  /\ busTask = "run" /\ toHost # <<>>
  /\ Head(toHost).type # "break"
  /\ toHost' = Tail(toHost)
  /\ LET q == Append(late, Head(toHost)) IN
       \/ /\ EventsFull
          /\ overrun' = TRUE /\ late' = q
          /\ UNCHANGED events
       \/ /\ ~EventsFull
          /\ \E m \in Counted(q) : events' = Post(m)
          /\ late' = Tail(q)
          /\ UNCHANGED overrun
  /\ busTask' = IF busStart THEN "run" ELSE "gone"
  /\ UNCHANGED <<state, up, panicked, callVars, outq, notq, hostTask,
                 busStart, notified, loopVars, ncpVars, toNcp, faults>>

BreakAlways == TRUE              \* mutant of Faulty: tested neither at boot nor in a rebuild
Faulty      == state = "WORKING"

(* UART_BREAK: flush; if the module is WORKING, declare the NCP at fault,  *)
(* notify esp_zb_task and stop reading the UART.                           *)
BusBreak ==
  /\ busTask = "run" /\ toHost # <<>>
  /\ Head(toHost).type = "break"
  /\ toHost' = <<>>
  /\ IF Faulty
       THEN state' = "FOULTED" /\ notified' = TRUE /\ busTask' = "gone"
       ELSE /\ busTask' = IF busStart THEN "run" ELSE "gone"
            /\ UNCHANGED <<state, notified>>
  /\ UNCHANGED <<up, panicked, callVars, hostVars, busStart, loopVars,
                 ncpVars, toNcp, faults>>

Occurs(f) == f \in Fault /\ Len(faults) < MaxFaults /\ faults' = Append(faults, f)

(* UART_FIFO_OVF and UART_BUFFER_FULL: everything unread is flushed.       *)
BusOverflow ==
  /\ Occurs("overflow")
  /\ busTask = "run" /\ toHost # <<>>
  /\ toHost' = <<>>
  /\ busTask' = IF busStart THEN "run" ELSE "gone"
  /\ UNCHANGED <<state, up, panicked, callVars, hostVars, busStart, notified,
                 loopVars, ncpVars, toNcp>>
-----------------------------------------------------------------------------
(* esp_zb_task: zbm_zigbee_stack_main_loop.                               *)

LoopCheck ==
  /\ loop = "check"
  /\ loop' = IF state = "WORKING" THEN "take" ELSE "recv"
  /\ UNCHANGED <<state, up, panicked, callVars, hostVars, busVars, cur, bringVars, ncpVars, wireVars>>

(* Mutant of LoopTake: without a notification the loop starts again.       *)
LoopTakeContinues ==
  /\ loop = "take"
  /\ loop' = IF notified THEN "teardown" ELSE "check"
  /\ notified' = FALSE
  /\ UNCHANGED <<state, up, panicked, callVars, hostVars, busTask, busStart,
                 cur, bringVars, ncpVars, wireVars>>

(* ulTaskNotifyTake, with its timeout.                                     *)
LoopTake ==
  /\ loop = "take"
  /\ loop' = IF notified THEN "teardown" ELSE "recv"
  /\ notified' = FALSE
  /\ UNCHANGED <<state, up, panicked, callVars, hostVars, busTask, busStart,
                 cur, bringVars, ncpVars, wireVars>>

(* xQueueReceive on the notify queue, with its timeout.                    *)
LoopReceive ==
  /\ loop = "recv"
  /\ IF notq = <<>>
       THEN loop' = "check" /\ UNCHANGED <<notq, cur>>
       ELSE loop' = "handle" /\ notq' = Tail(notq) /\ cur' = Head(notq).id
  /\ UNCHANGED <<state, up, panicked, callVars, events, late, outq, hostTask, overrun,
                 busVars, bringVars, ncpVars, wireVars>>

(* The handler found in host_zb_api_from_ncp_func_table: one that only     *)
(* updates the device base, or asks the NCP something first, depending on  *)
(* what the notification says; and the stack-failure handler, which        *)
(* rebuilds the link.                                                      *)
HandleEvent ==
  /\ loop = "handle" /\ cur \in Note
  /\ loop' = "check" /\ cur' = NoId
  /\ UNCHANGED <<state, up, panicked, callVars, hostVars, busVars, bringVars, ncpVars, wireVars>>

HandleQuery ==
  /\ loop = "handle" /\ cur \in Note
  /\ \E c \in Plain : IssueCall(Zb, c)
  /\ loop' = "query"
  /\ UNCHANGED <<state, up, panicked, hostVars, busVars, cur, bringVars,
                 ncpVars, wireVars>>

HandleQueryReturns ==
  /\ loop = "query"
  /\ EndCall(Zb)
  /\ loop' = "check" /\ cur' = NoId
  /\ UNCHANGED <<state, up, panicked, lock, cmd, turn, hostVars,
                 busVars, bringVars, ncpVars, wireVars>>

HandleFailure ==
  /\ loop = "handle" /\ cur = "failure"
  /\ loop' = "teardown" /\ cur' = NoId
  /\ UNCHANGED <<state, up, panicked, callVars, hostVars, busVars, bringVars, ncpVars, wireVars>>
-----------------------------------------------------------------------------
(* zbm_host_reinit_on_ncp_foulture, run by esp_zb_task.                   *)

(* Bus, UART driver, queues, lock and both host tasks are deleted.  A task *)
(* blocked on one of them is never woken again.                            *)
TearDown ==
  /\ loop = "teardown"
  /\ loop' = "rebuild"
  /\ state' = "RESTARTING" /\ up' = FALSE
  /\ pc' = [t \in Task |-> IF pc[t] = "blocked" \/ (pc[t] = "lock" /\ lock # NoTask)
                             THEN "stuck" ELSE pc[t]]
  /\ lock' = NoTask
  /\ events' = <<>> /\ late' = <<>> /\ outq' = <<>> /\ notq' = <<>>
  /\ hostTask' = "dead" /\ overrun' = FALSE
  /\ busTask' = "gone" /\ busStart' = FALSE
  /\ toHost' = <<>>
  /\ UNCHANGED <<panicked, cmd, turn, got, res, notified, cur, bringVars,
                 ncpVars, toNcp, faults>>

(* The code waits 3 s on each side of the re-creation.  That wait is taken *)
(* to be long enough for the NCP to finish the command it had, and for     *)
(* every task that was in the middle of a call to run on.                  *)
NoWait == TRUE                   \* mutant of Quiet
Quiet ==
  /\ toNcp = <<>>
  /\ \A t \in Task : pc[t] \notin {"lock", "send", "sent"}

(* Mutant of Rebuild: the NCP is taken to be initialised already.          *)
RebuildSkipsInit ==
  /\ loop = "rebuild" /\ Quiet
  /\ loop' = "bringup"
  /\ up' = TRUE
  /\ hostTask' = "run" /\ busTask' = "run" /\ busStart' = TRUE
  /\ bring' = [bring EXCEPT ![Zb] = SetupCalls + ReadCalls - 1]
  /\ retried' = [retried EXCEPT ![Zb] = FALSE]
  /\ UNCHANGED <<state, panicked, callVars, events, late, outq, notq, overrun, notified,
                 cur, ncpVars, wireVars>>

Rebuild ==
  /\ loop = "rebuild" /\ Quiet
  /\ loop' = "bringup"
  /\ up' = TRUE
  /\ hostTask' = "run" /\ busTask' = "run" /\ busStart' = TRUE
  /\ bring' = [bring EXCEPT ![Zb] = SetupCalls + ReadCalls]
  /\ retried' = [retried EXCEPT ![Zb] = FALSE]
  /\ UNCHANGED <<state, panicked, callVars, events, late, outq, notq, overrun, notified,
                 cur, ncpVars, wireVars>>

(* The commands that initialise the NCP stack and then read its network,   *)
(* from app_main at boot and from esp_zb_task after a rebuild.  n counts   *)
(* the commands still to complete.                                         *)
IsInit(n)  == n = SetupCalls + ReadCalls
StartLate(n) == n = ReadCalls    \* mutant of IsStart: off by one
IsStart(n) == n = ReadCalls + 1
BringUpCommands(n) == IF IsInit(n) THEN {InitCmd} ELSE IF IsStart(n) THEN {StartCmd} ELSE Plain

BringUpIssues(t) ==
  /\ bring[t] > 0
  /\ t = Zb => loop = "bringup"
  /\ \E c \in BringUpCommands(bring[t]) : IssueCall(t, c)
  /\ UNCHANGED <<state, up, panicked, hostVars, busVars, loopVars, ncpVars,
                 wireVars>>

(* Mutant of BringUpAdvances: WORKING as soon as the stack has started.    *)
WorkingTooEarly(t) ==
  /\ bring' = [bring EXCEPT ![t] = @ - 1]
  /\ state' = IF IsStart(bring[t]) THEN "WORKING" ELSE state
  /\ loop' = IF t = Zb /\ bring[t] = 1 THEN "check" ELSE loop
  /\ UNCHANGED <<panicked, retried>>

BringUpAdvances(t) ==
  /\ bring' = [bring EXCEPT ![t] = @ - 1]
  /\ state' = IF IsStart(bring[t]) THEN "STARTED"
              ELSE IF bring[t] = 1 THEN "WORKING" ELSE state
  /\ loop' = IF t = Zb /\ bring[t] = 1 THEN "check" ELSE loop
  /\ UNCHANGED <<panicked, retried>>

(* A refused initialisation is tried again once; a second refusal, or a    *)
(* refused start, reboots the host.  What the reads return is not tested.  *)
BringUpReturns(t) ==
  /\ bring[t] > 0
  /\ t = Zb => loop = "bringup"
  /\ EndCall(t)
  /\ \/ /\ res[t] \/ ~(IsInit(bring[t]) \/ IsStart(bring[t]))
        /\ BringUpAdvances(t)
     \/ /\ ~res[t] /\ IsInit(bring[t]) /\ ~retried[t]
        /\ retried' = [retried EXCEPT ![t] = TRUE]
        /\ UNCHANGED <<state, panicked, loop, bring>>
     \/ /\ ~res[t]
        /\ \/ IsInit(bring[t]) /\ retried[t]
           \/ IsStart(bring[t])
        /\ panicked' = TRUE
        /\ UNCHANGED <<state, loop, bring, retried>>
  /\ UNCHANGED <<up, lock, cmd, turn, hostVars, busVars, cur,
                 ncpVars, wireVars>>
-----------------------------------------------------------------------------
(* The NCP and the wire.                                                  *)

(* What the NCP writes while the host has no UART driver is lost.          *)
Deliver(m) == toHost' = IF up THEN Append(toHost, m) ELSE toHost

(* The handlers' effect on the NCP and the status they report: a second    *)
(* initialisation, or a start without one, is ESP_NCP_ERR_FATAL.           *)
NcpAccepts(c) == /\ c = InitCmd => ~ncpInit
                 /\ c = StartCmd => ncpInit

(* esp_ncp_zb_output: the handler succeeds and its answer has the          *)
(* command's id and sn.                                                    *)
NcpServe ==
  /\ toNcp # <<>>
  /\ LET m == Head(toNcp) IN
       /\ Deliver(Response(m.id, m.call, NcpAccepts(m.id)))
       /\ ncpInit'  = (ncpInit \/ m.id = InitCmd)
       /\ ncpStart' = (ncpStart \/ (m.id = StartCmd /\ ncpInit))
  /\ toNcp' = Tail(toNcp)
  /\ UNCHANGED <<state, up, panicked, callVars, hostVars, busVars, loopVars,
                 ncpTold, faults>>

(* esp_ncp_frame_output: the handler fails, or the request did not parse,  *)
(* and an error of id 0xFFFF is the answer.  Failures of the two set-up    *)
(* commands are counted as faults.                                         *)
NcpRefuse ==
  /\ toNcp # <<>>
  /\ IF Head(toNcp).id \in Plain
       THEN UNCHANGED faults
       ELSE Occurs("refuse")
  /\ Deliver(Response(ErrorId, Head(toNcp).call, FALSE))
  /\ toNcp' = Tail(toNcp)
  /\ UNCHANGED <<state, up, panicked, callVars, hostVars, busVars, loopVars,
                 ncpVars>>

Undelivered ==
  notq \o SelectSeq(events, IsNote) \o SelectSeq(late, IsNote) \o SelectSeq(toHost, IsNote)

Pending == Len(Undelivered)

(* esp_ncp_noti_input, from the Zigbee stack's callbacks.                  *)
NcpNotify ==
  /\ ncpStart /\ Pending < Burst
  /\ \E n \in Note : Deliver(Noti(n))
  /\ UNCHANGED <<state, up, panicked, callVars, hostVars, busVars, loopVars,
                 ncpVars, toNcp, faults>>

(* app_main of the NCP, ten seconds after boot: a zero long address means  *)
(* no host has started the stack.  The report counts as a fault.           *)
NcpReportsFailure ==
  /\ "failure" \in Fault /\ ~ncpTold /\ Pending < Burst
  /\ ncpTold' = TRUE
  /\ IF ncpStart THEN UNCHANGED <<toHost, faults>>
                 ELSE Deliver(Noti("failure")) /\ Occurs("failure")
  /\ UNCHANGED <<state, up, panicked, callVars, hostVars, busVars, loopVars,
                 ncpInit, ncpStart, toNcp>>

(* A frame arrives cut in two or damaged: it fails the length or CRC test. *)
Garble ==
  /\ Occurs("garble")
  /\ \E i \in DOMAIN toHost : /\ toHost[i].type \in {"resp", "note"}
                              /\ toHost' = [toHost EXCEPT ![i] = Bad]
  /\ UNCHANGED <<state, up, panicked, callVars, hostVars, busVars, loopVars,
                 ncpVars, toNcp>>

(* The NCP reboots: what it had to do is forgotten and the line breaks.    *)
NcpReset ==
  /\ Occurs("reset")
  /\ toNcp' = <<>>
  /\ Deliver(Break)
  /\ ncpInit' = FALSE /\ ncpStart' = FALSE /\ ncpTold' = FALSE
  /\ UNCHANGED <<state, up, panicked, callVars, hostVars, busVars, loopVars>>
-----------------------------------------------------------------------------
CallStep(t) == TakeLock(t) \/ Send(t) \/ Wait(t) \/ Receive(t)
CallerStep(t) == CallerIssues(t) \/ CallerReturns(t)
BringUpStep(t) == BringUpIssues(t) \/ BringUpReturns(t)
HostStep == HostOutput \/ HostInput
BusStep  == BusData \/ BusBreak
LoopStep == \/ LoopCheck \/ LoopTake \/ LoopReceive
            \/ HandleEvent \/ HandleQuery \/ HandleQueryReturns \/ HandleFailure
            \/ TearDown \/ Rebuild
NcpStep  == NcpServe \/ NcpRefuse \/ NcpNotify \/ NcpReportsFailure
FaultStep == BusOverflow \/ Garble \/ NcpReset

Next ==
  /\ ~panicked
  /\ \/ \E t \in Task : CallStep(t)
     \/ \E t \in Caller : CallerStep(t)
     \/ \E t \in Starter : BringUpStep(t)
     \/ HostStep \/ BusStep \/ LoopStep \/ NcpStep \/ FaultStep

Spec == Init /\ [][Next]_vars
-----------------------------------------------------------------------------
(***************************************************************************)
(* Fairness.  Each task is scheduled: an enabled step of host_task, of     *)
(* host_bus_task, of esp_zb_task and of a calling task is taken.  The lock *)
(* is a FreeRTOS mutex, handed to a waiter when it is released; commands   *)
(* are rare enough for every waiter to get it (strong fairness).  The NCP  *)
(* serves the commands it is sent.  Callers need not call, and no fault or *)
(* notification need occur.                                                *)
(***************************************************************************)
Step(A) == ~panicked /\ A

\* A task that has the link, or whose call has returned, goes on.
GoesOn(t) ==
  \/ Send(t) \/ Wait(t) \/ Receive(t)
  \/ t \in Caller /\ CallerReturns(t)
  \/ t \in Starter /\ BringUpStep(t)

Fairness ==
  /\ WF_vars(Step(HostStep)) /\ WF_vars(Step(BusStep)) /\ WF_vars(Step(LoopStep))
  /\ WF_vars(Step(NcpServe \/ NcpRefuse))
  /\ \A t \in Task : SF_vars(Step(TakeLock(t))) /\ WF_vars(Step(GoesOn(t)))

FairSpec == Spec /\ Fairness
-----------------------------------------------------------------------------
OnLink(t) == pc[t] \in {"send", "sent", "blocked"}

(* Safety.  The lock that esp_host_zb_output holds around request and      *)
(* response serialises the commands, over rebuilds of the link too: no two *)
(* tasks are ever between sending a command and taking its answer.         *)
OneOnLink == \A t, u \in Task : OnLink(t) /\ OnLink(u) => t = u

(* Safety.  No sn is compared and the output queue has no owner, yet what  *)
(* a call copies to its caller's buffer is the answer to that very call,   *)
(* never a late answer to an earlier one or to another task's.             *)
OwnAnswer == \A t \in Task : got[t] \in {NoCall, <<t, turn[t]>>}

(* Why the two hold.  The lock follows the call; a rebuild starts from     *)
(* nothing; what is on its way belongs to the holder and is one frame at   *)
(* most, wherever it is; a buffer is written when its call ends.           *)
LockFollowsCall == up => \A t \in Task : OnLink(t) <=> lock = t

DownIsEmpty ==
  ~up => /\ lock = NoTask /\ hostTask = "dead"
         /\ events = <<>> /\ late = <<>> /\ outq = <<>> /\ notq = <<>> /\ toHost = <<>>
         /\ \A t \in Task : pc[t] # "blocked"

IsExchange(m) == m.type \in {"req", "resp"}
Carries(q)    == \E i \in DOMAIN q : IsExchange(q[i])
OneIn(q, k)   == \A i \in DOMAIN q : IsExchange(q[i]) =>
                   /\ q[i].call = k
                   /\ \A j \in DOMAIN q : IsExchange(q[j]) => i = j

HolderCall == <<lock, turn[lock]>>
Waiting == lock \in Task /\ pc[lock] \in {"sent", "blocked"}

OneExchange ==
  up => /\ \A q \in {events, late, toNcp, toHost, outq} : OneIn(q, HolderCall)
        /\ Carries(events) => /\ ~Carries(late) /\ ~Carries(toNcp)
                              /\ ~Carries(toHost) /\ ~Carries(outq)
        /\ Carries(late)   => ~Carries(toNcp) /\ ~Carries(toHost) /\ ~Carries(outq)
        /\ Carries(toNcp)  => ~Carries(toHost) /\ ~Carries(outq)
        /\ Carries(toHost) => ~Carries(outq)
        /\ \/ Waiting
           \/ \A q \in {events, late, toNcp, toHost, outq} : ~Carries(q)

WrittenWhenDone == \A t \in Task : pc[t] # "done" => got[t] = NoCall

CallInv == LockFollowsCall /\ OneOnLink /\ WrittenWhenDone /\ OwnAnswer
LinkInv == TypeOK /\ CallInv /\ DownIsEmpty /\ OneExchange

FailureReported == \E k \in DOMAIN faults : faults[k] = "failure"

(* Safety.  Unless the NCP reports a stack failure of its own, a restart   *)
(* notification pending for esp_zb_task is about the present fault: a      *)
(* rebuilt link is never torn down for a fault the rebuild has repaired.   *)
NotificationIsFresh == ~FailureReported /\ notified => state = "FOULTED"

(* Safety.  A rebuild asked for by a UART break alone never runs while     *)
(* app_main is still bringing the link up.                                 *)
OneBringUp ==
  ~FailureReported /\ loop \in {"teardown", "rebuild", "bringup"} => bring[Main] = 0

(* Why the two hold.                                                       *)
BringUpInv ==
  /\ bring[Main] > 0 => /\ state \in {"NOT_INIT", "STARTED"} /\ ~notified
                        /\ loop \notin {"teardown", "rebuild", "bringup"}
  /\ loop = "teardown" => state = "FOULTED" /\ ~notified
  /\ loop \in {"rebuild", "bringup"} => state \in {"RESTARTING", "STARTED"} /\ ~notified
  /\ notified => state = "FOULTED"

(* u is s with some of its elements left out.                              *)
Thinned(u, s) ==
  \E at \in [DOMAIN u -> DOMAIN s] :
    /\ \A m, n \in DOMAIN u : m < n => at[m] < at[n]
    /\ \A n \in DOMAIN u : u[n] = s[at[n]]

(* Action property.  The path from the NCP to esp_zb_task is a queue:      *)
(* notifications are taken in the order the NCP sent them, none duplicated *)
(* or overtaken on the way through the UART, the event queue and the       *)
(* notify queue, and none lost before the first fault or full queue.       *)
NotesInOrder ==
  [][\/ Undelivered # <<>> /\ Undelivered' = Tail(Undelivered)
     \/ \E n \in Note \cup {"failure"} : Undelivered' = Append(Undelivered, Noti(n))
     \/ (faults' # <<>> \/ overrun') /\ Thinned(Undelivered', Undelivered)]_Undelivered

(* Liveness.  Every command issued is answered and returns, unless a       *)
(* burst of notifications fills a queue of the host: a full notify queue   *)
(* ends host_task, a full event queue loses a request, an answer, or the   *)
(* count of bytes, and the call holds the lock for ever.                   *)
CallsReturn == \A t \in Task : pc[t] = "lock" ~> pc[t] = "done" \/ overrun

(* Liveness.  Boot reaches WORKING, with the same exception.               *)
BootCompletes == <>(state = "WORKING" \/ overrun)

(* Liveness.  Every notification queued is taken, although handlers wait   *)
(* for answers that arrive on the same path; with the same exception: the  *)
(* handler that waits then is the one that should make room.               *)
NotesTaken == notq # <<>> ~> loop = "handle" \/ overrun

(* Liveness.  A rebuild, once begun, reaches WORKING again, unless a burst *)
(* fills a queue meanwhile, or the stack failure it answers came while     *)
(* app_main was in its bring-up: that task then finds its queues gone and  *)
(* the host reboots.                                                       *)
RebuildCompletes ==
  loop = "teardown" ~>
    state = "WORKING" \/ overrun \/ (panicked /\ bring[Main] > 0)

(* Liveness.  A UART break that marks the module FOULTED is followed by    *)
(* the restart that ncp_host_bus.c:122 says it schedules.                  *)
BreakRestarts == state = "FOULTED" ~> state = "RESTARTING"
-----------------------------------------------------------------------------
(* What callers are promised: see RpcChannel.                              *)
Phase(p) == IF p \in {"send", "sent", "blocked"} THEN "talking"
            ELSE IF p = "lock"  THEN "asking"
            ELSE IF p = "done"  THEN "answered"
            ELSE IF p = "stuck" THEN "lost" ELSE "idle"

Rpc == INSTANCE RpcChannel WITH
         phase  <- [t \in Task |-> Phase(pc[t])],
         call   <- [t \in Task |-> <<t, turn[t]>>],
         answer <- got

(* Refinement.  The link implements the remote procedure call of           *)
(* RpcChannel.                                                             *)
ImplementsRpc == Rpc!Spec
=============================================================================
