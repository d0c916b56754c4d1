# Formal model of the ESP32 Zigbee host and its network co-processor

The repository is a Zigbee gateway in two chips. An ESP32-H2 runs the Zigbee
stack as a network co-processor, the *NCP* (`src/zigbee_ncp/`). An ESP32-S3, the
*host* (`src/ncp_host_project/`), is connected to it by a UART and holds the device
base, the automation rules, the REST API, the WebSocket server and the web pages.
`src/zigbee_ncp_host/` is an older generation of the host and
`src/esp_ncp_host_web_flash/` a page that flashes binaries; neither is modelled.

This directory models the host generation that is being developed
(`ncp_host_project`) and the NCP firmware it talks to.

## Inventory

Paths are relative to `src/ncp_host_project/main/` unless they begin with `zigbee_ncp/`.

### Host link (`zbm_ncp_connect/`)

*State*: `zigbee_ncp_module_state`, the link lock, the output and notify queues,
`s_host_dev` (run flag, event queue), the bus (state, two stream buffers, UART queue).
*Tasks*: `host_task` (writes the UART, parses frames), `host_bus_task` (reads UART
events), `esp_zb_task` (drains notifications, rebuilds the link), `app_main` (boot),
and every task that issues a command (HTTP server, automation).
*Operations*: `esp_host_zb_output`, `esp_host_zb_input`, `esp_host_process_event`,
`zbm_ncp_connect_start`, `zbm_host_reinit_on_ncp_foulture`.
*Hard*: blocking without timeout under a lock; answers matched by id only; one error
ends `host_task`; locks and queues deleted under their users; restart notifications
racing the state test; boot and rebuild overlapping.
*Correct when*: commands are serialised, an answer belongs to its call, calls return
when nothing fails, a break leads to one rebuild, notifications keep their order.

### Byte path and framing (`ncp_host_bus.c`, `ncp_host_frame.c`, `slip.c`)

*State*: the input and output stream buffers, the counts in the events.
*Hard*: bytes and counts are queued separately and with timeout 0; frames split at the
UART threshold; 8-bit offset; size of the encoding buffer.
*Correct when*: bytes and counts agree, decode inverts encode.

### Device base (`zbm_dev_base/zbm_core_sync.c`, `zbm_device_db.c`, `zbm_guid_db.c`)

*State*: a hash table of devices by short address, searched by IEEE address too; a hash
table of GUIDs that points into the devices; one lock that is given up on after a second.
*Operations*: add, update the short address, remove by either address, apply a simple
descriptor, register and unregister GUIDs.
*Hard*: a key (the address) that changes while the node is in the table; raw pointers into
arrays that grow; address reuse; pointers used after the unlock; a lock time-out after
which the code goes on without it.
*Correct when*: a lookup returns the device that has the address, no device gets lost, the
GUIDs of an address lead into the device that has it.

### Application signals (`zbm_zigbee_app_signal_handler.c`, `ncp_host_zb_api_from_ncp.c`)

Joining: associated, update, announce, authorised, active endpoints, simple
descriptors, attribute discovery; reports and read answers. Each handler combines the
device base, the link and the WebSocket. *Hard*: stages of several devices
interleave, a signal may be missing, an answer comes back with a pointer to an address that
has changed. *Correct when*: a device that joined is known under its address, and every
device holds the description it gave itself.

### Automation (`zbm_automation/`, the rules' handlers in `zbm_REST_api/`)

*State*: `zb_rules` in memory, a file for each rule and an index in SPIFFS, the behaviours,
the virtual variables, and the C stack of whoever runs rules.
*Operations*: `zb_automation_v2_on_data_change` on a report or a variable set by a rule,
`zb_rules_load_all_from_storage`, POST, DELETE, enable, disable and run of a rule.
*Hard*: rules that set variables that trigger rules, by recursion; rules edited by the HTTP
task while `esp_zb_task` walks them; commands sent, and so answers awaited, under the core
lock, which others give up on after a second; two writes for one edit; a file that says less
than the rule in memory.
*Correct when*: a data change runs the rules it should, in order of priority, and ends; what
an answer said was saved or deleted is so after a restart; a rule is there once.

### Storage (`zbm_spiffs_manager/`, `zbm_dev_storage_spiffs.c`, `zbm_coordinator.c`)

One file per device under its short address, an index of them, the coordinator and the
rules, as JSON. *Hard*: a crash between two file operations, saves from several tasks, an
index written before the file it names. *Correct when*: a restart brings back what was
saved, each device once.

### Web server, REST and WebSocket (`zbm_web_server/`, `zbm_REST_api/`)

*State*: two queues to `ws_update_task`, one JSON buffer and its mutex, the server's sockets,
the session token. *Tasks*: `esp_zb_task` fills the queues, `ws_update_task` empties them, the
HTTP server's task sends. *Hard*: messages dropped after 10 or 100 ms, a mutex kept
while sending, notifications before the queues exist, a server that fails to start. *Correct when*:
what a connected page shows is, or will be, the value in the device base.

### Web pages (`zbm_webui_dir/src/`)

*State*: the WebSocket and its reconnection, the devices loaded, the token in `localStorage`.
*Operations*: connect, load the devices one by one, apply an update, ask again for a device,
check the token every 10 s. *Hard*: updates that arrive while devices load or refresh, answers
that overtake frames, reconnection, a restart of the host behind an address that answers as before.

### Wi-Fi, SNTP, SSDP, DNS (`wifi_manager/`, `SNTP_TIME/`)

Station mode for 15 s, then an access point; a button that changes over; a session token for each address
obtained. *Hard*: the timer against the address, a network that goes. The rest is calls of the
ESP-IDF.

### NCP firmware (`zigbee_ncp/components/`)

`ncp_manager`: bus task, main task, command table; `zb_manager`: stack callbacks.
*State*: two stream buffers, the queue of events that count their bytes, the semaphore of
`esp_ncp_bus_input`, the Zigbee lock.
*Hard*: two tasks put frames for the host; bytes, room and count are handled in three steps
of which only one is under the semaphore; the main task waits for a lock whose owner may
wait for room only the main task makes; a full queue; two error paths that keep the lock.
*Correct when*: frames reach the UART whole, events count the bytes there are, every command
is answered or refused.

## Modules

| module | models | kind |
|---|---|---|
| `RpcChannel` | what `esp_host_zb_output` promises its callers | abstract specification |
| `NcpLink` | the host link, with the NCP's command loop | detailed specification |
| `MCNcpLink` | small instances of `NcpLink` | model checking |
| `NcpLink_proofs` | theorems about `NcpLink` | proofs |
| `AddressBook` | what the device base promises: one short address per device | abstract specification |
| `DeviceTable` | `zbm_device_db.c` as operators on tables | pure operators |
| `DeviceBase` | joining, reports, the device base, its copy in flash and restarts | detailed specification |
| `MCDeviceBase` | small instances of `DeviceBase` | model checking |
| `DeviceTable_proofs` | lemmas about tables of any size | proofs |
| `DeviceBase_proofs` | theorems about `DeviceBase` | proofs |
| `Automation` | the rule engine, the core lock it runs under, rules in memory and in flash | detailed specification |
| `MCAutomation` | two small sites for `Automation`: one whose rules run, one whose rules are edited | model checking |
| `Automation_proofs` | theorems about `Automation` | proofs |
| `AutomationKept_proofs` | the theorem that a rule answered as saved is found again | proofs |
| `NcpFirmware` | the tasks of the NCP and the bytes between them | detailed specification |
| `MCNcpFirmware` | a small NCP | model checking |
| `NcpFirmware_proofs` | theorems about `NcpFirmware` | proofs |
| `WebFeed` | the way of a value from the device base to a web page | detailed specification |
| `MCWebFeed` | one page, a host with short queues | model checking |
| `WebFeed_proofs` | theorems about `WebFeed` | proofs |

They meet in the messages. What `NcpFirmware` writes to the UART in whole frames
(`Together`) are the frames of `NcpLink`; what `NcpLink` delivers in order to `esp_zb_task`
(`NotesInOrder`) are the signals `DeviceBase` handles one at a time; a report that
`DeviceBase` has found the device for is the `Report` of `Automation`, and then the `Report` of
`WebFeed`.

### NcpLink

A call of `esp_host_zb_output` is cut where another task may run: take the lock
(`TakeLock`), post the frame (`Send`), reach the output queue (`Wait`), take an answer
and give the lock (`Receive`). `host_task` is `HostOutput` and `HostInput`;
`host_bus_task` is `BusData`, `BusBreak` and `BusOverflow`; `esp_zb_task` is `Loop*`,
`Handle*`, `TearDown` and `Rebuild`. Boot (`app_main`) and rebuild
(`esp_zb_task`) issue the same list of commands, `bring` counts those left.
Deletion of the queues and the lock is `up = FALSE`: a task blocked on a deleted object
is `stuck`, a task that uses one is a failed `configASSERT` (`panicked`), after which the
host reboots and the behaviour ends.

The header's `sn`, which nobody compares, is kept as a ghost that names the call a frame
belongs to; `OwnAnswer` is stated with it and no guard reads it. One frame is one
`UART_DATA` event.

*Full queues.* `host_task`'s queue and the notify queue hold `QueueLen` each and nobody waits for room. A
notification that finds the notify queue full makes `esp_host_zb_input` fail, which ends `host_task`
(`NotifyFull`). An event that finds `host_task`'s queue full is lost (`EventsFull`): a request is never written to the
UART, and received bytes stay uncounted in the input buffer (`late`), so that later events cut it at the wrong
places. `Counted` is what such an event then brings: the oldest frame that waits, or a piece that is no frame, which
ends `host_task` too. After either, a caller may wait for ever with the lock. `overrun` records that
it has happened since the link was built; `CallsReturn`, `BootCompletes`, `NotesTaken`, `RebuildCompletes` and
`NotesInOrder` make an exception of it by name. They do not say that the queues are long enough (the code has no
such limit), but that nothing less than a full queue, and no other turn of events without faults, blocks a call.

*Waits.* The two 3 s waits of a rebuild are assumed long enough for the NCP to
answer what it had and for tasks in the middle of a call to run on (`Quiet`); the mutant
`NoWait` shows what they are for.

*Bounds.* `MaxFaults` bounds faults, a reported stack failure among them, `Burst` the notifications
under way, `SetupCalls = 2` and `ReadCalls = 1` the commands of a bring-up (the code issues 3 and
4 or 5): one command before the start of the stack, the start, one after. A call's number modulo
`Turns` (`turn`) tells it from the calls before it: two in a row in `link_faults`; `link_live` and `link_break`, whose properties do
not look at answers, tell none apart. `link_live` has a caller, no faults, and more notifications (`Burst` 2) than the queues hold
(`QueueLen` 1): both queues fill up, `host_task` ends and calls block. The properties name that case as their exception;
deadlock is not checked, as the system does stop then. `link_faults` has every fault and no caller, so that what a rebuild competes with is
boot and the handlers' questions. With a caller, a rebuild may delete the lock or the queue it is
about to use, and the host reboots instead of finishing the rebuild; callers together with any
number of faults are what the theorems cover.

*Fairness* (only in `FairSpec`): every task with an enabled step is scheduled by FreeRTOS
(weak fairness), the lock is a mutex with a queue of waiters (strong fairness of
`TakeLock`), the NCP serves the commands it was sent. Nothing is assumed of callers,
notifications or faults.

### DeviceBase

*State.* `heap` holds the devices allocated (their two addresses and whose description they
carry), `table` is `dev_hash`: buckets of nodes, newest first, found by walking all of them
as the code does. `guid` says for each address which device the GUIDs that begin with it
lead into. `files` and `index` are SPIFFS; `save` is the save under way, `zbTask` what
`esp_zb_task` still has to save, `asks` the questions out to devices, each with the pointer
sent along as context. `net`, `stage` and `sig` are the Zigbee network and the signals on
their way.

*Actions.* One per signal or answer: `HandleAssociated`, `HandleUpdate` (with
`UpdateShort`, the whole of `zbm_dev_update_short_addr_safe`), `HandleAuthorized`,
`HandleReport`, `ActiveEpResp`, `SimpleDescResp`, `AnswerFails`. A save is cut where a crash
leaves different files: the device file emptied (`SaveOpen`), written (`SaveWrite`), the old
index removed (`SaveUnlink`), the new one renamed into place (`SaveRename`). `WebSave` is the
save a rename by the HTTP task makes; it may come between a handler and its own save. `Crash`
and `LoadEntry` are a restart; index entries are read in any order, which covers the order
the index was written in.

*Environment.* Joining is modelled from the signals the NCP forwards: association, update,
authorisation, reports. A secured rejoin sends an update and an authorisation only, and so does a join through a
router. A device that leaves is logged by the NCP and not forwarded (`Leave`). `Allow` switches on what a run
needs: joins that overlap (`overlap`), saves of the HTTP task (`web`), leaving (`leave`), joins through a router (`router`), and
addresses given out again while the host still has them for a departed device (`reuse`). An
announcement never reaches the handler: the NCP sends it under `ESP_NCP_NETWORK_JOINNETWORK`
(`zb_handlers.c:247-271`), whose entry in the host's table is commented out (`ncp_host_zb_api_from_ncp.c:987`), so the
fall-through at `zbm_zigbee_app_signal_handler.c:222-225` is not taken. An authorisation that failed (line 231) asks
nothing, as one whose question cannot be sent.

*Addresses given out again.* The code drops an update whose address it has (`zbm_zigbee_app_signal_handler.c:164`). With `reuse`
this meets a new device at the address of a departed one: the new one stays unknown at 0xFFFE, its
authorisation (lines 233-252) has it asked in the name of the old device, and the answer becomes the old device's
description. The ghost `shared` holds the devices this can concern: those given an address the host had for another, in
memory, index, file or signal, and those others. `DescribedByItself` says that descriptions mix among devices of `shared` only, whatever
else happens. `Shares` names the devices `KnownAddress`, `JoinLearned` and `FlashComplete` are not about: one of `shared`, where
addresses are reused. The address-book promise is broken then; `base_calm` and the theorems on it leave `reuse` out.

*What this abstracts.* A device's endpoints, clusters and attributes are one value: who
described them. GUIDs are their address prefix. The core lock is waited for, where the code
gives up after a second and goes on without it; flash writes do not fail; the coordinator's
record and the save of all devices before a rebuild of the link
(`zbm_ncp_connect.c:135`) are left out. Files under former addresses are kept, as in the
code: `zbm_dev_storage_spiffs.c:466` looks for an old file by a name no file has.

*Bounds.* Two devices, two addresses and two buckets: 0xFFFE and address 2 share a
bucket, 1 does not, so a move is checked within a bucket and between two. `MaxJoins`,
`MaxSignals`, `MaxReports` and `MaxCrashes` bound the environment. With three joins a device
can join, move, leave and come back, or two devices can take one address in turn. Where the HTTP task saves too (`base_web`)
two joins are enough: the first device is moved or leaves while the save of the other is between two of its steps, or the
second device gets the address of the first. `base_web` has a restart too; reports are in `base_calm`, which has no
liveness to check and so room for them. The two devices are interchangeable in `base_calm`; the others use no symmetry.

*What `JoinLearned` leaves out.* A device the base does not know and hears no association of (it joined through a router, or its
association was lost in a restart) has its update dropped (line 167). It stays unknown until it
associates again: the property is about the others, and says so; `base_web` has both kinds.

*Fairness* (only in `FairSpec`): `esp_zb_task` handles a message it can handle and ends a save
it began, a restart reads its index to the end; a device that is joining goes on with it. Handling and the begin of a save need the
core lock, which the HTTP task may hold whenever it looks: a FreeRTOS mutex serves its
waiters in turn, hence strong fairness of these two and weak fairness of the others. Nothing
is assumed of new joins, reports, renames or restarts.

### Automation

*The engine.* `zb_automation_v2_on_data_change` is a loop over the rules (`Walk`), an exchange
sort of those triggered (`Exchange`) and a loop over the sorted ones (`Perform`, `RunEnd`). A
rule that sets a variable calls it again: `stack` holds for each task that can run rules the
frames of the calls it is in, each with the C function's locals. `esp_zb_task` runs rules for a
report, under the core lock (`Report` to `ReportEnd`); the HTTP task runs one by hand without
it (`Run` to `RunDone`). Steps of the two interleave. A behaviour bound to an attribute takes
its changes from the rules.

*The core lock.* `zbm_core_sync_lock` gives up after a second and its caller goes on;
`Enter` may do so while the holder is in a command to the NCP, the only thing that takes
as long (`HoldsLong`). Both then call `xSemaphoreGive`, of which the mutex accepts its owner's
(`Leave`). Other requests that walk the device base under the lock are `Base`; the brief
look-ups of GUIDs by a rule run by hand are not modelled as users of the lock.

*The store.* A POST changes the rules in memory, then writes the rule's file, then the
index; a DELETE likewise; enable and disable write the two and leave memory alone. Each write is an
action, and a `Crash` comes between any two or, with `cut`, within one: `fopen("w")` has
emptied the file. `Load` is one entry of the index at the next start. `asked` is a ghost: what the last answer
promised of a rule. It is taken back (`Nothing`) by a write that is cut, or that is unreadable.
Enable and disable delete the old item of the parsed text while it is still linked
(`zbm_rules_rest_api.c:438`), so what `cJSON_Print` finds after that is undefined; `ToggleFile` and
`ToggleIndex` write either the text meant or an unreadable one.

*What this abstracts.* Values are bytes counted modulo `Values`; a trigger, a comparison and a
condition are the set of values that satisfy it; the clock (`hour`) answers either way. Writes to flash
do not fail; in the code a POST answers success even if they do. Rules are edited
only while none runs (`QuietEngine`): the code takes no lock, and what an edit under a running
change leads to is a use after free. Edits of variables and behaviours by REST are left out;
behaviours are any set of the defined ones after a start.

*Assumptions.* `Layered`: what a rule sets is deeper than its cause. Nothing in the code
enforces this, and without it a rule that toggles its own cause recurses until the stack
overflows; `NestingBounded` and `Settles` say that a layered site is safe. `InFlash`: what is in
flash when the history starts was written by this code.

*Bounds.* The engine's site has four rules: three with one cause, met by the walk in the wrong
order, of which two set off the fourth; one behaviour; two layers of variables; two values.
Recursion reaches three frames, the sort makes all its exchanges, and a second task runs rules at the same
time. The store's site has three ids of which two fit into memory, and one of them in two
texts, so that a replacement, a refusal and a full table occur; no rule runs there.

*Fairness* (only in `FairSpec`): a task goes on with the change it is in, the HTTP task
answers, a start goes on. A command to the NCP is answered, which `NcpLink` shows without
faults (`CallsReturn`).

### NcpFirmware

A frame for the host is put by `esp_ncp_bus_input` in the main task (answers) or the Zigbee
task (notifications): look for room (`PutSpace`), wait for it for 50 ms (`PutWaited`), take the semaphore
(`PutTake`), copy byte by byte (`PutCopy`), give it (`PutGive`), post an event that counts the
bytes (`PutPost`). The main task takes an event and as many bytes as it counts (`MainTakes`).
The timeouts may fire also when the wait is just over. Room, copy and count are
not atomic: two tasks find the same room, and events may come in the other order than the bytes; then the
pieces the main task writes are not frames, although the bytes on the line are in order.
`lost` is a ghost: a put gave up, or an event found the queue full. After that the line may lag
behind by a frame until the NCP restarts. Two error returns between `esp_zb_lock_acquire` and
`esp_zb_lock_release` keep the lock (`RefuseLocked`). An error the main task cannot report
ends it.

*What this abstracts.* The host makes one call at a time (`NcpLink!OneOnLink`), of a command that has an entry in
`ncp_zb_func_table` (any other would get neither answer nor refusal, `esp_ncp_zb.c:2805-2828`; the host sends none), and a command
comes as one event; the handlers' requests to the stack are left out; frames are named bytes.

*Bounds.* A buffer of three bytes, frames of one and two, a queue of two: each of the two can
be full while the other has room, and two frames fit only one at a time.

*Fairness* (only in `FairSpec`): the two tasks run and the bus task counts; the semaphore is
given after every copy, so a put that waits for it gets it. Nothing is assumed of the stack,
which may hold its lock for ever: the main task gives up on it after 500 ms.

### WebFeed

*The host.* `esp_zb_task` stores a reported value, runs the rules, then queues it (`Report`,
`Queues`), and queues notices (`Notify`). `ws_update_task` is `PumpTakes`, `PumpWaits` and
`PumpSends`, the last being `send_json_event_to_ws_safe` with its two ways to lose a frame. The task of
the HTTP server is `HttpdWorks` and, for a command from a page, `CmdBegins` and `CmdGoesOn`: it asks the NCP, then
sends the answer under the mutex of the buffer. Requests of pages are served by the same
task (`Reachable`). `MakeFeed`, `StartHttpd` and `HttpdFails` are the start; `Restart` is any
restart, also that of a failed `configASSERT` on a queue which is not there yet or no more.

*Wi-Fi.* The pages are in the network the host joins. `GotIp` makes a new token, `GivesUp` is the
15 s timer; an address that comes when it is over makes a token and is given up, which the
model does in one step. `Drops` is a network that goes: nothing joins it again. `Button` is the long press.

*The page.* `Opens`, `Closes`, `TimerFires` and `Detach` are the WebSocket. `Lists`, `Fetches`,
`LoadFails` and `Stores` are `loadDevices`, which begins once the WebSocket is open, and which fills the page
when all devices have been fetched. `Delivers` takes a frame: an update changes the value if the page has the device, a
notice has the page ask for the device again (`Refreshes`, `Replaces`). `Checks` compares tokens.

*One value.* One attribute of one device is followed, its values numbered from 2 as the host had them; 1 stands for what is
left of a value that has been cut. `lost` is a ghost: the last value that was lost to a page. The ways to lose one are

* its length is 0 or above 256, and `zbm_ws_send_data_update_notify` refuses it (`zbm_web_server.c:196`); or the queue is full (`Queues`);
* it has more than 8 bytes, and `ws_update_task` sends the first 8 (lines 152-154, `PumpTakes`): the page then shows `Cut`;
* the buffer or the server is taken (`PumpSends`);
* the server's task gets no list of clients (line 274), or a send fails and the result is ignored (line 284): any set of the
  pages misses the frame and stays connected (`HttpdWorks`);
* the page is still loading, or an older answer to a refresh replaces it.

Fetching the device makes up for a loss only when no
older frame is still on its way: such a frame takes the page back to its own value, and if the newest
was dropped, nothing corrects that before the next report. `UpToDate` and `CatchesUp` are about the values that are not
lost; nothing promises more.

*What this abstracts.* Other attributes and devices, the other kinds of notice (each counts as one that refreshes), the
JSON, allocations that fail. An HTTP request is answered at once or fails. The attribute has a type that the description of a
device prints in full; of arrays and structures REST gives a placeholder. It is in the base from the start: a report that
creates an attribute is stored without being queued (`zbm_dev_simple_func.c:572`).

*Bounds.* Queues of one, one page, and two (`MaxEvents`) reports, notices, restarts, failures or presses, in any mixture: a
report finds the queue full behind another; an answer to a refresh and an update overtake each other; a report or a notice
compete for the pump; with a restart a page lives through two starts. `UpToDate` is proved for any number of them.

*Fairness* (only in `FairSpec`): the tasks run, the start goes on, the 15 s timer ends a joining, a page handles what it has
received and checks the token. The HTTP server looks at its control socket and every session in
turn, so frames and requests are served although commands keep coming (strong fairness). Nothing is
assumed of devices, of the network or of the button.

## Runs

| run | question | result |
|---|---|---|
| `link_live` | without faults, with more notifications than the queues hold: does anything but a full queue keep a call from returning, boot from ending or a notification from being taken | no: holds |
| `link_faults` | with any one fault at any moment: are commands serialised and answers their own, are restart notifications fresh and bring-ups separate, does a rebuild end in WORKING, do notifications keep their order | holds |
| `link_break` | is a break always followed by the restart it announces | violated |
| `base_calm` | with joins one at a time, moves, leaves and a restart, do table, GUIDs and index agree, is what was recorded kept and read back, is this an address book | holds |
| `base_web` | with saves of the HTTP task in between, joins through a router and during a restart, and addresses given out again: is every address known and flash complete, does a device the base knows or hears of come to be known, and are descriptions the devices' own, but for those that shared an address | holds |
| `base_overlap` | when two devices join at once, are both still found | violated |
| `base_rename` | with a rename between a move and its save, does a restart restore each device once | violated |
| `auto_engine` | with changes in two tasks, do rules nest as deep as the site is layered, run by priority and come to an end; is the lock taken from nobody; is every request answered | holds |
| `auto_store` | with crashes between and within writes, is a rule there once, what was answered as saved found again, what was answered as deleted gone | holds |
| `auto_kept` | does a rule do after a restart what it did when it was answered as saved | violated |
| `ncp_tasks` | are frames whole, do events count the bytes there are, is a command answered or refused or something known lost | holds |
| `web_feed` | does a connected page show the value of the device base, or will after what is on its way, and does it come to, but for named losses; does a page notice a restart | holds |

A stack failure reported while `app_main` is still booting has `esp_zb_task` delete the queues
`app_main` is about to use: the host reboots. `RebuildCompletes` names that case and
allows it; no break leads to it (`OneBringUp`).

What the violations show:

* `link_break`: `esp_zb_task` looks for its restart notification in WORKING only; a break that
  makes the state FOULTED just after it looked leaves the notification untaken, and nothing
  else leaves FOULTED.
* `base_overlap`: a device that moves out of 0xFFFE is unlinked by *address*
  (`zbm_core_sync.c:127`), so the node that goes is the newest one at 0xFFFE. If that is the
  other device, it stays allocated and no search finds it.
* `base_rename`: a device moves to an address a departed device had; before it is saved, a
  rename of any device writes the index with the new address, whose file is still the departed
  device's. The restore looks up the IEEE address of the index entry and then adds the device
  of the file, which may already be there.
* `auto_kept`: `rule_to_json` writes an action that sets a signed, 16-bit or text variable with a
  type of its own, which `rule_from_json` does not know: after a restart the action is an
  empty command.

## Proofs

`NcpLink_proofs` proves, for every set of tasks, commands, notifications and faults, every
queue length and any number of calls told apart, that `Spec` implies

* `[]TypeOK`;
* `[]OneOnLink` and `[]OwnAnswer`, from the inductive invariant `LinkInv`: while the link is
  up the lock is held by the one task on it; while it is down its queues are empty; over the
  request, UART and answer queues there is at most one frame of an exchange, it belongs to the
  holder's call, and the holder is waiting for it. `OwnAnswer` alone is not inductive: what
  protects a call from a late answer is that a lock is only given once the answer is out
  of every queue, and that a rebuild starts from empty ones;
* `[]NotificationIsFresh` and `[]OneBringUp`, from `BringUpInv`, which holds until the NCP reports a
  failure of its stack, and from `Silent`: before that no report is on its way;
* `ImplementsRpc`: the refinement of `RpcChannel`.

`Automation_proofs` proves, for any attributes, variables, behaviours, rules, values and sizes
that satisfy `Shapes`, `InFlash` and `Layered`, that `Spec` implies `[]TypeOK`,
`[]NestingBounded`, `[]ByPriority`, `[]OnePerId`, `[]DeletedStaysGone` and the action property
`GivenByTaker`. None of them is inductive as it stands; `IInv` has two parts.

* `EngineInv` is about the stacks. The n-th frame is at least n - 1 layers deep and what a frame
  has still to run sets variables deeper than its source (`Deeper`): a nested change therefore
  pushes a frame no deeper than the layers go. While a frame sorts, the loop invariant
  of the exchange sort holds (`SortedUpTo`): the first i - 1 places are in order and none behind
  them goes before one of them, and none of those already compared with place i goes before
  it. Leaving the loop, the whole list is in order.
* `StoreInv` is about rules, files and the index. A request in its middle knows which of its two
  writes it has done, and a load has met only entries before `boot`, so it adds no
  id twice; an id that is being deleted is in memory no more, and its entry goes before the
  answer.

`AutomationKept_proofs` proves `[]AnsweredKept` on top of it, from `KeptInv`: what was answered as
saved can be loaded; memory agrees with it; while the host is up, everything a start would
load is in memory, but for the rule being deleted. Hence what a start can load has at
most `MaxRules` members (a statement about cardinalities), so a load never meets a full memory
before it has met every entry, and the next start finds everything again.

`DeviceTable_proofs` has what searches, `Link` and `Unlink` do to a table with any number of
buckets and devices; that a search finds a device comes down to a least place, by the
well-founded order of the numbers. `DeviceBase_proofs` proves, for any devices, addresses, bounds
and size of the table:

* `[]TypeOK` and `RecordKept`, whatever the environment does, from `BaseInv`: besides the types, a
  save under way names a device that has an address, and a restart that reads the index has met
  nothing but what it read (`SaveInv`, `RestInv`).
* `[]DescribedByItself` (`OwnDescription`), likewise without conditions, from `MixInv`: all devices that anything names for one
  address (network, memory, index, files, signals) are in `shared` unless they are one and the same, and a question, a device
  or a file holds its own description or, among devices of `shared`, another's. A report or an answer changes the device
  that an address or a pointer leads to, so it can only confuse two devices named for one address.
* Where joins come one at a time, the network gives out no address the host has for another device (`Apart`) and, after the first
  restart, the HTTP task saves nothing (`Tidy`): `TableSound`, `NoneLost`, `RestoredOnce`, `GuidsOwn`,
  `FlashComplete`, `ReadBack`, descriptions that are the device's own without exception (`OwnWhenApart`);
  where joins begin with an association, `KnownAddress`; without saves of the HTTP task, `IndexTruthful`.
  The conditions are needed: `base_overlap` and addresses given out again break the first, `base_rename` the second.
* Under them (`Orderly`) the refinement of `AddressBook`, step by step: an association is
  `Meet`, an update `Move`, a restart `Forget`, an entry of the index `Recall`, anything else
  leaves the book as it is.

The invariant is `SeqParts`, and no part of it can be left out. `TabInv`: every device allocated is in
the table once, in the bucket of its address. An update keeps it only if no *other* device is
at the address the moved one leaves, 0xFFFE included; so at most one device may be without an
address: `JoinInv`, one device is joining, and one without an address still waits for its update.
The update takes an address nobody has: `OneOwner`, whatever names a device for an
address (network, memory, index, signals) names the same one. `LearnInv` follows the
last update of a device through the queue to the table; `DescInv` ties each question to the device it
was put to; `FlashInv` says for which device the files may lag behind the heap, and until
which step; `GuidInv` is `GuidsOwn`. TLC checked `SeqParts` on the instances of
`base_calm`, `base_web` and those that break it before it was proved.

`NcpFirmware_proofs` proves `[]TypeOK`, `[]Together` and `[]Counted`, for any commands,
notifications, sizes of frames, buffer and queue that satisfy `Shapes` (a frame fits into an empty
buffer). The inductive invariant has four parts besides the types:

* `PutInv`: a task copies while it holds the semaphore, and what it has still to copy fits: only the
  semaphore's owner fills the buffer, so the room it saw when it took the semaphore can only
  have grown, whatever two tasks saw before. This is what keeps the buffer within `Space`.
* `CallInv`: commands read, counted or being handled are still in `output_buf`: a handler finds one.
* `CountInv`: what the events count, plus what tasks have copied and not yet counted, is in the
  buffer, and all of it while nothing is lost. `Counted` forgets the second part of the sum once
  bytes are lost and is not inductive: a post would count bytes it does not know to be there. What
  events count is a cardinality; that an event appended adds its bytes and one taken
  removes them comes from a disjoint union and a bijection (`UnitsAppended`, `UnitsTaken`), since
  a fold over the queue would need induction over data.
* `ByteInv`: the last byte of line and buffer is the last one the copying task has put, so the
  next one continues its frame. It needs `CountInv`: an event that counted more than there is would
  throw bytes away and tear a frame.

`WebFeed_proofs` proves `[]TypeOK` and `[]UpToDate`, for any number of pages, lengths of queues and
`MaxEvents`. `UpToDate` is not inductive; the invariant says more of more pages:

* of the queues all pages share (`Fits`): the last update in them carries the value of the device
  base, or this page has lost that value (in any of the ways listed under WebFeed, so a cut or a failed send
  costs the theorem nothing but the page's `lost`). It is said of pages without a connection too, as one that
  connects later relies on it;
* of a page the server has a WebSocket of (`Fed`): the same with the frames already sent to it; and if no
  update is on its way, what it shows, or what it has fetched and will show, is that value;
* a page that connects has loaded nothing and received nothing, because one whose WebSocket was closed
  never connects again (`retry`); nothing fetched is newer than the device base; without a server
  there are neither pages nor frames for them; a value stored and not yet queued is the last one.

"The last update" is stated by positions (`EndsIn`, `NoUpdate`), so that what a concatenation does to
it (`OfBoth`) is a lemma about positions and needs no induction. TLC checked the invariant with one page,
with two pages, and with longer queues before it was proved.

Model-checked only: the liveness properties (liveness under fairness and ENABLED are beyond
TLAPS), `JoinLearned` of `DeviceBase` among them; `NotesInOrder` of `NcpLink`; `CallAnswered` of
`NcpFirmware`; `CatchesUp` and `RestartNoticed` of `WebFeed`; `Settles` and `Answered` of `Automation`.

## Not modelled

* SNTP, SSDP, DNS, mDNS, PSRAM helpers: calls of the ESP-IDF without shared state of their own. A host that knows no
  network, whose pages are in a network of its own: it has no session token.
* Several pages of one browser: they share the saved token, so only the first notices a restart.
* REST beyond the rename, the rules and the lock; edits and storage of variables and behaviours.
* Enable and disable leave the rule in memory on: the model has it, no property is about it.
* The keys of the GUID table, arrays that grow and pointers into them: `DeviceBase` has
  the address prefix of a GUID only.
* The host's stream buffers, SLIP, frames longer than the UART's threshold.
* The second `esp_ncp_zb` initialisation of an NCP that is already initialised
  (`esp_ncp_zb.c:1778`), when the host restarts alone.
* The save of all devices and the coordinator's record before a rebuild.
* The JSON text of files and messages, allocation failure, failed writes to flash, the ZBOSS stack.
* The older host, the first automation engine, the web pages for rules, variables and files, and the flasher.

PROJECT.json says why for each component and lists the hazards that are not covered.

## Plan

Done: `NcpLink`, `RpcChannel`, `DeviceTable`, `AddressBook`, `DeviceBase`, `Automation`,
`NcpFirmware`, `WebFeed`, and the proofs about all of them. Next, in this order:

1. `NotesInOrder` of `NcpLink` as a theorem.
2. `GuidKeys`: keys as the code writes and as it searches them, arrays that grow, pointers
   into them; to replace the prefix in `DeviceBase`.
3. The host's buffers in the manner of `NcpFirmware`, with SLIP: decode after encode as
   operators over bounded frames.
4. The core lock that times out, composed of link, base and automation; the save of all
   devices.
