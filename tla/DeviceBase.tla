----------------------------- MODULE DeviceBase ------------------------------
(***************************************************************************)
(* The device base of the host (zbm_dev_base/): the devices that joined,   *)
(* the table they are found in, the GUIDs of their items, and their copy   *)
(* in flash; with the signals of the network that change it and the        *)
(* restart that reads it back.                                             *)
(*                                                                         *)
(* esp_zb_task handles one signal or answer at a time and saves the device *)
(* under the core lock; the HTTP task can save one too.  Other steps wait  *)
(* for the lock, so a save is interleaved with crashes only, and a handler *)
(* with saves of the HTTP task between its update and its own save.        *)
(***************************************************************************)
EXTENDS DeviceTable, FiniteSets

CONSTANTS
  Ieee,        \* the IEEE addresses of the devices around
  Addr,        \* the short addresses the network hands out
  Allow,       \* what the environment may do: see Allowances
  MaxJoins,    \* bound: associations and rejoins
  MaxReports,  \* bound: reports and read answers
  MaxSignals,  \* bound: signals on their way to the host
  MaxCrashes,  \* bound: restarts of the host
  NoDev, NoFile, Broken   \* no device; no file, an emptied one

\* overlap: devices join while another join is under way.
\* web:     a device is saved by the HTTP task (a rename).
\* leave:   devices leave the network.
\* router:  devices join through a router, which the host hears of by the update only.
\* reuse:   the network gives out an address the host still has for another device.
Allowances == {"overlap", "web", "leave", "router", "reuse"}

Unknown == 65534   \* ZBM_ADDR_UNKNOWN
Absent  == 65535   \* no short address, in the address book

Device == [ieee : Ieee, short : Addr \cup {Unknown}, desc : Ieee \cup {NoDev}]
Entry  == [ieee : Ieee, file : Addr \cup {Unknown}]

ASSUME BaseAssumption ==
  /\ Addr \subseteq Nat \ {Unknown, Absent}
  /\ NoDev \notin Ieee
  /\ NoFile \notin Device /\ Broken \notin Device
  /\ Allow \subseteq Allowances

VARIABLES
  heap,     \* the devices allocated: their addresses and whose description they hold
  table,    \* dev_hash
  guid,     \* the device the GUIDs that start with this address lead into
  files,    \* dev_0x<address>.json in SPIFFS
  index,    \* the entries of the device index in SPIFFS; none when the file is missing
  save,     \* the save in progress: its device, the task that makes it, its next step
  zbTask,   \* the device esp_zb_task saves next, and whether it then asks for descriptors
  asks,     \* the questions sent to devices: ctx is the pointer sent along
  loading,  \* index entries still to restore after a restart
  sig,      \* signals on their way to the host, in order
  net,      \* external: the address each device has in the network
  stage,    \* external: how far each device is in joining
  shared,   \* history: devices given an address the host still had for another, and those
  joins, reports, crashes

host == <<heap, table, guid, save, zbTask, asks, loading>>
disk == <<files, index>>
air  == <<sig, net, stage, joins, reports, shared>>
vars == <<host, disk, air, crashes>>

Saving == [obj : Nat, by : {"zb", "web"}, step : {"idle", "write", "unlink", "rename"}]
Asked  == [ctx : Nat, step : {"ep", "desc"}, of : Ieee \cup {NoDev}]
Signal == [kind : {"assoc", "update", "auth", "report"}, ieee : Ieee, addr : Addr]

NoSave == [obj |-> Null, by |-> "zb", step |-> "idle"]
NoTask == [dev |-> Null, ask |-> FALSE]

Init ==
  /\ heap = <<>> /\ table = Empty /\ guid = [a \in Addr |-> Null]
  /\ files = [a \in Addr \cup {Unknown} |-> NoFile] /\ index = {}
  /\ save = NoSave /\ zbTask = NoTask /\ asks = {} /\ loading = {}
  /\ sig = <<>> /\ net = [i \in Ieee |-> Unknown] /\ stage = [i \in Ieee |-> "out"]
  /\ joins = 0 /\ reports = 0 /\ crashes = 0 /\ shared = {}

AtShort(a) == {d \in DOMAIN heap : heap[d].short = a}
OfIeee(i)  == {d \in DOMAIN heap : heap[d].ieee = i}
FindShort(a) == Find(table, AtShort(a))
FindIeee(i)  == Find(table, OfIeee(i))

-----------------------------------------------------------------------------
(* The network, as far as the host hears of it.                            *)

Send(s) == Len(sig) < MaxSignals /\ sig' = Append(sig, s)

Readable(a) == files[a] \notin {NoFile, Broken}

\* The devices the host has under an address: in memory, in its index, in a signal.
HostHas(a) ==
  {heap[d].ieee : d \in AtShort(a)} \cup {e.ieee : e \in {e \in index : e.file = a}}
    \cup {sig[n].ieee : n \in {n \in DOMAIN sig : sig[n].addr = a}}

\* The network gives i a free address; one the host has for another only if it may.  The
\* history counts the file of a former address too, which stays in flash.
Given(i, a) ==
  LET others == (HostHas(a) \cup (IF Readable(a) THEN {files[a].ieee} ELSE {})) \ {i}
  IN /\ \A j \in Ieee : net[j] # a
     /\ "reuse" \in Allow \/ HostHas(a) \subseteq {i}
     /\ net' = [net EXCEPT ![i] = a]
     /\ shared' = IF others = {} THEN shared ELSE shared \cup others \cup {i}

\* No other join is under way.
Alone(i) ==
  "overlap" \in Allow \/
    /\ \A j \in Ieee \ {i} : stage[j] \in {"out", "in"}
    /\ \A n \in DOMAIN sig : sig[n].ieee = i \/ sig[n].kind = "report"

Associate(i, a) ==
  /\ stage[i] = "out" /\ Given(i, a) /\ Alone(i) /\ joins < MaxJoins
  /\ Send([kind |-> "assoc", ieee |-> i, addr |-> a])
  /\ stage' = [stage EXCEPT ![i] = "associated"]
  /\ joins' = joins + 1
  /\ UNCHANGED <<host, disk, reports, crashes>>

\* A secured rejoin under another address, or a join through a router: only the update is
\* signalled.
Rejoin(i, a) ==
  /\ stage[i] = "in" \/ (stage[i] = "out" /\ "router" \in Allow)
  /\ Given(i, a) /\ Alone(i) /\ joins < MaxJoins
  /\ stage' = [stage EXCEPT ![i] = "associated"]
  /\ joins' = joins + 1
  /\ UNCHANGED <<host, disk, sig, reports, crashes>>

EmitUpdate(i) ==
  /\ stage[i] = "associated"
  /\ Send([kind |-> "update", ieee |-> i, addr |-> net[i]])
  /\ stage' = [stage EXCEPT ![i] = "updated"]
  /\ UNCHANGED <<host, disk, net, joins, reports, shared, crashes>>

EmitAuthorized(i) ==
  /\ stage[i] = "updated"
  /\ Send([kind |-> "auth", ieee |-> i, addr |-> net[i]])
  /\ stage' = [stage EXCEPT ![i] = "in"]
  /\ UNCHANGED <<host, disk, net, joins, reports, shared, crashes>>

\* A device that is in reports an attribute, or answers a read of one.
EmitReport(i) ==
  /\ stage[i] = "in" /\ reports < MaxReports
  /\ Send([kind |-> "report", ieee |-> i, addr |-> net[i]])
  /\ reports' = reports + 1
  /\ UNCHANGED <<host, disk, net, stage, joins, shared, crashes>>

\* The NCP logs that a device left and does not tell the host.
Leave(i) ==
  /\ "leave" \in Allow /\ stage[i] = "in"
  /\ net' = [net EXCEPT ![i] = Unknown]
  /\ stage' = [stage EXCEPT ![i] = "out"]
  /\ UNCHANGED <<host, disk, sig, joins, reports, shared, crashes>>

Holder(a) == IF \E i \in Ieee : net[i] = a THEN CHOOSE i \in Ieee : net[i] = a ELSE NoDev

-----------------------------------------------------------------------------
(* esp_zb_task: signals and answers.                                       *)

\* The task is between two messages and the core lock is free.
Ready == save.step = "idle" /\ zbTask = NoTask /\ loading = {}

Received(kind) ==
  /\ Ready /\ sig # <<>> /\ Head(sig).kind = kind
  /\ sig' = Tail(sig)
  /\ UNCHANGED <<save, loading, disk, net, stage, joins, reports, shared, crashes>>

\* A plausible slip: a device without items leaves the entries that are there.
UpdateGuidsIfAny(g, d, a, desc) == IF desc = NoDev THEN g ELSE [g EXCEPT ![a] = d]

\* zbm_guid_db_update_device_guids: entries of its present address are replaced.
UpdateGuids(g, d, a, desc) == [g EXCEPT ![a] = IF desc = NoDev THEN Null ELSE d]

\* A plausible slip: the search by IEEE address left out, as it is in the callee.
HandleAssociatedAgain ==
  /\ Received("assoc")
  /\ heap' = Append(heap, [ieee |-> Head(sig).ieee, short |-> Unknown, desc |-> NoDev])
  /\ table' = Link(table, Len(heap) + 1, hash_short(Unknown))
  /\ UNCHANGED <<guid, zbTask, asks>>

\* A device that is not in the base is created under the unknown address.
HandleAssociated ==
  /\ Received("assoc")
  /\ LET i == Head(sig).ieee
         d == Len(heap) + 1
     IN IF FindIeee(i) # Null THEN UNCHANGED <<heap, table>>
        ELSE /\ heap' = Append(heap, [ieee |-> i, short |-> Unknown, desc |-> NoDev])
             /\ table' = Link(table, d, hash_short(Unknown))
  /\ UNCHANGED <<guid, zbTask, asks>>

\* Two plausible slips: the old node stays; the device is not saved.
UpdateShortKeepsNode(d, a) ==
  IF InBucket(table, d, hash_short(a))
  THEN UNCHANGED <<heap, table, guid, zbTask>>
  ELSE /\ heap' = [heap EXCEPT ![d].short = a]
       /\ table' = Link(table, d, hash_short(a))
       /\ guid' = UpdateGuids(guid, d, a, heap[d].desc)
       /\ zbTask' = [dev |-> d, ask |-> FALSE]

UpdateShortUnsaved(d, a) ==
  /\ heap' = [heap EXCEPT ![d].short = a]
  /\ table' = Link(Unlink(table, AtShort(heap[d].short)), d, hash_short(a))
  /\ guid' = UpdateGuids(guid, d, a, heap[d].desc)
  /\ UNCHANGED zbTask

\* zbm_dev_update_short_addr_safe.  The node to remove is searched by address.
UpdateShort(d, a) ==
  LET c  == FindShort(a)
      t0 == IF c \in {Null, d} THEN table ELSE Unlink(table, AtShort(a))
      g0 == IF c \in {Null, d} THEN guid ELSE [guid EXCEPT ![a] = Null]
      t1 == Unlink(t0, AtShort(heap[d].short))
      b  == hash_short(a)
  IN IF InBucket(t1, d, b)
     THEN table' = t1 /\ guid' = g0 /\ UNCHANGED <<heap, zbTask>>
     ELSE /\ heap' = [heap EXCEPT ![d].short = a]
          /\ table' = Link(t1, d, b)
          /\ guid' = UpdateGuids(g0, d, a, heap[d].desc)
          /\ zbTask' = [dev |-> d, ask |-> FALSE]

\* A plausible slip: a device that has an address keeps it.
HandleFirstUpdate ==
  /\ Received("update")
  /\ LET d == FindIeee(Head(sig).ieee)
         a == Head(sig).addr
     IN IF FindShort(a) # Null \/ d = Null \/ (d # Null /\ heap[d].short # Unknown)
        THEN UNCHANGED <<heap, table, guid, zbTask>>
        ELSE UpdateShort(d, a)
  /\ UNCHANGED asks

\* Ignored when the address is known, or the device is not.
HandleUpdate ==
  /\ Received("update")
  /\ LET d == FindIeee(Head(sig).ieee)
         a == Head(sig).addr
     IN IF FindShort(a) # Null \/ d = Null
        THEN UNCHANGED <<heap, table, guid, zbTask>>
        ELSE UpdateShort(d, a)
  /\ UNCHANGED asks

\* A plausible slip: the pointer is not tested.
HandleAuthorizedUntested ==
  /\ Received("auth")
  /\ LET a == Head(sig).addr
     IN asks' = asks \cup {[ctx |-> FindShort(a), step |-> "ep", of |-> Holder(a)]}
  /\ UNCHANGED <<heap, table, guid, zbTask>>

\* The device at this address, if one is known, is asked for its endpoints; nothing is when
\* the authorisation failed or the question cannot be sent.
HandleAuthorized ==
  /\ Received("auth")
  /\ LET a == Head(sig).addr
         d == FindShort(a)
     IN \/ UNCHANGED asks
        \/ d # Null /\ asks' = asks \cup {[ctx |-> d, step |-> "ep", of |-> Holder(a)]}
  /\ UNCHANGED <<heap, table, guid, zbTask>>

\* The device known under the address of the report is meant.  An item it does not have is
\* created, its GUID registered unless there is one, and the device saved.  A value of an
\* item it has, or one that is not valid, changes nothing here.
HandleReport ==
  /\ Received("report")
  /\ LET a == Head(sig).addr
         d == FindShort(a)
     IN \/ UNCHANGED <<heap, guid, zbTask>>
        \/ /\ d # Null
           /\ heap' = [heap EXCEPT ![d].desc = Head(sig).ieee]
           /\ guid' = [guid EXCEPT ![a] = IF @ = Null THEN d ELSE @]
           /\ zbTask' = [dev |-> d, ask |-> FALSE]
  /\ UNCHANGED <<table, asks>>

\* A plausible slip: the answer is taken for the device that joined last.
LastJoined(q) == Len(heap)

\* The pointer sent along leads to the address the device has by now.
Addressee(q) == FindShort(heap[q.ctx].short)

AnswerFrom(q, step) ==
  /\ Ready /\ q \in asks /\ q.step = step /\ q.of # NoDev
  /\ asks' = asks \ {q}
  /\ UNCHANGED <<table, save, loading, disk, air, crashes>>

\* zb_manager_active_ep_resp_fn: endpoints made, device saved (twice when they are new, to
\* the same effect), descriptors asked for.
ActiveEpResp(q) ==
  /\ AnswerFrom(q, "ep")
  /\ zbTask' = IF Addressee(q) = Null THEN NoTask ELSE [dev |-> Addressee(q), ask |-> TRUE]
  /\ UNCHANGED <<heap, guid>>

\* A plausible slip: the descriptor is applied and not saved.
SimpleDescRespUnsaved(q) ==
  /\ AnswerFrom(q, "desc")
  /\ LET d == Addressee(q)
         a == heap[q.ctx].short
     IN IF d = Null \/ a = Unknown THEN UNCHANGED <<heap, guid>>
        ELSE heap' = [heap EXCEPT ![d].desc = q.of] /\ guid' = UpdateGuids(guid, d, a, q.of)
  /\ UNCHANGED zbTask

\* zb_manager_simple_desc_resp_fn: clusters and attributes made, their GUIDs registered.
SimpleDescResp(q) ==
  /\ AnswerFrom(q, "desc")
  /\ LET d == Addressee(q)
         a == heap[q.ctx].short
     IN IF d = Null \/ a = Unknown THEN UNCHANGED <<heap, guid, zbTask>>
        ELSE /\ heap' = [heap EXCEPT ![d].desc = q.of]
             /\ guid' = UpdateGuids(guid, d, a, q.of)
             /\ zbTask' = [dev |-> d, ask |-> FALSE]

\* The device did not answer, or with an error.
AnswerFails(q) ==
  /\ Ready /\ q \in asks
  /\ asks' = asks \ {q}
  /\ UNCHANGED <<heap, table, guid, save, zbTask, loading, disk, air, crashes>>

-----------------------------------------------------------------------------
(* zbm_save_device_to_spiffs_safe, in the steps a crash can come between.  *)

TaskEnds(d) ==
  /\ zbTask' = NoTask
  /\ asks' = asks \cup
       (IF zbTask.ask THEN {[ctx |-> d, step |-> "desc", of |-> Holder(heap[d].short)]} ELSE {})

\* A plausible slip: the file under the old address goes before the new one is complete.
OpenFileRemovingOld(d, by) ==
  /\ save' = [obj |-> d, by |-> by, step |-> "write"]
  /\ files' = [a \in DOMAIN files |->
       IF a = heap[d].short THEN Broken
       ELSE IF Readable(a) /\ files[a].ieee = heap[d].ieee THEN NoFile ELSE files[a]]
  /\ UNCHANGED <<zbTask, asks>>

\* fopen(path, "w") empties the file.
OpenFile(d, by) ==
  /\ save' = [obj |-> d, by |-> by, step |-> "write"]
  /\ files' = [files EXCEPT ![heap[d].short] = Broken]
  /\ UNCHANGED <<zbTask, asks>>

SaveOpen ==
  /\ zbTask.dev # Null /\ save.step = "idle"
  /\ LET d == zbTask.dev
     IN IF heap[d].short = Unknown THEN TaskEnds(d) /\ UNCHANGED <<save, files>>
        ELSE OpenFile(d, "zb")
  /\ UNCHANGED <<heap, table, guid, loading, index, air, crashes>>

\* The HTTP task found the device a client renamed.
WebSave(d) ==
  /\ "web" \in Allow /\ save.step = "idle" /\ loading = {}
  /\ d \in Devices(table) /\ heap[d].short # Unknown
  /\ OpenFile(d, "web")
  /\ UNCHANGED <<heap, table, guid, loading, index, air, crashes>>

SaveWrite ==
  /\ save.step = "write"
  /\ files' = [files EXCEPT ![heap[save.obj].short] = heap[save.obj]]
  /\ save' = [save EXCEPT !.step = "unlink"]
  /\ UNCHANGED <<heap, table, guid, zbTask, asks, loading, index, air, crashes>>

\* update_devices_index: the new index is complete in its .tmp, the old one removed.
SaveUnlink ==
  /\ save.step = "unlink"
  /\ index' = {}
  /\ save' = [save EXCEPT !.step = "rename"]
  /\ UNCHANGED <<heap, table, guid, zbTask, asks, loading, files, air, crashes>>

CollectIndex == {[ieee |-> heap[d].ieee, file |-> heap[d].short] : d \in Devices(table)}

SaveRename ==
  /\ save.step = "rename"
  /\ index' = CollectIndex
  /\ save' = NoSave
  /\ IF save.by = "zb" THEN TaskEnds(save.obj) ELSE UNCHANGED <<zbTask, asks>>
  /\ UNCHANGED <<heap, table, guid, loading, files, air, crashes>>

-----------------------------------------------------------------------------
(* A restart of the host, and zbm_load_all_devices_from_spiffs_and_restore. *)

Crash ==
  /\ crashes < MaxCrashes
  /\ heap' = <<>> /\ table' = Empty /\ guid' = [a \in Addr |-> Null]
  /\ save' = NoSave /\ zbTask' = NoTask /\ asks' = {} /\ sig' = <<>>
  /\ loading' = index
  /\ crashes' = crashes + 1
  /\ UNCHANGED <<disk, net, stage, joins, reports, shared>>

\* A plausible slip: the first file that cannot be read ends the restore.
LoadEntryOrStop(e) ==
  /\ e \in loading /\ loading' = IF Readable(e.file) THEN loading \ {e} ELSE {}
  /\ LET f == files[e.file]
     IN IF ~ Readable(e.file) \/ FindIeee(e.ieee) # Null
        THEN UNCHANGED <<heap, table, guid>>
        ELSE /\ heap' = Append(heap, f)
             /\ table' = Link(table, Len(heap) + 1, hash_short(f.short))
             /\ guid' = UpdateGuids(guid, Len(heap) + 1, f.short, f.desc)
  /\ UNCHANGED <<save, zbTask, asks, disk, air, crashes>>

\* An entry is skipped when its file cannot be read or its IEEE address is known; the
\* device restored is the one the file describes.
LoadEntry(e) ==
  /\ e \in loading /\ loading' = loading \ {e}
  /\ LET f == files[e.file]
         d == Len(heap) + 1
     IN IF ~ Readable(e.file) \/ FindIeee(e.ieee) # Null
        THEN UNCHANGED <<heap, table, guid>>
        ELSE /\ heap' = Append(heap, f)
             /\ table' = Link(table, d, hash_short(f.short))
             /\ guid' = UpdateGuids(guid, d, f.short, f.desc)
  /\ UNCHANGED <<save, zbTask, asks, disk, air, crashes>>

-----------------------------------------------------------------------------
Network ==
  \E i \in Ieee :
    \/ EmitUpdate(i) \/ EmitAuthorized(i) \/ EmitReport(i) \/ Leave(i)
    \/ \E a \in Addr : Associate(i, a) \/ Rejoin(i, a)

Handle == \/ HandleAssociated \/ HandleUpdate \/ HandleAuthorized \/ HandleReport
          \/ \E q \in asks : ActiveEpResp(q) \/ SimpleDescResp(q) \/ AnswerFails(q)

Save == SaveOpen \/ SaveWrite \/ SaveUnlink \/ SaveRename

Next == \/ Network \/ Handle \/ Save
        \/ \E d \in Devices(table) : WebSave(d)
        \/ Crash
        \/ \E e \in loading : LoadEntry(e)

Spec == Init /\ [][Next]_vars

\* esp_zb_task handles messages and begins its saves, though the lock it needs may be
\* taken again and again (waiters of the mutex are served); a save begun and the restore after
\* a restart go on, and a device that joins goes through with it.
Fairness ==
  /\ SF_vars(Handle) /\ SF_vars(SaveOpen) /\ WF_vars(Save)
  /\ WF_vars(\E e \in loading : LoadEntry(e))
  /\ \A i \in Ieee : WF_vars(EmitUpdate(i)) /\ WF_vars(EmitAuthorized(i))

FairSpec == Spec /\ Fairness

-----------------------------------------------------------------------------
(* Properties.                                                             *)

\* Every variable has its type: shapes of the table, of the copy in flash and of the
\* work in progress.
TypeOK ==
  /\ heap \in Seq(Device)
  /\ table \in [Bucket -> Seq(DOMAIN heap)]
  /\ guid \in [Addr -> DOMAIN heap \cup {Null}]
  /\ files \in [Addr \cup {Unknown} -> {NoFile, Broken} \cup Device]
  /\ index \subseteq Entry
  /\ save \in Saving /\ save.obj \in DOMAIN heap \cup {Null}
  /\ zbTask \in [dev : DOMAIN heap \cup {Null}, ask : BOOLEAN]
  /\ asks \subseteq Asked /\ \A q \in asks : q.ctx \in DOMAIN heap
  /\ loading \subseteq Entry
  /\ sig \in Seq(Signal)
  /\ net \in [Ieee -> Addr \cup {Unknown}]
  /\ stage \in [Ieee -> {"out", "associated", "updated", "in"}]
  /\ joins \in Nat /\ reports \in Nat /\ crashes \in Nat /\ shared \subseteq Ieee

\* The table is sound: a device is in it at most once, in the bucket of the address it
\* has now, and no two devices in it share an IEEE or a known short address, so that a
\* search by either finds the one device meant.
TableSound ==
  /\ \A p \in Place(table) : p[1] = hash_short(heap[DeviceAt(table, p)].short)
  /\ \A p, q \in Place(table) :
       LET x == heap[DeviceAt(table, p)]
           y == heap[DeviceAt(table, q)]
       IN p # q => /\ x.ieee # y.ieee
                   /\ x.short = y.short => x.short = Unknown

\* A device that was created can still be found: moving it to another bucket never
\* drops a node for good.
NoneLost == \A d \in DOMAIN heap : d \in Devices(table)

\* What a file says agrees with what the index says of it: a restart never restores one
\* device in the place of another.
IndexTruthful ==
  \A e \in index : Readable(e.file) => files[e.file].ieee = e.ieee

\* Endpoints and clusters of a device are those the device itself reported, however its
\* address changed between question and answer.  Only devices that had to share an address
\* may be taken for each other: one was given it while the host still had it for the other.
DescribedByItself == \A d \in DOMAIN heap :
  heap[d].desc \in {NoDev, heap[d].ieee} \/ {heap[d].ieee, heap[d].desc} \subseteq shared

\* GUIDs under the present address of a device never lead into another device.
GuidsOwn ==
  \A d \in Devices(table) : heap[d].short # Unknown => guid[heap[d].short] \in {Null, d}

\* Devices that had to share an address: the host may take one of them for the other.
Shares(i) == "reuse" \in Allow /\ i \in shared

\* Between two messages the copy in flash is complete: a restart would read back every
\* device with an address, under that address and with its description, but for devices
\* that had to share one.
FlashComplete ==
  Ready => \A d \in Devices(table) : heap[d].short # Unknown /\ ~Shares(heap[d].ieee) =>
             /\ files[heap[d].short] = heap[d]
             /\ [ieee |-> heap[d].ieee, file |-> heap[d].short] \in index

\* Once a restart has read the index, every device with a readable file is back.
ReadBack ==
  loading = {} => \A e \in index : Readable(e.file) => FindIeee(e.ieee) # Null

RecordedIn(i, a) ==
  [ieee |-> i, file |-> a] \in index /\ Readable(a) /\ files[a].ieee = i

\* The record of a device in flash survives every step, restarts and saves of other
\* devices included, but for the two that open a window: that very file is opened for
\* writing, or the old index is removed.  A device saved under a new address keeps its old
\* record until then.
RecordKept ==
  [][\A i \in Ieee, a \in Addr : RecordedIn(i, a) =>
       \/ RecordedIn(i, a)'
       \/ save'.step = "write" /\ heap[save'.obj].short = a
       \/ save.step = "unlink"]_vars

\* A restart restores a device once: no two devices of the table have one IEEE address.
RestoredOnce ==
  \A d, e \in Devices(table) : heap[d].ieee = heap[e].ieee => d = e

\* While the host was not restarted, once the signals of a device that is in are handled
\* the base has the address the device really has, unless it had to share it.  Where devices
\* may join through a router the base may not know it at all; JoinLearned says when it does.
KnownAddress == \A i \in Ieee :
  stage[i] = "in" /\ Ready /\ sig = <<>> /\ crashes = 0 /\ ~Shares(i) =>
    IF FindIeee(i) = Null THEN "router" \in Allow ELSE heap[FindIeee(i)].short = net[i]

InQueue(kind, i) == \E n \in DOMAIN sig : sig[n].kind = kind /\ sig[n].ieee = i

\* i joins or moves to a; the base knows it, or will hear of its association.
Coming(i, a) ==
  /\ net[i] = a /\ (stage[i] = "associated" \/ InQueue("update", i))
  /\ FindIeee(i) # Null \/ InQueue("assoc", i)

\* A device that joins or moves, and that the base knows or hears the association of, comes to
\* be known under its address, unless it leaves it, shares it, or the host restarts.  One that
\* joins through a router, or while the host restarts, may stay unknown: its update is dropped.
JoinLearned ==
  \A i \in Ieee, a \in Addr, c \in 0..MaxCrashes :
    (Coming(i, a) /\ crashes = c)
      ~> \/ FindIeee(i) # Null /\ heap[FindIeee(i)].short = a
         \/ net[i] # a \/ crashes # c \/ Shares(i)

Book == INSTANCE AddressBook WITH
  book <- [i \in Ieee |-> IF FindIeee(i) = Null THEN Absent ELSE heap[FindIeee(i)].short]

\* The base keeps the promise of the address book.
IsAddressBook == Book!Spec
=============================================================================
