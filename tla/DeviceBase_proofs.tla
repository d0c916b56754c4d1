-------------------------- MODULE DeviceBase_proofs --------------------------
(***************************************************************************)
(* What the device base keeps, for every number of devices and addresses,  *)
(* bound and size of the table.                                            *)
(*                                                                         *)
(*   BaseInv   holds whatever the environment does: types, the steps of a  *)
(*             save, and what a restart reads.                             *)
(*   MixInv    holds whatever the environment does: only devices that had  *)
(*             to share an address are taken for each other.               *)
(*   SeqParts  holds while joins come one at a time and the network gives  *)
(*             out no address the host has for another device, up to the   *)
(*             first restart, and after it when the HTTP task saves none.  *)
(*                                                                         *)
(* Each part of the three has a lemma that every step keeps it; the        *)
(* theorems draw on them.                                                  *)
(***************************************************************************)
EXTENDS DeviceBase, DeviceTable_proofs

-----------------------------------------------------------------------------
(* Devices, and the searches for one.                                      *)

LEMMA Addresses ==
  /\ Addr \subseteq Nat /\ Unknown \in Nat /\ Unknown \notin Addr /\ Absent \notin Addr
  /\ Absent # Unknown
<1>1. Unknown \in Nat /\ Absent \in Nat /\ Absent # Unknown
  BY DEF Unknown, Absent
<1> QED
  BY <1>1, BaseAssumption

LEMMA HeapIs ==
  ASSUME TypeOK
  PROVE  /\ Len(heap) \in Nat /\ DOMAIN heap = 1 .. Len(heap)
         /\ \A d \in DOMAIN heap : /\ d \in Nat /\ d # Null
                                   /\ heap[d] \in Device /\ heap[d].ieee \in Ieee
                                   /\ heap[d].short \in Addr \cup {Unknown}
                                   /\ heap[d].desc \in Ieee \cup {NoDev}
         /\ Null \notin DOMAIN heap
         /\ table \in TableOf(DOMAIN heap) /\ Devices(table) \subseteq DOMAIN heap
<1>1. heap \in Seq(Device) /\ table \in TableOf(DOMAIN heap)
  BY DEF TypeOK, TableOf
<1>2. /\ Len(heap) \in Nat /\ DOMAIN heap = 1 .. Len(heap)
      /\ \A d \in DOMAIN heap : heap[d] \in Device
  BY <1>1
<1>3. Devices(table) \subseteq DOMAIN heap
  BY <1>1, DevicesAre
<1> QED
  BY <1>1, <1>2, <1>3 DEF Device, Null

\* A search finds a device of the table under the address, or there is none.
LEMMA Searches ==
  ASSUME TypeOK
  PROVE  /\ \A a : \/ FindShort(a) = Null /\ \A d \in Devices(table) : heap[d].short # a
                   \/ /\ FindShort(a) # Null /\ FindShort(a) \in Devices(table)
                      /\ FindShort(a) \in DOMAIN heap /\ heap[FindShort(a)].short = a
         /\ \A i : \/ FindIeee(i) = Null /\ \A d \in Devices(table) : heap[d].ieee # i
                   \/ /\ FindIeee(i) # Null /\ FindIeee(i) \in Devices(table)
                      /\ FindIeee(i) \in DOMAIN heap /\ heap[FindIeee(i)].ieee = i
<1>1. table \in TableOf(DOMAIN heap) /\ Null \notin DOMAIN heap /\ Devices(table) \subseteq DOMAIN heap
  BY HeapIs
<1>2. \A D : \/ Find(table, D) = Null /\ Devices(table) \cap D = {}
             \/ Find(table, D) # Null /\ Find(table, D) \in Devices(table) \cap D
  BY <1>1, FindIs
<1>3. ASSUME NEW a
      PROVE  \/ FindShort(a) = Null /\ \A d \in Devices(table) : heap[d].short # a
             \/ /\ FindShort(a) # Null /\ FindShort(a) \in Devices(table)
                /\ FindShort(a) \in DOMAIN heap /\ heap[FindShort(a)].short = a
  BY <1>1, <1>2 DEF FindShort, AtShort
<1>4. ASSUME NEW i
      PROVE  \/ FindIeee(i) = Null /\ \A d \in Devices(table) : heap[d].ieee # i
             \/ /\ FindIeee(i) # Null /\ FindIeee(i) \in Devices(table)
                /\ FindIeee(i) \in DOMAIN heap /\ heap[FindIeee(i)].ieee = i
  BY <1>1, <1>2 DEF FindIeee, OfIeee
<1> QED
  BY <1>3, <1>4

LEMMA HashTyped == \A a \in Addr \cup {Unknown} : hash_short(a) \in Bucket
<1>1. \A a \in Nat : hash_short(a) \in Bucket
  BY HashAssumption DEF hash_short, Bucket
<1> QED
  BY <1>1, Addresses

LEMMA HolderTyped == \A a : Holder(a) \in Ieee \cup {NoDev}
BY DEF Holder

-----------------------------------------------------------------------------
(* The parts of the invariant that hold whatever the environment does.     *)

\* A device has an address in the network while it is in it.
NetInv == \A i \in Ieee : stage[i] = "out" <=> net[i] = Unknown

\* The save in progress and what it has done to the disk so far; a restore has nothing to
\* compete with; who asks or will ask has an address; a file holds the device it is named for.
SaveInv ==
  /\ save.step # "idle" => save.obj \in DOMAIN heap /\ heap[save.obj].short \in Addr
  /\ save.step # "idle" /\ save.by = "zb" => save.obj = zbTask.dev
  /\ save.by = "web" => "web" \in Allow
  /\ save.step = "write" => files[heap[save.obj].short] = Broken
  /\ save.step \in {"unlink", "rename"} => files[heap[save.obj].short] = heap[save.obj]
  /\ save.step = "rename" => index = {}

RestInv ==
  /\ loading # {} => save = NoSave /\ zbTask = NoTask /\ asks = {}
  /\ loading \subseteq index
  /\ crashes = 0 => loading = {}
  /\ zbTask.dev = Null => zbTask = NoTask
  /\ zbTask.ask => heap[zbTask.dev].short \in Addr
  /\ \A q \in asks : heap[q.ctx].short \in Addr
  /\ \A a \in DOMAIN files : Readable(a) => a \in Addr /\ files[a].short = a

BaseInv == TypeOK /\ NetInv /\ SaveInv /\ RestInv

-----------------------------------------------------------------------------
(* Types.                                                                  *)

LEMMA GivenTyped ==
  ASSUME TypeOK, NEW i \in Ieee, NEW a \in Addr, Given(i, a)
  PROVE  net' = [net EXCEPT ![i] = a] /\ shared' \subseteq Ieee
<1>1. \A d \in DOMAIN heap : heap[d].ieee \in Ieee
  BY HeapIs
<1>2. \A e \in index : e.ieee \in Ieee
  BY DEF TypeOK, Entry
<1>3. \A n \in DOMAIN sig : sig[n].ieee \in Ieee
  <2>1. \A n \in DOMAIN sig : sig[n] \in Signal
    BY DEF TypeOK
  <2> QED
    BY <2>1 DEF Signal
<1>4. Readable(a) => files[a].ieee \in Ieee
  BY DEF TypeOK, Readable, Device
<1>5. HostHas(a) \subseteq Ieee
  BY <1>1, <1>2, <1>3 DEF HostHas, AtShort
<1> QED
  BY <1>4, <1>5 DEF Given, TypeOK

LEMMA NetworkTyped ==
  ASSUME TypeOK, NetInv, Network
  PROVE  TypeOK'
<1>1. PICK i \in Ieee :
        \/ EmitUpdate(i) \/ EmitAuthorized(i) \/ EmitReport(i) \/ Leave(i)
        \/ \E a \in Addr : Associate(i, a) \/ Rejoin(i, a)
  BY DEF Network
<1>2. stage[i] # "out" => net[i] \in Addr
  BY DEF TypeOK, NetInv
<1> USE DEF TypeOK, host, disk, Send, Signal
<1>3. CASE EmitUpdate(i)
  BY <1>2, <1>3 DEF EmitUpdate
<1>4. CASE EmitAuthorized(i)
  BY <1>2, <1>4 DEF EmitAuthorized
<1>5. CASE EmitReport(i)
  BY <1>2, <1>5 DEF EmitReport
<1>6. CASE Leave(i)
  BY <1>6 DEF Leave
<1>7. ASSUME NEW a \in Addr, Associate(i, a) PROVE TypeOK'
  <2>1. net' = [net EXCEPT ![i] = a] /\ shared' \subseteq Ieee
    BY <1>7, GivenTyped DEF Associate
  <2> QED
    BY <1>7, <2>1 DEF Associate
<1>8. ASSUME NEW a \in Addr, Rejoin(i, a) PROVE TypeOK'
  BY <1>8, GivenTyped DEF Rejoin
<1> QED
  BY <1>1, <1>3, <1>4, <1>5, <1>6, <1>7, <1>8

LEMMA SignalRead ==
  ASSUME TypeOK, NEW kind, Received(kind)
  PROVE  /\ Head(sig) \in Signal /\ Head(sig).ieee \in Ieee /\ Head(sig).addr \in Addr
         /\ sig' = Tail(sig) /\ sig' \in Seq(Signal) /\ sig # <<>>
         /\ UNCHANGED <<save, loading, disk, net, stage, joins, reports, shared, crashes>>
         /\ save.step = "idle" /\ zbTask = NoTask /\ loading = {}
<1>1. sig \in Seq(Signal) /\ sig # <<>>
  BY DEF TypeOK, Received
<1>2. Head(sig) \in Signal /\ Tail(sig) \in Seq(Signal)
  BY <1>1
<1> QED
  BY <1>1, <1>2 DEF Received, Ready, Signal

\* A device more: the tables and references there were are still well typed.
LEMMA HeapGrows ==
  ASSUME TypeOK, NEW x \in Device, heap' = Append(heap, x)
  PROVE  /\ heap' \in Seq(Device) /\ Len(heap) + 1 \in DOMAIN heap'
         /\ DOMAIN heap' = DOMAIN heap \cup {Len(heap) + 1}
         /\ Len(heap) + 1 \notin DOMAIN heap
         /\ heap'[Len(heap) + 1] = x
         /\ \A d \in DOMAIN heap : heap'[d] = heap[d]
         /\ TableOf(DOMAIN heap) \subseteq TableOf(DOMAIN heap')
<1>1. heap \in Seq(Device) /\ Len(heap) \in Nat /\ DOMAIN heap = 1 .. Len(heap)
  BY HeapIs DEF TypeOK
<1>2. /\ heap' \in Seq(Device) /\ Len(heap') = Len(heap) + 1 /\ DOMAIN heap' = 1 .. Len(heap) + 1
      /\ heap'[Len(heap) + 1] = x
      /\ \A d \in 1 .. Len(heap) : heap'[d] = heap[d]
  BY <1>1, AppendProperties, LenProperties
<1>3. DOMAIN heap \subseteq DOMAIN heap'
  BY <1>1, <1>2
<1>4. TableOf(DOMAIN heap) \subseteq TableOf(DOMAIN heap')
  BY <1>3, SeqMonotonic DEF TableOf
<1> QED
  BY <1>1, <1>2, <1>4

LEMMA AssociatedTyped ==
  ASSUME TypeOK, HandleAssociated
  PROVE  TypeOK'
<1>1. Received("assoc")
  BY DEF HandleAssociated
<1> DEFINE i == Head(sig).ieee
           x == [ieee |-> i, short |-> Unknown, desc |-> NoDev]
           d == Len(heap) + 1
<1>2. /\ i \in Ieee /\ sig' \in Seq(Signal)
      /\ UNCHANGED <<save, loading, disk, net, stage, joins, reports, shared, crashes>>
      /\ UNCHANGED <<guid, zbTask, asks>>
  BY <1>1, SignalRead DEF HandleAssociated
<1>3. CASE UNCHANGED <<heap, table>>
  BY <1>2, <1>3 DEF TypeOK, disk
<1>4. CASE heap' = Append(heap, x) /\ table' = Link(table, d, hash_short(Unknown))
  <2>1. x \in Device
    BY <1>2 DEF Device
  <2>2. /\ heap' \in Seq(Device) /\ d \in DOMAIN heap' /\ DOMAIN heap \subseteq DOMAIN heap'
        /\ table \in TableOf(DOMAIN heap')
    BY <1>4, <2>1, HeapGrows, HeapIs
  <2>3. table' \in TableOf(DOMAIN heap')
    BY <1>4, <2>2, LinkAdds, HashTyped
  <2> HIDE DEF x, d
  <2> QED
    BY <1>2, <2>2, <2>3 DEF TypeOK, TableOf, disk
<1> QED
  BY <1>3, <1>4 DEF HandleAssociated

LEMMA UpdateGuidsTyped ==
  ASSUME NEW S, NEW g \in [Addr -> S \cup {Null}], NEW d \in S, NEW a, NEW desc
  PROVE  UpdateGuids(g, d, a, desc) \in [Addr -> S \cup {Null}]
BY DEF UpdateGuids

LEMMA MoveTyped ==
  ASSUME TypeOK, NEW d \in DOMAIN heap, NEW a \in Addr, UpdateShort(d, a)
  PROVE  /\ heap' \in Seq(Device) /\ DOMAIN heap' = DOMAIN heap
         /\ table' \in TableOf(DOMAIN heap)
         /\ guid' \in [Addr -> DOMAIN heap \cup {Null}]
         /\ zbTask' \in [dev : DOMAIN heap \cup {Null}, ask : BOOLEAN]
         /\ \A e \in DOMAIN heap : heap'[e].ieee = heap[e].ieee /\ heap'[e].desc = heap[e].desc
         /\ \A e \in DOMAIN heap : heap'[e].short \in {heap[e].short, a}
         /\ \A e \in DOMAIN heap \ {d} : heap'[e] = heap[e]
         /\ \/ UNCHANGED <<heap, zbTask>>
            \/ heap' = [heap EXCEPT ![d].short = a] /\ zbTask' = [dev |-> d, ask |-> FALSE]
<1> DEFINE c  == FindShort(a)
           t0 == IF c \in {Null, d} THEN table ELSE Unlink(table, AtShort(a))
           g0 == IF c \in {Null, d} THEN guid ELSE [guid EXCEPT ![a] = Null]
           t1 == Unlink(t0, AtShort(heap[d].short))
           b  == hash_short(a)
<1>1. /\ heap \in Seq(Device) /\ table \in TableOf(DOMAIN heap)
      /\ guid \in [Addr -> DOMAIN heap \cup {Null}]
      /\ zbTask \in [dev : DOMAIN heap \cup {Null}, ask : BOOLEAN]
  BY DEF TypeOK, TableOf
<1>2. t0 \in TableOf(DOMAIN heap)
  BY <1>1, UnlinkTyped
<1>3. t1 \in TableOf(DOMAIN heap)
  BY <1>2, UnlinkTyped
<1>4. g0 \in [Addr -> DOMAIN heap \cup {Null}]
  BY <1>1
<1>5. b \in Bucket
  BY HashTyped
<1>6. Link(t1, d, b) \in TableOf(DOMAIN heap)
  BY <1>3, <1>5, LinkAdds
<1>7. UpdateGuids(g0, d, a, heap[d].desc) \in [Addr -> DOMAIN heap \cup {Null}]
  BY <1>4, UpdateGuidsTyped
<1>8. /\ [heap EXCEPT ![d].short = a] \in Seq(Device)
      /\ DOMAIN [heap EXCEPT ![d].short = a] = DOMAIN heap
      /\ \A e \in DOMAIN heap \ {d} : [heap EXCEPT ![d].short = a][e] = heap[e]
      /\ [heap EXCEPT ![d].short = a][d] = [heap[d] EXCEPT !.short = a]
  <2>1. [heap[d] EXCEPT !.short = a] \in Device
    BY HeapIs DEF Device
  <2> QED
    BY <1>1, <2>1, HeapIs
<1>9. \/ table' = t1 /\ guid' = g0 /\ UNCHANGED <<heap, zbTask>>
      \/ /\ heap' = [heap EXCEPT ![d].short = a]
         /\ table' = Link(t1, d, b)
         /\ guid' = UpdateGuids(g0, d, a, heap[d].desc)
         /\ zbTask' = [dev |-> d, ask |-> FALSE]
  BY DEF UpdateShort
<1> HIDE DEF t1, g0, b
<1>10. CASE table' = t1 /\ guid' = g0 /\ UNCHANGED <<heap, zbTask>>
  BY <1>1, <1>3, <1>4, <1>10
<1>11. CASE /\ heap' = [heap EXCEPT ![d].short = a]
            /\ table' = Link(t1, d, b)
            /\ guid' = UpdateGuids(g0, d, a, heap[d].desc)
            /\ zbTask' = [dev |-> d, ask |-> FALSE]
  <2>1. heap'[d] = [heap[d] EXCEPT !.short = a]
    BY <1>8, <1>11
  <2>2. heap'[d].ieee = heap[d].ieee /\ heap'[d].desc = heap[d].desc /\ heap'[d].short = a
    BY <2>1, HeapIs DEF Device
  <2> QED
    BY <1>6, <1>7, <1>8, <1>11, <2>2
<1> QED
  BY <1>9, <1>10, <1>11

LEMMA UpdateTyped ==
  ASSUME TypeOK, HandleUpdate
  PROVE  TypeOK'
<1>1. Received("update")
  BY DEF HandleUpdate
<1> DEFINE d == FindIeee(Head(sig).ieee)
           a == Head(sig).addr
<1>2. /\ a \in Addr /\ sig' \in Seq(Signal)
      /\ UNCHANGED <<save, loading, disk, net, stage, joins, reports, shared, crashes>>
      /\ UNCHANGED asks
  BY <1>1, SignalRead DEF HandleUpdate
<1>3. CASE UNCHANGED <<heap, table, guid, zbTask>>
  BY <1>2, <1>3 DEF TypeOK, disk
<1>4. CASE d # Null /\ UpdateShort(d, a)
  <2>1. d \in DOMAIN heap
    BY <1>4, Searches
  <2>2. /\ heap' \in Seq(Device) /\ DOMAIN heap' = DOMAIN heap
        /\ table' \in TableOf(DOMAIN heap)
        /\ guid' \in [Addr -> DOMAIN heap \cup {Null}]
        /\ zbTask' \in [dev : DOMAIN heap \cup {Null}, ask : BOOLEAN]
    BY <1>2, <1>4, <2>1, MoveTyped
  <2> QED
    BY <1>2, <2>2 DEF TypeOK, TableOf, disk
<1> QED
  BY <1>3, <1>4 DEF HandleUpdate
LEMMA AuthorizedTyped ==
  ASSUME TypeOK, HandleAuthorized
  PROVE  TypeOK'
<1>1. Received("auth")
  BY DEF HandleAuthorized
<1> DEFINE a == Head(sig).addr
           q == [ctx |-> FindShort(a), step |-> "ep", of |-> Holder(a)]
<1>2. /\ sig' \in Seq(Signal)
      /\ UNCHANGED <<save, loading, disk, net, stage, joins, reports, shared, crashes>>
      /\ UNCHANGED <<heap, table, guid, zbTask>>
  BY <1>1, SignalRead DEF HandleAuthorized
<1>3. FindShort(a) # Null => FindShort(a) \in DOMAIN heap /\ FindShort(a) \in Nat
  BY Searches, HeapIs
<1>4. FindShort(a) # Null => q \in Asked
  BY <1>3, HolderTyped DEF Asked
<1>5. asks' = asks \/ (FindShort(a) # Null /\ asks' = asks \cup {q})
  BY DEF HandleAuthorized
<1>6. asks' \subseteq Asked /\ \A r \in asks' : r.ctx \in DOMAIN heap
  BY <1>3, <1>4, <1>5 DEF TypeOK
<1> HIDE DEF q
<1> QED
  BY <1>2, <1>6 DEF TypeOK, disk

LEMMA ReportTyped ==
  ASSUME TypeOK, HandleReport
  PROVE  TypeOK'
<1>1. Received("report")
  BY DEF HandleReport
<1> DEFINE a == Head(sig).addr
           d == FindShort(a)
           x == [heap[d] EXCEPT !.desc = Head(sig).ieee]
<1>2. /\ sig' \in Seq(Signal) /\ Head(sig).ieee \in Ieee /\ a \in Addr
      /\ UNCHANGED <<save, loading, disk, net, stage, joins, reports, shared, crashes>>
      /\ UNCHANGED <<table, asks>>
  BY <1>1, SignalRead DEF HandleReport
<1>3. CASE UNCHANGED <<heap, guid, zbTask>>
  BY <1>2, <1>3 DEF TypeOK, disk
<1>4. CASE /\ d # Null
           /\ heap' = [heap EXCEPT ![d].desc = Head(sig).ieee]
           /\ guid' = [guid EXCEPT ![a] = IF @ = Null THEN d ELSE @]
           /\ zbTask' = [dev |-> d, ask |-> FALSE]
  <2>1. d \in DOMAIN heap
    BY <1>4, Searches
  <2>2. x \in Device
    BY <1>2, <2>1, HeapIs DEF Device
  <2>3. heap' \in Seq(Device) /\ DOMAIN heap' = DOMAIN heap
    BY <1>4, <2>1, <2>2 DEF TypeOK
  <2>4. /\ guid' \in [Addr -> DOMAIN heap \cup {Null}]
        /\ zbTask' \in [dev : DOMAIN heap \cup {Null}, ask : BOOLEAN]
    BY <1>4, <2>1 DEF TypeOK
  <2> QED
    BY <1>2, <2>3, <2>4 DEF TypeOK, disk
<1> QED
  BY <1>3, <1>4 DEF HandleReport

LEMMA AnswerTyped ==
  ASSUME TypeOK, NEW q \in asks, ActiveEpResp(q) \/ SimpleDescResp(q) \/ AnswerFails(q)
  PROVE  TypeOK'
<1> DEFINE d == Addressee(q)
           a == heap[q.ctx].short
           x == [heap[d] EXCEPT !.desc = q.of]
<1>1. /\ asks' = asks \ {q}
      /\ UNCHANGED <<table, save, loading, disk, air, crashes>>
  BY DEF ActiveEpResp, SimpleDescResp, AnswerFails, AnswerFrom
<1>2. asks' \subseteq Asked /\ (\A r \in asks' : r.ctx \in DOMAIN heap) /\ q.of \in Ieee \cup {NoDev}
  BY <1>1 DEF TypeOK, Asked
<1>3. d # Null => d \in DOMAIN heap
  BY Searches DEF Addressee
<1>4. CASE UNCHANGED <<heap, guid, zbTask>>
  BY <1>1, <1>2, <1>4 DEF TypeOK, disk, air
<1>5. CASE ActiveEpResp(q)
  <2>1. zbTask' \in [dev : DOMAIN heap \cup {Null}, ask : BOOLEAN]
    BY <1>3, <1>5 DEF ActiveEpResp, NoTask
  <2>2. UNCHANGED <<heap, guid>>
    BY <1>5 DEF ActiveEpResp
  <2> QED
    BY <1>1, <1>2, <2>1, <2>2 DEF TypeOK, disk, air
<1>6. CASE /\ d # Null
           /\ heap' = [heap EXCEPT ![d].desc = q.of]
           /\ guid' = UpdateGuids(guid, d, a, q.of)
           /\ zbTask' = [dev |-> d, ask |-> FALSE]
  <2>1. d \in DOMAIN heap
    BY <1>3, <1>6
  <2>2. x \in Device
    BY <1>2, <2>1, HeapIs DEF Device
  <2>3. heap' \in Seq(Device) /\ DOMAIN heap' = DOMAIN heap
    BY <1>6, <2>1, <2>2 DEF TypeOK
  <2>4. guid' \in [Addr -> DOMAIN heap \cup {Null}]
    BY <1>6, <2>1, UpdateGuidsTyped DEF TypeOK
  <2>5. zbTask' \in [dev : DOMAIN heap \cup {Null}, ask : BOOLEAN]
    BY <1>6, <2>1
  <2> QED
    BY <1>1, <1>2, <2>3, <2>4, <2>5 DEF TypeOK, disk, air
<1> QED
  BY <1>4, <1>5, <1>6 DEF SimpleDescResp, AnswerFails

LEMMA TaskEndsTyped ==
  ASSUME TypeOK, NEW d \in DOMAIN heap, TaskEnds(d)
  PROVE  /\ zbTask' \in [dev : DOMAIN heap \cup {Null}, ask : BOOLEAN]
         /\ asks' \subseteq Asked /\ \A q \in asks' : q.ctx \in DOMAIN heap
<1> DEFINE q == [ctx |-> d, step |-> "desc", of |-> Holder(heap[d].short)]
<1>1. q \in Asked
  BY HolderTyped, HeapIs DEF Asked
<1>2. asks' \subseteq asks \cup {q}
  BY DEF TaskEnds
<1>3. q.ctx = d
  OBVIOUS
<1> HIDE DEF q
<1> QED
  BY <1>1, <1>2, <1>3 DEF TaskEnds, NoTask, TypeOK

LEMMA OpenTyped ==
  ASSUME TypeOK, NEW d \in DOMAIN heap, NEW by \in {"zb", "web"}, OpenFile(d, by)
  PROVE  /\ save' \in Saving /\ save'.obj \in DOMAIN heap
         /\ files' \in [Addr \cup {Unknown} -> {NoFile, Broken} \cup Device]
         /\ UNCHANGED <<zbTask, asks>>
BY HeapIs DEF OpenFile, Saving, TypeOK

LEMMA SaveTyped ==
  ASSUME TypeOK, SaveInv, Save \/ \E d \in Devices(table) : WebSave(d)
  PROVE  TypeOK'
<1>1. CASE SaveOpen
  <2>1. zbTask.dev \in DOMAIN heap
    BY <1>1 DEF SaveOpen, TypeOK
  <2>2. UNCHANGED <<heap, table, guid, loading, index, air, crashes>>
    BY <1>1 DEF SaveOpen
  <2>3. CASE TaskEnds(zbTask.dev) /\ UNCHANGED <<save, files>>
    BY <2>1, <2>2, <2>3, TaskEndsTyped DEF TypeOK, air
  <2>4. CASE OpenFile(zbTask.dev, "zb")
    BY <2>1, <2>2, <2>4, OpenTyped DEF TypeOK, air
  <2> QED
    BY <1>1, <2>3, <2>4 DEF SaveOpen
<1>2. ASSUME NEW d \in Devices(table), WebSave(d) PROVE TypeOK'
  <2>1. d \in DOMAIN heap
    BY HeapIs
  <2>2. UNCHANGED <<heap, table, guid, loading, index, air, crashes>> /\ OpenFile(d, "web")
    BY <1>2 DEF WebSave
  <2> QED
    BY <2>1, <2>2, OpenTyped DEF TypeOK, air
<1>3. CASE SaveWrite
  <2>1. /\ save.obj \in DOMAIN heap /\ heap[save.obj] \in Device
        /\ save.by \in {"zb", "web"} /\ save.obj \in Nat
    BY <1>3, HeapIs DEF SaveWrite, SaveInv, TypeOK, Saving
  <2>2. files' \in [Addr \cup {Unknown} -> {NoFile, Broken} \cup Device]
    BY <1>3, <2>1 DEF SaveWrite, TypeOK
  <2>3. save' \in Saving /\ save'.obj \in DOMAIN heap
    BY <1>3, <2>1 DEF SaveWrite, TypeOK, Saving
  <2> QED
    BY <1>3, <2>2, <2>3 DEF SaveWrite, TypeOK, air
<1>4. CASE SaveUnlink
  <2>1. save' \in Saving /\ save'.obj = save.obj
    BY <1>4 DEF SaveUnlink, TypeOK, Saving
  <2> QED
    BY <1>4, <2>1 DEF SaveUnlink, TypeOK, air
<1>5. CASE SaveRename
  <2>1. save.obj \in DOMAIN heap
    BY <1>5 DEF SaveRename, SaveInv
  <2>2. /\ zbTask' \in [dev : DOMAIN heap \cup {Null}, ask : BOOLEAN]
        /\ asks' \subseteq Asked /\ \A q \in asks' : q.ctx \in DOMAIN heap
    BY <1>5, <2>1, TaskEndsTyped DEF SaveRename, TypeOK
  <2>3. \A d \in Devices(table) : [ieee |-> heap[d].ieee, file |-> heap[d].short] \in Entry
    BY HeapIs DEF Entry
  <2>4. index' \subseteq Entry
    BY <1>5, <2>3 DEF SaveRename, CollectIndex
  <2>5. save' \in Saving /\ save'.obj \in DOMAIN heap \cup {Null}
    BY <1>5 DEF SaveRename, NoSave, Saving, Null
  <2> QED
    BY <1>5, <2>2, <2>4, <2>5 DEF SaveRename, TypeOK, air
<1> QED
  BY <1>1, <1>2, <1>3, <1>4, <1>5 DEF Save

LEMMA EmptyHeap ==
  /\ <<>> \in Seq(Device) /\ DOMAIN <<>> = {}
  /\ Empty \in [Bucket -> Seq({})]
  /\ [a \in Addr |-> Null] \in [Addr -> {} \cup {Null}]
BY DEF Empty

LEMMA CrashTyped ==
  ASSUME TypeOK, Crash
  PROVE  TypeOK'
<1>1. /\ heap' \in Seq(Device) /\ DOMAIN heap' = {}
      /\ table' \in [Bucket -> Seq({})]
      /\ guid' \in [Addr -> {} \cup {Null}]
  BY EmptyHeap DEF Crash
<1>2. /\ save' \in Saving /\ save'.obj = Null
      /\ zbTask' \in [dev : {} \cup {Null}, ask : BOOLEAN]
  BY DEF Crash, NoSave, Saving, NoTask, Null
<1>3. sig' \in Seq(Signal) /\ asks' = {} /\ loading' = index
  BY DEF Crash
<1> QED
  BY <1>1, <1>2, <1>3 DEF Crash, TypeOK, disk

LEMMA LoadTyped ==
  ASSUME TypeOK, NEW e \in loading, LoadEntry(e)
  PROVE  TypeOK'
<1> DEFINE f == files[e.file]
           d == Len(heap) + 1
<1>1. UNCHANGED <<save, zbTask, asks, disk, air, crashes>> /\ loading' = loading \ {e}
  BY DEF LoadEntry
<1>2. CASE UNCHANGED <<heap, table, guid>>
  BY <1>1, <1>2 DEF TypeOK, disk, air
<1>3. CASE /\ Readable(e.file)
           /\ heap' = Append(heap, f)
           /\ table' = Link(table, d, hash_short(f.short))
           /\ guid' = UpdateGuids(guid, d, f.short, f.desc)
  <2>1. f \in Device /\ f.short \in Addr \cup {Unknown}
    BY <1>3 DEF TypeOK, Entry, Readable, Device
  <2>2. /\ heap' \in Seq(Device) /\ d \in DOMAIN heap' /\ DOMAIN heap \subseteq DOMAIN heap'
        /\ table \in TableOf(DOMAIN heap')
    BY <1>3, <2>1, HeapGrows, HeapIs
  <2>3. table' \in TableOf(DOMAIN heap')
    BY <1>3, <2>1, <2>2, LinkAdds, HashTyped
  <2>4. guid \in [Addr -> DOMAIN heap' \cup {Null}]
    BY <2>2 DEF TypeOK
  <2>5. guid' \in [Addr -> DOMAIN heap' \cup {Null}]
    BY <1>3, <2>2, <2>4, UpdateGuidsTyped
  <2> HIDE DEF d, f
  <2> QED
    BY <1>1, <2>2, <2>3, <2>5 DEF TypeOK, TableOf, disk, air
<1> QED
  BY <1>2, <1>3 DEF LoadEntry

LEMMA TypesKept ==
  ASSUME TypeOK, NetInv, SaveInv, [Next]_vars
  PROVE  TypeOK'
<1>1. CASE UNCHANGED vars
  BY <1>1 DEF vars, host, disk, air, TypeOK
<1>2. CASE Handle
  BY <1>2, AssociatedTyped, UpdateTyped, AuthorizedTyped, ReportTyped, AnswerTyped DEF Handle
<1> QED
  BY <1>1, <1>2, NetworkTyped, SaveTyped, CrashTyped, LoadTyped DEF Next

-----------------------------------------------------------------------------
(* Addresses in the network.                                               *)

LEMMA NetKept ==
  ASSUME TypeOK, NetInv, [Next]_vars
  PROVE  NetInv'
<1>1. CASE UNCHANGED <<net, stage>>
  BY <1>1 DEF NetInv
<1>2. CASE Network
  <2>1. PICK i \in Ieee :
          \/ EmitUpdate(i) \/ EmitAuthorized(i) \/ EmitReport(i) \/ Leave(i)
          \/ \E a \in Addr : Associate(i, a) \/ Rejoin(i, a)
    BY <1>2 DEF Network
  <2>2. CASE EmitUpdate(i) \/ EmitAuthorized(i) \/ EmitReport(i) \/ Leave(i)
    BY <2>2 DEF NetInv, TypeOK, EmitUpdate, EmitAuthorized, EmitReport, Leave
  <2>3. ASSUME NEW a \in Addr, Associate(i, a) \/ Rejoin(i, a) PROVE NetInv'
    <3>1. CASE Associate(i, a)
      BY <2>3, <3>1, Addresses, GivenTyped DEF NetInv, TypeOK, Associate
    <3>2. CASE Rejoin(i, a)
      BY <2>3, <3>2, Addresses, GivenTyped DEF NetInv, TypeOK, Rejoin
    <3> QED
      BY <2>3, <3>1, <3>2
  <2> QED
    BY <2>1, <2>2, <2>3
<1>3. Handle => UNCHANGED <<net, stage>>
  BY DEF Handle, HandleAssociated, HandleUpdate, HandleAuthorized, HandleReport, Received,
         ActiveEpResp, SimpleDescResp, AnswerFails, AnswerFrom, air
<1>4. Save => UNCHANGED <<net, stage>>
  BY DEF Save, SaveOpen, SaveWrite, SaveUnlink, SaveRename, air
<1>5. /\ \A d : WebSave(d) => UNCHANGED <<net, stage>>
      /\ \A e : LoadEntry(e) => UNCHANGED <<net, stage>>
      /\ Crash => UNCHANGED <<net, stage>>
      /\ UNCHANGED vars => UNCHANGED <<net, stage>>
  BY DEF WebSave, LoadEntry, Crash, vars, air
<1> QED
  BY <1>1, <1>2, <1>3, <1>4, <1>5 DEF Next

-----------------------------------------------------------------------------
(* The save in progress.                                                   *)

\* What a handler starts from and leaves alone.
LEMMA HandlerFrame ==
  ASSUME Handle
  PROVE  /\ save.step = "idle" /\ zbTask = NoTask /\ loading = {}
         /\ UNCHANGED <<save, loading, files, index, net, stage, crashes>>
BY DEF Handle, HandleAssociated, HandleUpdate, HandleAuthorized, HandleReport, Received,
       ActiveEpResp, SimpleDescResp, AnswerFails, AnswerFrom, Ready, disk, air

\* What a handler does to the devices there are: none goes or changes its IEEE address.
LEMMA HandlerHeap ==
  ASSUME TypeOK, Handle
  PROVE  /\ DOMAIN heap \subseteq DOMAIN heap'
         /\ \A d \in DOMAIN heap : /\ heap'[d].ieee = heap[d].ieee
                                   /\ heap[d].short \in Addr => heap'[d].short \in Addr
<1>1. UNCHANGED heap => DOMAIN heap \subseteq DOMAIN heap' /\ \A d \in DOMAIN heap : heap'[d] = heap[d]
  OBVIOUS
<1>2. ASSUME HandleAssociated, ~UNCHANGED heap
      PROVE  DOMAIN heap \subseteq DOMAIN heap' /\ \A d \in DOMAIN heap : heap'[d] = heap[d]
  <2>1. heap' = Append(heap, [ieee |-> Head(sig).ieee, short |-> Unknown, desc |-> NoDev])
    BY <1>2 DEF HandleAssociated
  <2>2. [ieee |-> Head(sig).ieee, short |-> Unknown, desc |-> NoDev] \in Device
    BY <1>2, SignalRead DEF HandleAssociated, Device
  <2> QED
    BY <2>1, <2>2, HeapGrows
<1>3. ASSUME HandleUpdate, ~UNCHANGED heap
      PROVE  /\ DOMAIN heap' = DOMAIN heap
             /\ \A d \in DOMAIN heap : /\ heap'[d].ieee = heap[d].ieee
                                       /\ heap[d].short \in Addr => heap'[d].short \in Addr
  <2> DEFINE d == FindIeee(Head(sig).ieee)
             a == Head(sig).addr
  <2>1. d \in DOMAIN heap /\ UpdateShort(d, a)
    BY <1>3, Searches DEF HandleUpdate
  <2>2. a \in Addr
    BY <1>3, SignalRead DEF HandleUpdate
  <2> QED
    BY <2>1, <2>2, MoveTyped
<1>4. ASSUME NEW d, NEW v, d # Null => d \in DOMAIN heap, d # Null,
             heap' = [heap EXCEPT ![d].desc = v]
      PROVE  /\ DOMAIN heap' = DOMAIN heap
             /\ \A e \in DOMAIN heap : heap'[e].ieee = heap[e].ieee /\ heap'[e].short = heap[e].short
  BY <1>4, HeapIs DEF Device
<1>5. ASSUME HandleReport, ~UNCHANGED heap
      PROVE  /\ DOMAIN heap' = DOMAIN heap
             /\ \A d \in DOMAIN heap : heap'[d].ieee = heap[d].ieee /\ heap'[d].short = heap[d].short
  BY <1>4, <1>5, Searches DEF HandleReport
<1>6. ASSUME NEW q \in asks, SimpleDescResp(q), ~UNCHANGED heap
      PROVE  /\ DOMAIN heap' = DOMAIN heap
             /\ \A d \in DOMAIN heap : heap'[d].ieee = heap[d].ieee /\ heap'[d].short = heap[d].short
  BY <1>4, <1>6, Searches DEF SimpleDescResp, Addressee
<1>7. HandleAuthorized => UNCHANGED heap
  BY DEF HandleAuthorized
<1>8. \A q \in asks : ActiveEpResp(q) \/ AnswerFails(q) => UNCHANGED heap
  BY DEF ActiveEpResp, AnswerFails
<1> QED
  BY <1>1, <1>2, <1>3, <1>5, <1>6, <1>7, <1>8 DEF Handle

\* The tasks' work after a handler: the device it saves next has an address if it is to be
\* asked, and so has every device that is asked already.
LEMMA HandlerAsks ==
  ASSUME TypeOK, RestInv, Handle
  PROVE  /\ zbTask'.dev = Null => zbTask' = NoTask
         /\ zbTask'.ask => heap'[zbTask'.dev].short \in Addr
         /\ \A q \in asks' : heap'[q.ctx].short \in Addr
<1>1. /\ zbTask = NoTask
      /\ \A q \in asks : q.ctx \in DOMAIN heap /\ heap[q.ctx].short \in Addr
      /\ \A q \in asks : heap'[q.ctx].short \in Addr
  BY HandlerFrame, HandlerHeap DEF RestInv, TypeOK
<1>2. CASE HandleAssociated
  BY <1>1, <1>2 DEF HandleAssociated, NoTask
<1>3. CASE HandleUpdate
  <2>1. FindIeee(Head(sig).ieee) # Null /\ FindIeee(Head(sig).ieee) \in DOMAIN heap
          => zbTask'.ask = FALSE /\ (zbTask'.dev # Null \/ zbTask' = zbTask)
    BY <1>1, <1>3, MoveTyped, SignalRead DEF HandleUpdate, NoTask
  <2>2. \/ UNCHANGED zbTask
        \/ FindIeee(Head(sig).ieee) # Null /\ FindIeee(Head(sig).ieee) \in DOMAIN heap
    BY <1>3, Searches DEF HandleUpdate
  <2> QED
    BY <1>1, <1>3, <2>1, <2>2 DEF HandleUpdate, NoTask
<1>4. CASE HandleAuthorized
  <2>1. Head(sig).addr \in Addr
    BY <1>4, SignalRead DEF HandleAuthorized
  <2>2. \A q \in asks' : q \in asks \/ (q.ctx = FindShort(Head(sig).addr) /\ q.ctx # Null)
    BY <1>4 DEF HandleAuthorized
  <2>3. UNCHANGED heap /\ UNCHANGED zbTask
    BY <1>4 DEF HandleAuthorized
  <2>4. \A q \in asks' : heap[q.ctx].short \in Addr
    BY <1>1, <2>1, <2>2, Searches
  <2> QED
    BY <1>1, <2>3, <2>4 DEF NoTask
<1>5. CASE HandleReport
  BY <1>1, <1>5 DEF HandleReport, NoTask
<1>6. ASSUME NEW q \in asks, ActiveEpResp(q)
      PROVE  /\ zbTask'.dev = Null => zbTask' = NoTask
             /\ zbTask'.ask => heap'[zbTask'.dev].short \in Addr
  <2>1. Addressee(q) # Null => heap[Addressee(q)].short = heap[q.ctx].short
    BY Searches DEF Addressee
  <2> QED
    BY <1>1, <1>6, <2>1 DEF ActiveEpResp, NoTask
<1>7. ASSUME NEW q \in asks, SimpleDescResp(q) \/ AnswerFails(q)
      PROVE  /\ zbTask'.dev = Null => zbTask' = NoTask
             /\ zbTask'.ask => heap'[zbTask'.dev].short \in Addr
  BY <1>1, <1>7 DEF SimpleDescResp, AnswerFails, NoTask
<1>8. \A q \in asks : ActiveEpResp(q) \/ SimpleDescResp(q) \/ AnswerFails(q) => asks' \subseteq asks
  BY DEF ActiveEpResp, SimpleDescResp, AnswerFails, AnswerFrom
<1> QED
  BY <1>1, <1>2, <1>3, <1>4, <1>5, <1>6, <1>7, <1>8 DEF Handle

LEMMA SaveKept ==
  ASSUME TypeOK, SaveInv, RestInv, [Next]_vars
  PROVE  SaveInv'
<1>1. CASE UNCHANGED <<heap, save, zbTask, disk>>
  BY <1>1 DEF SaveInv, disk
<1>2. Network => UNCHANGED <<heap, save, zbTask, disk>>
  BY DEF Network, EmitUpdate, EmitAuthorized, EmitReport, Leave, Associate, Rejoin, host
<1>3. UNCHANGED vars => UNCHANGED <<heap, save, zbTask, disk>>
  BY DEF vars, host
<1>4. CASE Handle
  BY <1>4, HandlerFrame DEF SaveInv
<1>5. ASSUME NEW d \in DOMAIN heap, NEW by \in {"zb", "web"}, heap[d].short # Unknown,
             OpenFile(d, by), UNCHANGED <<heap, index>>,
             by = "zb" => d = zbTask.dev, by = "web" => "web" \in Allow
      PROVE  SaveInv'
  <2>1. heap[d].short \in Addr
    BY <1>5, HeapIs
  <2>2. save' = [obj |-> d, by |-> by, step |-> "write"] /\ UNCHANGED zbTask
    BY <1>5 DEF OpenFile
  <2>3. files'[heap[d].short] = Broken
    BY <1>5, <2>1 DEF OpenFile, TypeOK
  <2> QED
    BY <1>5, <2>1, <2>2, <2>3 DEF SaveInv
<1>6. CASE SaveOpen
  <2>1. zbTask.dev \in DOMAIN heap /\ UNCHANGED <<heap, index>>
    BY <1>6 DEF SaveOpen, TypeOK
  <2>2. CASE heap[zbTask.dev].short = Unknown
    BY <1>6, <2>2 DEF SaveOpen, SaveInv
  <2>3. CASE heap[zbTask.dev].short # Unknown
    <3>1. OpenFile(zbTask.dev, "zb")
      BY <1>6, <2>3 DEF SaveOpen
    <3> QED
      BY <1>5, <2>1, <2>3, <3>1
  <2> QED
    BY <2>2, <2>3
<1>7. ASSUME NEW d \in Devices(table), WebSave(d) PROVE SaveInv'
  <2>1. /\ d \in DOMAIN heap /\ heap[d].short # Unknown /\ OpenFile(d, "web")
        /\ UNCHANGED <<heap, index>> /\ "web" \in Allow
    BY <1>7, HeapIs DEF WebSave
  <2> QED
    BY <1>5, <2>1
<1>8. CASE SaveWrite
  <2>1. save.obj \in DOMAIN heap /\ heap[save.obj].short \in Addr
    BY <1>8 DEF SaveWrite, SaveInv
  <2>2. /\ save'.obj = save.obj /\ save'.by = save.by /\ save'.step = "unlink"
        /\ UNCHANGED <<heap, zbTask, index>>
    BY <1>8 DEF SaveWrite, TypeOK, Saving
  <2>3. files'[heap[save.obj].short] = heap[save.obj]
    BY <1>8, <2>1 DEF SaveWrite, TypeOK
  <2> QED
    BY <1>8, <2>1, <2>2, <2>3 DEF SaveInv, SaveWrite
<1>9. CASE SaveUnlink
  <2>1. /\ save'.obj = save.obj /\ save'.by = save.by /\ save'.step = "rename"
        /\ UNCHANGED <<heap, zbTask, files>> /\ index' = {}
    BY <1>9 DEF SaveUnlink, TypeOK, Saving
  <2> QED
    BY <1>9, <2>1 DEF SaveInv, SaveUnlink
<1>10. CASE SaveRename
  BY <1>10 DEF SaveRename, SaveInv, NoSave
<1>11. CASE Crash
  BY <1>11 DEF Crash, SaveInv, NoSave
<1>12. ASSUME NEW e \in loading, LoadEntry(e) PROVE SaveInv'
  <2>1. save = NoSave /\ UNCHANGED save
    BY <1>12 DEF RestInv, LoadEntry
  <2> QED
    BY <2>1 DEF SaveInv, NoSave
<1> QED
  BY <1>1, <1>2, <1>3, <1>4, <1>6, <1>7, <1>8, <1>9, <1>10, <1>11, <1>12 DEF Next, Save

LEMMA RestKept ==
  ASSUME TypeOK, SaveInv, RestInv, [Next]_vars
  PROVE  RestInv'
<1>1. CASE UNCHANGED <<heap, save, zbTask, asks, loading, disk, crashes>>
  BY <1>1 DEF RestInv, disk, Readable
<1>2. Network => UNCHANGED <<heap, save, zbTask, asks, loading, disk, crashes>>
  BY DEF Network, EmitUpdate, EmitAuthorized, EmitReport, Leave, Associate, Rejoin, host
<1>3. UNCHANGED vars => UNCHANGED <<heap, save, zbTask, asks, loading, disk, crashes>>
  BY DEF vars, host
<1>4. CASE Handle
  BY <1>4, HandlerFrame, HandlerAsks DEF RestInv, Readable
<1>5. ASSUME NEW d \in DOMAIN heap, NEW by, OpenFile(d, by),
             UNCHANGED <<heap, index, loading, crashes>>, loading = {}
      PROVE  RestInv'
  <2>1. UNCHANGED <<zbTask, asks>>
    BY <1>5 DEF OpenFile
  <2>2. \A a \in DOMAIN files : files'[a] \in {files[a], Broken}
    BY <1>5 DEF OpenFile, TypeOK
  <2>3. DOMAIN files' = DOMAIN files
    BY <1>5 DEF OpenFile
  <2>4. \A a \in DOMAIN files' : Readable(a)' => Readable(a) /\ files'[a] = files[a]
    BY <2>2, <2>3 DEF Readable
  <2> QED
    BY <1>5, <2>1, <2>3, <2>4 DEF RestInv
<1>6. ASSUME TaskEnds(zbTask.dev), zbTask.dev \in DOMAIN heap, UNCHANGED heap
      PROVE  zbTask' = NoTask /\ \A q \in asks' : heap'[q.ctx].short \in Addr
  BY <1>6 DEF TaskEnds, RestInv
<1>7. CASE SaveOpen
  <2>1. /\ zbTask.dev \in DOMAIN heap /\ zbTask # NoTask
        /\ UNCHANGED <<heap, index, loading, crashes>>
    BY <1>7 DEF SaveOpen, TypeOK, NoTask
  <2>2. loading = {}
    BY <2>1 DEF RestInv
  <2>3. CASE OpenFile(zbTask.dev, "zb")
    BY <1>5, <2>1, <2>2, <2>3
  <2>4. CASE TaskEnds(zbTask.dev) /\ UNCHANGED <<save, files>>
    BY <1>6, <2>1, <2>2, <2>4 DEF RestInv, Readable, NoTask
  <2> QED
    BY <1>7, <2>3, <2>4 DEF SaveOpen
<1>8. ASSUME NEW d \in Devices(table), WebSave(d) PROVE RestInv'
  <2>1. d \in DOMAIN heap /\ OpenFile(d, "web") /\ loading = {}
        /\ UNCHANGED <<heap, index, loading, crashes>>
    BY <1>8, HeapIs DEF WebSave
  <2> QED
    BY <1>5, <2>1
<1>9. save.step # "idle" => loading = {}
  BY DEF RestInv, NoSave
<1>10. CASE SaveWrite
  <2>1. /\ save.obj \in DOMAIN heap /\ heap[save.obj].short \in Addr /\ loading = {}
        /\ UNCHANGED <<heap, zbTask, asks, loading, index, crashes>>
    BY <1>9, <1>10 DEF SaveWrite, SaveInv
  <2>2. /\ DOMAIN files' = DOMAIN files
        /\ \A a \in DOMAIN files : a # heap[save.obj].short => files'[a] = files[a]
        /\ files'[heap[save.obj].short] = heap[save.obj]
    BY <1>10, <2>1 DEF SaveWrite, TypeOK
  <2>3. \A a \in DOMAIN files' : Readable(a)' => a \in Addr /\ files'[a].short = a
    BY <2>1, <2>2 DEF RestInv, Readable
  <2> QED
    BY <2>1, <2>3 DEF RestInv
<1>11. CASE SaveUnlink
  <2>1. /\ loading = {} /\ UNCHANGED <<heap, zbTask, asks, loading, files, crashes>>
    BY <1>9, <1>11 DEF SaveUnlink
  <2> QED
    BY <2>1 DEF RestInv, Readable
<1>12. CASE SaveRename
  <2>1. loading = {} /\ UNCHANGED <<heap, loading, files, crashes>>
    BY <1>9, <1>12 DEF SaveRename
  <2>2. CASE save.by = "zb"
    <3>1. TaskEnds(zbTask.dev) /\ zbTask.dev \in DOMAIN heap
      BY <1>12, <2>2 DEF SaveRename, SaveInv
    <3> QED
      BY <1>6, <2>1, <3>1 DEF RestInv, Readable, NoTask
  <2>3. CASE save.by # "zb"
    <3>1. UNCHANGED <<zbTask, asks>>
      BY <1>12, <2>3 DEF SaveRename
    <3> QED
      BY <2>1, <3>1 DEF RestInv, Readable
  <2> QED
    BY <2>2, <2>3
<1>13. CASE Crash
  <2>1. /\ save' = NoSave /\ zbTask' = NoTask /\ asks' = {} /\ loading' = index
        /\ crashes' # 0 /\ UNCHANGED disk
    BY <1>13 DEF Crash, TypeOK
  <2> QED
    BY <2>1 DEF RestInv, Readable, NoTask, disk
<1>14. ASSUME NEW e \in loading, LoadEntry(e) PROVE RestInv'
  <2>1. save = NoSave /\ zbTask = NoTask /\ asks = {} /\ crashes # 0
    BY DEF RestInv
  <2>2. UNCHANGED <<save, zbTask, asks, disk, crashes>> /\ loading' \subseteq loading
    BY <1>14 DEF LoadEntry
  <2> QED
    BY <2>1, <2>2 DEF RestInv, Readable, NoTask, disk
<1> QED
  BY <1>1, <1>2, <1>3, <1>4, <1>7, <1>8, <1>10, <1>11, <1>12, <1>13, <1>14 DEF Next, Save

LEMMA BaseInit == Init => BaseInv
<1> SUFFICES ASSUME Init PROVE BaseInv
  OBVIOUS
<1>1. /\ heap \in Seq(Device) /\ DOMAIN heap = {}
      /\ table \in [Bucket -> Seq({})]
      /\ guid \in [Addr -> {} \cup {Null}]
  BY EmptyHeap DEF Init
<1>2. /\ save \in Saving /\ save.obj = Null
      /\ zbTask \in [dev : {} \cup {Null}, ask : BOOLEAN]
      /\ sig \in Seq(Signal)
  BY DEF Init, NoSave, Saving, NoTask, Null
<1>3. TypeOK
  BY <1>1, <1>2 DEF Init, TypeOK
<1>4. NetInv /\ SaveInv
  BY DEF Init, NetInv, SaveInv, NoSave
<1>5. RestInv
  BY DEF Init, RestInv, NoTask, Readable
<1> QED
  BY <1>3, <1>4, <1>5 DEF BaseInv

LEMMA BaseStep == BaseInv /\ [Next]_vars => BaseInv'
BY TypesKept, NetKept, SaveKept, RestKept DEF BaseInv

\* Every variable has its type in every reachable state, with any number of devices, addresses,
\* buckets, joins that overlap, saves of both tasks and restarts.
THEOREM TypeCorrect == Spec => []TypeOK
<1>1. BaseInv => TypeOK
  BY DEF BaseInv
<1> QED
  BY <1>1, BaseInit, BaseStep, PTL DEF Spec

\* The record of a device in flash goes only with the file that is opened or the index that is
\* removed: whoever saves, and whatever else happens meanwhile, never at the end of a save.
THEOREM RecordsKept == Spec => RecordKept
<1> DEFINE Keeps ==
      \A i \in Ieee, a \in Addr : RecordedIn(i, a) =>
        \/ RecordedIn(i, a)'
        \/ save'.step = "write" /\ heap[save'.obj].short = a
        \/ save.step = "unlink"
<1>1. ASSUME BaseInv, [Next]_vars PROVE Keeps
  <2> SUFFICES ASSUME NEW i \in Ieee, NEW a \in Addr, RecordedIn(i, a),
                      ~(save'.step = "write" /\ heap[save'.obj].short = a), save.step # "unlink"
               PROVE  RecordedIn(i, a)'
    OBVIOUS
  <2>1. CASE UNCHANGED disk
    BY <2>1 DEF RecordedIn, Readable, disk
  <2>2. CASE Handle
    BY <2>2, HandlerFrame DEF RecordedIn, Readable
  <2>3. ASSUME NEW d, NEW by, OpenFile(d, by), UNCHANGED index
        PROVE  RecordedIn(i, a)'
    <3>1. save'.step = "write" /\ save'.obj = d
      BY <2>3 DEF OpenFile
    <3>2. files'[a] = files[a]
      BY <1>1, <2>3, <3>1 DEF OpenFile, TypeOK, BaseInv
    <3> QED
      BY <2>3, <3>2 DEF RecordedIn, Readable
  <2>4. CASE SaveOpen
    BY <2>3, <2>4 DEF SaveOpen, RecordedIn, Readable
  <2>5. ASSUME NEW d, WebSave(d) PROVE RecordedIn(i, a)'
    BY <2>3, <2>5 DEF WebSave
  <2>6. CASE SaveWrite
    <3>1. a # heap[save.obj].short
      BY <1>1, <2>6 DEF SaveWrite, SaveInv, BaseInv, RecordedIn, Readable
    <3>2. files'[a] = files[a] /\ UNCHANGED index
      BY <1>1, <2>6, <3>1 DEF SaveWrite, TypeOK, BaseInv
    <3> QED
      BY <3>2 DEF RecordedIn, Readable
  <2>7. ~SaveUnlink
    BY DEF SaveUnlink
  <2>8. ~SaveRename
    BY <1>1 DEF SaveRename, SaveInv, BaseInv, RecordedIn
  <2>9. Network => UNCHANGED disk
    BY DEF Network, EmitUpdate, EmitAuthorized, EmitReport, Leave, Associate, Rejoin
  <2>10. (UNCHANGED vars => UNCHANGED disk) /\ (Crash => UNCHANGED disk)
         /\ \A e : LoadEntry(e) => UNCHANGED disk
    BY DEF vars, Crash, LoadEntry
  <2> QED
    BY <1>1, <2>1, <2>2, <2>4, <2>5, <2>6, <2>7, <2>8, <2>9, <2>10 DEF Next, Save
<1>2. BaseInv /\ [Next]_vars => [Keeps]_vars
  BY <1>1
<1> QED
  BY <1>2, BaseInit, BaseStep, PTL DEF Spec, RecordKept

-----------------------------------------------------------------------------
(* Joins one at a time.  The invariant of histories in which no join        *)
(* overlaps another and in which, before a restart, only esp_zb_task has   *)
(* saved devices: a save of the HTTP task writes other devices' entries    *)
(* into the index before their files.                                      *)

Apart == "overlap" \notin Allow /\ "reuse" \notin Allow
Tidy     == "web" \notin Allow \/ crashes = 0

Known(i)        == \E d \in DOMAIN heap : heap[d].ieee = i
Is(n, k, i)     == sig[n].kind = k /\ sig[n].ieee = i
Waits(k, i)     == \E n \in DOMAIN sig : Is(n, k, i)
Ahead(m, k, i)  == \E n \in DOMAIN sig : n < m /\ Is(n, k, i)
Behind(m, k, i) == \E n \in DOMAIN sig : m < n /\ Is(n, k, i)

\* Every device allocated is in the table once, in the bucket of its address, and no two
\* have one IEEE address or one short address.
TabInv ==
  /\ Once(table)
  /\ \A d : \A b \in Bucket : InBucket(table, d, b) => b = hash_short(heap[d].short)
  /\ Devices(table) = DOMAIN heap
  /\ \A d, e \in DOMAIN heap :
       d # e => heap[d].ieee # heap[e].ieee /\ (heap[d].short = heap[e].short => heap[d].short = Unknown)

\* Whatever names a device for an address, in the network, in memory, in flash or under way,
\* names the same one.
Claims(i, a) ==
  \/ net[i] = a
  \/ \E d \in DOMAIN heap : heap[d].ieee = i /\ heap[d].short = a
  \/ [ieee |-> i, file |-> a] \in index
  \/ \E n \in DOMAIN sig : sig[n].ieee = i /\ sig[n].addr = a

OneOwner == \A a \in Addr : \A i, j \in Ieee : Claims(i, a) /\ Claims(j, a) => i = j

\* One device is joining at a time; one without an address will still hear of it.
Joining(i) ==
  \/ stage[i] \in {"associated", "updated"}
  \/ \E n \in DOMAIN sig : sig[n].ieee = i /\ sig[n].kind # "report"
UpdatePending(i) == stage[i] = "associated" \/ Waits("update", i)

JoinInv ==
  /\ \A i, j \in Ieee : Joining(i) /\ Joining(j) => i = j
  /\ \A n \in DOMAIN sig : sig[n].kind = "assoc" =>
       stage[sig[n].ieee] = "associated" \/ Behind(n, "update", sig[n].ieee)
  /\ \A d \in DOMAIN heap : heap[d].short = Unknown => UpdatePending(heap[d].ieee)

\* A device that is in will be known under its address: the last update says so, or it is.
Told(i) ==
  \E n \in DOMAIN sig : Is(n, "update", i) /\ sig[n].addr = net[i] /\ ~Behind(n, "update", i)
Learned(i) ==
  ~Waits("update", i) /\ \E d \in DOMAIN heap : heap[d].ieee = i /\ heap[d].short = net[i]

LearnInv ==
  "router" \notin Allow /\ crashes = 0 => \A i \in Ieee :
    /\ stage[i] # "out" => Known(i) \/ Waits("assoc", i)
    /\ \A m \in DOMAIN sig : Is(m, "update", i) => Known(i) \/ Ahead(m, "assoc", i)
    /\ stage[i] \in {"updated", "in"} => Told(i) \/ Learned(i)

\* Questions out, devices and files hold what a device said of itself.
DescInv ==
  /\ \A q \in asks : q.of \in {NoDev, heap[q.ctx].ieee}
  /\ \A d \in DOMAIN heap : heap[d].desc \in {NoDev, heap[d].ieee}
  /\ \A a \in DOMAIN files : Readable(a) => files[a].desc \in {NoDev, files[a].ieee}

\* The copy in flash lags behind for the device that is being saved only.
FlashInv ==
  /\ \A d \in DOMAIN heap : heap[d].short # Unknown =>
       \/ zbTask.dev = d \/ (save.step = "write" /\ save.obj = d)
       \/ files[heap[d].short] = heap[d]
  /\ \A d \in DOMAIN heap : heap[d].short # Unknown =>
       \/ zbTask.dev = d \/ save.step = "rename"
       \/ [ieee |-> heap[d].ieee, file |-> heap[d].short] \in index
  /\ \A e \in index \ loading : Readable(e.file) => Known(e.ieee)
  /\ "web" \notin Allow => IndexTruthful

GuidInv ==
  \A d \in DOMAIN heap : heap[d].short # Unknown => guid[heap[d].short] \in {Null, d}

SeqParts == TabInv /\ OneOwner /\ JoinInv /\ LearnInv /\ DescInv /\ FlashInv /\ GuidInv

SeqInv == Tidy => SeqParts

LEMMA Truthful ==
  ASSUME Tidy, BaseInv, SeqParts, NEW e \in loading
  PROVE  IndexTruthful /\ crashes # 0
BY DEF Tidy, BaseInv, RestInv, SeqParts, FlashInv

-----------------------------------------------------------------------------
(* Searches in such a table.                                               *)

LEMMA Found ==
  ASSUME TypeOK, TabInv
  PROVE  /\ \A d \in DOMAIN heap : FindIeee(heap[d].ieee) = d
         /\ \A d \in DOMAIN heap : heap[d].short # Unknown => FindShort(heap[d].short) = d
         /\ \A i : FindIeee(i) = Null <=> ~Known(i)
         /\ \A i : FindIeee(i) # Null => FindIeee(i) \in DOMAIN heap /\ heap[FindIeee(i)].ieee = i
         /\ \A a : FindShort(a) = Null <=> \A d \in DOMAIN heap : heap[d].short # a
         /\ \A a : FindShort(a) # Null => FindShort(a) \in DOMAIN heap /\ heap[FindShort(a)].short = a
<1>1. Devices(table) = DOMAIN heap
  BY DEF TabInv
<1>2. \A d, e \in DOMAIN heap :
        d # e => heap[d].ieee # heap[e].ieee /\ (heap[d].short = heap[e].short => heap[d].short = Unknown)
  BY DEF TabInv
<1>3. \A i : \/ FindIeee(i) = Null /\ ~Known(i)
             \/ FindIeee(i) # Null /\ Known(i) /\ FindIeee(i) \in DOMAIN heap /\ heap[FindIeee(i)].ieee = i
  BY <1>1, Searches DEF Known
<1>4. \A a : \/ FindShort(a) = Null /\ \A d \in DOMAIN heap : heap[d].short # a
             \/ FindShort(a) # Null /\ FindShort(a) \in DOMAIN heap /\ heap[FindShort(a)].short = a
  BY <1>1, Searches
<1>5. \A d \in DOMAIN heap : FindIeee(heap[d].ieee) = d
  BY <1>2, <1>3 DEF Known
<1>6. \A d \in DOMAIN heap : heap[d].short # Unknown => FindShort(heap[d].short) = d
  BY <1>2, <1>4
<1> QED
  BY <1>3, <1>4, <1>5, <1>6

\* What the run checks follows from the table's part of the invariant.
LEMMA SoundTable ==
  ASSUME TypeOK, TabInv
  PROVE  TableSound /\ NoneLost /\ RestoredOnce
<1>1. table \in TableOf(DOMAIN heap)
  BY HeapIs
<1>2. \A p \in Place(table) : /\ p[1] \in Bucket /\ DeviceAt(table, p) \in DOMAIN heap
                              /\ InBucket(table, DeviceAt(table, p), p[1])
  BY <1>1, PlacesAre, DevicesAre DEF TabInv
<1>3. \A p, q \in Place(table) : p # q => DeviceAt(table, p) # DeviceAt(table, q)
  BY DEF TabInv, Once
<1>4. TableSound
  BY <1>2, <1>3 DEF TableSound, TabInv
<1> QED
  BY <1>4 DEF NoneLost, RestoredOnce, TabInv

-----------------------------------------------------------------------------
(* What the steps do to devices and table.                                 *)

\* Devices and their addresses stay.
SameAddresses ==
  /\ DOMAIN heap' = DOMAIN heap
  /\ \A d \in DOMAIN heap : heap'[d].ieee = heap[d].ieee /\ heap'[d].short = heap[d].short

LEMMA DescSteps ==
  ASSUME TypeOK, NEW d, d # Null => d \in DOMAIN heap, NEW v,
         UNCHANGED heap \/ (d # Null /\ heap' = [heap EXCEPT ![d].desc = v])
  PROVE  /\ SameAddresses
         /\ \A e \in DOMAIN heap : heap'[e] = heap[e] \/ (e = d /\ heap'[e].desc = v)
<1>1. CASE UNCHANGED heap
  BY <1>1 DEF SameAddresses
<1>2. CASE d # Null /\ heap' = [heap EXCEPT ![d].desc = v]
  BY <1>2, HeapIs DEF SameAddresses, Device
<1> QED
  BY <1>1, <1>2

LEMMA ReportEffect ==
  ASSUME TypeOK, HandleReport
  PROVE  SameAddresses /\ UNCHANGED table
BY DescSteps, Searches DEF HandleReport

LEMMA AnswerEffect ==
  ASSUME TypeOK, NEW q \in asks, ActiveEpResp(q) \/ SimpleDescResp(q) \/ AnswerFails(q)
  PROVE  /\ SameAddresses /\ UNCHANGED <<table, sig>>
         /\ asks' = asks \ {q}
<1>1. UNCHANGED <<table, sig>> /\ asks' = asks \ {q}
  BY DEF ActiveEpResp, SimpleDescResp, AnswerFails, AnswerFrom, air
<1>2. UNCHANGED heap => SameAddresses
  BY DEF SameAddresses
<1>3. SimpleDescResp(q) => SameAddresses
  BY <1>2, DescSteps, Searches DEF SimpleDescResp, Addressee
<1> QED
  BY <1>1, <1>2, <1>3 DEF ActiveEpResp, AnswerFails

\* The steps that neither add, nor drop, nor move a device.
LEMMA StillEffect ==
  ASSUME TypeOK, [Next]_vars
  PROVE  \/ SameAddresses /\ UNCHANGED table
         \/ HandleAssociated \/ HandleUpdate \/ Crash \/ \E e \in loading : LoadEntry(e)
<1>1. UNCHANGED heap => SameAddresses
  BY DEF SameAddresses
<1>2. Network => UNCHANGED <<heap, table>>
  BY DEF Network, EmitUpdate, EmitAuthorized, EmitReport, Leave, Associate, Rejoin, host
<1>3. Save => UNCHANGED <<heap, table>>
  BY DEF Save, SaveOpen, SaveWrite, SaveUnlink, SaveRename
<1>4. \A d : WebSave(d) => UNCHANGED <<heap, table>>
  BY DEF WebSave
<1>5. HandleAuthorized => UNCHANGED <<heap, table>>
  BY DEF HandleAuthorized
<1>6. UNCHANGED vars => UNCHANGED <<heap, table>>
  BY DEF vars, host
<1> QED
  BY <1>1, <1>2, <1>3, <1>4, <1>5, <1>6, ReportEffect, AnswerEffect DEF Next, Handle

\* A device more, with an IEEE address nobody has and an address nobody has.
LEMMA TabGrows ==
  ASSUME TypeOK, TabInv, NEW x \in Device, heap' = Append(heap, x), ~Known(x.ieee),
         \A d \in DOMAIN heap : heap[d].short # x.short \/ x.short = Unknown,
         table' = Link(table, Len(heap) + 1, hash_short(x.short))
  PROVE  TabInv'
<1> DEFINE d == Len(heap) + 1
<1>1. /\ d \in DOMAIN heap' /\ DOMAIN heap' = DOMAIN heap \cup {d} /\ d \notin DOMAIN heap
      /\ heap'[d] = x /\ \A e \in DOMAIN heap : heap'[e] = heap[e]
      /\ table \in TableOf(DOMAIN heap')
  BY HeapGrows, HeapIs
<1>2. hash_short(x.short) \in Bucket
  BY HashTyped DEF Device
<1>3. Devices(table) = DOMAIN heap
  BY DEF TabInv
<1> DEFINE c == hash_short(x.short)
           u == Link(table, d, c)
<1> HIDE DEF d, c
<1>4. /\ \A e : \A b \in Bucket : InBucket(u, e, b) <=> InBucket(table, e, b) \/ (e = d /\ b = c)
      /\ Devices(u) = Devices(table) \cup {d}
  <2> DEFINE H == DOMAIN heap'
  <2>1. table \in TableOf(H) /\ d \in H /\ c \in Bucket
    BY <1>1, <1>2 DEF c
  <2> HIDE DEF H
  <2> QED
    BY <2>1, LinkAdds
<1>5. Once(u)
  BY <1>1, <1>2, <1>3, LinkOnce DEF c, TabInv
<1>6. table' = u
  BY DEF d, c
<1> HIDE DEF u
<1>7. \A e : \A b \in Bucket : InBucket(table, e, b) => e \in DOMAIN heap
  BY <1>1, <1>3, DevicesAre
<1>8. \A e : \A b \in Bucket : InBucket(table', e, b) => b = hash_short(heap'[e].short)
  BY <1>1, <1>4, <1>6, <1>7 DEF TabInv, c
<1>9. \A e, f \in DOMAIN heap' :
        e # f => heap'[e].ieee # heap'[f].ieee /\ (heap'[e].short = heap'[f].short => heap'[e].short = Unknown)
  BY <1>1 DEF TabInv, Known
<1> QED
  BY <1>1, <1>3, <1>4, <1>5, <1>6, <1>8, <1>9 DEF TabInv

LEMMA AssociatedEffect ==
  ASSUME TypeOK, TabInv, HandleAssociated
  PROVE  LET i == Head(sig).ieee
             x == [ieee |-> i, short |-> Unknown, desc |-> NoDev]
         IN  /\ x \in Device
             /\ \/ Known(i) /\ UNCHANGED <<heap, table>>
                \/ ~Known(i) /\ heap' = Append(heap, x)
             /\ TabInv'
<1> DEFINE i == Head(sig).ieee
           x == [ieee |-> i, short |-> Unknown, desc |-> NoDev]
<1>1. x \in Device
  BY SignalRead DEF HandleAssociated, Device
<1>2. \/ Known(i) /\ UNCHANGED <<heap, table>>
      \/ /\ ~Known(i) /\ heap' = Append(heap, x)
         /\ table' = Link(table, Len(heap) + 1, hash_short(Unknown))
  BY Found DEF HandleAssociated
<1>3. UNCHANGED <<heap, table>> => TabInv'
  BY DEF TabInv
<1>4. x.ieee = i /\ x.short = Unknown
  OBVIOUS
<1> HIDE DEF x
<1>5. TabInv'
  BY <1>1, <1>2, <1>3, <1>4, TabGrows
<1> QED
  BY <1>1, <1>2, <1>5 DEF x

\* zbm_dev_update_short_addr_safe, for an address nobody has and when the device's own
\* address leads to it alone: its node, and no other, goes and comes back in its new bucket.
LEMMA MoveEffect ==
  ASSUME TypeOK, TabInv, NEW d \in DOMAIN heap, NEW a \in Addr, UpdateShort(d, a),
         FindShort(a) = Null, \A e \in DOMAIN heap : heap[e].short = heap[d].short => e = d
  PROVE  /\ heap' = [heap EXCEPT ![d].short = a]
         /\ guid' = UpdateGuids(guid, d, a, heap[d].desc)
         /\ zbTask' = [dev |-> d, ask |-> FALSE]
         /\ TabInv'
<1> DEFINE D  == AtShort(heap[d].short)
           t1 == Unlink(table, D)
           b  == hash_short(a)
<1>1. /\ table \in TableOf(DOMAIN heap) /\ Devices(table) = DOMAIN heap /\ Once(table)
      /\ b \in Bucket
  BY HeapIs, HashTyped DEF TabInv
<1>2. Devices(table) \cap D = {d}
  BY <1>1 DEF AtShort
<1> HIDE DEF D
<1>3. /\ t1 \in TableOf(DOMAIN heap) /\ Once(t1)
      /\ \A e : \A c \in Bucket : InBucket(t1, e, c) <=> InBucket(table, e, c) /\ e # d
      /\ Devices(t1) = DOMAIN heap \ {d}
  <2> DEFINE H == DOMAIN heap
  <2>1. table \in TableOf(H) /\ Devices(table) = H
    BY <1>1
  <2> HIDE DEF H
  <2>2. /\ t1 \in TableOf(H) /\ Once(t1)
        /\ \A e : \A c \in Bucket : InBucket(t1, e, c) <=> InBucket(table, e, c) /\ e # d
        /\ Devices(t1) = H \ {d}
    BY <1>1, <1>2, <2>1, UnlinkTakes
  <2> QED
    BY <2>2 DEF H
<1>4. ~InBucket(t1, d, b)
  BY <1>1, <1>3
<1>5. /\ heap' = [heap EXCEPT ![d].short = a]
      /\ table' = Link(t1, d, b)
      /\ guid' = UpdateGuids(guid, d, a, heap[d].desc)
      /\ zbTask' = [dev |-> d, ask |-> FALSE]
  BY <1>4 DEF UpdateShort, D
<1> HIDE DEF t1, b
<1>6. /\ Once(table')
      /\ \A e : \A c \in Bucket : InBucket(table', e, c) <=> InBucket(t1, e, c) \/ (e = d /\ c = b)
      /\ Devices(table') = DOMAIN heap
  <2> DEFINE H == DOMAIN heap
             u == Link(t1, d, b)
  <2>1. t1 \in TableOf(H) /\ d \in H /\ d \notin Devices(t1) /\ Devices(t1) \cup {d} = H
    BY <1>3
  <2> HIDE DEF H
  <2>2. /\ \A e : \A c \in Bucket : InBucket(u, e, c) <=> InBucket(t1, e, c) \/ (e = d /\ c = b)
        /\ Devices(u) = Devices(t1) \cup {d}
    BY <1>1, <2>1, LinkAdds
  <2>3. Once(u)
    BY <1>1, <1>3, <2>1, LinkOnce
  <2>4. table' = u
    BY <1>5
  <2> QED
    BY <2>1, <2>2, <2>3, <2>4 DEF H
<1>7. /\ DOMAIN heap' = DOMAIN heap /\ heap'[d].ieee = heap[d].ieee /\ heap'[d].short = a
      /\ \A e \in DOMAIN heap \ {d} : heap'[e] = heap[e]
  BY <1>5, HeapIs DEF Device
<1>8. \A e : \A c \in Bucket : InBucket(table, e, c) => e \in DOMAIN heap
  BY <1>1, DevicesAre
<1>9. \A e : \A c \in Bucket : InBucket(table', e, c) => c = hash_short(heap'[e].short)
  BY <1>3, <1>6, <1>7, <1>8 DEF TabInv, b
<1>10. \A e \in DOMAIN heap : heap[e].short # a
  BY Found
<1>11. \A e, f \in DOMAIN heap' :
        e # f => heap'[e].ieee # heap'[f].ieee /\ (heap'[e].short = heap'[f].short => heap'[e].short = Unknown)
  BY <1>7, <1>10 DEF TabInv
<1> QED
  BY <1>5, <1>6, <1>7, <1>9, <1>11 DEF TabInv

LEMMA UpdateEffect ==
  ASSUME TypeOK, TabInv, OneOwner, JoinInv, HandleUpdate
  PROVE  LET i == Head(sig).ieee
             a == Head(sig).addr
         IN  /\ \/ /\ UNCHANGED <<heap, table, guid, zbTask>>
                   /\ \A d \in DOMAIN heap : heap[d].ieee = i => heap[d].short = a
                \/ \E d \in DOMAIN heap :
                     /\ heap[d].ieee = i
                     /\ \A e \in DOMAIN heap : heap[e].short # a
                     /\ heap' = [heap EXCEPT ![d].short = a]
                     /\ guid' = UpdateGuids(guid, d, a, heap[d].desc)
                     /\ zbTask' = [dev |-> d, ask |-> FALSE]
             /\ TabInv'
<1> DEFINE i == Head(sig).ieee
           a == Head(sig).addr
           d == FindIeee(i)
<1>1. i \in Ieee /\ a \in Addr /\ 1 \in DOMAIN sig /\ Head(sig) = sig[1] /\ sig[1].kind = "update"
  BY SignalRead DEF HandleUpdate, Received, TypeOK
<1>2. Claims(i, a)
  BY <1>1 DEF Claims
<1>3. CASE FindShort(a) # Null
  <2>1. FindShort(a) \in DOMAIN heap /\ heap[FindShort(a)].short = a
    BY <1>3, Found
  <2>2. Claims(heap[FindShort(a)].ieee, a) /\ heap[FindShort(a)].ieee \in Ieee
    BY <2>1, HeapIs DEF Claims
  <2>3. heap[FindShort(a)].ieee = i
    BY <1>1, <1>2, <2>2 DEF OneOwner
  <2>4. \A e \in DOMAIN heap : heap[e].ieee = i => e = FindShort(a)
    BY <2>1, <2>3 DEF TabInv
  <2>5. UNCHANGED <<heap, table, guid, zbTask>>
    BY <1>3 DEF HandleUpdate
  <2>6. TabInv'
    BY <2>5 DEF TabInv
  <2> QED
    BY <2>1, <2>4, <2>5, <2>6
<1>4. CASE d = Null
  <2>1. UNCHANGED <<heap, table, guid, zbTask>> /\ ~Known(i)
    BY <1>4, Found DEF HandleUpdate
  <2>2. TabInv'
    BY <2>1 DEF TabInv
  <2> QED
    BY <2>1, <2>2 DEF Known
<1>5. CASE FindShort(a) = Null /\ d # Null
  <2>1. d \in DOMAIN heap /\ heap[d].ieee = i /\ UpdateShort(d, a)
    BY <1>5, Found DEF HandleUpdate
  <2>2. ASSUME NEW e \in DOMAIN heap, heap[e].short = heap[d].short PROVE e = d
    <3>1. CASE heap[e].short # Unknown
      BY <2>1, <2>2, <3>1 DEF TabInv
    <3>2. CASE heap[e].short = Unknown
      <4>1. UpdatePending(heap[e].ieee)
        BY <3>2 DEF JoinInv
      <4>2. Joining(heap[e].ieee)
        BY <4>1 DEF UpdatePending, Waits, Is, Joining
      <4>3. Joining(i)
        BY <1>1 DEF Joining
      <4>4. heap[e].ieee = i
        BY <1>1, <4>2, <4>3, HeapIs DEF JoinInv
      <4> QED
        BY <2>1, <4>4 DEF TabInv
    <3> QED
      BY <3>1, <3>2
  <2>3. /\ heap' = [heap EXCEPT ![d].short = a]
        /\ guid' = UpdateGuids(guid, d, a, heap[d].desc)
        /\ zbTask' = [dev |-> d, ask |-> FALSE]
        /\ TabInv'
    BY <1>1, <1>5, <2>1, <2>2, MoveEffect
  <2>4. \A e \in DOMAIN heap : heap[e].short # a
    BY <1>5, Found
  <2> QED
    BY <2>1, <2>3, <2>4
<1> QED
  BY <1>3, <1>4, <1>5

\* A device is restored from the file the entry names, under that address, unless it is known.
LEMMA LoadEffect ==
  ASSUME TypeOK, RestInv, TabInv, OneOwner, IndexTruthful, NEW e \in loading, LoadEntry(e)
  PROVE  LET f == files[e.file]
         IN  /\ e \in index /\ e.ieee \in Ieee
             /\ \/ UNCHANGED <<heap, table, guid>> /\ (Readable(e.file) => Known(e.ieee))
                \/ /\ Readable(e.file) /\ f \in Device /\ f.ieee = e.ieee /\ f.short = e.file
                   /\ e.file \in Addr /\ ~Known(e.ieee)
                   /\ \A d \in DOMAIN heap : heap[d].short # e.file
                   /\ heap' = Append(heap, f)
                   /\ guid' = UpdateGuids(guid, Len(heap) + 1, f.short, f.desc)
             /\ TabInv'
<1> DEFINE f == files[e.file]
<1>1. e \in index /\ e.ieee \in Ieee /\ e.file \in DOMAIN files /\ e = [ieee |-> e.ieee, file |-> e.file]
  BY DEF RestInv, TypeOK, Entry
<1>2. CASE UNCHANGED <<heap, table, guid>> /\ (Readable(e.file) => Known(e.ieee))
  <2>1. TabInv'
    BY <1>2 DEF TabInv
  <2> QED
    BY <1>1, <1>2, <2>1
<1>3. CASE /\ Readable(e.file) /\ ~Known(e.ieee)
           /\ heap' = Append(heap, f)
           /\ table' = Link(table, Len(heap) + 1, hash_short(f.short))
           /\ guid' = UpdateGuids(guid, Len(heap) + 1, f.short, f.desc)
  <2>1. f \in Device /\ f.ieee = e.ieee /\ f.short = e.file /\ e.file \in Addr
    BY <1>1, <1>3 DEF TypeOK, RestInv, IndexTruthful, Readable
  <2>2. Claims(e.ieee, e.file)
    BY <1>1 DEF Claims
  <2>3. ASSUME NEW d \in DOMAIN heap PROVE heap[d].short # e.file
    <3>1. heap[d].short = e.file => Claims(heap[d].ieee, e.file)
      BY DEF Claims
    <3>2. heap[d].ieee \in Ieee /\ heap[d].ieee # e.ieee
      BY <1>3, HeapIs DEF Known
    <3> QED
      BY <1>1, <2>1, <2>2, <3>1, <3>2 DEF OneOwner
  <2>4. TabInv'
    BY <1>3, <2>1, <2>3, TabGrows
  <2> QED
    BY <1>1, <1>3, <2>1, <2>3, <2>4
<1>4. \/ UNCHANGED <<heap, table, guid>> /\ (Readable(e.file) => Known(e.ieee))
      \/ /\ Readable(e.file) /\ ~Known(e.ieee)
         /\ heap' = Append(heap, f)
         /\ table' = Link(table, Len(heap) + 1, hash_short(f.short))
         /\ guid' = UpdateGuids(guid, Len(heap) + 1, f.short, f.desc)
  BY Found DEF LoadEntry
<1> QED
  BY <1>2, <1>3, <1>4

LEMMA CrashEffect ==
  ASSUME Crash
  PROVE  TabInv' /\ DOMAIN heap' = {} /\ sig' = <<>> /\ DOMAIN sig' = {}
<1>1. heap' = <<>> /\ table' = Empty /\ DOMAIN heap' = {} /\ sig' = <<>> /\ DOMAIN sig' = {}
  BY DEF Crash
<1>2. \A d : \A b \in Bucket : ~InBucket(Empty, d, b)
  BY DEF Empty, InBucket
<1> QED
  BY <1>1, <1>2, EmptyTable DEF TabInv

LEMMA TabKept ==
  ASSUME Apart, Tidy, BaseInv, SeqParts, [Next]_vars
  PROVE  TabInv'
<1>1. TypeOK /\ RestInv /\ TabInv /\ OneOwner /\ JoinInv
  BY DEF BaseInv, SeqParts
<1>2. CASE SameAddresses /\ UNCHANGED table
  <2>1. \A d : \A b \in Bucket : InBucket(table, d, b) => d \in DOMAIN heap
    BY <1>1, HeapIs, DevicesAre
  <2> QED
    BY <1>1, <1>2, <2>1 DEF TabInv, SameAddresses
<1>3. CASE \E e \in loading : LoadEntry(e)
  BY <1>1, <1>3, LoadEffect, Truthful
<1> QED
  BY <1>1, <1>2, <1>3, StillEffect, AssociatedEffect, UpdateEffect, CrashEffect

-----------------------------------------------------------------------------
(* The signals on their way: one more behind the others, the first taken.  *)

LEMMA Popping ==
  ASSUME TypeOK, sig # <<>>, sig' = Tail(sig)
  PROVE  /\ 1 \in DOMAIN sig /\ sig[1] = Head(sig)
         /\ \A n \in DOMAIN sig' : n + 1 \in DOMAIN sig /\ n + 1 # 1 /\ sig'[n] = sig[n + 1]
         /\ \A n \in DOMAIN sig : n # 1 => n - 1 \in DOMAIN sig' /\ sig'[n - 1] = sig[n]
         /\ \A k, i : /\ Waits(k, i)' => Waits(k, i)
                      /\ Waits(k, i) => Is(1, k, i) \/ Waits(k, i)'
                      /\ Behind(1, k, i) => Waits(k, i)'
                      /\ ~Behind(1, k, i) => ~Waits(k, i)'
         /\ \A k, i : \A n \in DOMAIN sig' : /\ Behind(n, k, i)' <=> Behind(n + 1, k, i)
                                             /\ Is(n, k, i)' <=> Is(n + 1, k, i)
                                             /\ Ahead(n + 1, k, i) => Is(1, k, i) \/ Ahead(n, k, i)'
<1>1. sig \in Seq(Signal)
  BY DEF TypeOK
<1> DEFINE L == Len(sig)
<1>2. /\ L \in Nat /\ L >= 1 /\ DOMAIN sig = 1 .. L /\ DOMAIN sig' = 1 .. L - 1
      /\ sig[1] = Head(sig)
      /\ \A n \in 1 .. L - 1 : sig'[n] = sig[n + 1]
  BY <1>1
<1> HIDE DEF L
<1>3. \A n \in 1 .. L - 1 : n + 1 \in 1 .. L /\ n + 1 # 1 /\ n \in Nat
  BY <1>2
<1>4. \A n \in 1 .. L : n # 1 => n - 1 \in 1 .. L - 1 /\ (n - 1) + 1 = n
  BY <1>2
<1>5. \A n \in 1 .. L : n # 1 => sig'[n - 1] = sig[n]
  BY <1>2, <1>4
<1>6. \A m, n \in 1 .. L - 1 : m < n <=> m + 1 < n + 1
  BY <1>2
<1>7. \A n \in 1 .. L - 1 : 1 < n + 1
  BY <1>2
<1>8. \A k, i : \A n \in 1 .. L - 1 : Is(n, k, i)' <=> Is(n + 1, k, i)
  BY <1>2 DEF Is
<1>9. ASSUME NEW k, NEW i
      PROVE  /\ Waits(k, i)' => Waits(k, i)
             /\ Waits(k, i) => Is(1, k, i) \/ Waits(k, i)'
             /\ Behind(1, k, i) <=> Waits(k, i)'
  <2>1. Waits(k, i)' <=> \E n \in 1 .. L - 1 : Is(n + 1, k, i)
    BY <1>2, <1>8 DEF Waits
  <2>2. Waits(k, i) <=> \E n \in 1 .. L : Is(n, k, i)
    BY <1>2 DEF Waits
  <2>3. Behind(1, k, i) <=> \E n \in 1 .. L : 1 < n /\ Is(n, k, i)
    BY <1>2 DEF Behind
  <2>4. \A n \in 1 .. L : 1 < n => n # 1
    BY <1>2
  <2>5. Waits(k, i)' => Behind(1, k, i) /\ Waits(k, i)
    BY <1>3, <1>7, <2>1, <2>2, <2>3
  <2>6. \A n \in 1 .. L : n # 1 /\ Is(n, k, i) => Waits(k, i)'
    BY <1>4, <2>1
  <2> QED
    BY <2>2, <2>3, <2>4, <2>5, <2>6
<1>10. ASSUME NEW k, NEW i, NEW n \in 1 .. L - 1
       PROVE  /\ Behind(n, k, i)' <=> Behind(n + 1, k, i)
              /\ Ahead(n + 1, k, i) => Is(1, k, i) \/ Ahead(n, k, i)'
  <2>1. Behind(n, k, i)' <=> \E m \in 1 .. L - 1 : n < m /\ Is(m + 1, k, i)
    BY <1>2, <1>8 DEF Behind
  <2>2. Behind(n + 1, k, i) <=> \E m \in 1 .. L : n + 1 < m /\ Is(m, k, i)
    BY <1>2 DEF Behind
  <2>3. \A m \in 1 .. L : n + 1 < m => m # 1 /\ n < m - 1
    BY <1>2
  <2>4. Behind(n, k, i)' => Behind(n + 1, k, i)
    BY <1>3, <1>6, <2>1, <2>2
  <2>5. Behind(n + 1, k, i) => Behind(n, k, i)'
    BY <1>4, <2>1, <2>2, <2>3
  <2>6. Ahead(n, k, i)' <=> \E m \in 1 .. L - 1 : m < n /\ Is(m + 1, k, i)
    BY <1>2, <1>8 DEF Ahead
  <2>7. Ahead(n + 1, k, i) <=> \E m \in 1 .. L : m < n + 1 /\ Is(m, k, i)
    BY <1>2 DEF Ahead
  <2>8. \A m \in 1 .. L : m < n + 1 => m = 1 \/ m - 1 < n
    BY <1>2
  <2> QED
    BY <1>4, <2>4, <2>5, <2>6, <2>7, <2>8
<1> QED
  BY <1>2, <1>3, <1>4, <1>5, <1>8, <1>9, <1>10

LEMMA Appending ==
  ASSUME TypeOK, NEW s, sig' = Append(sig, s), NEW l, l = Len(sig) + 1
  PROVE  /\ DOMAIN sig' = DOMAIN sig \cup {l} /\ sig'[l] = s /\ l \notin DOMAIN sig
         /\ \A n \in DOMAIN sig : sig'[n] = sig[n]
         /\ \A k, i : /\ Waits(k, i)' <=> Waits(k, i) \/ (s.kind = k /\ s.ieee = i)
                      /\ Is(l, k, i)' <=> s.kind = k /\ s.ieee = i
                      /\ ~Behind(l, k, i)'
                      /\ Ahead(l, k, i)' <=> Waits(k, i)
         /\ \A k, i : \A n \in DOMAIN sig :
              /\ Is(n, k, i)' <=> Is(n, k, i)
              /\ Behind(n, k, i)' <=> Behind(n, k, i) \/ (s.kind = k /\ s.ieee = i)
              /\ Ahead(n, k, i) => Ahead(n, k, i)'
<1>1. sig \in Seq(Signal)
  BY DEF TypeOK
<1>2. /\ DOMAIN sig = 1 .. Len(sig) /\ Len(sig) \in Nat /\ DOMAIN sig' = 1 .. l /\ sig'[l] = s
      /\ \A n \in 1 .. Len(sig) : sig'[n] = sig[n]
  BY <1>1
<1>3. /\ DOMAIN sig' = DOMAIN sig \cup {l}
      /\ \A n \in DOMAIN sig : n < l /\ ~(l < n)
      /\ ~(l < l) /\ l \notin DOMAIN sig
  BY <1>2
<1>4. sig'[l] = s /\ \A n \in DOMAIN sig : sig'[n] = sig[n]
  BY <1>2
<1>5. \A k, i : /\ Is(l, k, i)' <=> s.kind = k /\ s.ieee = i
                /\ \A n \in DOMAIN sig : Is(n, k, i)' <=> Is(n, k, i)
  BY <1>4 DEF Is
<1>6. \A k, i : Waits(k, i)' <=> Waits(k, i) \/ (s.kind = k /\ s.ieee = i)
  BY <1>3, <1>5 DEF Waits
<1>7. \A k, i : ~Behind(l, k, i)' /\ (Ahead(l, k, i)' <=> Waits(k, i))
  BY <1>3, <1>5 DEF Behind, Ahead, Waits
<1>8. ASSUME NEW k, NEW i, NEW n \in DOMAIN sig
      PROVE  /\ Behind(n, k, i)' <=> Behind(n, k, i) \/ (s.kind = k /\ s.ieee = i)
             /\ Ahead(n, k, i) => Ahead(n, k, i)'
  BY <1>3, <1>5 DEF Behind, Ahead
<1> QED
  BY <1>3, <1>4, <1>5, <1>6, <1>7, <1>8

-----------------------------------------------------------------------------
(* One owner of an address.                                                *)

\* The signals that are taken or added, and what claims what through them.
LEMMA SignalClaims ==
  ASSUME TypeOK, NEW i, NEW a, \E n \in DOMAIN sig' : sig'[n].ieee = i /\ sig'[n].addr = a
  PROVE  /\ sig # <<>> /\ sig' = Tail(sig) => Claims(i, a)
         /\ \A s : sig' = Append(sig, s) => Claims(i, a) \/ (s.ieee = i /\ s.addr = a)
         /\ UNCHANGED sig => Claims(i, a)
<1>1. sig # <<>> /\ sig' = Tail(sig) => Claims(i, a)
  BY Popping DEF Claims
<1>2. ASSUME NEW s, sig' = Append(sig, s) PROVE Claims(i, a) \/ (s.ieee = i /\ s.addr = a)
  BY <1>2, Appending DEF Claims
<1> QED
  BY <1>1, <1>2 DEF Claims

\* Nobody else claims an address the network gives out where it reuses none.
LEMMA GivenFree ==
  ASSUME TypeOK, "reuse" \notin Allow, NEW i \in Ieee, NEW a \in Addr, Given(i, a),
         NEW j \in Ieee, Claims(j, a)
  PROVE  j = i
<1>1. CASE net[j] = a
  BY <1>1 DEF Given
<1>2. CASE j \in HostHas(a)
  BY <1>2 DEF Given
<1>3. Claims(j, a) => net[j] = a \/ j \in HostHas(a)
  BY DEF Claims, HostHas, AtShort
<1> QED
  BY <1>1, <1>2, <1>3

\* Only an address given by the network makes a new claim: what the host writes of a device,
\* in memory and in flash, it has from a signal or from a file.
LEMMA NoNewClaim ==
  ASSUME Tidy, BaseInv, SeqParts, [Next]_vars, ~Network, NEW i \in Ieee, NEW a \in Addr, Claims(i, a)'
  PROVE  Claims(i, a)
<1>1. TypeOK /\ RestInv /\ TabInv /\ OneOwner /\ JoinInv
  BY DEF BaseInv, SeqParts
<1>2. UNCHANGED net /\ (UNCHANGED sig \/ sig' = <<>> \/ (sig # <<>> /\ sig' = Tail(sig)))
  BY DEF Next, Handle, HandleAssociated, HandleUpdate, HandleAuthorized, HandleReport, Received,
         ActiveEpResp, SimpleDescResp, AnswerFails, AnswerFrom, Save, SaveOpen, SaveWrite,
         SaveUnlink, SaveRename, WebSave, Crash, LoadEntry, vars, air
<1>3. UNCHANGED index \/ index' = {} \/ (index' = CollectIndex /\ UNCHANGED heap)
  BY HandlerFrame DEF Next, Save, SaveOpen, SaveWrite, SaveUnlink, SaveRename, WebSave, Crash,
         LoadEntry, vars, disk
<1>4. Unknown \notin Addr
  BY Addresses
<1>5. ASSUME NEW d \in DOMAIN heap', heap'[d].ieee = i, heap'[d].short = a PROVE Claims(i, a)
  <2>1. CASE SameAddresses
    BY <1>5, <2>1 DEF Claims, SameAddresses
  <2>2. CASE HandleAssociated
    <3> DEFINE x == [ieee |-> Head(sig).ieee, short |-> Unknown, desc |-> NoDev]
    <3>1. CASE UNCHANGED heap
      BY <1>5, <3>1 DEF Claims
    <3>2. CASE heap' = Append(heap, x)
      <4>1. x \in Device /\ x.short = Unknown
        BY <1>1, <2>2, AssociatedEffect
      <4> HIDE DEF x
      <4>2. DOMAIN heap' = DOMAIN heap \cup {Len(heap) + 1} /\ heap'[Len(heap) + 1] = x
            /\ \A e \in DOMAIN heap : heap'[e] = heap[e]
        BY <1>1, <3>2, <4>1, HeapGrows
      <4> QED
        BY <1>4, <1>5, <4>1, <4>2 DEF Claims
    <3> QED
      BY <1>1, <2>2, <3>1, <3>2, AssociatedEffect
  <2>3. CASE HandleUpdate
    <3>1. CASE UNCHANGED heap
      BY <1>5, <3>1 DEF Claims
    <3>2. ASSUME NEW c \in DOMAIN heap, heap[c].ieee = Head(sig).ieee,
                 heap' = [heap EXCEPT ![c].short = Head(sig).addr]
          PROVE  Claims(i, a)
      <4>1. /\ DOMAIN heap' = DOMAIN heap /\ heap'[c].ieee = heap[c].ieee
            /\ heap'[c].short = Head(sig).addr
            /\ \A e \in DOMAIN heap : e # c => heap'[e] = heap[e]
        BY <1>1, <3>2, HeapIs DEF Device
      <4>2. 1 \in DOMAIN sig /\ sig[1] = Head(sig)
        BY <1>1, <2>3, Popping, SignalRead DEF HandleUpdate
      <4> QED
        BY <1>5, <3>2, <4>1, <4>2 DEF Claims
    <3> QED
      BY <1>1, <2>3, <3>1, <3>2, UpdateEffect
  <2>4. CASE Crash
    BY <1>5, <2>4, CrashEffect
  <2>5. ASSUME NEW e \in loading, LoadEntry(e) PROVE Claims(i, a)
    <3> DEFINE f == files[e.file]
    <3>1. IndexTruthful
      BY Truthful
    <3>2. CASE UNCHANGED heap
      BY <1>5, <3>2 DEF Claims
    <3>3. CASE /\ heap' = Append(heap, f) /\ f \in Device /\ f.ieee = e.ieee /\ f.short = e.file
      <4>1. DOMAIN heap' = DOMAIN heap \cup {Len(heap) + 1} /\ heap'[Len(heap) + 1] = f
            /\ \A c \in DOMAIN heap : heap'[c] = heap[c]
        BY <1>1, <3>3, HeapGrows
      <4>2. e \in index /\ e = [ieee |-> e.ieee, file |-> e.file]
        BY <1>1 DEF RestInv, TypeOK, Entry
      <4> QED
        BY <1>5, <3>3, <4>1, <4>2 DEF Claims
    <3> QED
      BY <1>1, <2>5, <3>1, <3>2, <3>3, LoadEffect
  <2> QED
    BY <1>1, <2>1, <2>2, <2>3, <2>4, <2>5, StillEffect
<1>6. [ieee |-> i, file |-> a] \in CollectIndex => Claims(i, a)
  BY <1>1 DEF CollectIndex, Claims, TabInv
<1>7. [ieee |-> i, file |-> a] \in index' => Claims(i, a)
  BY <1>3, <1>6 DEF Claims
<1>8. (\E n \in DOMAIN sig' : sig'[n].ieee = i /\ sig'[n].addr = a) => Claims(i, a)
  BY <1>1, <1>2, SignalClaims
<1> QED
  BY <1>2, <1>5, <1>7, <1>8 DEF Claims

LEMMA OwnerKept ==
  ASSUME Apart, Tidy, BaseInv, SeqParts, [Next]_vars
  PROVE  OneOwner'
<1>1. TypeOK /\ NetInv /\ TabInv /\ OneOwner
  BY DEF BaseInv, SeqParts
<1>2. CASE \A i \in Ieee, a \in Addr : Claims(i, a)' => Claims(i, a)
  BY <1>1, <1>2 DEF OneOwner
<1>3. CASE Network
  <2>1. PICK i \in Ieee :
          \/ EmitUpdate(i) \/ EmitAuthorized(i) \/ EmitReport(i) \/ Leave(i)
          \/ \E a \in Addr : Associate(i, a) \/ Rejoin(i, a)
    BY <1>3 DEF Network
  <2>2. UNCHANGED <<heap, index>>
    BY <1>3 DEF Network, EmitUpdate, EmitAuthorized, EmitReport, Leave, Associate, Rejoin, host, disk
  <2>3. CASE EmitUpdate(i) \/ EmitAuthorized(i) \/ EmitReport(i)
    <3>1. PICK s : sig' = Append(sig, s) /\ s.ieee = i /\ s.addr = net[i]
      BY <2>3 DEF EmitUpdate, EmitAuthorized, EmitReport, Send
    <3>2. UNCHANGED net
      BY <2>3 DEF EmitUpdate, EmitAuthorized, EmitReport
    <3>3. ASSUME NEW j \in Ieee, NEW a \in Addr, Claims(j, a)' PROVE Claims(j, a)
      <4>1. Claims(i, net[i])
        BY DEF Claims
      <4> QED
        BY <1>1, <2>2, <3>1, <3>2, <3>3, <4>1, SignalClaims DEF Claims
    <3> QED
      BY <1>2, <3>3
  <2>4. CASE Leave(i)
    <3>1. \A j \in Ieee, a \in Addr : net'[j] = a => net[j] = a
      BY <1>1, <2>4, Addresses DEF Leave, TypeOK
    <3>2. \A j \in Ieee, a \in Addr : Claims(j, a)' => Claims(j, a)
      BY <2>2, <2>4, <3>1 DEF Claims, Leave
    <3> QED
      BY <1>2, <3>2
  <2>5. ASSUME NEW a \in Addr, Associate(i, a) \/ Rejoin(i, a) PROVE OneOwner'
    <3>1. Given(i, a) /\ net' = [net EXCEPT ![i] = a]
      BY <1>1, <2>5, GivenTyped DEF Associate, Rejoin
    <3>2. \A j \in Ieee : net'[j] = net[j] \/ (j = i /\ net'[j] = a)
      BY <1>1, <3>1 DEF TypeOK
    <3>3. UNCHANGED sig \/ \E s : sig' = Append(sig, s) /\ s.ieee = i /\ s.addr = a
      BY <2>5 DEF Associate, Rejoin, Send
    <3>4. ASSUME NEW j \in Ieee, NEW b \in Addr, Claims(j, b)'
          PROVE  Claims(j, b) \/ (j = i /\ b = a)
      BY <1>1, <2>2, <3>2, <3>3, <3>4, SignalClaims DEF Claims
    <3>5. \A j \in Ieee : Claims(j, a) => j = i
      BY <1>1, <3>1, GivenFree DEF Apart
    <3> QED
      BY <1>1, <3>4, <3>5 DEF OneOwner
  <2> QED
    BY <2>1, <2>3, <2>4, <2>5
<1> QED
  BY <1>2, <1>3, NoNewClaim

-----------------------------------------------------------------------------
(* What a step does to the signals and to the stages of the joins.         *)

Quiet == UNCHANGED <<sig, net, stage>>
Taken(kind) == sig # <<>> /\ Head(sig).kind = kind /\ sig' = Tail(sig) /\ UNCHANGED <<net, stage>>

LEMMA AirSteps ==
  ASSUME TypeOK, [Next]_vars
  PROVE  \/ Network
         \/ HandleAssociated /\ Taken("assoc")
         \/ HandleUpdate /\ Taken("update")
         \/ SameAddresses /\ (Taken("auth") \/ Taken("report"))
         \/ SameAddresses /\ Quiet
         \/ Crash
         \/ Quiet /\ \E e \in loading : LoadEntry(e)
<1>1. \A k : Received(k) => Taken(k)
  BY DEF Received, Taken
<1>2. UNCHANGED heap => SameAddresses
  BY DEF SameAddresses
<1>3. HandleAssociated => Taken("assoc")
  BY <1>1 DEF HandleAssociated
<1>4. HandleUpdate => Taken("update")
  BY <1>1 DEF HandleUpdate
<1>5. HandleAuthorized => SameAddresses /\ Taken("auth")
  BY <1>1, <1>2 DEF HandleAuthorized
<1>6. HandleReport => SameAddresses /\ Taken("report")
  BY <1>1, ReportEffect DEF HandleReport
<1>7. \A q \in asks : ActiveEpResp(q) \/ SimpleDescResp(q) \/ AnswerFails(q) => SameAddresses /\ Quiet
  BY AnswerEffect DEF ActiveEpResp, SimpleDescResp, AnswerFails, AnswerFrom, air, Quiet
<1>8. Save => SameAddresses /\ Quiet
  BY <1>2 DEF Save, SaveOpen, SaveWrite, SaveUnlink, SaveRename, air, Quiet
<1>9. \A d : WebSave(d) => SameAddresses /\ Quiet
  BY <1>2 DEF WebSave, air, Quiet
<1>10. UNCHANGED vars => SameAddresses /\ Quiet
  BY <1>2 DEF vars, host, air, Quiet
<1>11. \A e : LoadEntry(e) => Quiet
  BY DEF LoadEntry, air, Quiet
<1> QED
  BY <1>3, <1>4, <1>5, <1>6, <1>7, <1>8, <1>9, <1>10, <1>11 DEF Next, Handle

\* The signals that are taken were the first, those behind keep their order.
LEMMA TakenIs ==
  ASSUME TypeOK, NEW kind, Taken(kind)
  PROVE  /\ 1 \in DOMAIN sig /\ sig[1] = Head(sig) /\ sig[1].kind = kind
         /\ sig[1].ieee \in Ieee /\ sig[1].addr \in Addr
         /\ \A k, i : Is(1, k, i) <=> k = kind /\ i = sig[1].ieee
<1>1. 1 \in DOMAIN sig /\ sig[1] = Head(sig) /\ sig[1] \in Signal
  BY Popping DEF Taken, TypeOK
<1> QED
  BY <1>1 DEF Taken, Signal, Is

Appended(kind, i, a) == sig' = Append(sig, [kind |-> kind, ieee |-> i, addr |-> a])

LEMMA AppendedIs ==
  ASSUME TypeOK, NEW kind, NEW i, NEW a, Appended(kind, i, a)
  PROVE  /\ \A k, j : /\ Waits(k, j) => Waits(k, j)'
                      /\ k = kind /\ j = i => Waits(k, j)'
                      /\ Waits(k, j)' => Waits(k, j) \/ (k = kind /\ j = i)
         /\ \E l \in DOMAIN sig' : l \notin DOMAIN sig
         /\ \A l \in DOMAIN sig' : l \notin DOMAIN sig =>
              /\ sig'[l].kind = kind /\ sig'[l].ieee = i /\ sig'[l].addr = a
              /\ \A k, j : /\ Is(l, k, j)' <=> k = kind /\ j = i
                           /\ ~Behind(l, k, j)'
                           /\ Ahead(l, k, j)' <=> Waits(k, j)
         /\ \A n \in DOMAIN sig : n \in DOMAIN sig' /\ sig'[n] = sig[n]
         /\ \A n \in DOMAIN sig' : n \in DOMAIN sig \/ (sig'[n].kind = kind /\ sig'[n].ieee = i)
         /\ \A k, j : \A n \in DOMAIN sig :
              /\ Is(n, k, j)' <=> Is(n, k, j)
              /\ Behind(n, k, j)' <=> Behind(n, k, j) \/ (k = kind /\ j = i)
              /\ Ahead(n, k, j) => Ahead(n, k, j)'
<1>1. PICK l : l = Len(sig) + 1
  OBVIOUS
<1>2. PICK s : s = [kind |-> kind, ieee |-> i, addr |-> a]
  OBVIOUS
<1>3. sig' = Append(sig, s) /\ s.kind = kind /\ s.ieee = i /\ s.addr = a
  BY <1>2 DEF Appended
<1>4. /\ DOMAIN sig' = DOMAIN sig \cup {l} /\ sig'[l] = s /\ l \notin DOMAIN sig
      /\ \A n \in DOMAIN sig : sig'[n] = sig[n]
  BY <1>1, <1>3, Appending
<1> QED
  BY <1>1, <1>3, <1>4, Appending

\* A step of the network: the stage and the address of one device, and a signal of it.
NetworkStep(i) ==
  /\ \A j \in Ieee : j # i => stage'[j] = stage[j] /\ net'[j] = net[j]
  /\ \/ /\ stage[i] = "out" /\ stage'[i] = "associated" /\ Alone(i)
        /\ \E a \in Addr : Appended("assoc", i, a)
     \/ /\ stage[i] = "in" \/ (stage[i] = "out" /\ "router" \in Allow)
        /\ stage'[i] = "associated" /\ Alone(i) /\ UNCHANGED sig
     \/ /\ stage[i] = "associated" /\ stage'[i] = "updated" /\ net'[i] = net[i]
        /\ Appended("update", i, net[i])
     \/ /\ stage[i] = "updated" /\ stage'[i] = "in" /\ net'[i] = net[i]
        /\ Appended("auth", i, net[i])
     \/ /\ stage[i] = "in" /\ stage'[i] = "in" /\ net'[i] = net[i]
        /\ Appended("report", i, net[i])
     \/ /\ stage[i] = "in" /\ stage'[i] = "out" /\ UNCHANGED sig

LEMMA NetworkSteps ==
  ASSUME TypeOK, Network
  PROVE  UNCHANGED <<heap, table, crashes>> /\ \E i \in Ieee : NetworkStep(i)
<1>1. UNCHANGED <<heap, table, crashes>>
  BY DEF Network, EmitUpdate, EmitAuthorized, EmitReport, Leave, Associate, Rejoin, host
<1>2. PICK i \in Ieee :
        \/ EmitUpdate(i) \/ EmitAuthorized(i) \/ EmitReport(i) \/ Leave(i)
        \/ \E a \in Addr : Associate(i, a) \/ Rejoin(i, a)
  BY DEF Network
<1>3. /\ stage \in [Ieee -> {"out", "associated", "updated", "in"}]
      /\ net \in [Ieee -> Addr \cup {Unknown}]
  BY DEF TypeOK
<1> SUFFICES NetworkStep(i)
  BY <1>1
<1> USE <1>3 DEF Send, Appended
<1>4. CASE EmitUpdate(i)
  BY <1>4 DEF EmitUpdate, NetworkStep
<1>5. CASE EmitAuthorized(i)
  BY <1>5 DEF EmitAuthorized, NetworkStep
<1>6. CASE EmitReport(i)
  <2>1. UNCHANGED <<stage, net>> /\ stage[i] = "in" /\ Appended("report", i, net[i])
    BY <1>6 DEF EmitReport
  <2> QED
    BY <2>1 DEF NetworkStep
<1>7. CASE Leave(i)
  <2>1. /\ stage[i] = "in" /\ stage'[i] = "out" /\ UNCHANGED sig
        /\ \A j \in Ieee : j # i => stage'[j] = stage[j] /\ net'[j] = net[j]
    BY <1>7 DEF Leave
  <2> QED
    BY <2>1 DEF NetworkStep
<1>8. ASSUME NEW a \in Addr, Associate(i, a) PROVE NetworkStep(i)
  <2>1. /\ stage[i] = "out" /\ stage'[i] = "associated" /\ Appended("assoc", i, a) /\ Alone(i)
        /\ \A j \in Ieee : j # i => stage'[j] = stage[j] /\ net'[j] = net[j]
    BY <1>8, GivenTyped DEF Associate
  <2> QED
    BY <2>1 DEF NetworkStep
<1>9. ASSUME NEW a \in Addr, Rejoin(i, a) PROVE NetworkStep(i)
  <2>1. /\ stage[i] = "in" \/ (stage[i] = "out" /\ "router" \in Allow)
        /\ stage'[i] = "associated" /\ UNCHANGED sig /\ Alone(i)
        /\ \A j \in Ieee : j # i => stage'[j] = stage[j] /\ net'[j] = net[j]
    BY <1>9, GivenTyped DEF Rejoin
  <2> QED
    BY <2>1 DEF NetworkStep
<1> QED
  BY <1>1, <1>2, <1>4, <1>5, <1>6, <1>7, <1>8, <1>9

\* What is on its way stays, in its order; what is new is of that device.
LEMMA NetworkSignals ==
  ASSUME TypeOK, NEW i \in Ieee, NetworkStep(i)
  PROVE  /\ \A n \in DOMAIN sig : n \in DOMAIN sig' /\ sig'[n] = sig[n]
         /\ \A n \in DOMAIN sig' : n \in DOMAIN sig \/ sig'[n].ieee = i
         /\ \A k, j : /\ Waits(k, j) => Waits(k, j)'
                      /\ j # i /\ Waits(k, j)' => Waits(k, j)
         /\ \A k, j : \A n \in DOMAIN sig :
              /\ Is(n, k, j)' <=> Is(n, k, j)
              /\ Behind(n, k, j) => Behind(n, k, j)'
              /\ j # i /\ Behind(n, k, j)' => Behind(n, k, j)
              /\ Ahead(n, k, j) => Ahead(n, k, j)'
<1>1. UNCHANGED sig \/ \E kind, a : Appended(kind, i, a)
  BY DEF NetworkStep
<1>2. CASE UNCHANGED sig
  BY <1>2 DEF Waits, Is, Behind, Ahead
<1>3. ASSUME NEW kind, NEW a, Appended(kind, i, a)
      PROVE  /\ \A n \in DOMAIN sig : n \in DOMAIN sig' /\ sig'[n] = sig[n]
             /\ \A n \in DOMAIN sig' : n \in DOMAIN sig \/ sig'[n].ieee = i
  BY <1>3, AppendedIs
<1>4. ASSUME NEW kind, NEW a, Appended(kind, i, a), NEW k, NEW j
      PROVE  /\ Waits(k, j) => Waits(k, j)'
             /\ j # i /\ Waits(k, j)' => Waits(k, j)
             /\ \A n \in DOMAIN sig :
                  /\ Is(n, k, j)' <=> Is(n, k, j)
                  /\ Behind(n, k, j) => Behind(n, k, j)'
                  /\ j # i /\ Behind(n, k, j)' => Behind(n, k, j)
                  /\ Ahead(n, k, j) => Ahead(n, k, j)'
  BY <1>4, AppendedIs
<1> QED
  BY <1>1, <1>2, <1>3, <1>4

-----------------------------------------------------------------------------
(* Joins.                                                                  *)

LEMMA OneJoin ==
  ASSUME Apart, TypeOK, JoinInv, [Next]_vars
  PROVE  \A i, j \in Ieee : Joining(i)' /\ Joining(j)' => i = j
<1>1. \A i, j \in Ieee : Joining(i) /\ Joining(j) => i = j
  BY DEF JoinInv
<1>2. CASE \A i \in Ieee : Joining(i)' => Joining(i)
  BY <1>1, <1>2
<1>3. CASE Quiet
  BY <1>2, <1>3 DEF Quiet, Joining
<1>4. ASSUME NEW kind, Taken(kind) PROVE \A i \in Ieee : Joining(i)' => Joining(i)
  <2>1. \A n \in DOMAIN sig' : n + 1 \in DOMAIN sig /\ sig'[n] = sig[n + 1]
    BY <1>4, Popping DEF Taken
  <2> QED
    BY <1>4, <2>1 DEF Joining, Taken
<1>5. CASE Crash
  BY <1>2, <1>5, CrashEffect DEF Joining, Crash
<1>6. CASE Network
  <2>1. PICK i \in Ieee : NetworkStep(i)
    BY <1>6, NetworkSteps
  <2>2. \A n \in DOMAIN sig' : (n \in DOMAIN sig /\ sig'[n] = sig[n]) \/ sig'[n].ieee = i
    BY <1>1, <2>1, NetworkSignals
  <2>3. \A j \in Ieee : j # i /\ Joining(j)' => Joining(j)
    BY <2>1, <2>2 DEF Joining, NetworkStep
  <2>4. CASE Alone(i)
    <3>1. \A j \in Ieee : j # i => ~Joining(j)
      BY <2>4 DEF Alone, Apart, Joining
    <3> QED
      BY <2>3, <3>1
  <2>5. CASE stage[i] \in {"associated", "updated"}
    <3>1. Joining(i)
      BY <2>5 DEF Joining
    <3> QED
      BY <1>1, <2>3, <3>1
  <2>6. CASE /\ stage[i] = "in" /\ stage'[i] \in {"in", "out"}
             /\ UNCHANGED sig \/ Appended("report", i, net[i])
    <3>1. \A n \in DOMAIN sig' : (n \in DOMAIN sig /\ sig'[n] = sig[n]) \/ sig'[n].kind = "report"
      <4>1. Appended("report", i, net[i]) =>
              \A n \in DOMAIN sig' : (n \in DOMAIN sig /\ sig'[n] = sig[n]) \/ sig'[n].kind = "report"
        BY AppendedIs
      <4> QED
        BY <2>6, <4>1
    <3>2. Joining(i)' => Joining(i)
      BY <2>6, <3>1 DEF Joining
    <3> QED
      BY <1>1, <2>3, <3>2
  <2> QED
    BY <2>1, <2>4, <2>5, <2>6 DEF NetworkStep
<1> QED
  BY <1>2, <1>3, <1>4, <1>5, <1>6, AirSteps


\* A device whose association is on its way still has its update to come.
LEMMA UpdateFollows ==
  ASSUME TypeOK, JoinInv, [Next]_vars, NEW i \in Ieee, NEW n \in DOMAIN sig', Is(n, "assoc", i)'
  PROVE  stage'[i] = "associated" \/ Behind(n, "update", i)'
<1>1. \A m \in DOMAIN sig : Is(m, "assoc", i) => stage[i] = "associated" \/ Behind(m, "update", i)
  BY DEF JoinInv, Is
<1>2. CASE Quiet
  BY <1>1, <1>2 DEF Quiet, Is, Behind
<1>3. ASSUME NEW kind, Taken(kind) PROVE stage'[i] = "associated" \/ Behind(n, "update", i)'
  BY <1>1, <1>3, Popping DEF Taken
<1>4. CASE Crash
  BY <1>4, CrashEffect
<1>5. CASE Network
  <2>1. PICK j \in Ieee : NetworkStep(j)
    BY <1>5, NetworkSteps
  <2>2. stage[i] = "associated" =>
          stage'[i] = "associated" \/ (j = i /\ stage[j] = "associated" /\ Appended("update", i, net[i]))
    BY <2>1 DEF NetworkStep
  <2>3. CASE n \in DOMAIN sig /\ Is(n, "assoc", i)
    <3>1. Behind(n, "update", i) => Behind(n, "update", i)'
      BY <2>1, <2>3, NetworkSignals
    <3>2. Appended("update", i, net[i]) => Behind(n, "update", i)'
      BY <2>3, AppendedIs
    <3> QED
      BY <1>1, <2>2, <2>3, <3>1, <3>2
  <2>4. CASE ~(n \in DOMAIN sig /\ Is(n, "assoc", i))
    <3>1. n \notin DOMAIN sig /\ j = i
      BY <2>1, <2>4, NetworkSignals DEF Is
    <3>2. ASSUME NEW kind, kind # "assoc" PROVE ~Appended(kind, i, net[i])
      <4>1. Appended(kind, i, net[i]) => sig'[n].kind = kind
        BY <3>1, AppendedIs
      <4> QED
        BY <3>2, <4>1 DEF Is
    <3> QED
      BY <2>1, <3>1, <3>2 DEF NetworkStep
  <2> QED
    BY <2>3, <2>4
<1> QED
  BY <1>2, <1>3, <1>4, <1>5, AirSteps

\* An update that is pending stays so until it is taken.
LEMMA PendingStays ==
  ASSUME TypeOK, [Next]_vars, ~Crash, NEW i \in Ieee, UpdatePending(i),
         ~(Taken("update") /\ Head(sig).ieee = i)
  PROVE  UpdatePending(i)'
<1>1. CASE Quiet
  BY <1>1 DEF Quiet, UpdatePending, Waits, Is
<1>2. ASSUME NEW kind, Taken(kind) PROVE UpdatePending(i)'
  <2>1. ~Is(1, "update", i)
    BY <1>2, TakenIs
  <2> QED
    BY <1>2, <2>1, Popping DEF UpdatePending, Taken
<1>3. CASE Network
  <2>1. PICK j \in Ieee : NetworkStep(j)
    BY <1>3, NetworkSteps
  <2>2. Waits("update", i) => Waits("update", i)'
    BY <2>1, NetworkSignals
  <2>3. Appended("update", i, net[i]) => Waits("update", i)'
    BY AppendedIs
  <2>4. stage[i] = "associated" => stage'[i] = "associated" \/ Appended("update", i, net[i])
    BY <2>1 DEF NetworkStep
  <2> QED
    BY <2>2, <2>3, <2>4 DEF UpdatePending
<1> QED
  BY <1>1, <1>2, <1>3, AirSteps

LEMMA NamelessKept ==
  ASSUME Tidy, BaseInv, SeqParts, [Next]_vars,
         NEW d \in DOMAIN heap', heap'[d].short = Unknown, NEW i \in Ieee, heap'[d].ieee = i
  PROVE  UpdatePending(i)'
<1>1. TypeOK /\ RestInv /\ TabInv /\ OneOwner /\ JoinInv
  BY DEF BaseInv, SeqParts
<1>2. ASSUME ~Crash, d \in DOMAIN heap, heap[d].ieee = heap'[d].ieee, heap[d].short = Unknown,
             ~(Taken("update") /\ Head(sig).ieee = heap[d].ieee)
      PROVE  UpdatePending(i)'
  BY <1>1, <1>2, PendingStays DEF JoinInv
<1>3. CASE Crash
  BY <1>3, CrashEffect
<1>4. CASE HandleAssociated /\ Taken("assoc") /\ ~Crash
  <2> DEFINE x == [ieee |-> Head(sig).ieee, short |-> Unknown, desc |-> NoDev]
  <2>1. CASE UNCHANGED heap
    BY <1>2, <1>4, <2>1 DEF Taken
  <2>2. CASE heap' = Append(heap, x)
    <3>1. x \in Device /\ x.ieee = Head(sig).ieee
      BY <1>1, <1>4, AssociatedEffect
    <3> HIDE DEF x
    <3>2. DOMAIN heap' = DOMAIN heap \cup {Len(heap) + 1} /\ heap'[Len(heap) + 1] = x
          /\ \A e \in DOMAIN heap : heap'[e] = heap[e]
      BY <1>1, <2>2, <3>1, HeapGrows
    <3>3. CASE d \in DOMAIN heap
      BY <1>2, <1>4, <3>2, <3>3 DEF Taken
    <3>4. CASE d = Len(heap) + 1
      <4>1. i = Head(sig).ieee
        BY <3>1, <3>2, <3>4
      <4>2. Is(1, "assoc", i) /\ 1 \in DOMAIN sig
        BY <1>1, <1>4, <4>1, TakenIs
      <4>3. stage[i] = "associated" \/ Behind(1, "update", i)
        BY <1>1, <4>2 DEF JoinInv, Is
      <4>4. UpdatePending(i)'
        BY <1>1, <1>4, <4>3, Popping DEF UpdatePending, Taken
      <4> QED
        BY <4>4
    <3> QED
      BY <3>2, <3>3, <3>4
  <2> QED
    BY <1>1, <1>4, <2>1, <2>2, AssociatedEffect
<1>5. CASE HandleUpdate /\ Taken("update") /\ ~Crash
  <2>1. Head(sig).addr # Unknown
    BY <1>1, <1>5, TakenIs, Addresses
  <2>2. CASE /\ UNCHANGED heap
             /\ \A e \in DOMAIN heap : heap[e].ieee = Head(sig).ieee => heap[e].short = Head(sig).addr
    BY <1>2, <1>5, <2>1, <2>2
  <2>3. ASSUME NEW c \in DOMAIN heap, heap[c].ieee = Head(sig).ieee,
               heap' = [heap EXCEPT ![c].short = Head(sig).addr]
        PROVE  UpdatePending(i)'
    <3>1. /\ DOMAIN heap' = DOMAIN heap /\ heap'[c].short = Head(sig).addr
          /\ \A e \in DOMAIN heap : e # c => heap'[e] = heap[e]
      BY <1>1, <2>3, HeapIs DEF Device
    <3>2. d # c
      BY <2>1, <3>1
    <3>3. heap[d].ieee # Head(sig).ieee
      BY <1>1, <2>3, <3>1, <3>2 DEF TabInv
    <3> QED
      BY <1>2, <1>5, <3>1, <3>2, <3>3
  <2> QED
    BY <1>1, <1>5, <2>2, <2>3, UpdateEffect
<1>6. CASE SameAddresses /\ (Taken("auth") \/ Taken("report") \/ Quiet) /\ ~Crash
  <2>1. Quiet \/ sig = <<>> \/ Head(sig).kind # "update"
    BY <1>6 DEF Taken
  <2>2. Quiet /\ Taken("update") => UNCHANGED sig /\ sig' = Tail(sig) /\ sig # <<>>
    BY DEF Quiet, Taken
  <2>3. ~(Quiet /\ Taken("update"))
    BY <1>1, <2>2 DEF TypeOK
  <2>4. ~Taken("update")
    BY <2>1, <2>3 DEF Taken
  <2> QED
    BY <1>2, <1>6, <2>4 DEF SameAddresses
<1>7. ASSUME NEW e \in loading, LoadEntry(e), Quiet, ~Crash PROVE UpdatePending(i)'
  <2> DEFINE f == files[e.file]
  <2>1. IndexTruthful
    BY Truthful
  <2>2. ~Taken("update")
    <3>1. Taken("update") => UNCHANGED sig /\ sig' = Tail(sig) /\ sig # <<>>
      BY <1>7 DEF Quiet, Taken
    <3> QED
      BY <1>1, <3>1 DEF TypeOK
  <2>3. CASE UNCHANGED heap
    BY <1>2, <1>7, <2>2, <2>3
  <2>4. CASE heap' = Append(heap, f) /\ f \in Device /\ f.short = e.file /\ e.file \in Addr
    <3>1. DOMAIN heap' = DOMAIN heap \cup {Len(heap) + 1} /\ heap'[Len(heap) + 1] = f
          /\ \A c \in DOMAIN heap : heap'[c] = heap[c]
      BY <1>1, <2>4, HeapGrows
    <3> QED
      BY <1>2, <1>7, <2>2, <2>4, <3>1, Addresses
  <2> QED
    BY <1>1, <1>7, <2>1, <2>3, <2>4, LoadEffect
<1>8. Network => ~Crash
  BY <1>1, NetworkSteps DEF Crash, TypeOK
<1>9. CASE Network
  <2>1. UNCHANGED heap
    BY <1>1, <1>9, NetworkSteps
  <2>2. Len(sig') >= Len(sig)
    <3>1. \E s : sig' \in {sig, Append(sig, s)}
      BY <1>1, <1>9, NetworkSteps DEF NetworkStep, Appended
    <3> QED
      BY <1>1, <3>1 DEF TypeOK
  <2>3. Taken("update") => Len(sig') < Len(sig)
    BY <1>1 DEF Taken, TypeOK
  <2>4. ~Taken("update")
    BY <1>1, <2>2, <2>3 DEF TypeOK
  <2> QED
    BY <1>2, <1>8, <1>9, <2>1, <2>4
<1> QED
  BY <1>1, <1>3, <1>4, <1>5, <1>6, <1>7, <1>9, AirSteps

LEMMA JoinKept ==
  ASSUME Apart, Tidy, BaseInv, SeqParts, [Next]_vars
  PROVE  JoinInv'
<1>1. TypeOK /\ JoinInv
  BY DEF BaseInv, SeqParts
<1>2. /\ \A n \in DOMAIN sig' : sig'[n].ieee \in Ieee
      /\ \A d \in DOMAIN heap' : heap'[d].ieee \in Ieee
  <2>1. sig' \in Seq(Signal) /\ heap' \in Seq(Device)
    BY TypesKept DEF BaseInv, TypeOK
  <2>2. /\ \A n \in DOMAIN sig' : sig'[n] \in Signal
        /\ \A d \in DOMAIN heap' : heap'[d] \in Device
    BY <2>1, ElementOfSeq
  <2> QED
    BY <2>2 DEF Signal, Device
<1>3. \A n \in DOMAIN sig' : sig'[n].kind = "assoc" =>
        stage'[sig'[n].ieee] = "associated" \/ Behind(n, "update", sig[n].ieee)'
  BY <1>1, <1>2, UpdateFollows DEF Is
<1>4. \A d \in DOMAIN heap' : heap'[d].short = Unknown => UpdatePending(heap[d].ieee)'
  BY <1>2, NamelessKept
<1>5. \A i, j \in Ieee : Joining(i)' /\ Joining(j)' => i = j
  BY <1>1, OneJoin
<1> QED
  BY <1>3, <1>4, <1>5 DEF JoinInv

-----------------------------------------------------------------------------
(* Addresses learned.                                                      *)

\* Until a restart no device goes, and only an update gives one another address.
LEMMA HeapSteps ==
  ASSUME Tidy, BaseInv, SeqParts, [Next]_vars, ~Crash, NEW d \in DOMAIN heap
  PROVE  /\ d \in DOMAIN heap' /\ heap'[d].ieee = heap[d].ieee
         /\ \/ heap'[d].short = heap[d].short
            \/ /\ HandleUpdate /\ heap[d].ieee = Head(sig).ieee
               /\ heap'[d].short = Head(sig).addr
<1>1. TypeOK /\ RestInv /\ TabInv /\ OneOwner /\ JoinInv
  BY DEF BaseInv, SeqParts
<1>2. CASE SameAddresses \/ UNCHANGED heap
  BY <1>2 DEF SameAddresses
<1>3. ASSUME NEW x \in Device, heap' = Append(heap, x) PROVE d \in DOMAIN heap' /\ heap'[d] = heap[d]
  BY <1>1, <1>3, HeapGrows
<1>4. HandleAssociated => UNCHANGED heap \/ \E x \in Device : heap' = Append(heap, x)
  BY <1>1, AssociatedEffect
<1>5. (\E e \in loading : LoadEntry(e)) => UNCHANGED heap \/ \E x \in Device : heap' = Append(heap, x)
  BY <1>1, LoadEffect, Truthful
<1>6. CASE HandleUpdate
  <2>1. ASSUME NEW c \in DOMAIN heap, heap[c].ieee = Head(sig).ieee,
               heap' = [heap EXCEPT ![c].short = Head(sig).addr]
        PROVE  /\ DOMAIN heap' = DOMAIN heap /\ heap'[c].ieee = heap[c].ieee
               /\ heap'[c].short = Head(sig).addr
               /\ \A e \in DOMAIN heap : e # c => heap'[e] = heap[e]
    BY <1>1, <2>1, HeapIs DEF Device
  <2> QED
    BY <1>1, <1>2, <1>6, <2>1, UpdateEffect
<1> QED
  BY <1>1, <1>2, <1>3, <1>4, <1>5, <1>6, StillEffect

LEMMA StillKnown ==
  ASSUME Tidy, BaseInv, SeqParts, [Next]_vars, ~Crash, NEW i, Known(i)
  PROVE  Known(i)'
BY HeapSteps DEF Known

LEMMA NowKnown ==
  ASSUME BaseInv, SeqParts, HandleAssociated
  PROVE  \A i : i = Head(sig).ieee => Known(i)'
<1>1. TypeOK /\ TabInv
  BY DEF BaseInv, SeqParts
<1> DEFINE x == [ieee |-> Head(sig).ieee, short |-> Unknown, desc |-> NoDev]
<1>2. CASE Known(Head(sig).ieee) /\ UNCHANGED heap
  BY <1>2 DEF Known
<1>3. CASE heap' = Append(heap, x)
  <2>1. x \in Device /\ x.ieee = Head(sig).ieee
    BY <1>1, AssociatedEffect
  <2> HIDE DEF x
  <2>2. Len(heap) + 1 \in DOMAIN heap' /\ heap'[Len(heap) + 1] = x
    BY <1>1, <1>3, <2>1, HeapGrows
  <2> QED
    BY <2>1, <2>2 DEF Known
<1> QED
  BY <1>1, <1>2, <1>3, AssociatedEffect

LEMMA NoCrash ==
  ASSUME BaseInv, [Next]_vars, crashes' = 0
  PROVE  crashes = 0 /\ loading = {} /\ ~Crash
<1>1. TypeOK /\ RestInv
  BY DEF BaseInv
<1>2. ~Crash
  BY <1>1 DEF Crash, TypeOK
<1>3. UNCHANGED crashes
  BY <1>2 DEF Next, Network, EmitUpdate, EmitAuthorized, EmitReport, Leave, Associate, Rejoin,
         Handle, HandleAssociated, HandleUpdate, HandleAuthorized, HandleReport, Received,
         ActiveEpResp, SimpleDescResp, AnswerFails, AnswerFrom, Save, SaveOpen, SaveWrite,
         SaveUnlink, SaveRename, WebSave, LoadEntry, vars
<1> QED
  BY <1>1, <1>2, <1>3 DEF RestInv

\* A device is known before its update is taken, or its association comes first.
LEMMA MetFirst ==
  ASSUME Tidy, BaseInv, SeqParts, [Next]_vars, "router" \notin Allow, crashes' = 0, NEW i \in Ieee
  PROVE  /\ stage'[i] # "out" => Known(i)' \/ Waits("assoc", i)'
         /\ \A m \in DOMAIN sig' : Is(m, "update", i)' => Known(i)' \/ Ahead(m, "assoc", i)'
<1>1. TypeOK /\ RestInv /\ TabInv
  BY DEF BaseInv, SeqParts
<1>2. crashes = 0 /\ loading = {} /\ ~Crash
  BY NoCrash
<1>3. /\ stage[i] # "out" => Known(i) \/ Waits("assoc", i)
      /\ \A m \in DOMAIN sig : Is(m, "update", i) => Known(i) \/ Ahead(m, "assoc", i)
  BY <1>2 DEF SeqParts, LearnInv
<1>4. Known(i) => Known(i)'
  BY <1>2, StillKnown
<1>5. CASE Quiet
  BY <1>3, <1>4, <1>5 DEF Quiet, Waits, Is, Ahead
<1>6. ASSUME NEW kind, Taken(kind), kind = "assoc" => HandleAssociated
      PROVE  /\ stage'[i] # "out" => Known(i)' \/ Waits("assoc", i)'
             /\ \A m \in DOMAIN sig' : Is(m, "update", i)' => Known(i)' \/ Ahead(m, "assoc", i)'
  <2>1. Is(1, "assoc", i) => Known(i)'
    BY <1>1, <1>6, TakenIs, NowKnown
  <2>2. UNCHANGED stage /\ sig # <<>> /\ sig' = Tail(sig)
    BY <1>6 DEF Taken
  <2>3. Waits("assoc", i) => Is(1, "assoc", i) \/ Waits("assoc", i)'
    BY <1>1, <2>2, Popping
  <2>4. \A m \in DOMAIN sig' :
          /\ m + 1 \in DOMAIN sig /\ (Is(m, "update", i)' <=> Is(m + 1, "update", i))
          /\ Ahead(m + 1, "assoc", i) => Is(1, "assoc", i) \/ Ahead(m, "assoc", i)'
    BY <1>1, <2>2, Popping
  <2> QED
    BY <1>3, <1>4, <2>1, <2>2, <2>3, <2>4
<1>7. CASE Network
  <2>1. PICK j \in Ieee : NetworkStep(j)
    BY <1>1, <1>7, NetworkSteps
  <2>2. CASE stage'[i] # "out" /\ stage[i] = "out"
    <3>1. PICK a : j = i /\ Appended("assoc", i, a)
      BY <2>1, <2>2 DEF NetworkStep
    <3>2. Waits("assoc", i)'
      BY <1>1, <3>1, AppendedIs
    <3>3. \A m \in DOMAIN sig' : Is(m, "update", i)' => m \in DOMAIN sig /\ Is(m, "update", i)
      BY <1>1, <3>1, AppendedIs DEF Is
    <3> QED
      BY <1>1, <1>3, <1>4, <2>1, <3>2, <3>3, NetworkSignals
  <2>3. Waits("assoc", i) => Waits("assoc", i)'
    BY <1>1, <2>1, NetworkSignals
  <2>4. CASE ~(stage'[i] # "out" /\ stage[i] = "out")
    <3>1. ASSUME NEW m \in DOMAIN sig', Is(m, "update", i)' PROVE Known(i)' \/ Ahead(m, "assoc", i)'
      <4>1. CASE m \in DOMAIN sig
        BY <1>1, <1>3, <1>4, <2>1, <3>1, <4>1, NetworkSignals
      <4>2. CASE m \notin DOMAIN sig
        <5>1. j = i
          BY <1>1, <2>1, <3>1, <4>2, NetworkSignals DEF Is
        <5>2. \A kind, a : Appended(kind, i, a) => kind = "update"
          BY <1>1, <3>1, <4>2, AppendedIs DEF Is
        <5>3. stage[i] # "out" /\ Appended("update", i, net[i])
          BY <2>1, <4>2, <5>1, <5>2 DEF NetworkStep
        <5>4. Ahead(m, "assoc", i)' <=> Waits("assoc", i)
          BY <1>1, <4>2, <5>3, AppendedIs
        <5> QED
          BY <1>3, <1>4, <5>3, <5>4
      <4> QED
        BY <4>1, <4>2
    <3> QED
      BY <1>3, <1>4, <2>3, <2>4, <3>1
  <2> QED
    BY <2>2, <2>4
<1>8. (Taken("auth") => "auth" # "assoc") /\ (Taken("report") => "report" # "assoc")
  OBVIOUS
<1> QED
  BY <1>1, <1>2, <1>5, <1>6, <1>7, <1>8, AirSteps

\* When its last update is taken a device that is in is known under its address.
LEMMA ToldOrLearned ==
  ASSUME Tidy, BaseInv, SeqParts, [Next]_vars, "router" \notin Allow, crashes' = 0, NEW i \in Ieee,
         stage'[i] \in {"updated", "in"}
  PROVE  Told(i)' \/ Learned(i)'
<1>1. TypeOK /\ RestInv /\ TabInv /\ OneOwner /\ JoinInv
  BY DEF BaseInv, SeqParts
<1>2. crashes = 0 /\ loading = {} /\ ~Crash
  BY NoCrash
<1>3. /\ stage[i] \in {"updated", "in"} => Told(i) \/ Learned(i)
      /\ \A m \in DOMAIN sig : Is(m, "update", i) => Known(i) \/ Ahead(m, "assoc", i)
  BY <1>2 DEF SeqParts, LearnInv
<1>4. ASSUME NEW d \in DOMAIN heap, heap[d].ieee = i, ~(Taken("update") /\ Head(sig).ieee = i)
      PROVE  d \in DOMAIN heap' /\ heap'[d].ieee = i /\ heap'[d].short = heap[d].short
  <2>1. HandleUpdate => Taken("update")
    BY DEF HandleUpdate, Received, Taken
  <2> QED
    BY <1>2, <1>4, <2>1, HeapSteps
<1>5. CASE Quiet /\ ~Taken("update")
  BY <1>3, <1>4, <1>5 DEF Quiet, Told, Learned, Waits, Is, Behind
<1>6. ASSUME NEW kind, Taken(kind)
      PROVE  /\ UNCHANGED <<net, stage>>
             /\ Waits("update", i)' => Waits("update", i)
             /\ \A n \in DOMAIN sig : n # 1 =>
                  /\ n - 1 \in DOMAIN sig' /\ sig'[n - 1] = sig[n]
                  /\ Is(n - 1, "update", i)' <=> Is(n, "update", i)
                  /\ Behind(n - 1, "update", i)' <=> Behind(n, "update", i)
  <2>1. sig # <<>> /\ sig' = Tail(sig) /\ UNCHANGED <<net, stage>>
    BY <1>6 DEF Taken
  <2>2. \A n \in DOMAIN sig : n \in Nat /\ (n - 1) + 1 = n
    BY <1>1 DEF TypeOK
  <2> QED
    BY <1>1, <2>1, <2>2, Popping
<1>7. ASSUME NEW kind, Taken(kind), ~Is(1, "update", i), ~(Taken("update") /\ Head(sig).ieee = i)
      PROVE  Told(i)' \/ Learned(i)'
  <2>1. CASE Told(i)
    <3>1. PICK n \in DOMAIN sig : Is(n, "update", i) /\ sig[n].addr = net[i] /\ ~Behind(n, "update", i)
      BY <2>1 DEF Told
    <3>2. n # 1
      BY <1>7, <3>1
    <3> QED
      BY <1>6, <1>7, <3>1, <3>2 DEF Told
  <2>2. CASE Learned(i)
    BY <1>4, <1>6, <1>7, <2>2 DEF Learned
  <2> QED
    BY <1>3, <1>6, <1>7, <2>1, <2>2
<1>8. CASE HandleUpdate /\ Taken("update")
  <2>1. /\ 1 \in DOMAIN sig /\ sig[1] = Head(sig) /\ sig[1].addr \in Addr
        /\ Is(1, "update", i) <=> i = Head(sig).ieee
    BY <1>1, <1>8, TakenIs
  <2>2. CASE ~Is(1, "update", i)
    BY <1>7, <1>8, <2>1, <2>2
  <2>3. CASE Is(1, "update", i)
    <3>1. Waits("update", i)
      BY <2>1, <2>3 DEF Waits
    <3>2. PICK n \in DOMAIN sig : Is(n, "update", i) /\ sig[n].addr = net[i] /\ ~Behind(n, "update", i)
      BY <1>3, <1>6, <1>8, <3>1 DEF Told, Learned
    <3>3. CASE n # 1
      BY <1>6, <1>8, <3>2, <3>3 DEF Told
    <3>4. CASE n = 1
      <4>1. ~Waits("update", i)'
        BY <1>1, <1>8, <3>2, <3>4, Popping DEF Taken
      <4>2. ~Ahead(1, "assoc", i)
        BY <1>1 DEF Ahead, TypeOK
      <4>3. Known(i)
        BY <1>3, <2>1, <2>3, <4>2
      <4>4. net'[i] = Head(sig).addr
        BY <1>6, <1>8, <2>1, <3>2, <3>4
      <4>5. CASE /\ UNCHANGED heap
                 /\ \A d \in DOMAIN heap : heap[d].ieee = Head(sig).ieee => heap[d].short = Head(sig).addr
        BY <2>1, <2>3, <4>1, <4>3, <4>4, <4>5 DEF Learned, Known
      <4>6. ASSUME NEW c \in DOMAIN heap, heap[c].ieee = Head(sig).ieee,
                   heap' = [heap EXCEPT ![c].short = Head(sig).addr]
            PROVE  Learned(i)'
        <5>1. DOMAIN heap' = DOMAIN heap /\ heap'[c].ieee = heap[c].ieee
              /\ heap'[c].short = Head(sig).addr
          BY <1>1, <4>6, HeapIs DEF Device
        <5> QED
          BY <2>1, <2>3, <4>1, <4>4, <4>6, <5>1 DEF Learned
      <4> QED
        BY <1>1, <1>8, <4>5, <4>6, UpdateEffect
    <3> QED
      BY <3>3, <3>4
  <2> QED
    BY <2>2, <2>3
<1>9. ASSUME NEW kind, Taken(kind), kind # "update" PROVE Told(i)' \/ Learned(i)'
  <2>1. ~Is(1, "update", i) /\ ~Taken("update")
    BY <1>1, <1>9, TakenIs DEF Taken
  <2> QED
    BY <1>7, <1>9, <2>1
<1>10. Quiet \/ Network => ~Taken("update")
  <2>1. Taken("update") => Len(sig') < Len(sig)
    BY <1>1 DEF Taken, TypeOK
  <2>2. Network => \E s : sig' \in {sig, Append(sig, s)}
    BY <1>1, NetworkSteps DEF NetworkStep, Appended
  <2>3. Quiet \/ Network => Len(sig') >= Len(sig)
    BY <1>1, <2>2 DEF TypeOK, Quiet
  <2> QED
    BY <1>1, <2>1, <2>3 DEF TypeOK
<1>11. CASE Network
  <2>1. PICK j \in Ieee : NetworkStep(j)
    BY <1>1, <1>11, NetworkSteps
  <2>2. CASE j = i /\ Appended("update", i, net[i]) /\ net'[i] = net[i]
    <3>1. PICK l \in DOMAIN sig' : l \notin DOMAIN sig
      BY <1>1, <2>2, AppendedIs
    <3>2. Is(l, "update", i)' /\ sig'[l].addr = net[i] /\ ~Behind(l, "update", i)'
      BY <1>1, <2>2, <3>1, AppendedIs
    <3> QED
      BY <2>2, <3>1, <3>2 DEF Told
  <2>3. ASSUME stage[i] \in {"updated", "in"}, net'[i] = net[i],
               \A n \in DOMAIN sig : /\ n \in DOMAIN sig' /\ sig'[n] = sig[n]
                                     /\ Is(n, "update", i)' <=> Is(n, "update", i)
                                     /\ Behind(n, "update", i)' => Behind(n, "update", i),
               Waits("update", i)' => Waits("update", i)
        PROVE  Told(i)' \/ Learned(i)'
    <3>1. Told(i) => Told(i)'
      BY <2>3 DEF Told
    <3>2. Learned(i) => Learned(i)'
      BY <1>4, <1>10, <1>11, <2>3 DEF Learned
    <3> QED
      BY <1>3, <2>3, <3>1, <3>2
  <2>4. CASE j # i
    BY <1>1, <2>1, <2>3, <2>4, NetworkSignals DEF NetworkStep
  <2>5. ASSUME j = i, NEW kind, kind # "update", Appended(kind, i, net[i]),
               stage[i] \in {"updated", "in"}, net'[i] = net[i]
        PROVE  Told(i)' \/ Learned(i)'
    BY <1>1, <2>3, <2>5, AppendedIs
  <2>6. CASE j = i /\ ~Appended("update", i, net[i])
    <3>1. /\ stage[i] \in {"updated", "in"} /\ net'[i] = net[i]
          /\ Appended("auth", i, net[i]) \/ Appended("report", i, net[i])
      BY <2>1, <2>6 DEF NetworkStep
    <3> QED
      BY <2>5, <2>6, <3>1
  <2>7. CASE j = i /\ Appended("update", i, net[i]) /\ net'[i] # net[i]
    <3>1. \E kind \in {"assoc"} : \E a \in Addr : Appended(kind, i, a)
      BY <2>1, <2>7 DEF NetworkStep
    <3> QED
      BY <2>1, <2>7, <3>1 DEF NetworkStep
  <2> QED
    BY <2>2, <2>4, <2>6, <2>7
<1> QED
  BY <1>1, <1>2, <1>5, <1>8, <1>9, <1>10, <1>11, AirSteps

LEMMA LearnKept ==
  ASSUME Tidy, BaseInv, SeqParts, [Next]_vars
  PROVE  LearnInv'
BY MetFirst, ToldOrLearned DEF LearnInv

-----------------------------------------------------------------------------
(* Descriptions.                                                           *)

\* The one device known under an address is the one the network means by it.
LEMMA HolderIs ==
  ASSUME TypeOK, OneOwner, NEW d \in DOMAIN heap, heap[d].short \in Addr
  PROVE  Holder(heap[d].short) \in {NoDev, heap[d].ieee}
<1> DEFINE a == heap[d].short
<1>1. CASE \E i \in Ieee : net[i] = a
  <2>1. Holder(a) \in Ieee /\ net[Holder(a)] = a
    BY <1>1 DEF Holder
  <2>2. Claims(Holder(a), a) /\ Claims(heap[d].ieee, a) /\ heap[d].ieee \in Ieee
    BY <2>1, HeapIs DEF Claims
  <2> QED
    BY <2>1, <2>2 DEF OneOwner
<1>2. CASE ~\E i \in Ieee : net[i] = a
  BY <1>2 DEF Holder
<1> QED
  BY <1>1, <1>2

\* The device known under the address of a signal is the one it is about.
LEMMA SignalMeans ==
  ASSUME TypeOK, TabInv, OneOwner, NEW kind, Received(kind), FindShort(Head(sig).addr) # Null
  PROVE  /\ FindShort(Head(sig).addr) \in DOMAIN heap
         /\ heap[FindShort(Head(sig).addr)].short = Head(sig).addr
         /\ heap[FindShort(Head(sig).addr)].ieee = Head(sig).ieee
<1> DEFINE d == FindShort(Head(sig).addr)
<1>1. d \in DOMAIN heap /\ heap[d].short = Head(sig).addr /\ heap[d].ieee \in Ieee
  BY Found, HeapIs
<1>2. /\ Head(sig).ieee \in Ieee /\ Head(sig).addr \in Addr
      /\ 1 \in DOMAIN sig /\ sig[1] = Head(sig)
  BY SignalRead, Popping
<1>3. Claims(heap[d].ieee, Head(sig).addr) /\ Claims(Head(sig).ieee, Head(sig).addr)
  BY <1>1, <1>2 DEF Claims
<1> QED
  BY <1>1, <1>2, <1>3 DEF OneOwner

\* An answer is taken for the device that was asked.
LEMMA AnswerMeans ==
  ASSUME TypeOK, RestInv, TabInv, NEW q \in asks
  PROVE  /\ q.ctx \in DOMAIN heap /\ heap[q.ctx].short \in Addr /\ heap[q.ctx].short # Unknown
         /\ Addressee(q) = q.ctx
<1>1. q.ctx \in DOMAIN heap /\ heap[q.ctx].short \in Addr
  BY DEF TypeOK, RestInv
<1> QED
  BY <1>1, Found, Addresses DEF Addressee

\* What a step writes into a device.
LEMMA DescWritten ==
  ASSUME Tidy, BaseInv, SeqParts, [Next]_vars, NEW d \in DOMAIN heap', heap'[d].desc # NoDev
  PROVE  heap'[d].desc = heap'[d].ieee
<1>1. TypeOK /\ RestInv /\ TabInv /\ OneOwner /\ JoinInv /\ DescInv
  BY DEF BaseInv, SeqParts
<1>2. CASE d \in DOMAIN heap /\ heap'[d].ieee = heap[d].ieee /\ heap'[d].desc = heap[d].desc
  BY <1>1, <1>2 DEF DescInv
<1>3. ASSUME NEW x \in Device, heap' = Append(heap, x), x.desc \in {NoDev, x.ieee}
      PROVE  heap'[d].desc = heap'[d].ieee
  <2>1. DOMAIN heap' = DOMAIN heap \cup {Len(heap) + 1} /\ heap'[Len(heap) + 1] = x
        /\ \A c \in DOMAIN heap : heap'[c] = heap[c]
    BY <1>1, <1>3, HeapGrows
  <2> QED
    BY <1>2, <1>3, <2>1
<1>4. CASE HandleAssociated
  BY <1>1, <1>2, <1>3, <1>4, AssociatedEffect
<1>5. CASE HandleUpdate
  <2>1. ASSUME NEW c \in DOMAIN heap, heap' = [heap EXCEPT ![c].short = Head(sig).addr]
        PROVE  d \in DOMAIN heap /\ heap'[d].ieee = heap[d].ieee /\ heap'[d].desc = heap[d].desc
    BY <1>1, <2>1, HeapIs DEF Device
  <2> QED
    BY <1>1, <1>2, <1>5, <2>1, UpdateEffect
<1>6. CASE HandleReport
  <2> DEFINE c == FindShort(Head(sig).addr)
  <2>1. CASE UNCHANGED heap
    BY <1>2, <2>1
  <2>2. CASE c # Null /\ heap' = [heap EXCEPT ![c].desc = Head(sig).ieee]
    <3>1. c \in DOMAIN heap /\ heap[c].ieee = Head(sig).ieee
      BY <1>1, <1>6, <2>2, SignalMeans DEF HandleReport
    <3>2. /\ SameAddresses
          /\ \A e \in DOMAIN heap : heap'[e] = heap[e] \/ (e = c /\ heap'[e].desc = Head(sig).ieee)
      BY <1>1, <2>2, <3>1, DescSteps
    <3> QED
      BY <1>2, <3>1, <3>2 DEF SameAddresses
  <2> QED
    BY <1>6, <2>1, <2>2 DEF HandleReport
<1>7. ASSUME NEW q \in asks, SimpleDescResp(q) PROVE heap'[d].desc = heap'[d].ieee
  <2>1. q.ctx \in DOMAIN heap /\ Addressee(q) = q.ctx /\ heap[q.ctx].short # Unknown
    BY <1>1, AnswerMeans
  <2>2. q.of = heap[q.ctx].ieee
    BY <1>1, <1>7 DEF SimpleDescResp, AnswerFrom, DescInv
  <2>3. q.ctx # Null /\ heap' = [heap EXCEPT ![q.ctx].desc = q.of]
    BY <1>1, <1>7, <2>1, HeapIs DEF SimpleDescResp
  <2>4. /\ SameAddresses
        /\ \A e \in DOMAIN heap : heap'[e] = heap[e] \/ (e = q.ctx /\ heap'[e].desc = q.of)
    BY <1>1, <2>1, <2>3, DescSteps
  <2> QED
    BY <1>2, <2>2, <2>4 DEF SameAddresses
<1>8. CASE Crash
  BY <1>8, CrashEffect
<1>9. ASSUME NEW e \in loading, LoadEntry(e) PROVE heap'[d].desc = heap'[d].ieee
  <2>1. IndexTruthful
    BY Truthful
  <2>2. e.file \in DOMAIN files
    BY <1>1 DEF RestInv, TypeOK, Entry
  <2>3. Readable(e.file) => files[e.file].desc \in {NoDev, files[e.file].ieee}
    BY <1>1, <2>2 DEF DescInv
  <2> QED
    BY <1>1, <1>2, <1>3, <1>9, <2>1, <2>3, LoadEffect
<1>10. UNCHANGED heap \/ HandleAssociated \/ HandleUpdate \/ HandleReport \/ Crash
       \/ (\E q \in asks : SimpleDescResp(q)) \/ (\E e \in loading : LoadEntry(e))
  BY DEF Next, Network, EmitUpdate, EmitAuthorized, EmitReport, Leave, Associate, Rejoin, Handle,
         HandleAuthorized, ActiveEpResp, AnswerFails, Save, SaveOpen, SaveWrite, SaveUnlink,
         SaveRename, WebSave, vars, host
<1> QED
  BY <1>2, <1>4, <1>5, <1>6, <1>7, <1>8, <1>9, <1>10

\* Who is asked: the device known under an address, and the answer comes from its holder.
LEMMA Askings ==
  ASSUME Tidy, BaseInv, SeqParts, [Next]_vars, NEW q \in asks'
  PROVE  /\ q.ctx \in DOMAIN heap /\ ~Crash
         /\ q.of \in {NoDev, heap[q.ctx].ieee}
<1>1. TypeOK /\ SaveInv /\ RestInv /\ TabInv /\ OneOwner /\ DescInv
  BY DEF BaseInv, SeqParts
<1>2. ~Crash
  BY DEF Crash
<1>3. CASE q \in asks
  BY <1>1, <1>2, <1>3 DEF TypeOK, DescInv
<1>4. CASE HandleAuthorized /\ q \notin asks
  <2> DEFINE d == FindShort(Head(sig).addr)
  <2>1. d # Null /\ q = [ctx |-> d, step |-> "ep", of |-> Holder(Head(sig).addr)]
    BY <1>4 DEF HandleAuthorized
  <2>2. d \in DOMAIN heap /\ heap[d].short = Head(sig).addr /\ Head(sig).addr \in Addr
    BY <1>1, <1>4, <2>1, SignalMeans, SignalRead DEF HandleAuthorized
  <2>3. Holder(heap[d].short) \in {NoDev, heap[d].ieee}
    BY <1>1, <2>2, HolderIs
  <2> QED
    BY <1>2, <2>1, <2>2, <2>3
<1>5. ASSUME TaskEnds(zbTask.dev), q \notin asks
      PROVE  q.ctx \in DOMAIN heap /\ q.of \in {NoDev, heap[q.ctx].ieee}
  <2> DEFINE d == zbTask.dev
  <2>1. zbTask.ask /\ q = [ctx |-> d, step |-> "desc", of |-> Holder(heap[d].short)]
    BY <1>5 DEF TaskEnds
  <2>2. d \in DOMAIN heap /\ heap[d].short \in Addr
    BY <1>1, <2>1 DEF RestInv, TypeOK, NoTask
  <2> QED
    BY <1>1, <2>1, <2>2, HolderIs
<1>6. asks' = asks \/ asks' \subseteq asks \/ HandleAuthorized \/ TaskEnds(zbTask.dev)
  <2>1. save.step = "rename" /\ save.by = "zb" => save.obj = zbTask.dev
    BY <1>1 DEF SaveInv
  <2> QED
    BY <1>2, <2>1 DEF Next, Network, EmitUpdate, EmitAuthorized, EmitReport, Leave, Associate, Rejoin,
       Handle, HandleAssociated, HandleUpdate, HandleReport, ActiveEpResp, SimpleDescResp,
       AnswerFails, AnswerFrom, Save, SaveOpen, OpenFile, SaveWrite, SaveUnlink, SaveRename, WebSave,
       LoadEntry, vars, host
<1> QED
  BY <1>2, <1>3, <1>4, <1>5, <1>6

\* What a step writes into a file is a device of the base.
LEMMA FileWritten ==
  ASSUME BaseInv, [Next]_vars, NEW a \in DOMAIN files'
  PROVE  \/ files'[a] \in {files[a], Broken} /\ a \in DOMAIN files
         \/ /\ SaveWrite /\ a = heap[save.obj].short /\ files'[a] = heap[save.obj]
            /\ save.obj \in DOMAIN heap /\ a \in Addr
<1>1. TypeOK /\ SaveInv
  BY DEF BaseInv
<1>2. UNCHANGED files \/ SaveWrite \/ \E d, by : OpenFile(d, by)
  BY HandlerFrame DEF Next, Network, EmitUpdate, EmitAuthorized, EmitReport, Leave, Associate, Rejoin,
     Save, SaveOpen, SaveUnlink, SaveRename, WebSave, Crash, LoadEntry, vars, disk
<1>3. CASE \E d, by : OpenFile(d, by)
  BY <1>1, <1>3 DEF OpenFile, TypeOK
<1>4. CASE SaveWrite
  <2>1. save.obj \in DOMAIN heap /\ heap[save.obj].short \in Addr
    BY <1>1, <1>4 DEF SaveWrite, SaveInv
  <2> QED
    BY <1>1, <1>4, <2>1 DEF SaveWrite, TypeOK
<1> QED
  BY <1>2, <1>3, <1>4

LEMMA DescKept ==
  ASSUME Tidy, BaseInv, SeqParts, [Next]_vars
  PROVE  DescInv'
<1>1. TypeOK /\ DescInv
  BY DEF BaseInv, SeqParts
<1>2. \A q \in asks' : q.of \in {NoDev, heap'[q.ctx].ieee}
  BY Askings, HeapSteps
<1>3. \A d \in DOMAIN heap' : heap'[d].desc \in {NoDev, heap'[d].ieee}
  BY DescWritten
<1>4. ASSUME NEW a \in DOMAIN files', Readable(a)'
      PROVE  files'[a].desc \in {NoDev, files'[a].ieee}
  <2>1. files'[a] \notin {NoFile, Broken}
    BY <1>4 DEF Readable
  <2>2. CASE files'[a] = files[a] /\ a \in DOMAIN files
    BY <1>1, <2>1, <2>2 DEF DescInv, Readable
  <2>3. ASSUME NEW d \in DOMAIN heap, files'[a] = heap[d]
        PROVE  files'[a].desc \in {NoDev, files'[a].ieee}
    BY <1>1, <2>3 DEF DescInv
  <2> QED
    BY <2>1, <2>2, <2>3, FileWritten
<1> QED
  BY <1>2, <1>3, <1>4 DEF DescInv

-----------------------------------------------------------------------------
(* Descriptions, whatever the environment does: devices are taken for each *)
(* other only if they had to share an address.                             *)

\* Files of former addresses name a device too.
Names(i, a) == Claims(i, a) \/ (Readable(a) /\ files[a].ieee = i)

Mixed(i, j) == i = j \/ {i, j} \subseteq shared
Owns(i, x)  == x = NoDev \/ Mixed(i, x)

MixInv ==
  /\ \A a \in Addr : \A i, j \in Ieee : Names(i, a) /\ Names(j, a) => Mixed(i, j)
  /\ \A q \in asks : Owns(heap[q.ctx].ieee, q.of)
  /\ \A d \in DOMAIN heap : Owns(heap[d].ieee, heap[d].desc)
  /\ \A a \in DOMAIN files : Readable(a) => Owns(files[a].ieee, files[a].desc)

\* What a step may do to a device: make it, move it where a signal of it says, write the
\* description of the sender of a report or of the one asked, or restore it.
Made(d)     == heap'[d].short = Unknown /\ heap'[d].desc = NoDev
Moved(d)    == /\ d \in DOMAIN heap /\ sig # <<>>
               /\ heap'[d].ieee = heap[d].ieee /\ heap'[d].desc = heap[d].desc
               /\ heap[d].ieee = Head(sig).ieee /\ heap'[d].short = Head(sig).addr
Reported(d) == sig # <<>> /\ heap[d].short = Head(sig).addr /\ heap'[d].desc = Head(sig).ieee
Answered(d) == \E q \in asks : heap[d].short = heap[q.ctx].short /\ heap'[d].desc = q.of
Described(d) ==
  /\ d \in DOMAIN heap /\ heap'[d].ieee = heap[d].ieee /\ heap'[d].short = heap[d].short
  /\ Reported(d) \/ Answered(d)
Restored(d) == \E a \in Addr : Readable(a) /\ files[a].short = a /\ heap'[d] = files[a]

LEMMA HeapWrites ==
  ASSUME BaseInv, [Next]_vars, NEW d \in DOMAIN heap'
  PROVE  \/ d \in DOMAIN heap /\ heap'[d] = heap[d]
         \/ Made(d) \/ Moved(d) \/ Described(d) \/ Restored(d)
<1>1. TypeOK /\ RestInv
  BY DEF BaseInv
<1>2. CASE UNCHANGED heap
  BY <1>2
<1>3. ASSUME NEW x \in Device, heap' = Append(heap, x)
      PROVE  (d \in DOMAIN heap /\ heap'[d] = heap[d]) \/ heap'[d] = x
  BY <1>1, <1>3, HeapGrows
<1>4. CASE HandleAssociated
  <2> DEFINE x == [ieee |-> Head(sig).ieee, short |-> Unknown, desc |-> NoDev]
  <2>1. x \in Device
    BY <1>1, <1>4, SignalRead DEF HandleAssociated, Device
  <2>2. UNCHANGED heap \/ heap' = Append(heap, x)
    BY <1>4 DEF HandleAssociated
  <2>3. x.short = Unknown /\ x.desc = NoDev
    OBVIOUS
  <2> HIDE DEF x
  <2> QED
    BY <1>2, <1>3, <2>1, <2>2, <2>3 DEF Made
<1>5. CASE HandleUpdate /\ ~UNCHANGED heap
  <2> DEFINE c == FindIeee(Head(sig).ieee)
             a == Head(sig).addr
  <2>1. c \in DOMAIN heap /\ heap[c].ieee = Head(sig).ieee /\ UpdateShort(c, a)
    BY <1>1, <1>5, Searches DEF HandleUpdate
  <2>2. a \in Addr /\ sig # <<>>
    BY <1>1, <1>5, SignalRead DEF HandleUpdate
  <2>3. /\ DOMAIN heap' = DOMAIN heap /\ heap' = [heap EXCEPT ![c].short = a]
        /\ \A e \in DOMAIN heap : heap'[e].ieee = heap[e].ieee /\ heap'[e].desc = heap[e].desc
        /\ \A e \in DOMAIN heap \ {c} : heap'[e] = heap[e]
    BY <1>1, <1>5, <2>1, <2>2, MoveTyped
  <2>4. heap'[c].short = a
    BY <1>1, <2>1, <2>3, HeapIs DEF Device
  <2> QED
    BY <2>1, <2>2, <2>3, <2>4 DEF Moved
<1>6. CASE HandleReport /\ ~UNCHANGED heap
  <2> DEFINE c == FindShort(Head(sig).addr)
  <2>1. /\ c # Null /\ heap' = [heap EXCEPT ![c].desc = Head(sig).ieee] /\ sig # <<>>
        /\ c \in DOMAIN heap /\ heap[c].short = Head(sig).addr
    BY <1>1, <1>6, Searches DEF HandleReport, Received
  <2>2. /\ SameAddresses
        /\ \A e \in DOMAIN heap : heap'[e] = heap[e] \/ (e = c /\ heap'[e].desc = Head(sig).ieee)
    BY <1>1, <2>1, DescSteps
  <2> QED
    BY <2>1, <2>2 DEF SameAddresses, Described, Reported
<1>7. ASSUME NEW q \in asks, SimpleDescResp(q), ~UNCHANGED heap
      PROVE  (d \in DOMAIN heap /\ heap'[d] = heap[d]) \/ Described(d)
  <2> DEFINE c == Addressee(q)
  <2>1. /\ c # Null /\ heap' = [heap EXCEPT ![c].desc = q.of]
        /\ c \in DOMAIN heap /\ heap[c].short = heap[q.ctx].short
    BY <1>1, <1>7, Searches DEF SimpleDescResp, Addressee
  <2>2. /\ SameAddresses
        /\ \A e \in DOMAIN heap : heap'[e] = heap[e] \/ (e = c /\ heap'[e].desc = q.of)
    BY <1>1, <2>1, DescSteps
  <2> QED
    BY <2>1, <2>2 DEF SameAddresses, Described, Answered
<1>8. ~Crash
  BY EmptyHeap DEF Crash
<1>9. ASSUME NEW e \in loading, LoadEntry(e), ~UNCHANGED heap
      PROVE  (d \in DOMAIN heap /\ heap'[d] = heap[d]) \/ Restored(d)
  <2> DEFINE f == files[e.file]
  <2>1. Readable(e.file) /\ heap' = Append(heap, f)
    BY <1>9 DEF LoadEntry
  <2>2. e.file \in DOMAIN files
    BY <1>1 DEF TypeOK, Entry
  <2>3. f \in Device /\ e.file \in Addr /\ f.short = e.file
    BY <1>1, <2>1, <2>2 DEF TypeOK, RestInv, Readable
  <2> HIDE DEF f
  <2>4. (d \in DOMAIN heap /\ heap'[d] = heap[d]) \/ heap'[d] = f
    BY <1>3, <2>1, <2>3
  <2> QED
    BY <2>1, <2>3, <2>4 DEF f, Restored
<1>10. UNCHANGED heap \/ HandleAssociated \/ HandleUpdate \/ HandleReport \/ Crash
       \/ (\E q \in asks : SimpleDescResp(q)) \/ (\E e \in loading : LoadEntry(e))
  BY DEF Next, Network, EmitUpdate, EmitAuthorized, EmitReport, Leave, Associate, Rejoin, Handle,
         HandleAuthorized, ActiveEpResp, AnswerFails, Save, SaveOpen, SaveWrite, SaveUnlink,
         SaveRename, WebSave, vars, host
<1> QED
  BY <1>2, <1>4, <1>5, <1>6, <1>7, <1>8, <1>9, <1>10

\* The host makes no new names for addresses, it only copies them.
LEMMA NoNewName ==
  ASSUME BaseInv, [Next]_vars, ~Network, NEW i \in Ieee, NEW a \in Addr, Names(i, a)'
  PROVE  Names(i, a)
<1>1. TypeOK /\ SaveInv /\ RestInv /\ Unknown \notin Addr
  BY Addresses DEF BaseInv
<1>2. /\ UNCHANGED net
      /\ UNCHANGED sig \/ sig' = <<>> \/ (sig # <<>> /\ sig' = Tail(sig))
  BY DEF Next, Handle, HandleAssociated, HandleUpdate, HandleAuthorized, HandleReport, Received,
         ActiveEpResp, SimpleDescResp, AnswerFails, AnswerFrom, Save, SaveOpen, SaveWrite,
         SaveUnlink, SaveRename, WebSave, Crash, LoadEntry, vars, air
<1>3. UNCHANGED index \/ index' = {} \/ (index' = CollectIndex /\ UNCHANGED heap)
  BY HandlerFrame DEF Next, Save, SaveOpen, SaveWrite, SaveUnlink, SaveRename, WebSave, Crash,
         LoadEntry, vars, disk
<1>4. \A d \in DOMAIN heap : heap[d].ieee = i /\ heap[d].short = a => Names(i, a)
  BY DEF Names, Claims
<1>5. (\E n \in DOMAIN sig' : sig'[n].ieee = i /\ sig'[n].addr = a) => Names(i, a)
  BY <1>1, <1>2, SignalClaims DEF Names
<1>6. [ieee |-> i, file |-> a] \in index' => Names(i, a)
  <2>1. [ieee |-> i, file |-> a] \in CollectIndex => Names(i, a)
    BY <1>1, <1>4, HeapIs DEF CollectIndex
  <2> QED
    BY <1>3, <2>1 DEF Names, Claims
<1>7. ASSUME NEW d \in DOMAIN heap', heap'[d].ieee = i, heap'[d].short = a PROVE Names(i, a)
  <2>1. CASE Moved(d)
    <3>1. 1 \in DOMAIN sig /\ sig[1] = Head(sig)
      BY <1>1, <2>1 DEF Moved, TypeOK
    <3> QED
      BY <1>7, <2>1, <3>1 DEF Moved, Names, Claims
  <2>2. CASE Restored(d)
    BY <1>7, <2>2 DEF Restored, Names
  <2> QED
    BY <1>1, <1>4, <1>7, <2>1, <2>2, HeapWrites DEF Made, Described
<1>8. Readable(a)' /\ files'[a].ieee = i => Names(i, a)
  <2>1. a \in DOMAIN files'
    BY <1>1, BaseStep DEF BaseInv, TypeOK
  <2>2. files'[a] = files[a] \/ files'[a] = Broken
        \/ \E d \in DOMAIN heap : heap[d].short = a /\ files'[a] = heap[d]
    BY <2>1, FileWritten
  <2> QED
    BY <1>4, <2>2 DEF Names, Readable
<1> QED
  BY <1>2, <1>5, <1>6, <1>7, <1>8 DEF Names, Claims

\* A new name is of a device given an address; it and those named already share it then.
LEMMA NamesMixed ==
  ASSUME BaseInv, MixInv, [Next]_vars
  PROVE  /\ shared \subseteq shared'
         /\ \A a \in Addr : \A i, j \in Ieee : Names(i, a)' /\ Names(j, a)' => Mixed(i, j)'
<1>1. TypeOK
  BY DEF BaseInv
<1>2. ASSUME UNCHANGED shared, \A i \in Ieee, a \in Addr : Names(i, a)' => Names(i, a)
      PROVE  /\ shared \subseteq shared'
             /\ \A a \in Addr : \A i, j \in Ieee : Names(i, a)' /\ Names(j, a)' => Mixed(i, j)'
  BY <1>2 DEF MixInv, Mixed
<1>3. CASE ~Network
  <2>1. UNCHANGED shared
    BY <1>3 DEF Next, Handle, HandleAssociated, HandleUpdate, HandleAuthorized, HandleReport, Received,
       ActiveEpResp, SimpleDescResp, AnswerFails, AnswerFrom, Save, SaveOpen, SaveWrite,
       SaveUnlink, SaveRename, WebSave, Crash, LoadEntry, vars, air
  <2> QED
    BY <1>2, <1>3, <2>1, NoNewName
<1>4. CASE Network
  <2>1. PICK i \in Ieee :
          \/ EmitUpdate(i) \/ EmitAuthorized(i) \/ EmitReport(i) \/ Leave(i)
          \/ \E a \in Addr : Associate(i, a) \/ Rejoin(i, a)
    BY <1>4 DEF Network
  <2>2. UNCHANGED <<heap, index, files>>
    BY <1>4 DEF Network, EmitUpdate, EmitAuthorized, EmitReport, Leave, Associate, Rejoin, host, disk
  <2>3. CASE EmitUpdate(i) \/ EmitAuthorized(i) \/ EmitReport(i)
    <3>1. PICK s : sig' = Append(sig, s) /\ s.ieee = i /\ s.addr = net[i]
      BY <2>3 DEF EmitUpdate, EmitAuthorized, EmitReport, Send
    <3>2. UNCHANGED <<net, shared>>
      BY <2>3 DEF EmitUpdate, EmitAuthorized, EmitReport
    <3>3. ASSUME NEW j \in Ieee, NEW a \in Addr, Names(j, a)' PROVE Names(j, a)
      <4>1. Claims(i, net[i])
        BY DEF Claims
      <4> QED
        BY <1>1, <2>2, <3>1, <3>2, <3>3, <4>1, SignalClaims DEF Names, Claims, Readable
    <3> QED
      BY <1>2, <3>2, <3>3
  <2>4. CASE Leave(i)
    <3>1. \A j \in Ieee, a \in Addr : net'[j] = a => net[j] = a
      BY <1>1, <2>4, Addresses DEF Leave, TypeOK
    <3>2. \A j \in Ieee, a \in Addr : Names(j, a)' => Names(j, a)
      BY <2>2, <2>4, <3>1 DEF Names, Claims, Leave, Readable
    <3> QED
      BY <1>2, <2>4, <3>2 DEF Leave
  <2>5. ASSUME NEW a \in Addr, Associate(i, a) \/ Rejoin(i, a)
        PROVE  /\ shared \subseteq shared'
               /\ \A b \in Addr : \A j, k \in Ieee : Names(j, b)' /\ Names(k, b)' => Mixed(j, k)'
    <3> DEFINE others == (HostHas(a) \cup (IF Readable(a) THEN {files[a].ieee} ELSE {})) \ {i}
    <3>1. /\ net' = [net EXCEPT ![i] = a] /\ \A j \in Ieee : net[j] # a
          /\ shared' = IF others = {} THEN shared ELSE shared \cup others \cup {i}
      BY <2>5 DEF Associate, Rejoin, Given
    <3>2. \A j \in Ieee : net'[j] = net[j] \/ (j = i /\ net'[j] = a)
      BY <1>1, <3>1 DEF TypeOK
    <3>3. UNCHANGED sig \/ \E s : sig' = Append(sig, s) /\ s.ieee = i /\ s.addr = a
      BY <2>5 DEF Associate, Rejoin, Send
    <3>4. ASSUME NEW j \in Ieee, NEW b \in Addr, Names(j, b)'
          PROVE  Names(j, b) \/ (j = i /\ b = a)
      BY <1>1, <2>2, <3>2, <3>3, <3>4, SignalClaims DEF Names, Claims, Readable
    <3>5. \A j \in Ieee : Names(j, a) /\ j # i => j \in others
      BY <3>1 DEF Names, Claims, HostHas, AtShort
    <3>6. shared \subseteq shared' /\ (others # {} => others \cup {i} \subseteq shared')
      BY <3>1
    <3> HIDE DEF others
    <3>7. ASSUME NEW b \in Addr, NEW j \in Ieee, NEW k \in Ieee, Names(j, b)', Names(k, b)', j # k
          PROVE  {j, k} \subseteq shared'
      <4>1. CASE Names(j, b) /\ Names(k, b)
        BY <3>6, <3>7, <4>1 DEF MixInv, Mixed
      <4>2. CASE b = a /\ (j = i \/ k = i)
        BY <3>4, <3>5, <3>6, <3>7, <4>2
      <4> QED
        BY <3>4, <3>7, <4>1, <4>2
    <3> QED
      BY <3>6, <3>7 DEF Mixed
  <2> QED
    BY <2>1, <2>3, <2>4, <2>5
<1> QED
  BY <1>3, <1>4

\* Who is asked under an address is named by it, as the device asked about is.
LEMMA NewAsk ==
  ASSUME BaseInv, MixInv, NEW d \in DOMAIN heap, heap[d].short \in Addr
  PROVE  Owns(heap[d].ieee, Holder(heap[d].short))
<1> DEFINE a == heap[d].short
           h == Holder(a)
<1>1. h = NoDev \/ (h \in Ieee /\ net[h] = a)
  BY DEF Holder
<1>2. heap[d].ieee \in Ieee /\ Names(heap[d].ieee, a)
  BY HeapIs DEF BaseInv, Names, Claims
<1>3. net[h] = a => Names(h, a)
  BY DEF Names, Claims
<1> HIDE DEF a, h
<1>4. h = NoDev \/ Mixed(heap[d].ieee, h)
  BY <1>1, <1>2, <1>3 DEF MixInv, a
<1> QED
  BY <1>4 DEF Owns, a, h

LEMMA AsksMixed ==
  ASSUME BaseInv, MixInv, [Next]_vars, shared \subseteq shared', NEW q \in asks'
  PROVE  Owns(heap[q.ctx].ieee, q.of)'
<1>1. TypeOK /\ SaveInv /\ RestInv
  BY DEF BaseInv
<1>2. ~Crash
  BY DEF Crash
<1>3. q.ctx \in DOMAIN heap /\ Owns(heap[q.ctx].ieee, q.of)
  <2>1. CASE q \in asks
    BY <1>1, <2>1 DEF TypeOK, MixInv
  <2>2. CASE HandleAuthorized /\ q \notin asks
    <3> DEFINE d == FindShort(Head(sig).addr)
    <3>1. d # Null /\ q = [ctx |-> d, step |-> "ep", of |-> Holder(Head(sig).addr)]
      BY <2>2 DEF HandleAuthorized
    <3>2. d \in DOMAIN heap /\ heap[d].short = Head(sig).addr /\ Head(sig).addr \in Addr
      BY <1>1, <2>2, <3>1, Searches, SignalRead DEF HandleAuthorized
    <3> QED
      BY <3>1, <3>2, NewAsk
  <2>3. ASSUME TaskEnds(zbTask.dev), q \notin asks
        PROVE  q.ctx \in DOMAIN heap /\ Owns(heap[q.ctx].ieee, q.of)
    <3> DEFINE d == zbTask.dev
    <3>1. zbTask.ask /\ q = [ctx |-> d, step |-> "desc", of |-> Holder(heap[d].short)]
      BY <2>3 DEF TaskEnds
    <3>2. d \in DOMAIN heap /\ heap[d].short \in Addr
      BY <1>1, <3>1 DEF RestInv, TypeOK, NoTask
    <3> QED
      BY <3>1, <3>2, NewAsk
  <2>4. asks' = asks \/ asks' \subseteq asks \/ HandleAuthorized \/ TaskEnds(zbTask.dev)
    <3>1. save.step = "rename" /\ save.by = "zb" => save.obj = zbTask.dev
      BY <1>1 DEF SaveInv
    <3> QED
      BY <1>2, <3>1 DEF Next, Network, EmitUpdate, EmitAuthorized, EmitReport, Leave, Associate,
         Rejoin, Handle, HandleAssociated, HandleUpdate, HandleReport, ActiveEpResp, SimpleDescResp,
         AnswerFails, AnswerFrom, Save, SaveOpen, OpenFile, SaveWrite, SaveUnlink, SaveRename,
         WebSave, LoadEntry, vars, host
  <2> QED
    BY <2>1, <2>2, <2>3, <2>4
<1>4. heap'[q.ctx].ieee = heap[q.ctx].ieee
  <2>1. CASE Handle
    BY <1>1, <1>3, <2>1, HandlerHeap
  <2>2. ASSUME NEW e \in loading, LoadEntry(e) PROVE UNCHANGED heap \/ \E x \in Device : heap' = Append(heap, x)
    BY <1>1, <2>2 DEF LoadEntry, Readable, TypeOK, RestInv, Entry
  <2>3. UNCHANGED heap \/ Handle \/ \E e \in loading : LoadEntry(e)
    BY <1>2 DEF Next, Network, EmitUpdate, EmitAuthorized, EmitReport, Leave, Associate, Rejoin,
       Save, SaveOpen, SaveWrite, SaveUnlink, SaveRename, WebSave, vars, host
  <2> QED
    BY <1>1, <1>3, <2>1, <2>2, <2>3, HeapGrows
<1> QED
  BY <1>3, <1>4 DEF Owns, Mixed

LEMMA MixKept ==
  ASSUME BaseInv, MixInv, [Next]_vars
  PROVE  MixInv'
<1>1. TypeOK /\ RestInv
  BY DEF BaseInv
<1>2. shared \subseteq shared'
  BY NamesMixed
<1>3. \A i, x : Owns(i, x) => Owns(i, x)'
  BY <1>2 DEF Owns, Mixed
<1>4. ASSUME NEW d \in DOMAIN heap' PROVE Owns(heap[d].ieee, heap[d].desc)'
  <2>1. CASE (d \in DOMAIN heap /\ heap'[d] = heap[d]) \/ Made(d) \/ Moved(d)
    BY <1>3, <2>1 DEF MixInv, Made, Moved, Owns
  <2>2. CASE Restored(d)
    BY <1>1, <1>3, <2>2 DEF MixInv, Restored, TypeOK
  <2>3. CASE Described(d) /\ Reported(d)
    <3> DEFINE a == Head(sig).addr
    <3>1. 1 \in DOMAIN sig /\ sig[1] = Head(sig) /\ Head(sig) \in Signal
      BY <1>1, <2>3 DEF Reported, TypeOK
    <3>2. Names(Head(sig).ieee, a) /\ Head(sig).ieee \in Ieee /\ a \in Addr
      BY <3>1 DEF Names, Claims, Signal
    <3>3. Names(heap[d].ieee, a) /\ heap[d].ieee \in Ieee
      BY <1>1, <2>3, HeapIs DEF Described, Reported, Names, Claims
    <3>4. Owns(heap[d].ieee, Head(sig).ieee)
      BY <3>2, <3>3 DEF MixInv, Owns
    <3> QED
      BY <1>3, <2>3, <3>4 DEF Described, Reported
  <2>4. CASE Described(d) /\ Answered(d)
    <3>1. PICK q \in asks : heap[d].short = heap[q.ctx].short /\ heap'[d].desc = q.of
      BY <2>4 DEF Answered
    <3>2. d \in DOMAIN heap /\ q.ctx \in DOMAIN heap /\ heap[q.ctx].short \in Addr
      BY <1>1, <2>4 DEF Described, TypeOK, RestInv
    <3> DEFINE a == heap[q.ctx].short
    <3>3. /\ heap[d].ieee \in Ieee /\ Names(heap[d].ieee, a)
          /\ heap[q.ctx].ieee \in Ieee /\ Names(heap[q.ctx].ieee, a)
      BY <1>1, <3>1, <3>2, HeapIs DEF Names, Claims
    <3>4. Mixed(heap[d].ieee, heap[q.ctx].ieee) /\ Owns(heap[q.ctx].ieee, q.of)
      BY <3>2, <3>3 DEF MixInv
    <3>5. Owns(heap[d].ieee, q.of)
      BY <3>4 DEF Owns, Mixed
    <3> QED
      BY <1>3, <2>4, <3>1, <3>5 DEF Described
  <2> QED
    BY <2>1, <2>2, <2>3, <2>4, HeapWrites DEF Described
<1>5. ASSUME NEW a \in DOMAIN files', Readable(a)' PROVE Owns(files[a].ieee, files[a].desc)'
  <2>1. files'[a] \notin {NoFile, Broken}
    BY <1>5 DEF Readable
  <2>2. CASE files'[a] = files[a] /\ a \in DOMAIN files
    BY <1>3, <2>1, <2>2 DEF MixInv, Readable
  <2>3. ASSUME NEW d \in DOMAIN heap, files'[a] = heap[d]
        PROVE  Owns(files[a].ieee, files[a].desc)'
    BY <1>3, <2>3 DEF MixInv
  <2> QED
    BY <2>1, <2>2, <2>3, FileWritten
<1>6. \A q \in asks' : Owns(heap[q.ctx].ieee, q.of)'
  BY <1>2, AsksMixed
<1> QED
  BY <1>4, <1>5, <1>6, NamesMixed DEF MixInv

-----------------------------------------------------------------------------
(* GUIDs.                                                                  *)

LEMMA GuidKept ==
  ASSUME Tidy, BaseInv, SeqParts, [Next]_vars
  PROVE  GuidInv'
<1>1. TypeOK /\ RestInv /\ TabInv /\ OneOwner /\ JoinInv /\ GuidInv
  BY DEF BaseInv, SeqParts
<1>2. CASE SameAddresses /\ UNCHANGED guid
  BY <1>1, <1>2 DEF GuidInv, SameAddresses
<1>3. ASSUME SameAddresses, NEW c \in DOMAIN heap, heap[c].short \in Addr, NEW g \in {Null, c},
             guid' = [guid EXCEPT ![heap[c].short] = g]
      PROVE  GuidInv'
  <2>1. ASSUME NEW d \in DOMAIN heap, heap[d].short # Unknown
        PROVE  guid'[heap[d].short] \in {Null, d}
    <3>1. heap[d].short \in Addr
      BY <1>1, <2>1, HeapIs
    <3>2. d # c => heap[d].short # heap[c].short
      BY <1>1, <2>1 DEF TabInv
    <3> QED
      BY <1>1, <1>3, <2>1, <3>1, <3>2 DEF TypeOK, GuidInv
  <2> QED
    BY <1>3, <2>1 DEF GuidInv, SameAddresses
<1>4. CASE HandleAssociated
  <2> DEFINE x == [ieee |-> Head(sig).ieee, short |-> Unknown, desc |-> NoDev]
  <2>1. UNCHANGED guid
    BY <1>4 DEF HandleAssociated
  <2>2. CASE UNCHANGED heap
    BY <1>1, <2>1, <2>2 DEF GuidInv
  <2>3. CASE heap' = Append(heap, x)
    <3>1. x \in Device /\ x.short = Unknown
      BY <1>1, <1>4, AssociatedEffect
    <3> HIDE DEF x
    <3>2. DOMAIN heap' = DOMAIN heap \cup {Len(heap) + 1} /\ heap'[Len(heap) + 1] = x
          /\ \A c \in DOMAIN heap : heap'[c] = heap[c]
      BY <1>1, <2>3, <3>1, HeapGrows
    <3> QED
      BY <1>1, <2>1, <3>1, <3>2 DEF GuidInv
  <2> QED
    BY <1>1, <1>4, <2>2, <2>3, AssociatedEffect
<1>5. CASE HandleUpdate
  <2> DEFINE a == Head(sig).addr
  <2>1. CASE UNCHANGED <<heap, guid>>
    BY <1>1, <2>1 DEF GuidInv
  <2>2. ASSUME NEW c \in DOMAIN heap, \A e \in DOMAIN heap : heap[e].short # a,
               heap' = [heap EXCEPT ![c].short = a],
               guid' = UpdateGuids(guid, c, a, heap[c].desc)
        PROVE  GuidInv'
    <3>1. a \in Addr
      BY <1>1, <1>5, SignalRead DEF HandleUpdate
    <3>2. /\ DOMAIN heap' = DOMAIN heap /\ heap'[c].short = a
          /\ \A e \in DOMAIN heap : e # c => heap'[e] = heap[e]
      BY <1>1, <2>2, HeapIs DEF Device
    <3>3. guid'[a] \in {Null, c} /\ \A b \in Addr : b # a => guid'[b] = guid[b]
      BY <1>1, <2>2, <3>1 DEF UpdateGuids, TypeOK
    <3>4. ASSUME NEW d \in DOMAIN heap, d # c, heap[d].short # Unknown
          PROVE  guid'[heap[d].short] \in {Null, d}
      <4>1. heap[d].short \in Addr /\ heap[d].short # a
        BY <1>1, <2>2, <3>4, HeapIs
      <4> QED
        BY <1>1, <3>3, <3>4, <4>1 DEF GuidInv
    <3> QED
      BY <3>2, <3>3, <3>4 DEF GuidInv
  <2> QED
    BY <1>1, <1>5, <2>1, <2>2, UpdateEffect
<1>6. CASE HandleReport
  <2> DEFINE a == Head(sig).addr
             c == FindShort(a)
  <2>1. SameAddresses
    BY <1>1, <1>6, ReportEffect
  <2>2. CASE c # Null /\ guid' = [guid EXCEPT ![a] = IF @ = Null THEN c ELSE @]
    <3>1. c \in DOMAIN heap /\ heap[c].short = a /\ a \in Addr
      BY <1>1, <1>6, <2>2, SignalMeans, SignalRead DEF HandleReport
    <3>2. guid[a] \in {Null, c}
      BY <1>1, <3>1, Addresses DEF GuidInv
    <3>3. guid' = [guid EXCEPT ![heap[c].short] = c]
      BY <2>2, <3>1, <3>2
    <3> QED
      BY <1>3, <2>1, <3>1, <3>3
  <2> QED
    BY <1>2, <1>6, <2>1, <2>2 DEF HandleReport
<1>7. ASSUME NEW q \in asks, SimpleDescResp(q) PROVE GuidInv'
  <2>1. q.ctx \in DOMAIN heap /\ Addressee(q) = q.ctx /\ heap[q.ctx].short # Unknown
        /\ heap[q.ctx].short \in Addr /\ q.ctx # Null
    BY <1>1, AnswerMeans, HeapIs
  <2>2. SameAddresses
    BY <1>1, <1>7, AnswerEffect
  <2>3. guid' = UpdateGuids(guid, q.ctx, heap[q.ctx].short, q.of)
    BY <1>7, <2>1 DEF SimpleDescResp
  <2>4. \E g \in {Null, q.ctx} : guid' = [guid EXCEPT ![heap[q.ctx].short] = g]
    BY <2>3 DEF UpdateGuids
  <2> QED
    BY <1>3, <2>1, <2>2, <2>4
<1>8. CASE Crash
  BY <1>8, CrashEffect DEF GuidInv
<1>9. ASSUME NEW e \in loading, LoadEntry(e) PROVE GuidInv'
  <2> DEFINE f == files[e.file]
             c == Len(heap) + 1
  <2>1. CASE UNCHANGED <<heap, guid>>
    BY <1>1, <2>1 DEF GuidInv
  <2>2. CASE /\ f \in Device /\ f.short \in Addr /\ \A d \in DOMAIN heap : heap[d].short # f.short
             /\ heap' = Append(heap, f) /\ guid' = UpdateGuids(guid, c, f.short, f.desc)
    <3>1. DOMAIN heap' = DOMAIN heap \cup {c} /\ heap'[c] = f
          /\ \A d \in DOMAIN heap : heap'[d] = heap[d]
      BY <1>1, <2>2, HeapGrows
    <3> HIDE DEF f, c
    <3>2. guid'[f.short] \in {Null, c} /\ \A b \in Addr : b # f.short => guid'[b] = guid[b]
      BY <1>1, <2>2 DEF UpdateGuids, TypeOK
    <3>3. ASSUME NEW d \in DOMAIN heap, heap[d].short # Unknown
          PROVE  guid'[heap[d].short] \in {Null, d}
      <4>1. heap[d].short \in Addr /\ heap[d].short # f.short
        BY <1>1, <2>2, <3>3, HeapIs
      <4> QED
        BY <1>1, <3>2, <3>3, <4>1 DEF GuidInv
    <3> QED
      BY <3>1, <3>2, <3>3 DEF GuidInv
  <2> QED
    BY <1>1, <1>9, <2>1, <2>2, LoadEffect, Truthful
<1>10. \/ SameAddresses /\ UNCHANGED guid
       \/ HandleAssociated \/ HandleUpdate \/ HandleReport \/ Crash
       \/ (\E q \in asks : SimpleDescResp(q)) \/ (\E e \in loading : LoadEntry(e))
  <2>1. UNCHANGED heap => SameAddresses
    BY DEF SameAddresses
  <2> QED
    BY <2>1 DEF Next, Network, EmitUpdate, EmitAuthorized, EmitReport, Leave, Associate, Rejoin,
       Handle, HandleAuthorized, ActiveEpResp, AnswerFails, Save, SaveOpen, SaveWrite, SaveUnlink,
       SaveRename, WebSave, vars, host
<1> QED
  BY <1>2, <1>4, <1>5, <1>6, <1>7, <1>8, <1>9, <1>10

-----------------------------------------------------------------------------
(* The copy in flash.                                                      *)

\* A handler saves the device it changed, if that has an address.
LEMMA HandlerSaves ==
  ASSUME Tidy, BaseInv, SeqParts, Handle, NEW d \in DOMAIN heap', heap'[d].short # Unknown,
         zbTask'.dev # d
  PROVE  d \in DOMAIN heap /\ heap'[d] = heap[d]
<1>1. TypeOK /\ RestInv /\ TabInv /\ OneOwner /\ JoinInv
  BY DEF BaseInv, SeqParts
<1>2. CASE HandleAssociated
  <2> DEFINE x == [ieee |-> Head(sig).ieee, short |-> Unknown, desc |-> NoDev]
  <2>1. CASE UNCHANGED heap
    BY <2>1
  <2>2. CASE heap' = Append(heap, x)
    <3>1. x \in Device /\ x.short = Unknown
      BY <1>1, <1>2, AssociatedEffect
    <3> HIDE DEF x
    <3>2. DOMAIN heap' = DOMAIN heap \cup {Len(heap) + 1} /\ heap'[Len(heap) + 1] = x
          /\ \A c \in DOMAIN heap : heap'[c] = heap[c]
      BY <1>1, <2>2, <3>1, HeapGrows
    <3> QED
      BY <3>1, <3>2
  <2> QED
    BY <1>1, <1>2, <2>1, <2>2, AssociatedEffect
<1>3. CASE HandleUpdate
  <2>1. ASSUME NEW c \in DOMAIN heap, heap' = [heap EXCEPT ![c].short = Head(sig).addr],
               zbTask' = [dev |-> c, ask |-> FALSE]
        PROVE  d \in DOMAIN heap /\ heap'[d] = heap[d]
    BY <1>1, <2>1, HeapIs
  <2> QED
    BY <1>1, <1>3, <2>1, UpdateEffect
<1>4. CASE HandleReport
  <2> DEFINE c == FindShort(Head(sig).addr)
  <2>1. CASE c # Null /\ heap' = [heap EXCEPT ![c].desc = Head(sig).ieee] /\ zbTask'.dev = c
    BY <1>1, <2>1, Searches, DescSteps DEF SameAddresses
  <2> QED
    BY <1>4, <2>1 DEF HandleReport
<1>5. ASSUME NEW q \in asks, SimpleDescResp(q) PROVE d \in DOMAIN heap /\ heap'[d] = heap[d]
  <2> DEFINE c == Addressee(q)
  <2>1. CASE c # Null /\ heap' = [heap EXCEPT ![c].desc = q.of] /\ zbTask'.dev = c
    BY <1>1, <2>1, Searches, DescSteps DEF SameAddresses, Addressee
  <2> QED
    BY <1>5, <2>1 DEF SimpleDescResp
<1>6. UNCHANGED heap \/ HandleAssociated \/ HandleUpdate \/ HandleReport
      \/ \E q \in asks : SimpleDescResp(q)
  BY DEF Handle, HandleAuthorized, ActiveEpResp, AnswerFails
<1> QED
  BY <1>2, <1>3, <1>4, <1>5, <1>6

\* The steps that are no handler's and no save's.
LEMMA OtherSteps ==
  ASSUME [Next]_vars
  PROVE  \/ UNCHANGED <<heap, table, save, zbTask, files, index, loading>>
         \/ Handle \/ SaveOpen \/ SaveWrite \/ SaveUnlink \/ SaveRename
         \/ (\E d \in Devices(table) : WebSave(d))
         \/ Crash \/ \E e \in loading : LoadEntry(e)
<1>1. CASE Network
  <2>1. UNCHANGED <<host, disk>>
    <3>1. PICK i \in Ieee :
            \/ EmitUpdate(i) \/ EmitAuthorized(i) \/ EmitReport(i) \/ Leave(i)
            \/ \E a \in Addr : Associate(i, a) \/ Rejoin(i, a)
      BY <1>1 DEF Network
    <3> QED
      BY <3>1 DEF EmitUpdate, EmitAuthorized, EmitReport, Leave, Associate, Rejoin
  <2> QED
    BY <2>1 DEF host, disk
<1>2. CASE UNCHANGED vars
  BY <1>2 DEF vars, host, disk
<1> QED
  BY <1>1, <1>2, Zenon DEF Next, Save

LEMMA FileFollows ==
  ASSUME Tidy, BaseInv, SeqParts, [Next]_vars, NEW d \in DOMAIN heap', heap'[d].short # Unknown
  PROVE  \/ zbTask'.dev = d \/ (save'.step = "write" /\ save'.obj = d)
         \/ files'[heap'[d].short] = heap'[d]
<1> DEFINE Done == \/ zbTask'.dev = d \/ (save'.step = "write" /\ save'.obj = d)
                   \/ files'[heap'[d].short] = heap'[d]
<1>1. TypeOK /\ SaveInv /\ RestInv /\ TabInv /\ OneOwner /\ FlashInv
  BY DEF BaseInv, SeqParts
<1>2. d \in DOMAIN heap /\ heap[d].short # Unknown =>
        \/ zbTask.dev = d \/ (save.step = "write" /\ save.obj = d)
        \/ files[heap[d].short] = heap[d]
  BY <1>1 DEF FlashInv
<1>3. CASE UNCHANGED <<heap, save, zbTask, files>>
  BY <1>2, <1>3
<1>4. CASE Handle
  <2>1. zbTask.dev = Null /\ save.step = "idle" /\ UNCHANGED <<save, files>> /\ d # Null
    BY <1>4, HandlerFrame, TypesKept, HeapIs DEF NoTask, Null, BaseInv, TypeOK
  <2> QED
    BY <1>1, <1>2, <1>4, <2>1, HandlerSaves, HeapIs
<1>5. ASSUME NEW c \in DOMAIN heap, NEW by, heap[c].short # Unknown, OpenFile(c, by),
             UNCHANGED heap, save.step = "idle"
      PROVE  Done
  <2>1. /\ save'.step = "write" /\ save'.obj = c /\ UNCHANGED zbTask
        /\ files' = [files EXCEPT ![heap[c].short] = Broken]
    BY <1>5 DEF OpenFile
  <2>2. d # c => heap[d].short # heap[c].short
    BY <1>1, <1>5 DEF TabInv
  <2> QED
    BY <1>2, <1>5, <2>1, <2>2
<1>6. CASE SaveOpen
  <2>1. zbTask.dev \in DOMAIN heap /\ UNCHANGED heap /\ save.step = "idle"
    BY <1>1, <1>6 DEF SaveOpen, TypeOK
  <2>2. CASE heap[zbTask.dev].short = Unknown
    BY <1>2, <1>6, <2>1, <2>2 DEF SaveOpen
  <2>3. CASE heap[zbTask.dev].short # Unknown
    <3>1. OpenFile(zbTask.dev, "zb")
      BY <1>6, <2>3 DEF SaveOpen
    <3> QED
      BY <1>5, <2>1, <2>3, <3>1
  <2> QED
    BY <2>2, <2>3
<1>7. ASSUME NEW c \in Devices(table), WebSave(c) PROVE Done
  <2>1. /\ c \in DOMAIN heap /\ heap[c].short # Unknown /\ OpenFile(c, "web")
        /\ UNCHANGED heap /\ save.step = "idle"
    BY <1>1, <1>7, HeapIs DEF WebSave
  <2> QED
    BY <1>5, <2>1
<1>8. CASE SaveWrite
  <2>1. /\ save.obj \in DOMAIN heap /\ heap[save.obj].short \in Addr
        /\ UNCHANGED <<heap, zbTask>>
        /\ files' = [files EXCEPT ![heap[save.obj].short] = heap[save.obj]]
    BY <1>1, <1>8 DEF SaveWrite, SaveInv
  <2>2. d # save.obj => heap[d].short # heap[save.obj].short
    BY <1>1, <1>8, <2>1 DEF TabInv
  <2>3. files'[heap[save.obj].short] = heap[save.obj]
    BY <1>1, <2>1 DEF TypeOK
  <2> QED
    BY <1>2, <2>1, <2>2, <2>3
<1>9. CASE SaveUnlink
  BY <1>2, <1>9 DEF SaveUnlink
<1>10. CASE SaveRename
  <2>1. /\ save.obj \in DOMAIN heap /\ files[heap[save.obj].short] = heap[save.obj]
        /\ UNCHANGED <<heap, files>> /\ save.step = "rename"
    BY <1>1, <1>10 DEF SaveRename, SaveInv
  <2>2. UNCHANGED zbTask \/ save.obj = zbTask.dev
    BY <1>1, <1>10 DEF SaveRename, SaveInv
  <2> QED
    BY <1>2, <2>1, <2>2
<1>11. CASE Crash
  BY <1>11, CrashEffect
<1>12. ASSUME NEW e \in loading, LoadEntry(e) PROVE Done
  <2> DEFINE f == files[e.file]
  <2>1. UNCHANGED <<save, zbTask, files>>
    BY <1>12 DEF LoadEntry, disk
  <2>2. CASE UNCHANGED heap
    BY <1>2, <2>1, <2>2
  <2>3. CASE f \in Device /\ f.short = e.file /\ heap' = Append(heap, f)
    <3>1. DOMAIN heap' = DOMAIN heap \cup {Len(heap) + 1} /\ heap'[Len(heap) + 1] = f
          /\ \A c \in DOMAIN heap : heap'[c] = heap[c]
      BY <1>1, <2>3, HeapGrows
    <3> QED
      BY <1>2, <2>1, <2>3, <3>1
  <2> QED
    BY <1>1, <1>12, <2>2, <2>3, LoadEffect, Truthful
<1> QED
  BY <1>3, <1>4, <1>6, <1>7, <1>8, <1>9, <1>10, <1>11, <1>12, OtherSteps

LEMMA IndexFollows ==
  ASSUME Tidy, BaseInv, SeqParts, [Next]_vars, NEW d \in DOMAIN heap', heap'[d].short # Unknown
  PROVE  \/ zbTask'.dev = d \/ save'.step = "rename"
         \/ [ieee |-> heap'[d].ieee, file |-> heap'[d].short] \in index'
<1> DEFINE Done == \/ zbTask'.dev = d \/ save'.step = "rename"
                   \/ [ieee |-> heap'[d].ieee, file |-> heap'[d].short] \in index'
<1>1. TypeOK /\ SaveInv /\ RestInv /\ TabInv /\ OneOwner /\ FlashInv
  BY DEF BaseInv, SeqParts
<1>2. d \in DOMAIN heap /\ heap[d].short # Unknown =>
        \/ zbTask.dev = d \/ save.step = "rename"
        \/ [ieee |-> heap[d].ieee, file |-> heap[d].short] \in index
  BY <1>1 DEF FlashInv
<1>3. CASE UNCHANGED <<heap, zbTask, index>> /\ (save.step # "rename" \/ UNCHANGED save)
  BY <1>2, <1>3
<1>4. CASE Handle
  <2>1. zbTask.dev = Null /\ save.step = "idle" /\ UNCHANGED <<save, index>> /\ d # Null
    BY <1>4, HandlerFrame, TypesKept, HeapIs DEF NoTask, Null, BaseInv, TypeOK
  <2> QED
    BY <1>1, <1>2, <1>4, <2>1, HandlerSaves, HeapIs
<1>5. CASE SaveOpen
  <2>1. UNCHANGED <<heap, index>> /\ save.step = "idle"
    BY <1>5 DEF SaveOpen
  <2>2. UNCHANGED zbTask \/ heap[zbTask.dev].short = Unknown
    BY <1>5 DEF SaveOpen, OpenFile
  <2> QED
    BY <1>2, <2>1, <2>2
<1>6. ASSUME NEW c \in Devices(table), WebSave(c) PROVE Done
  BY <1>3, <1>6 DEF WebSave, OpenFile
<1>7. CASE SaveWrite
  BY <1>3, <1>7 DEF SaveWrite
<1>8. CASE SaveUnlink
  BY <1>1, <1>8 DEF SaveUnlink, TypeOK, Saving
<1>9. CASE SaveRename
  <2>1. index' = CollectIndex /\ UNCHANGED heap
    BY <1>9 DEF SaveRename
  <2> QED
    BY <1>1, <2>1 DEF CollectIndex, TabInv
<1>10. CASE Crash
  BY <1>10, CrashEffect
<1>11. ASSUME NEW e \in loading, LoadEntry(e) PROVE Done
  <2> DEFINE f == files[e.file]
  <2>1. UNCHANGED <<save, zbTask, index>> /\ e = [ieee |-> e.ieee, file |-> e.file]
    BY <1>1, <1>11 DEF LoadEntry, disk, TypeOK, Entry
  <2>2. CASE UNCHANGED heap
    BY <1>2, <2>1, <2>2
  <2>3. CASE f \in Device /\ f.short = e.file /\ f.ieee = e.ieee /\ heap' = Append(heap, f) /\ e \in index
    <3>1. DOMAIN heap' = DOMAIN heap \cup {Len(heap) + 1} /\ heap'[Len(heap) + 1] = f
          /\ \A c \in DOMAIN heap : heap'[c] = heap[c]
      BY <1>1, <2>3, HeapGrows
    <3> QED
      BY <1>2, <2>1, <2>3, <3>1
  <2> QED
    BY <1>1, <1>11, <2>2, <2>3, LoadEffect, Truthful
<1> QED
  BY <1>3, <1>4, <1>5, <1>6, <1>7, <1>8, <1>9, <1>10, <1>11, OtherSteps

\* A file that is written is of the device every index entry with its name is of.
LEMMA FileOf ==
  ASSUME BaseInv, OneOwner, SaveWrite, NEW e \in index, e.file = heap[save.obj].short
  PROVE  e.ieee = heap[save.obj].ieee /\ save.obj \in DOMAIN heap
<1>1. TypeOK /\ save.obj \in DOMAIN heap /\ heap[save.obj].short \in Addr
  BY DEF BaseInv, SaveInv, SaveWrite
<1>2. e = [ieee |-> e.ieee, file |-> e.file] /\ e.ieee \in Ieee /\ heap[save.obj].ieee \in Ieee
  BY <1>1, HeapIs DEF TypeOK, Entry
<1>3. Claims(e.ieee, e.file) /\ Claims(heap[save.obj].ieee, e.file)
  BY <1>1, <1>2 DEF Claims
<1> QED
  BY <1>1, <1>2, <1>3 DEF OneOwner

\* The entries there are after a step: those there were, or the devices of the base.
LEMMA IndexSteps ==
  ASSUME BaseInv, TabInv, [Next]_vars, NEW e \in index'
  PROVE  \/ e \in index /\ ~SaveRename
         \/ /\ SaveRename /\ UNCHANGED <<heap, files>>
            /\ \E d \in DOMAIN heap : heap[d].ieee = e.ieee /\ heap[d].short = e.file
<1>1. CASE SaveRename
  BY <1>1 DEF SaveRename, CollectIndex, TabInv
<1>2. CASE ~SaveRename
  BY <1>2, HandlerFrame, OtherSteps DEF SaveOpen, SaveWrite, SaveUnlink, WebSave, Crash, LoadEntry, disk
<1> QED
  BY <1>1, <1>2

LEMMA RestoredKnown ==
  ASSUME Tidy, BaseInv, SeqParts, [Next]_vars, NEW e \in index' \ loading', Readable(e.file)'
  PROVE  \A i : i = e.ieee => Known(i)'
<1>1. TypeOK /\ SaveInv /\ RestInv /\ TabInv /\ OneOwner /\ FlashInv
  BY DEF BaseInv, SeqParts
<1>2. ~Crash
  BY DEF Crash, disk
<1>3. CASE SaveRename
  BY <1>1, <1>3, IndexSteps DEF Known
<1>4. CASE e \in index /\ e \notin loading /\ ~SaveRename
  <2>1. CASE Readable(e.file)
    BY <1>1, <1>2, <1>4, <2>1, StillKnown DEF FlashInv
  <2>2. CASE ~Readable(e.file)
    <3>1. e.file \in DOMAIN files'
      BY <1>4, TypesKept DEF BaseInv, TypeOK, Entry
    <3>2. SaveWrite /\ e.file = heap[save.obj].short /\ save.obj \in DOMAIN heap
      BY <2>2, <3>1, FileWritten DEF Readable
    <3>3. heap[save.obj].ieee = e.ieee
      BY <1>1, <1>4, <3>2, FileOf
    <3>4. UNCHANGED heap
      BY <3>2 DEF SaveWrite
    <3> QED
      BY <3>2, <3>3, <3>4 DEF Known
  <2> QED
    BY <2>1, <2>2
<1>5. CASE e \in loading
  <2>1. PICK x \in loading : LoadEntry(x)
    <3>1. Handle \/ SaveOpen \/ SaveWrite \/ SaveUnlink \/ SaveRename => UNCHANGED loading
      BY HandlerFrame DEF SaveOpen, SaveWrite, SaveUnlink, SaveRename
    <3>2. \A d : WebSave(d) => UNCHANGED loading
      BY DEF WebSave
    <3> QED
      BY <1>2, <1>5, <3>1, <3>2, OtherSteps
  <2>2. x = e /\ UNCHANGED files
    BY <1>5, <2>1 DEF LoadEntry, disk
  <2>3. Readable(e.file)
    BY <2>2 DEF Readable
  <2>4. \/ Known(e.ieee)
        \/ heap' = Append(heap, files[e.file]) /\ files[e.file] \in Device /\ files[e.file].ieee = e.ieee
    BY <1>1, <1>5, <2>1, <2>2, <2>3, LoadEffect, Truthful
  <2>5. CASE Known(e.ieee)
    BY <1>2, <2>5, StillKnown
  <2>6. CASE heap' = Append(heap, files[e.file]) /\ files[e.file] \in Device /\ files[e.file].ieee = e.ieee
    BY <1>1, <2>6, HeapGrows DEF Known
  <2> QED
    BY <2>4, <2>5, <2>6
<1> QED
  BY <1>1, <1>3, <1>4, <1>5, IndexSteps

LEMMA TruthKept ==
  ASSUME Tidy, BaseInv, SeqParts, [Next]_vars, "web" \notin Allow, NEW e \in index', Readable(e.file)'
  PROVE  files'[e.file].ieee = e.ieee
<1>1. TypeOK /\ SaveInv /\ RestInv /\ TabInv /\ OneOwner /\ FlashInv /\ IndexTruthful
  BY DEF BaseInv, SeqParts, FlashInv
<1>2. files'[e.file] \notin {NoFile, Broken}
  BY DEF Readable
<1>3. CASE e \in index /\ ~SaveRename
  <2>1. e.file \in DOMAIN files'
    BY <1>3, TypesKept DEF BaseInv, TypeOK, Entry
  <2>2. CASE files'[e.file] = files[e.file]
    BY <1>1, <1>2, <1>3, <2>2 DEF Readable, IndexTruthful
  <2>3. CASE SaveWrite /\ e.file = heap[save.obj].short /\ files'[e.file] = heap[save.obj]
    BY <1>1, <1>3, <2>3, FileOf
  <2> QED
    BY <1>2, <2>1, <2>2, <2>3, FileWritten
<1>4. ASSUME SaveRename, UNCHANGED <<heap, files>>,
             NEW d \in DOMAIN heap, heap[d].ieee = e.ieee, heap[d].short = e.file
      PROVE  files'[e.file].ieee = e.ieee
  <2>1. Readable(heap[d].short)
    BY <1>2, <1>4 DEF Readable
  <2>2. heap[d].short # Unknown
    BY <1>1, <2>1, Addresses DEF RestInv, TypeOK
  <2>3. save.step = "rename" /\ files[heap[save.obj].short] = heap[save.obj] /\ save.obj = zbTask.dev
    BY <1>1, <1>4 DEF SaveRename, SaveInv, TypeOK, Saving
  <2>4. zbTask.dev = d \/ files[heap[d].short] = heap[d]
    BY <1>1, <2>2, <2>3 DEF FlashInv
  <2> QED
    BY <1>4, <2>3, <2>4
<1> QED
  BY <1>1, <1>3, <1>4, IndexSteps

LEMMA FlashKept ==
  ASSUME Tidy, BaseInv, SeqParts, [Next]_vars
  PROVE  FlashInv'
<1>1. \A e \in index' \ loading' : Readable(e.file)' => Known(e.ieee)'
  BY RestoredKnown
<1>2. "web" \notin Allow => IndexTruthful'
  BY TruthKept DEF IndexTruthful
<1> QED
  BY <1>1, <1>2, FileFollows, IndexFollows DEF FlashInv

-----------------------------------------------------------------------------
(* The invariant, and what follows.                                        *)

LEMMA SeqInit == Init => SeqInv
<1> SUFFICES ASSUME Init PROVE SeqParts
  BY DEF SeqInv
<1>1. DOMAIN heap = {} /\ DOMAIN sig = {} /\ table = Empty
  BY EmptyHeap DEF Init
<1>2. TabInv
  <2>1. \A d : \A b \in Bucket : ~InBucket(Empty, d, b)
    BY DEF Empty, InBucket
  <2> QED
    BY <1>1, <2>1, EmptyTable DEF TabInv
<1>3. OneOwner
  BY <1>1, Addresses DEF Init, OneOwner, Claims
<1>4. JoinInv
  BY <1>1 DEF Init, JoinInv, Joining
<1>5. LearnInv
  BY <1>1 DEF Init, LearnInv
<1>6. DescInv
  BY <1>1 DEF Init, DescInv, Readable
<1>7. FlashInv /\ GuidInv
  BY <1>1 DEF Init, FlashInv, GuidInv, IndexTruthful
<1> QED
  BY <1>2, <1>3, <1>4, <1>5, <1>6, <1>7 DEF SeqParts

LEMMA SeqStep ==
  ASSUME Apart, BaseInv, SeqInv, [Next]_vars
  PROVE  SeqInv'
<1> SUFFICES ASSUME Tidy' PROVE SeqParts'
  BY DEF SeqInv
<1>1. Tidy
  BY NoCrash DEF Tidy
<1> QED
  BY <1>1, TabKept, OwnerKept, JoinKept, LearnKept, DescKept, FlashKept, GuidKept DEF SeqInv, SeqParts

LEMMA Invariant == Apart => (Spec => [](BaseInv /\ SeqInv))
<1> SUFFICES ASSUME Apart PROVE Spec => [](BaseInv /\ SeqInv)
  OBVIOUS
<1>1. BaseInv /\ SeqInv /\ [Next]_vars => (BaseInv /\ SeqInv)'
  BY BaseStep, SeqStep
<1> QED
  BY <1>1, BaseInit, SeqInit, PTL DEF Spec

\* The table stays sound: each device once, in the bucket of its address, no two under one
\* IEEE address or one short address, while updates move devices from bucket to bucket and a
\* restart builds the table again.
THEOREM TableStaysSound == Apart => (Spec => [](Tidy => TableSound))
<1>1. BaseInv /\ SeqInv => (Tidy => TableSound)
  BY SoundTable DEF BaseInv, SeqInv, SeqParts
<1> QED
  BY <1>1, Invariant, PTL

\* No device that was created drops out of the table.
THEOREM NeverLost == Apart => (Spec => [](Tidy => NoneLost))
<1>1. BaseInv /\ SeqInv => (Tidy => NoneLost)
  BY SoundTable DEF BaseInv, SeqInv, SeqParts
<1> QED
  BY <1>1, Invariant, PTL

\* A restart, and whatever joins follow it, never make a second device with one IEEE address.
THEOREM OnceRestored == Apart => (Spec => [](Tidy => RestoredOnce))
<1>1. BaseInv /\ SeqInv => (Tidy => RestoredOnce)
  BY SoundTable DEF BaseInv, SeqInv, SeqParts
<1> QED
  BY <1>1, Invariant, PTL

\* The GUIDs under the present address of a device lead into that device or nowhere.
THEOREM GuidsStayOwn == Apart => (Spec => [](Tidy => GuidsOwn))
<1>1. BaseInv /\ SeqInv => (Tidy => GuidsOwn)
  BY DEF BaseInv, SeqInv, SeqParts, GuidsOwn, GuidInv, TabInv
<1> QED
  BY <1>1, Invariant, PTL

\* A device carries the description of another only if the two had to share an address: the
\* network gave one of them an address the host still had for the other, in memory, in a file
\* or in a signal.  This holds however joins, moves, answers, reports, saves of two tasks and
\* restarts interleave, overlapping joins and reused addresses included.
THEOREM OwnDescription == Spec => []DescribedByItself
<1>1. Init => MixInv
  <2> SUFFICES ASSUME Init PROVE MixInv
    OBVIOUS
  <2>1. /\ DOMAIN heap = {} /\ DOMAIN sig = {} /\ index = {} /\ asks = {}
        /\ \A a \in DOMAIN files : ~Readable(a)
        /\ \A i \in Ieee : net[i] \notin Addr
    BY EmptyHeap, Addresses DEF Init, Readable
  <2>2. \A a \in Addr : a \in DOMAIN files
    BY DEF Init
  <2> QED
    BY <2>1, <2>2 DEF MixInv, Names, Claims
<1>2. (BaseInv /\ MixInv) /\ [Next]_vars => (BaseInv /\ MixInv)'
  BY BaseStep, MixKept
<1>3. BaseInv /\ MixInv => DescribedByItself
  BY DEF MixInv, Owns, Mixed, DescribedByItself
<1> QED
  BY <1>1, <1>2, <1>3, BaseInit, PTL DEF Spec

\* Where the network reuses no address, joins come one at a time and no save of the HTTP task
\* precedes a restart, a device carries its own description or none.
THEOREM OwnWhenApart ==
  Apart => (Spec => [](Tidy => \A d \in DOMAIN heap : heap[d].desc \in {NoDev, heap[d].ieee}))
<1>1. BaseInv /\ SeqInv => (Tidy => \A d \in DOMAIN heap : heap[d].desc \in {NoDev, heap[d].ieee})
  BY DEF BaseInv, SeqInv, SeqParts, DescInv
<1> QED
  BY <1>1, Invariant, PTL

\* Between two messages the files and the index describe the devices there are.
THEOREM FlashIsComplete == Apart => (Spec => [](Tidy => FlashComplete))
<1>1. BaseInv /\ SeqInv => (Tidy => FlashComplete)
  <2> SUFFICES ASSUME BaseInv, SeqInv, Tidy, Ready, NEW d \in Devices(table), heap[d].short # Unknown
               PROVE  /\ files[heap[d].short] = heap[d]
                      /\ [ieee |-> heap[d].ieee, file |-> heap[d].short] \in index
    BY DEF FlashComplete
  <2>1. d \in DOMAIN heap /\ d # Null
    BY HeapIs DEF BaseInv
  <2>2. zbTask.dev = Null /\ save.step = "idle"
    BY DEF Ready, NoTask
  <2> QED
    BY <2>1, <2>2 DEF SeqInv, SeqParts, FlashInv
<1> QED
  BY <1>1, Invariant, PTL

\* A restart leaves out no device whose file can be read.
THEOREM AllReadBack == Apart => (Spec => [](Tidy => ReadBack))
<1>1. BaseInv /\ SeqInv => (Tidy => ReadBack)
  <2> SUFFICES ASSUME BaseInv, SeqInv, Tidy, loading = {}, NEW e \in index, Readable(e.file)
               PROVE  FindIeee(e.ieee) # Null
    BY DEF ReadBack
  <2>1. Known(e.ieee)
    BY DEF SeqInv, SeqParts, FlashInv
  <2> QED
    BY <2>1, Found DEF BaseInv, SeqInv, SeqParts
<1> QED
  BY <1>1, Invariant, PTL

\* When only esp_zb_task saves devices, an entry of the index never leads into the file of
\* another device, at any point of any save.
THEOREM IndexStaysTruthful == Apart /\ "web" \notin Allow => (Spec => []IndexTruthful)
<1> SUFFICES ASSUME Apart, "web" \notin Allow PROVE Spec => []IndexTruthful
  OBVIOUS
<1>1. BaseInv /\ SeqInv => IndexTruthful
  BY DEF SeqInv, SeqParts, FlashInv, Tidy
<1> QED
  BY <1>1, Invariant, PTL

\* Once its signals are handled, the address the base has for a device that is in is the one
\* it really has, also when the HTTP task saves devices meanwhile.
THEOREM AddressIsKnown == Apart /\ "router" \notin Allow => (Spec => []KnownAddress)
<1> SUFFICES ASSUME Apart, "router" \notin Allow PROVE Spec => []KnownAddress
  OBVIOUS
<1>1. BaseInv /\ SeqInv => KnownAddress
  <2> SUFFICES ASSUME BaseInv, SeqInv, NEW i \in Ieee, stage[i] = "in", sig = <<>>, crashes = 0
               PROVE  FindIeee(i) # Null /\ heap[FindIeee(i)].short = net[i]
    BY DEF KnownAddress
  <2>1. TypeOK /\ TabInv /\ LearnInv
    BY DEF BaseInv, SeqInv, SeqParts, Tidy
  <2>2. ~Told(i)
    BY DEF Told
  <2>3. PICK d \in DOMAIN heap : heap[d].ieee = i /\ heap[d].short = net[i]
    BY <2>1, <2>2 DEF LearnInv, Learned
  <2>4. FindIeee(i) = d /\ d # Null
    BY <2>1, <2>3, Found, HeapIs
  <2> QED
    BY <2>3, <2>4
<1> QED
  BY <1>1, Invariant, PTL

-----------------------------------------------------------------------------
(* The address book.                                                       *)

\* Joins one at a time, and restarts only if the HTTP task saves nothing.
Orderly == Apart /\ ("web" \notin Allow \/ MaxCrashes = 0)

OrderlyInv == BaseInv /\ SeqInv /\ (MaxCrashes = 0 => crashes = 0)

Listed == [i \in Ieee |-> IF FindIeee(i) = Null THEN Absent ELSE heap[FindIeee(i)].short]

LEMMA OrderlyInvariant ==
  ASSUME Orderly
  PROVE  /\ Init => OrderlyInv
         /\ OrderlyInv /\ [Next]_vars => OrderlyInv'
         /\ OrderlyInv => Tidy
<1>1. Init => OrderlyInv
  BY BaseInit, SeqInit DEF OrderlyInv, Init
<1>2. ASSUME OrderlyInv, [Next]_vars PROVE OrderlyInv'
  <2>1. BaseInv' /\ SeqInv'
    BY <1>2, BaseStep, SeqStep DEF OrderlyInv, Orderly
  <2>2. MaxCrashes = 0 => crashes' = 0
    <3>1. MaxCrashes = 0 => ~Crash
      BY <1>2 DEF Crash, OrderlyInv
    <3>2. ~Crash => UNCHANGED crashes
      BY <1>2 DEF Next, Network, EmitUpdate, EmitAuthorized, EmitReport, Leave, Associate, Rejoin,
         Handle, HandleAssociated, HandleUpdate, HandleAuthorized, HandleReport, Received,
         ActiveEpResp, SimpleDescResp, AnswerFails, AnswerFrom, Save, SaveOpen, SaveWrite,
         SaveUnlink, SaveRename, WebSave, LoadEntry, vars
    <3> QED
      BY <1>2, <3>1, <3>2 DEF OrderlyInv
  <2> QED
    BY <2>1, <2>2 DEF OrderlyInv
<1>3. OrderlyInv => Tidy
  BY DEF OrderlyInv, Orderly, Tidy
<1> QED
  BY <1>1, <1>2, <1>3

\* What the book says, in terms of the devices.
BookDrawn ==
  /\ Listed \in [Ieee -> Addr \cup {Unknown, Absent}]
  /\ \A i \in Ieee : Listed[i] = Absent <=> ~Known(i)
  /\ \A d \in DOMAIN heap : Listed[heap[d].ieee] = heap[d].short
  /\ \A i \in Ieee, a \in Addr : Listed[i] = a =>
       \E d \in DOMAIN heap : heap[d].ieee = i /\ heap[d].short = a

LEMMA ListedIs == TypeOK /\ TabInv => BookDrawn
<1> SUFFICES ASSUME TypeOK, TabInv PROVE BookDrawn
  OBVIOUS
<1>1. \A d \in DOMAIN heap :
        /\ d # Null /\ heap[d].ieee \in Ieee /\ heap[d].short \in Addr \cup {Unknown}
        /\ FindIeee(heap[d].ieee) = d
  BY HeapIs, Found
<1>2. \A i \in Ieee : FindIeee(i) # Null => FindIeee(i) \in DOMAIN heap /\ heap[FindIeee(i)].ieee = i
  BY Found
<1>3. \A i \in Ieee : FindIeee(i) = Null <=> ~Known(i)
  BY Found
<1>4. \A x \in Addr \cup {Unknown} : x # Absent
  BY Addresses
<1>5. \A i \in Ieee : Listed[i] = IF FindIeee(i) = Null THEN Absent ELSE heap[FindIeee(i)].short
  BY DEF Listed
<1>6. Listed \in [Ieee -> Addr \cup {Unknown, Absent}]
  BY <1>1, <1>2 DEF Listed
<1> QED
  BY <1>1, <1>2, <1>3, <1>4, <1>5, <1>6 DEF BookDrawn

\* Devices that stay under their addresses leave the book as it is.
LEMMA BookStays ==
  ASSUME TypeOK, TabInv, TypeOK', TabInv', SameAddresses
  PROVE  UNCHANGED Listed
<1>1. BookDrawn /\ BookDrawn'
  BY ListedIs, PTL
<1>2. /\ Listed \in [Ieee -> Addr \cup {Unknown, Absent}]
      /\ Listed' \in [Ieee -> Addr \cup {Unknown, Absent}]
      /\ \A i \in Ieee : Listed[i] = Absent <=> ~Known(i)
      /\ \A i \in Ieee : Listed'[i] = Absent <=> ~Known(i)'
      /\ \A e \in DOMAIN heap : Listed[heap[e].ieee] = heap[e].short
      /\ \A e \in DOMAIN heap' : Listed'[heap'[e].ieee] = heap'[e].short
  BY <1>1 DEF BookDrawn
<1>3. ASSUME NEW i \in Ieee PROVE Listed'[i] = Listed[i]
  <2>1. CASE Known(i)
    <3>1. PICK d \in DOMAIN heap : heap[d].ieee = i
      BY <2>1 DEF Known
    <3>2. d \in DOMAIN heap' /\ heap'[d].ieee = i /\ heap'[d].short = heap[d].short
      BY <3>1 DEF SameAddresses
    <3> QED
      BY <1>2, <3>1, <3>2
  <2>2. CASE ~Known(i)
    <3>1. ~Known(i)'
      BY <2>2 DEF Known, SameAddresses
    <3> QED
      BY <1>2, <2>2, <3>1
  <2> QED
    BY <2>1, <2>2
<1> QED
  BY <1>2, <1>3

\* A device more, of an address that was not listed: its entry is made, the others stay.
LEMMA BookGrows ==
  ASSUME TypeOK, TabInv, TypeOK', TabInv', NEW x \in Device, ~Known(x.ieee),
         heap' = Append(heap, x)
  PROVE  /\ x.ieee \in Ieee /\ Listed[x.ieee] = Absent
         /\ Listed' = [Listed EXCEPT ![x.ieee] = x.short]
<1>1. BookDrawn /\ BookDrawn'
  BY ListedIs, PTL
<1>2. /\ Listed \in [Ieee -> Addr \cup {Unknown, Absent}]
      /\ Listed' \in [Ieee -> Addr \cup {Unknown, Absent}]
      /\ \A i \in Ieee : Listed[i] = Absent <=> ~Known(i)
      /\ \A i \in Ieee : Listed'[i] = Absent <=> ~Known(i)'
      /\ \A e \in DOMAIN heap : Listed[heap[e].ieee] = heap[e].short
      /\ \A e \in DOMAIN heap' : Listed'[heap'[e].ieee] = heap'[e].short
  BY <1>1 DEF BookDrawn
<1> DEFINE n == Len(heap) + 1
<1>3. /\ n \in DOMAIN heap' /\ DOMAIN heap' = DOMAIN heap \cup {n}
      /\ heap'[n] = x /\ \A e \in DOMAIN heap : heap'[e] = heap[e]
  BY HeapGrows, HeapIs
<1>4. x.ieee \in Ieee
  BY DEF Device
<1>5. Listed'[x.ieee] = x.short
  BY <1>2, <1>3
<1>6. ASSUME NEW i \in Ieee, i # x.ieee PROVE Listed'[i] = Listed[i]
  <2>1. CASE Known(i)
    <3>1. PICK d \in DOMAIN heap : heap[d].ieee = i
      BY <2>1 DEF Known
    <3> QED
      BY <1>2, <1>3, <3>1
  <2>2. CASE ~Known(i)
    <3>1. ~Known(i)'
      BY <1>3, <1>6, <2>2 DEF Known
    <3> QED
      BY <1>2, <2>2, <3>1
  <2> QED
    BY <2>1, <2>2
<1> QED
  BY <1>2, <1>4, <1>5, <1>6

\* A device moves to another address: its entry alone changes.
LEMMA BookMoves ==
  ASSUME TypeOK, TabInv, TypeOK', TabInv', NEW d \in DOMAIN heap, NEW a \in Addr,
         heap' = [heap EXCEPT ![d].short = a]
  PROVE  /\ heap[d].ieee \in Ieee /\ Listed[heap[d].ieee] # Absent
         /\ Listed' = [Listed EXCEPT ![heap[d].ieee] = a]
<1>1. BookDrawn /\ BookDrawn'
  BY ListedIs, PTL
<1>2. /\ Listed \in [Ieee -> Addr \cup {Unknown, Absent}]
      /\ Listed' \in [Ieee -> Addr \cup {Unknown, Absent}]
      /\ \A i \in Ieee : Listed[i] = Absent <=> ~Known(i)
      /\ \A i \in Ieee : Listed'[i] = Absent <=> ~Known(i)'
      /\ \A e \in DOMAIN heap : Listed[heap[e].ieee] = heap[e].short
      /\ \A e \in DOMAIN heap' : Listed'[heap'[e].ieee] = heap'[e].short
  BY <1>1 DEF BookDrawn
<1>3. /\ DOMAIN heap' = DOMAIN heap /\ heap'[d].short = a
      /\ \A e \in DOMAIN heap : heap'[e].ieee = heap[e].ieee
      /\ \A e \in DOMAIN heap \ {d} : heap'[e].short = heap[e].short
  BY HeapIs DEF Device
<1> DEFINE j == heap[d].ieee
<1>4. j \in Ieee /\ Listed[j] # Absent
  BY <1>2, HeapIs DEF Known
<1>5. Listed'[j] = a
  BY <1>2, <1>3
<1>6. ASSUME NEW i \in Ieee, i # j PROVE Listed'[i] = Listed[i]
  <2>1. CASE Known(i)
    <3>1. PICK e \in DOMAIN heap : heap[e].ieee = i
      BY <2>1 DEF Known
    <3> QED
      BY <1>2, <1>3, <1>6, <3>1
  <2>2. CASE ~Known(i)
    <3>1. ~Known(i)'
      BY <1>3, <2>2 DEF Known
    <3> QED
      BY <1>2, <2>2, <3>1
  <2> QED
    BY <2>1, <2>2
<1> QED
  BY <1>2, <1>4, <1>5, <1>6

\* Every step of the base is one of the book, or leaves it as it is.
LEMMA BookStep ==
  ASSUME Orderly, OrderlyInv, [Next]_vars
  PROVE  \/ UNCHANGED Listed
         \/ Listed' = [i \in Ieee |-> Absent]
         \/ \E i \in Ieee : Listed[i] = Absent /\ Listed' = [Listed EXCEPT ![i] = Unknown]
         \/ \E i \in Ieee, a \in Addr :
              (\A j \in Ieee : Listed[j] # a) /\ Listed' = [Listed EXCEPT ![i] = a]
<1>1. OrderlyInv' /\ Tidy /\ Tidy'
  BY OrderlyInvariant, PTL
<1>2. /\ TypeOK /\ RestInv /\ SeqParts /\ TabInv /\ OneOwner /\ JoinInv
      /\ TypeOK' /\ TabInv'
  BY <1>1 DEF OrderlyInv, BaseInv, SeqInv, SeqParts
<1>3. \A a \in Addr : (\A e \in DOMAIN heap : heap[e].short # a) => \A j \in Ieee : Listed[j] # a
  BY <1>2, ListedIs DEF BookDrawn
<1>4. CASE SameAddresses /\ UNCHANGED table
  BY <1>2, <1>4, BookStays
<1>5. CASE HandleAssociated
  <2> DEFINE i == Head(sig).ieee
             x == [ieee |-> i, short |-> Unknown, desc |-> NoDev]
  <2>1. x \in Device /\ (UNCHANGED <<heap, table>> \/ (~Known(i) /\ heap' = Append(heap, x)))
    BY <1>2, <1>5, AssociatedEffect
  <2>2. x.ieee = i /\ x.short = Unknown
    OBVIOUS
  <2>3. UNCHANGED heap => SameAddresses
    BY DEF SameAddresses
  <2> HIDE DEF x
  <2> QED
    BY <1>2, <2>1, <2>2, <2>3, BookStays, BookGrows
<1>6. CASE HandleUpdate
  <2> DEFINE i == Head(sig).ieee
             a == Head(sig).addr
  <2>1. \/ UNCHANGED <<heap, table, guid, zbTask>>
        \/ \E d \in DOMAIN heap : /\ \A e \in DOMAIN heap : heap[e].short # a
                                  /\ heap' = [heap EXCEPT ![d].short = a]
    BY <1>2, <1>6, UpdateEffect
  <2>2. a \in Addr
    BY <1>2, <1>6, SignalRead DEF HandleUpdate, Received, TypeOK
  <2>3. UNCHANGED heap => SameAddresses
    BY DEF SameAddresses
  <2> QED
    BY <1>2, <1>3, <2>1, <2>2, <2>3, BookStays, BookMoves
<1>7. CASE Crash
  <2>1. DOMAIN heap' = {}
    BY <1>7, CrashEffect
  <2>2. BookDrawn'
    BY <1>2, ListedIs, PTL
  <2> QED
    BY <2>1, <2>2 DEF Known, BookDrawn
<1>8. CASE \E e \in loading : LoadEntry(e)
  <2>1. PICK e \in loading : LoadEntry(e)
    BY <1>8
  <2> DEFINE f == files[e.file]
  <2>2. \/ UNCHANGED <<heap, table, guid>>
        \/ /\ f \in Device /\ f.ieee = e.ieee /\ f.short = e.file /\ e.file \in Addr
           /\ ~Known(e.ieee) /\ \A d \in DOMAIN heap : heap[d].short # e.file
           /\ heap' = Append(heap, f)
    BY <1>1, <1>2, <2>1, LoadEffect, Truthful DEF OrderlyInv
  <2>3. UNCHANGED heap => SameAddresses
    BY DEF SameAddresses
  <2> QED
    BY <1>2, <1>3, <2>2, <2>3, BookStays, BookGrows
<1> QED
  BY <1>2, <1>4, <1>5, <1>6, <1>7, <1>8, StillEffect

\* The device base implements the address book: a device is listed under one address, a
\* step that gives it one takes an address no other has, and only a restart forgets.  Joins
\* come one at a time, and a restart does not meet an index the HTTP task left wrong.
THEOREM ImplementsBook == Orderly => (Spec => IsAddressBook)
<1> SUFFICES ASSUME Orderly PROVE Spec => IsAddressBook
  OBVIOUS
<1>1. Init => Book!Init
  <2> SUFFICES ASSUME Init PROVE Listed = [i \in Ieee |-> Absent]
    BY DEF Book!Init, Listed
  <2>1. TypeOK /\ TabInv
    BY OrderlyInvariant DEF OrderlyInv, BaseInv, SeqInv, SeqParts
  <2>2. DOMAIN heap = {}
    BY DEF Init
  <2> QED
    BY <2>1, <2>2, ListedIs DEF Known, BookDrawn
<1>2. OrderlyInv /\ [Next]_vars => [Book!Next]_Listed
  <2> SUFFICES ASSUME OrderlyInv, [Next]_vars, Listed' # Listed PROVE Book!Next
    OBVIOUS
  <2> QED
    BY BookStep DEF Book!Next, Book!Meet, Book!Move, Book!Recall, Book!Forget, Book!Free, Listed
<1> QED
  BY <1>1, <1>2, OrderlyInvariant, PTL DEF Spec, IsAddressBook, Book!Spec, Listed


=============================================================================
