----------------------------- MODULE DeviceTable -----------------------------
(***************************************************************************)
(* The device table of zbm_device_db.c: a hash table by short address whose *)
(* buckets are linked lists, newest node first.  A node holds a pointer to *)
(* a device; a device keeps its addresses itself, so every search walks    *)
(* all buckets and looks at the devices behind the nodes.                  *)
(*                                                                         *)
(* A table t is a function from buckets to sequences of devices.  A search *)
(* takes the set D of devices that match (by short or by IEEE address) and *)
(* stops at the first node of one of them.                                 *)
(***************************************************************************)
EXTENDS Naturals, Sequences, SequencesExt

CONSTANT HashSize   \* ZBM_DEVICE_HASH_SIZE

ASSUME HashAssumption == HashSize \in Nat \ {0}

Bucket       == 0 .. HashSize - 1
hash_short(a) == a % HashSize

Null    == 0
Empty   == [b \in Bucket |-> <<>>]

\* A place is a bucket and a position in its list.
Place(t)     == UNION {{b} \X DOMAIN t[b] : b \in Bucket}
DeviceAt(t, p) == t[p[1]][p[2]]
Devices(t)   == {DeviceAt(t, p) : p \in Place(t)}
Before(p, q) == p[1] < q[1] \/ (p[1] = q[1] /\ p[2] < q[2])

\* The place a search for D stops at.
First(t, D) ==
  CHOOSE p \in Place(t) :
    /\ DeviceAt(t, p) \in D
    /\ \A q \in Place(t) : DeviceAt(t, q) \in D => q = p \/ Before(p, q)

\* zbm_find_device_in_devdb_by_short, ..._by_ieee
Find(t, D) == IF Devices(t) \cap D = {} THEN Null ELSE DeviceAt(t, First(t, D))

\* zbm_remove_device_from_devdb_by_short: the node goes, the device stays allocated.
Unlink(t, D) ==
  IF Devices(t) \cap D = {} THEN t
  ELSE LET p == First(t, D) IN [t EXCEPT ![p[1]] = RemoveAt(@, p[2])]

\* A plausible slip: the new node does not lead on to the former first one.
LinkAlone(t, d, b) == [t EXCEPT ![b] = <<d>>]

\* zbm_device_add_to_devdb: refuses only a device that is already in this bucket.
InBucket(t, d, b) == \E n \in DOMAIN t[b] : t[b][n] = d
Link(t, d, b)     == [t EXCEPT ![b] = <<d>> \o @]
=============================================================================
