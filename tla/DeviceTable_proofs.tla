------------------------- MODULE DeviceTable_proofs --------------------------
(***************************************************************************)
(* What the operators of DeviceTable do, for tables of any size: a search  *)
(* finds a device that matches if there is one, Link adds one node, and    *)
(* Unlink takes the one node of a device away.                             *)
(***************************************************************************)
EXTENDS DeviceTable, TLAPS, SequenceTheorems, WellFoundedInduction

-----------------------------------------------------------------------------
(* Numbers and sequences.                                                  *)

\* A set of numbers has a least one.
LEMMA Least ==
  ASSUME NEW T \in SUBSET Nat, T # {}
  PROVE  \E m \in T : \A k \in T : m <= k
<1>1. PICK m \in T : \A k \in T : ~(<<k, m>> \in OpToRel(<, Nat))
  BY NatLessThanWellFounded, WFMin
<1>2. \A k \in T : ~(k < m)
  BY <1>1 DEF OpToRel
<1> QED
  BY <1>2

LEMMA ShorterSeq ==
  ASSUME NEW S, NEW s \in Seq(S), NEW k \in 1 .. Len(s)
  PROVE  /\ RemoveAt(s, k) \in Seq(S) /\ Len(RemoveAt(s, k)) = Len(s) - 1
         /\ \A n \in 1 .. Len(s) - 1 :
              RemoveAt(s, k)[n] = IF n < k THEN s[n] ELSE s[n + 1]
<1>1. Len(s) \in Nat /\ k \in Int
  OBVIOUS
<1>2. \A n \in 1 .. Len(s) : s[n] \in S
  BY ElementOfSeq
<1> DEFINE p == SubSeq(s, 1, k - 1)  q == SubSeq(s, k + 1, Len(s))
<1>3. /\ p \in Seq(S) /\ Len(p) = k - 1
      /\ \A n \in 1 .. k - 1 : p[n] = s[n]
  <2>1. \A n \in 1 .. k - 1 : s[n] \in S
    BY <1>1, <1>2
  <2>2. /\ p \in Seq(S)
        /\ Len(p) = IF 1 <= k - 1 THEN k - 1 - 1 + 1 ELSE 0
        /\ \A n \in 1 .. k - 1 - 1 + 1 : p[n] = s[1 + n - 1]
    BY <1>1, <2>1, SubSeqProperties
  <2> QED
    BY <1>1, <2>2
<1>4. /\ q \in Seq(S) /\ Len(q) = Len(s) - k
      /\ \A n \in 1 .. Len(s) - k : q[n] = s[k + n]
  <2>1. \A n \in k + 1 .. Len(s) : s[n] \in S
    BY <1>1, <1>2
  <2>2. /\ q \in Seq(S)
        /\ Len(q) = IF k + 1 <= Len(s) THEN Len(s) - (k + 1) + 1 ELSE 0
        /\ \A n \in 1 .. Len(s) - (k + 1) + 1 : q[n] = s[(k + 1) + n - 1]
    BY <1>1, <2>1, SubSeqProperties
  <2> QED
    BY <1>1, <2>2
<1>5. /\ p \o q \in Seq(S) /\ Len(p \o q) = Len(p) + Len(q)
      /\ \A n \in 1 .. Len(p) + Len(q) :
           (p \o q)[n] = IF n <= Len(p) THEN p[n] ELSE q[n - Len(p)]
  BY <1>3, <1>4, ConcatProperties
<1>6. RemoveAt(s, k) = p \o q
  BY DEF RemoveAt
<1> HIDE DEF p, q
<1>7. Len(p \o q) = Len(s) - 1
  BY <1>1, <1>3, <1>4, <1>5
<1>8. ASSUME NEW n \in 1 .. Len(s) - 1
      PROVE  (p \o q)[n] = IF n < k THEN s[n] ELSE s[n + 1]
  <2>1. CASE n < k
    BY <1>1, <1>3, <1>4, <1>5, <2>1
  <2>2. CASE ~(n < k)
    <3>0. /\ n \in 1 .. Len(p) + Len(q) /\ ~(n <= Len(p)) /\ n - Len(p) = n - (k - 1)
          /\ n - (k - 1) \in 1 .. Len(s) - k
      BY <1>1, <1>3, <1>4, <2>2
    <3>1. (p \o q)[n] = q[n - (k - 1)] /\ n - (k - 1) \in 1 .. Len(s) - k
      <4>1. (p \o q)[n] = q[n - Len(p)]
        BY <1>5, <3>0, Zenon
      <4> QED
        BY <3>0, <4>1
    <3>2. q[n - (k - 1)] = s[k + (n - (k - 1))] /\ k + (n - (k - 1)) = n + 1
      BY <1>1, <1>4, <3>1
    <3> QED
      BY <2>2, <3>1, <3>2
  <2> QED
    BY <2>1, <2>2
<1> QED
  BY <1>5, <1>6, <1>7, <1>8

\* Nothing else goes with the item removed.
LEMMA ItemsLeft ==
  ASSUME NEW S, NEW s \in Seq(S), NEW k \in 1 .. Len(s),
         NEW n \in 1 .. Len(s), n # k
  PROVE  \E m \in 1 .. Len(s) - 1 : RemoveAt(s, k)[m] = s[n]
<1>1. Len(s) \in Nat /\ k \in Nat /\ n \in Nat
  OBVIOUS
<1>2. \A m \in 1 .. Len(s) - 1 : RemoveAt(s, k)[m] = IF m < k THEN s[m] ELSE s[m + 1]
  BY ShorterSeq
<1>3. CASE n < k
  <2>1. n \in 1 .. Len(s) - 1
    BY <1>1, <1>3
  <2> QED
    BY <1>2, <1>3, <2>1
<1>4. CASE k < n
  <2>1. n - 1 \in 1 .. Len(s) - 1 /\ ~(n - 1 < k) /\ (n - 1) + 1 = n
    BY <1>1, <1>4
  <2> QED
    BY <1>2, <2>1
<1> QED
  BY <1>1, <1>3, <1>4

LEMMA NewFirst ==
  ASSUME NEW S, NEW s \in Seq(S), NEW d \in S
  PROVE  /\ <<d>> \o s \in Seq(S) /\ Len(<<d>> \o s) = Len(s) + 1
         /\ (<<d>> \o s)[1] = d
         /\ \A n \in 1 .. Len(s) : (<<d>> \o s)[n + 1] = s[n]
         /\ \A n \in 1 .. Len(s) + 1 : n # 1 => n - 1 \in 1 .. Len(s) /\ (<<d>> \o s)[n] = s[n - 1]
<1>1. <<d>> \in Seq(S) /\ Len(<<d>>) = 1 /\ <<d>>[1] = d /\ Len(s) \in Nat
  OBVIOUS
<1>2. /\ <<d>> \o s \in Seq(S) /\ Len(<<d>> \o s) = 1 + Len(s)
      /\ \A n \in 1 .. 1 + Len(s) : (<<d>> \o s)[n] = IF n <= 1 THEN <<d>>[n] ELSE s[n - 1]
  BY <1>1, ConcatProperties
<1> QED
  BY <1>1, <1>2

-----------------------------------------------------------------------------
(* Tables of devices of a set H, and the places in them.                   *)

TableOf(H) == [Bucket -> Seq(H)]

\* Every device has at most one node.
Once(t) == \A p, q \in Place(t) : DeviceAt(t, p) = DeviceAt(t, q) => p = q

LEMMA PlacesAre ==
  ASSUME NEW H, NEW t \in TableOf(H)
  PROVE  /\ \A b \in Bucket : t[b] \in Seq(H) /\ Len(t[b]) \in Nat /\ DOMAIN t[b] = 1 .. Len(t[b])
         /\ \A b \in Bucket : \A n \in DOMAIN t[b] :
              /\ <<b, n>> \in Place(t) /\ DeviceAt(t, <<b, n>>) = t[b][n] /\ t[b][n] \in H
         /\ \A p \in Place(t) : /\ p[1] \in Bucket /\ p[2] \in DOMAIN t[p[1]] /\ p = <<p[1], p[2]>>
                                /\ DeviceAt(t, p) = t[p[1]][p[2]]
                                /\ p[1] \in Nat /\ p[2] \in Nat
<1>1. \A b \in Bucket : t[b] \in Seq(H) /\ Len(t[b]) \in Nat /\ DOMAIN t[b] = 1 .. Len(t[b])
  BY DEF TableOf
<1>2. \A b \in Bucket : b \in Nat
  BY HashAssumption DEF Bucket
<1>3. \A b \in Bucket : \A n \in DOMAIN t[b] : <<b, n>> \in {b} \X DOMAIN t[b]
  OBVIOUS
<1> QED
  BY <1>1, <1>2, <1>3, ElementOfSeq DEF Place, DeviceAt

LEMMA DevicesAre ==
  ASSUME NEW H, NEW t \in TableOf(H)
  PROVE  /\ Devices(t) \subseteq H
         /\ \A d : d \in Devices(t) <=> \E b \in Bucket : InBucket(t, d, b)
         /\ \A p \in Place(t) : DeviceAt(t, p) \in Devices(t) /\ InBucket(t, DeviceAt(t, p), p[1])
<1>1. \A p \in Place(t) : /\ p[1] \in Bucket /\ p[2] \in DOMAIN t[p[1]]
                          /\ DeviceAt(t, p) = t[p[1]][p[2]] /\ t[p[1]][p[2]] \in H
  BY PlacesAre
<1>2. ASSUME NEW b \in Bucket, NEW n \in DOMAIN t[b]
      PROVE  <<b, n>> \in Place(t) /\ DeviceAt(t, <<b, n>>) = t[b][n]
  BY PlacesAre
<1>3. Devices(t) \subseteq H
  BY <1>1 DEF Devices
<1>4. \A p \in Place(t) : DeviceAt(t, p) \in Devices(t) /\ InBucket(t, DeviceAt(t, p), p[1])
  BY <1>1 DEF Devices, InBucket
<1>5. ASSUME NEW d, NEW b \in Bucket, InBucket(t, d, b)
      PROVE  d \in Devices(t)
  <2>1. PICK n \in DOMAIN t[b] : t[b][n] = d
    BY <1>5 DEF InBucket
  <2>2. <<b, n>> \in Place(t) /\ DeviceAt(t, <<b, n>>) = d
    BY <1>2, <2>1
  <2> QED
    BY <2>2 DEF Devices
<1>6. \A d \in Devices(t) : \E b \in Bucket : InBucket(t, d, b)
  BY <1>1, <1>4 DEF Devices
<1> QED
  BY <1>3, <1>4, <1>5, <1>6

LEMMA EmptyTable ==
  /\ \A H : Empty \in TableOf(H)
  /\ Devices(Empty) = {} /\ Place(Empty) = {} /\ Once(Empty)
<1>1. \A H : Empty \in TableOf(H)
  BY DEF Empty, TableOf
<1>2. \A b \in Bucket : DOMAIN Empty[b] = {}
  BY DEF Empty
<1>3. Place(Empty) = {}
  BY <1>1, <1>2, PlacesAre
<1> QED
  BY <1>1, <1>3 DEF Devices, Once

\* A device with one node is in one bucket.
LEMMA OneBucket ==
  ASSUME NEW H, NEW t \in TableOf(H), Once(t), NEW d, NEW b \in Bucket, NEW c \in Bucket,
         InBucket(t, d, b), InBucket(t, d, c)
  PROVE  b = c
<1>1. PICK n \in DOMAIN t[b] : t[b][n] = d
  BY DEF InBucket
<1>2. PICK m \in DOMAIN t[c] : t[c][m] = d
  BY DEF InBucket
<1>3. /\ <<b, n>> \in Place(t) /\ DeviceAt(t, <<b, n>>) = d
      /\ <<c, m>> \in Place(t) /\ DeviceAt(t, <<c, m>>) = d
  BY <1>1, <1>2, PlacesAre
<1> QED
  BY <1>3 DEF Once

-----------------------------------------------------------------------------
(* Searches.                                                               *)

\* There is a first place of a device that matches: the first bucket with one, and the
\* first node there.
LEMMA FirstIs ==
  ASSUME NEW H, NEW t \in TableOf(H), NEW D, Devices(t) \cap D # {}
  PROVE  First(t, D) \in Place(t) /\ DeviceAt(t, First(t, D)) \in D
<1> DEFINE T == {p \in Place(t) : DeviceAt(t, p) \in D}
<1>1. T # {}
  BY DEF Devices
<1>2. \A p \in T : p[1] \in Nat /\ p[2] \in Nat /\ p = <<p[1], p[2]>>
  BY PlacesAre
<1> DEFINE B == {p[1] : p \in T}
<1>3. PICK b \in B : \A c \in B : b <= c
  <2>1. B \in SUBSET Nat /\ B # {}
    BY <1>1, <1>2
  <2> HIDE DEF B
  <2> QED
    BY <2>1, Least
<1> DEFINE N == {p[2] : p \in {p \in T : p[1] = b}}
<1>4. PICK n \in N : \A m \in N : n <= m
  <2>1. N \in SUBSET Nat /\ N # {}
    BY <1>2, <1>3
  <2> HIDE DEF N
  <2> QED
    BY <2>1, Least
<1>5. PICK p \in T : p[1] = b /\ p[2] = n
  BY <1>4
<1>6. \A q \in T : q = p \/ Before(p, q)
  <2> TAKE q \in T
  <2>1. b <= q[1] /\ (q[1] = b => n <= q[2])
    BY <1>3, <1>4
  <2>2. p = <<b, n>> /\ q = <<q[1], q[2]>> /\ b \in Nat /\ n \in Nat /\ q[1] \in Nat /\ q[2] \in Nat
    BY <1>2, <1>5
  <2> QED
    BY <1>5, <2>1, <2>2 DEF Before
<1>7. \E r \in Place(t) : /\ DeviceAt(t, r) \in D
                          /\ \A q \in Place(t) : DeviceAt(t, q) \in D => q = r \/ Before(r, q)
  BY <1>6
<1> QED
  BY <1>7 DEF First

\* A search finds a device that is in the table and matches, or there is none.
LEMMA FindIs ==
  ASSUME NEW H, NEW t \in TableOf(H), NEW D, Null \notin H
  PROVE  \/ Find(t, D) = Null /\ Devices(t) \cap D = {}
         \/ Find(t, D) # Null /\ Find(t, D) \in Devices(t) \cap D
<1>1. CASE Devices(t) \cap D = {}
  BY <1>1 DEF Find
<1>2. CASE Devices(t) \cap D # {}
  <2>1. First(t, D) \in Place(t) /\ DeviceAt(t, First(t, D)) \in D
    BY <1>2, FirstIs
  <2>2. DeviceAt(t, First(t, D)) \in Devices(t) /\ Devices(t) \subseteq H
    BY <2>1, DevicesAre
  <2> QED
    BY <1>2, <2>1, <2>2 DEF Find
<1> QED
  BY <1>1, <1>2

-----------------------------------------------------------------------------
(* Link: one node more.                                                    *)

LEMMA LinkAdds ==
  ASSUME NEW H, NEW t \in TableOf(H), NEW d \in H, NEW b \in Bucket
  PROVE  /\ Link(t, d, b) \in TableOf(H)
         /\ \A e : \A c \in Bucket : InBucket(Link(t, d, b), e, c) <=>
              InBucket(t, e, c) \/ (e = d /\ c = b)
         /\ Devices(Link(t, d, b)) = Devices(t) \cup {d}
<1> DEFINE u == Link(t, d, b)
<1>1. t[b] \in Seq(H) /\ DOMAIN t[b] = 1 .. Len(t[b]) /\ Len(t[b]) \in Nat
  BY PlacesAre
<1>2. u[b] = <<d>> \o t[b] /\ \A c \in Bucket \ {b} : u[c] = t[c]
  BY DEF Link, TableOf
<1>3. /\ u[b] \in Seq(H) /\ DOMAIN u[b] = 1 .. Len(t[b]) + 1
      /\ u[b][1] = d
      /\ \A n \in 1 .. Len(t[b]) : u[b][n + 1] = t[b][n]
      /\ \A n \in 1 .. Len(t[b]) + 1 : n # 1 => n - 1 \in 1 .. Len(t[b]) /\ u[b][n] = t[b][n - 1]
  BY <1>1, <1>2, NewFirst
<1>4. u \in TableOf(H)
  BY <1>1, <1>3, NewFirst DEF Link, TableOf
<1> HIDE DEF u
<1>5. \A e : InBucket(u, e, b) <=> InBucket(t, e, b) \/ e = d
  <2> TAKE e
  <2>1. ASSUME InBucket(u, e, b), e # d PROVE InBucket(t, e, b)
    <3>1. PICK n \in DOMAIN u[b] : u[b][n] = e
      BY <2>1 DEF InBucket
    <3> QED
      BY <1>1, <1>3, <2>1, <3>1 DEF InBucket
  <2>2. ASSUME InBucket(t, e, b) PROVE InBucket(u, e, b)
    <3>1. PICK n \in DOMAIN t[b] : t[b][n] = e
      BY <2>2 DEF InBucket
    <3>2. n + 1 \in 1 .. Len(t[b]) + 1
      BY <1>1, <3>1
    <3> QED
      BY <1>1, <1>3, <3>1, <3>2 DEF InBucket
  <2>3. InBucket(u, d, b)
    <3>1. 1 \in 1 .. Len(t[b]) + 1
      BY <1>1
    <3> QED
      BY <1>3, <3>1 DEF InBucket
  <2> QED
    BY <2>1, <2>2, <2>3
<1>6. \A e : \A c \in Bucket : InBucket(u, e, c) <=> InBucket(t, e, c) \/ (e = d /\ c = b)
  <2> TAKE e
  <2> TAKE c \in Bucket
  <2>1. CASE c = b
    BY <1>5, <2>1
  <2>2. CASE c # b
    BY <1>2, <2>2 DEF InBucket
  <2> QED
    BY <2>1, <2>2
<1>7. Devices(u) = Devices(t) \cup {d}
  <2>1. \A e : e \in Devices(u) <=> \E c \in Bucket : InBucket(u, e, c)
    BY <1>4, DevicesAre
  <2>2. \A e : e \in Devices(t) <=> \E c \in Bucket : InBucket(t, e, c)
    BY DevicesAre
  <2> QED
    BY <1>6, <2>1, <2>2
<1> QED
  BY <1>4, <1>6, <1>7 DEF u

LEMMA LinkOnce ==
  ASSUME NEW H, NEW t \in TableOf(H), NEW d \in H, NEW b \in Bucket,
         Once(t), d \notin Devices(t)
  PROVE  Once(Link(t, d, b))
<1> DEFINE u == Link(t, d, b)
<1>1. u \in TableOf(H)
  BY LinkAdds
<1>2. t[b] \in Seq(H) /\ DOMAIN t[b] = 1 .. Len(t[b]) /\ Len(t[b]) \in Nat
  BY PlacesAre
<1>3. u[b] = <<d>> \o t[b] /\ \A c \in Bucket \ {b} : u[c] = t[c]
  BY DEF Link, TableOf
<1>4. /\ DOMAIN u[b] = 1 .. Len(t[b]) + 1
      /\ u[b][1] = d
      /\ \A n \in 1 .. Len(t[b]) + 1 : n # 1 => n - 1 \in 1 .. Len(t[b]) /\ u[b][n] = t[b][n - 1]
  BY <1>2, <1>3, NewFirst
<1> HIDE DEF u
\* Where a node of the new table was before.
<1> DEFINE old(p) == IF p[1] = b THEN <<b, p[2] - 1>> ELSE p
<1>5. ASSUME NEW p \in Place(u), p # <<b, 1>>
      PROVE  old(p) \in Place(t) /\ DeviceAt(t, old(p)) = DeviceAt(u, p)
  <2>1. p[1] \in Bucket /\ p[2] \in DOMAIN u[p[1]] /\ p = <<p[1], p[2]>> /\ DeviceAt(u, p) = u[p[1]][p[2]]
    BY <1>1, PlacesAre
  <2>2. CASE p[1] = b
    <3>1. p[2] # 1 /\ p[2] \in 1 .. Len(t[b]) + 1
      BY <1>4, <1>5, <2>1, <2>2
    <3>2. p[2] - 1 \in DOMAIN t[b] /\ u[b][p[2]] = t[b][p[2] - 1]
      BY <1>2, <1>4, <3>1
    <3>3. <<b, p[2] - 1>> \in Place(t) /\ DeviceAt(t, <<b, p[2] - 1>>) = t[b][p[2] - 1]
      BY <3>2, PlacesAre
    <3> QED
      BY <2>1, <2>2, <3>2, <3>3
  <2>3. CASE p[1] # b
    <3>1. u[p[1]] = t[p[1]]
      BY <1>3, <2>1, <2>3
    <3>2. <<p[1], p[2]>> \in Place(t) /\ DeviceAt(t, <<p[1], p[2]>>) = t[p[1]][p[2]]
      BY <2>1, <3>1, PlacesAre
    <3> QED
      BY <2>1, <2>3, <3>1, <3>2
  <2> QED
    BY <2>2, <2>3
<1>6. ASSUME NEW p \in Place(u), p # <<b, 1>>
      PROVE  DeviceAt(u, p) \in Devices(t)
  BY <1>5, <1>6, DevicesAre
<1>7. ASSUME <<b, 1>> \in Place(u) PROVE DeviceAt(u, <<b, 1>>) = d
  BY <1>4 DEF DeviceAt
<1>8. ASSUME NEW p \in Place(u), NEW q \in Place(u), DeviceAt(u, p) = DeviceAt(u, q),
             p # <<b, 1>>, q # <<b, 1>>
      PROVE  p = q
  <2>1. old(p) = old(q)
    BY <1>5, <1>8 DEF Once
  <2>2. /\ p = <<p[1], p[2]>> /\ q = <<q[1], q[2]>>
        /\ p[2] \in Nat /\ q[2] \in Nat
    BY <1>1, PlacesAre
  <2>3. p[1] = q[1]
    BY <2>1
  <2>4. p[2] = q[2]
    <3>1. CASE p[1] = b
      <4>1. <<b, p[2] - 1>> = <<b, q[2] - 1>>
        BY <2>1, <2>3, <3>1
      <4> QED
        BY <2>2, <4>1
    <3> QED
      BY <2>1, <2>3, <3>1
  <2> QED
    BY <2>2, <2>3, <2>4
<1>9. Once(u)
  BY <1>6, <1>7, <1>8 DEF Once
<1> QED
  BY <1>9 DEF u

-----------------------------------------------------------------------------
(* Unlink: one node less.                                                  *)

LEMMA UnlinkTyped ==
  ASSUME NEW H, NEW t \in TableOf(H), NEW D
  PROVE  Unlink(t, D) \in TableOf(H)
<1>1. CASE Devices(t) \cap D = {}
  BY <1>1 DEF Unlink
<1>2. CASE Devices(t) \cap D # {}
  <2> DEFINE p == First(t, D)
  <2>1. p \in Place(t)
    BY <1>2, FirstIs
  <2>2. p[1] \in Bucket /\ t[p[1]] \in Seq(H) /\ p[2] \in 1 .. Len(t[p[1]])
    BY <2>1, PlacesAre
  <2>3. RemoveAt(t[p[1]], p[2]) \in Seq(H)
    BY <2>2, ShorterSeq
  <2>4. Unlink(t, D) = [t EXCEPT ![p[1]] = RemoveAt(@, p[2])]
    BY <1>2 DEF Unlink
  <2> HIDE DEF p
  <2> QED
    BY <2>2, <2>3, <2>4 DEF TableOf
<1> QED
  BY <1>1, <1>2

\* When one device matches and it has one node, that node goes and no other.
LEMMA UnlinkTakes ==
  ASSUME NEW H, NEW t \in TableOf(H), NEW D, NEW d, Once(t), Devices(t) \cap D = {d}
  PROVE  /\ Unlink(t, D) \in TableOf(H)
         /\ Once(Unlink(t, D))
         /\ \A e : \A c \in Bucket : InBucket(Unlink(t, D), e, c) <=> InBucket(t, e, c) /\ e # d
         /\ Devices(Unlink(t, D)) = Devices(t) \ {d}
<1> DEFINE p == First(t, D)  b == p[1]  k == p[2]  s == t[b]  u == Unlink(t, D)
<1>1. p \in Place(t) /\ DeviceAt(t, p) = d
  <2>1. Devices(t) \cap D # {}
    OBVIOUS
  <2>2. p \in Place(t) /\ DeviceAt(t, p) \in D
    BY <2>1, FirstIs
  <2>3. DeviceAt(t, p) \in Devices(t)
    BY <2>2, DevicesAre
  <2> QED
    BY <2>2, <2>3
<1>2. /\ b \in Bucket /\ s \in Seq(H) /\ k \in 1 .. Len(s) /\ p = <<b, k>> /\ s[k] = d
      /\ Len(s) \in Nat /\ DOMAIN s = 1 .. Len(s)
  BY <1>1, PlacesAre
<1>3. u = [t EXCEPT ![b] = RemoveAt(s, k)]
  BY DEF Unlink
<1>4. u \in TableOf(H)
  BY UnlinkTyped
<1> HIDE DEF u, p
<1>5. u[b] = RemoveAt(s, k) /\ \A c \in Bucket \ {b} : u[c] = t[c]
  BY <1>2, <1>3 DEF TableOf
<1>6. /\ DOMAIN u[b] = 1 .. Len(s) - 1
      /\ \A n \in 1 .. Len(s) - 1 : u[b][n] = IF n < k THEN s[n] ELSE s[n + 1]
  <2>1. /\ RemoveAt(s, k) \in Seq(H) /\ Len(RemoveAt(s, k)) = Len(s) - 1
        /\ \A n \in 1 .. Len(s) - 1 : RemoveAt(s, k)[n] = IF n < k THEN s[n] ELSE s[n + 1]
    BY <1>2, ShorterSeq
  <2> QED
    BY <1>5, <2>1, LenProperties
\* The only node of d is the one that goes.
<1>7. ASSUME NEW c \in Bucket, NEW n \in DOMAIN t[c], t[c][n] = d
      PROVE  c = b /\ n = k
  <2>1. <<c, n>> \in Place(t) /\ DeviceAt(t, <<c, n>>) = d
    BY <1>7, PlacesAre
  <2>2. <<c, n>> = p
    BY <1>1, <2>1 DEF Once
  <2> QED
    BY <1>2, <2>2
\* Where a node of the new table was before.
<1> DEFINE old(q) == IF q[1] = b /\ ~(q[2] < k) THEN <<b, q[2] + 1>> ELSE q
<1>8. ASSUME NEW q \in Place(u)
      PROVE  old(q) \in Place(t) /\ DeviceAt(t, old(q)) = DeviceAt(u, q) /\ old(q) # p
  <2>1. q[1] \in Bucket /\ q[2] \in DOMAIN u[q[1]] /\ q = <<q[1], q[2]>> /\ DeviceAt(u, q) = u[q[1]][q[2]]
    BY <1>4, PlacesAre
  <2>2. CASE q[1] = b /\ q[2] < k
    <3>1. q[2] \in 1 .. Len(s) - 1 /\ q[2] \in DOMAIN s /\ u[b][q[2]] = s[q[2]] /\ q[2] # k
      BY <1>2, <1>6, <2>1, <2>2
    <3>2. <<b, q[2]>> \in Place(t) /\ DeviceAt(t, <<b, q[2]>>) = s[q[2]]
      BY <1>2, <3>1, PlacesAre
    <3> QED
      BY <1>2, <2>1, <2>2, <3>1, <3>2
  <2>3. CASE q[1] = b /\ ~(q[2] < k)
    <3>1. /\ q[2] \in 1 .. Len(s) - 1 /\ q[2] + 1 \in DOMAIN s /\ u[b][q[2]] = s[q[2] + 1]
          /\ q[2] + 1 # k
      BY <1>2, <1>6, <2>1, <2>3
    <3>2. <<b, q[2] + 1>> \in Place(t) /\ DeviceAt(t, <<b, q[2] + 1>>) = s[q[2] + 1]
      BY <1>2, <3>1, PlacesAre
    <3> QED
      BY <1>2, <2>1, <2>3, <3>1, <3>2
  <2>4. CASE q[1] # b
    <3>1. u[q[1]] = t[q[1]]
      BY <1>5, <2>1, <2>4
    <3>2. <<q[1], q[2]>> \in Place(t) /\ DeviceAt(t, <<q[1], q[2]>>) = t[q[1]][q[2]]
      BY <2>1, <3>1, PlacesAre
    <3> QED
      BY <1>2, <2>1, <2>4, <3>1, <3>2
  <2> QED
    BY <2>2, <2>3, <2>4
<1>9. ASSUME NEW q \in Place(u), NEW r \in Place(u), DeviceAt(u, q) = DeviceAt(u, r)
      PROVE  q = r
  <2>1. old(q) = old(r)
    BY <1>8, <1>9 DEF Once
  <2>2. /\ q = <<q[1], q[2]>> /\ r = <<r[1], r[2]>> /\ q[2] \in Nat /\ r[2] \in Nat /\ k \in Nat
    BY <1>2, <1>4, PlacesAre
  <2>3. q[1] = r[1]
    BY <2>1
  <2>4. q[2] = r[2]
    <3>1. old(q)[2] = old(r)[2]
      BY <2>1
    <3>2. old(q)[2] = IF q[1] = b /\ ~(q[2] < k) THEN q[2] + 1 ELSE q[2]
      BY <2>2
    <3>3. old(r)[2] = IF r[1] = b /\ ~(r[2] < k) THEN r[2] + 1 ELSE r[2]
      BY <2>2
    <3>4. k \in Nat
      BY <1>2
    <3> HIDE DEF old, k
    <3>5. CASE q[1] = b
      <4>1. \A x, y, z \in Nat :
              (IF ~(x < z) THEN x + 1 ELSE x) = (IF ~(y < z) THEN y + 1 ELSE y) => x = y
        OBVIOUS
      <4>2. (IF ~(q[2] < k) THEN q[2] + 1 ELSE q[2]) = (IF ~(r[2] < k) THEN r[2] + 1 ELSE r[2])
        BY <2>3, <3>1, <3>2, <3>3, <3>5
      <4> QED
        BY <2>2, <3>4, <4>1, <4>2
    <3>6. CASE q[1] # b
      BY <2>2, <2>3, <3>1, <3>2, <3>3, <3>6
    <3> QED
      BY <3>5, <3>6
  <2> QED
    BY <2>2, <2>3, <2>4
<1>10. \A e : \A c \in Bucket : InBucket(u, e, c) => InBucket(t, e, c) /\ e # d
  <2> SUFFICES ASSUME NEW e, NEW c \in Bucket, InBucket(u, e, c)
               PROVE  InBucket(t, e, c) /\ e # d
    OBVIOUS
  <2>1. PICK n \in DOMAIN u[c] : u[c][n] = e
    BY DEF InBucket
  <2>2. <<c, n>> \in Place(u) /\ DeviceAt(u, <<c, n>>) = e
    BY <1>4, <2>1, PlacesAre
  <2>3. old(<<c, n>>) \in Place(t) /\ DeviceAt(t, old(<<c, n>>)) = e /\ old(<<c, n>>) # p
    BY <1>8, <2>2
  <2>4. old(<<c, n>>)[1] = c
    OBVIOUS
  <2> HIDE DEF old
  <2>5. InBucket(t, e, c)
    BY <2>3, <2>4, DevicesAre
  <2>6. e # d
    BY <1>1, <2>3 DEF Once
  <2> QED
    BY <2>5, <2>6
<1>11. \A e : \A c \in Bucket : InBucket(t, e, c) /\ e # d => InBucket(u, e, c)
  <2> SUFFICES ASSUME NEW e, NEW c \in Bucket, InBucket(t, e, c), e # d
               PROVE  InBucket(u, e, c)
    OBVIOUS
  <2>1. PICK n \in DOMAIN t[c] : t[c][n] = e
    BY DEF InBucket
  <2>2. CASE c # b
    BY <1>5, <2>1, <2>2 DEF InBucket
  <2>3. CASE c = b
    <3>1. n \in 1 .. Len(s) /\ n # k
      BY <1>2, <2>1, <2>3
    <3>2. \E m \in 1 .. Len(s) - 1 : RemoveAt(s, k)[m] = s[n]
      BY <1>2, <3>1, ItemsLeft
    <3> QED
      BY <1>5, <1>6, <2>1, <2>3, <3>2 DEF InBucket
  <2> QED
    BY <2>2, <2>3
<1>12. Devices(u) = Devices(t) \ {d}
  <2>1. \A e : e \in Devices(u) <=> \E c \in Bucket : InBucket(u, e, c)
    BY <1>4, DevicesAre
  <2>2. \A e : e \in Devices(t) <=> \E c \in Bucket : InBucket(t, e, c)
    BY DevicesAre
  <2> QED
    BY <1>10, <1>11, <2>1, <2>2
<1> QED
  BY <1>4, <1>9, <1>10, <1>11, <1>12 DEF u, Once
=============================================================================
