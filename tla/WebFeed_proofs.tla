--------------------------- MODULE WebFeed_proofs ---------------------------
(***************************************************************************)
(* What a connected page may rely on, for any number of pages, lengths of  *)
(* the queues and number of events.                                        *)
(*                                                                         *)
(* The last update on its way is of the value the device base has, and a   *)
(* page for which none is on its way has that value already, or has lost   *)
(* it: said of the queues all pages share and of each page (PageRight).    *)
(***************************************************************************)
EXTENDS WebFeed, TLAPS, SequenceTheorems

-----------------------------------------------------------------------------
(* The last update of a sequence of frames.                                *)

LEMMA OfNone == \A v : NoUpdate(<<>>) /\ EndsIn(<<>>, v)
BY DEF NoUpdate, EndsIn

LEMMA OfOne ==
  ASSUME NEW f \in Nat, NEW v
  PROVE  /\ NoUpdate(<<f>>) <=> f = Notice
         /\ EndsIn(<<f>>, v) <=> (f = Notice \/ f = v)
<1> DEFINE s == <<f>>
<1>1. Len(s) = 1 /\ DOMAIN s = {1} /\ s[1] = f
  OBVIOUS
<1> HIDE DEF s
<1>2. NoUpdate(s) <=> f = Notice
  BY <1>1 DEF NoUpdate
<1>3. EndsIn(s, v) <=> (f = Notice \/ f = v)
  BY <1>1 DEF EndsIn
<1> QED
  BY <1>2, <1>3 DEF s

LEMMA NoUpdateEnds == ASSUME NEW s, NEW v, NoUpdate(s) PROVE EndsIn(s, v)
BY DEF NoUpdate, EndsIn

\* Two sequences, one after the other.
LEMMA OfBoth ==
  ASSUME NEW s \in Seq(Nat), NEW t \in Seq(Nat), NEW v
  PROVE  /\ s \o t \in Seq(Nat)
         /\ NoUpdate(s \o t) <=> NoUpdate(s) /\ NoUpdate(t)
         /\ EndsIn(s \o t, v) <=> EndsIn(t, v) /\ (NoUpdate(t) => EndsIn(s, v))
<1> DEFINE u == s \o t
           m == Len(s)
           n == Len(t)
<1>1. /\ u \in Seq(Nat) /\ m \in Nat /\ n \in Nat /\ Len(u) = m + n
      /\ DOMAIN s = 1 .. m /\ DOMAIN t = 1 .. n /\ DOMAIN u = 1 .. m + n
  OBVIOUS
<1>2. (\A k \in 1 .. m : u[k] = s[k]) /\ (\A k \in 1 .. n : u[m + k] = t[k])
  OBVIOUS
<1> HIDE DEF u
<1>3. \A k \in 1 .. m + n : k \in 1 .. m \/ (k - m \in 1 .. n /\ k = m + (k - m))
  BY <1>1
<1>4. NoUpdate(u) <=> NoUpdate(s) /\ NoUpdate(t)
  <2>1. ASSUME NoUpdate(u) PROVE NoUpdate(s) /\ NoUpdate(t)
    <3>1. ASSUME NEW k \in 1 .. m PROVE s[k] = Notice
      <4>1. k \in 1 .. m + n
        BY <1>1
      <4> QED
        BY <1>1, <1>2, <2>1, <4>1 DEF NoUpdate
    <3>2. ASSUME NEW k \in 1 .. n PROVE t[k] = Notice
      <4>1. m + k \in 1 .. m + n
        BY <1>1
      <4> QED
        BY <1>1, <1>2, <2>1, <4>1 DEF NoUpdate
    <3> QED
      BY <1>1, <3>1, <3>2 DEF NoUpdate
  <2>2. ASSUME NoUpdate(s), NoUpdate(t) PROVE NoUpdate(u)
    <3>1. ASSUME NEW k \in 1 .. m + n PROVE u[k] = Notice
      <4>1. CASE k \in 1 .. m
        BY <1>1, <1>2, <2>2, <4>1 DEF NoUpdate
      <4>2. CASE k - m \in 1 .. n /\ k = m + (k - m)
        BY <1>1, <1>2, <2>2, <4>2 DEF NoUpdate
      <4> QED
        BY <1>3, <4>1, <4>2
    <3> QED
      BY <1>1, <3>1 DEF NoUpdate
  <2> QED
    BY <2>1, <2>2
<1>5. ASSUME EndsIn(u, v) PROVE EndsIn(t, v) /\ (NoUpdate(t) => EndsIn(s, v))
  <2>1. ASSUME NEW i \in 1 .. n, t[i] # Notice, \A k \in i + 1 .. n : t[k] = Notice
        PROVE  t[i] = v
    <3>1. m + i \in 1 .. m + n /\ u[m + i] = t[i]
      BY <1>1, <1>2
    <3>2. ASSUME NEW k \in m + i + 1 .. m + n PROVE u[k] = Notice
      <4>1. k - m \in i + 1 .. n /\ k - m \in 1 .. n /\ k = m + (k - m)
        BY <1>1
      <4> QED
        BY <1>2, <2>1, <4>1
    <3> QED
      BY <1>1, <1>5, <2>1, <3>1, <3>2 DEF EndsIn
  <2>2. ASSUME NoUpdate(t), NEW i \in 1 .. m, s[i] # Notice, \A k \in i + 1 .. m : s[k] = Notice
        PROVE  s[i] = v
    <3>1. i \in 1 .. m + n /\ u[i] = s[i]
      BY <1>1, <1>2
    <3>2. ASSUME NEW k \in i + 1 .. m + n PROVE u[k] = Notice
      <4>1. CASE k \in 1 .. m
        BY <1>1, <1>2, <2>2, <4>1
      <4>2. CASE k - m \in 1 .. n /\ k = m + (k - m)
        BY <1>1, <1>2, <2>2, <4>2 DEF NoUpdate
      <4>3. k \in 1 .. m + n
        BY <1>1
      <4> QED
        BY <1>3, <4>1, <4>2, <4>3
    <3> QED
      BY <1>1, <1>5, <2>2, <3>1, <3>2 DEF EndsIn
  <2> QED
    BY <1>1, <2>1, <2>2 DEF EndsIn
<1>6. ASSUME EndsIn(t, v), NoUpdate(t) => EndsIn(s, v) PROVE EndsIn(u, v)
  <2> SUFFICES ASSUME NEW i \in 1 .. m + n, u[i] # Notice,
                      \A k \in i + 1 .. m + n : u[k] = Notice
               PROVE  u[i] = v
    BY <1>1 DEF EndsIn
  <2>1. CASE i \in 1 .. m
    <3>1. NoUpdate(t)
      <4>1. ASSUME NEW k \in 1 .. n PROVE t[k] = Notice
        <5>1. m + k \in i + 1 .. m + n
          BY <1>1, <2>1
        <5> QED
          BY <1>2, <5>1
      <4> QED
        BY <1>1, <4>1 DEF NoUpdate
    <3>2. \A k \in i + 1 .. m : s[k] = Notice
      <4>1. ASSUME NEW k \in i + 1 .. m PROVE s[k] = Notice
        <5>1. k \in i + 1 .. m + n /\ k \in 1 .. m
          BY <1>1, <2>1
        <5> QED
          BY <1>2, <5>1
      <4> QED
        BY <4>1
    <3> QED
      BY <1>1, <1>2, <1>6, <2>1, <3>1, <3>2 DEF EndsIn
  <2>2. CASE i - m \in 1 .. n /\ i = m + (i - m)
    <3> DEFINE j == i - m
    <3>1. j \in 1 .. n /\ u[i] = t[j] /\ i = m + j
      BY <1>2, <2>2
    <3>2. ASSUME NEW k \in j + 1 .. n PROVE t[k] = Notice
      <4>1. m + k \in i + 1 .. m + n /\ k \in 1 .. n
        <5>1. m \in Nat /\ n \in Nat /\ j \in 1 .. n /\ i = m + j
          BY <1>1, <3>1
        <5> HIDE DEF j, m, n
        <5> QED
          BY <3>2, <5>1
      <4> QED
        BY <1>2, <4>1
    <3> HIDE DEF j
    <3> QED
      BY <1>1, <1>6, <3>1, <3>2 DEF EndsIn
  <2> QED
    BY <1>3, <2>1, <2>2
<1> QED
  BY <1>1, <1>4, <1>5, <1>6 DEF u

\* A frame added, at the end or in front.
LEMMA OfAppended ==
  ASSUME NEW s \in Seq(Nat), NEW f \in Nat, NEW v
  PROVE  /\ s \o <<f>> \in Seq(Nat)
         /\ NoUpdate(s \o <<f>>) <=> NoUpdate(s) /\ f = Notice
         /\ EndsIn(s \o <<f>>, v) <=> (IF f = Notice THEN EndsIn(s, v) ELSE f = v)
<1>1. <<f>> \in Seq(Nat)
  OBVIOUS
<1> DEFINE t == <<f>>
<1> HIDE DEF t
<1>2. /\ s \o t \in Seq(Nat)
      /\ NoUpdate(s \o t) <=> NoUpdate(s) /\ NoUpdate(t)
      /\ EndsIn(s \o t, v) <=> EndsIn(t, v) /\ (NoUpdate(t) => EndsIn(s, v))
  BY <1>1, OfBoth DEF t
<1>3. /\ NoUpdate(t) <=> f = Notice
      /\ EndsIn(t, v) <=> (f = Notice \/ f = v)
  BY OfOne DEF t
<1> QED
  BY <1>2, <1>3, NoUpdateEnds DEF t

\* The queues the pages share, one after the other.
LEMMA OfAll ==
  ASSUME NEW w \in Seq(Nat), NEW h \in Seq(Nat), NEW a \in Seq(Nat), NEW b \in Seq(Nat)
  PROVE  LET q == w \o h \o a \o b
         IN  /\ q \in Seq(Nat)
             /\ NoUpdate(q) <=> NoUpdate(w) /\ NoUpdate(h) /\ NoUpdate(a) /\ NoUpdate(b)
             /\ \A v : EndsIn(q, v) <=>
                  /\ EndsIn(b, v)
                  /\ NoUpdate(b) => EndsIn(a, v)
                  /\ NoUpdate(b) /\ NoUpdate(a) => EndsIn(h, v)
                  /\ NoUpdate(b) /\ NoUpdate(a) /\ NoUpdate(h) => EndsIn(w, v)
<1> DEFINE x == w \o h
           y == x \o a
<1>1. /\ x \in Seq(Nat) /\ (NoUpdate(x) <=> NoUpdate(w) /\ NoUpdate(h))
      /\ \A v : EndsIn(x, v) <=> EndsIn(h, v) /\ (NoUpdate(h) => EndsIn(w, v))
  BY OfBoth
<1> HIDE DEF x
<1>2. /\ y \in Seq(Nat) /\ (NoUpdate(y) <=> NoUpdate(x) /\ NoUpdate(a))
      /\ \A v : EndsIn(y, v) <=> EndsIn(a, v) /\ (NoUpdate(a) => EndsIn(x, v))
  BY <1>1, OfBoth
<1> HIDE DEF y
<1>3. /\ y \o b \in Seq(Nat) /\ (NoUpdate(y \o b) <=> NoUpdate(y) /\ NoUpdate(b))
      /\ \A v : EndsIn(y \o b, v) <=> EndsIn(b, v) /\ (NoUpdate(b) => EndsIn(y, v))
  BY <1>2, OfBoth
<1> QED
  BY <1>1, <1>2, <1>3 DEF x, y

LEMMA HeadFirst ==
  ASSUME NEW S, NEW s \in Seq(S), s # <<>>
  PROVE  s = <<Head(s)>> \o Tail(s) /\ Head(s) \in S /\ Tail(s) \in Seq(S)
OBVIOUS

LEMMA OfHead ==
  ASSUME NEW s \in Seq(Nat), s # <<>>
  PROVE  /\ Head(s) \in Nat /\ Tail(s) \in Seq(Nat)
         /\ NoUpdate(s) <=> Head(s) = Notice /\ NoUpdate(Tail(s))
         /\ \A v : EndsIn(s, v) <=> /\ EndsIn(Tail(s), v)
                                    /\ NoUpdate(Tail(s)) => Head(s) = Notice \/ Head(s) = v
<1> DEFINE f == Head(s)
           t == Tail(s)
           u == <<f>>
<1>1. s = u \o t /\ f \in Nat /\ t \in Seq(Nat) /\ u \in Seq(Nat)
  BY HeadFirst
<1>2. (NoUpdate(u) <=> f = Notice) /\ \A v : EndsIn(u, v) <=> (f = Notice \/ f = v)
  BY <1>1, OfOne
<1> HIDE DEF f, t, u
<1>3. /\ NoUpdate(u \o t) <=> NoUpdate(u) /\ NoUpdate(t)
      /\ \A v : EndsIn(u \o t, v) <=> EndsIn(t, v) /\ (NoUpdate(t) => EndsIn(u, v))
  BY <1>1, OfBoth
<1> QED
  BY <1>1, <1>2, <1>3 DEF f, t

-----------------------------------------------------------------------------
(* The invariant.                                                          *)

Record ==
  [sock : {"connecting", "open", "closed"}, retry : BOOLEAN, load : Loading,
   copy : Nat, shown : Nat, asked : Nat, answers : Seq(Nat \ {0}), down : Seq(Nat),
   seen : Nat, lost : Nat]

\* The value the page has, or has fetched, is the one of the device base.
Current(r, v) == (Has(r) => r.shown = v) /\ (r.load = "hold" => r.copy = v)

\* For a page of record r, the shared queues q and the value v of the device base.  A page
\* that connects has loaded nothing, and one whose WebSocket was closed stays closed.
Fits(r, q, v) ==
  /\ v <= r.lost \/ EndsIn(q, v)
  /\ r.sock = "connecting" => r.load = "none" /\ r.down = <<>>
  /\ r.sock = "closed" => r.retry
  /\ r.load # "ready" => r.shown = Blank
  /\ r.copy <= v /\ r.answers \in Seq(1 .. v)

\* For a page the server has a WebSocket of.
Fed(r, q, v) ==
  /\ r.sock = "open"
  /\ v <= r.lost \/ EndsIn(r.down \o q, v)
  /\ NoUpdate(r.down \o q) => v <= r.lost \/ Current(r, v)

PageRight(p) ==
  /\ Fits(page[p], OnTheWay, stored)
  /\ p \in clients => Fed(page[p], OnTheWay, stored)

\* A value stored and not yet queued is the last; without a server there are neither pages nor
\* frames for them.
FeedInv ==
  /\ post # <<>> => post[1] = stored
  /\ server # "up" => clients = {} /\ work = <<>>
  /\ starts <= events + 1

IInv == TypeOK /\ FeedInv /\ \A p \in Page : PageRight(p)

-----------------------------------------------------------------------------
(* What changes of the queues mean to a page.                              *)

LEMMA SeqWithin ==
  ASSUME NEW S, NEW T, S \subseteq T
  PROVE  Seq(S) \subseteq Seq(T)
<1> SUFFICES ASSUME NEW s \in Seq(S) PROVE s \in Seq(T)
  OBVIOUS
<1>1. Len(s) \in Nat /\ s = [i \in 1 .. Len(s) |-> s[i]] /\ \A i \in 1 .. Len(s) : s[i] \in S
  OBVIOUS
<1> QED
  BY <1>1

LEMMA WithDown ==
  ASSUME NEW r \in Record, NEW d \in Seq(Nat)
  PROVE  LET x == [r EXCEPT !.down = d]
         IN  /\ x \in Record /\ x.down = d /\ x.sock = r.sock /\ x.load = r.load /\ x.lost = r.lost
             /\ x.shown = r.shown /\ x.copy = r.copy /\ x.answers = r.answers /\ x.retry = r.retry
BY DEF Record

LEMMA WithLost ==
  ASSUME NEW r \in Record, NEW l \in Nat
  PROVE  LET x == [r EXCEPT !.lost = l]
         IN  /\ x \in Record /\ x.down = r.down /\ x.sock = r.sock /\ x.load = r.load /\ x.lost = l
             /\ x.shown = r.shown /\ x.copy = r.copy /\ x.answers = r.answers /\ x.retry = r.retry
BY DEF Record

LEMMA FitsAfter ==
  ASSUME NEW r, NEW q, NEW w, NEW v, Fits(r, q, v), EndsIn(q, v) => EndsIn(w, v)
  PROVE  Fits(r, w, v)
BY DEF Fits

\* The queues hold the same updates, or fewer old ones.
LEMMA QueueMoved ==
  ASSUME NEW r \in Record, NEW q \in Seq(Nat), NEW w \in Seq(Nat), NEW v, Fed(r, q, v),
         EndsIn(q, v) => EndsIn(w, v), NoUpdate(w) <=> NoUpdate(q)
  PROVE  Fed(r, w, v)
<1> DEFINE d == r.down
<1>0. d \in Seq(Nat)
  BY DEF Record
<1>1. /\ NoUpdate(d \o q) <=> NoUpdate(d) /\ NoUpdate(q)
      /\ EndsIn(d \o q, v) <=> EndsIn(q, v) /\ (NoUpdate(q) => EndsIn(d, v))
  BY <1>0, OfBoth
<1>2. /\ NoUpdate(d \o w) <=> NoUpdate(d) /\ NoUpdate(w)
      /\ EndsIn(d \o w, v) <=> EndsIn(w, v) /\ (NoUpdate(w) => EndsIn(d, v))
  BY <1>0, OfBoth
<1> QED
  BY <1>1, <1>2 DEF Fed

\* A frame f is dropped.
LEMMA Dropped ==
  ASSUME NEW r \in Record, NEW q \in Seq(Nat), NEW w \in Seq(Nat), NEW v \in Nat \ {0}, NEW f \in Nat,
         Fits(r, q, v),
         EndsIn(q, v) /\ f # v => EndsIn(w, v) /\ (NoUpdate(w) => NoUpdate(q))
  PROVE  /\ Losing(r, f) \in Record /\ Fits(Losing(r, f), w, v)
         /\ Fed(r, q, v) => Fed(Losing(r, f), w, v)
<1> DEFINE d == r.down
           x == Losing(r, f)
<1>0. d \in Seq(Nat) /\ r.lost \in Nat
  BY DEF Record
<1>1. /\ x \in Record /\ x.down = d /\ x.sock = r.sock /\ x.load = r.load /\ x.shown = r.shown
      /\ x.copy = r.copy /\ x.answers = r.answers /\ x.retry = r.retry
      /\ x.lost \in Nat /\ r.lost <= x.lost /\ f <= x.lost
  <2>1. CASE f > r.lost
    <3>1. x = [r EXCEPT !.lost = f]
      BY <2>1 DEF Losing
    <3> QED
      BY <1>0, <2>1, <3>1, WithLost
  <2>2. CASE ~(f > r.lost)
    <3>1. x = r
      BY <2>2 DEF Losing
    <3> QED
      BY <1>0, <2>2, <3>1
  <2> QED
    BY <2>1, <2>2
<1> HIDE DEF x
<1>2. /\ NoUpdate(d \o q) <=> NoUpdate(d) /\ NoUpdate(q)
      /\ EndsIn(d \o q, v) <=> EndsIn(q, v) /\ (NoUpdate(q) => EndsIn(d, v))
  BY <1>0, OfBoth
<1>3. /\ NoUpdate(d \o w) <=> NoUpdate(d) /\ NoUpdate(w)
      /\ EndsIn(d \o w, v) <=> EndsIn(w, v) /\ (NoUpdate(w) => EndsIn(d, v))
  BY <1>0, OfBoth
<1>4. v <= r.lost \/ f = v => v <= x.lost
  BY <1>0, <1>1
<1>5. Fits(x, w, v)
  BY <1>1, <1>4 DEF Fits
<1>6. ASSUME Fed(r, q, v) PROVE Fed(x, w, v)
  <2>1. Has(x) <=> Has(r)
    BY <1>1 DEF Has
  <2>2. v <= r.lost \/ Current(r, v) => v <= x.lost \/ Current(x, v)
    BY <1>1, <1>4, <2>1 DEF Current
  <2>3. v <= x.lost \/ EndsIn(d \o q, v)
    BY <1>4, <1>6 DEF Fed
  <2>4. v <= x.lost \/ f # v
    BY <1>4
  <2> QED
    BY <1>1, <1>2, <1>3, <1>6, <2>2, <2>3, <2>4 DEF Fed
<1> QED
  BY <1>1, <1>5, <1>6 DEF x

\* A new value is put last.
LEMMA NewValue ==
  ASSUME NEW r \in Record, NEW q \in Seq(Nat), NEW v \in Nat \ {0}, Fits(r, q, v)
  PROVE  /\ Fits(r, q \o <<v + 1>>, v + 1)
         /\ Fed(r, q, v) => Fed(r, q \o <<v + 1>>, v + 1)
<1> DEFINE d == r.down
           n == v + 1
           w == q \o <<n>>
<1>1. d \in Seq(Nat) /\ n \in Nat /\ n # Notice
  BY DEF Record, Notice
<1> HIDE DEF n
<1>2. w \in Seq(Nat) /\ ~NoUpdate(w) /\ EndsIn(w, n)
  BY <1>1, OfAppended
<1> HIDE DEF w
<1>3. ~NoUpdate(d \o w) /\ EndsIn(d \o w, n)
  BY <1>1, <1>2, OfBoth
<1>4. r.copy <= v => r.copy <= n
  BY DEF Record, n
<1>5. r.answers \in Seq(1 .. v) => r.answers \in Seq(1 .. n)
  <2>1. 1 .. v \subseteq 1 .. n
    BY DEF n
  <2> DEFINE S == 1 .. v
             T == 1 .. n
  <2> HIDE DEF S, T
  <2>2. S \subseteq T => (r.answers \in Seq(S) => r.answers \in Seq(T))
    BY SeqWithin
  <2> QED
    BY <2>1, <2>2 DEF S, T
<1> QED
  BY <1>2, <1>3, <1>4, <1>5 DEF Fits, Fed, w, n

\* The first frame is sent to the page.
LEMMA SentDown ==
  ASSUME NEW r \in Record, NEW q \in Seq(Nat), NEW w \in Seq(Nat), NEW v, NEW f \in Nat,
         Fits(r, q, v), Fed(r, q, v),
         NoUpdate(q) <=> f = Notice /\ NoUpdate(w),
         EndsIn(q, v) <=> EndsIn(w, v) /\ (NoUpdate(w) => f = Notice \/ f = v)
  PROVE  LET x == [r EXCEPT !.down = Append(@, f)]
         IN  x \in Record /\ Fits(x, w, v) /\ Fed(x, w, v)
<1> DEFINE d == r.down
           e == Append(d, f)
           x == [r EXCEPT !.down = Append(@, f)]
<1>0. d \in Seq(Nat) /\ e = d \o <<f>> /\ e \in Seq(Nat)
  <2>1. d \in Seq(Nat)
    BY DEF Record
  <2> HIDE DEF d
  <2> QED
    BY <2>1, AppendIsConcat, AppendProperties
<1>1. /\ x \in Record /\ x.down = e /\ x.sock = r.sock /\ x.load = r.load /\ x.shown = r.shown
      /\ x.copy = r.copy /\ x.answers = r.answers /\ x.retry = r.retry /\ x.lost = r.lost
  <2>1. x = [r EXCEPT !.down = e] /\ e \in Seq(Nat)
    BY <1>0
  <2> HIDE DEF x, e
  <2> QED
    BY <2>1, WithDown
<1> HIDE DEF x, e
<1>2. /\ e \in Seq(Nat) /\ (NoUpdate(e) <=> NoUpdate(d) /\ f = Notice)
      /\ EndsIn(e, v) <=> (IF f = Notice THEN EndsIn(d, v) ELSE f = v)
  BY <1>0, OfAppended
<1>3. /\ NoUpdate(d \o q) <=> NoUpdate(d) /\ NoUpdate(q)
      /\ EndsIn(d \o q, v) <=> EndsIn(q, v) /\ (NoUpdate(q) => EndsIn(d, v))
  BY <1>0, OfBoth
<1>4. /\ NoUpdate(e \o w) <=> NoUpdate(e) /\ NoUpdate(w)
      /\ EndsIn(e \o w, v) <=> EndsIn(w, v) /\ (NoUpdate(w) => EndsIn(e, v))
  BY <1>2, OfBoth
<1>5. EndsIn(d \o q, v) => EndsIn(e \o w, v)
  BY <1>2, <1>3, <1>4
<1>6. NoUpdate(e \o w) => NoUpdate(d \o q)
  BY <1>2, <1>3, <1>4
<1>7. Fits(x, w, v)
  <2>1. x.sock = "open"
    BY <1>1 DEF Fed
  <2> QED
    BY <1>1, <2>1 DEF Fits
<1>8. Has(x) <=> Has(r)
  BY <1>1 DEF Has
<1>9. Fed(x, w, v)
  BY <1>1, <1>5, <1>6, <1>8 DEF Fed, Current
<1> QED
  BY <1>1, <1>7, <1>9 DEF x

-----------------------------------------------------------------------------
(* Steps of a page.                                                        *)

\* A step that leaves the connection and the frames received alone.
LEMMA LocalRight ==
  ASSUME NEW r \in Record, NEW x \in Record, NEW q \in Seq(Nat), NEW v \in Nat \ {0},
         Fits(r, q, v),
         x.sock = r.sock, x.retry = r.retry, x.down = r.down,
         r.load = "none" => x.load = "none",
         x.load # "ready" => x.shown = Blank, x.copy <= v, x.answers \in Seq(1 .. v),
         v <= r.lost => v <= x.lost \/ NoUpdate(r.down \o q),
         v <= r.lost \/ Current(r, v) => v <= x.lost \/ Current(x, v)
  PROVE  Fits(x, q, v) /\ (Fed(r, q, v) => Fed(x, q, v))
<1> DEFINE d == r.down
<1>1. d \in Seq(Nat)
  BY DEF Record
<1>2. NoUpdate(d \o q) => EndsIn(d \o q, v) /\ EndsIn(q, v)
  BY <1>1, OfBoth, NoUpdateEnds
<1>3. Fits(x, q, v)
  BY <1>2 DEF Fits
<1>4. Fed(r, q, v) => Fed(x, q, v)
  BY <1>2 DEF Fed
<1> QED
  BY <1>3, <1>4

\* What a step does to the record of page p: a record that is right again.
Stays(p, in) ==
  \E x \in Record : /\ page' = [page EXCEPT ![p] = x]
                    /\ Fits(x, OnTheWay, stored) /\ (in => Fed(x, OnTheWay, stored))

LEMMA Shapes ==
  ASSUME TypeOK
  PROVE  /\ page \in [Page -> Record] /\ stored \in Nat \ {0}
         /\ work \in Seq(Nat) /\ held \in Seq(Nat) /\ attrQ \in Seq(Nat) /\ post \in Seq(Nat)
         /\ OnTheWay \in Seq(Nat) /\ starts \in Nat \ {0}
<1>1. /\ page \in [Page -> Record] /\ stored \in Nat \ {0} /\ starts \in Nat \ {0}
      /\ work \in Seq(Nat) /\ held \in Seq(Nat)
  BY Sizes DEF TypeOK, Record
<1>2. attrQ \in Seq(Nat) /\ post \in Seq(Nat)
  <2>1. attrQ \in Seq(Nat \ {0}) /\ post \in Seq(Nat \ {0})
    BY DEF TypeOK
  <2>2. Seq(Nat \ {0}) \subseteq Seq(Nat)
    BY SeqWithin
  <2> QED
    BY <2>1, <2>2
<1>3. OnTheWay \in Seq(Nat)
  BY <1>1, <1>2, OfAll DEF OnTheWay
<1> QED
  BY <1>1, <1>2, <1>3

LEMMA ListsRight ==
  ASSUME TypeOK, NEW p \in Page, PageRight(p), Lists(p)
  PROVE  Stays(p, p \in clients)
<1> DEFINE r == page[p]
           x == [r EXCEPT !.load = "fetch"]
<1>1. r \in Record /\ r.load = "list" /\ page' = [page EXCEPT ![p] = x]
  BY Shapes DEF Lists
<1>2. /\ x \in Record /\ x.sock = r.sock /\ x.retry = r.retry /\ x.down = r.down /\ x.load = "fetch"
      /\ x.shown = r.shown /\ x.copy = r.copy /\ x.answers = r.answers /\ x.lost = r.lost
  BY <1>1 DEF Record, Loading
<1> HIDE DEF x
<1>3. Fits(r, OnTheWay, stored)
  BY DEF PageRight
<1>4. Current(x, stored) /\ x.copy <= stored /\ x.answers \in Seq(1 .. stored) /\ x.shown = Blank
  BY <1>1, <1>2, <1>3 DEF Current, Has, Fits
<1>5. Fits(x, OnTheWay, stored) /\ (Fed(r, OnTheWay, stored) => Fed(x, OnTheWay, stored))
  <2> HIDE DEF r
  <2> QED
    BY <1>1, <1>2, <1>3, <1>4, Shapes, LocalRight
<1> QED
  BY <1>1, <1>2, <1>5 DEF Stays, PageRight, x

LEMMA FetchesRight ==
  ASSUME TypeOK, NEW p \in Page, PageRight(p), Fetches(p)
  PROVE  Stays(p, p \in clients)
<1> DEFINE r == page[p]
           l == IF NoUpdate(Coming(p)) THEN 0 ELSE r.lost
           x == [r EXCEPT !.load = "hold", !.copy = stored, !.lost = l]
<1>1. r \in Record /\ r.load = "fetch" /\ l \in Nat /\ stored \in Nat \ {0}
  BY Shapes DEF Fetches, Record
<1>0. page' = [page EXCEPT ![p] = x]
  <2>1. page' = [page EXCEPT ![p].load = "hold", ![p].copy = stored, ![p].lost = l]
    BY Shapes DEF Fetches
  <2> HIDE DEF l
  <2> QED
    BY <1>1, <2>1, Shapes
<1>6. r.lost <= l \/ NoUpdate(r.down \o OnTheWay)
  BY <1>1 DEF Coming, Record
<1> HIDE DEF l
<1>2. /\ x \in Record /\ x.sock = r.sock /\ x.retry = r.retry /\ x.down = r.down /\ x.load = "hold"
      /\ x.shown = r.shown /\ x.copy = stored /\ x.answers = r.answers /\ x.lost = l
  BY <1>1 DEF Record, Loading
<1> HIDE DEF x
<1>3. Fits(r, OnTheWay, stored)
  BY DEF PageRight
<1>4. Current(x, stored) /\ x.copy <= stored /\ x.answers \in Seq(1 .. stored) /\ x.shown = Blank
  BY <1>1, <1>2, <1>3 DEF Current, Has, Fits
<1>7. stored <= r.lost => stored <= x.lost \/ NoUpdate(r.down \o OnTheWay)
  <2>1. r.lost \in Nat
    BY <1>1 DEF Record
  <2> QED
    BY <1>1, <1>2, <1>6, <2>1
<1>5. Fits(x, OnTheWay, stored) /\ (Fed(r, OnTheWay, stored) => Fed(x, OnTheWay, stored))
  <2> HIDE DEF r
  <2> QED
    BY <1>1, <1>2, <1>3, <1>4, <1>7, Shapes, LocalRight
<1> QED
  BY <1>0, <1>2, <1>5 DEF Stays, PageRight

LEMMA LoadFailsRight ==
  ASSUME TypeOK, NEW p \in Page, PageRight(p), LoadFails(p)
  PROVE  Stays(p, p \in clients)
<1> DEFINE r == page[p]
           l == IF r.load = "list" THEN "failed" ELSE "ready"
           x == [r EXCEPT !.load = l]
<1>1. r \in Record /\ r.load \in {"list", "fetch"} /\ page' = [page EXCEPT ![p] = x]
  BY Shapes DEF LoadFails
<1>a. l \in {"failed", "ready"}
  OBVIOUS
<1> HIDE DEF l
<1>2. /\ x \in Record /\ x.sock = r.sock /\ x.retry = r.retry /\ x.down = r.down /\ x.load = l
      /\ x.shown = r.shown /\ x.copy = r.copy /\ x.answers = r.answers /\ x.lost = r.lost
  BY <1>1, <1>a DEF Record, Loading
<1> HIDE DEF x
<1>3. Fits(r, OnTheWay, stored)
  BY DEF PageRight
<1>4. Current(x, stored) /\ x.copy <= stored /\ x.answers \in Seq(1 .. stored) /\ x.shown = Blank
  BY <1>1, <1>2, <1>3, <1>a DEF Current, Has, Fits
<1>5. Fits(x, OnTheWay, stored) /\ (Fed(r, OnTheWay, stored) => Fed(x, OnTheWay, stored))
  <2> HIDE DEF r
  <2> QED
    BY <1>1, <1>2, <1>3, <1>4, Shapes, LocalRight
<1> QED
  BY <1>1, <1>2, <1>5 DEF Stays, PageRight, x

LEMMA StoresRight ==
  ASSUME TypeOK, NEW p \in Page, PageRight(p), Stores(p)
  PROVE  Stays(p, p \in clients)
<1> DEFINE r == page[p]
           x == [r EXCEPT !.load = "ready", !.shown = r.copy, !.copy = Blank]
<1>1. r \in Record /\ r.load = "hold" /\ stored \in Nat
  BY Shapes DEF Stores
<1>0. page' = [page EXCEPT ![p] = x]
  BY Shapes DEF Stores
<1>2. /\ x \in Record /\ x.sock = r.sock /\ x.retry = r.retry /\ x.down = r.down /\ x.load = "ready"
      /\ x.shown = r.copy /\ x.copy = 0 /\ x.answers = r.answers /\ x.lost = r.lost
  BY <1>1 DEF Record, Loading, Blank
<1> HIDE DEF x
<1>3. Fits(r, OnTheWay, stored)
  BY DEF PageRight
<1>4. x.copy <= stored /\ x.answers \in Seq(1 .. stored)
  BY <1>1, <1>2, <1>3 DEF Fits
<1>6. Current(r, stored) => Current(x, stored)
  BY <1>1, <1>2 DEF Current
<1>5. Fits(x, OnTheWay, stored) /\ (Fed(r, OnTheWay, stored) => Fed(x, OnTheWay, stored))
  <2> HIDE DEF r
  <2> QED
    BY <1>1, <1>2, <1>3, <1>4, <1>6, Shapes, LocalRight
<1> QED
  BY <1>0, <1>2, <1>5 DEF Stays, PageRight

LEMMA RefreshesRight ==
  ASSUME TypeOK, NEW p \in Page, PageRight(p), Refreshes(p) \/ RefreshFails(p)
  PROVE  Stays(p, p \in clients)
<1> DEFINE r == page[p]
           g == IF Refreshes(p) THEN Append(r.answers, stored) ELSE r.answers
           a == r.asked - 1
           x == [r EXCEPT !.asked = a, !.answers = g]
<1>1. r \in Record /\ r.asked \in Nat /\ r.asked > 0 /\ stored \in Nat \ {0} /\ a \in Nat
  <2>1. r \in Record /\ stored \in Nat \ {0}
    BY Shapes
  <2>2. r.asked \in Nat
    BY <2>1 DEF Record
  <2>3. r.asked > 0
    BY DEF Refreshes, RefreshFails
  <2> HIDE DEF r
  <2> QED
    BY <2>1, <2>2, <2>3
<1>3. Fits(r, OnTheWay, stored)
  BY DEF PageRight
<1>a. g \in Seq(1 .. stored) /\ g \in Seq(Nat \ {0})
  <2>1. r.answers \in Seq(1 .. stored) /\ r.answers \in Seq(Nat \ {0}) /\ stored \in 1 .. stored
    BY <1>1, <1>3 DEF Fits, Record
  <2>2. Append(r.answers, stored) \in Seq(1 .. stored)
    BY <2>1, AppendProperties
  <2>3. Append(r.answers, stored) \in Seq(Nat \ {0})
    BY <1>1, <2>1, AppendProperties
  <2> QED
    BY <2>1, <2>2, <2>3
<1>0. page' = [page EXCEPT ![p] = x]
  <2>1. CASE Refreshes(p)
    <3>1. page' = [page EXCEPT ![p].asked = a, ![p].answers = g]
      BY <2>1, Shapes DEF Refreshes
    <3> HIDE DEF a, g
    <3> QED
      BY <3>1, Shapes
  <2>2. CASE ~Refreshes(p)
    <3>1. page' = [page EXCEPT ![p].asked = a] /\ g = r.answers
      BY <2>2, Shapes DEF RefreshFails
    <3> HIDE DEF a, g
    <3>2. [r EXCEPT !.asked = a] = x
      BY <1>1, <3>1 DEF Record
    <3> QED
      BY <3>1, <3>2, Shapes
  <2> QED
    BY <2>1, <2>2
<1> HIDE DEF g, a
<1>2. /\ x \in Record /\ x.sock = r.sock /\ x.retry = r.retry /\ x.down = r.down /\ x.load = r.load
      /\ x.shown = r.shown /\ x.copy = r.copy /\ x.answers = g /\ x.lost = r.lost
  BY <1>1, <1>a DEF Record
<1> HIDE DEF x
<1>4. x.copy <= stored /\ x.answers \in Seq(1 .. stored) /\ (x.load # "ready" => x.shown = Blank)
  BY <1>1, <1>2, <1>3, <1>a DEF Fits
<1>6. Current(r, stored) => Current(x, stored)
  BY <1>1, <1>2 DEF Current, Has
<1>5. Fits(x, OnTheWay, stored) /\ (Fed(r, OnTheWay, stored) => Fed(x, OnTheWay, stored))
  <2> HIDE DEF r
  <2> QED
    BY <1>1, <1>2, <1>3, <1>4, <1>6, Shapes, LocalRight
<1> QED
  BY <1>0, <1>2, <1>5 DEF Stays, PageRight

\* The answer replaces the device; a newer value it replaces is lost.
LEMMA ReplacedRight ==
  ASSUME NEW r \in Record, NEW q \in Seq(Nat), NEW v \in Nat \ {0}, NEW n \in 1 .. v, Fits(r, q, v)
  PROVE  LET x == Replaced(r, n)
         IN  x \in Record /\ Fits(x, q, v) /\ (Fed(r, q, v) => Fed(x, q, v))
<1> DEFINE x == Replaced(r, n)
           o == IF n < r.shown /\ r.shown > r.lost THEN r.shown ELSE r.lost
           y == [r EXCEPT !.lost = o, !.shown = n]
<1>1. CASE ~Has(r)
  BY <1>1 DEF Replaced
<1>2. CASE Has(r)
  <2>a. n \in Nat
    OBVIOUS
  <2>0. r.shown \in Nat /\ r.lost \in Nat /\ o \in Nat /\ r.lost <= o /\ (n < r.shown => r.shown <= o)
    BY DEF Record
  <2>1. x = y
    <3>1. CASE n < r.shown
      <4>1. x = [Losing(r, r.shown) EXCEPT !.shown = n]
        BY <1>2, <3>1 DEF Replaced
      <4>2. CASE r.shown > r.lost
        <5>1. Losing(r, r.shown) = [r EXCEPT !.lost = r.shown] /\ o = r.shown
          BY <3>1, <4>2 DEF Losing
        <5> QED
          BY <4>1, <5>1 DEF Record
      <4>3. CASE ~(r.shown > r.lost)
        <5>1. Losing(r, r.shown) = r /\ o = r.lost
          BY <4>3 DEF Losing
        <5> QED
          BY <4>1, <5>1 DEF Record
      <4> QED
        BY <4>2, <4>3
    <3>2. CASE ~(n < r.shown)
      <4>1. x = [r EXCEPT !.shown = n] /\ o = r.lost
        BY <1>2, <3>2 DEF Replaced
      <4> QED
        BY <4>1 DEF Record
    <3> QED
      BY <3>1, <3>2
  <2> HIDE DEF x, o
  <2>2. /\ y \in Record /\ y.sock = r.sock /\ y.retry = r.retry /\ y.down = r.down /\ y.load = r.load
        /\ y.shown = n /\ y.copy = r.copy /\ y.answers = r.answers /\ y.lost = o
    BY <2>0, <2>a DEF Record
  <2> HIDE DEF y
  <2>3. y.load = "ready" /\ y.copy <= v /\ y.answers \in Seq(1 .. v)
    BY <1>2, <2>2 DEF Has, Fits
  <2>4. v <= r.lost \/ Current(r, v) => v <= y.lost \/ Current(y, v)
    <3>1. v <= r.lost => v <= y.lost
      BY <2>0, <2>2
    <3>2. ASSUME Current(r, v), ~(v <= y.lost) PROVE Current(y, v)
      <4>1. r.shown = v
        BY <1>2, <3>2 DEF Current
      <4>2. n = v
        BY <2>0, <2>2, <3>2, <4>1
      <4> QED
        BY <2>2, <2>3, <4>2 DEF Current
    <3> QED
      BY <3>1, <3>2
  <2>5. v <= r.lost => v <= y.lost
    BY <2>0, <2>2
  <2>6. Fits(y, q, v) /\ (Fed(r, q, v) => Fed(y, q, v))
    <3>1. r.load = "ready"
      BY <1>2 DEF Has
    <3> QED
      BY <2>2, <2>3, <2>4, <2>5, <3>1, LocalRight
  <2> QED
    BY <2>1, <2>2, <2>6 DEF x
<1> QED
  BY <1>1, <1>2

LEMMA WithAnswers ==
  ASSUME NEW r \in Record, NEW q, NEW v, NEW g \in Seq(Nat \ {0}), g \in Seq(1 .. v), Fits(r, q, v)
  PROVE  LET x == [r EXCEPT !.answers = g]
         IN  x \in Record /\ Fits(x, q, v) /\ (Fed(r, q, v) => Fed(x, q, v))
<1> DEFINE x == [r EXCEPT !.answers = g]
<1>1. /\ x \in Record /\ x.sock = r.sock /\ x.retry = r.retry /\ x.down = r.down /\ x.load = r.load
      /\ x.shown = r.shown /\ x.copy = r.copy /\ x.answers = g /\ x.lost = r.lost
  BY DEF Record
<1> HIDE DEF x
<1>2. Fits(x, q, v)
  BY <1>1 DEF Fits
<1>3. Fed(r, q, v) => Fed(x, q, v)
  BY <1>1 DEF Fed, Current, Has
<1> QED
  BY <1>1, <1>2, <1>3 DEF x

LEMMA Removed ==
  ASSUME NEW S, NEW s \in Seq(S), NEW i \in DOMAIN s
  PROVE  RemoveAt(s, i) \in Seq(S) /\ s[i] \in S
<1>1. SubSeq(s, 1, i - 1) \in Seq(S) /\ SubSeq(s, i + 1, Len(s)) \in Seq(S)
  OBVIOUS
<1> QED
  BY <1>1, ConcatProperties DEF RemoveAt

LEMMA ReplacesRight ==
  ASSUME TypeOK, NEW p \in Page, PageRight(p), Replaces(p)
  PROVE  Stays(p, p \in clients)
<1> DEFINE r == page[p]
           s == r.answers
<1>1. PICK i \in DOMAIN s : page' = [page EXCEPT ![p] = Replaced([r EXCEPT !.answers = RemoveAt(s, i)], s[i])]
  BY Shapes DEF Replaces
<1> DEFINE g == RemoveAt(s, i)
           n == s[i]
           z == [r EXCEPT !.answers = g]
           x == Replaced(z, n)
<1>2. r \in Record /\ Fits(r, OnTheWay, stored)
  BY Shapes DEF PageRight
<1>3. s \in Seq(1 .. stored) /\ s \in Seq(Nat \ {0})
  BY <1>2 DEF Fits, Record
<1>4. g \in Seq(1 .. stored) /\ g \in Seq(Nat \ {0}) /\ n \in 1 .. stored
  <2> HIDE DEF s
  <2> QED
    BY <1>3, Removed
<1>5. page' = [page EXCEPT ![p] = x]
  BY <1>1
<1> HIDE DEF g, n
<1>6. z \in Record /\ Fits(z, OnTheWay, stored) /\ (Fed(r, OnTheWay, stored) => Fed(z, OnTheWay, stored))
  <2> HIDE DEF r
  <2> QED
    BY <1>2, <1>4, WithAnswers
<1> HIDE DEF z
<1>7. x \in Record /\ Fits(x, OnTheWay, stored) /\ (Fed(z, OnTheWay, stored) => Fed(x, OnTheWay, stored))
  BY <1>4, <1>6, Shapes, ReplacedRight
<1> HIDE DEF x
<1> QED
  BY <1>5, <1>6, <1>7 DEF Stays, PageRight

\* The first frame received is looked at.
LEMMA DeliveredRight ==
  ASSUME NEW r \in Record, NEW x \in Record, NEW q \in Seq(Nat), NEW v \in Nat \ {0},
         Fits(r, q, v), r.sock = "open", r.down # <<>>,
         x.sock = r.sock, x.down = Tail(r.down), x.load = r.load, x.copy = r.copy,
         x.answers = r.answers, x.load # "ready" => x.shown = Blank,
         v <= r.lost => v <= x.lost,
         Head(r.down) = Notice \/ Head(r.down) = v => (Current(r, v) => Current(x, v)),
         Head(r.down) = v => v = Notice \/ v <= x.lost \/ Current(x, v)
  PROVE  Fits(x, q, v) /\ (Fed(r, q, v) => Fed(x, q, v))
<1> DEFINE d == r.down
           f == Head(d)
           e == Tail(d)
<1>0. d \in Seq(Nat) /\ d # <<>> /\ v # Notice
  BY DEF Record, Notice
<1>1. /\ f \in Nat /\ e \in Seq(Nat)
      /\ NoUpdate(d) <=> f = Notice /\ NoUpdate(e)
      /\ EndsIn(d, v) <=> EndsIn(e, v) /\ (NoUpdate(e) => f = Notice \/ f = v)
  <2> HIDE DEF d
  <2> QED
    BY <1>0, OfHead
<1>2. /\ NoUpdate(d \o q) <=> NoUpdate(d) /\ NoUpdate(q)
      /\ EndsIn(d \o q, v) <=> EndsIn(q, v) /\ (NoUpdate(q) => EndsIn(d, v))
  <2> HIDE DEF d
  <2> QED
    BY <1>0, OfBoth
<1>3. /\ NoUpdate(e \o q) <=> NoUpdate(e) /\ NoUpdate(q)
      /\ EndsIn(e \o q, v) <=> EndsIn(q, v) /\ (NoUpdate(q) => EndsIn(e, v))
  <2> HIDE DEF e
  <2> QED
    BY <1>1, OfBoth
<1>4. x.down = e
  OBVIOUS
<1> HIDE DEF e, f, d
<1>5. Fits(x, q, v)
  BY DEF Fits
<1>6. ASSUME Fed(r, q, v) PROVE Fed(x, q, v)
  <2>1. v <= r.lost \/ EndsIn(d \o q, v)
    BY <1>6 DEF Fed, d
  <2>2. NoUpdate(d \o q) => v <= r.lost \/ Current(r, v)
    BY <1>6 DEF Fed, d
  <2>3. v <= x.lost \/ EndsIn(e \o q, v)
    BY <1>1, <1>2, <1>3, <2>1
  <2>4. ASSUME NoUpdate(e \o q) PROVE v <= x.lost \/ Current(x, v)
    <3>1. CASE v <= r.lost
      BY <3>1
    <3>2. CASE EndsIn(d \o q, v)
      <4>1. f = Notice \/ f = v
        BY <1>1, <1>2, <1>3, <2>4, <3>2
      <4>2. CASE f = Notice
        <5>1. v <= r.lost \/ Current(r, v)
          BY <1>1, <1>2, <1>3, <2>2, <2>4, <4>2
        <5> QED
          BY <4>2, <5>1 DEF f, d
      <4>3. CASE f = v
        BY <1>0, <4>3 DEF f, d
      <4> QED
        BY <4>1, <4>2, <4>3
    <3> QED
      BY <2>1, <3>1, <3>2
  <2> QED
    BY <1>4, <2>3, <2>4 DEF Fed
<1> QED
  BY <1>5, <1>6

LEMMA DeliversRight ==
  ASSUME TypeOK, NEW p \in Page, PageRight(p), Delivers(p)
  PROVE  Stays(p, p \in clients)
<1> DEFINE r == page[p]
           f == Head(r.down)
           e == Tail(r.down)
           z == [r EXCEPT !.down = e]
           x == IF f = Notice THEN [z EXCEPT !.asked = @ + 1] ELSE Updated(z, f)
           v == stored
<1>1. r \in Record /\ r.sock = "open" /\ r.down # <<>> /\ v \in Nat \ {0} /\ Fits(r, OnTheWay, v)
  BY Shapes DEF Delivers, PageRight
<1>2. page' = [page EXCEPT ![p] = x]
  BY Shapes DEF Delivers
<1>3. f \in Nat /\ e \in Seq(Nat)
  <2>1. r.down \in Seq(Nat)
    BY <1>1 DEF Record
  <2> QED
    BY <1>1, <2>1
<1>4. r.copy <= v /\ r.copy \in Nat /\ r.lost \in Nat /\ (r.load # "ready" => r.shown = Blank)
  BY <1>1 DEF Fits, Record
<1> HIDE DEF f, e
<1>5. /\ z \in Record /\ z.sock = r.sock /\ z.retry = r.retry /\ z.down = e /\ z.load = r.load
      /\ z.shown = r.shown /\ z.copy = r.copy /\ z.answers = r.answers /\ z.lost = r.lost
      /\ z.asked \in Nat
  BY <1>1, <1>3 DEF Record
<1> HIDE DEF z
<1>6. /\ x \in Record /\ x.sock = r.sock /\ x.down = e /\ x.load = r.load
      /\ x.copy = r.copy /\ x.answers = r.answers /\ (x.load # "ready" => x.shown = Blank)
      /\ v <= r.lost => v <= x.lost
      /\ f = Notice \/ f = v => (Current(r, v) => Current(x, v))
      /\ f = v => v = Notice \/ v <= x.lost \/ Current(x, v)
  <2>1. CASE f = Notice
    <3> DEFINE a == z.asked + 1
    <3>1. x = [z EXCEPT !.asked = a] /\ a \in Nat
      BY <1>5, <2>1
    <3> HIDE DEF a, x
    <3>2. /\ x \in Record /\ x.sock = z.sock /\ x.down = z.down /\ x.load = z.load /\ x.copy = z.copy
          /\ x.answers = z.answers /\ x.shown = z.shown /\ x.lost = z.lost
      BY <1>5, <3>1 DEF Record
    <3> QED
      BY <1>4, <1>5, <2>1, <3>2 DEF Current, Has
  <2>2. CASE f # Notice /\ Has(z)
    <3>1. x = [z EXCEPT !.shown = f]
      BY <2>2 DEF Updated
    <3>2. /\ x \in Record /\ x.sock = z.sock /\ x.down = z.down /\ x.load = z.load /\ x.copy = z.copy
          /\ x.answers = z.answers /\ x.shown = f /\ x.lost = z.lost
      BY <1>3, <1>5, <3>1 DEF Record
    <3> HIDE DEF x
    <3>3. x.load = "ready"
      BY <2>2, <3>2 DEF Has
    <3>4. f = v => Current(x, v)
      BY <3>2, <3>3 DEF Current
    <3> QED
      BY <1>4, <1>5, <2>2, <3>2, <3>3, <3>4
  <2>3. CASE f # Notice /\ ~Has(z) /\ z.load = "hold" /\ f > z.copy
    <3>1. x = Losing(z, f)
      BY <2>3 DEF Updated
    <3>2. /\ x \in Record /\ x.sock = z.sock /\ x.down = z.down /\ x.load = z.load /\ x.copy = z.copy
          /\ x.answers = z.answers /\ x.shown = z.shown /\ z.lost <= x.lost /\ f <= x.lost /\ x.lost \in Nat
      <4>1. CASE f > z.lost
        <5>1. x = [z EXCEPT !.lost = f]
          BY <3>1, <4>1 DEF Losing
        <5> HIDE DEF x
        <5> QED
          BY <1>3, <1>4, <1>5, <4>1, <5>1, WithLost
      <4>2. CASE ~(f > z.lost)
        <5>1. x = z
          BY <3>1, <4>2 DEF Losing
        <5> HIDE DEF x
        <5> QED
          BY <1>3, <1>4, <1>5, <4>2, <5>1
      <4> QED
        BY <4>1, <4>2
    <3> HIDE DEF x
    <3>3. Current(r, v) => Current(x, v)
      BY <1>5, <3>2 DEF Current, Has
    <3>4. (f = v => v <= x.lost) /\ (v <= r.lost => v <= x.lost)
      BY <1>1, <1>3, <1>4, <1>5, <3>2
    <3> QED
      BY <1>4, <1>5, <3>2, <3>3, <3>4
  <2>4. CASE f # Notice /\ ~Has(z) /\ ~(z.load = "hold" /\ f > z.copy)
    <3>1. x = z
      BY <2>4 DEF Updated
    <3> HIDE DEF x
    <3>2. Current(r, v) => Current(x, v)
      BY <1>5, <3>1 DEF Current, Has
    <3>3. f = v => Current(x, v)
      <4>1. ASSUME f = v, z.load = "hold" PROVE z.copy = v
        BY <1>1, <1>3, <1>4, <1>5, <2>4, <4>1
      <4> QED
        BY <2>4, <3>1, <4>1 DEF Current
    <3> QED
      BY <1>4, <1>5, <3>1, <3>2, <3>3
  <2> QED
    BY <2>1, <2>2, <2>3, <2>4
<1> HIDE DEF x
<1>7. Fits(x, OnTheWay, v) /\ (Fed(r, OnTheWay, v) => Fed(x, OnTheWay, v))
  <2>1. x.down = Tail(r.down) /\ f = Head(r.down)
    BY <1>6 DEF e, f
  <2> HIDE DEF r, v
  <2> QED
    BY <1>1, <1>6, <2>1, Shapes, DeliveredRight
<1> QED
  BY <1>2, <1>6, <1>7 DEF Stays, PageRight

LEMMA FreshIs ==
  /\ Fresh \in Record /\ Fresh.sock = "connecting" /\ Fresh.load = "none" /\ Fresh.down = <<>>
  /\ Fresh.shown = Blank /\ Fresh.copy = 0 /\ Fresh.answers = <<>> /\ Fresh.lost = 0
BY DEF Fresh, Record, Loading, Blank

\* A page connects, has loaded nothing and received nothing.
LEMMA OpensRight ==
  ASSUME TypeOK, NEW p \in Page, PageRight(p), Opens(p)
  PROVE  Stays(p, TRUE)
<1> DEFINE r == page[p]
           x == [r EXCEPT !.sock = "open", !.retry = FALSE, !.load = "list"]
<1>1. r \in Record /\ r.sock = "connecting" /\ Fits(r, OnTheWay, stored)
  BY Shapes DEF Opens, PageRight
<1>2. r.load = "none" /\ r.down = <<>>
  BY <1>1 DEF Fits
<1>3. page' = [page EXCEPT ![p] = x]
  <2>1. page' = [page EXCEPT ![p].sock = "open", ![p].retry = FALSE, ![p].load = "list"]
    BY <1>2, Shapes DEF Opens
  <2> QED
    BY <2>1, Shapes
<1>4. /\ x \in Record /\ x.sock = "open" /\ x.down = r.down /\ x.load = "list"
      /\ x.shown = r.shown /\ x.copy = r.copy /\ x.answers = r.answers /\ x.lost = r.lost
  BY <1>1 DEF Record, Loading
<1> HIDE DEF x
<1>5. Fits(x, OnTheWay, stored)
  BY <1>1, <1>2, <1>4 DEF Fits
<1>6. Fed(x, OnTheWay, stored)
  <2>1. x.down \o OnTheWay = OnTheWay
    BY <1>2, <1>4, Shapes, ConcatEmptySeq
  <2>2. Current(x, stored)
    BY <1>4 DEF Current, Has
  <2> QED
    BY <1>4, <1>5, <2>1, <2>2 DEF Fed, Fits
<1> QED
  BY <1>3, <1>4, <1>5, <1>6 DEF Stays

LEMMA ClosesRight ==
  ASSUME TypeOK, NEW p \in Page, PageRight(p), Closes(p)
  PROVE  Stays(p, FALSE) /\ p \notin clients
<1> DEFINE r == page[p]
           x == Closed(r)
<1>1. r \in Record /\ Fits(r, OnTheWay, stored) /\ page' = [page EXCEPT ![p] = x]
  BY Shapes DEF Closes, PageRight
<1>2. p \notin clients
  BY DEF Closes, PageRight, Fed
<1>3. /\ x \in Record /\ x.sock = "closed" /\ x.retry /\ x.load = r.load
      /\ x.shown = r.shown /\ x.copy = r.copy /\ x.answers = r.answers /\ x.lost = r.lost
  <2> DEFINE e == <<>>
  <2>1. e \in Seq(Nat) /\ x = [r EXCEPT !.sock = "closed", !.retry = TRUE, !.down = e]
    BY DEF Closed
  <2> HIDE DEF e, x
  <2> QED
    BY <1>1, <2>1 DEF Record
<1> HIDE DEF x
<1>4. Fits(x, OnTheWay, stored)
  BY <1>1, <1>3 DEF Fits
<1> QED
  BY <1>1, <1>2, <1>3, <1>4 DEF Stays

LEMMA SameRight ==
  ASSUME TypeOK, NEW p \in Page, PageRight(p), page' = page
  PROVE  Stays(p, p \in clients)
<1>1. page' = [page EXCEPT ![p] = page[p]] /\ page[p] \in Record
  BY Shapes
<1> QED
  BY <1>1 DEF Stays, PageRight

\* The timer does nothing: the page is to connect again already, it believes.
LEMMA TimerFiresRight ==
  ASSUME TypeOK, NEW p \in Page, PageRight(p), TimerFires(p)
  PROVE  Stays(p, p \in clients)
<1>1. page[p].retry
  BY DEF TimerFires, PageRight, Fits
<1>2. page' = page
  BY <1>1, Shapes DEF TimerFires, Record
<1> QED
  BY <1>2, SameRight

LEMMA ReloadsRight ==
  ASSUME TypeOK, NEW p \in Page, PageRight(p), page' = [page EXCEPT ![p] = Reloaded(@)]
  PROVE  Stays(p, FALSE)
<1> DEFINE r == page[p]
           l == r.lost
           x == [Fresh EXCEPT !.lost = l]
<1>1. r \in Record /\ Fits(r, OnTheWay, stored) /\ page' = [page EXCEPT ![p] = x]
  BY Shapes DEF PageRight, Reloaded
<1>2. l \in Nat /\ stored \in Nat
  BY <1>1, Shapes DEF Record
<1>3. stored <= l \/ EndsIn(OnTheWay, stored)
  BY <1>1 DEF Fits
<1> HIDE DEF l
<1>4. /\ x \in Record /\ x.sock = "connecting" /\ x.load = "none" /\ x.down = <<>>
      /\ x.shown = Blank /\ x.copy = 0 /\ x.answers = <<>> /\ x.lost = l
  BY <1>2, FreshIs, WithLost
<1> HIDE DEF x
<1>5. Fits(x, OnTheWay, stored)
  <2>1. <<>> \in Seq(1 .. stored) /\ 0 <= stored
    BY <1>2
  <2> QED
    BY <1>3, <1>4, <2>1 DEF Fits
<1> QED
  BY <1>1, <1>4, <1>5 DEF Stays

LEMMA SeesRight ==
  ASSUME TypeOK, NEW p \in Page, PageRight(p), page' = [page EXCEPT ![p].seen = Seen(p)]
  PROVE  Stays(p, p \in clients)
<1> DEFINE r == page[p]
           n == Seen(p)
           x == [r EXCEPT !.seen = n]
<1>1. r \in Record /\ Fits(r, OnTheWay, stored) /\ page' = [page EXCEPT ![p] = x]
  BY Shapes DEF PageRight
<1>2. n \in Nat
  BY <1>1, Shapes DEF Seen, Record
<1> HIDE DEF n
<1>4. /\ x \in Record /\ x.sock = r.sock /\ x.retry = r.retry /\ x.down = r.down /\ x.load = r.load
      /\ x.shown = r.shown /\ x.copy = r.copy /\ x.answers = r.answers /\ x.lost = r.lost
  BY <1>1, <1>2 DEF Record
<1> HIDE DEF x
<1>5. Fits(x, OnTheWay, stored)
  BY <1>1, <1>4 DEF Fits
<1>6. Fed(r, OnTheWay, stored) => Fed(x, OnTheWay, stored)
  BY <1>4 DEF Fed, Current, Has
<1> QED
  BY <1>1, <1>4, <1>5, <1>6 DEF Stays, PageRight

-----------------------------------------------------------------------------
(* The invariant is kept.                                                  *)

\* By a step of one page.
LEMMA PageStep ==
  ASSUME IInv, NEW p \in Page, Stays(p, p \in clients'),
         UNCHANGED <<stored, feedVars, work, httpd, bootVars, events>>,
         \A u \in Page : u # p => (u \in clients' <=> u \in clients),
         clients' \subseteq Page, server # "up" => clients' = {}, saved' \in 0 .. tokens
  PROVE  IInv'
<1>1. TypeOK /\ FeedInv /\ \A u \in Page : PageRight(u)
  BY DEF IInv
<1>2. PICK x \in Record : /\ page' = [page EXCEPT ![p] = x]
                          /\ Fits(x, OnTheWay, stored)
                          /\ (p \in clients' => Fed(x, OnTheWay, stored))
  BY DEF Stays
<1>3. page' \in [Page -> Record] /\ page'[p] = x /\ \A u \in Page : u # p => page'[u] = page[u]
  BY <1>1, <1>2, Shapes
<1>4. TypeOK'
  BY <1>1, <1>3 DEF TypeOK, Record, feedVars, bootVars, wifiVars
<1>5. FeedInv'
  BY <1>1 DEF FeedInv, feedVars, bootVars, wifiVars
<1>6. OnTheWay' = OnTheWay /\ stored' = stored
  BY DEF OnTheWay, feedVars
<1>7. ASSUME NEW u \in Page PROVE PageRight(u)'
  <2>1. CASE u = p
    BY <1>2, <1>3, <1>6, <2>1 DEF PageRight
  <2>2. CASE u # p
    BY <1>1, <1>3, <1>6, <2>2 DEF PageRight
  <2> QED
    BY <2>1, <2>2
<1> QED
  BY <1>4, <1>5, <1>7 DEF IInv

LEMMA DevicesStep ==
  ASSUME IInv, NEW p \in Page, Devices(p)
  PROVE  IInv'
<1>1. TypeOK /\ FeedInv /\ PageRight(p)
  BY DEF IInv
<1>2. Stays(p, p \in clients)
  BY <1>1, DeliversRight, ListsRight, FetchesRight, LoadFailsRight, StoresRight, RefreshesRight,
     ReplacesRight DEF Devices
<1>3. UNCHANGED <<stored, feedVars, work, httpd, clients, bootVars, events, saved>>
  BY DEF Devices, Delivers, Lists, Fetches, LoadFails, Stores, Refreshes, RefreshFails, Replaces
<1>4. clients \subseteq Page /\ saved \in 0 .. tokens /\ (server # "up" => clients = {})
  BY <1>1 DEF TypeOK, FeedInv
<1> QED
  BY <1>2, <1>3, <1>4, PageStep

LEMMA SocketStep ==
  ASSUME IInv, NEW p \in Page, Socket(p)
  PROVE  IInv'
<1>1. TypeOK /\ FeedInv /\ PageRight(p)
  BY DEF IInv
<1>2. UNCHANGED <<stored, feedVars, work, httpd, bootVars, events, saved>>
  BY DEF Socket, Opens, Closes, TimerFires, Detach
<1>3. clients \subseteq Page /\ saved \in 0 .. tokens /\ (server # "up" => clients = {})
  BY <1>1 DEF TypeOK, FeedInv
<1>4. CASE Opens(p)
  <2>1. clients' = clients \cup {p} /\ server = "up"
    BY <1>4 DEF Opens, Reachable
  <2>2. Stays(p, p \in clients')
    BY <1>1, <1>4, OpensRight DEF Stays
  <2> QED
    BY <1>2, <1>3, <2>1, <2>2, PageStep
<1>5. CASE Closes(p)
  <2>1. clients' = clients
    BY <1>5 DEF Closes
  <2>2. Stays(p, p \in clients')
    BY <1>1, <1>5, <2>1, ClosesRight DEF Stays
  <2> QED
    BY <1>2, <1>3, <2>1, <2>2, PageStep
<1>6. CASE TimerFires(p)
  <2>1. clients' = clients
    BY <1>6 DEF TimerFires
  <2>2. Stays(p, p \in clients')
    BY <1>1, <1>6, <2>1, TimerFiresRight
  <2> QED
    BY <1>2, <1>3, <2>1, <2>2, PageStep
<1>7. CASE Detach(p)
  <2>1. clients' = clients \ {p} /\ page' = page /\ p \in clients
    BY <1>7 DEF Detach
  <2>2. Stays(p, p \in clients')
    BY <1>1, <2>1, SameRight DEF Stays
  <2> QED
    BY <1>2, <1>3, <2>1, <2>2, PageStep
<1> QED
  BY <1>4, <1>5, <1>6, <1>7 DEF Socket

LEMMA ChecksStep ==
  ASSUME IInv, NEW p \in Page, Checks(p)
  PROVE  IInv'
<1>1. TypeOK /\ FeedInv /\ PageRight(p)
  BY DEF IInv
<1>2. UNCHANGED <<stored, feedVars, work, httpd, bootVars, events>>
  BY DEF Checks
<1>3. /\ clients \subseteq Page /\ saved \in 0 .. tokens /\ token \in 0 .. tokens
      /\ (server # "up" => clients = {})
  BY <1>1 DEF TypeOK, FeedInv
<1>4. saved' \in 0 .. tokens
  BY <1>3 DEF Checks
<1>5. CASE page' = [page EXCEPT ![p] = Reloaded(@)] /\ clients' = clients \ {p}
  <2>1. Stays(p, p \in clients')
    BY <1>1, <1>5, ReloadsRight DEF Stays
  <2> QED
    BY <1>2, <1>3, <1>4, <1>5, <2>1, PageStep
<1>6. CASE page' = [page EXCEPT ![p].seen = Seen(p)] /\ clients' = clients
  <2>1. Stays(p, p \in clients')
    BY <1>1, <1>6, SeesRight
  <2> QED
    BY <1>2, <1>3, <1>4, <1>6, <2>1, PageStep
<1> QED
  BY <1>5, <1>6 DEF Checks

\* The queues, part by part.
WayParts ==
  /\ work \in Seq(Nat) /\ held \in Seq(Nat) /\ attrQ \in Seq(Nat) /\ post \in Seq(Nat)
  /\ OnTheWay \in Seq(Nat)
  /\ NoUpdate(OnTheWay) <=> NoUpdate(work) /\ NoUpdate(held) /\ NoUpdate(attrQ) /\ NoUpdate(post)
  /\ \A v : EndsIn(OnTheWay, v) <=>
       /\ EndsIn(post, v)
       /\ NoUpdate(post) => EndsIn(attrQ, v)
       /\ NoUpdate(post) /\ NoUpdate(attrQ) => EndsIn(held, v)
       /\ NoUpdate(post) /\ NoUpdate(attrQ) /\ NoUpdate(held) => EndsIn(work, v)

LEMMA WayIs == TypeOK => WayParts
<1> SUFFICES ASSUME TypeOK PROVE WayParts
  OBVIOUS
<1>1. /\ work \in Seq(Nat) /\ held \in Seq(Nat) /\ attrQ \in Seq(Nat) /\ post \in Seq(Nat)
      /\ OnTheWay \in Seq(Nat)
  BY Shapes
<1> QED
  BY <1>1, OfAll DEF WayParts, OnTheWay

LEMMA WayNext == TypeOK' => WayParts'
BY WayIs, PTL

\* By a step of the host: each page is right after it.
LEMMA HostStep ==
  ASSUME IInv, TypeOK', FeedInv',
         \A p \in Page : /\ Fits(page[p], OnTheWay, stored) => Fits(page'[p], OnTheWay', stored')
                         /\ p \in clients' => p \in clients
                         /\ p \in clients' /\ Fits(page[p], OnTheWay, stored)
                              /\ Fed(page[p], OnTheWay, stored) => Fed(page'[p], OnTheWay', stored')
  PROVE  IInv'
<1>1. ASSUME NEW p \in Page PROVE PageRight(p)'
  BY DEF IInv, PageRight
<1> QED
  BY <1>1 DEF IInv

\* Nothing happens to values, queues and pages.
LEMMA AloneStep ==
  ASSUME IInv, TypeOK', FeedInv',
         UNCHANGED <<stored, post, attrQ, held, work, clients, page>>
  PROVE  IInv'
<1>1. OnTheWay' = OnTheWay
  BY DEF OnTheWay
<1> QED
  BY <1>1, HostStep

\* The queues hold the same updates.
LEMMA MovedStep ==
  ASSUME IInv, TypeOK', FeedInv', UNCHANGED <<stored, clients, page>>,
         EndsIn(OnTheWay, stored) => EndsIn(OnTheWay', stored),
         NoUpdate(OnTheWay') <=> NoUpdate(OnTheWay)
  PROVE  IInv'
<1> DEFINE q == OnTheWay
           w == OnTheWay'
<1>1. q \in Seq(Nat) /\ w \in Seq(Nat) /\ page \in [Page -> Record]
  BY Shapes, WayNext DEF IInv, WayParts
<1> SUFFICES ASSUME NEW p \in Page
             PROVE  /\ Fits(page[p], q, stored) => Fits(page[p], w, stored)
                    /\ Fed(page[p], q, stored) => Fed(page[p], w, stored)
  BY HostStep
<1> HIDE DEF q, w
<1>2. page[p] \in Record
  BY <1>1
<1>3. EndsIn(q, stored) => EndsIn(w, stored)
  BY DEF q, w
<1>4. NoUpdate(w) <=> NoUpdate(q)
  BY DEF q, w
<1> QED
  BY <1>1, <1>2, <1>3, <1>4, FitsAfter, QueueMoved

\* A frame is lost to every page.
LEMMA DroppedStep ==
  ASSUME IInv, TypeOK', FeedInv', UNCHANGED <<stored, clients>>, NEW f \in Nat, LostToAll(f),
         EndsIn(OnTheWay, stored) /\ f # stored =>
           EndsIn(OnTheWay', stored) /\ (NoUpdate(OnTheWay') => NoUpdate(OnTheWay))
  PROVE  IInv'
<1> DEFINE q == OnTheWay
           w == OnTheWay'
<1>1. q \in Seq(Nat) /\ w \in Seq(Nat) /\ page \in [Page -> Record] /\ stored \in Nat \ {0}
  BY Shapes, WayNext DEF IInv, WayParts
<1>2. \A p \in Page : page'[p] = Losing(page[p], f)
  BY DEF LostToAll
<1>3. EndsIn(q, stored) /\ f # stored => EndsIn(w, stored) /\ (NoUpdate(w) => NoUpdate(q))
  OBVIOUS
<1> HIDE DEF q, w
<1>4. ASSUME NEW p \in Page, Fits(page[p], q, stored)
      PROVE  /\ Fits(page'[p], w, stored)
             /\ Fed(page[p], q, stored) => Fed(page'[p], w, stored)
  <2>1. page[p] \in Record
    BY <1>1
  <2> QED
    BY <1>1, <1>2, <1>3, <1>4, <2>1, Dropped
<1> QED
  BY <1>4, HostStep DEF q, w

LEMMA LosingKeeps ==
  ASSUME page \in [Page -> Record], NEW f \in Nat, LostToAll(f)
  PROVE  page' \in [Page -> Record]
<1>1. ASSUME NEW p \in Page PROVE Losing(page[p], f) \in Record
  <2>1. page[p] \in Record
    OBVIOUS
  <2> QED
    BY <2>1, WithLost DEF Losing
<1> QED
  BY <1>1 DEF LostToAll

LEMMA ReportStep ==
  ASSUME IInv, Report
  PROVE  IInv'
<1> DEFINE v == stored
           n == stored + 1
           q == OnTheWay
           w == OnTheWay'
<1>1. TypeOK /\ FeedInv /\ page \in [Page -> Record] /\ v \in Nat \ {0} /\ q \in Seq(Nat)
  BY Shapes DEF IInv
<1>2. /\ stored' = n /\ post' = <<n>> /\ n \in Nat \ {0}
      /\ UNCHANGED <<attrQ, sysQ, turn, held, work, httpd, clients, bootVars, saved, page>>
      /\ events < MaxEvents /\ events' = events + 1
  BY <1>1 DEF Report, Happens
<1>3. TypeOK'
  <2>1. post' \in Seq(Nat \ {0}) /\ Len(post') <= 1
    BY <1>2
  <2>2. events' \in 0 .. MaxEvents /\ n \in Nat \ {0, 1}
    BY <1>1, <1>2, Sizes DEF TypeOK
  <2> QED
    BY <1>1, <1>2, <2>1, <2>2 DEF TypeOK, bootVars, wifiVars
<1>4. FeedInv'
  <2>1. starts' <= events' + 1
    BY <1>1, <1>2, Sizes DEF FeedInv, TypeOK, bootVars
  <2> QED
    BY <1>1, <1>2, <2>1 DEF FeedInv, bootVars
<1>5. w \in Seq(Nat) /\ ~NoUpdate(w) /\ EndsIn(w, n)
  <2>1. ~NoUpdate(post') /\ EndsIn(post', n)
    BY <1>2, OfOne DEF Notice
  <2> QED
    BY <1>3, <2>1, WayNext DEF WayParts
<1> DEFINE z == q \o <<n>>
<1>6. z \in Seq(Nat) /\ ~NoUpdate(z) /\ EndsIn(z, n)
  <2> HIDE DEF q, n
  <2> QED
    BY <1>1, <1>2, OfAppended DEF Notice
<1>7. ASSUME NEW p \in Page, Fits(page[p], q, v)
      PROVE  Fits(page[p], w, n) /\ (Fed(page[p], q, v) => Fed(page[p], w, n))
  <2>1. page[p] \in Record
    BY <1>1
  <2>2. Fits(page[p], z, n) /\ (Fed(page[p], q, v) => Fed(page[p], z, n))
    <3> HIDE DEF q, v
    <3> QED
      BY <1>1, <1>7, <2>1, NewValue DEF v
  <2> HIDE DEF z, w, n, q, v
  <2> QED
    BY <1>5, <1>6, <2>1, <2>2, FitsAfter, QueueMoved
<1> HIDE DEF w, q
<1> QED
  BY <1>2, <1>3, <1>4, <1>7, HostStep DEF w, q

LEMMA QueuesStep ==
  ASSUME IInv, Queues
  PROVE  IInv'
<1>1. /\ TypeOK /\ FeedInv /\ WayParts /\ page \in [Page -> Record]
      /\ post # <<>> /\ post' = <<>> /\ post[1] = stored
      /\ UNCHANGED <<stored, sysQ, turn, held, work, httpd, clients, bootVars, events, saved>>
  BY Shapes, WayIs DEF IInv, Queues, FeedInv
<1>2. NoUpdate(post') /\ \A v : EndsIn(post', v)
  BY <1>1, OfNone
<1>3. FeedInv'
  BY <1>1 DEF FeedInv, bootVars
<1>4. CASE ~Full /\ attrQ' = attrQ \o post /\ UNCHANGED page
  <2>1. /\ NoUpdate(attrQ') <=> NoUpdate(attrQ) /\ NoUpdate(post)
        /\ \A v : EndsIn(attrQ', v) <=> EndsIn(post, v) /\ (NoUpdate(post) => EndsIn(attrQ, v))
    BY <1>1, <1>4, OfBoth DEF WayParts
  <2>2. attrQ' \in Seq(Nat \ {0}) /\ Len(attrQ') <= AttrLen
    <3>1. /\ attrQ \in Seq(Nat \ {0}) /\ post \in Seq(Nat \ {0}) /\ Len(post) <= 1
          /\ Len(attrQ) < AttrLen /\ AttrLen \in Nat
      BY <1>1, <1>4, Sizes DEF TypeOK, Full
    <3> QED
      BY <1>4, <3>1, ConcatProperties
  <2>3. TypeOK'
    BY <1>1, <1>4, <2>2 DEF TypeOK, bootVars, wifiVars
  <2>4. /\ NoUpdate(OnTheWay') <=> NoUpdate(OnTheWay)
        /\ EndsIn(OnTheWay, stored) => EndsIn(OnTheWay', stored)
    BY <1>1, <1>2, <2>1, <2>3, WayNext DEF WayParts
  <2> QED
    BY <1>1, <1>3, <1>4, <2>3, <2>4, MovedStep
<1>5. CASE LostToAll(Head(post)) /\ UNCHANGED attrQ
  <2>1. Head(post) = stored /\ stored \in Nat
    BY <1>1 DEF TypeOK
  <2>2. page' \in [Page -> Record]
    BY <1>1, <1>5, <2>1, LosingKeeps
  <2>3. TypeOK'
    BY <1>1, <1>5, <2>2 DEF TypeOK, Record, bootVars, wifiVars
  <2> QED
    BY <1>1, <1>3, <1>5, <2>1, <2>3, DroppedStep
<1> QED
  BY <1>4, <1>5 DEF Queues

LEMMA PumpTakesStep ==
  ASSUME IInv, PumpTakes
  PROVE  IInv'
<1>1. /\ TypeOK /\ FeedInv /\ WayParts /\ held = <<>>
      /\ page \in [Page -> Record]
      /\ UNCHANGED <<stored, post, turn, work, httpd, clients, bootVars, events, saved>>
  BY WayIs, Shapes DEF IInv, PumpTakes
<1>2. FeedInv'
  BY <1>1 DEF FeedInv, bootVars
<1>3. NoUpdate(held) /\ \A v : EndsIn(held, v)
  BY <1>1, OfNone
<1>4. CASE attrQ # <<>> /\ attrQ' = Tail(attrQ) /\ UNCHANGED sysQ /\
           \/ held' = <<Head(attrQ)>> /\ UNCHANGED page
           \/ held' = <<Cut>> /\ LostToAll(Head(attrQ))
  <2> DEFINE f == Head(attrQ)
  <2>1. /\ f \in Nat
        /\ NoUpdate(attrQ) <=> f = Notice /\ NoUpdate(attrQ')
        /\ \A v : EndsIn(attrQ, v) <=> /\ EndsIn(attrQ', v)
                                       /\ NoUpdate(attrQ') => f = Notice \/ f = v
    BY <1>1, <1>4, OfHead DEF WayParts
  <2>2. attrQ' \in Seq(Nat \ {0}) /\ Len(attrQ') <= AttrLen /\ f # Notice
    <3>1. attrQ \in Seq(Nat \ {0}) /\ Len(attrQ) <= AttrLen /\ AttrLen \in Nat
      BY <1>1, Sizes DEF TypeOK
    <3> QED
      BY <1>4, <3>1 DEF Notice
  <2>3. CASE held' = <<f>> /\ UNCHANGED page
    <3> HIDE DEF f
    <3>1. /\ NoUpdate(held') <=> f = Notice
          /\ \A v : EndsIn(held', v) <=> (f = Notice \/ f = v)
      BY <2>1, <2>3, OfOne
    <3>2. held' \in Seq(Nat) /\ Len(held') <= 1
      BY <2>1, <2>3
    <3>3. TypeOK'
      BY <1>1, <1>4, <2>2, <2>3, <3>2 DEF TypeOK, bootVars, wifiVars
    <3>4. /\ NoUpdate(OnTheWay') <=> NoUpdate(OnTheWay)
          /\ EndsIn(OnTheWay, stored) => EndsIn(OnTheWay', stored)
      BY <1>1, <1>3, <2>1, <3>1, <3>3, WayNext DEF WayParts
    <3> QED
      BY <1>1, <1>2, <2>3, <3>3, <3>4, MovedStep
  <2>4. CASE held' = <<Cut>> /\ LostToAll(f)
    <3>1. page' \in [Page -> Record]
      BY <1>1, <2>1, <2>4, LosingKeeps
    <3> HIDE DEF f
    <3>2. ~NoUpdate(held')
      <4>1. Cut \in Nat /\ Cut # Notice
        BY DEF Cut, Notice
      <4> QED
        BY <2>4, <4>1, OfOne
    <3>3. held' \in Seq(Nat) /\ Len(held') <= 1
      BY <2>4 DEF Cut
    <3>4. TypeOK'
      BY <1>1, <1>4, <2>2, <3>1, <3>3 DEF TypeOK, Record, bootVars, wifiVars
    <3>5. EndsIn(OnTheWay, stored) /\ f # stored =>
            EndsIn(OnTheWay', stored) /\ (NoUpdate(OnTheWay') => NoUpdate(OnTheWay))
      <4> SUFFICES ASSUME EndsIn(OnTheWay, stored), f # stored
                   PROVE  EndsIn(OnTheWay', stored) /\ ~NoUpdate(OnTheWay')
        OBVIOUS
      <4>1. EndsIn(post, stored) /\ (NoUpdate(post) => EndsIn(attrQ, stored))
        BY <1>1 DEF WayParts
      <4>2. NoUpdate(post) => EndsIn(attrQ', stored) /\ ~NoUpdate(attrQ')
        BY <2>1, <2>2, <4>1
      <4> QED
        BY <1>1, <3>2, <3>4, <4>1, <4>2, WayNext DEF WayParts
    <3> QED
      BY <1>1, <1>2, <2>1, <2>4, <3>4, <3>5, DroppedStep
  <2> QED
    BY <1>4, <2>3, <2>4
<1>5. CASE sysQ > 0 /\ held' = <<Notice>> /\ sysQ' = sysQ - 1 /\ UNCHANGED <<attrQ, page>>
  <2>1. NoUpdate(held') /\ \A v : EndsIn(held', v)
    BY <1>5, OfOne DEF Notice
  <2>2. sysQ' \in 0 .. SysLen /\ held' \in Seq(Nat) /\ Len(held') <= 1
    BY <1>1, <1>5, Sizes DEF TypeOK, Notice
  <2>3. TypeOK'
    BY <1>1, <1>5, <2>2 DEF TypeOK, bootVars, wifiVars
  <2>4. /\ NoUpdate(OnTheWay') <=> NoUpdate(OnTheWay)
        /\ EndsIn(OnTheWay, stored) => EndsIn(OnTheWay', stored)
    BY <1>1, <1>3, <1>5, <2>1, <2>3, WayNext DEF WayParts
  <2> QED
    BY <1>1, <1>2, <1>5, <2>3, <2>4, MovedStep
<1> QED
  BY <1>4, <1>5 DEF PumpTakes

LEMMA Single ==
  ASSUME NEW S, NEW s \in Seq(S), s # <<>>, Len(s) <= 1
  PROVE  Len(s) = 1 /\ Head(s) \in S /\ Tail(s) = <<>>
<1>1. Len(s) = 1 /\ Head(s) \in S
  OBVIOUS
<1> DEFINE t == Tail(s)
<1>2. t \in Seq(S) /\ Len(t) = 0
  BY <1>1
<1> HIDE DEF t
<1>3. t = <<>>
  BY <1>2
<1> QED
  BY <1>1, <1>3 DEF t

LEMMA PumpSendsStep ==
  ASSUME IInv, PumpSends
  PROVE  IInv'
<1> DEFINE f == Head(held)
<1>1. /\ TypeOK /\ FeedInv /\ WayParts /\ held # <<>> /\ held' = <<>> /\ turn' = Other(turn)
      /\ page \in [Page -> Record]
      /\ UNCHANGED <<stored, post, attrQ, sysQ, httpd, clients, bootVars, events, saved>>
  BY WayIs, Shapes DEF IInv, PumpSends
<1>2. turn' \in {"attr", "sys"} /\ <<>> \in Seq(Nat) /\ Len(<<>>) <= 1
  BY <1>1 DEF Other
<1>3. NoUpdate(held') /\ \A v : EndsIn(held', v)
  BY <1>1, OfNone
<1>4. held \in Seq(Nat) /\ Len(held) = 1 /\ f \in Nat /\ Tail(held) = <<>>
  <2>1. held \in Seq(Nat) /\ Len(held) <= 1
    BY <1>1 DEF TypeOK
  <2> QED
    BY <1>1, <2>1, Single
<1>5. (NoUpdate(held) <=> f = Notice) /\ \A v : EndsIn(held, v) <=> (f = Notice \/ f = v)
  <2> DEFINE t == Tail(held)
  <2>1. NoUpdate(t) /\ \A v : EndsIn(t, v)
    BY <1>4, OfNone
  <2> HIDE DEF t
  <2>2. /\ NoUpdate(held) <=> f = Notice /\ NoUpdate(t)
        /\ \A v : EndsIn(held, v) <=> EndsIn(t, v) /\ (NoUpdate(t) => f = Notice \/ f = v)
    BY <1>1, <1>4, OfHead DEF t
  <2> QED
    BY <2>1, <2>2
<1>6. CASE server = "up" /\ Len(work) < WorkLen /\ work' = work \o held /\ UNCHANGED page
  <2>1. /\ NoUpdate(work') <=> NoUpdate(work) /\ NoUpdate(held)
        /\ \A v : EndsIn(work', v) <=> EndsIn(held, v) /\ (NoUpdate(held) => EndsIn(work, v))
    BY <1>1, <1>6, OfBoth DEF WayParts
  <2>2. work' \in Seq(Nat) /\ Len(work') <= WorkLen
    <3>1. work \in Seq(Nat) /\ held \in Seq(Nat) /\ WorkLen \in Nat /\ Len(work) \in Nat
      BY <1>1, Sizes DEF TypeOK
    <3>2. work \o held \in Seq(Nat) /\ Len(work \o held) = Len(work) + Len(held)
      BY <3>1, ConcatProperties
    <3> QED
      BY <1>4, <1>6, <3>1, <3>2
  <2>3. TypeOK'
    BY <1>1, <1>2, <1>6, <2>2 DEF TypeOK, bootVars, wifiVars
  <2>4. FeedInv'
    BY <1>1, <1>6 DEF FeedInv, bootVars
  <2>5. /\ NoUpdate(OnTheWay') <=> NoUpdate(OnTheWay)
        /\ EndsIn(OnTheWay, stored) => EndsIn(OnTheWay', stored)
    BY <1>1, <1>3, <2>1, <2>3, WayNext DEF WayParts
  <2> QED
    BY <1>1, <1>6, <2>3, <2>4, <2>5, MovedStep
<1>7. CASE LostToAll(f) /\ UNCHANGED work
  <2>1. page' \in [Page -> Record]
    BY <1>1, <1>4, <1>7, LosingKeeps
  <2>2. TypeOK'
    BY <1>1, <1>2, <1>7, <2>1 DEF TypeOK, Record, bootVars, wifiVars
  <2>3. FeedInv'
    BY <1>1, <1>7 DEF FeedInv, bootVars
  <2>4. EndsIn(OnTheWay, stored) /\ f # stored =>
          EndsIn(OnTheWay', stored) /\ (NoUpdate(OnTheWay') => NoUpdate(OnTheWay))
    <3> HIDE DEF f
    <3> QED
      BY <1>1, <1>3, <1>5, <1>7, <2>2, WayNext DEF WayParts
  <2> QED
    BY <1>1, <1>4, <1>7, <2>2, <2>3, <2>4, DroppedStep
<1> QED
  BY <1>6, <1>7 DEF PumpSends

LEMMA HttpdWorksStep ==
  ASSUME IInv, HttpdWorks
  PROVE  IInv'
<1> DEFINE f == Head(work)
           q == OnTheWay
           w == OnTheWay'
           v == stored
           Sent(p) == [page[p] EXCEPT !.down = Append(@, f)]
<1>0. PICK missed \in SUBSET clients :
        page' = [p \in Page |-> IF p \in missed THEN Losing(page[p], f)
                               ELSE IF p \in clients THEN Sent(p) ELSE page[p]]
  BY DEF HttpdWorks
<1>1. /\ TypeOK /\ FeedInv /\ WayParts /\ server = "up" /\ work # <<>> /\ work' = Tail(work)
      /\ page \in [Page -> Record] /\ v \in Nat \ {0}
      /\ UNCHANGED <<stored, feedVars, httpd, clients, bootVars, events, saved>>
  BY WayIs, Shapes DEF IInv, HttpdWorks
<1>2. /\ f \in Nat /\ work' \in Seq(Nat)
      /\ NoUpdate(work) <=> f = Notice /\ NoUpdate(work')
      /\ \A u : EndsIn(work, u) <=> EndsIn(work', u) /\ (NoUpdate(work') => f = Notice \/ f = u)
  BY <1>1, OfHead DEF WayParts
<1>3. Len(work') <= WorkLen
  <2>1. work \in Seq(Nat) /\ Len(work) <= WorkLen /\ WorkLen \in Nat
    BY <1>1, Sizes DEF TypeOK
  <2> QED
    BY <1>1, <2>1
<1> HIDE DEF f
<1>4. ASSUME NEW p \in Page PROVE Sent(p) \in Record
  <2> DEFINE d == Append(page[p].down, f)
  <2>1. page[p] \in Record /\ page[p].down \in Seq(Nat)
    BY <1>1 DEF Record
  <2>2. d \in Seq(Nat)
    BY <1>2, <2>1, AppendProperties
  <2> HIDE DEF d
  <2>3. [page[p] EXCEPT !.down = d] \in Record
    BY <2>1, <2>2, WithDown
  <2> QED
    BY <2>3 DEF d
<1>5. page' \in [Page -> Record]
  <2>1. ASSUME NEW p \in Page PROVE Losing(page[p], f) \in Record
    BY <1>1, <1>2, WithLost DEF Losing
  <2> QED
    BY <1>0, <1>1, <1>4, <2>1
<1>6. TypeOK'
  BY <1>1, <1>2, <1>3, <1>5 DEF TypeOK, Record, feedVars, bootVars, wifiVars
<1>7. FeedInv'
  BY <1>1 DEF FeedInv, feedVars, bootVars
<1>8. /\ q \in Seq(Nat) /\ w \in Seq(Nat) /\ stored' = v
      /\ NoUpdate(q) <=> f = Notice /\ NoUpdate(w)
      /\ EndsIn(q, v) <=> EndsIn(w, v) /\ (NoUpdate(w) => f = Notice \/ f = v)
  BY <1>1, <1>2, <1>6, WayNext DEF WayParts, feedVars
<1> HIDE DEF q, w, v
<1>9. ASSUME NEW p \in Page, Fits(page[p], q, v), p \notin clients \/ Fed(page[p], q, v)
      PROVE  Fits(page'[p], w, v) /\ (p \in clients => Fed(page'[p], w, v))
  <2>1. page[p] \in Record
    BY <1>1
  <2>2. CASE p \notin clients
    <3>1. page'[p] = page[p]
      BY <1>0, <2>2
    <3> QED
      BY <1>8, <1>9, <2>2, <3>1, FitsAfter
  <2>3. CASE p \in missed
    <3>1. page'[p] = Losing(page[p], f) /\ p \in clients
      BY <1>0, <2>3
    <3>2. EndsIn(q, v) /\ f # v => EndsIn(w, v) /\ (NoUpdate(w) => NoUpdate(q))
      BY <1>8
    <3> QED
      BY <1>1, <1>2, <1>8, <1>9, <2>1, <3>1, <3>2, Dropped
  <2>4. CASE p \in clients \ missed
    <3>1. page'[p] = Sent(p)
      BY <1>0, <2>4
    <3> QED
      <4> DEFINE r == page[p]
                 x == [r EXCEPT !.down = Append(@, f)]
      <4>1. r \in Record /\ Fits(r, q, v) /\ Fed(r, q, v) /\ page'[p] = x
        BY <1>9, <2>1, <2>4, <3>1
      <4> HIDE DEF r
      <4>2. Fits(x, w, v) /\ Fed(x, w, v)
        BY <1>2, <1>8, <4>1, SentDown
      <4> QED
        BY <4>1, <4>2
  <2> QED
    BY <2>2, <2>3, <2>4
<1>10. ASSUME NEW p \in Page PROVE PageRight(p)'
  <2>1. Fits(page[p], q, v) /\ (p \in clients => Fed(page[p], q, v))
    BY DEF IInv, PageRight, q, v
  <2>2. Fits(page'[p], w, v) /\ (p \in clients => Fed(page'[p], w, v))
    BY <1>9, <2>1
  <2> QED
    BY <1>1, <1>8, <2>2 DEF PageRight, w
<1> QED
  BY <1>6, <1>7, <1>10 DEF IInv

LEMMA HttpdFailsStep ==
  ASSUME IInv, HttpdFails
  PROVE  IInv'
<1>1. /\ TypeOK /\ FeedInv /\ WayParts /\ clients = {} /\ work = <<>>
      /\ server' = "failed" /\ attrQ' = <<>> /\ sysQ' = 0 /\ held' = <<>>
      /\ events < MaxEvents /\ events' = events + 1
      /\ UNCHANGED <<stored, post, turn, work, httpd, clients, wifiVars, starts, saved, page>>
  BY WayIs DEF IInv, HttpdFails, FeedInv, Happens
<1>2. TypeOK'
  <2>1. events' \in 0 .. MaxEvents /\ 0 \in 0 .. SysLen /\ 0 <= AttrLen
    BY <1>1, Sizes DEF TypeOK
  <2>2. <<>> \in Seq(Nat \ {0}) /\ <<>> \in Seq(Nat) /\ Len(<<>>) = 0
    OBVIOUS
  <2> QED
    BY <1>1, <2>1, <2>2 DEF TypeOK, wifiVars
<1>3. FeedInv'
  BY <1>1, Sizes DEF FeedInv, TypeOK
<1>4. EndsIn(OnTheWay, stored) => EndsIn(OnTheWay', stored)
  <2>1. \A v : EndsIn(attrQ', v) /\ EndsIn(held', v) /\ EndsIn(work', v)
    BY <1>1, OfNone
  <2> QED
    BY <1>1, <1>2, <2>1, WayNext DEF WayParts
<1>5. ASSUME NEW p \in Page, Fits(page[p], OnTheWay, stored)
      PROVE  Fits(page'[p], OnTheWay', stored')
  BY <1>1, <1>4, <1>5, FitsAfter
<1> QED
  BY <1>1, <1>2, <1>3, <1>5, HostStep

LEMMA RestartStep ==
  ASSUME IInv, Restart
  PROVE  IInv'
<1> DEFINE v == stored
           n == stored + 1
           q == OnTheWay
           w == OnTheWay'
<1>1. /\ TypeOK /\ FeedInv /\ page \in [Page -> Record] /\ v \in Nat \ {0} /\ q \in Seq(Nat)
      /\ stored' = n /\ n \in Nat \ {0} /\ starts' = starts + 1
      /\ wifi' = "joining" /\ token' = 0 /\ server' = "none" /\ post' = <<>>
      /\ attrQ' = <<>> /\ sysQ' = 0 /\ turn' = "attr" /\ held' = <<>>
      /\ work' = <<>> /\ httpd' = "idle" /\ clients' = {}
      /\ events < MaxEvents /\ events' = events + 1
      /\ UNCHANGED <<tokens, saved, page>>
  BY Shapes DEF IInv, Restart, Happens
<1>2. TypeOK'
  <2>1. events' \in 0 .. MaxEvents /\ 0 \in 0 .. SysLen /\ 0 <= AttrLen /\ 0 <= WorkLen
    BY <1>1, Sizes DEF TypeOK
  <2>2. <<>> \in Seq(Nat \ {0}) /\ <<>> \in Seq(Nat) /\ Len(<<>>) = 0
    OBVIOUS
  <2>3. starts' \in 1 .. MaxEvents + 1
    BY <1>1, Sizes DEF TypeOK, FeedInv
  <2>4. 0 \in 0 .. tokens /\ n \in Nat \ {0, 1}
    BY <1>1 DEF TypeOK
  <2> QED
    BY <1>1, <2>1, <2>2, <2>3, <2>4 DEF TypeOK
<1>3. FeedInv'
  <2>1. starts' <= events' + 1
    BY <1>1, Sizes DEF FeedInv, TypeOK
  <2> QED
    BY <1>1, <2>1 DEF FeedInv
<1>4. EndsIn(w, n)
  <2>1. \A u : EndsIn(post', u) /\ EndsIn(attrQ', u) /\ EndsIn(held', u) /\ EndsIn(work', u)
    BY <1>1, OfNone
  <2> QED
    BY <1>2, <2>1, WayNext DEF WayParts
<1>5. ASSUME NEW p \in Page, Fits(page[p], q, v) PROVE Fits(page[p], w, n)
  <2> HIDE DEF q, w
  <2>1. page[p] \in Record
    BY <1>1
  <2>2. Fits(page[p], q \o <<n>>, n)
    BY <1>1, <1>5, <2>1, NewValue
  <2> HIDE DEF n
  <2> QED
    BY <1>4, <2>2, FitsAfter
<1> QED
  BY <1>1, <1>2, <1>3, <1>5, HostStep

\* What happens to neither values nor queues nor pages.
LEMMA OtherStep ==
  ASSUME IInv,
         \/ Notify \/ PumpWaits \/ CmdBegins \/ CmdGoesOn \/ MakeFeed \/ StartHttpd
         \/ Wifi \/ UNCHANGED vars
  PROVE  IInv'
<1>1. TypeOK /\ FeedInv
  BY DEF IInv
<1>2. UNCHANGED <<stored, post, attrQ, held, work, clients, page>>
  BY DEF Notify, PumpWaits, CmdBegins, CmdGoesOn, MakeFeed, StartHttpd, Wifi, GotIp, GivesUp,
         Drops, Button, NotWifi, Rest, feedVars, vars
<1>3. CASE Notify
  <2>1. sysQ' \in 0 .. SysLen /\ events' \in 0 .. MaxEvents
    BY <1>1, <1>3, Sizes DEF TypeOK, Notify, Happens
  <2>2. TypeOK'
    BY <1>1, <1>3, <2>1 DEF TypeOK, Notify, bootVars, wifiVars
  <2>3. FeedInv'
    BY <1>1, <1>3, Sizes DEF FeedInv, TypeOK, Notify, Happens, bootVars
  <2> QED
    BY <1>2, <2>2, <2>3, AloneStep
<1>4. CASE PumpWaits \/ CmdBegins \/ CmdGoesOn \/ UNCHANGED vars
  <2>1. TypeOK'
    <3>1. CASE PumpWaits
      BY <1>1, <3>1 DEF TypeOK, PumpWaits, Other, bootVars, wifiVars
    <3>2. CASE CmdBegins
      BY <1>1, <3>2 DEF TypeOK, CmdBegins, feedVars, bootVars, wifiVars
    <3>3. CASE CmdGoesOn
      BY <1>1, <3>3 DEF TypeOK, CmdGoesOn, feedVars, bootVars, wifiVars
    <3>4. CASE UNCHANGED vars
      BY <1>1, <3>4 DEF TypeOK, vars, feedVars, bootVars, wifiVars
    <3> QED
      BY <1>4, <3>1, <3>2, <3>3, <3>4
  <2>2. FeedInv'
    <3>1. CASE PumpWaits \/ CmdBegins \/ CmdGoesOn
      BY <1>1, <3>1 DEF FeedInv, PumpWaits, CmdBegins, CmdGoesOn, feedVars, bootVars
    <3>2. CASE UNCHANGED vars
      BY <1>1, <3>2 DEF FeedInv, vars, feedVars, bootVars
    <3> QED
      BY <1>4, <3>1, <3>2
  <2> QED
    BY <1>2, <2>1, <2>2, AloneStep
<1>5. CASE MakeFeed \/ StartHttpd
  <2>1. TypeOK'
    BY <1>1, <1>5 DEF TypeOK, MakeFeed, StartHttpd, feedVars, wifiVars
  <2>2. FeedInv'
    BY <1>1, <1>5 DEF FeedInv, MakeFeed, StartHttpd, feedVars
  <2> QED
    BY <1>2, <2>1, <2>2, AloneStep
<1>6. CASE Wifi
  <2>0. /\ UNCHANGED Rest /\ events' \in {events, events + 1} /\ events' \in 0 .. MaxEvents
        /\ wifi' \in {"joining", "joined", "lost", "ap"}
    <3>1. events \in 0 .. MaxEvents /\ MaxEvents \in Nat
      BY <1>1, Sizes DEF TypeOK
    <3>2. CASE GotIp \/ GivesUp
      BY <3>1, <3>2 DEF GotIp, GivesUp, NotWifi
    <3>3. CASE Drops \/ Button
      <4>1. UNCHANGED Rest /\ wifi' \in {"joining", "joined", "lost", "ap"}
        BY <3>3 DEF Drops, Button
      <4>2. events < MaxEvents /\ events' = events + 1
        BY <3>3 DEF Drops, Button, Happens
      <4> QED
        BY <3>1, <4>1, <4>2
    <3> QED
      BY <1>6, <3>2, <3>3 DEF Wifi
  <2>1. tokens' \in Nat /\ tokens <= tokens' /\ token' \in 0 .. tokens'
    BY <1>1, <1>6 DEF TypeOK, Wifi, GotIp, GivesUp, Drops, Button, NewToken
  <2>2. saved' \in 0 .. tokens'
    BY <1>1, <2>0, <2>1 DEF TypeOK, Rest
  <2>3. TypeOK'
    BY <1>1, <2>0, <2>1, <2>2 DEF TypeOK, Rest, feedVars
  <2>4. FeedInv'
    <3>1. UNCHANGED <<post, stored, server, clients, work, starts>>
      BY <2>0 DEF Rest, feedVars
    <3>2. starts' <= events' + 1
      <4>1. starts \in Nat /\ starts <= events + 1 /\ events \in Nat
        BY <1>1, Shapes, Sizes DEF FeedInv, TypeOK
      <4>2. events' = events \/ events' = events + 1
        BY <2>0
      <4> QED
        BY <3>1, <4>1, <4>2
    <3> QED
      BY <1>1, <3>1, <3>2 DEF FeedInv
  <2> QED
    BY <1>2, <2>3, <2>4, AloneStep
<1> QED
  BY <1>3, <1>4, <1>5, <1>6

-----------------------------------------------------------------------------
(* The theorems.                                                           *)

LEMMA Starts == Init => IInv
<1> SUFFICES ASSUME Init PROVE IInv
  OBVIOUS
<1>1. page \in [Page -> Record]
  BY FreshIs DEF Init
<1>2. TypeOK
  <2>1. <<>> \in Seq(Nat \ {0}) /\ <<>> \in Seq(Nat) /\ Len(<<>>) = 0
    OBVIOUS
  <2>2. 0 \in 0 .. SysLen /\ 0 <= AttrLen /\ 0 <= WorkLen /\ 1 \in 1 .. MaxEvents + 1 /\ 0 \in 0 .. MaxEvents
    BY Sizes
  <2> QED
    BY <1>1, <2>1, <2>2 DEF Init, TypeOK, Record
<1>3. FeedInv
  BY DEF Init, FeedInv
<1>4. EndsIn(OnTheWay, stored)
  <2>1. \A v : EndsIn(post, v) /\ EndsIn(attrQ, v) /\ EndsIn(held, v) /\ EndsIn(work, v)
    BY OfNone DEF Init
  <2> QED
    BY <1>2, <2>1, WayIs DEF WayParts
<1>5. ASSUME NEW p \in Page PROVE PageRight(p)
  <2>1. page[p] = Fresh /\ p \notin clients /\ stored = 2
    BY DEF Init
  <2>2. <<>> \in Seq(1 .. 2)
    OBVIOUS
  <2> QED
    BY <1>4, <2>1, <2>2, FreshIs DEF PageRight, Fits
<1> QED
  BY <1>2, <1>3, <1>5 DEF IInv

LEMMA Kept == IInv /\ [Next]_vars => IInv'
<1> SUFFICES ASSUME IInv, [Next]_vars PROVE IInv'
  OBVIOUS
<1>1. CASE Report \/ Queues \/ PumpTakes \/ PumpSends \/ HttpdWorks
  BY <1>1, ReportStep, QueuesStep, PumpTakesStep, PumpSendsStep, HttpdWorksStep
<1>2. CASE HttpdFails \/ Restart
  BY <1>2, HttpdFailsStep, RestartStep
<1>3. CASE \/ Notify \/ PumpWaits \/ CmdBegins \/ CmdGoesOn \/ MakeFeed \/ StartHttpd
           \/ Wifi \/ UNCHANGED vars
  BY <1>3, OtherStep
<1>4. ASSUME NEW p \in Page, Socket(p) \/ Devices(p) \/ Checks(p) PROVE IInv'
  BY <1>4, SocketStep, DevicesStep, ChecksStep
<1> QED
  BY <1>1, <1>2, <1>3, <1>4 DEF Next, Feed, Boot

LEMMA Invariant == Spec => []IInv
BY Starts, Kept, PTL DEF Spec

\* Queues, connections, tokens and pages keep their types, the queues within their lengths.
THEOREM TypeCorrect == Spec => []TypeOK
<1>1. IInv => TypeOK
  BY DEF IInv
<1> QED
  BY <1>1, Invariant, PTL

\* A page that is connected and has loaded its devices shows the value of the device base or
\* will after the updates on their way, or it has lost that value in one of the named ways.
THEOREM PagesUpToDate == Spec => []UpToDate
<1>1. IInv => UpToDate
  <2> SUFFICES ASSUME IInv, NEW p \in Page, Attached(p), Has(page[p])
               PROVE  \/ stored <= page[p].lost
                      \/ /\ EndsIn(Coming(p), stored)
                         /\ NoUpdate(Coming(p)) => page[p].shown = stored
    BY DEF UpToDate
  <2>1. Fed(page[p], OnTheWay, stored)
    BY DEF IInv, PageRight, Attached
  <2> QED
    BY <2>1 DEF Fed, Current, Coming
<1> QED
  BY <1>1, Invariant, PTL

=============================================================================
