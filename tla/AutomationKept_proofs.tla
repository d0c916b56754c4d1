------------------------ MODULE AutomationKept_proofs ------------------------
(***************************************************************************)
(* The proof that a rule the answer to POST said was saved is found again, *)
(* over any history of edits, power failures and loads.  What a start can  *)
(* load fits into memory: the rules that have a readable file and an entry *)
(* of the index are, while the host is up, among those in memory.          *)
(***************************************************************************)
EXTENDS Automation_proofs, FiniteSetTheorems

Loadable(id) == Indexed(id) /\ file[id] \in Text
ToLoad == {id \in Rule : Loadable(id)}
Held   == {rules[k].def.id : k \in 1 .. Len(rules)}

\* What was answered as saved is in flash, and what is in memory is the same.
Saved ==
  \A id \in Rule : asked[id] \in Defs =>
    Loadable(id) /\ Parsed(file[id].def) = Parsed(asked[id])

Same ==
  \A k \in 1 .. Len(rules) : asked[rules[k].def.id] \in Defs =>
    Parsed(rules[k].def) = Parsed(asked[rules[k].def.id])

\* While the host is up memory has what a start would load, but for the rule
\* that is being deleted, which has left its place free.
Loaded ==
  boot = 0 => \A id \in Rule : Loadable(id) =>
    InMemory(id) \/ (web.op = "delete" /\ id = web.id)

Room == web.op = "delete" => Len(rules) < MaxRules

\* During a start memory has the entries before "boot" that can be read.
SoFar ==
  boot > 0 /\ index # Torn => \A n \in 1 .. Len(index) :
    n < boot /\ file[index[n].id] \in Text => InMemory(index[n].id)

FromFlash ==
  boot > 0 => \A k \in 1 .. Len(rules) : Loadable(rules[k].def.id)

Fits == IsFiniteSet(ToLoad) /\ Cardinality(ToLoad) <= MaxRules

\* Between its two writes a POST has written the rule in memory.
HalfSaved ==
  web.op = "post" /\ web.step = "index" =>
    file[web.id] \in Text /\ file[web.id].def = rules[Place(web.id)].def

KeptInv == Saved /\ Same /\ Loaded /\ Room /\ SoFar /\ FromFlash /\ Fits /\ HalfSaved

-----------------------------------------------------------------------------
(* Reading a file twice, and counting what is in memory.                     *)

LEMMA ParsedTwice ==
  ASSUME NEW d \in Texts
  PROVE  Parsed(Parsed(d)) = Parsed(d)
<1>1. ASSUME NEW x \in Defs PROVE Parsed(Parsed(x)) = Parsed(x)
  <2> DEFINE p == Parsed(x)
  <2>1. x \in Written
    BY Shapes
  <2>2. p.ops = [n \in DOMAIN x.ops |-> IF x.ops[n].do = "set" /\ x.ops[n].var \in Wide
                                          THEN Inert ELSE x.ops[n]]
    BY <2>1 DEF Parsed, Written
  <2>3. \A n \in DOMAIN x.ops : ~(p.ops[n].do = "set" /\ p.ops[n].var \in Wide)
    BY <2>2 DEF Inert
  <2>4. [n \in DOMAIN p.ops |-> IF p.ops[n].do = "set" /\ p.ops[n].var \in Wide
                                  THEN Inert ELSE p.ops[n]] = p.ops
    BY <2>2, <2>3
  <2>5. p \in [id : Rule \cup {NoRule}, cause : Attr \cup Var, want : SUBSET Value,
               prio : Int, first : BOOLEAN, timed : BOOLEAN, every : BOOLEAN,
               allow : Seq(Trigger), ops : {p.ops}]
    BY <2>1, <2>2 DEF Parsed, Written
  <2> HIDE DEF p
  <2>6. Parsed(p) = [p EXCEPT !.ops = p.ops]
    BY <2>4 DEF Parsed
  <2>7. [p EXCEPT !.ops = p.ops] = p
    BY <2>5
  <2> QED
    BY <2>6, <2>7 DEF p
<1>2. CASE d \in Defs
  BY <1>1, <1>2
<1>3. CASE \E x \in Defs : d = Parsed(x)
  BY <1>1, <1>3
<1> QED
  BY <1>2, <1>3 DEF Texts

LEMMA HeldCount ==
  ASSUME rules \in Seq(Text), OnePerId
  PROVE  /\ IsFiniteSet(Held) /\ Cardinality(Held) = Len(rules)
         /\ \A id \in Rule : InMemory(id) <=> id \in Held
<1> DEFINE f == [k \in 1 .. Len(rules) |-> rules[k].def.id]
<1>1. Len(rules) \in Nat /\ DOMAIN rules = 1 .. Len(rules)
  OBVIOUS
<1>2. f \in Bijection(1 .. Len(rules), Held)
  BY <1>1 DEF OnePerId, Held, Bijection, Injection, Surjection, IsInjective
<1>3. ExistsBijection(1 .. Len(rules), Held)
  BY <1>2 DEF ExistsBijection
<1>4. IsFiniteSet(Held)
  BY <1>1, <1>3, FS_NatBijection
<1>5. Cardinality(Held) = Len(rules)
  BY <1>1, <1>3, FS_CountingElements
<1>6. \A id \in Rule : InMemory(id) <=> id \in Held
  BY <1>1 DEF InMemory, Held
<1> QED
  BY <1>4, <1>5, <1>6

(* While the host is up, what a start would load fits.                       *)
LEMMA UpFits == StoreInv /\ boot = 0 /\ Loaded /\ Room => Fits
<1> SUFFICES ASSUME StoreInv, boot = 0, Loaded, Room PROVE Fits
  OBVIOUS
<1>1. /\ rules \in Seq(Text) /\ OnePerId /\ Len(rules) \in Nat /\ Len(rules) <= MaxRules
      /\ MaxRules \in Nat
  BY Shapes DEF StoreInv, StoreTypes
<1>2. IsFiniteSet(Held) /\ Cardinality(Held) = Len(rules)
      /\ \A id \in Rule : InMemory(id) <=> id \in Held
  BY <1>1, HeldCount
<1>3. CASE web.op = "delete"
  <2>1. ToLoad \subseteq Held \cup {web.id}
    BY <1>2, <1>3 DEF Loaded, ToLoad
  <2>2. IsFiniteSet(Held \cup {web.id}) /\ Cardinality(Held \cup {web.id}) <= Len(rules) + 1
    <3>1. /\ IsFiniteSet(Held \cup {web.id})
          /\ Cardinality(Held \cup {web.id}) =
               IF web.id \in Held THEN Cardinality(Held) ELSE Cardinality(Held) + 1
      BY <1>2, FS_AddElement
    <3> QED
      BY <1>1, <1>2, <3>1
  <2>3. IsFiniteSet(ToLoad) /\ Cardinality(ToLoad) <= Cardinality(Held \cup {web.id})
    BY <2>1, <2>2, FS_Subset
  <2>4. Cardinality(ToLoad) \in Nat /\ Cardinality(Held \cup {web.id}) \in Nat
    BY <2>2, <2>3, FS_CardinalityType
  <2> QED
    BY <1>1, <1>3, <2>2, <2>3, <2>4 DEF Fits, Room
<1>4. CASE web.op # "delete"
  <2>1. ToLoad \subseteq Held
    BY <1>2, <1>4 DEF Loaded, ToLoad
  <2>2. IsFiniteSet(ToLoad) /\ Cardinality(ToLoad) <= Len(rules)
    BY <1>2, <2>1, FS_Subset
  <2>3. Cardinality(ToLoad) \in Nat
    BY <2>2, FS_CardinalityType
  <2> QED
    BY <1>1, <2>2, <2>3 DEF Fits
<1> QED
  BY <1>3, <1>4

LEMMA UpPrimed == (StoreInv /\ boot = 0 /\ Loaded /\ Room => Fits)'
BY UpFits, PTL

(* Memory has room for one more when a start meets a rule it has not loaded. *)
LEMMA OneMore ==
  ASSUME StoreInv, Fits, \A k \in 1 .. Len(rules) : Loadable(rules[k].def.id),
         NEW id \in Rule, Loadable(id), ~InMemory(id)
  PROVE  Len(rules) < MaxRules
<1>1. /\ rules \in Seq(Text) /\ OnePerId /\ Len(rules) \in Nat /\ MaxRules \in Nat
  BY Shapes DEF StoreInv, StoreTypes
<1>2. /\ IsFiniteSet(Held) /\ Cardinality(Held) = Len(rules) /\ id \notin Held
  BY <1>1, HeldCount
<1>3. \A k \in 1 .. Len(rules) : rules[k].def.id \in Rule
  <2>1. ASSUME NEW k \in 1 .. Len(rules) PROVE rules[k].def \in Texts
    <3>1. rules[k] \in Text
      BY <1>1
    <3> QED
      BY <3>1 DEF Text
  <2> QED
    BY <2>1, Constants
<1>4. Held \cup {id} \subseteq ToLoad
  BY <1>3 DEF Held, ToLoad
<1>5. IsFiniteSet(Held \cup {id}) /\ Cardinality(Held \cup {id}) = Len(rules) + 1
  BY <1>2, FS_AddElement
<1>6. Cardinality(Held \cup {id}) <= Cardinality(ToLoad)
  BY <1>4, FS_Subset DEF Fits
<1>7. Cardinality(ToLoad) \in Nat
  BY FS_CardinalityType DEF Fits
<1> QED
  BY <1>1, <1>5, <1>6, <1>7 DEF Fits

-----------------------------------------------------------------------------
(* What is taken out of a list leaves the others in it.                      *)

LEMMA OthersStay ==
  ASSUME NEW S, NEW s \in Seq(S), NEW k \in 1 .. Len(s), NEW m \in 1 .. Len(s), m # k
  PROVE  \E n \in 1 .. Len(RemoveAt(s, k)) : RemoveAt(s, k)[n] = s[m]
<1> DEFINE u == RemoveAt(s, k)
<1>1. /\ u \in Seq(S) /\ Len(u) = Len(s) - 1
      /\ \A n \in 1 .. Len(s) - 1 : u[n] = IF n < k THEN s[n] ELSE s[n + 1]
  BY ShorterSeq
<1> HIDE DEF u
<1>2. Len(s) \in Nat
  OBVIOUS
<1>3. \E n \in 1 .. Len(u) : u[n] = s[m]
  <2>1. CASE m < k
    <3>1. m \in 1 .. Len(s) - 1 /\ m \in 1 .. Len(u)
      BY <1>1, <1>2, <2>1
    <3>2. u[m] = s[m]
      BY <1>1, <2>1, <3>1
    <3> QED
      BY <3>1, <3>2
  <2>2. CASE m > k
    <3>1. m - 1 \in 1 .. Len(u) /\ ~(m - 1 < k) /\ (m - 1) + 1 = m
      BY <1>1, <1>2, <2>2
    <3>2. u[m - 1] = s[(m - 1) + 1]
      BY <1>1, <1>2, <3>1
    <3> QED
      BY <3>1, <3>2
  <2> QED
    BY <2>1, <2>2
<1> QED
  BY <1>3 DEF u

LEMMA OtherRulesStay ==
  ASSUME rules \in Seq(Text), NEW id \in Rule, NEW x \in Rule, x # id, InMemory(x)
  PROVE  \E n \in 1 .. Len(Without(id)) : Without(id)[n].def.id = x
<1>1. DOMAIN rules = 1 .. Len(rules)
  OBVIOUS
<1>2. PICK m \in 1 .. Len(rules) : rules[m].def.id = x
  BY <1>1 DEF InMemory
<1>3. CASE InMemory(id)
  <2>1. /\ Place(id) \in 1 .. Len(rules) /\ rules[Place(id)].def.id = id
        /\ Without(id) = RemoveAt(rules, Place(id))
    BY <1>1, <1>3 DEF InMemory, Place, Without
  <2> QED
    BY <1>2, <2>1, OthersStay
<1>4. CASE ~InMemory(id)
  BY <1>2, <1>4 DEF Without
<1> QED
  BY <1>3, <1>4

LEMMA OtherEntriesStay ==
  ASSUME index \in Seq(Entry) \cup {Torn}, NEW id \in Rule, NEW x \in Rule, x # id, Indexed(x)
  PROVE  \E n \in 1 .. Len(Unlisted(id)) : Unlisted(id)[n].id = x
<1>1. index \in Seq(Entry) /\ DOMAIN index = 1 .. Len(index) /\ index # Torn
  BY DEF Indexed
<1>2. PICK m \in 1 .. Len(index) : index[m].id = x
  BY <1>1 DEF Indexed
<1>3. CASE Indexed(id)
  <2>1. /\ Position(id) \in 1 .. Len(index) /\ index[Position(id)].id = id
        /\ Unlisted(id) = RemoveAt(index, Position(id))
    BY <1>1, <1>3 DEF Indexed, Position, Unlisted
  <2> QED
    BY <1>1, <1>2, <2>1, OthersStay
<1>4. CASE ~Indexed(id)
  BY <1>1, <1>2, <1>4 DEF Unlisted
<1> QED
  BY <1>3, <1>4

-----------------------------------------------------------------------------
(* The steps.                                                                *)

LEMMA KeptUntouched ==
  ASSUME KeptInv, UNCHANGED <<rules, boot, file, index, asked>>,
         \/ UNCHANGED web
         \/ web.op # "delete" /\ web'.op \in {"idle", "run", "base"}
  PROVE  KeptInv'
<1>1. /\ \A id \in Rule : Loadable(id)' = Loadable(id)
      /\ \A id \in Rule : InMemory(id)' = InMemory(id)
      /\ ToLoad' = ToLoad
  BY DEF Loadable, Indexed, InMemory, ToLoad
<1>2. Saved' /\ Same' /\ SoFar' /\ FromFlash' /\ Fits'
  BY DEF KeptInv, Saved, Same, SoFar, FromFlash, Fits, Loadable, Indexed, InMemory, ToLoad
<1>3. Loaded' /\ Room' /\ HalfSaved'
  <2>1. CASE UNCHANGED web
    BY <2>1 DEF KeptInv, Loaded, Room, HalfSaved, Loadable, Indexed, InMemory, Place
  <2>2. CASE web.op # "delete" /\ web'.op \in {"idle", "run", "base"}
    BY <2>2 DEF KeptInv, Loaded, Room, HalfSaved, Loadable, Indexed, InMemory
  <2> QED
    BY <2>1, <2>2
<1> QED
  BY <1>2, <1>3 DEF KeptInv

LEMMA KeptByOthers ==
  ASSUME KeptInv,
         \/ \E t \in Task : Engine(t)
         \/ \E a \in Attr, x \in Value : Report(a, x)
         \/ \E id \in Rule : Run(id)
         \/ \E id \in Rule, on \in BOOLEAN : Toggle(id, on)
         \/ ReportEnd \/ Base \/ BaseEnd \/ RunDone
  PROVE  KeptInv'
<1>1. CASE \E t \in Task : Engine(t)
  <2>1. UNCHANGED <<memory, flash, web, core, asked>>
    BY <1>1, Zenon DEF Engine, Walk, WalkEnd, Exchange, SortEnd, Perform, RunEnd
  <2> QED
    BY <2>1, KeptUntouched DEF memory, flash
<1>2. CASE ReportEnd \/ \E a \in Attr, x \in Value : Report(a, x)
  BY <1>2, KeptUntouched DEF Report, ReportEnd, memory, flash
<1>3. CASE \E id \in Rule : Run(id)
  BY <1>3, NoOneIsRequest, KeptUntouched DEF Run, Asks, memory, flash
<1>4. CASE \E id \in Rule, on \in BOOLEAN : Toggle(id, on)
  <2>1. PICK id \in Rule, on \in BOOLEAN : Toggle(id, on)
    BY <1>4
  <2>2. /\ web.op = "idle" /\ web'.op = "toggle" /\ UNCHANGED <<rules, boot, file, index, asked>>
    BY <2>1, NoOneIsRequest DEF Toggle, Asks, memory, flash
  <2> QED
    BY <2>2 DEF KeptInv, Saved, Same, Loaded, Room, SoFar, FromFlash, Fits, HalfSaved,
                Loadable, Indexed, InMemory, ToLoad
<1>5. CASE Base
  BY <1>5, NoOneIsRequest, KeptUntouched DEF Base, Asks, memory, flash
<1>6. CASE BaseEnd \/ RunDone
  BY <1>6, NoOneIsRequest, KeptUntouched DEF BaseEnd, RunDone, memory, flash
<1> QED
  BY <1>1, <1>2, <1>3, <1>4, <1>5, <1>6

LEMMA PostKeeps ==
  ASSUME StoreInv, KeptInv, StoreInv', NEW d \in Defs, NEW on \in BOOLEAN, Post(d, on)
  PROVE  KeptInv'
<1> DEFINE u == Without(d.id)  e == [def |-> d, on |-> on]
<1>1. /\ boot = 0 /\ web = NoOne /\ rules' = Append(u, e)
      /\ web' = [op |-> "post", id |-> d.id, on |-> on, step |-> "file"]
      /\ asked' = [asked EXCEPT ![d.id] = Nothing]
      /\ UNCHANGED <<boot, file, index>>
  BY DEF Post, Asks, flash
<1>2. d.id \in Rule /\ e \in Text /\ e.def = d
  BY Shapes DEF Text, Texts
<1>3. /\ u \in Seq(Text) /\ Len(u) \in Nat
      /\ \A n \in 1 .. Len(u) : u[n].def.id # d.id
      /\ \A n \in 1 .. Len(u) : \E m \in 1 .. Len(rules) : u[n] = rules[m]
      /\ \A a, b \in 1 .. Len(u) : u[a].def.id = u[b].def.id => a = b
  BY <1>2, WithoutRule DEF StoreInv, StoreTypes
<1>4. \A x \in Rule : x # d.id /\ InMemory(x) => \E n \in 1 .. Len(u) : u[n].def.id = x
  BY <1>2, OtherRulesStay DEF StoreInv, StoreTypes
<1> HIDE DEF u, e
<1>5. /\ rules' \in Seq(Text) /\ Len(rules') = Len(u) + 1 /\ DOMAIN rules' = 1 .. Len(u) + 1
      /\ rules'[Len(u) + 1] = e /\ \A n \in 1 .. Len(u) : rules'[n] = u[n]
  BY <1>1, <1>2, <1>3, LongerSeq
<1>6. web.op = "idle" /\ web'.op = "post" /\ web'.step = "file"
  BY <1>1, NoOneIsRequest
<1>7. Nothing \notin Defs /\ asked \in [Rule -> Defs \cup {Gone, Nothing}]
  BY Shapes DEF StoreInv, StoreTypes
<1>8. /\ Saved' /\ SoFar' /\ FromFlash' /\ HalfSaved' /\ Room'
  BY <1>1, <1>2, <1>6, <1>7 DEF KeptInv, Saved, SoFar, FromFlash, HalfSaved, Room, Loadable, Indexed
<1>9. Same'
  <2>1. ASSUME NEW k \in 1 .. Len(u) + 1, asked'[rules'[k].def.id] \in Defs
        PROVE  Parsed(rules'[k].def) = Parsed(asked'[rules'[k].def.id])
    <3>1. asked'[d.id] = Nothing
      BY <1>1, <1>2, <1>7
    <3>2. k \in 1 .. Len(u)
      BY <1>2, <1>3, <1>5, <1>7, <2>1, <3>1
    <3>3. rules'[k] = u[k] /\ u[k].def.id # d.id
      BY <1>3, <1>5, <3>2
    <3>4. PICK m \in 1 .. Len(rules) : u[k] = rules[m]
      BY <1>3, <3>2
    <3>5. asked'[rules[m].def.id] = asked[rules[m].def.id]
      BY <1>1, <3>3, <3>4
    <3> QED
      BY <2>1, <3>3, <3>4, <3>5 DEF KeptInv, Same
  <2> QED
    BY <1>5, <2>1 DEF Same
<1>10. Loaded'
  <2>1. ASSUME NEW x \in Rule, InMemory(x)
        PROVE  \E k \in DOMAIN rules' : rules'[k].def.id = x
    <3>1. CASE x = d.id
      BY <1>2, <1>3, <1>5, <3>1
    <3>2. CASE x # d.id
      <4>1. PICK n \in 1 .. Len(u) : u[n].def.id = x
        BY <1>4, <2>1, <3>2
      <4> QED
        BY <1>3, <1>5, <4>1
    <3> QED
      BY <3>1, <3>2
  <2> QED
    BY <1>1, <1>6, <2>1 DEF KeptInv, Loaded, Loadable, Indexed, InMemory
<1>11. Fits'
  BY <1>1 DEF KeptInv, Fits, ToLoad, Loadable, Indexed
<1> QED
  BY <1>8, <1>9, <1>10, <1>11 DEF KeptInv

LEMMA PostFileKeeps ==
  ASSUME StoreInv, KeptInv, StoreInv', PostFile
  PROVE  KeptInv'
<1> DEFINE id == web.id  r == rules[Place(id)]
<1>1. /\ web.op = "post" /\ web' = [web EXCEPT !.step = "index"]
      /\ file' = [file EXCEPT ![id] = r]
      /\ UNCHANGED <<rules, boot, index, asked>>
  BY DEF PostFile, At, Goes, memory
<1>2. /\ id \in Rule /\ InMemory(id) /\ asked[id] = Nothing /\ boot = 0
  BY <1>1 DEF StoreInv, Midway
<1>3. r \in Text
  BY <1>2 DEF InMemory, Place, StoreInv, StoreTypes
<1>4. web' \in Request /\ web'.op = "post" /\ web'.id = id
  BY <1>1 DEF StoreInv, StoreTypes, Request
<1>5. /\ file'[id] = r /\ \A x \in Rule : x # id => file'[x] = file[x]
  BY <1>1, <1>2 DEF StoreInv, StoreTypes
<1>6. Nothing \notin Defs
  BY Shapes
<1>7. Saved' /\ Same' /\ SoFar' /\ FromFlash' /\ Room'
  BY <1>1, <1>2, <1>4, <1>5, <1>6
     DEF KeptInv, Saved, Same, SoFar, FromFlash, Room, Loadable, Indexed
<1>8. HalfSaved'
  BY <1>1, <1>3, <1>4, <1>5 DEF HalfSaved, Place
<1>9. Loaded'
  BY <1>1, <1>2, <1>4, <1>5 DEF KeptInv, Loaded, Loadable, Indexed, InMemory
<1>10. Fits'
  BY <1>1, <1>2, <1>7, <1>9, UpPrimed
<1> QED
  BY <1>7, <1>8, <1>9, <1>10 DEF KeptInv

LEMMA PostIndexKeeps ==
  ASSUME StoreInv, KeptInv, StoreInv', PostIndex
  PROVE  KeptInv'
<1> DEFINE id == web.id  d == rules[Place(id)].def
           u == Unlisted(id)  e == [id |-> id, on |-> web.on]
<1>1. /\ web.op = "post" /\ web.step = "index" /\ web' = NoOne /\ index' = Append(u, e)
      /\ asked' = [asked EXCEPT ![id] = d]
      /\ UNCHANGED <<rules, boot, file>>
  BY DEF PostIndex, At, memory
<1>2. /\ id \in Rule /\ InMemory(id) /\ d \in Defs /\ boot = 0
      /\ file[id] \in Text /\ file[id].def = d
  BY <1>1 DEF StoreInv, Midway, KeptInv, HalfSaved
<1>3. e \in Entry /\ e.id = id
  BY <1>2 DEF StoreInv, StoreTypes, Request, Entry
<1>4. /\ u \in Seq(Entry) /\ Len(u) \in Nat
      /\ \A n \in 1 .. Len(u) : index # Torn /\ \E m \in DOMAIN index : u[n] = index[m]
  BY <1>2, UnlistedEntry DEF StoreInv, StoreTypes
<1>5. \A x \in Rule : x # id /\ Indexed(x) => \E n \in 1 .. Len(u) : u[n].id = x
  BY <1>2, OtherEntriesStay DEF StoreInv, StoreTypes
<1>6. /\ Place(id) \in DOMAIN rules /\ rules[Place(id)].def.id = id
      /\ \A k \in DOMAIN rules : rules[k].def.id = id => k = Place(id)
  BY <1>2 DEF InMemory, Place, StoreInv, OnePerId
<1> HIDE DEF u, e
<1>7. /\ index' \in Seq(Entry) /\ DOMAIN index' = 1 .. Len(u) + 1
      /\ index'[Len(u) + 1] = e /\ \A n \in 1 .. Len(u) : index'[n] = u[n]
  BY <1>1, <1>3, <1>4, LongerSeq
<1>8. index' # Torn
  BY <1>7, Shapes
<1>9. \A x \in Rule : (\E k \in DOMAIN index' : index'[k].id = x) <=> x = id \/ Indexed(x)
  <2>1. ASSUME NEW x \in Rule, NEW k \in 1 .. Len(u) + 1, index'[k].id = x
        PROVE  x = id \/ Indexed(x)
    BY <1>3, <1>4, <1>7, <2>1 DEF Indexed
  <2>2. ASSUME NEW x \in Rule, x = id \/ Indexed(x)
        PROVE  \E k \in 1 .. Len(u) + 1 : index'[k].id = x
    <3>1. CASE x = id
      BY <1>3, <1>4, <1>7, <3>1
    <3>2. CASE x # id
      <4>1. PICK n \in 1 .. Len(u) : u[n].id = x
        BY <1>5, <2>2, <3>2
      <4> QED
        BY <1>4, <1>7, <4>1
    <3> QED
      BY <3>1, <3>2
  <2> QED
    BY <1>7, <2>1, <2>2
<1>10. \A x \in Rule : Loadable(x)' <=> (x = id \/ Indexed(x)) /\ file[x] \in Text
  BY <1>1, <1>8, <1>9 DEF Loadable, Indexed
<1>11. asked'[id] = d /\ \A x \in Rule : x # id => asked'[x] = asked[x]
  BY <1>1, <1>2 DEF StoreInv, StoreTypes
<1>12. web'.op = "idle"
  BY <1>1, NoOneIsRequest
<1> HIDE DEF d, id
<1>13. Saved'
  BY <1>1, <1>2, <1>10, <1>11 DEF KeptInv, Saved, Loadable
<1>14. Same'
  <2>1. ASSUME NEW k \in 1 .. Len(rules), asked'[rules[k].def.id] \in Defs
        PROVE  Parsed(rules[k].def) = Parsed(asked'[rules[k].def.id])
    <3>1. k \in DOMAIN rules /\ rules[k] \in Text
      BY DEF StoreInv, StoreTypes
    <3>2. rules[k].def.id \in Rule
      <4>1. rules[k].def \in Texts
        BY <3>1 DEF Text
      <4> QED
        BY <4>1, Constants
    <3>3. CASE rules[k].def.id = id
      BY <1>6, <1>11, <3>1, <3>3 DEF d
    <3>4. CASE rules[k].def.id # id
      BY <1>11, <2>1, <3>2, <3>4 DEF KeptInv, Same
    <3> QED
      BY <3>3, <3>4
  <2> QED
    BY <1>1, <2>1 DEF Same
<1>15. Loaded'
  BY <1>1, <1>2, <1>10, <1>12 DEF KeptInv, Loaded, Loadable, InMemory, id
<1>16. Room' /\ SoFar' /\ FromFlash' /\ HalfSaved'
  BY <1>1, <1>2, <1>12 DEF Room, SoFar, FromFlash, HalfSaved
<1>17. Fits'
  BY <1>1, <1>2, <1>15, <1>16, UpPrimed
<1> QED
  BY <1>13, <1>14, <1>15, <1>16, <1>17 DEF KeptInv

LEMMA DeleteKeeps ==
  ASSUME StoreInv, KeptInv, StoreInv', NEW id \in Rule, Delete(id)
  PROVE  KeptInv'
<1> DEFINE u == Without(id)
<1>1. /\ boot = 0 /\ web = NoOne /\ rules' = u /\ InMemory(id)
      /\ web' = [op |-> "delete", id |-> id, on |-> FALSE, step |-> "file"]
      /\ asked' = [asked EXCEPT ![id] = Nothing]
      /\ UNCHANGED <<boot, file, index>>
  BY DEF Delete, Asks, flash
<1>2. /\ u \in Seq(Text) /\ Len(u) \in Nat
      /\ \A n \in 1 .. Len(u) : u[n].def.id # id
      /\ \A n \in 1 .. Len(u) : \E m \in 1 .. Len(rules) : u[n] = rules[m]
  BY WithoutRule DEF StoreInv, StoreTypes
<1>3. \A x \in Rule : x # id /\ InMemory(x) => \E n \in 1 .. Len(u) : u[n].def.id = x
  BY OtherRulesStay DEF StoreInv, StoreTypes
<1>4. Len(u) < MaxRules
  <2>1. Place(id) \in 1 .. Len(rules) /\ u = RemoveAt(rules, Place(id))
    BY <1>1 DEF InMemory, Place, Without, StoreInv, StoreTypes
  <2> HIDE DEF u
  <2>2. Rest(u, rules, Place(id))
    BY <2>1, RestOfSeq DEF StoreInv, StoreTypes
  <2> QED
    BY <2>2, Shapes DEF Rest, StoreInv, StoreTypes
<1> HIDE DEF u
<1>5. DOMAIN u = 1 .. Len(u)
  BY <1>2
<1>6. web.op = "idle" /\ web'.op = "delete" /\ web'.id = id
  BY <1>1, NoOneIsRequest
<1>7. Nothing \notin Defs /\ asked \in [Rule -> Defs \cup {Gone, Nothing}]
  BY Shapes DEF StoreInv, StoreTypes
<1>8. Saved' /\ SoFar' /\ FromFlash' /\ HalfSaved' /\ Room'
  BY <1>1, <1>4, <1>6, <1>7 DEF KeptInv, Saved, SoFar, FromFlash, HalfSaved, Room, Loadable, Indexed
<1>9. Same'
  <2>1. ASSUME NEW k \in 1 .. Len(u), asked'[u[k].def.id] \in Defs
        PROVE  Parsed(u[k].def) = Parsed(asked'[u[k].def.id])
    <3>1. PICK m \in 1 .. Len(rules) : u[k] = rules[m]
      BY <1>2
    <3>2. asked'[rules[m].def.id] = asked[rules[m].def.id]
      BY <1>1, <1>2, <3>1
    <3> QED
      BY <2>1, <3>1, <3>2 DEF KeptInv, Same
  <2> QED
    BY <1>1, <2>1 DEF Same
<1>10. Loaded'
  BY <1>1, <1>3, <1>5, <1>6 DEF KeptInv, Loaded, Loadable, Indexed, InMemory
<1>11. Fits'
  BY <1>1 DEF KeptInv, Fits, ToLoad, Loadable, Indexed
<1> QED
  BY <1>8, <1>9, <1>10, <1>11 DEF KeptInv

LEMMA DeleteFileKeeps ==
  ASSUME StoreInv, KeptInv, StoreInv', DeleteFile
  PROVE  KeptInv'
<1>1. /\ web.op = "delete" /\ web' = [web EXCEPT !.step = "index"]
      /\ file' = [file EXCEPT ![web.id] = NoFile]
      /\ UNCHANGED <<rules, boot, index, asked>>
  BY DEF DeleteFile, At, Goes, memory
<1>2. /\ web.id \in Rule /\ asked[web.id] = Nothing /\ boot = 0
  BY <1>1 DEF StoreInv, Midway
<1>3. web'.op = "delete" /\ web'.id = web.id
  BY <1>1 DEF StoreInv, StoreTypes, Request
<1>4. /\ Nothing \notin Defs /\ \A x \in Rule : file'[x] \in Text => file'[x] = file[x]
      /\ \A x \in Rule : x # web.id => file'[x] = file[x]
  BY <1>1, Shapes DEF StoreInv, StoreTypes
<1>5. Saved' /\ Same' /\ SoFar' /\ FromFlash' /\ HalfSaved' /\ Room'
  BY <1>1, <1>2, <1>3, <1>4
     DEF KeptInv, Saved, Same, SoFar, FromFlash, HalfSaved, Room, Loadable, Indexed
<1>6. Loaded'
  BY <1>1, <1>2, <1>3, <1>4 DEF KeptInv, Loaded, Loadable, Indexed, InMemory
<1>7. Fits'
  BY <1>1, <1>2, <1>5, <1>6, UpPrimed
<1> QED
  BY <1>5, <1>6, <1>7 DEF KeptInv

LEMMA DeleteIndexKeeps ==
  ASSUME StoreInv, KeptInv, StoreInv', DeleteIndex
  PROVE  KeptInv'
<1> DEFINE id == web.id  u == Unlisted(id)
<1>1. /\ web.op = "delete" /\ web.step = "index" /\ web' = NoOne
      /\ index' = IF index = Torn THEN Torn ELSE u
      /\ asked' = [asked EXCEPT ![id] = Gone]
      /\ UNCHANGED <<rules, boot, file>>
  BY DEF DeleteIndex, At, memory
<1>2. /\ id \in Rule /\ file[id] = NoFile /\ boot = 0
  BY <1>1 DEF StoreInv, Midway
<1>3. /\ u \in Seq(Entry)
      /\ \A n \in 1 .. Len(u) : index # Torn /\ \E m \in DOMAIN index : u[n] = index[m]
  BY <1>2, UnlistedEntry DEF StoreInv, StoreTypes
<1>4. \A x \in Rule : x # id /\ Indexed(x) => \E n \in 1 .. Len(u) : u[n].id = x
  BY <1>2, OtherEntriesStay DEF StoreInv, StoreTypes
<1> HIDE DEF u
<1>5. DOMAIN u = 1 .. Len(u) /\ u # Torn
  BY <1>3, Shapes
<1>6. \A x \in Rule : x # id =>
        (index' # Torn /\ (\E k \in DOMAIN index' : index'[k].id = x) <=> Indexed(x))
  BY <1>1, <1>3, <1>4, <1>5 DEF Indexed
<1>7. NoFile \notin Text /\ Gone \notin Defs /\ asked \in [Rule -> Defs \cup {Gone, Nothing}]
  BY Shapes DEF StoreInv, StoreTypes
<1>8. \A x \in Rule : Loadable(x)' <=> Loadable(x)
  BY <1>1, <1>2, <1>6, <1>7 DEF Loadable, Indexed
<1>9. asked'[id] = Gone /\ \A x \in Rule : x # id => asked'[x] = asked[x]
  BY <1>1, <1>2, <1>7
<1>10. web'.op = "idle"
  BY <1>1, NoOneIsRequest
<1>11. Saved'
  BY <1>1, <1>7, <1>8, <1>9 DEF KeptInv, Saved
<1>12. Same'
  <2>1. ASSUME NEW k \in 1 .. Len(rules), asked'[rules[k].def.id] \in Defs
        PROVE  asked'[rules[k].def.id] = asked[rules[k].def.id]
    BY <1>1, <1>7, <1>9, <2>1
  <2> QED
    BY <1>1, <2>1 DEF KeptInv, Same
<1>13. Loaded'
  <2>1. ~Loadable(id)
    BY <1>2, <1>7 DEF Loadable
  <2> QED
    BY <1>1, <1>2, <1>8, <1>10, <2>1 DEF KeptInv, Loaded, InMemory
<1>14. Room' /\ SoFar' /\ FromFlash' /\ HalfSaved'
  BY <1>1, <1>2, <1>10 DEF Room, SoFar, FromFlash, HalfSaved
<1>15. Fits'
  BY <1>1, <1>2, <1>13, <1>14, UpPrimed
<1> QED
  BY <1>11, <1>12, <1>13, <1>14, <1>15 DEF KeptInv

LEMMA ToggleFileKeeps ==
  ASSUME StoreInv, KeptInv, StoreInv', ToggleFile
  PROVE  KeptInv'
<1> DEFINE id == web.id
<1>1. /\ web.op = "toggle" /\ web.step = "file" /\ web' = [web EXCEPT !.step = "index"]
      /\ \/ file' = [file EXCEPT ![id].on = web.on] /\ UNCHANGED asked
         \/ file' = [file EXCEPT ![id] = Torn] /\ asked' = [asked EXCEPT ![id] = Nothing]
      /\ UNCHANGED <<rules, boot, index>>
  BY DEF ToggleFile, At, Goes, memory
<1>2. /\ id \in Rule /\ file[id] \in Text /\ boot = 0 /\ web.on \in BOOLEAN
  BY <1>1 DEF StoreInv, StoreTypes, Midway, Request
<1>3. web'.op = "toggle"
  BY <1>1 DEF StoreInv, StoreTypes, Request
<1>4. Nothing \notin Defs /\ Torn \notin Text /\ asked \in [Rule -> Defs \cup {Gone, Nothing}]
      /\ file \in [Rule -> Text \cup {NoFile, Torn}]
  BY Shapes DEF StoreInv, StoreTypes
<1>5. /\ \A x \in Rule : file'[x] \in Text => file[x] \in Text
      /\ \A x \in Rule : asked'[x] \in Defs /\ file[x] \in Text =>
           asked'[x] = asked[x] /\ file'[x] \in Text /\ file'[x].def = file[x].def
  <2>1. [file[id] EXCEPT !.on = web.on] \in Text
        /\ [file[id] EXCEPT !.on = web.on].def = file[id].def
    BY <1>2 DEF Text
  <2>2. CASE file' = [file EXCEPT ![id].on = web.on] /\ UNCHANGED asked
    BY <1>2, <1>4, <2>1, <2>2
  <2>3. CASE file' = [file EXCEPT ![id] = Torn] /\ asked' = [asked EXCEPT ![id] = Nothing]
    BY <1>2, <1>4, <2>3
  <2> QED
    BY <1>1, <2>2, <2>3
<1>6. \A x \in Rule : asked'[x] \in Defs => asked'[x] = asked[x]
  BY <1>1, <1>4
<1> HIDE DEF id
<1>7. Saved'
  BY <1>1, <1>5, <1>6 DEF KeptInv, Saved, Loadable, Indexed
<1>8. Same'
  <2>1. ASSUME NEW k \in 1 .. Len(rules), asked'[rules[k].def.id] \in Defs
        PROVE  asked'[rules[k].def.id] = asked[rules[k].def.id]
    <3>1. rules[k].def.id \in Rule
      <4>1. rules[k] \in Text
        BY DEF StoreInv, StoreTypes
      <4>2. rules[k].def \in Texts
        BY <4>1 DEF Text
      <4> QED
        BY <4>2, Constants
    <3> QED
      BY <1>6, <2>1, <3>1
  <2> QED
    BY <1>1, <2>1 DEF KeptInv, Same
<1>9. Loaded'
  BY <1>1, <1>2, <1>3, <1>5 DEF KeptInv, Loaded, Loadable, Indexed, InMemory
<1>10. Room' /\ SoFar' /\ FromFlash' /\ HalfSaved'
  BY <1>1, <1>2, <1>3 DEF Room, SoFar, FromFlash, HalfSaved
<1>11. Fits'
  BY <1>1, <1>2, <1>9, <1>10, UpPrimed
<1> QED
  BY <1>7, <1>8, <1>9, <1>10, <1>11 DEF KeptInv

LEMMA ToggleIndexKeeps ==
  ASSUME StoreInv, KeptInv, StoreInv', ToggleIndex
  PROVE  KeptInv'
<1> DEFINE p == Position(web.id)
<1>1. /\ web.op = "toggle" /\ web' = NoOne
      /\ \/ index' = [index EXCEPT ![p].on = web.on] /\ UNCHANGED asked
         \/ /\ index' = Torn
            /\ asked' = [id \in Rule |-> IF asked[id] \in Defs THEN Nothing ELSE asked[id]]
      /\ UNCHANGED <<rules, boot, file>>
  BY DEF ToggleIndex, At, memory
<1>2. /\ web.id \in Rule /\ Indexed(web.id) /\ boot = 0
  BY <1>1 DEF StoreInv, Midway
<1>3. index \in Seq(Entry) /\ p \in DOMAIN index /\ index # Torn
  BY <1>2 DEF Indexed, Position, StoreInv, StoreTypes
<1> HIDE DEF p
<1>4. Nothing \notin Defs
  BY Shapes
<1>5. web'.op = "idle"
  BY <1>1, NoOneIsRequest
<1>6. \/ asked' = asked /\ \A x \in Rule : Loadable(x)' <=> Loadable(x)
      \/ /\ \A x \in Rule : asked'[x] \notin Defs
         /\ \A x \in Rule : ~Loadable(x)'
  <2>1. CASE index' = [index EXCEPT ![p].on = web.on] /\ UNCHANGED asked
    <3>1. index[p] \in Entry
      BY <1>3
    <3>2. [index[p] EXCEPT !.on = web.on].id = index[p].id
      BY <3>1 DEF Entry
    <3>3. DOMAIN index' = DOMAIN index /\ \A k \in DOMAIN index : index'[k].id = index[k].id
      BY <1>3, <2>1, <3>2
    <3>4. index' # Torn
      <4>1. [index[p] EXCEPT !.on = web.on] \in Entry
        BY <1>1, <3>1 DEF Entry, StoreInv, StoreTypes, Request
      <4>2. index' \in Seq(Entry)
        BY <1>3, <2>1, <4>1
      <4> QED
        BY <4>2, Shapes
    <3> QED
      BY <1>1, <1>3, <2>1, <3>3, <3>4 DEF Loadable, Indexed
  <2>2. CASE /\ index' = Torn
             /\ asked' = [id \in Rule |-> IF asked[id] \in Defs THEN Nothing ELSE asked[id]]
    BY <1>4, <2>2 DEF Loadable, Indexed
  <2> QED
    BY <1>1, <2>1, <2>2
<1>7. Saved'
  BY <1>1, <1>6 DEF KeptInv, Saved
<1>8. Same'
  <2>1. ASSUME NEW k \in 1 .. Len(rules) PROVE rules[k].def.id \in Rule
    <3>1. rules[k] \in Text
      BY DEF StoreInv, StoreTypes
    <3>2. rules[k].def \in Texts
      BY <3>1 DEF Text
    <3> QED
      BY <3>2, Constants
  <2> QED
    BY <1>1, <1>6, <2>1 DEF KeptInv, Same
<1>9. Loaded'
  BY <1>1, <1>2, <1>5, <1>6 DEF KeptInv, Loaded, InMemory
<1>10. Room' /\ SoFar' /\ FromFlash' /\ HalfSaved'
  BY <1>1, <1>2, <1>5 DEF Room, SoFar, FromFlash, HalfSaved
<1>11. Fits'
  BY <1>1, <1>2, <1>9, <1>10, UpPrimed
<1> QED
  BY <1>7, <1>8, <1>9, <1>10, <1>11 DEF KeptInv

LEMMA LoadKeeps ==
  ASSUME StoreInv, KeptInv, StoreInv', Load
  PROVE  KeptInv'
<1> DEFINE e == index[boot]  r == [def |-> Parsed(file[e.id].def), on |-> e.on]
<1>1. /\ boot > 0 /\ index # Torn /\ boot <= Len(index) /\ boot' = boot + 1
      /\ rules' = IF file[e.id] \in Text /\ Len(rules) < MaxRules
                    THEN Append(rules, r) ELSE rules
      /\ UNCHANGED <<file, index, web, asked>>
  BY DEF Load, flash
<1>2. /\ index \in Seq(Entry) /\ DOMAIN index = 1 .. Len(index) /\ Len(index) \in Nat
      /\ boot \in Nat /\ boot \in DOMAIN index
      /\ rules \in Seq(Text) /\ DOMAIN rules = 1 .. Len(rules) /\ Len(rules) \in Nat
  BY <1>1 DEF StoreInv, StoreTypes
<1>3. e.id \in Rule
  <2>1. e \in Entry
    BY <1>2
  <2> QED
    BY <2>1 DEF Entry
<1>4. web.op = "idle" /\ boot' > 0
  BY <1>1, <1>2 DEF StoreInv, Midway
<1> HIDE DEF e
<1>5. \A x : Loadable(x)' <=> Loadable(x)
  BY <1>1 DEF Loadable, Indexed
<1>6. Saved' /\ Loaded' /\ Room' /\ HalfSaved' /\ Fits'
  <2>1. ToLoad' = ToLoad
    BY <1>5 DEF ToLoad
  <2> QED
    BY <1>1, <1>2, <1>4, <1>5, <2>1 DEF KeptInv, Saved, Loaded, Room, HalfSaved, Fits
<1>7. \A n \in 1 .. Len(index) : n < boot + 1 => n < boot \/ n = boot
  BY <1>2
<1>8. CASE ~(file[e.id] \in Text)
  <2>1. rules' = rules
    BY <1>1, <1>8
  <2>2. Same'
    BY <1>1, <2>1 DEF KeptInv, Same
  <2>3. FromFlash'
    <3>1. \A k \in 1 .. Len(rules) : Loadable(rules[k].def.id)
      BY <1>1 DEF KeptInv, FromFlash
    <3> QED
      BY <1>5, <2>1, <3>1 DEF FromFlash
  <2>4. SoFar'
    BY <1>1, <1>2, <1>7, <1>8, <2>1 DEF KeptInv, SoFar, InMemory, e
  <2> QED
    BY <1>6, <2>2, <2>3, <2>4 DEF KeptInv
<1>9. CASE file[e.id] \in Text
  <2>1. Loadable(e.id)
    BY <1>1, <1>2, <1>9 DEF Loadable, Indexed, e
  <2>2. ~InMemory(e.id)
    <3>1. \A k \in 1 .. Len(rules) : \E n \in 1 .. Len(index) :
            n < boot /\ index[n].id = rules[k].def.id
      BY <1>1 DEF StoreInv, Loading
    <3>2. \A m, n \in DOMAIN index : index[m].id = index[n].id => m = n
      BY <1>1 DEF StoreInv, OnePerId
    <3>3. ASSUME NEW k \in 1 .. Len(rules) PROVE rules[k].def.id # e.id
      <4>1. PICK n \in 1 .. Len(index) : n < boot /\ index[n].id = rules[k].def.id
        BY <3>1
      <4>2. index[n].id # index[boot].id
        BY <1>2, <3>2, <4>1
      <4> QED
        BY <4>1, <4>2 DEF e
    <3> QED
      BY <1>2, <3>3 DEF InMemory
  <2>3. Len(rules) < MaxRules
    BY <1>1, <1>3, <2>1, <2>2, OneMore DEF KeptInv, FromFlash
  <2>4. rules' = Append(rules, r)
    BY <1>1, <1>9, <2>3
  <2>5. file[e.id].def \in Texts /\ file[e.id].def.id = e.id
    BY <1>3, <1>9 DEF Text, StoreInv, FilesOwn
  <2>6. r \in Text /\ r.def = Parsed(file[e.id].def) /\ r.def.id = e.id
    <3>1. e \in Entry
      BY <1>2 DEF e
    <3> QED
      BY <2>5, <3>1, Constants DEF Text, Entry
  <2> HIDE DEF r
  <2>7. /\ Len(rules') = Len(rules) + 1 /\ DOMAIN rules' = 1 .. Len(rules) + 1
        /\ rules'[Len(rules) + 1] = r /\ \A n \in 1 .. Len(rules) : rules'[n] = rules[n]
    BY <1>2, <2>4, <2>6, LongerSeq
  <2>8. \A k \in 1 .. Len(rules') : k \in 1 .. Len(rules) \/ k = Len(rules) + 1
    BY <1>2, <2>7
  <2>9. Same'
    <3>1. ASSUME NEW k \in 1 .. Len(rules'), asked[rules'[k].def.id] \in Defs
          PROVE  Parsed(rules'[k].def) = Parsed(asked[rules'[k].def.id])
      <4>1. CASE k \in 1 .. Len(rules)
        BY <2>7, <3>1, <4>1 DEF KeptInv, Same
      <4>2. CASE k = Len(rules) + 1
        <5>1. Parsed(file[e.id].def) = Parsed(asked[e.id])
          BY <1>3, <2>6, <2>7, <3>1, <4>2 DEF KeptInv, Saved
        <5> QED
          BY <2>5, <2>6, <2>7, <4>2, <5>1, ParsedTwice
      <4> QED
        BY <2>8, <4>1, <4>2
    <3> QED
      BY <1>1, <3>1 DEF Same
  <2>10. FromFlash'
    <3>1. ASSUME NEW k \in 1 .. Len(rules') PROVE Loadable(rules'[k].def.id)
      BY <1>1, <2>1, <2>6, <2>7, <2>8 DEF KeptInv, FromFlash
    <3> QED
      BY <1>5, <3>1 DEF FromFlash
  <2>11. SoFar'
    <3>1. ASSUME NEW n \in 1 .. Len(index), n < boot + 1, file[index[n].id] \in Text
          PROVE  \E k \in DOMAIN rules' : rules'[k].def.id = index[n].id
      <4>1. CASE n < boot
        <5>1. InMemory(index[n].id)
          BY <1>1, <3>1, <4>1 DEF KeptInv, SoFar
        <5>2. PICK k \in 1 .. Len(rules) : rules[k].def.id = index[n].id
          BY <1>2, <5>1 DEF InMemory
        <5> QED
          BY <1>2, <2>7, <5>2
      <4>2. CASE n = boot
        BY <1>2, <2>6, <2>7, <4>2 DEF e
      <4> QED
        BY <1>7, <3>1, <4>1, <4>2
    <3> QED
      BY <1>1, <3>1 DEF SoFar, InMemory
  <2> QED
    BY <1>6, <2>9, <2>10, <2>11 DEF KeptInv
<1> QED
  BY <1>8, <1>9

LEMMA LoadEndKeeps ==
  ASSUME StoreInv, KeptInv, StoreInv', LoadEnd
  PROVE  KeptInv'
<1>1. /\ boot > 0 /\ boot' = 0 /\ (index # Torn => boot > Len(index))
      /\ UNCHANGED <<rules, file, index, web, asked>>
  BY DEF LoadEnd, flash
<1>2. \A x : Loadable(x)' <=> Loadable(x)
  BY <1>1 DEF Loadable, Indexed
<1>3. Loaded'
  <2>1. ASSUME NEW x \in Rule, Loadable(x) PROVE InMemory(x)
    <3>1. index # Torn /\ index \in Seq(Entry) /\ DOMAIN index = 1 .. Len(index)
          /\ Len(index) \in Nat /\ boot \in Nat
      BY <2>1 DEF Loadable, Indexed, StoreInv, StoreTypes
    <3>2. PICK n \in 1 .. Len(index) : index[n].id = x
      BY <2>1, <3>1 DEF Loadable, Indexed
    <3>3. n < boot
      BY <1>1, <3>1
    <3> QED
      BY <1>1, <2>1, <3>1, <3>2, <3>3 DEF KeptInv, SoFar, Loadable
  <2> QED
    BY <1>1, <1>2, <2>1 DEF Loaded, InMemory
<1>4. ToLoad' = ToLoad
  BY <1>2 DEF ToLoad
<1>5. Saved' /\ Same' /\ Room' /\ SoFar' /\ FromFlash' /\ Fits' /\ HalfSaved'
  BY <1>1, <1>2, <1>4 DEF KeptInv, Saved, Same, Room, SoFar, FromFlash, Fits, HalfSaved, Place
<1> QED
  BY <1>3, <1>5 DEF KeptInv

LEMMA CrashKeeps ==
  ASSUME StoreInv, KeptInv, StoreInv', NEW cut \in BOOLEAN, NEW old \in [Attr \cup Var -> Value],
         NEW on \in SUBSET Behaviour, Crash(cut, old, on)
  PROVE  KeptInv'
<1>1. /\ file' = IF cut /\ web.op # "delete" /\ web.step = "file"
                   THEN [file EXCEPT ![web.id] = Torn] ELSE file
      /\ index' = IF cut /\ web.step = "index" THEN Torn ELSE index
      /\ asked' = [id \in Rule |->
                     IF asked[id] # Gone /\ (index' = Torn \/ file'[id] = Torn)
                       THEN Nothing ELSE asked[id]]
      /\ rules' = <<>> /\ boot' = 1 /\ web' = NoOne
  BY DEF Crash
<1>2. /\ \A x \in Rule : file'[x] = file[x] \/ file'[x] = Torn
      /\ Torn \notin Text /\ Nothing \notin Defs /\ Gone \notin Defs
  BY <1>1, Shapes DEF StoreInv, StoreTypes
<1>3. index' = index \/ index' = Torn
  BY <1>1
<1>4. \A x \in Rule : asked'[x] \in Defs =>
        asked'[x] = asked[x] /\ index' # Torn /\ file'[x] # Torn
  BY <1>1, <1>2
<1>5. \A x \in Rule : Loadable(x)' => Loadable(x)
  BY <1>2, <1>3 DEF Loadable, Indexed
<1>6. Saved'
  BY <1>2, <1>3, <1>4 DEF KeptInv, Saved, Loadable, Indexed
<1>7. Len(rules') = 0 /\ web'.op = "idle"
  BY <1>1, NoOneIsRequest
<1>8. Same' /\ Loaded' /\ Room' /\ FromFlash' /\ HalfSaved'
  BY <1>1, <1>7 DEF Same, Loaded, Room, FromFlash, HalfSaved
<1>9. SoFar'
  <2>1. \A n \in 1 .. Len(index') : ~(n < 1)
    OBVIOUS
  <2> QED
    BY <1>1, <2>1 DEF SoFar
<1>10. Fits'
  <2>1. ToLoad' \subseteq ToLoad
    BY <1>5 DEF ToLoad
  <2>2. IsFiniteSet(ToLoad) /\ Cardinality(ToLoad) <= MaxRules /\ MaxRules \in Nat
    BY Shapes DEF KeptInv, Fits
  <2>3. IsFiniteSet(ToLoad') /\ Cardinality(ToLoad') <= Cardinality(ToLoad)
    BY <2>1, <2>2, FS_Subset
  <2>4. Cardinality(ToLoad) \in Nat /\ Cardinality(ToLoad') \in Nat
    BY <2>2, <2>3, FS_CardinalityType
  <2> QED
    BY <2>2, <2>3, <2>4 DEF Fits
<1> QED
  BY <1>6, <1>8, <1>9, <1>10 DEF KeptInv

LEMMA KeptStarts == Init => KeptInv
<1> SUFFICES ASSUME Init PROVE KeptInv
  OBVIOUS
<1>1. /\ rules = <<>> /\ boot = 1 /\ file = FlashFiles /\ index = FlashRules
      /\ web = NoOne /\ asked = [id \in Rule |-> Nothing]
  BY DEF Init
<1>2. Len(rules) = 0 /\ web.op = "idle" /\ Nothing \notin Defs
  BY <1>1, NoOneIsRequest, Shapes
<1>3. \A n \in 1 .. Len(index) : ~(n < 1)
  OBVIOUS
<1>4. Saved /\ Same /\ Loaded /\ Room /\ SoFar /\ FromFlash /\ HalfSaved
  BY <1>1, <1>2, <1>3 DEF Saved, Same, Loaded, Room, SoFar, FromFlash, HalfSaved
<1>5. Fits
  <2> DEFINE K == {m \in DOMAIN FlashRules : FlashFiles[FlashRules[m].id] \in Text}
             I == {FlashRules[n].id : n \in K}
             f == [n \in K |-> FlashRules[n].id]
  <2>1. FlashRules \in Seq(Entry) /\ DOMAIN FlashRules = 1 .. Len(FlashRules)
        /\ Len(FlashRules) \in Nat
    BY InFlash
  <2>2. IsFiniteSet(1 .. Len(FlashRules))
    BY <2>1, FS_Interval
  <2>3. IsFiniteSet(K)
    BY <2>1, <2>2, FS_Subset
  <2>4. f \in Surjection(K, I)
    BY DEF Surjection
  <2>5. IsFiniteSet(I)
    BY <2>3, <2>4, FS_Surjection
  <2>6. ToLoad \subseteq I
    BY <1>1 DEF ToLoad, Loadable, Indexed
  <2>7. Cardinality(I) <= MaxRules
    BY InFlash
  <2> HIDE DEF I
  <2>8. IsFiniteSet(ToLoad) /\ Cardinality(ToLoad) <= Cardinality(I)
    BY <2>5, <2>6, FS_Subset
  <2>9. Cardinality(ToLoad) \in Nat /\ Cardinality(I) \in Nat /\ MaxRules \in Nat
    BY <2>5, <2>8, FS_CardinalityType, Shapes
  <2> QED
    BY <2>7, <2>8, <2>9 DEF Fits
<1> QED
  BY <1>4, <1>5 DEF KeptInv

LEMMA KeptSteps == IInv /\ KeptInv /\ IInv' /\ [Next]_vars => KeptInv'
<1> SUFFICES ASSUME StoreInv, KeptInv, StoreInv', [Next]_vars
             PROVE  KeptInv'
  BY DEF IInv
<1>1. CASE \/ \E t \in Task : Engine(t)
           \/ \E a \in Attr, x \in Value : Report(a, x)
           \/ \E id \in Rule : Run(id)
           \/ \E id \in Rule, on \in BOOLEAN : Toggle(id, on)
           \/ ReportEnd \/ Base \/ BaseEnd \/ RunDone
  BY <1>1, KeptByOthers
<1>2. CASE \E d \in Defs, on \in BOOLEAN : Post(d, on)
  BY <1>2, PostKeeps
<1>3. CASE \E id \in Rule : Delete(id)
  BY <1>3, DeleteKeeps
<1>4. CASE PostFile \/ PostIndex \/ DeleteFile \/ DeleteIndex \/ ToggleFile \/ ToggleIndex
  BY <1>4, PostFileKeeps, PostIndexKeeps, DeleteFileKeeps, DeleteIndexKeeps,
     ToggleFileKeeps, ToggleIndexKeeps
<1>5. CASE \E cut \in BOOLEAN, old \in [Attr \cup Var -> Value], on \in SUBSET Behaviour :
             Crash(cut, old, on)
  BY <1>5, CrashKeeps
<1>6. CASE Load \/ LoadEnd
  BY <1>6, LoadKeeps, LoadEndKeeps
<1>7. CASE UNCHANGED vars
  BY <1>7, KeptUntouched DEF vars
<1> QED
  BY <1>1, <1>2, <1>3, <1>4, <1>5, <1>6, <1>7 DEF Next, Answer, Boot

\* A rule the answer to POST said was saved is in flash and, between starts, in
\* memory, until it is edited or a torn write takes it: for any number of rules
\* and any history of requests, power failures and loads.
THEOREM AnsweredStayKept == Spec => []AnsweredKept
<1>1. StoreInv /\ KeptInv => AnsweredKept
  <2> SUFFICES ASSUME StoreInv, KeptInv, NEW id \in Rule, asked[id] \in Defs, ~Busy(id)
               PROVE  /\ Indexed(id) /\ file[id] \in Text
                      /\ Parsed(file[id].def) = Parsed(asked[id])
                      /\ boot = 0 =>
                           InMemory(id) /\ Parsed(rules[Place(id)].def) = Parsed(asked[id])
    BY DEF AnsweredKept
  <2>1. Loadable(id) /\ Parsed(file[id].def) = Parsed(asked[id])
    BY DEF KeptInv, Saved
  <2>2. ASSUME boot = 0
        PROVE  InMemory(id) /\ Parsed(rules[Place(id)].def) = Parsed(asked[id])
    <3>1. InMemory(id)
      BY <2>1, <2>2 DEF KeptInv, Loaded, Busy
    <3>2. Place(id) \in 1 .. Len(rules) /\ rules[Place(id)].def.id = id
      BY <3>1 DEF InMemory, Place, StoreInv, StoreTypes
    <3> QED
      BY <3>1, <3>2 DEF KeptInv, Same
  <2> QED
    BY <2>1, <2>2 DEF Loadable
<1>2. Init => IInv /\ KeptInv
  BY Starts, KeptStarts
<1>3. IInv /\ KeptInv /\ [Next]_vars => IInv' /\ KeptInv'
  BY Steps, KeptSteps
<1>4. IInv => StoreInv
  BY DEF IInv
<1> QED
  BY <1>1, <1>2, <1>3, <1>4, PTL DEF Spec
=============================================================================
