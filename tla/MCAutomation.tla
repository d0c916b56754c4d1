---------------------------- MODULE MCAutomation -----------------------------
(* Small sites for TLC.                                                      *)
EXTENDS Automation

CONSTANTS a, b, v, w, r1, r2, r3, r4, b1, NoBehaviour, manual

Def(id, cause, want, prio, first, timed, every, allow, ops) ==
  [id |-> id, cause |-> cause, want |-> want, prio |-> prio, first |-> first,
   timed |-> timed, every |-> every, allow |-> allow, ops |-> ops]

Send       == [do |-> "send"]
Set(x, n)  == [do |-> "set", var |-> x, to |-> n]
When(s, x) == [of |-> s, want |-> {x}]
On(d)      == [def |-> d, on |-> TRUE]
Listed(id) == [id |-> id, on |-> TRUE]

-----------------------------------------------------------------------------
(* The engine: an attribute with rules, one with a behaviour, a variable v    *)
(* below them and w below v.  Three rules have one cause, and the walk finds  *)
(* them in the wrong order; two of them set off the fourth.                   *)

TwoAttrs == {a, b}
TwoVars  == {v, w}
Depth    == [s \in {a, b, v, w, manual} |-> IF s = v THEN 1 ELSE IF s = w THEN 2 ELSE 0]

FourRules == {r1, r2, r3, r4}
Low   == Def(r1, a, {1}, 1, FALSE, FALSE, FALSE, <<>>, <<Set(v, 1), Send>>)
High  == Def(r2, a, {0, 1}, 2, FALSE, TRUE, FALSE,
             <<When(w, 0), When(v, 1)>>, <<Send, Set(w, 1)>>)
Urgent == Def(r3, a, {1}, 3, FALSE, FALSE, TRUE, <<>>, <<Set(w, 1), Set(v, 0)>>)
Chain == Def(r4, v, {1}, 2, TRUE, FALSE, TRUE,
             <<When(a, 1), When(v, 1)>>, <<Set(w, 0)>>)
FourDefs   == {Low, High, Urgent, Chain}
FourFiles  == [id \in FourRules |-> On(CHOOSE d \in FourDefs : d.id = id)]
FourListed == <<Listed(r1), Listed(r4), Listed(r2), Listed(r3)>>

OneBehaviour == {b1}
Bodies   == [n \in {b1} |-> Def(NoRule, a, {}, 0, FALSE, FALSE, TRUE, <<When(w, 0)>>,
              <<[do |-> "toggle", var |-> v], [do |-> "inc", var |-> v],
                [do |-> "dec", var |-> v], Send>>)]
Bindings == [s \in {a, b} |-> IF s = b THEN b1 ELSE NoBehaviour]

EngineOps == {"report", "run", "base"}

-----------------------------------------------------------------------------
(* The store: two rules of which one can be written in two ways, and a third *)
(* the table may have no room for; the variable they set is wide.  No rule    *)
(* runs here, so that one value of everything is enough.                      *)

OneAttr  == {a}
OneVar   == {v}
Flat     == [s \in {a, v, manual} |-> IF s = v THEN 1 ELSE 0]
ThreeRules == {r1, r2, r3}
One      == Def(r1, a, {0}, 1, FALSE, FALSE, FALSE, <<>>, <<Set(v, 0), Send>>)
Other    == Def(r1, a, {}, 3, TRUE, FALSE, FALSE, <<>>, <<Send>>)
Second   == Def(r2, a, {0}, 2, TRUE, TRUE, TRUE, <<When(v, 0)>>, <<Set(v, 0)>>)
Third    == Def(r3, a, {0}, 2, TRUE, FALSE, TRUE, <<>>, <<Send>>)
EditDefs == {One, Other, Second, Third}

NoFiles      == [id \in Rule |-> NoFile]
NoneListed   == <<>>
NoBehaviours == {}
NoBodies     == [n \in {} |-> Low]
NoBinding    == [s \in {a} |-> NoBehaviour]

StoreOps   == {"post", "delete", "toggle", "crash"}
=============================================================================
