----------------------------- MODULE Automation ------------------------------
(***************************************************************************)
(* The rule engine of the host (main/zbm_automation) with the REST         *)
(* handlers that edit it and the core lock it runs under.                  *)
(*                                                                         *)
(* A change of a value (a report of a device, or a virtual variable set by *)
(* a rule) walks the rules, collects the ones it triggers, sorts them by   *)
(* priority and runs them.  A rule that sets a variable makes a nested     *)
(* change: the C recursion is a stack of frames here, one stack for each   *)
(* task that can run rules.  Rules live in memory and, as a file each and  *)
(* an index, in flash; the power may fail between or within two writes.    *)
(*                                                                         *)
(* Rules are edited only while none runs (QuietEngine): the code takes no  *)
(* lock, and an edit under a running change frees what the change reads.   *)
(***************************************************************************)
EXTENDS Integers, Sequences, SequencesExt

CONSTANTS
  Zb,          \* esp_zb_task: reports of devices
  Http,        \* the task of the HTTP server: all REST handlers
  Nobody,      \* the core mutex is free
  Manual,      \* source of a rule run by hand ("manual")
  Attr,        \* attributes and reports of devices, by GUID
  Var,         \* virtual variables, "var_0" ...
  Wide,        \* variables a rule sets by an action type of their own: 8 bits
               \* with a sign, 16 bits, text
  Rank,        \* depth of a source
  MaxRank,
  Values,      \* a byte is counted modulo this number
  Rule,        \* ids of rules
  Defs,        \* the rules that may be posted
  NoRule,
  Behaviour,   \* ids of behaviours
  Body,        \* behaviour |-> its definition
  Bound,       \* attribute |-> behaviour bound to it in the device's file
  MaxRules,    \* ZB_AUTO_MAX_RULES
  NoFile, Torn,\* no file, and a file a crash cut short
  Gone, Nothing,\* what an answer promised of a rule: that it is gone, nothing
  FlashRules,  \* the index of rules when the history starts
  FlashFiles,  \* the files of rules when the history starts
  Allow        \* which of "report", "post", "delete", "toggle", "run",
               \* "base", "crash" happen in this instance

Task   == {Zb, Http}
Source == Attr \cup Var \cup {Manual}
Value  == 0 .. Values - 1

\* An action: a command to a device, one without a GUID, which does nothing, or
\* a variable it sets.  Rules know send and set, behaviours the others too.
Inert == [do |-> "none"]
Step  == [do : {"send", "none"}] \cup [do : {"set"}, var : Var, to : Value]
Op    == Step \cup [do : {"inc", "dec", "toggle"}, var : Var]

\* rule_from_json of what rule_to_json wrote: setting a wide variable has a
\* type of its own in the file, which the parser leaves zero, a bare command.
Parsed(d) == [d EXCEPT !.ops =
               [n \in DOMAIN @ |-> IF @[n].do = "set" /\ @[n].var \in Wide
                                     THEN Inert ELSE @[n]]]

\* An allowing trigger: the values of a source that satisfy its condition.
Trigger == [of : Attr \cup Var, want : SUBSET Value]

\* A rule as it was posted; a behaviour has neither an id nor a cause.
Written == [id : Rule \cup {NoRule}, cause : Attr \cup Var, want : SUBSET Value,
            prio : Int, first : BOOLEAN, timed : BOOLEAN, every : BOOLEAN,
            allow : Seq(Trigger), ops : Seq(Op)]
Texts == Defs \cup {Parsed(d) : d \in Defs}
Text  == [def : Texts, on : BOOLEAN]
Runnable == Texts \cup {Body[b] : b \in Behaviour}
Entry == [id : Rule, on : BOOLEAN]          \* an entry of the index

\* Names are apart; a rule has one cause, conditions that allow it and actions.
ASSUME Shapes ==
  /\ Zb # Http /\ Nobody \notin Task /\ NoRule \notin Rule
  /\ Manual \notin Attr \cup Var /\ Attr \cap Var = {}
  /\ Values \in Nat \ {0} /\ MaxRules \in Nat /\ MaxRank \in Nat
  /\ Rank \in [Source -> 0 .. MaxRank]
  /\ Defs \subseteq Written /\ Body \in [Behaviour -> Written]
  /\ \A d \in Defs : d.id \in Rule /\ d.ops \in Seq(Step)
  /\ Wide \subseteq Var
  /\ {Gone, Nothing} \cap Defs = {} /\ Gone # Nothing
  /\ NoFile \notin Text /\ Torn \notin Text
  /\ Torn \notin Seq(Entry)

\* What is in flash was written by the code below: each rule under its own id,
\* one entry of the index for it, and no more rules than memory has room for.
ASSUME InFlash ==
  /\ FlashFiles \in [Rule -> Text \cup {NoFile}]
  /\ \A id \in Rule : FlashFiles[id] \in Text => FlashFiles[id].def.id = id
  /\ FlashRules \in Seq(Entry)
  /\ \A m, n \in DOMAIN FlashRules : FlashRules[m].id = FlashRules[n].id => m = n
  /\ Cardinality({FlashRules[n].id : n \in {m \in DOMAIN FlashRules :
                    FlashFiles[FlashRules[m].id] \in Text}}) <= MaxRules

\* The rules of a site are layered: what a rule sets is deeper than its cause.
\* Nothing in the code enforces it; without it a change need not end.
ASSUME Layered ==
  /\ \A v \in Var : Rank[v] > 0
  /\ \A d \in Defs : \A n \in DOMAIN d.ops :
       d.ops[n].do = "set" => Rank[d.ops[n].var] > Rank[d.cause]
  /\ \A a \in Attr \cup {Manual} : Rank[a] = 0

VARIABLES
  stack,   \* task |-> frames of the changes it is in, outermost first
  value,   \* attribute or variable |-> its value now
  rules,   \* zb_rules: texts in the order they were added
  behs,    \* behaviours loaded and enabled
  boot,    \* 0 when up, else the entry of the index to load next
  file,    \* rule |-> its file
  index,   \* the index of rules
  web,     \* the request the HTTP task works on
  holder,  \* owner of the core mutex
  inside,  \* tasks between zbm_core_sync_lock and _unlock
  asked    \* rule |-> what the last answer promised: a rule kept, Gone or Nothing

memory == <<rules, behs, boot>>
flash  == <<file, index>>
core   == <<holder, inside>>
vars   == <<stack, value, rules, behs, boot, file, index, web, holder, inside, asked>>

-----------------------------------------------------------------------------
(* A change of a value.                                                    *)

Top(t) == Last(stack[t])
Running(t) == stack[t] # <<>>

\* Do the allowing triggers of a rule or the conditions of a behaviour hold?
Allowed(d, now) ==
  LET Holds(n) == now[d.allow[n].of] \in d.allow[n].want
  IN  \/ d.allow = <<>>
      \/ ~d.every /\ \E n \in DOMAIN d.allow : Holds(n)
      \/  d.every /\ \A n \in DOMAIN d.allow : Holds(n)

\* The frame of a change that walks the rules, and of a body run at once.
WalkFrame(src, x) == [src |-> src, was |-> x, phase |-> "walk", todo |-> <<>>,
                      i |-> 1, j |-> 1, at |-> 1, op |-> 1]
RunFrame(src, d)  == [src |-> src, was |-> 0, phase |-> "run", todo |-> <<d>>,
                      i |-> 1, j |-> 1, at |-> 1, op |-> 1]

\* zb_automation_v2_on_data_change up to the walk: a behaviour that is found
\* takes the change from the rules, whether its conditions hold or not.
Change(frames, src, x, now) ==
  IF src \in Attr /\ Bound[src] \in behs
    THEN IF Allowed(Body[Bound[src]], now)
           THEN Append(frames, RunFrame(src, Body[Bound[src]]))
           ELSE frames
    ELSE Append(frames, WalkFrame(src, x))

SetTop(t, f) == [stack EXCEPT ![t] = Append(Front(stack[t]), f)]
Pop(t)       == [stack EXCEPT ![t] = Front(stack[t])]

\* Does the change of frame f set off rule r?  "hour" is the clock's answer.
TriggeredByAny(r, f, hour) ==
  r.on /\ (r.def.timed => hour) /\ f.was \in r.def.want /\ Allowed(r.def, value)

Triggered(r, f, hour) ==
  /\ r.on
  /\ r.def.timed => hour
  /\ r.def.cause = f.src
  /\ f.was \in r.def.want
  /\ Allowed(r.def, value)

\* One pass of the loop over the rules.
Walk(t) ==
  LET f == Top(t)  r == rules[f.i]
  IN  /\ Running(t) /\ f.phase = "walk" /\ f.i <= Len(rules)
      /\ \E hour \in BOOLEAN :
           stack' = SetTop(t, [f EXCEPT !.i = @ + 1,
                      !.todo = IF Triggered(r, f, hour) THEN Append(@, r.def) ELSE @])
      /\ UNCHANGED <<value, memory, flash, web, core, asked>>

WalkEndAgain(t) ==
  LET f == Top(t)
  IN  /\ Running(t) /\ f.phase = "walk" /\ f.i > Len(rules)
      /\ stack' = IF f.todo = <<>> THEN SetTop(t, [f EXCEPT !.i = 1])
                  ELSE SetTop(t, [f EXCEPT !.phase = "sort", !.i = 1, !.j = 2])
      /\ UNCHANGED <<value, memory, flash, web, core, asked>>

\* The walk is over: sort what it found, or return.
WalkEnd(t) ==
  LET f == Top(t)
  IN  /\ Running(t) /\ f.phase = "walk" /\ f.i > Len(rules)
      /\ stack' = IF f.todo = <<>> THEN Pop(t)
                  ELSE SetTop(t, [f EXCEPT !.phase = "sort", !.i = 1, !.j = 2])
      /\ UNCHANGED <<value, memory, flash, web, core, asked>>

Swap(s, i, j) == [s EXCEPT ![i] = s[j], ![j] = s[i]]

\* The pair the two loops of the sort compare after i and j.
NextInOnePass(i, j, n) == <<i + 1, j + 1>>
NextPair(i, j, n) == IF j < n THEN <<i, j + 1>> ELSE <<i + 1, i + 2>>

\* One comparison of the exchange sort, highest priority first.
Exchange(t) ==
  LET f == Top(t)  n == Len(f.todo)
  IN  /\ Running(t) /\ f.phase = "sort" /\ f.i < n
      /\ stack' = SetTop(t,
           [f EXCEPT !.todo = IF @[f.i].prio < @[f.j].prio THEN Swap(@, f.i, f.j) ELSE @,
                     !.i = NextPair(f.i, f.j, n)[1],
                     !.j = NextPair(f.i, f.j, n)[2]])
      /\ UNCHANGED <<value, memory, flash, web, core, asked>>

\* Sorted: the mode of the first candidate decides whether the others run.
SortEnd(t) ==
  LET f == Top(t)
  IN  /\ Running(t) /\ f.phase = "sort" /\ f.i >= Len(f.todo)
      /\ stack' = SetTop(t, [f EXCEPT !.phase = "run",
                               !.todo = IF @[1].first THEN <<@[1]>> ELSE @])
      /\ UNCHANGED <<value, memory, flash, web, core, asked>>

\* What an action makes of a variable; a byte wraps.
ResultUnwrapped(o, x) ==
  IF o.do = "set" THEN o.to
  ELSE IF o.do = "inc" THEN x + 1
  ELSE IF o.do = "dec" THEN (IF x > 0 THEN x - 1 ELSE 0)
  ELSE IF x = 0 THEN 1 ELSE 0

Result(o, x) ==
  IF o.do = "set" THEN o.to
  ELSE IF o.do = "inc" THEN (x + 1) % Values
  ELSE IF o.do = "dec" THEN (IF x > 0 THEN x - 1 ELSE 0)
  ELSE IF x = 0 THEN 1 % Values ELSE 0

\* One action of the rule being run.  A command returns when the NCP has
\* answered; a variable is set and the change it makes is nested.
Perform(t) ==
  LET f == Top(t)
      o == f.todo[f.at].ops[f.op]
      next == SetTop(t, [f EXCEPT !.op = @ + 1])
  IN  /\ Running(t) /\ f.phase = "run" /\ f.at <= Len(f.todo)
      /\ f.op <= Len(f.todo[f.at].ops)
      /\ IF o.do \in {"send", "none"}
           THEN stack' = next /\ UNCHANGED value
           ELSE LET x == Result(o, value[o.var])
                IN  /\ value' = [value EXCEPT ![o.var] = x]
                    /\ stack' = [next EXCEPT ![t] = Change(@, o.var, x, value')]
      /\ UNCHANGED <<memory, flash, web, core, asked>>

RunEndStays(t) ==
  LET f == Top(t)
  IN  /\ Running(t) /\ f.phase = "run" /\ f.at <= Len(f.todo)
      /\ f.op > Len(f.todo[f.at].ops)
      /\ stack' = IF f.at = Len(f.todo) /\ f.at > 1 THEN Pop(t) ELSE SetTop(t, [f EXCEPT !.op = 1])
      /\ UNCHANGED <<value, memory, flash, web, core, asked>>

\* The rule's actions are done: the next rule, or back to the caller.
RunEnd(t) ==
  LET f == Top(t)
  IN  /\ Running(t) /\ f.phase = "run" /\ f.at <= Len(f.todo)
      /\ f.op > Len(f.todo[f.at].ops)
      /\ stack' = IF f.at = Len(f.todo) THEN Pop(t)
                  ELSE SetTop(t, [f EXCEPT !.at = @ + 1, !.op = 1])
      /\ UNCHANGED <<value, memory, flash, web, core, asked>>

-----------------------------------------------------------------------------
(* The core lock, and the changes devices report under it.                 *)

\* The holder is in a command to the NCP: longer than the second others wait.
HoldsLong == holder \in Task /\ Running(holder)
  /\ LET f == Top(holder)
     IN  /\ f.phase = "run" /\ f.at <= Len(f.todo)
         /\ f.op <= Len(f.todo[f.at].ops) /\ f.todo[f.at].ops[f.op].do = "send"

\* zbm_core_sync_lock: after the timeout the caller goes on without the mutex.
Enter(t) ==
  /\ holder = Nobody \/ HoldsLong
  /\ holder' = IF holder = Nobody THEN t ELSE holder
  /\ inside' = inside \cup {t}

LeaveGiving(t) ==
  t \in inside /\ holder' = Nobody /\ inside' = inside \ {t}

\* zbm_core_sync_unlock: a task that does not own the mutex gives nothing.
Leave(t) ==
  /\ t \in inside
  /\ holder' = IF holder = t THEN Nobody ELSE holder
  /\ inside' = inside \ {t}

\* A device reports a value: zbm_device_apply_reported_value_safe.
Report(a, x) ==
  /\ "report" \in Allow /\ boot = 0 /\ Zb \notin inside
  /\ Enter(Zb)
  /\ value' = [value EXCEPT ![a] = x]
  /\ stack' = [stack EXCEPT ![Zb] = Change(@, a, x, value')]
  /\ UNCHANGED <<memory, flash, web, asked>>

ReportEnd ==
  /\ ~Running(Zb) /\ Leave(Zb)
  /\ UNCHANGED <<stack, value, memory, flash, web, asked>>

-----------------------------------------------------------------------------
(* The REST handlers, one request at a time.                               *)

NoOne == [op |-> "idle", id |-> NoRule, on |-> FALSE, step |-> "none"]
Asks(op, id, on, step) ==
  /\ op \in Allow /\ boot = 0 /\ web = NoOne
  /\ web' = [op |-> op, id |-> id, on |-> on, step |-> step]
At(op, step) == web.op = op /\ web.step = step
Goes(step)   == web' = [web EXCEPT !.step = step]

QuietEngine == \A t \in Task : ~Running(t)

InMemory(id) == \E k \in DOMAIN rules : rules[k].def.id = id
Place(id)    == CHOOSE k \in DOMAIN rules : rules[k].def.id = id
WithoutNone(id) == rules
Without(id)  == IF InMemory(id) THEN RemoveAt(rules, Place(id)) ELSE rules

Indexed(id)  == index # Torn /\ \E k \in DOMAIN index : index[k].id = id
Position(id) == CHOOSE k \in DOMAIN index : index[k].id = id
Unlisted(id) == IF Indexed(id) THEN RemoveAt(index, Position(id))
                ELSE IF index = Torn THEN <<>> ELSE index

\* POST /api/rule: the rule of that id is replaced in memory, at the end of
\* the walk; a new one is refused when the table is full.
Post(d, on) ==
  /\ QuietEngine /\ Asks("post", d.id, on, "file")
  /\ Len(Without(d.id)) < MaxRules
  /\ rules' = Append(Without(d.id), [def |-> d, on |-> on])
  /\ asked' = [asked EXCEPT ![d.id] = Nothing]
  /\ UNCHANGED <<stack, value, behs, boot, flash, core>>

\* zb_automation_v2_save_rule_to_storage: the file, then the index.
PostFile ==
  /\ At("post", "file") /\ Goes("index")
  /\ file' = [file EXCEPT ![web.id] = rules[Place(web.id)]]
  /\ UNCHANGED <<stack, value, memory, index, core, asked>>

PostIndex ==
  /\ At("post", "index") /\ web' = NoOne
  /\ index' = Append(Unlisted(web.id), [id |-> web.id, on |-> web.on])
  /\ asked' = [asked EXCEPT ![web.id] = rules[Place(web.id)].def]
  /\ UNCHANGED <<stack, value, memory, file, core>>

DeleteStored(id) ==
  /\ QuietEngine /\ InMemory(id) /\ Asks("delete", id, FALSE, "file")
  /\ asked' = [asked EXCEPT ![id] = Nothing]
  /\ UNCHANGED <<stack, value, memory, flash, core>>

\* DELETE /api/rule/{id}: memory, then the file, then the index.
Delete(id) ==
  /\ QuietEngine /\ InMemory(id) /\ Asks("delete", id, FALSE, "file")
  /\ rules' = Without(id)
  /\ asked' = [asked EXCEPT ![id] = Nothing]
  /\ UNCHANGED <<stack, value, behs, boot, flash, core>>

DeleteFile ==
  /\ At("delete", "file") /\ Goes("index")
  /\ file' = [file EXCEPT ![web.id] = NoFile]
  /\ UNCHANGED <<stack, value, memory, index, core, asked>>

DeleteIndex ==
  /\ At("delete", "index") /\ web' = NoOne
  /\ index' = IF index = Torn THEN Torn ELSE Unlisted(web.id)
  /\ asked' = [asked EXCEPT ![web.id] = Gone]
  /\ UNCHANGED <<stack, value, memory, file, core>>

\* POST /api/rule/{id}/enable and /disable rewrite the file and the index and
\* leave the rule in memory as it is.  Both delete the old item of the parsed
\* text without detaching it, so what is written may be unreadable.
Toggle(id, on) ==
  /\ Indexed(id) /\ file[id] \in Text /\ Asks("toggle", id, on, "file")
  /\ UNCHANGED <<stack, value, memory, flash, core, asked>>

ToggleFile ==
  /\ At("toggle", "file") /\ Goes("index")
  /\ \/ /\ file' = [file EXCEPT ![web.id].on = web.on]
        /\ UNCHANGED asked
     \/ /\ file' = [file EXCEPT ![web.id] = Torn]
        /\ asked' = [asked EXCEPT ![web.id] = Nothing]
  /\ UNCHANGED <<stack, value, memory, index, core>>

ToggleIndex ==
  /\ At("toggle", "index") /\ web' = NoOne
  /\ \/ /\ index' = [index EXCEPT ![Position(web.id)].on = web.on]
        /\ UNCHANGED asked
     \/ /\ index' = Torn
        /\ asked' = [id \in Rule |-> IF asked[id] \in Defs THEN Nothing ELSE asked[id]]
  /\ UNCHANGED <<stack, value, memory, file, core>>

\* POST /api/rule/{id}/run: an enabled rule runs in the HTTP task.
Run(id) ==
  /\ Indexed(id) /\ InMemory(id) /\ rules[Place(id)].on
  /\ Asks("run", id, FALSE, "none")
  /\ stack' = [stack EXCEPT ![Http] = <<RunFrame(Manual, rules[Place(id)].def)>>]
  /\ UNCHANGED <<value, memory, flash, core, asked>>

RunDone ==
  /\ web.op = "run" /\ ~Running(Http) /\ web' = NoOne
  /\ UNCHANGED <<stack, value, memory, flash, core, asked>>

\* A request that walks the device base under the core lock.
Base ==
  /\ Asks("base", NoRule, FALSE, "none") /\ Enter(Http)
  /\ UNCHANGED <<stack, value, memory, flash, asked>>

BaseEnd ==
  /\ web.op = "base" /\ Leave(Http) /\ web' = NoOne
  /\ UNCHANGED <<stack, value, memory, flash, asked>>

-----------------------------------------------------------------------------
(* Power failures and the start of the engine.                             *)

\* The power fails; "cut" when it does in the middle of a write, which empties
\* the file.  An emptied index is read as no rules at all.  Values come back as
\* files of devices and variables have them, and of the behaviours those the
\* requests of before, which touch the flash alone, have left enabled.
Crash(cut, old, on) ==
  LET file1  == IF cut /\ web.op # "delete" /\ web.step = "file"
                  THEN [file EXCEPT ![web.id] = Torn] ELSE file
      index1 == IF cut /\ web.step = "index" THEN Torn ELSE index
  IN  /\ "crash" \in Allow /\ (cut => web.step # "none")
      /\ file' = file1 /\ index' = index1
      /\ asked' = [id \in Rule |->
                     IF asked[id] # Gone /\ (index1 = Torn \/ file1[id] = Torn)
                       THEN Nothing ELSE asked[id]]
      /\ stack' = [t \in Task |-> <<>>]
      /\ rules' = <<>> /\ boot' = 1
      /\ value' = old /\ behs' = on
      /\ web' = NoOne /\ holder' = Nobody /\ inside' = {}

LoadOrStop ==
  /\ boot > 0 /\ index # Torn /\ boot <= Len(index)
  /\ LET e == index[boot]
     IN  IF file[e.id] \in Text /\ Len(rules) < MaxRules
           THEN /\ rules' = Append(rules, [def |-> Parsed(file[e.id].def), on |-> e.on])
                /\ boot' = boot + 1
           ELSE rules' = rules /\ boot' = Len(index) + 1
  /\ UNCHANGED <<stack, value, behs, flash, web, core, asked>>

\* zb_rules_load_all_from_storage, one entry of the index: "enabled" is the
\* index's; a file that cannot be read is passed over.
Load ==
  /\ boot > 0 /\ index # Torn /\ boot <= Len(index)
  /\ boot' = boot + 1
  /\ LET e == index[boot]
     IN  rules' = IF file[e.id] \in Text /\ Len(rules) < MaxRules
                    THEN Append(rules, [def |-> Parsed(file[e.id].def), on |-> e.on])
                    ELSE rules
  /\ UNCHANGED <<stack, value, behs, flash, web, core, asked>>

LoadEnd ==
  /\ boot > 0 /\ (index # Torn => boot > Len(index))
  /\ boot' = 0
  /\ UNCHANGED <<stack, value, rules, behs, flash, web, core, asked>>

-----------------------------------------------------------------------------
Init ==
  /\ stack = [t \in Task |-> <<>>]
  /\ value = [s \in Attr \cup Var |-> 0]
  /\ rules = <<>> /\ behs \in SUBSET Behaviour /\ boot = 1
  /\ file = FlashFiles /\ index = FlashRules
  /\ web = NoOne /\ holder = Nobody /\ inside = {}
  /\ asked = [id \in Rule |-> Nothing]

Engine(t) == Walk(t) \/ WalkEnd(t) \/ Exchange(t) \/ SortEnd(t) \/ Perform(t) \/ RunEnd(t)

Answer == PostFile \/ PostIndex \/ DeleteFile \/ DeleteIndex \/ ToggleFile
            \/ ToggleIndex \/ RunDone \/ BaseEnd

Boot == Load \/ LoadEnd

Next ==
  \/ \E t \in Task : Engine(t)
  \/ \E a \in Attr, x \in Value : Report(a, x)
  \/ ReportEnd
  \/ \E d \in Defs, on \in BOOLEAN : Post(d, on)
  \/ \E id \in Rule : Delete(id) \/ Run(id)
  \/ \E id \in Rule, on \in BOOLEAN : Toggle(id, on)
  \/ Base
  \/ Answer
  \/ \E cut \in BOOLEAN, old \in [Attr \cup Var -> Value], on \in SUBSET Behaviour :
       Crash(cut, old, on)
  \/ Boot

Spec == Init /\ [][Next]_vars

\* Each task goes on with what it has begun; the NCP answers commands.
Fairness ==
  /\ \A t \in Task : WF_vars(Engine(t))
  /\ WF_vars(ReportEnd) /\ WF_vars(Answer) /\ WF_vars(Boot)

FairSpec == Spec /\ Fairness

-----------------------------------------------------------------------------
(* Properties.                                                             *)

Frame == [src : Source, was : Value, phase : {"walk", "sort", "run"},
          todo : Seq(Runnable),
          i : Nat \ {0}, j : Nat \ {0}, at : Nat \ {0}, op : Nat \ {0}]

Request == [op : {"idle", "post", "delete", "toggle", "run", "base"},
            id : Rule \cup {NoRule}, on : BOOLEAN,
            step : {"none", "file", "index"}]

TypeOK ==
  /\ stack \in [Task -> Seq(Frame)]
  /\ value \in [Attr \cup Var -> Value]
  /\ rules \in Seq(Text) /\ Len(rules) <= MaxRules
  /\ behs \subseteq Behaviour /\ boot \in Nat
  /\ file \in [Rule -> Text \cup {NoFile, Torn}]
  /\ index \in Seq(Entry) \cup {Torn}
  /\ web \in Request
  /\ holder \in Task \cup {Nobody} /\ inside \subseteq Task
  /\ asked \in [Rule -> Defs \cup {Gone, Nothing}]

\* A change sets off changes of deeper sources only, so the recursion of
\* zb_automation_v2_on_data_change is no deeper than the site is layered.
NestingBounded == \A t \in Task : Len(stack[t]) <= MaxRank + 1

\* When rules run, those of higher priority run first, however many the walk
\* found and in whatever order (the exchange sort of on_data_change).
ByPriority ==
  \A t \in Task : \A n \in DOMAIN stack[t] :
    stack[t][n].phase = "run" =>
      \A a, b \in DOMAIN stack[t][n].todo :
        a < b => stack[t][n].todo[a].prio >= stack[t][n].todo[b].prio

\* Of one id there is one rule in memory and one entry in the index, over any
\* history of edits, power failures and loads.
OnePerId ==
  /\ \A a, b \in DOMAIN rules : rules[a].def.id = rules[b].def.id => a = b
  /\ index # Torn => \A a, b \in DOMAIN index : index[a].id = index[b].id => a = b

Busy(id) == web.id = id /\ web.op \in {"post", "delete"}

\* A rule the answer to POST said was saved is found by the next start, and is
\* in memory between starts, until it is edited or a torn write takes it.
AnsweredKept ==
  \A id \in Rule : asked[id] \in Defs /\ ~Busy(id) =>
    /\ Indexed(id) /\ file[id] \in Text /\ Parsed(file[id].def) = Parsed(asked[id])
    /\ boot = 0 => InMemory(id) /\ Parsed(rules[Place(id)].def) = Parsed(asked[id])

\* A rule the answer to DELETE said was gone is not in memory, and no start
\* brings it back, whichever of its two files a crash may have spared.
DeletedStaysGone ==
  \A id \in Rule : asked[id] = Gone =>
    ~InMemory(id) /\ ~(Indexed(id) /\ file[id] \in Text)

\* The core mutex is taken from its owner by nobody: it changes hands when the
\* owner leaves, although tasks that gave up waiting unlock it as well.
GivenByTaker == [][holder # holder' /\ holder # Nobody => holder \notin inside']_vars

\* A change that has begun is worked off, with the changes it sets off.
Settles == \A t \in Task : Running(t) ~> ~Running(t)

\* Every request is answered (or the power fails).
Answered == web # NoOne ~> web = NoOne

\* A rule does after a restart what it did when its POST was answered.
KeptWhole ==
  \A id \in Rule : boot = 0 /\ asked[id] \in Defs /\ ~Busy(id) =>
    InMemory(id) /\ rules[Place(id)].def = asked[id]
=============================================================================
