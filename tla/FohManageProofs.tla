--------------------------- MODULE FohManageProofs ---------------------------
(***************************************************************************)
(* What FohManage keeps invariant, proved for any number of buttons, ids,  *)
(* edits and unnoticed errors.                                             *)
(***************************************************************************)
EXTENDS FohManage, TLAPS

Making   == {"note", "short", "start", "end", "link"}
Applying == Making \cup {"rocker"}
Dropping == {"dropLinks", "dropRules", "dropRockers"}

\* The parts an apply has still to deal with.
Todo(l) == IF l \in {"rocker", "note", "short"} THEN Parts
           ELSE IF l = "start" THEN {"start", "end"}
           ELSE IF l = "end" THEN {"end"}
           ELSE {}

\* The names an apply looks for, and a rule it makes.
Sought        == files[job.button].naming
Made(i, part) == [id |-> i, button |-> job.button, part |-> part, naming |-> Sought]

HasRule(n, q) == \E r \in rules : r.naming = n /\ r.part = q
Own(q)        == \A r \in rules : r.naming = Sought /\ r.part = q => r.button = job.button
HasLink(b)    == \E l \in links : l.button = b

\* What a run has noted of itself: the rocker it will link exists, the rules it
\* will link are the button's.
JobInv ==
    /\ pc \in Applying => job.op = "apply"
    /\ pc \in Dropping => job.op = "deleteAll"
    /\ job.op = "apply" => job.button \in Buttons
    /\ pc \in Making => /\ job.rocker \in rockers
                        /\ job.ids \subseteq Ids(RulesOf(job.button))
    /\ pc \in {"rocker", "note", "dropRockers"} => job.ids = {}

\* Nothing is deleted that a link names: there are no links left by then, or a run
\* that has read no links deletes nothing.
DropInv ==
    pc \in Dropping /\ "linkLeft" \notin broken =>
        \/ job.links = {} /\ job.ids = {} /\ job.rockers = {}
        \/ IF pc = "dropLinks" THEN job.links = links ELSE links = {}

\* What an apply has read is still so where it has not got yet.
ReadInv ==
    pc \in Applying /\ "misread" \notin broken =>
        /\ \A q \in Todo(pc) : q \in job.found <=> HasRule(Sought, q)
        /\ job.linked <=> HasLink(job.button)

\* No name has two rules and no button two links.
Unique ==
    "misread" \notin broken =>
        /\ \A r, s \in rules : r.naming = s.naming /\ r.part = s.part => r = s
        /\ \A k, l \in links : k.button = l.button => k = l

\* A button's rules have the names its model file has for them.
NameInv ==
    "renamed" \notin broken => \A r \in rules : r.naming = files[r.button].naming

\* What it has dealt with is as the model file wants it, and the button's.
DoneInv ==
    /\ pc \in Applying \cup {"ok"} /\ job.op = "apply"
    /\ "misread" \notin broken /\ ~files[job.button].oneshot
    => \A q \in Parts \ Todo(pc) :
          /\ q \in Wanted(job.button) <=> HasRule(Sought, q)
          /\ Own(q)

\* Every rule and rocker is in a link.
AllLinked ==
    /\ Ids(rules) = UNION {l.rules : l \in links}
    /\ rockers = {l.rocker : l \in links}

\* Every rule and rocker is in a link, or in the hands of the run.
OrphanInv ==
    broken \subseteq {"misread", "renamed"} =>
        /\ pc \notin Making \cup Dropping \/ ~job.changed => AllLinked
        /\ pc \in Making =>
              /\ Ids(rules) = job.ids \cup UNION {l.rules : l \in links}
              /\ rockers = {job.rocker} \cup {l.rocker : l \in links}
        /\ pc \in Dropping =>
              /\ Ids(rules) = job.ids \cup UNION {l.rules : l \in links}
              /\ rockers = job.rockers \cup {l.rocker : l \in links}
        /\ pc = "dropLinks" =>
              \A l \in job.links : l.rules \subseteq job.ids /\ l.rocker \in job.rockers

MInv ==
    /\ ManageTypeOK /\ JobInv /\ DropInv /\ NoDangling
    /\ ReadInv /\ Unique /\ NameInv /\ DoneInv /\ OrphanInv

-----------------------------------------------------------------------------
(* What the actions do to the run's notes *)

LEMMA NoJobFields ==
    /\ NoJob \in Job
    /\ NoJob.op = "none" /\ NoJob.button = NoButton /\ NoJob.rocker = NoRocker
    /\ NoJob.ids = {} /\ NoJob.rockers = {} /\ NoJob.links = {}
    /\ NoJob.changed = FALSE
BY DEF NoJob, Job

LEMMA HalfGrows ==
    ASSUME broken \subseteq Damage, NEW c \in BOOLEAN
    PROVE  /\ Half(c) \subseteq Damage
           /\ broken \subseteq Half(c) /\ Half(c) \subseteq broken \cup {"half"}
           /\ c => "half" \in Half(c)
           /\ ~c => Half(c) = broken
BY DEF Half, Damage

\* A request was answered, and the run goes on with what it knew.
Continued ==
    /\ job' \in Job /\ job'.changed = TRUE
    /\ job'.op = job.op /\ job'.button = job.button
    /\ job'.found = job.found /\ job'.linked = job.linked
    /\ UNCHANGED broken

\* Its answer got lost.
Ended == pc' = "idle" /\ job' = NoJob /\ broken' = Half(TRUE)

LEMMA RockerEffect ==
    ASSUME ManageTypeOK, CreateRocker
    PROVE  /\ pc = "rocker"
           /\ UNCHANGED <<files, rules, links, edits, faults>>
           /\ \E r \in RockerIds \ rockers :
                 /\ rockers' = rockers \cup {r}
                 /\ \/ /\ pc' = "note" /\ Continued
                       /\ job'.rocker = r /\ job'.ids = job.ids
                    \/ Ended
<1>1. PICK r \in RockerIds \ rockers :
          /\ rockers' = rockers \cup {r}
          /\ Answered("note", [job EXCEPT !.rocker = r, !.changed = TRUE])
  BY DEF CreateRocker
<1> DEFINE j == [job EXCEPT !.rocker = r, !.changed = TRUE]
<1>2. /\ j \in Job /\ j.changed = TRUE /\ j.op = job.op /\ j.button = job.button
      /\ j.found = job.found /\ j.linked = job.linked /\ j.rocker = r /\ j.ids = job.ids
  BY DEF ManageTypeOK, Job
<1>3. \/ pc' = "note" /\ job' = j /\ UNCHANGED broken
      \/ Ended
  BY <1>1 DEF Answered, Ended
<1> HIDE DEF j
<1>4. \/ /\ pc' = "note" /\ Continued
         /\ job'.rocker = r /\ job'.ids = job.ids
      \/ Ended
  BY <1>2, <1>3 DEF Continued
<1> QED BY <1>1, <1>4 DEF CreateRocker

LEMMA RuleEffect ==
    ASSUME ManageTypeOK, NEW part \in Parts, CreateRule(part)
    PROVE  /\ UNCHANGED <<files, rockers, links, edits, faults>>
           /\ \E i \in RuleIds \ Ids(rules) :
                 /\ rules' = rules \cup {Made(i, part)}
                 /\ \/ /\ pc' = After(part) /\ Continued
                       /\ job'.rocker = job.rocker /\ job'.ids = job.ids \cup {i}
                    \/ Ended
<1>1. PICK i \in RuleIds \ Ids(rules) :
          /\ rules' = rules \cup {Made(i, part)}
          /\ Answered(After(part), [job EXCEPT !.ids = @ \cup {i}, !.changed = TRUE])
  BY DEF CreateRule, Made, Sought
<1> DEFINE j == [job EXCEPT !.ids = @ \cup {i}, !.changed = TRUE]
<1>2. /\ j \in Job /\ j.changed = TRUE /\ j.op = job.op /\ j.button = job.button
      /\ j.found = job.found /\ j.linked = job.linked /\ j.rocker = job.rocker
      /\ j.ids = job.ids \cup {i}
  BY DEF ManageTypeOK, Job
<1>3. \/ pc' = After(part) /\ job' = j /\ UNCHANGED broken
      \/ Ended
  BY <1>1 DEF Answered, Ended
<1> HIDE DEF j
<1>4. \/ /\ pc' = After(part) /\ Continued
         /\ job'.rocker = job.rocker /\ job'.ids = job.ids \cup {i}
      \/ Ended
  BY <1>2, <1>3 DEF Continued
<1> QED BY <1>1, <1>4 DEF CreateRule

LEMMA MadeFields ==
    ASSUME NEW i, NEW part
    PROVE  /\ Made(i, part).id = i /\ Made(i, part).button = job.button
           /\ Made(i, part).part = part /\ Made(i, part).naming = Sought
BY DEF Made

\* A rule is made of a name that the part is looked up by; other parts keep theirs.
LEMMA MadeEffect ==
    ASSUME NEW part, NEW i, rules' = rules \cup {Made(i, part)},
           files' = files, job'.button = job.button
    PROVE  /\ Sought' = Sought
           /\ \A q : q # part => (HasRule(Sought, q)' <=> HasRule(Sought, q))
           /\ \A q : q # part => (Own(q)' <=> Own(q))
           /\ HasRule(Sought, part)'
           /\ ~HasRule(Sought, part) => Own(part)'
<1> DEFINE new == Made(i, part)
<1>1. Sought' = Sought
  BY DEF Sought
<1>2. /\ rules' = rules \cup {new} /\ new.id = i /\ new.button = job.button
      /\ new.part = part /\ new.naming = Sought
  BY MadeFields
<1> HIDE DEF new
<1>3. /\ \A q : q # part => (HasRule(Sought, q)' <=> HasRule(Sought, q))
      /\ HasRule(Sought, part)'
  BY <1>1, <1>2 DEF HasRule
<1>4. /\ \A q : q # part => (Own(q)' <=> Own(q))
      /\ ~HasRule(Sought, part) => Own(part)'
  BY <1>1, <1>2 DEF Own, HasRule
<1> QED BY <1>1, <1>3, <1>4

LEMMA LinkEffect ==
    ASSUME ManageTypeOK, CreateLink, ~Stuck
    PROVE  /\ pc = "link" /\ ~job.linked
           /\ UNCHANGED <<files, rules, rockers, edits, faults>>
           /\ links' = links \cup {[button |-> job.button, rocker |-> job.rocker,
                                    rules |-> job.ids]}
           /\ \/ pc' = "ok" /\ Continued
              \/ Ended
<1> DEFINE j == [job EXCEPT !.changed = TRUE]
<1>1. /\ j \in Job /\ j.changed = TRUE /\ j.op = job.op /\ j.button = job.button
      /\ j.found = job.found /\ j.linked = job.linked
  BY DEF ManageTypeOK, Job
<1>2. \/ pc' = "ok" /\ job' = j /\ UNCHANGED broken
      \/ Ended
  BY DEF CreateLink, Answered, Ended
<1> HIDE DEF j
<1> QED BY <1>1, <1>2 DEF Continued, CreateLink

LEMMA AnswerEffect ==
    ASSUME ManageTypeOK, NEW right \in BOOLEAN, NEW what \in {"misread", "rockersMissed"},
           Answer(right, what)
    PROVE  /\ broken' = IF right THEN broken ELSE broken \cup {what}
           /\ faults' \in 0..MaxFaults
           /\ broken' \subseteq Damage
<1>1. CASE right /\ UNCHANGED <<faults, broken>>
  BY <1>1 DEF ManageTypeOK
<1>2. CASE ~right /\ Fault(what)
  <2>1. faults' = faults + 1 /\ faults < MaxFaults /\ broken' = broken \cup {what}
    BY <1>2 DEF Fault
  <2>2. what \in Damage
    BY DEF Damage
  <2> QED BY <1>2, <2>1, <2>2, ManageAssumption DEF ManageTypeOK
<1> QED BY <1>1, <1>2 DEF Answer

LEMMA DeletedEffect ==
    ASSUME ManageTypeOK, NEW what \in {"linkLeft", "otherLeft"},
           \/ UNCHANGED <<faults, broken>>
           \/ Fault(what)
    PROVE  faults' \in 0..MaxFaults /\ broken' \subseteq Damage
<1>1. CASE UNCHANGED <<faults, broken>>
  BY <1>1 DEF ManageTypeOK
<1>2. CASE Fault(what)
  <2>1. faults' = faults + 1 /\ faults < MaxFaults /\ broken' = broken \cup {what}
    BY <1>2 DEF Fault
  <2>2. what \in Damage
    BY DEF Damage
  <2> QED BY <2>1, <2>2, ManageAssumption DEF ManageTypeOK
<1> QED BY <1>1, <1>2

LEMMA ApplyEffect ==
    ASSUME ManageTypeOK, NEW b \in Buttons, Apply(b)
    PROVE  /\ pc = "idle" /\ pc' = "rocker"
           /\ UNCHANGED <<files, bridgeVars, edits>>
           /\ faults' \in 0..MaxFaults
           /\ broken' \subseteq Damage /\ broken \subseteq broken'
           /\ broken' \subseteq broken \cup {"misread"}
           /\ job' \in Job /\ job'.op = "apply" /\ job'.button = b
           /\ job'.ids = {} /\ job'.changed = FALSE
           /\ "misread" \notin broken' =>
                 /\ job'.found = {r.part : r \in NamedAs(b, rules)}
                 /\ job'.linked = \E l \in links : l.button = b
<1>1. PICK R \in {rules, {}}, L \in {links, {}} :
          /\ Answer(R = rules /\ L = links, "misread")
          /\ job' = [NoJob EXCEPT !.op = "apply", !.button = b,
                                  !.rocker = files[b].rocker,
                                  !.found = {r.part : r \in NamedAs(b, R)},
                                  !.linked = \E l \in L : l.button = b]
  BY DEF Apply
<1> DEFINE found  == {r.part : r \in NamedAs(b, R)}
           linked == \E l \in L : l.button = b
<1>2. found \in SUBSET Parts /\ linked \in BOOLEAN
  BY <1>1 DEF ManageTypeOK, Rule, NamedAs
<1>3. files[b].rocker \in RockerIds \cup {NoRocker}
  BY DEF ManageTypeOK, Model
<1>4. /\ job' \in Job /\ job'.op = "apply" /\ job'.button = b
      /\ job'.ids = {} /\ job'.changed = FALSE
      /\ job'.found = found /\ job'.linked = linked
  <2> HIDE DEF found, linked
  <2>1. job' = [NoJob EXCEPT !.op = "apply", !.button = b, !.rocker = files[b].rocker,
                             !.found = found, !.linked = linked]
    BY <1>1 DEF found, linked
  <2> QED BY <2>1, <1>2, <1>3, NoJobFields DEF Job
<1>5. /\ broken' = IF R = rules /\ L = links THEN broken ELSE broken \cup {"misread"}
      /\ faults' \in 0..MaxFaults /\ broken' \subseteq Damage
  BY <1>1, AnswerEffect
<1> QED BY <1>4, <1>5 DEF Apply

LEMMA DeleteEffect ==
    ASSUME ManageTypeOK, DeleteAll
    PROVE  /\ pc = "idle"
           /\ UNCHANGED <<files, bridgeVars, edits>>
           /\ faults' \in 0..MaxFaults
           /\ broken' \subseteq Damage /\ broken \subseteq broken'
           /\ broken' \subseteq broken \cup {"misread", "rockersMissed"}
           /\ job' \in Job /\ job'.op = "deleteAll" /\ job'.changed = FALSE
           /\ \/ /\ pc' = "dropLinks"
                 /\ \/ job'.links = links
                    \/ job'.links = {}
                 /\ job'.ids = UNION {l.rules : l \in job'.links}
                 /\ job'.rockers \subseteq {l.rocker : l \in job'.links} \cap rockers
                 /\ "rockersMissed" \notin broken' =>
                       job'.rockers = {l.rocker : l \in job'.links} \cap rockers
              \/ pc' = "stuck"
<1>1. PICK L \in {links, {}}, S \in {rockers, {}} :
          /\ Answer(L = links /\ S = rockers,
                    IF L = links THEN "rockersMissed" ELSE "misread")
          /\ \/ /\ job' = [NoJob EXCEPT !.op = "deleteAll", !.links = L,
                                        !.ids = UNION {l.rules : l \in L},
                                        !.rockers = {l.rocker : l \in L} \cap S]
                /\ pc' = "dropLinks"
             \/ /\ job' = [NoJob EXCEPT !.op = "deleteAll"]
                /\ pc' = "stuck"
  BY DEF DeleteAll
<1> DEFINE what == IF L = links THEN "rockersMissed" ELSE "misread"
<1>2. /\ broken' = IF L = links /\ S = rockers THEN broken ELSE broken \cup {what}
      /\ faults' \in 0..MaxFaults /\ broken' \subseteq Damage
  <2>1. what \in {"misread", "rockersMissed"} /\ Answer(L = links /\ S = rockers, what)
    BY <1>1
  <2> HIDE DEF what
  <2> QED BY <2>1, AnswerEffect
<1> DEFINE ids == UNION {l.rules : l \in L}
           gone == {l.rocker : l \in L} \cap S
<1>3. L \in SUBSET Link /\ ids \in SUBSET RuleIds /\ gone \in SUBSET RockerIds
  BY <1>1 DEF ManageTypeOK, Link
<1>6. /\ gone \subseteq {l.rocker : l \in L} \cap rockers
      /\ "rockersMissed" \notin broken' => gone = {l.rocker : l \in L} \cap rockers
  BY <1>1, <1>2
<1>4. CASE /\ job' = [NoJob EXCEPT !.op = "deleteAll", !.links = L,
                                   !.ids = ids, !.rockers = gone]
           /\ pc' = "dropLinks"
  <2>1. /\ job' \in Job /\ job'.op = "deleteAll" /\ job'.changed = FALSE
        /\ job'.links = L /\ job'.ids = ids /\ job'.rockers = gone
    <3> HIDE DEF ids, gone
    <3> QED BY <1>4, <1>3, NoJobFields DEF Job
  <2>2. L = links \/ L = {}
    BY <1>1
  <2> HIDE DEF ids, gone
  <2>3. /\ broken \subseteq broken' /\ broken' \subseteq broken \cup {"misread", "rockersMissed"}
    BY <1>2
  <2>4. pc = "idle" /\ UNCHANGED <<files, bridgeVars, edits>>
    BY DEF DeleteAll
  <2>5. /\ job'.ids = UNION {l.rules : l \in job'.links}
        /\ job'.rockers \subseteq {l.rocker : l \in job'.links} \cap rockers
        /\ "rockersMissed" \notin broken' =>
              job'.rockers = {l.rocker : l \in job'.links} \cap rockers
    BY <2>1, <1>6 DEF ids
  <2> QED BY <2>1, <2>2, <2>3, <2>4, <2>5, <1>2, <1>4
<1>5. CASE /\ job' = [NoJob EXCEPT !.op = "deleteAll"]
           /\ pc' = "stuck"
  <2>1. job' \in Job /\ job'.op = "deleteAll" /\ job'.changed = FALSE
    BY <1>5, NoJobFields DEF Job
  <2> QED BY <2>1, <1>2, <1>5 DEF DeleteAll
<1> QED BY <1>1, <1>4, <1>5

LEMMA DropEffect ==
    ASSUME ManageTypeOK, DropLink \/ DropRule \/ DropRocker
    PROVE  /\ job' \in Job /\ job'.op = job.op /\ job'.button = job.button
           /\ job'.changed = TRUE
           /\ faults' \in 0..MaxFaults
           /\ broken' \subseteq Damage /\ broken \subseteq broken'
           /\ UNCHANGED <<files, pc, edits>>
<1>1. CASE DropLink
  <2>1. PICK l \in job.links :
            /\ Deleted(links, links \ {l}, "linkLeft")
            /\ job' = [job EXCEPT !.links = @ \ {l}, !.changed = TRUE]
    BY <1>1 DEF DropLink
  <2>2. job' \in Job /\ job'.op = job.op /\ job'.button = job.button /\ job'.changed = TRUE
    BY <2>1 DEF ManageTypeOK, Job
  <2>3. UNCHANGED <<faults, broken>> \/ Fault("linkLeft")
    BY <2>1 DEF Deleted
  <2> QED BY <1>1, <2>2, <2>3, DeletedEffect DEF DropLink, Fault
<1>2. CASE DropRule
  <2>1. PICK i \in job.ids :
            /\ Deleted(rules, {r \in rules : r.id # i}, "otherLeft")
            /\ job' = [job EXCEPT !.ids = @ \ {i}, !.changed = TRUE]
    BY <1>2 DEF DropRule
  <2>2. job' \in Job /\ job'.op = job.op /\ job'.button = job.button /\ job'.changed = TRUE
    BY <2>1 DEF ManageTypeOK, Job
  <2>3. UNCHANGED <<faults, broken>> \/ Fault("otherLeft")
    BY <2>1 DEF Deleted
  <2> QED BY <1>2, <2>2, <2>3, DeletedEffect DEF DropRule, Fault
<1>3. CASE DropRocker
  <2>1. PICK r \in job.rockers :
            /\ Deleted(rockers, rockers \ {r}, "otherLeft")
            /\ job' = [job EXCEPT !.rockers = @ \ {r}, !.changed = TRUE]
    BY <1>3 DEF DropRocker
  <2>2. job' \in Job /\ job'.op = job.op /\ job'.button = job.button /\ job'.changed = TRUE
    BY <2>1 DEF ManageTypeOK, Job
  <2>3. UNCHANGED <<faults, broken>> \/ Fault("otherLeft")
    BY <2>1 DEF Deleted
  <2> QED BY <1>3, <2>2, <2>3, DeletedEffect DEF DropRocker, Fault
<1> QED BY <1>1, <1>2, <1>3

LEMMA NoteEffect ==
    ASSUME ManageTypeOK, JobInv, NoteRocker
    PROVE  /\ UNCHANGED Sought
           /\ \A b \in Buttons : files'[b].naming = files[b].naming
<1>1. job.button \in Buttons /\ job' = job
  BY DEF NoteRocker, JobInv, Applying, Making
<1>2. files' = [files EXCEPT ![job.button].rocker = job.rocker]
  BY DEF NoteRocker
<1>3. \A b \in Buttons : files[b] \in Model
  BY DEF ManageTypeOK
<1>4. \A b \in Buttons : files'[b].naming = files[b].naming
  BY <1>1, <1>2, <1>3 DEF ManageTypeOK, Model
<1> QED BY <1>1, <1>4 DEF Sought

LEMMA ButtonEffect ==
    ASSUME ManageTypeOK, NEW b \in Buttons, DeleteButton(b)
    PROVE  /\ pc = "idle" /\ pc' \in {"ok", "stuck"}
           /\ UNCHANGED <<files, bridgeVars, edits>>
           /\ job' \in Job /\ job'.op = "deleteButton" /\ job'.ids = {}
           /\ job'.changed = FALSE
           /\ faults' \in 0..MaxFaults
           /\ broken' \subseteq Damage /\ broken \subseteq broken'
           /\ broken' \subseteq broken \cup {"misread"}
<1>1. PICK R \in {rules, {}} : Answer(R = rules, "misread")
  BY DEF DeleteButton
<1>2. /\ broken' = IF R = rules THEN broken ELSE broken \cup {"misread"}
      /\ faults' \in 0..MaxFaults /\ broken' \subseteq Damage
  BY <1>1, AnswerEffect
<1>3. /\ pc = "idle" /\ pc' \in {"ok", "stuck"} /\ UNCHANGED <<files, bridgeVars, edits>>
      /\ job' = [NoJob EXCEPT !.op = "deleteButton", !.button = b]
  BY DEF DeleteButton
<1>4. job' \in Job /\ job'.op = "deleteButton" /\ job'.ids = {} /\ job'.changed = FALSE
  BY <1>3, NoJobFields DEF Job
<1> QED BY <1>2, <1>3, <1>4

\* A model file is written: its names change, if its button has rules, by name.
LEMMA FileEffect ==
    ASSUME ManageTypeOK, NEW b \in Buttons, Read(b) \/ Edit(b)
    PROVE  /\ pc = "idle" /\ UNCHANGED <<bridgeVars, pc, job>>
           /\ files' \in [Buttons -> Model]
           /\ \A c \in Buttons \ {b} : files'[c] = files[c]
           /\ edits' \in 0..MaxEdits /\ faults' \in 0..MaxFaults
           /\ broken' \subseteq Damage /\ broken \subseteq broken'
           /\ broken' \subseteq broken \cup {"renamed"}
           /\ \/ "renamed" \in broken' \/ RulesOf(b) = {}
              \/ files'[b].naming = files[b].naming
<1>1. \A n : /\ Renamed(b, n) \subseteq {"renamed"}
             /\ \/ "renamed" \in Renamed(b, n) \/ RulesOf(b) = {}
                \/ n = files[b].naming
  BY DEF Renamed
<1>2. "renamed" \in Damage /\ Empty(b) \in Model
  BY DEF Damage, Empty, Model, Names
<1>3. CASE Read(b)
  <2>1. /\ files' = [files EXCEPT ![b] = Empty(b)]
        /\ broken' = broken \cup Renamed(b, Empty(b).naming)
        /\ pc = "idle" /\ UNCHANGED <<bridgeVars, pc, job, edits>>
        /\ \/ faults' = faults
           \/ faults < MaxFaults /\ faults' = faults + 1
    BY <1>3 DEF Read
  <2>2. files'[b].naming = Empty(b).naming
    BY <2>1 DEF ManageTypeOK
  <2>3. faults' \in 0..MaxFaults
    BY <2>1, ManageAssumption DEF ManageTypeOK
  <2>4. files' \in [Buttons -> Model]
    BY <2>1, <1>2 DEF ManageTypeOK
  <2> QED BY <2>1, <2>2, <2>3, <2>4, <1>1, <1>2 DEF ManageTypeOK
<1>4. CASE Edit(b)
  <2>1. PICK m \in Templates(b),
             k \in {NoRocker} \cup {files[c].rocker : c \in Buttons},
             n \in ({b} \X {"own", "default"}) \cup {files[c].naming : c \in Buttons} :
          /\ files' = [files EXCEPT ![b] = [m EXCEPT !.rocker = k, !.naming = n]]
          /\ broken' = broken \cup Renamed(b, n)
    BY <1>4 DEF Edit
  <2>2. m \in Model
    BY <1>2 DEF Templates, Model, Empty
  <2>3. k \in RockerIds \cup {NoRocker} /\ n \in Names
    BY DEF ManageTypeOK, Model, Names
  <2> DEFINE f == [m EXCEPT !.rocker = k, !.naming = n]
  <2>4. f \in Model /\ f.naming = n
    BY <2>2, <2>3 DEF Model
  <2> HIDE DEF f
  <2>5. /\ files' = [files EXCEPT ![b] = f]
        /\ pc = "idle" /\ UNCHANGED <<bridgeVars, pc, job, faults>>
        /\ edits < MaxEdits /\ edits' = edits + 1
    BY <1>4, <2>1 DEF f, Edit
  <2>6. edits' \in 0..MaxEdits
    BY <2>5, ManageAssumption DEF ManageTypeOK
  <2>7. files' \in [Buttons -> Model] /\ files'[b].naming = n
    BY <2>4, <2>5 DEF ManageTypeOK
  <2> QED BY <2>1, <2>5, <2>6, <2>7, <1>1, <1>2 DEF ManageTypeOK
<1> QED BY <1>3, <1>4

LEMMA DieEffect ==
    ASSUME ManageTypeOK, Die
    PROVE  /\ pc' = "idle" /\ job' = NoJob
           /\ UNCHANGED <<files, bridgeVars, edits, faults>>
           /\ broken' \subseteq Damage /\ broken \subseteq broken'
           /\ broken' \subseteq broken \cup {"half"}
           /\ job.changed => "half" \in broken'
<1>1. job.changed \in BOOLEAN /\ broken \subseteq Damage
  BY DEF ManageTypeOK, Job
<1>2. broken' = Half(job.changed)
  BY DEF Die
<1> QED BY <1>1, <1>2, HalfGrows DEF Die

LEMMA StuckEffect ==
    ASSUME ManageTypeOK, Stuck
    PROVE  /\ pc' = "stuck"
           /\ UNCHANGED <<files, bridgeVars, job, edits, faults>>
           /\ broken' \subseteq Damage /\ broken \subseteq broken'
           /\ broken' \subseteq broken \cup {"half"}
           /\ job.changed => "half" \in broken'
<1>1. job.changed \in BOOLEAN /\ broken \subseteq Damage
  BY DEF ManageTypeOK, Job
<1>2. broken' = Half(job.changed)
  BY DEF Stuck
<1> QED BY <1>1, <1>2, HalfGrows DEF Stuck

LEMMA EndedEffect ==
    ASSUME ManageTypeOK, Ended
    PROVE  /\ pc' = "idle" /\ job' \in Job /\ job' = NoJob /\ job'.op = "none"
           /\ broken' \subseteq Damage /\ broken \subseteq broken'
           /\ broken' \subseteq broken \cup {"half"}
           /\ "half" \in broken'
<1>1. broken \subseteq Damage
  BY DEF ManageTypeOK
<1>2. broken' = Half(TRUE) /\ job' = NoJob /\ pc' = "idle"
  BY DEF Ended
<1> QED BY <1>1, <1>2, HalfGrows, NoJobFields

\* A part is found where none is wanted or made, is made, or is passed over.
LEMMA PartEffect ==
    ASSUME NEW part \in Parts, Part(part)
    PROVE  /\ pc = part
           /\ \/ Stuck
              \/ /\ part \in Wanted(job.button) \ job.found
                 /\ ~Nameless(part) /\ CreateRule(part)
              \/ /\ part \notin Wanted(job.button) /\ (part \in job.found => Nameless(part))
                 /\ pc' = After(part)
                 /\ UNCHANGED <<files, bridgeVars, job, edits, faults, broken>>
BY DEF Part

-----------------------------------------------------------------------------
(* The steps *)

\* Every step keeps the types.
LEMMA TypeStep ==
    ASSUME ManageTypeOK, JobInv, [ManageNext]_vars
    PROVE  ManageTypeOK'
<1>1. CASE Die
  BY <1>1 DEF Die, Half, ManageTypeOK, Damage, Job, NoJob, bridgeVars
<1>2. CASE Exit
  BY <1>2 DEF Exit, ManageTypeOK, Job, NoJob, bridgeVars
<1>3. CASE FindRocker
  BY <1>3 DEF FindRocker, ManageTypeOK, bridgeVars
<1>4. CASE CreateRocker
  <2>1. PICK r \in RockerIds \ rockers :
            /\ rockers' = rockers \cup {r}
            /\ \/ pc' = "note" /\ Continued
               \/ Ended
    BY <1>4, RockerEffect
  <2>2. job' \in Job /\ broken' \subseteq Damage /\ pc' \in {"note", "idle"}
    BY <2>1, EndedEffect DEF Continued, ManageTypeOK
  <2> QED BY <2>1, <2>2, <1>4 DEF CreateRocker, ManageTypeOK
<1>5. CASE NoteRocker
  BY <1>5 DEF NoteRocker, ManageTypeOK, JobInv, Model, bridgeVars, Making
<1>6. CASE \E part \in Parts : Part(part)
  <2>1. PICK part \in Parts : Part(part)
    BY <1>6
  <2>2. CASE Stuck
    BY <2>2, StuckEffect DEF ManageTypeOK, bridgeVars
  <2>3. CASE /\ part \in Wanted(job.button) \ job.found
             /\ ~Nameless(part) /\ CreateRule(part)
    <3>1. PICK i \in RuleIds \ Ids(rules) :
              /\ rules' = rules \cup {Made(i, part)}
              /\ \/ pc' = After(part) /\ Continued
                 \/ Ended
      BY <2>3, RuleEffect
    <3>2. /\ job' \in Job /\ broken' \subseteq Damage
          /\ pc' \in {"start", "end", "link", "idle"}
      BY <3>1, EndedEffect DEF Continued, ManageTypeOK, After
    <3>3. job.button \in Buttons
      BY <2>1, PartEffect DEF JobInv, Applying, Making, Parts
    <3>4. Made(i, part) \in Rule
      BY <3>3 DEF Made, Sought, Rule, ManageTypeOK, Model
    <3> QED BY <2>3, <3>1, <3>2, <3>4 DEF CreateRule, ManageTypeOK
  <2>4. CASE /\ pc' = After(part)
             /\ UNCHANGED <<files, bridgeVars, job, edits, faults, broken>>
    BY <2>4 DEF ManageTypeOK, bridgeVars, After, Parts
  <2> QED BY <2>1, <2>2, <2>3, <2>4, PartEffect
<1>7. CASE CreateLink
  <2>1. CASE Stuck
    BY <2>1, StuckEffect DEF ManageTypeOK, bridgeVars
  <2>2. CASE ~Stuck
    <3>1. /\ pc = "link"
          /\ links' = links \cup {[button |-> job.button, rocker |-> job.rocker,
                                   rules |-> job.ids]}
          /\ \/ pc' = "ok" /\ Continued
             \/ Ended
      BY <1>7, <2>2, LinkEffect
    <3>2. job' \in Job /\ broken' \subseteq Damage /\ pc' \in {"ok", "idle"}
      BY <3>1, EndedEffect DEF Continued, ManageTypeOK
    <3>3. job.button \in Buttons /\ job.rocker \in RockerIds /\ job.ids \subseteq RuleIds
      BY <3>1 DEF JobInv, Applying, Making, ManageTypeOK, Job
    <3> QED BY <1>7, <2>2, <3>1, <3>2, <3>3, LinkEffect DEF ManageTypeOK, Link
  <2> QED BY <2>1, <2>2
<1>8. CASE DeleteAll
  BY <1>8, DeleteEffect DEF ManageTypeOK, bridgeVars
<1>9. CASE DropLink
  <2>1. links' \subseteq links
    BY <1>9 DEF DropLink, Deleted
  <2> QED BY <1>9, <2>1, DropEffect DEF DropLink, ManageTypeOK
<1>10. CASE DropRule
  <2>1. rules' \subseteq rules
    BY <1>10 DEF DropRule, Deleted
  <2> QED BY <1>10, <2>1, DropEffect DEF DropRule, ManageTypeOK
<1>11. CASE DropRocker
  <2>1. rockers' \subseteq rockers
    BY <1>11 DEF DropRocker, Deleted
  <2> QED BY <1>11, <2>1, DropEffect DEF DropRocker, ManageTypeOK
<1>12. CASE Dropped
  BY <1>12 DEF Dropped, ManageTypeOK, bridgeVars
<1>13. CASE \E b \in Buttons : Apply(b)
  BY <1>13, ApplyEffect DEF ManageTypeOK, bridgeVars
<1>14. CASE \E b \in Buttons : DeleteButton(b) \/ Read(b) \/ Edit(b)
  <2>1. PICK b \in Buttons : DeleteButton(b) \/ Read(b) \/ Edit(b)
    BY <1>14
  <2>2. CASE DeleteButton(b)
    BY <2>2, ButtonEffect DEF ManageTypeOK, bridgeVars
  <2>3. CASE Read(b) \/ Edit(b)
    BY <2>3, FileEffect DEF ManageTypeOK, bridgeVars
  <2> QED BY <2>1, <2>2, <2>3
<1>15. CASE UNCHANGED vars
  BY <1>15 DEF vars, ManageTypeOK, bridgeVars
<1> QED BY <1>1, <1>2, <1>3, <1>4, <1>5, <1>6, <1>7, <1>8, <1>9, <1>10, <1>11,
           <1>12, <1>13, <1>14, <1>15 DEF ManageNext

\* Every step keeps what a run knows of itself.
LEMMA JobStep ==
    ASSUME ManageTypeOK, JobInv, [ManageNext]_vars
    PROVE  JobInv'
<1>1. CASE Die
  BY <1>1 DEF Die, JobInv, NoJob, Making, Applying, Dropping
<1>2. CASE Exit
  BY <1>2 DEF Exit, JobInv, NoJob, Making, Applying, Dropping
<1>3. CASE FindRocker
  BY <1>3 DEF FindRocker, JobInv, Applying, Dropping, bridgeVars
<1>4. CASE CreateRocker
  <2>1. PICK r \in RockerIds \ rockers :
            /\ rockers' = rockers \cup {r}
            /\ \/ /\ pc' = "note" /\ Continued
                  /\ job'.rocker = r /\ job'.ids = job.ids
               \/ Ended
    BY <1>4, RockerEffect
  <2>2. CASE Ended
    BY <2>2, EndedEffect DEF JobInv, Applying, Making, Dropping
  <2>3. CASE pc' = "note" /\ Continued /\ job'.rocker = r /\ job'.ids = job.ids
    BY <2>3, <2>1, <1>4 DEF CreateRocker, Continued, JobInv, Applying, Making, Dropping
  <2> QED BY <2>1, <2>2, <2>3
<1>5. CASE NoteRocker
  BY <1>5 DEF NoteRocker, JobInv, Making, Applying, Dropping, bridgeVars
<1>6. CASE \E part \in Parts : Part(part)
  <2>1. PICK part \in Parts : Part(part)
    BY <1>6
  <2>2. pc = part
    BY <2>1, PartEffect
  <2>3. CASE Stuck
    BY <2>2, <2>3, StuckEffect DEF JobInv, Applying, Making, Dropping, Parts
  <2>4. CASE /\ part \in Wanted(job.button) \ job.found
             /\ ~Nameless(part) /\ CreateRule(part)
    <3>1. PICK i \in RuleIds \ Ids(rules) :
              /\ rules' = rules \cup {Made(i, part)}
              /\ \/ /\ pc' = After(part) /\ Continued
                    /\ job'.rocker = job.rocker /\ job'.ids = job.ids \cup {i}
                 \/ Ended
      BY <2>4, RuleEffect
    <3>2. CASE Ended
      BY <3>2, EndedEffect DEF JobInv, Applying, Making, Dropping
    <3>3. CASE /\ pc' = After(part) /\ Continued
               /\ job'.rocker = job.rocker /\ job'.ids = job.ids \cup {i}
      <4>1. rockers' = rockers
        BY <2>4 DEF CreateRule
      <4> DEFINE new == Made(i, part)
      <4>9. /\ new \in rules' /\ rules \subseteq rules' /\ job'.button = job.button
             /\ new.id = i /\ new.button = job.button
        BY <3>1, <3>3, MadeFields DEF Continued
      <4> HIDE DEF new
      <4>2. /\ i \in Ids(RulesOf(job.button))'
            /\ Ids(RulesOf(job.button)) \subseteq Ids(RulesOf(job.button))'
        BY <4>9 DEF Ids, RulesOf
      <4> QED BY <2>2, <3>3, <4>1, <4>2
         DEF Continued, JobInv, Applying, Making, Dropping, Parts, After
    <3> QED BY <3>1, <3>2, <3>3
  <2>5. CASE /\ part \notin Wanted(job.button) /\ (part \in job.found => Nameless(part))
             /\ pc' = After(part)
             /\ UNCHANGED <<files, bridgeVars, job, edits, faults, broken>>
    BY <2>2, <2>5
       DEF JobInv, Applying, Making, Dropping, Parts, After, bridgeVars, Ids, RulesOf
  <2> QED BY <2>1, <2>3, <2>4, <2>5, PartEffect
<1>7. CASE CreateLink
  BY <1>7 DEF CreateLink, Stuck, Half, Answered, JobInv, ManageTypeOK, Job, NoJob,
     Making, Applying, Dropping
<1>8. CASE DeleteAll
  BY <1>8 DEF DeleteAll, NoJob, JobInv, Making, Applying
<1>9. CASE DropLink
  BY <1>9 DEF DropLink, JobInv, RulesOf
<1>10. CASE DropRule
  BY <1>10 DEF DropRule, Deleted, JobInv, Ids, RulesOf
<1>11. CASE DropRocker
  BY <1>11 DEF DropRocker, JobInv, Making
<1>12. CASE Dropped
  BY <1>12 DEF Dropped, JobInv, Making, Applying, Dropping
<1>13. CASE \E b \in Buttons : Apply(b)
  BY <1>13 DEF Apply, NoJob, JobInv, Making, Dropping
<1>14. CASE \E b \in Buttons : DeleteButton(b) \/ Read(b) \/ Edit(b)
  BY <1>14 DEF DeleteButton, Read, Edit, NoJob, JobInv, Making, Applying, Dropping
<1>15. CASE UNCHANGED vars
  BY <1>15 DEF vars, JobInv, bridgeVars, RulesOf
<1> QED BY <1>1, <1>2, <1>3, <1>4, <1>5, <1>6, <1>7, <1>8, <1>9, <1>10, <1>11,
           <1>12, <1>13, <1>14, <1>15 DEF ManageNext

\* No step makes a run delete what a link will still name.
LEMMA DropStep ==
    ASSUME ManageTypeOK, JobInv, DropInv, [ManageNext]_vars
    PROVE  DropInv'
<1>1. CASE Die
  BY <1>1 DEF Die, DropInv, Dropping
<1>2. CASE Exit
  BY <1>2 DEF Exit, DropInv, Dropping
<1>3. CASE FindRocker
  BY <1>3 DEF FindRocker, DropInv, Dropping
<1>4. CASE CreateRocker
  BY <1>4 DEF CreateRocker, Answered, DropInv, Dropping
<1>5. CASE NoteRocker
  BY <1>5 DEF NoteRocker, DropInv, Dropping
<1>6. CASE \E part \in Parts : Part(part)
  BY <1>6 DEF Part, Stuck, CreateRule, Answered, After, DropInv, Dropping
<1>7. CASE CreateLink
  BY <1>7 DEF CreateLink, Stuck, Answered, DropInv, Dropping
<1>8. CASE DeleteAll
  BY <1>8, DeleteEffect DEF DropInv, Dropping, bridgeVars
<1>9. CASE DropLink
  BY <1>9 DEF DropLink, Deleted, Fault, DropInv
<1>10. CASE DropRule
  BY <1>10 DEF DropRule, Deleted, Fault, DropInv
<1>11. CASE DropRocker
  BY <1>11 DEF DropRocker, Deleted, Fault, DropInv
<1>12. CASE Dropped
  BY <1>12 DEF Dropped, DropInv, Dropping, bridgeVars
<1>13. CASE \E b \in Buttons : Apply(b)
  BY <1>13 DEF Apply, DropInv, Dropping
<1>14. CASE \E b \in Buttons : DeleteButton(b) \/ Read(b) \/ Edit(b)
  BY <1>14 DEF DeleteButton, Read, Edit, DropInv, Dropping
<1>15. CASE UNCHANGED vars
  BY <1>15 DEF vars, DropInv, bridgeVars
<1> QED BY <1>1, <1>2, <1>3, <1>4, <1>5, <1>6, <1>7, <1>8, <1>9, <1>10, <1>11,
           <1>12, <1>13, <1>14, <1>15 DEF ManageNext

\* No step leaves a link without a rule or the rocker it names.
LEMMA DanglingStep ==
    ASSUME ManageTypeOK, JobInv, DropInv, NoDangling, [ManageNext]_vars
    PROVE  NoDangling'
<1>1. CASE Die
  BY <1>1 DEF Die, Half, NoDangling, bridgeVars, RulesOf
<1>2. CASE Exit
  BY <1>2 DEF Exit, NoDangling, bridgeVars, RulesOf
<1>3. CASE FindRocker
  BY <1>3 DEF FindRocker, NoDangling, bridgeVars, RulesOf
<1>4. CASE CreateRocker
  BY <1>4 DEF CreateRocker, Answered, Half, NoDangling, RulesOf
<1>5. CASE NoteRocker
  BY <1>5 DEF NoteRocker, NoDangling, bridgeVars, RulesOf
<1>6. CASE \E part \in Parts : Part(part)
  <2>1. PICK part \in Parts : Part(part)
    BY <1>6
  <2>2. pc = part
    BY <2>1, PartEffect
  <2>3. CASE Stuck
    BY <2>3, StuckEffect DEF NoDangling, Ids, RulesOf, bridgeVars
  <2>4. CASE /\ part \in Wanted(job.button) \ job.found
             /\ ~Nameless(part) /\ CreateRule(part)
    <3>1. PICK i \in RuleIds \ Ids(rules) :
              /\ rules' = rules \cup {Made(i, part)}
              /\ \/ /\ pc' = After(part) /\ Continued
                    /\ job'.rocker = job.rocker /\ job'.ids = job.ids \cup {i}
                 \/ Ended
      BY <2>4, RuleEffect
    <3>2. links' = links /\ rockers' = rockers /\ rules \subseteq rules'
      BY <2>4, <3>1 DEF CreateRule
    <3>3. broken \subseteq broken'
      BY <3>1, EndedEffect DEF Continued
    <3> QED BY <3>2, <3>3 DEF NoDangling, Ids, RulesOf
  <2>5. CASE /\ part \notin Wanted(job.button) /\ (part \in job.found => Nameless(part))
             /\ pc' = After(part)
             /\ UNCHANGED <<files, bridgeVars, job, edits, faults, broken>>
    BY <2>5 DEF NoDangling, Ids, RulesOf, bridgeVars
  <2> QED BY <2>1, <2>3, <2>4, <2>5, PartEffect
<1>7. CASE CreateLink
  BY <1>7 DEF CreateLink, Stuck, Half, Answered, NoDangling, JobInv, Making, bridgeVars,
     RulesOf
<1>8. CASE DeleteAll
  BY <1>8 DEF DeleteAll, Answer, Fault, NoDangling, bridgeVars, RulesOf
<1>9. CASE DropLink
  BY <1>9 DEF DropLink, Deleted, Fault, NoDangling, RulesOf
<1>10. CASE DropRule
  BY <1>10 DEF DropRule, Deleted, Fault, NoDangling, DropInv, Dropping
<1>11. CASE DropRocker
  BY <1>11 DEF DropRocker, Deleted, Fault, NoDangling, DropInv, Dropping
<1>12. CASE Dropped
  BY <1>12 DEF Dropped, NoDangling, bridgeVars, RulesOf
<1>13. CASE \E b \in Buttons : Apply(b)
  BY <1>13 DEF Apply, Answer, Fault, NoDangling, bridgeVars, RulesOf
<1>14. CASE \E b \in Buttons : DeleteButton(b) \/ Read(b) \/ Edit(b)
  <2>1. PICK b \in Buttons : DeleteButton(b) \/ Read(b) \/ Edit(b)
    BY <1>14
  <2>2. UNCHANGED bridgeVars /\ broken \subseteq broken'
    BY <2>1, ButtonEffect, FileEffect
  <2> QED BY <2>2 DEF NoDangling, Ids, RulesOf, bridgeVars
<1>15. CASE UNCHANGED vars
  BY <1>15 DEF vars, NoDangling, bridgeVars, RulesOf
<1> QED BY <1>1, <1>2, <1>3, <1>4, <1>5, <1>6, <1>7, <1>8, <1>9, <1>10, <1>11,
           <1>12, <1>13, <1>14, <1>15 DEF ManageNext

\* No step spoils what a run has read and not used yet.
LEMMA ReadStep ==
    ASSUME ManageTypeOK, JobInv, ReadInv, [ManageNext]_vars
    PROVE  ReadInv'
<1>1. CASE Die
  BY <1>1 DEF Die, ReadInv, Applying, Making
<1>2. CASE Exit
  BY <1>2 DEF Exit, ReadInv, Applying, Making
<1>3. CASE FindRocker
  BY <1>3 DEF FindRocker, ReadInv, Applying, Todo, HasRule, HasLink, Sought, bridgeVars
<1>4. CASE CreateRocker
  <2>1. PICK r \in RockerIds \ rockers :
            /\ rockers' = rockers \cup {r}
            /\ \/ /\ pc' = "note" /\ Continued
                  /\ job'.rocker = r /\ job'.ids = job.ids
               \/ Ended
    BY <1>4, RockerEffect
  <2>2. pc = "rocker" /\ UNCHANGED <<files, rules, links>>
    BY <1>4 DEF CreateRocker
  <2>3. CASE Ended
    BY <2>3, EndedEffect DEF ReadInv, Applying, Making
  <2>4. CASE pc' = "note" /\ Continued
    BY <2>2, <2>4 DEF Continued, ReadInv, Applying, Making, Todo, HasRule, HasLink, Sought
  <2> QED BY <2>1, <2>3, <2>4
<1>5. CASE NoteRocker
  <2>1. /\ pc = "note" /\ pc' = "short" /\ UNCHANGED <<rules, links, job, broken>>
        /\ Sought' = Sought
    BY <1>5, NoteEffect DEF NoteRocker, bridgeVars
  <2> QED BY <2>1 DEF ReadInv, Applying, Making, Todo, HasRule, HasLink
<1>6. CASE \E part \in Parts : Part(part)
  <2>1. PICK part \in Parts : Part(part)
    BY <1>6
  <2>2. pc = part
    BY <2>1, PartEffect
  <2>3. CASE Stuck
    BY <2>3, StuckEffect DEF ReadInv, Applying, Making
  <2>4. CASE /\ part \in Wanted(job.button) \ job.found
             /\ ~Nameless(part) /\ CreateRule(part)
    <3>1. PICK i \in RuleIds \ Ids(rules) :
              /\ rules' = rules \cup {Made(i, part)}
              /\ \/ /\ pc' = After(part) /\ Continued
                    /\ job'.rocker = job.rocker /\ job'.ids = job.ids \cup {i}
                 \/ Ended
      BY <2>4, RuleEffect
    <3>2. CASE Ended
      BY <3>2, EndedEffect DEF ReadInv, Applying, Making
    <3>3. CASE pc' = After(part) /\ Continued
      <4>1. links' = links /\ files' = files
        BY <2>4 DEF CreateRule
      <4>2. \A q \in Parts \ {part} : HasRule(Sought, q)' <=> HasRule(Sought, q)
        BY <3>1, <3>3, <4>1, MadeEffect DEF Continued
      <4>3. HasLink(job.button)' <=> HasLink(job.button)
        BY <4>1, <3>3 DEF HasLink, Continued
      <4>4. Todo(pc') \subseteq Todo(pc) \ {part} /\ pc \in Applying /\ Todo(pc) \subseteq Parts
        BY <2>2, <3>3 DEF Todo, After, Parts, Applying, Making
      <4> QED BY <3>3, <4>2, <4>3, <4>4 DEF ReadInv, Continued
    <3> QED BY <3>1, <3>2, <3>3
  <2>5. CASE /\ part \notin Wanted(job.button) /\ (part \in job.found => Nameless(part))
             /\ pc' = After(part)
             /\ UNCHANGED <<files, bridgeVars, job, edits, faults, broken>>
    BY <2>2, <2>5
       DEF ReadInv, Applying, Making, Parts, After, bridgeVars, Todo, HasRule, HasLink,
           Sought
  <2> QED BY <2>1, <2>3, <2>4, <2>5, PartEffect
<1>7. CASE CreateLink
  BY <1>7 DEF CreateLink, Stuck, Answered, ReadInv, Applying, Making
<1>8. CASE DeleteAll
  BY <1>8 DEF DeleteAll, ReadInv, Applying, Making
<1>9. CASE DropLink
  BY <1>9 DEF DropLink, ReadInv, Applying, Making
<1>10. CASE DropRule
  BY <1>10 DEF DropRule, Deleted, Fault, ReadInv, Todo, HasLink
<1>11. CASE DropRocker
  BY <1>11 DEF DropRocker, Deleted, Fault, ReadInv, Todo, HasLink
<1>12. CASE Dropped
  BY <1>12 DEF Dropped, ReadInv, Applying, Making
<1>13. CASE \E b \in Buttons : Apply(b)
  <2>1. PICK b \in Buttons : Apply(b)
    BY <1>13
  <2>2. /\ UNCHANGED <<files, rules, links>> /\ job'.button = b
        /\ "misread" \notin broken' =>
              /\ job'.found = {r.part : r \in NamedAs(b, rules)}
              /\ job'.linked = \E l \in links : l.button = b
    BY <2>1, ApplyEffect DEF bridgeVars
  <2>3. Sought' = files[b].naming
    BY <2>2 DEF Sought
  <2>4. ASSUME "misread" \notin broken'
        PROVE  /\ \A q \in Todo(pc') : q \in job'.found <=> HasRule(Sought, q)'
               /\ job'.linked <=> HasLink(job.button)'
    <3>1. \A q : HasRule(Sought, q)' <=> \E r \in NamedAs(b, rules) : r.part = q
      BY <2>2, <2>3 DEF HasRule, NamedAs
    <3>2. HasLink(job.button)' <=> \E l \in links : l.button = b
      BY <2>2 DEF HasLink
    <3> QED BY <2>2, <2>4, <3>1, <3>2
  <2> QED BY <2>4 DEF ReadInv
<1>14. CASE \E b \in Buttons : DeleteButton(b) \/ Read(b) \/ Edit(b)
  BY <1>14 DEF DeleteButton, Read, Edit, ReadInv, Applying, Making
<1>15. CASE UNCHANGED vars
  BY <1>15 DEF vars, ReadInv, HasRule, HasLink, Sought, bridgeVars
<1> QED BY <1>1, <1>2, <1>3, <1>4, <1>5, <1>6, <1>7, <1>8, <1>9, <1>10, <1>11,
           <1>12, <1>13, <1>14, <1>15 DEF ManageNext

\* No step makes a second rule of a name or a second link for a button.
LEMMA UniqueStep ==
    ASSUME ManageTypeOK, JobInv, ReadInv, Unique, [ManageNext]_vars
    PROVE  Unique'
<1>1. CASE Die
  BY <1>1 DEF Die, Half, Unique, bridgeVars
<1>2. CASE Exit
  BY <1>2 DEF Exit, Unique, bridgeVars
<1>3. CASE FindRocker
  BY <1>3 DEF FindRocker, Unique, bridgeVars
<1>4. CASE CreateRocker
  BY <1>4 DEF CreateRocker, Answered, Half, Unique
<1>5. CASE NoteRocker
  BY <1>5 DEF NoteRocker, Unique, bridgeVars
<1>6. CASE \E part \in Parts : Part(part)
  <2>1. PICK part \in Parts : Part(part)
    BY <1>6
  <2>2. pc = part
    BY <2>1, PartEffect
  <2>3. CASE Stuck
    BY <2>3, StuckEffect DEF Unique, bridgeVars
  <2>4. CASE /\ part \in Wanted(job.button) \ job.found
             /\ ~Nameless(part) /\ CreateRule(part)
    <3>1. PICK i \in RuleIds \ Ids(rules) :
              /\ rules' = rules \cup {Made(i, part)}
              /\ \/ /\ pc' = After(part) /\ Continued
                    /\ job'.rocker = job.rocker /\ job'.ids = job.ids \cup {i}
                 \/ Ended
      BY <2>4, RuleEffect
    <3>2. links' = links /\ broken \subseteq broken'
      BY <2>4, <3>1, EndedEffect DEF CreateRule, Continued
    <3>3. "misread" \notin broken => ~HasRule(Sought, part)
      BY <2>2, <2>4 DEF ReadInv, Todo, Parts, Applying, Making
    <3> DEFINE new == Made(i, part)
    <3>4. rules' = rules \cup {new} /\ new.part = part /\ new.naming = Sought
      BY <3>1, MadeFields
    <3> HIDE DEF new
    <3> QED BY <3>2, <3>3, <3>4 DEF Unique, HasRule
  <2>5. CASE /\ part \notin Wanted(job.button) /\ (part \in job.found => Nameless(part))
             /\ pc' = After(part)
             /\ UNCHANGED <<files, bridgeVars, job, edits, faults, broken>>
    BY <2>5 DEF Unique, bridgeVars
  <2> QED BY <2>1, <2>3, <2>4, <2>5, PartEffect
<1>7. CASE CreateLink
  BY <1>7 DEF CreateLink, Stuck, Half, Answered, Unique, ReadInv, Applying, Making,
     HasLink, bridgeVars
<1>8. CASE DeleteAll
  BY <1>8 DEF DeleteAll, Answer, Fault, Unique, bridgeVars
<1>9. CASE DropLink
  BY <1>9 DEF DropLink, Deleted, Fault, Unique
<1>10. CASE DropRule
  BY <1>10 DEF DropRule, Deleted, Fault, Unique
<1>11. CASE DropRocker
  BY <1>11 DEF DropRocker, Deleted, Fault, Unique
<1>12. CASE Dropped
  BY <1>12 DEF Dropped, Unique, bridgeVars
<1>13. CASE \E b \in Buttons : Apply(b)
  BY <1>13 DEF Apply, Answer, Fault, Unique, bridgeVars
<1>14. CASE \E b \in Buttons : DeleteButton(b) \/ Read(b) \/ Edit(b)
  <2>1. UNCHANGED bridgeVars /\ broken \subseteq broken'
    BY <1>14, ButtonEffect, FileEffect
  <2> QED BY <2>1 DEF Unique, bridgeVars
<1>15. CASE UNCHANGED vars
  BY <1>15 DEF vars, Unique, bridgeVars
<1> QED BY <1>1, <1>2, <1>3, <1>4, <1>5, <1>6, <1>7, <1>8, <1>9, <1>10, <1>11,
           <1>12, <1>13, <1>14, <1>15 DEF ManageNext

\* No step gives a button's rules other names than its model file has, unnoticed.
LEMMA NameStep ==
    ASSUME ManageTypeOK, JobInv, NameInv, [ManageNext]_vars
    PROVE  NameInv'
<1>1. CASE Die \/ Exit \/ FindRocker \/ CreateLink \/ DropLink \/ DropRocker \/ Dropped
  <2>1. UNCHANGED <<files, rules>> /\ broken \subseteq broken'
    BY <1>1 DEF Die, Exit, FindRocker, CreateLink, Stuck, Answered, Half, DropLink,
       DropRocker, Deleted, Fault, Dropped, bridgeVars
  <2> QED BY <2>1 DEF NameInv
<1>2. CASE CreateRocker
  <2>1. UNCHANGED <<files, rules>> /\ broken \subseteq broken'
    BY <1>2 DEF CreateRocker, Answered, Half
  <2> QED BY <2>1 DEF NameInv
<1>3. CASE NoteRocker
  <2>1. UNCHANGED <<rules, broken>>
    BY <1>3 DEF NoteRocker, bridgeVars
  <2>2. \A r \in rules : r.button \in Buttons
    BY DEF ManageTypeOK, Rule
  <2> QED BY <1>3, <2>1, <2>2, NoteEffect DEF NameInv
<1>4. CASE \E part \in Parts : Part(part)
  <2>1. PICK part \in Parts : Part(part)
    BY <1>4
  <2>2. CASE Stuck
    BY <2>2, StuckEffect DEF NameInv, bridgeVars
  <2>3. CASE /\ part \in Wanted(job.button) \ job.found
             /\ ~Nameless(part) /\ CreateRule(part)
    <3>1. PICK i \in RuleIds \ Ids(rules) :
              /\ rules' = rules \cup {Made(i, part)}
              /\ \/ Continued
                 \/ Ended
      BY <2>3, RuleEffect
    <3>2. files' = files /\ broken \subseteq broken'
      BY <2>3, <3>1, EndedEffect DEF CreateRule, Continued
    <3> DEFINE new == Made(i, part)
    <3>3. rules' = rules \cup {new} /\ new.naming = files[new.button].naming
      BY <3>1, MadeFields DEF Sought
    <3> HIDE DEF new
    <3> QED BY <3>2, <3>3 DEF NameInv
  <2>4. CASE UNCHANGED <<files, bridgeVars, job, edits, faults, broken>>
    BY <2>4 DEF NameInv, bridgeVars
  <2> QED BY <2>1, <2>2, <2>3, <2>4, PartEffect
<1>5. CASE DropRule
  <2>1. rules' \subseteq rules /\ files' = files /\ broken \subseteq broken'
    BY <1>5, DropEffect DEF DropRule, Deleted
  <2> QED BY <2>1 DEF NameInv
<1>6. CASE DeleteAll \/ \E b \in Buttons : Apply(b) \/ DeleteButton(b)
  <2>1. UNCHANGED <<files, rules>> /\ broken \subseteq broken'
    BY <1>6, DeleteEffect, ApplyEffect, ButtonEffect DEF bridgeVars
  <2> QED BY <2>1 DEF NameInv
<1>7. CASE \E b \in Buttons : Read(b) \/ Edit(b)
  <2>1. PICK b \in Buttons : Read(b) \/ Edit(b)
    BY <1>7
  <2>2. /\ rules' = rules /\ broken \subseteq broken'
        /\ \A c \in Buttons \ {b} : files'[c] = files[c]
        /\ \/ "renamed" \in broken' \/ RulesOf(b) = {}
           \/ files'[b].naming = files[b].naming
    BY <2>1, FileEffect DEF bridgeVars
  <2>3. \A r \in rules : r.button \in Buttons
    BY DEF ManageTypeOK, Rule
  <2> QED BY <2>2, <2>3 DEF NameInv, RulesOf
<1>8. CASE UNCHANGED vars
  BY <1>8 DEF vars, NameInv, bridgeVars
<1> QED BY <1>1, <1>2, <1>3, <1>4, <1>5, <1>6, <1>7, <1>8 DEF ManageNext

\* No step undoes what an apply has done, or leaves undone what it passes.
LEMMA DoneStep ==
    ASSUME ManageTypeOK, JobInv, ReadInv, DoneInv, [ManageNext]_vars
    PROVE  DoneInv'
<1>1. CASE Die
  BY <1>1 DEF Die, DoneInv, Applying, Making
<1>2. CASE Exit
  BY <1>2 DEF Exit, DoneInv, Applying, Making
<1>3. CASE FindRocker
  BY <1>3 DEF FindRocker, DoneInv, Todo
<1>4. CASE CreateRocker
  BY <1>4 DEF CreateRocker, Answered, DoneInv, Applying, Making, Todo
<1>5. CASE NoteRocker
  BY <1>5 DEF NoteRocker, DoneInv, Todo
<1>6. CASE \E part \in Parts : Part(part)
  <2>1. PICK part \in Parts : Part(part)
    BY <1>6
  <2>2. pc = part
    BY <2>1, PartEffect
  <2>3. CASE Stuck
    BY <2>3, StuckEffect DEF DoneInv, Applying, Making
  <2>4. CASE /\ part \in Wanted(job.button) \ job.found
             /\ ~Nameless(part) /\ CreateRule(part)
    <3>1. PICK i \in RuleIds \ Ids(rules) :
              /\ rules' = rules \cup {Made(i, part)}
              /\ \/ /\ pc' = After(part) /\ Continued
                    /\ job'.rocker = job.rocker /\ job'.ids = job.ids \cup {i}
                 \/ Ended
      BY <2>4, RuleEffect
    <3>2. CASE Ended
      BY <3>2, EndedEffect DEF DoneInv, Applying, Making
    <3>3. CASE pc' = After(part) /\ Continued
      <4>1. files' = files
        BY <2>4 DEF CreateRule
      <4>2. /\ \A q \in Parts \ {part} : /\ HasRule(Sought, q)' <=> HasRule(Sought, q)
                                        /\ Own(q)' <=> Own(q)
            /\ HasRule(Sought, part)'
            /\ ~HasRule(Sought, part) => Own(part)'
        BY <3>1, <3>3, <4>1, MadeEffect DEF Continued
      <4>3. "misread" \notin broken => ~HasRule(Sought, part)
        BY <2>2, <2>4 DEF ReadInv, Todo, Parts, Applying, Making
      <4>4. \A q \in Parts : q \in Wanted(job.button)' <=> q \in Wanted(job.button)
        BY <4>1, <3>3 DEF Wanted, Continued
      <4>5. Parts \ Todo(pc') \subseteq (Parts \ Todo(pc)) \cup {part} /\ pc \in Applying
        BY <2>2, <3>3 DEF Todo, After, Parts, Applying, Making
      <4>6. files[job.button].oneshot' <=> files[job.button].oneshot
        BY <4>1, <3>3 DEF Continued
      <4>7. job'.op = job.op /\ broken' = broken
        BY <3>3 DEF Continued
      <4>8. part \in Wanted(job.button)
        BY <2>4
      <4> QED BY <4>2, <4>3, <4>4, <4>5, <4>6, <4>7, <4>8 DEF DoneInv
    <3> QED BY <3>1, <3>2, <3>3
  <2>5. CASE /\ part \notin Wanted(job.button) /\ (part \in job.found => Nameless(part))
             /\ pc' = After(part)
             /\ UNCHANGED <<files, bridgeVars, job, edits, faults, broken>>
    <3>1. /\ UNCHANGED <<files, rules, links, job, broken>> /\ pc \in Applying
          /\ Parts \ Todo(pc') \subseteq (Parts \ Todo(pc)) \cup {part} /\ part \in Todo(pc)
      BY <2>2, <2>5 DEF bridgeVars, Todo, After, Parts, Applying, Making
    <3>2. ~files[job.button].oneshot /\ "misread" \notin broken => ~HasRule(Sought, part)
      BY <2>5, <3>1 DEF Nameless, ReadInv
    <3>3. \A q : /\ HasRule(Sought, q)' <=> HasRule(Sought, q)
                 /\ Own(q)' <=> Own(q)
                 /\ q \in Wanted(job.button)' <=> q \in Wanted(job.button)
      BY <3>1 DEF HasRule, Wanted, Sought, Own
    <3>4. ~HasRule(Sought, part) => Own(part)
      BY DEF HasRule, Own
    <3> QED BY <2>5, <3>1, <3>2, <3>3, <3>4 DEF DoneInv
  <2> QED BY <2>1, <2>3, <2>4, <2>5, PartEffect
<1>7. CASE CreateLink
  <2>1. CASE Stuck
    BY <2>1, StuckEffect DEF DoneInv, Applying, Making
  <2>2. CASE ~Stuck
    <3>1. /\ pc = "link" /\ UNCHANGED <<files, rules>>
          /\ \/ pc' = "ok" /\ Continued
             \/ Ended
      BY <1>7, <2>2, LinkEffect
    <3>2. CASE Ended
      BY <3>2, EndedEffect DEF DoneInv, Applying, Making
    <3>3. CASE pc' = "ok" /\ Continued
      <4>1. /\ job'.op = job.op /\ job'.button = job.button /\ UNCHANGED <<files, rules, broken>>
        BY <3>1, <3>3 DEF Continued
      <4>2. \A q : /\ HasRule(Sought, q)' <=> HasRule(Sought, q)
                   /\ Own(q)' <=> Own(q)
                   /\ q \in Wanted(job.button)' <=> q \in Wanted(job.button)
        BY <4>1 DEF HasRule, Wanted, Sought, Own
      <4>3. Todo(pc') = Todo(pc) /\ pc \in Applying
        BY <3>1, <3>3 DEF Todo, Applying, Making
      <4> QED BY <4>1, <4>2, <4>3 DEF DoneInv
    <3> QED BY <3>1, <3>2, <3>3
  <2> QED BY <2>1, <2>2
<1>8. CASE DeleteAll
  BY <1>8 DEF DeleteAll, DoneInv, Applying, Making
<1>9. CASE DropLink
  BY <1>9 DEF DropLink, DoneInv, Applying, Making
<1>10. CASE DropRule
  BY <1>10 DEF DropRule, DoneInv, Applying, Making
<1>11. CASE DropRocker
  BY <1>11 DEF DropRocker, DoneInv, Applying, Making
<1>12. CASE Dropped
  BY <1>12 DEF Dropped, DoneInv, JobInv, Applying, Making, Dropping, bridgeVars
<1>13. CASE \E b \in Buttons : Apply(b)
  BY <1>13 DEF Apply, DoneInv, Todo
<1>14. CASE \E b \in Buttons : DeleteButton(b) \/ Read(b) \/ Edit(b)
  <2>1. PICK b \in Buttons : DeleteButton(b) \/ Read(b) \/ Edit(b)
    BY <1>14
  <2>2. CASE DeleteButton(b)
    BY <2>2, ButtonEffect DEF DoneInv
  <2>3. CASE Read(b) \/ Edit(b)
    BY <2>3 DEF Read, Edit, DoneInv, Applying, Making
  <2> QED BY <2>1, <2>2, <2>3
<1>15. CASE UNCHANGED vars
  BY <1>15 DEF vars, DoneInv, HasRule, Own, Sought, bridgeVars, Wanted
<1> QED BY <1>1, <1>2, <1>3, <1>4, <1>5, <1>6, <1>7, <1>8, <1>9, <1>10, <1>11,
           <1>12, <1>13, <1>14, <1>15 DEF ManageNext

\* No step loses a rule or a rocker.
LEMMA OrphanStep ==
    ASSUME ManageTypeOK, JobInv, DropInv, OrphanInv, [ManageNext]_vars
    PROVE  OrphanInv'
<1>1. CASE Die
  BY <1>1 DEF Die, Half, OrphanInv, AllLinked, Making, Dropping, bridgeVars
<1>2. CASE Exit
  BY <1>2 DEF Exit, OrphanInv, AllLinked, Making, Dropping, bridgeVars
<1>3. CASE FindRocker
  BY <1>3 DEF FindRocker, OrphanInv, AllLinked, JobInv, Making, Dropping, bridgeVars
<1>4. CASE CreateRocker
  <2>1. PICK r \in RockerIds \ rockers :
            /\ rockers' = rockers \cup {r}
            /\ \/ /\ pc' = "note" /\ Continued
                  /\ job'.rocker = r /\ job'.ids = job.ids
               \/ Ended
    BY <1>4, RockerEffect
  <2>2. pc = "rocker" /\ UNCHANGED <<rules, links>>
    BY <1>4 DEF CreateRocker

  <2>3. CASE Ended
    BY <2>3, EndedEffect DEF OrphanInv
  <2>4. CASE pc' = "note" /\ Continued /\ job'.rocker = r /\ job'.ids = job.ids
    <3>1. job.ids = {}
      BY <2>2 DEF JobInv
    <3> QED BY <2>1, <2>2, <2>4, <3>1
       DEF Continued, OrphanInv, AllLinked, Making, Dropping
  <2> QED BY <2>1, <2>3, <2>4
<1>5. CASE NoteRocker
  BY <1>5 DEF NoteRocker, OrphanInv, AllLinked, Making, Dropping, bridgeVars
<1>6. CASE \E part \in Parts : Part(part)
  <2>1. PICK part \in Parts : Part(part)
    BY <1>6
  <2>2. pc = part
    BY <2>1, PartEffect
  <2>3. CASE Stuck
    BY <2>2, <2>3, StuckEffect DEF OrphanInv, AllLinked, Making, Dropping, bridgeVars
  <2>4. CASE /\ part \in Wanted(job.button) \ job.found
             /\ ~Nameless(part) /\ CreateRule(part)
    <3>1. PICK i \in RuleIds \ Ids(rules) :
              /\ rules' = rules \cup {Made(i, part)}
              /\ \/ /\ pc' = After(part) /\ Continued
                    /\ job'.rocker = job.rocker /\ job'.ids = job.ids \cup {i}
                 \/ Ended
      BY <2>4, RuleEffect
    <3>2. CASE Ended
      BY <3>2, EndedEffect DEF OrphanInv
    <3>3. CASE /\ pc' = After(part) /\ Continued
               /\ job'.rocker = job.rocker /\ job'.ids = job.ids \cup {i}
      <4>1. rockers' = rockers /\ links' = links /\ broken' = broken /\ job'.changed
        BY <2>4, <3>3 DEF CreateRule, Continued
      <4> DEFINE new == Made(i, part)
      <4>9. rules' = rules \cup {new} /\ new.id = i
        BY <3>1, MadeFields
      <4> HIDE DEF new
      <4>2. Ids(rules') = Ids(rules) \cup {i}
        BY <4>9 DEF Ids
      <4>3. pc \in Making /\ pc' \in Making /\ pc' \notin Dropping /\ pc' # "dropLinks"
        BY <2>2, <3>3 DEF Making, Dropping, After, Parts
      <4> QED BY <3>3, <4>1, <4>2, <4>3 DEF OrphanInv
    <3> QED BY <3>1, <3>2, <3>3
  <2>5. CASE /\ part \notin Wanted(job.button) /\ (part \in job.found => Nameless(part))
             /\ pc' = After(part)
             /\ UNCHANGED <<files, bridgeVars, job, edits, faults, broken>>
    <3>1. pc \in Making /\ pc' \in Making /\ pc' \notin Dropping /\ pc' # "dropLinks"
      BY <2>2, <2>5 DEF Making, Dropping, After, Parts
    <3> QED BY <2>5, <3>1 DEF OrphanInv, AllLinked, bridgeVars
  <2> QED BY <2>1, <2>3, <2>4, <2>5, PartEffect
<1>7. CASE CreateLink
  <2>1. CASE Stuck
    BY <2>1, StuckEffect DEF OrphanInv, AllLinked, Making, Dropping, bridgeVars
  <2>2. CASE ~Stuck
    <3> DEFINE new == [button |-> job.button, rocker |-> job.rocker, rules |-> job.ids]
    <3>1. /\ pc = "link" /\ rules' = rules /\ rockers' = rockers
          /\ links' = links \cup {new}
          /\ \/ pc' = "ok" /\ Continued
             \/ Ended
      BY <1>7, <2>2, LinkEffect
    <3>2. CASE Ended
      BY <3>2, EndedEffect DEF OrphanInv
    <3>3. CASE pc' = "ok" /\ Continued
      <4>1. new.rocker = job.rocker /\ new.rules = job.ids
        OBVIOUS
      <4> HIDE DEF new
      <4>2. /\ UNION {l.rules : l \in links'} = job.ids \cup UNION {l.rules : l \in links}
            /\ {l.rocker : l \in links'} = {job.rocker} \cup {l.rocker : l \in links}
        BY <3>1, <4>1
      <4> QED BY <3>1, <3>3, <4>2 DEF Continued, OrphanInv, AllLinked, Making, Dropping
    <3> QED BY <3>1, <3>2, <3>3
  <2> QED BY <2>1, <2>2
<1>8. CASE DeleteAll
  <2>1. /\ pc = "idle" /\ UNCHANGED bridgeVars /\ broken \subseteq broken'
        /\ job'.changed = FALSE
        /\ \/ /\ pc' = "dropLinks"
              /\ \/ job'.links = links
                 \/ job'.links = {}
              /\ job'.ids = UNION {l.rules : l \in job'.links}
              /\ "rockersMissed" \notin broken' =>
                    job'.rockers = {l.rocker : l \in job'.links} \cap rockers
           \/ pc' = "stuck"
    BY <1>8, DeleteEffect DEF bridgeVars
  <2>2. SUFFICES ASSUME broken' \subseteq {"misread", "renamed"}
                 PROVE  OrphanInv'
    BY DEF OrphanInv
  <2>3. AllLinked /\ AllLinked'
    BY <2>1, <2>2 DEF OrphanInv, AllLinked, Making, Dropping, bridgeVars
  <2>4. CASE pc' = "stuck"
    BY <2>3, <2>4 DEF OrphanInv, Making, Dropping
  <2>5. CASE pc' = "dropLinks" /\ job'.links = {}
    <3>1. job'.ids = {} /\ job'.rockers = {}
      BY <2>1, <2>2, <2>5
    <3> QED BY <2>3, <2>5, <3>1 DEF OrphanInv, AllLinked, Making, Dropping
  <2>6. CASE pc' = "dropLinks" /\ job'.links = links
    <3>1. links' = links
      BY <2>1 DEF bridgeVars
    <3>2. job'.ids = UNION {l.rules : l \in links} /\ job'.rockers = {l.rocker : l \in links}
      BY <2>1, <2>2, <2>3, <2>6 DEF AllLinked
    <3> QED BY <2>3, <2>6, <3>1, <3>2 DEF OrphanInv, AllLinked, Making, Dropping
  <2> QED BY <2>1, <2>4, <2>5, <2>6
<1>9. CASE DropLink
  BY <1>9 DEF DropLink, Deleted, Fault, OrphanInv, Making, Dropping
<1>10. CASE DropRule
  <2>1. PICK i \in job.ids :
            /\ Deleted(rules, {r \in rules : r.id # i}, "otherLeft")
            /\ job' = [job EXCEPT !.ids = @ \ {i}, !.changed = TRUE]
    BY <1>10 DEF DropRule
  <2>2. /\ job'.ids = job.ids \ {i} /\ job'.rockers = job.rockers /\ job'.changed = TRUE
    BY <2>1 DEF ManageTypeOK, Job
  <2>3. pc = "dropRules" /\ pc' = pc /\ links' = links /\ rockers' = rockers
    BY <1>10 DEF DropRule
  <2>4. CASE Fault("otherLeft")
    BY <2>4 DEF Fault, OrphanInv
  <2>5. CASE UNCHANGED broken /\ rules' = {r \in rules : r.id # i}
    <3>1. Ids(rules') = Ids(rules) \ {i}
      BY <2>5 DEF Ids
    <3>2. broken \subseteq {"misread", "renamed"} => links = {}
      BY <2>1, <2>3 DEF DropInv, Dropping
    <3> QED BY <2>2, <2>3, <2>5, <3>1, <3>2 DEF OrphanInv, Making, Dropping
  <2> QED BY <2>1, <2>4, <2>5 DEF Deleted
<1>11. CASE DropRocker
  <2>1. PICK r \in job.rockers :
            /\ Deleted(rockers, rockers \ {r}, "otherLeft")
            /\ job' = [job EXCEPT !.rockers = @ \ {r}, !.changed = TRUE]
    BY <1>11 DEF DropRocker
  <2>2. /\ job'.ids = job.ids /\ job'.rockers = job.rockers \ {r} /\ job'.changed = TRUE
    BY <2>1 DEF ManageTypeOK, Job
  <2>3. pc = "dropRockers" /\ pc' = pc /\ links' = links /\ rules' = rules
    BY <1>11 DEF DropRocker
  <2>4. CASE Fault("otherLeft")
    BY <2>4 DEF Fault, OrphanInv
  <2>5. CASE UNCHANGED broken /\ rockers' = rockers \ {r}
    <3>1. broken \subseteq {"misread", "renamed"} => links = {}
      BY <2>1, <2>3 DEF DropInv, Dropping
    <3> QED BY <2>2, <2>3, <2>5, <3>1 DEF OrphanInv, Making, Dropping
  <2> QED BY <2>1, <2>4, <2>5 DEF Deleted
<1>12. CASE Dropped
  <2>1. UNCHANGED <<rules, rockers, links, job, broken>>
    BY <1>12 DEF Dropped, bridgeVars
  <2>2. CASE pc = "dropRockers" /\ job.rockers = {} /\ pc' = "ok"
    <3>1. job.ids = {}
      BY <2>2 DEF JobInv
    <3> QED BY <2>1, <2>2, <3>1 DEF OrphanInv, AllLinked, Making, Dropping
  <2>3. CASE pc \in {"dropLinks", "dropRules"} /\ pc' \in {"dropRules", "dropRockers"}
    BY <2>1, <2>3 DEF OrphanInv, AllLinked, Making, Dropping
  <2> QED BY <1>12, <2>2, <2>3 DEF Dropped
<1>13. CASE \E b \in Buttons : Apply(b)
  BY <1>13 DEF Apply, Answer, Fault, OrphanInv, AllLinked, Making, Dropping, bridgeVars
<1>14. CASE \E b \in Buttons : DeleteButton(b) \/ Read(b) \/ Edit(b)
  <2>1. PICK b \in Buttons : DeleteButton(b) \/ Read(b) \/ Edit(b)
    BY <1>14
  <2>2. CASE DeleteButton(b)
    BY <2>2, ButtonEffect DEF OrphanInv, AllLinked, Making, Dropping, bridgeVars
  <2>3. CASE Read(b) \/ Edit(b)
    BY <2>3, FileEffect DEF OrphanInv, AllLinked, Making, Dropping, bridgeVars
  <2> QED BY <2>1, <2>2, <2>3
<1>15. CASE UNCHANGED vars
  BY <1>15 DEF vars, OrphanInv, AllLinked, bridgeVars
<1> QED BY <1>1, <1>2, <1>3, <1>4, <1>5, <1>6, <1>7, <1>8, <1>9, <1>10, <1>11,
           <1>12, <1>13, <1>14, <1>15 DEF ManageNext

-----------------------------------------------------------------------------
(* The theorems *)

LEMMA MInvInit == ManageInit => MInv
<1> SUFFICES ASSUME ManageInit PROVE MInv
  OBVIOUS
<1>1. ManageTypeOK
  <2> QED BY NoJobFields, ManageAssumption DEF ManageInit, ManageTypeOK
<1>2. JobInv /\ DropInv /\ NoDangling /\ ReadInv /\ Unique /\ NameInv /\ DoneInv
  BY NoJobFields DEF ManageInit, JobInv, DropInv, NoDangling, ReadInv, Unique, NameInv,
     DoneInv, Applying, Making, Dropping
<1>3. OrphanInv
  <2>1. Ids(rules) = {} /\ links = {} /\ rockers = {} /\ pc = "idle"
    BY DEF ManageInit, Ids
  <2> QED BY <2>1 DEF OrphanInv, AllLinked, Making, Dropping
<1> QED BY <1>1, <1>2, <1>3 DEF MInv

\* The invariant of the rule manager, of whose parts those below are made.
THEOREM MInvHolds == ManageSpec => []MInv
<1>1. ASSUME MInv, [ManageNext]_vars
      PROVE  MInv'
  <2> USE <1>1 DEF MInv
  <2>1. ManageTypeOK' /\ JobInv'
    BY TypeStep, JobStep
  <2>2. DropInv' /\ NoDangling'
    BY DropStep, DanglingStep
  <2>3. ReadInv' /\ Unique' /\ NameInv' /\ DoneInv'
    BY ReadStep, UniqueStep, NameStep, DoneStep
  <2>4. OrphanInv'
    BY OrphanStep
  <2> QED BY <2>1, <2>2, <2>3, <2>4
<1> QED BY MInvInit, <1>1, PTL DEF ManageSpec

\* Every variable has its type in every state.
THEOREM ManageTypeCorrect == ManageSpec => []ManageTypeOK
BY MInvHolds, PTL DEF MInv

\* Wherever a run dies, no resource link names a rule or a rocker that is not
\* there, unless a link's deletion failed.
THEOREM DanglingHolds == ManageSpec => []NoDangling
BY MInvHolds, PTL DEF MInv

\* However often runs die and are repeated, no name has two rules and no button two
\* links, unless a list was misread; and no part of a button has two rules, unless
\* besides a model file was given other names while its button had rules.
THEOREM OneOfEachHolds == ManageSpec => []OneOfEach
<1>1. Unique /\ NameInv => OneOfEach
  BY DEF Unique, NameInv, OneOfEach
<1> QED BY MInvHolds, <1>1, PTL DEF MInv

\* Unless a run ended half-way, a deletion failed or the rockers were missed, every
\* rule and every rocker is named by a link.
THEOREM OrphansHold == ManageSpec => []NoOrphans
<1>1. MInv => NoOrphans
  BY DEF MInv, OrphanInv, AllLinked, NoOrphans, Making, Dropping
<1> QED BY MInvHolds, <1>1, PTL

\* An apply that reports success has left exactly the rules of the model file,
\* whatever died before it, unless a list was misread or the file is one shot; and
\* its button has no others, unless a file was renamed while its button had rules.
THEOREM ExactHolds == ManageSpec => []ExactSet
<1>1. ASSUME MInv PROVE ExactSet
  <2> DEFINE named == NamedAs(job.button, rules)
  <2>1. SUFFICES ASSUME pc = "ok", job.op = "apply", "misread" \notin broken,
                        ~files[job.button].oneshot
                 PROVE  /\ {r.part : r \in named} = Wanted(job.button)
                        /\ \A r, s \in named : r.part = s.part => r = s
                        /\ named \subseteq RulesOf(job.button)
                        /\ "renamed" \notin broken => named = RulesOf(job.button)
    BY DEF ExactSet
  <2>2. \A q \in Parts : /\ q \in Wanted(job.button) <=> HasRule(Sought, q)
                         /\ Own(q)
    BY <1>1, <2>1 DEF MInv, DoneInv, Todo
  <2>3. Wanted(job.button) \subseteq Parts
    BY DEF Wanted, Parts
  <2>4. \A r \in rules : r.part \in Parts
    BY <1>1 DEF MInv, ManageTypeOK, Rule
  <2>5. \A r : r \in named <=> r \in rules /\ r.naming = Sought
    BY DEF NamedAs, Sought
  <2> HIDE DEF named
  <2>6. {r.part : r \in named} = Wanted(job.button)
    BY <2>2, <2>3, <2>4, <2>5 DEF HasRule
  <2>7. \A r, s \in named : r.part = s.part => r = s
    BY <1>1, <2>1, <2>5 DEF MInv, Unique
  <2>8. named \subseteq RulesOf(job.button)
    BY <2>2, <2>4, <2>5 DEF Own, RulesOf
  <2>9. "renamed" \notin broken => RulesOf(job.button) \subseteq named
    BY <1>1, <2>5 DEF MInv, NameInv, RulesOf, Sought
  <2> QED BY <2>6, <2>7, <2>8, <2>9
<1> QED BY MInvHolds, <1>1, PTL
=============================================================================
