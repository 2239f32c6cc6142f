------------------------------ MODULE FohManage ------------------------------
(***************************************************************************)
(* hue.inc.diff/foh_manage.sh: the rules of one Friends-of-Hue switch.  A  *)
(* model file per button says what a short and a long press do; a run of   *)
(* the script makes rules of it, a rocker (a status sensor the long rules  *)
(* keep their state in) and a resource link that holds them together, one  *)
(* request after the other.  A run may die between any two of them.        *)
(*                                                                         *)
(* Rules are looked up by the name the model file gives them, which is     *)
(* free; the link is named for the button.                                 *)
(* Whatever is looked up by its name is looked up by `.key | first`, which *)
(* jq refuses for the string a key is: a lookup that finds something ends  *)
(* the script (set -e), one that finds nothing goes on.                    *)
(***************************************************************************)
EXTENDS FiniteSets, Naturals

CONSTANTS
    Buttons,    \* the buttons of the switch
    RuleIds,    \* ids the bridge gives to rules
    RockerIds,  \* ids it gives to status sensors
    NoRocker,   \* a model file that names no rocker
    NoButton,   \* no button
    MaxEdits,   \* bound: edits of the model files
    MaxFaults   \* bound: errors that a run takes for success

ASSUME ManageAssumption ==
    /\ NoRocker \notin RockerIds /\ NoButton \notin Buttons
    /\ MaxEdits \in Nat /\ MaxFaults \in Nat

VARIABLES
    files,      \* <sensor>_<button>.json
    rules,      \* /rules of the bridge
    rockers,    \* /sensors, the status sensors among them
    links,      \* /resourcelinks
    pc,         \* where the run is, or how it ended
    job,        \* what it is to do, and what it has read of the bridge
    edits,      \* how often a model file has been edited
    faults,     \* how many errors were taken for success
    broken      \* history: what went wrong so far

bridgeVars == <<rules, rockers, links>>
vars == <<files, bridgeVars, pc, job, edits, faults, broken>>

Parts == {"short", "start", "end"}
\* A model file: which presses have actions, and whether a long press is one
\* shot instead of one that is held.  Its rules bear names of the user's, or the
\* default ones.
Names == Buttons \X {"own", "default"}
Model == [short : BOOLEAN, long : BOOLEAN, oneshot : BOOLEAN,
          rocker : RockerIds \cup {NoRocker}, naming : Names]
Empty(b) == [short |-> FALSE, long |-> FALSE, oneshot |-> FALSE,
             rocker |-> NoRocker, naming |-> <<b, "default">>]
\* A rule is made for a button, by its events; its name is the naming and the part.
Rule  == [id : RuleIds, button : Buttons, part : Parts, naming : Names]
Link  == [button : Buttons, rocker : RockerIds, rules : SUBSET RuleIds]
Job   == [op : {"none", "apply", "deleteAll", "deleteButton"},
          button : Buttons \cup {NoButton},
          rocker : RockerIds \cup {NoRocker},
          found : SUBSET Parts,     \* parts /rules has the name of, as read
          linked : BOOLEAN,         \* /resourcelinks has the link, as read
          ids : SUBSET RuleIds,     \* rules made, or to be deleted
          rockers : SUBSET RockerIds, links : SUBSET Link,
          changed : BOOLEAN]        \* the run has changed the bridge
NoJob == [op |-> "none", button |-> NoButton, rocker |-> NoRocker,
          found |-> {}, linked |-> FALSE,
          ids |-> {}, rockers |-> {}, links |-> {}, changed |-> FALSE]
\* A run ended half-way; a list was taken for empty, be it one that rules and links
\* are looked up in or that of the rockers to delete; a link or something else was
\* not deleted; a model file got other names while its button had rules.
Damage == {"half", "misread", "rockersMissed", "linkLeft", "otherLeft", "renamed"}

ManageTypeOK ==
    /\ files \in [Buttons -> Model]
    /\ rules \subseteq Rule
    /\ rockers \subseteq RockerIds
    /\ links \subseteq Link
    /\ pc \in {"idle", "rocker", "note", "short", "start", "end", "link",
               "dropLinks", "dropRules", "dropRockers", "ok", "stuck"}
    /\ job \in Job
    /\ edits \in 0..MaxEdits
    /\ faults \in 0..MaxFaults
    /\ broken \subseteq Damage

\* Files with a short press, with both, and with one shot, perhaps emptied again.
Templates(b) == {[Empty(b) EXCEPT !.short = TRUE],
                 [Empty(b) EXCEPT !.short = TRUE, !.long = TRUE],
                 [Empty(b) EXCEPT !.long = TRUE, !.oneshot = TRUE],
                 [Empty(b) EXCEPT !.short = TRUE, !.oneshot = TRUE]}

\* The user has named the rules; the default names come with a read or an edit.
ManageInit ==
    /\ files \in [Buttons -> Model]
    /\ \A b \in Buttons : \E m \in Templates(b) :
          files[b] = [m EXCEPT !.naming = <<b, "own">>]
    /\ rules = {} /\ rockers = {} /\ links = {}
    /\ pc = "idle"
    /\ job = NoJob
    /\ edits = 0 /\ faults = 0
    /\ broken = {}

Ids(R) == {r.id : r \in R}
RulesOf(b) == {r \in rules : r.button = b}
\* find_rule_id_by_name_for_sid, for the names of a model file, in a list as read
NamedAs(b, R) == {r \in R : r.naming = files[b].naming}

-----------------------------------------------------------------------------
(* How runs begin and end *)

\* An error the run does not notice.
Fault(what) ==
    /\ faults < MaxFaults
    /\ faults' = faults + 1
    /\ broken' = broken \cup {what}

\* GET: the lists as they are, or an error object in which nothing will be found.
Answer(right, what) ==
    \/ right /\ UNCHANGED <<faults, broken>>
    \/ ~right /\ Fault(what)

Half(changed) == IF changed THEN broken \cup {"half"} ELSE broken

\* A kill, a request that does not arrive, or a `die`.
Die ==
    /\ pc \notin {"idle", "ok", "stuck"}
    /\ pc' = "idle"
    /\ job' = NoJob
    /\ broken' = Half(job.changed)
    /\ UNCHANGED <<files, bridgeVars, edits, faults>>

\* A lookup that finds something.
Stuck ==
    /\ pc' = "stuck"
    /\ broken' = Half(job.changed)
    /\ UNCHANGED <<files, bridgeVars, job, edits, faults>>

\* The exit status is there to be read, and then the next run may start.
Exit ==
    /\ pc \in {"ok", "stuck"}
    /\ pc' = "idle"
    /\ job' = NoJob
    /\ UNCHANGED <<files, bridgeVars, edits, faults, broken>>

-----------------------------------------------------------------------------
(* foh_manage.sh <sensor> <button>: apply *)

Wanted(b) == (IF files[b].short THEN {"short"} ELSE {})
             \cup (IF files[b].long THEN {"start", "end"} ELSE {})

\* Without actions there is nothing to apply.
Apply(b) ==
    /\ pc = "idle"
    /\ Wanted(b) # {}
    /\ \E R \in {rules, {}}, L \in {links, {}} :
          /\ Answer(R = rules /\ L = links, "misread")
          /\ job' = [NoJob EXCEPT !.op = "apply", !.button = b,
                                  !.rocker = files[b].rocker,
                                  !.found = {r.part : r \in NamedAs(b, R)},
                                  !.linked = \E l \in L : l.button = b]
    /\ pc' = "rocker"
    /\ UNCHANGED <<files, bridgeVars, edits>>

\* Mutant: the rocker of the model file is not looked for.
TrustRocker ==
    /\ pc = "rocker"
    /\ job.rocker # NoRocker
    /\ pc' = "short"
    /\ UNCHANGED <<files, bridgeVars, job, edits, faults, broken>>

\* The rocker of the model file must exist.
FindRocker ==
    /\ pc = "rocker"
    /\ job.rocker \in rockers
    /\ pc' = "short"
    /\ UNCHANGED <<files, bridgeVars, job, edits, faults, broken>>

\* A request whose answer may get lost: then the script ends.
Answered(next, j) ==
    \/ pc' = next /\ job' = j /\ UNCHANGED broken
    \/ pc' = "idle" /\ job' = NoJob /\ broken' = Half(TRUE)

\* A model file without a rocker: the one there may be is never found.
CreateRocker ==
    /\ pc = "rocker"
    /\ job.rocker = NoRocker
    /\ \E r \in RockerIds \ rockers :
          /\ rockers' = rockers \cup {r}
          /\ Answered("note", [job EXCEPT !.rocker = r, !.changed = TRUE])
    /\ UNCHANGED <<files, rules, links, edits, faults>>

\* Its id goes into the model file.
NoteRocker ==
    /\ pc = "note"
    /\ files' = [files EXCEPT ![job.button].rocker = job.rocker]
    /\ pc' = "short"
    /\ UNCHANGED <<bridgeVars, job, edits, faults, broken>>

After(part) == CASE part = "short" -> "start"
                 [] part = "start" -> "end"
                 [] OTHER -> "link"

\* POST /rules
CreateRule(part) ==
    /\ \E i \in RuleIds \ Ids(rules) :
          /\ rules' = rules \cup {[id |-> i, button |-> job.button, part |-> part,
                                   naming |-> files[job.button].naming]}
          /\ Answered(After(part), [job EXCEPT !.ids = @ \cup {i}, !.changed = TRUE])
    /\ UNCHANGED <<files, rockers, links, edits, faults>>

\* One shot has no rule for the end: its name is null, and so is its body, which
\* the bridge refuses.
Nameless(part) == part = "end" /\ files[job.button].oneshot

\* Mutant: what is not wanted is not looked up.
PartUnchecked(part) ==
    /\ pc = part
    /\ \/ part \in Wanted(job.button) /\ part \in job.found /\ ~Nameless(part) /\ Stuck
       \/ part \in Wanted(job.button) \ job.found /\ ~Nameless(part) /\ CreateRule(part)
       \/ /\ part \notin Wanted(job.button)
          /\ pc' = After(part)
          /\ UNCHANGED <<files, bridgeVars, job, edits, faults, broken>>

\* Mutant: a rule is created where there is one already.
PartTwice(part) ==
    /\ pc = part
    /\ ~Nameless(part)
    /\ part \in Wanted(job.button)
    /\ CreateRule(part)

\* apply_one_rule for a part that is wanted, delete_rule_by_name_if_exists for
\* one that is not.
Part(part) ==
    /\ pc = part
    /\ \/ part \in job.found /\ ~Nameless(part) /\ Stuck
       \/ part \in Wanted(job.button) \ job.found /\ ~Nameless(part) /\ CreateRule(part)
       \/ /\ part \notin Wanted(job.button) /\ (part \in job.found => Nameless(part))
          /\ pc' = After(part)
          /\ UNCHANGED <<files, bridgeVars, job, edits, faults, broken>>

\* The resource link is created last.
CreateLink ==
    /\ pc = "link"
    /\ \/ job.linked /\ Stuck
       \/ /\ ~job.linked
          /\ links' = links \cup {[button |-> job.button, rocker |-> job.rocker,
                                   rules |-> job.ids]}
          /\ Answered("ok", [job EXCEPT !.changed = TRUE])
          /\ UNCHANGED <<files, rules, rockers, edits, faults>>

-----------------------------------------------------------------------------
(* foh_manage.sh <sensor> -delete *)

\* Mutant: the filter for rockers prints none.
DeleteNoRockers ==
    /\ pc = "idle"
    /\ job' = [NoJob EXCEPT !.op = "deleteAll", !.links = links,
                            !.ids = UNION {l.rules : l \in links}]
    /\ pc' = "dropLinks"
    /\ UNCHANGED <<files, bridgeVars, edits, faults, broken>>

\* All links that name the sensor, the rules they hold and the rockers among the
\* sensors as read.  The filter for these fails if the last sensor it is asked about
\* is none, and then the script ends; for the switch itself it skips the question.
DeleteAll ==
    /\ pc = "idle"
    /\ \E L \in {links, {}}, S \in {rockers, {}} :
          /\ Answer(L = links /\ S = rockers,
                    IF L = links THEN "rockersMissed" ELSE "misread")
          /\ \/ /\ job' = [NoJob EXCEPT !.op = "deleteAll", !.links = L,
                                        !.ids = UNION {l.rules : l \in L},
                                        !.rockers = {l.rocker : l \in L} \cap S]
                /\ pc' = "dropLinks"
             \/ /\ \E l \in L : l.rocker \notin S
                /\ job' = [NoJob EXCEPT !.op = "deleteAll"]
                /\ pc' = "stuck"
    /\ UNCHANGED <<files, bridgeVars, edits>>

\* do_delete: what comes of it is ignored.
Deleted(list, gone, what) ==
    \/ list' = gone /\ UNCHANGED <<faults, broken>>
    \/ list # gone /\ UNCHANGED list /\ Fault(what)

\* DELETE /resourcelinks/<id>, for each of them
DropLink ==
    /\ pc = "dropLinks"
    /\ \E l \in job.links :
          /\ Deleted(links, links \ {l}, "linkLeft")
          /\ job' = [job EXCEPT !.links = @ \ {l}, !.changed = TRUE]
    /\ UNCHANGED <<files, rules, rockers, pc, edits>>

\* DELETE /rules/<id>
DropRule ==
    /\ pc = "dropRules"
    /\ \E i \in job.ids :
          /\ Deleted(rules, {r \in rules : r.id # i}, "otherLeft")
          /\ job' = [job EXCEPT !.ids = @ \ {i}, !.changed = TRUE]
    /\ UNCHANGED <<files, rockers, links, pc, edits>>

\* DELETE /sensors/<id>
DropRocker ==
    /\ pc = "dropRockers"
    /\ \E r \in job.rockers :
          /\ Deleted(rockers, rockers \ {r}, "otherLeft")
          /\ job' = [job EXCEPT !.rockers = @ \ {r}, !.changed = TRUE]
    /\ UNCHANGED <<files, rules, links, pc, edits>>

\* First all links, then all rules, then all rockers.
Dropped ==
    /\ \/ pc = "dropLinks" /\ job.links = {} /\ pc' = "dropRules"
       \/ pc = "dropRules" /\ job.ids = {} /\ pc' = "dropRockers"
       \/ pc = "dropRockers" /\ job.rockers = {} /\ pc' = "ok"
    /\ UNCHANGED <<files, bridgeVars, job, edits, faults, broken>>

-----------------------------------------------------------------------------
(* The rest *)

\* foh_manage.sh <sensor> <button> -delete: of a rule that is found the script
\* dies, and so it does of a function it does not have if the file names rules for
\* a long press, as it may without actions for one.
DeleteButton(b) ==
    /\ pc = "idle"
    /\ links # {}
    /\ job' = [NoJob EXCEPT !.op = "deleteButton", !.button = b]
    /\ \E R \in {rules, {}} :
          /\ Answer(R = rules, "misread")
          /\ \/ pc' = "stuck"
             \/ /\ ~files[b].long
                /\ \A r \in NamedAs(b, R) : r.part # "short"
                /\ pc' = "ok"
    /\ UNCHANGED <<files, bridgeVars, edits>>

\* What a button's rules are called is not what its model file says any more.
Renamed(b, n) ==
    IF n # files[b].naming /\ RulesOf(b) # {} THEN {"renamed"} ELSE {}

\* foh_manage.sh <sensor> <button> read: if no link is seen the model file becomes
\* empty, with the default names; else the script exits before it writes.
Read(b) ==
    /\ pc = "idle"
    /\ \/ links = {} /\ UNCHANGED faults
       \/ links # {} /\ faults < MaxFaults /\ faults' = faults + 1
    /\ files' = [files EXCEPT ![b] = Empty(b)]
    /\ broken' = broken \cup Renamed(b, Empty(b).naming)
    /\ UNCHANGED <<bridgeVars, pc, job, edits>>

\* The user edits a model file, perhaps into a copy of another button's.
Edit(b) ==
    /\ pc = "idle"
    /\ edits < MaxEdits
    /\ edits' = edits + 1
    /\ \E m \in Templates(b),
          k \in {NoRocker} \cup {files[c].rocker : c \in Buttons},
          n \in ({b} \X {"own", "default"}) \cup {files[c].naming : c \in Buttons} :
          /\ files' = [files EXCEPT ![b] = [m EXCEPT !.rocker = k, !.naming = n]]
          /\ broken' = broken \cup Renamed(b, n)
    /\ UNCHANGED <<bridgeVars, pc, job, faults>>

ManageNext ==
    \/ Die \/ Exit \/ FindRocker \/ CreateRocker \/ NoteRocker
    \/ \E part \in Parts : Part(part)
    \/ CreateLink
    \/ DeleteAll \/ DropLink \/ DropRule \/ DropRocker \/ Dropped
    \/ \E b \in Buttons : Apply(b) \/ DeleteButton(b) \/ Read(b) \/ Edit(b)

ManageSpec == ManageInit /\ [][ManageNext]_vars

-----------------------------------------------------------------------------
(* Properties *)

\* What the bridge has for a button is what its model file asks for.
Exact(b) ==
    /\ {r.part : r \in RulesOf(b)} = Wanted(b)
    /\ \A r, s \in RulesOf(b) : r.part = s.part => r = s

\* After an apply that says "OK applied" the rules of the names in the model file
\* are the wanted ones, none more and none twice, and all of this button, whatever
\* runs died before it; and the button has no others, unless a file was given other
\* names, by an edit or by a read, while its button had rules.  But for a list that
\* was misread, and for one-shot files, whose unnamed rule is not looked up.
ExactSet ==
    pc = "ok" /\ job.op = "apply" /\ "misread" \notin broken
    /\ ~files[job.button].oneshot =>
        LET named == NamedAs(job.button, rules) IN
        /\ {r.part : r \in named} = Wanted(job.button)
        /\ \A r, s \in named : r.part = s.part => r = s
        /\ named \subseteq RulesOf(job.button)
        /\ "renamed" \notin broken => named = RulesOf(job.button)

\* The rules and the rocker a resource link names exist, in the middle of a run
\* and wherever it dies (links are created last and deleted first), until a link
\* survives its deletion.
NoDangling ==
    "linkLeft" \notin broken =>
        \A l \in links :
            l.rocker \in rockers /\ l.rules \subseteq Ids(RulesOf(l.button))

\* No name has two rules and no button two links, however often a run died half-way
\* or left something undeleted and was started again; only a misread list can bring
\* that about.  Nor has a part of a button two rules, so that the switch does
\* nothing twice, unless besides a model file was given other names, by an edit or
\* by a read, while its button had rules: those are not found any more.
OneOfEach ==
    "misread" \notin broken =>
        /\ \A r, s \in rules :
              /\ r.part = s.part
              /\ r.naming = s.naming \/ (r.button = s.button /\ "renamed" \notin broken)
              => r = s
        /\ \A k, l \in links : k.button = l.button => k = l

\* Unless a run ended half-way, a deletion failed or a deletion took the list of
\* sensors for empty, every rule and rocker can be reached from a link, and so can
\* be deleted, whatever else was misread and however files were renamed.
NoOrphans ==
    pc = "idle" /\ broken \subseteq {"misread", "renamed"} =>
        /\ Ids(rules) = UNION {l.rules : l \in links}
        /\ rockers = {l.rocker : l \in links}

\* "Enforce exact set" (foh_manage.sh): an apply all of whose requests went
\* through leaves the rules the model file asks for.
SetEnforced == pc \in {"ok", "stuck"} /\ job.op = "apply" => Exact(job.button)
=============================================================================
