------------------------------ MODULE HueGroups ------------------------------
(***************************************************************************)
(* hue.inc.groups.tcl: the groups of the bridge as tables in the memory of *)
(* each Tcl process and in hue_groups_cache.tcl, believed for 30 days.     *)
(* Membership is edited by reading the table, changing the list and        *)
(* putting the whole list to the bridge, which knows no versions.          *)
(***************************************************************************)
EXTENDS Integers

CONSTANTS
    Procs,      \* the Tcl processes
    Groups,     \* group indices
    Lights,     \* light indices
    Names,      \* group names
    TypeOf,     \* the type of each group; the bridge never changes it
    Newcomers,  \* groups that do not exist at first
    NoName,     \* not a name
    NoGroup,    \* not a group
    MaxEdits    \* bound: changes of the groups at the bridge

Types == {"room", "lightgroup", "zone", "entertainment"}

ASSUME GroupsAssumption ==
    /\ TypeOf \in [Groups -> Types]
    /\ Newcomers \subseteq Groups
    /\ NoName \notin Names /\ NoGroup \notin Groups
    /\ MaxEdits \in Nat

VARIABLES
    bridge,     \* the groups of the bridge
    disk,       \* hue_groups_cache.tcl
    mem,        \* the tables of each process
    pc,         \* where each process is
    job,        \* what it has been called to do
    edits,      \* how many times the groups have been changed
    touched,    \* history: groups changed behind the back of each process's tables
    diskTouched \* history: groups changed since the tables of the file were right

procVars == <<mem, pc, job>>
history == <<touched, diskTouched>>
vars == <<bridge, disk, mem, pc, job, edits, touched, diskTouched>>

\* nameByIndex, typeByIndex and lightsByIndex at one index; each may be unset.
Entry  == [name : Names \cup {NoName}, typed : BOOLEAN, lights : SUBSET Lights]
Absent == [name |-> NoName, typed |-> FALSE, lights |-> {}]
Tables == [loaded : BOOLEAN, at : [Groups -> Entry],
           index : [Names -> Groups \cup {NoGroup}]]
Cold   == [loaded |-> FALSE, at |-> [g \in Groups |-> Absent],
           index |-> [n \in Names |-> NoGroup]]
Job    == [op : {"none", "call", "add", "remove", "set", "rename", "apply"},
           group : Groups \cup {NoGroup}, light : SUBSET Lights,
           name : Names \cup {NoName}]
NoJob  == [op |-> "none", group |-> NoGroup, light |-> {}, name |-> NoName]
\* A call of which nothing has been looked at yet.
ACall  == [NoJob EXCEPT !.op = "call"]
\* What a call may turn out to be, apart from a list or lookup.
Edits  == {j \in Job :
              /\ j.op \in {"add", "remove", "set", "rename", "apply"}
              /\ j.group # NoGroup
              /\ j.op \in {"rename", "apply"} <=> j.name # NoName
              /\ j.op \in {"add", "remove"} => \E l \in Lights : j.light = {l}
              /\ j.op \in {"rename", "apply"} => j.light = {}}

GroupsTypeOK ==
    /\ bridge \in [Groups -> Entry]
    /\ disk \in Tables
    /\ mem \in [Procs -> Tables]
    /\ pc \in [Procs -> {"idle", "ensure", "load", "work", "answered", "save",
                         "truncated"}]
    /\ job \in [Procs -> Job]
    /\ edits \in 0..MaxEdits
    /\ touched \in [Procs -> SUBSET Groups]
    /\ diskTouched \in SUBSET Groups

GroupsInit ==
    /\ \E n \in Names :
          bridge = [g \in Groups |->
                      IF g \in Newcomers THEN Absent
                      ELSE [name |-> n, typed |-> TRUE, lights |-> {}]]
    /\ disk = Cold
    /\ mem = [p \in Procs |-> Cold]
    /\ pc = [p \in Procs |-> "idle"]
    /\ job = [p \in Procs |-> NoJob]
    /\ edits = 0
    /\ touched = [p \in Procs |-> {}]
    /\ diskTouched = {}

-----------------------------------------------------------------------------
(* The preferred group of a name *)

\* _typeRank; a group without a type ranks last.
TypeRank(table, g) ==
    IF ~table[g].typed THEN 9
    ELSE CASE TypeOf[g] = "room" -> 1
           [] TypeOf[g] = "lightgroup" -> 2
           [] TypeOf[g] = "zone" -> 3
           [] OTHER -> 9

Named(table, S, n) == {g \in S : table[g].name = n}

\* Mutant: the group seen first keeps the name.
FirstSeen(table, S) ==
    {f \in [Names -> Groups \cup {NoGroup}] :
        \A n \in Names :
            IF Named(table, S, n) = {} THEN f[n] = NoGroup
            ELSE f[n] \in Named(table, S, n)}

\* _rebuildPreferredIndexByName over the groups S, in the order of the array: of
\* the groups of one name the best type wins, the first of them on a tie.
Preferred(table, S) ==
    {f \in [Names -> Groups \cup {NoGroup}] :
        \A n \in Names :
            IF Named(table, S, n) = {} THEN f[n] = NoGroup
            ELSE /\ f[n] \in Named(table, S, n)
                 /\ \A g \in Named(table, S, n) :
                       TypeRank(table, f[n]) <= TypeRank(table, g)}

Known(table) == {g \in Groups : table[g].name # NoName}

\* Comparing with a group that has a name and no type is an error in Tcl.
Comparable(table) ==
    \A g, h \in Known(table) :
        g # h /\ table[g].name = table[h].name => table[g].typed /\ table[h].typed

-----------------------------------------------------------------------------
(* One process *)

Goto(p, l) == pc' = [pc EXCEPT ![p] = l]

\* The call is over: it returned, or a Tcl error reached the caller.
Done(p) == Goto(p, "idle") /\ job' = [job EXCEPT ![p] = NoJob]

\* softError, a normal end or a kill.
Exit(p) ==
    /\ Done(p)
    /\ mem' = [mem EXCEPT ![p] = Cold]
    /\ touched' = [touched EXCEPT ![p] = {}]

End(p) ==
    /\ pc[p] # "idle" \/ mem[p] # Cold
    /\ Exit(p)
    /\ UNCHANGED <<bridge, disk, edits, diskTouched>>

\* A list or lookup, an edit of the lights, a rename, or both by an array; which
\* of them is looked at only after the tables are there.
Begin(p) ==
    /\ pc[p] = "idle"
    /\ job' = [job EXCEPT ![p] = ACall]
    /\ Goto(p, "ensure")
    /\ UNCHANGED <<bridge, disk, mem, edits, history>>

\* ensureLoaded: a process without tables takes those of the file; tables that
\* are too old, and a reset, are cleared and read again.
EnsureLoaded(p) ==
    /\ pc[p] = "ensure"
    /\ \/ /\ mem[p].loaded
          /\ Goto(p, "work")
          /\ UNCHANGED <<mem, touched>>
       \/ /\ ~mem[p].loaded
          /\ disk.loaded
          /\ mem' = [mem EXCEPT ![p] = disk]
          /\ touched' = [touched EXCEPT ![p] = diskTouched]
          /\ Goto(p, "work")
       \/ /\ mem' = [mem EXCEPT ![p] = Cold]
          /\ touched' = [touched EXCEPT ![p] = {}]
          /\ Goto(p, "load")
    /\ UNCHANGED <<bridge, disk, job, edits, diskTouched>>

\* loadAll: GET /groups fills the tables; saveCache follows.
LoadAll(p) ==
    /\ pc[p] = "load"
    /\ \E f \in Preferred(bridge, Known(bridge)) :
          mem' = [mem EXCEPT ![p] = [loaded |-> TRUE, at |-> bridge, index |-> f]]
    /\ touched' = [touched EXCEPT ![p] = {}]
    /\ Goto(p, "save")
    /\ UNCHANGED <<bridge, disk, job, edits, diskTouched>>

\* curl or the parser fails; the tables stay empty.
LoadFails(p) ==
    /\ pc[p] = "load"
    /\ Done(p)
    /\ UNCHANGED <<bridge, disk, mem, edits, history>>

\* saveCache: open truncates the file, close writes it.
Truncate(p) ==
    /\ pc[p] = "save"
    /\ disk' = Cold
    /\ diskTouched' = {}
    /\ Goto(p, "truncated")
    /\ UNCHANGED <<bridge, mem, job, edits, touched>>

\* A call goes on with the tables it has loaded, apply with its second half; an
\* edit that is done is over.
Flush(p) ==
    /\ pc[p] = "truncated"
    /\ disk' = mem[p]
    /\ diskTouched' = touched[p]
    /\ Goto(p, IF job[p].op = "none" THEN "idle"
               ELSE IF job[p].op = "call" THEN "work" ELSE "ensure")
    /\ UNCHANGED <<bridge, mem, job, edits, touched>>

-----------------------------------------------------------------------------
(* Edits *)

Requests(p) == IF job[p].op = "call" THEN Edits ELSE {job[p]}

\* What the table of the process has of the group of request j.
Row(p, j) == mem[p].at[j.group]

IsLightEdit(j) == j.op \in {"add", "remove", "set"}
IsRename(j)    == j.op \in {"rename", "apply"}

\* _ensureEditable, by the type in the table.
Editable(p, j) ==
    /\ Row(p, j).typed
    /\ TypeOf[j.group] \in {"room", "lightgroup", "zone"}

\* addLightToGroupByIndex and removeLightFromGroupByIndex may have nothing to do.
NothingToDo(p, j) ==
    /\ Row(p, j).typed
    /\ \/ j.op = "add" /\ j.light \subseteq Row(p, j).lights
       \/ j.op = "remove" /\ j.light \cap Row(p, j).lights = {}

\* Mutant: remove puts what it has removed.
WantedInverted(p, j) ==
    IF j.op = "add" THEN Row(p, j).lights \cup j.light
    ELSE IF j.op = "remove" THEN Row(p, j).lights \cap j.light
    ELSE j.light

\* The list of lights that is put.
Wanted(p, j) ==
    IF j.op = "add" THEN Row(p, j).lights \cup j.light
    ELSE IF j.op = "remove" THEN Row(p, j).lights \ j.light
    ELSE j.light

\* What a change of group g means for the tables that are not the writer's.
Changed(g, writer) ==
    /\ edits < MaxEdits
    /\ edits' = edits + 1
    /\ touched' = [q \in Procs |-> IF q \in writer THEN touched[q] ELSE touched[q] \cup {g}]
    /\ diskTouched' = diskTouched \cup {g}

\* The request is answered, or by an error object: the group is gone, the process
\* ends.
Put(p, j, entry) ==
    \/ /\ bridge[j.group] # Absent
       /\ bridge' = [bridge EXCEPT ![j.group] = entry]
       /\ Changed(j.group, {p})
       /\ Goto(p, "answered")
       /\ job' = [job EXCEPT ![p] = j]
       /\ UNCHANGED mem
    \/ /\ bridge[j.group] = Absent
       /\ Exit(p)
       /\ UNCHANGED <<bridge, edits, diskTouched>>

\* A list or lookup, or an edit without effect.
Consult(p) ==
    /\ pc[p] = "work"
    /\ job[p].op # "call" => NothingToDo(p, job[p])
    /\ Done(p)
    /\ UNCHANGED <<bridge, disk, mem, edits, history>>

\* A group the table does not know, or one that cannot be edited: softError.
Refuse(p) ==
    /\ pc[p] = "work"
    /\ \E j \in Requests(p) :
          IsLightEdit(j) /\ ~Editable(p, j) /\ ~NothingToDo(p, j)
    /\ Exit(p)
    /\ UNCHANGED <<bridge, disk, edits, diskTouched>>

\* setLightsByIndex: PUT /groups/<index> {"lights":[...]}
PutLights(p) ==
    /\ pc[p] = "work"
    /\ \E j \in Requests(p) :
          /\ IsLightEdit(j)
          /\ Editable(p, j)
          /\ ~NothingToDo(p, j)
          /\ Put(p, j, [bridge[j.group] EXCEPT !.lights = Wanted(p, j)])
    /\ UNCHANGED disk

\* renameGroupByIndex: PUT /groups/<index> {"name":...}; no table is consulted.
PutName(p) ==
    /\ pc[p] = "work"
    /\ \E j \in Requests(p) :
          /\ IsRename(j)
          /\ Put(p, j, [bridge[j.group] EXCEPT !.name = j.name])
    /\ UNCHANGED disk

\* curl fails before the bridge has the request, or after: a Tcl error.
CurlFails(p) ==
    /\ \/ pc[p] = "work" /\ UNCHANGED touched
       \/ /\ pc[p] = "answered"
          /\ touched' = [touched EXCEPT ![p] = @ \cup {job[p].group}]
    /\ Done(p)
    /\ UNCHANGED <<bridge, disk, mem, edits, diskTouched>>

\* Mutant: the table keeps the list it had.
ForgetLights(p) ==
    /\ pc[p] = "answered"
    /\ IsLightEdit(job[p])
    /\ Goto(p, "save")
    /\ job' = [job EXCEPT ![p] = NoJob]
    /\ UNCHANGED <<bridge, disk, mem, edits, history>>

\* Mutant: what was asked for goes into the table, not what was put.
RememberAsked(p) ==
    /\ pc[p] = "answered"
    /\ IsLightEdit(job[p])
    /\ mem' = [mem EXCEPT ![p].at[job[p].group].lights = job[p].light]
    /\ Goto(p, "save")
    /\ job' = [job EXCEPT ![p] = NoJob]
    /\ UNCHANGED <<bridge, disk, edits, history>>

\* The new list goes into the table, then to the file.
RememberLights(p) ==
    /\ pc[p] = "answered"
    /\ IsLightEdit(job[p])
    /\ mem' = [mem EXCEPT ![p].at[job[p].group].lights = Wanted(p, job[p])]
    /\ Goto(p, "save")
    /\ job' = [job EXCEPT ![p] = NoJob]
    /\ UNCHANGED <<bridge, disk, edits, history>>

\* What is left to do: apply goes on to the lights, if its array has any.
Rest(p) ==
    IF job[p].op = "apply"
    THEN {NoJob} \cup {[job[p] EXCEPT !.op = "set", !.name = NoName, !.light = L] :
                          L \in SUBSET Lights \ {{}}}
    ELSE {NoJob}

\* Mutant: the preferred groups are not computed again.
RenameOnly(p) ==
    /\ pc[p] = "answered"
    /\ IsRename(job[p])
    /\ mem' = [mem EXCEPT ![p].at[job[p].group].name = job[p].name]
    /\ Goto(p, "save")
    /\ \E j \in Rest(p) : job' = [job EXCEPT ![p] = j]
    /\ UNCHANGED <<bridge, disk, edits, history>>

\* The new name goes into the table and the preferred groups are computed again;
\* where that fails half-way the tables are left as they are, and not saved.
RememberName(p) ==
    LET table == [mem[p].at EXCEPT ![job[p].group].name = job[p].name] IN
    /\ pc[p] = "answered"
    /\ IsRename(job[p])
    /\ \/ /\ \E f \in Preferred(table, Known(table)) :
                mem' = [mem EXCEPT ![p].at = table, ![p].index = f]
          /\ Goto(p, "save")
          /\ \E j \in Rest(p) : job' = [job EXCEPT ![p] = j]
       \/ /\ ~Comparable(table)
          /\ \E S \in SUBSET Known(table) : \E f \in Preferred(table, S) :
                mem' = [mem EXCEPT ![p].at = table, ![p].index = f]
          /\ Done(p)
    /\ UNCHANGED <<bridge, disk, edits, history>>

-----------------------------------------------------------------------------
\* Another program of the user's creates, deletes, renames or refills a group.
Elsewhere ==
    /\ \E g \in Groups :
          /\ \E n \in Names, L \in SUBSET Lights :
                bridge' = [bridge EXCEPT ![g] = [name |-> n, typed |-> TRUE, lights |-> L]]
             \/ bridge' = [bridge EXCEPT ![g] = Absent]
          /\ Changed(g, {})
    /\ UNCHANGED <<disk, procVars>>

Step(p) ==
    \/ End(p) \/ Begin(p) \/ EnsureLoaded(p) \/ LoadAll(p) \/ LoadFails(p)
    \/ Truncate(p) \/ Flush(p) \/ Consult(p) \/ Refuse(p) \/ PutLights(p)
    \/ PutName(p) \/ CurlFails(p) \/ RememberLights(p) \/ RememberName(p)

GroupsNext == Elsewhere \/ \E p \in Procs : Step(p)

GroupsSpec == GroupsInit /\ [][GroupsNext]_vars

-----------------------------------------------------------------------------
(* Properties *)

\* A process that has put an edit and has yet to remember it.
InFlight(p, g) == pc[p] = "answered" /\ job[p].group = g

\* What a table says of a group is what the bridge has, unless the group was
\* changed by someone else, or by an edit whose answer got lost, since the table
\* was read from the bridge - through every copy between memory and file, every
\* edit of the process itself and every failure.
TablesMirrorBridge ==
    /\ disk.loaded =>
          \A g \in Groups \ diskTouched : disk.at[g] = bridge[g]
    /\ \A p \in Procs : mem[p].loaded =>
          \A g \in Groups \ touched[p] : InFlight(p, g) \/ mem[p].at[g] = bridge[g]

\* Adding or removing a light costs a group no other light, unless the table it
\* was computed from was out of date (addLightToGroupByIndex puts whole lists).
EditKeepsMembers ==
    [][\A p \in Procs :
          LET g == job'[p].group IN
          pc[p] = "work" /\ pc'[p] = "answered" /\ g \notin touched[p] =>
             /\ job'[p].op = "add" =>
                   bridge'[g].lights = bridge[g].lights \cup job'[p].light
             /\ job'[p].op = "remove" =>
                   bridge'[g].lights = bridge[g].lights \ job'[p].light]_vars

\* A name is resolved to a group that bears it, and to a room before a light
\* group before a zone before the rest, after any loads and renames; for tables
\* in which every group that shares its name has a type.
PreferredIndexRight ==
    \A t \in {disk} \cup {mem[p] : p \in Procs} :
        t.loaded /\ Comparable(t.at) =>
          \A n \in Names :
            LET bearers == {g \in Groups : t.at[g].name = n}
                ranks   == {TypeRank(t.at, g) : g \in bearers}
            IN  IF bearers = {} THEN t.index[n] = NoGroup
                ELSE /\ t.index[n] \in bearers
                     /\ \A r \in ranks : TypeRank(t.at, t.index[n]) <= r

\* An edit the bridge has and the table has not yet.
Pending(p, g) ==
    LET j == job[p] IN
    IF IsRename(j) THEN [mem[p].at[g] EXCEPT !.name = j.name]
    ELSE [mem[p].at[g] EXCEPT !.lights = Wanted(p, j)]

\* What a process, and the file, know of a group.
Know(p, g) ==
    IF ~mem[p].loaded \/ g \in touched[p] THEN {}
    ELSE IF InFlight(p, g) THEN {Pending(p, g)} ELSE {mem[p].at[g]}
FileKnow(g) == IF disk.loaded /\ g \notin diskTouched THEN {disk.at[g]} ELSE {}

Table == INSTANCE CachedTable WITH
            Readers <- Procs, Keys <- Groups, Values <- Entry,
            truth <- bridge,
            copy <- [p \in Procs |-> [g \in Groups |-> Know(p, g)]],
            file <- [g \in Groups |-> FileKnow(g)]

\* The groups are a cached table: whatever is called, fails, dies or happens at
\* the bridge, a table changes only by a fetch, by the file, or by an edit the
\* bridge has taken, and knows an entry only as long as it is true.
GroupsAreCached == Table!TableSpec
=============================================================================
