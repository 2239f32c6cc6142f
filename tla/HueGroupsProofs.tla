--------------------------- MODULE HueGroupsProofs ---------------------------
(***************************************************************************)
(* HueGroups keeps its types and implements CachedTable, for any number of *)
(* processes, groups, lights, names and edits.                             *)
(***************************************************************************)
EXTENDS HueGroups, TLAPS

\* What a process has to do, by where it is.
JobOK ==
    \A p \in Procs :
        /\ pc[p] = "idle" => job[p] = NoJob
        /\ pc[p] \in {"ensure", "load", "work"} => job[p] \in {ACall} \cup Edits
        /\ pc[p] = "answered" => job[p] \in Edits
        /\ pc[p] \in {"save", "truncated"} => job[p] \in {NoJob, ACall} \cup Edits

Inv == GroupsTypeOK /\ JobOK

-----------------------------------------------------------------------------
(* Types *)

LEMMA Jobs ==
    /\ NoJob \in Job /\ ACall \in Job /\ Edits \subseteq Job
    /\ ACall \notin Edits /\ NoJob \notin Edits
    /\ Cold \in Tables /\ Absent \in Entry
BY GroupsAssumption DEF NoJob, ACall, Edits, Job, Cold, Tables, Absent, Entry

LEMMA Ops == NoJob.op = "none" /\ ACall.op = "call"
BY DEF NoJob, ACall

LEMMA EditShape ==
    ASSUME NEW j \in Edits
    PROVE  /\ j \in Job /\ j.group \in Groups /\ j.light \subseteq Lights
           /\ IsRename(j) => j.name \in Names
           /\ ~IsLightEdit(j) => IsRename(j)
           /\ j.op # "none" /\ j.op # "call"
BY GroupsAssumption DEF Edits, Job, IsRename, IsLightEdit

LEMMA PreferredType ==
    ASSUME NEW table, NEW S, NEW f \in Preferred(table, S)
    PROVE  f \in [Names -> Groups \cup {NoGroup}]
BY DEF Preferred

LEMMA InitInv == GroupsInit => Inv
<1> SUFFICES ASSUME GroupsInit PROVE Inv
  OBVIOUS
<1>1. GroupsTypeOK
  <2>1. bridge \in [Groups -> Entry]
    BY Jobs DEF GroupsInit, Entry
  <2>2. disk \in Tables /\ mem \in [Procs -> Tables] /\ job \in [Procs -> Job]
    BY Jobs DEF GroupsInit
  <2>3. edits \in 0..MaxEdits
    BY GroupsAssumption DEF GroupsInit
  <2> QED
    BY <2>1, <2>2, <2>3 DEF GroupsInit, GroupsTypeOK
<1>2. JobOK
  BY DEF GroupsInit, JobOK
<1> QED
  BY <1>1, <1>2 DEF Inv

LEMMA ExitInv ==
    ASSUME Inv, NEW p \in Procs, Exit(p),
           UNCHANGED <<bridge, disk, edits, diskTouched>>
    PROVE  Inv'
<1>1. GroupsTypeOK'
  BY Jobs DEF Inv, GroupsTypeOK, Exit, Done, Goto
<1>2. JobOK'
  BY DEF Inv, GroupsTypeOK, JobOK, Exit, Done, Goto
<1> QED
  BY <1>1, <1>2 DEF Inv

\* Steps before a request is sent.
LEMMA LoadInv ==
    ASSUME Inv, NEW p \in Procs,
           \/ Begin(p) \/ EnsureLoaded(p) \/ LoadAll(p) \/ LoadFails(p)
           \/ Truncate(p) \/ Flush(p) \/ Consult(p) \/ CurlFails(p)
    PROVE  Inv'
<1> USE DEF Inv, GroupsTypeOK, JobOK, Goto, Done, history
<1>1. CASE Begin(p)
  BY <1>1, Jobs DEF Begin
<1>2. CASE EnsureLoaded(p)
  <2>1. GroupsTypeOK'
    BY <1>2, Jobs DEF EnsureLoaded
  <2>2. JobOK'
    BY <1>2 DEF EnsureLoaded
  <2> QED
    BY <2>1, <2>2
<1>3. CASE LoadAll(p)
  <2>1. PICK f \in Preferred(bridge, Known(bridge)) :
          mem' = [mem EXCEPT ![p] = [loaded |-> TRUE, at |-> bridge, index |-> f]]
    BY <1>3 DEF LoadAll
  <2>2. [loaded |-> TRUE, at |-> bridge, index |-> f] \in Tables
    BY PreferredType DEF Tables
  <2>3. mem' \in [Procs -> Tables]
    BY <2>1, <2>2
  <2>4. GroupsTypeOK'
    BY <1>3, <2>3 DEF LoadAll
  <2>5. JobOK'
    BY <1>3 DEF LoadAll
  <2> QED
    BY <2>4, <2>5
<1>4. CASE LoadFails(p)
  BY <1>4, Jobs DEF LoadFails
<1>5. CASE Truncate(p)
  BY <1>5, Jobs DEF Truncate
<1>6. CASE Flush(p)
  <2>1. GroupsTypeOK'
    BY <1>6 DEF Flush
  <2>2. job[p] \in {NoJob, ACall} \cup Edits
    BY <1>6 DEF Flush
  <2>3. CASE job[p] = NoJob
    BY <1>6, <2>3, Ops DEF Flush
  <2>4. CASE job[p] = ACall
    BY <1>6, <2>4, Ops DEF Flush
  <2>5. CASE job[p] \in Edits
    BY <1>6, <2>5, EditShape DEF Flush
  <2> QED
    BY <2>1, <2>2, <2>3, <2>4, <2>5
<1>7. CASE Consult(p)
  BY <1>7, Jobs DEF Consult
<1>8. CASE CurlFails(p)
  <2>1. touched' \in [Procs -> SUBSET Groups]
    BY <1>8, EditShape DEF CurlFails
  <2> QED
    BY <1>8, <2>1, Jobs DEF CurlFails
<1> QED
  BY <1>1, <1>2, <1>3, <1>4, <1>5, <1>6, <1>7, <1>8

LEMMA ChangedType ==
    ASSUME GroupsTypeOK, NEW g \in Groups, NEW W, Changed(g, W)
    PROVE  /\ edits' \in 0..MaxEdits
           /\ touched' \in [Procs -> SUBSET Groups]
           /\ diskTouched' \in SUBSET Groups
BY GroupsAssumption DEF GroupsTypeOK, Changed

\* A request that is sent, and its answer.
LEMMA PutInv ==
    ASSUME Inv, NEW p \in Procs, pc[p] = "work", NEW j \in Edits,
           NEW entry, bridge[j.group] \in Entry => entry \in Entry,
           Put(p, j, entry), UNCHANGED disk
    PROVE  Inv'
<1>1. CASE Exit(p) /\ UNCHANGED <<bridge, edits, diskTouched>>
  BY <1>1, ExitInv
<1>2. CASE /\ bridge' = [bridge EXCEPT ![j.group] = entry]
           /\ Changed(j.group, {p})
           /\ Goto(p, "answered")
           /\ job' = [job EXCEPT ![p] = j]
           /\ UNCHANGED mem
  <2>1. j.group \in Groups /\ j \in Job
    BY EditShape
  <2>2. entry \in Entry
    BY <2>1 DEF Inv, GroupsTypeOK
  <2>3. GroupsTypeOK'
    BY <1>2, <2>1, <2>2, ChangedType DEF Inv, GroupsTypeOK, Goto
  <2>4. JobOK'
    BY <1>2, <2>1 DEF Inv, GroupsTypeOK, JobOK, Goto
  <2> QED
    BY <2>3, <2>4 DEF Inv
<1> QED
  BY <1>1, <1>2 DEF Put

LEMMA RequestShape ==
    ASSUME Inv, NEW p \in Procs, pc[p] = "work", NEW j \in Requests(p),
           IsLightEdit(j) \/ IsRename(j)
    PROVE  j \in Edits
BY DEF Inv, JobOK, Requests, IsLightEdit, IsRename, ACall, NoJob

LEMMA WantedType ==
    ASSUME Inv, NEW p \in Procs, NEW j \in Edits
    PROVE  Wanted(p, j) \subseteq Lights
BY EditShape DEF Inv, GroupsTypeOK, Tables, Entry, Wanted, Row

LEMMA LightsInv ==
    ASSUME Inv, NEW p \in Procs, PutLights(p)
    PROVE  Inv'
<1>1. PICK j \in Requests(p) :
         /\ IsLightEdit(j)
         /\ Put(p, j, [bridge[j.group] EXCEPT !.lights = Wanted(p, j)])
  BY DEF PutLights
<1>2. j \in Edits
  BY <1>1, RequestShape DEF PutLights
<1>3. bridge[j.group] \in Entry =>
         [bridge[j.group] EXCEPT !.lights = Wanted(p, j)] \in Entry
  BY <1>2, WantedType DEF Entry
<1> QED
  BY <1>1, <1>2, <1>3, PutInv DEF PutLights

LEMMA NameInv ==
    ASSUME Inv, NEW p \in Procs, PutName(p)
    PROVE  Inv'
<1>1. PICK j \in Requests(p) :
         /\ IsRename(j)
         /\ Put(p, j, [bridge[j.group] EXCEPT !.name = j.name])
  BY DEF PutName
<1>2. j \in Edits
  BY <1>1, RequestShape DEF PutName
<1>3. bridge[j.group] \in Entry =>
         [bridge[j.group] EXCEPT !.name = j.name] \in Entry
  BY <1>1, <1>2, EditShape DEF Entry
<1> QED
  BY <1>1, <1>2, <1>3, PutInv DEF PutName

LEMMA RememberInv ==
    ASSUME Inv, NEW p \in Procs, RememberLights(p) \/ RememberName(p)
    PROVE  Inv'
<1> USE DEF Inv
<1>0. /\ pc[p] = "answered" /\ job[p] \in Edits /\ job[p].group \in Groups
      /\ mem[p] \in Tables /\ mem[p].at \in [Groups -> Entry]
  BY EditShape DEF RememberLights, RememberName, JobOK, GroupsTypeOK, Tables
<1>1. CASE RememberLights(p)
  <2>1. Wanted(p, job[p]) \subseteq Lights
    BY <1>0, WantedType
  <2> DEFINE row == [mem[p].at[job[p].group] EXCEPT !.lights = Wanted(p, job[p])]
             table == [mem[p] EXCEPT !.at = [mem[p].at EXCEPT ![job[p].group] = row]]
  <2>2. row \in Entry
    BY <1>0, <2>1 DEF Entry
  <2>3. table \in Tables
    BY <1>0, <2>2 DEF Tables
  <2>4. mem' = [mem EXCEPT ![p] = table]
    BY <1>1, <1>0 DEF RememberLights
  <2> HIDE DEF table
  <2>5. mem' \in [Procs -> Tables]
    BY <2>3, <2>4 DEF GroupsTypeOK
  <2>6. GroupsTypeOK'
    BY <1>1, <2>5, Jobs DEF RememberLights, GroupsTypeOK, Goto, history
  <2>7. JobOK'
    BY <1>1 DEF RememberLights, GroupsTypeOK, JobOK, Goto
  <2> QED
    BY <2>6, <2>7
<1>2. CASE RememberName(p)
  <2> DEFINE at == [mem[p].at EXCEPT ![job[p].group].name = job[p].name]
  <2>1. at \in [Groups -> Entry]
    BY <1>0, <1>2, EditShape DEF Entry, RememberName
  <2>2. PICK f \in [Names -> Groups \cup {NoGroup}] :
           mem' = [mem EXCEPT ![p].at = at, ![p].index = f]
    BY <1>2, PreferredType DEF RememberName
  <2> HIDE DEF at
  <2>3. [mem[p] EXCEPT !.at = at, !.index = f] \in Tables
    BY <1>0, <2>1 DEF Tables
  <2>4. mem' = [mem EXCEPT ![p] = [mem[p] EXCEPT !.at = at, !.index = f]]
    BY <2>2, <1>0 DEF GroupsTypeOK
  <2>5. mem' \in [Procs -> Tables]
    BY <2>3, <2>4 DEF GroupsTypeOK
  <2>6. Rest(p) \subseteq {NoJob} \cup Edits
    <3> DEFINE set(L) == [job[p] EXCEPT !.op = "set", !.name = NoName, !.light = L]
    <3>1. ASSUME NEW L \in SUBSET Lights PROVE set(L) \in Edits
      <4>1. set(L) \in Job
        BY <1>0, EditShape DEF Job
      <4>2. set(L).op = "set" /\ set(L).group # NoGroup /\ set(L).name = NoName
        BY <1>0, EditShape, GroupsAssumption DEF Job
      <4> HIDE DEF set
      <4> QED
        BY <4>1, <4>2 DEF Edits
    <3> QED
      BY <3>1 DEF Rest
  <2>7. \E j \in {NoJob} \cup Edits : job' = [job EXCEPT ![p] = j]
    BY <1>2, <2>6 DEF RememberName, Done
  <2>8. GroupsTypeOK'
    <3>1. job' \in [Procs -> Job]
      BY <2>7, Jobs DEF GroupsTypeOK
    <3>2. pc' \in [Procs -> {"idle", "ensure", "load", "work", "answered", "save",
                             "truncated"}]
      BY <1>2 DEF RememberName, GroupsTypeOK, Goto, Done
    <3>3. UNCHANGED <<bridge, disk, edits, touched, diskTouched>>
      BY <1>2 DEF RememberName, history
    <3> QED
      BY <2>5, <3>1, <3>2, <3>3 DEF GroupsTypeOK
  <2>9. JobOK'
    BY <1>2, <2>7 DEF RememberName, GroupsTypeOK, JobOK, Goto, Done
  <2> QED
    BY <2>8, <2>9
<1> QED
  BY <1>1, <1>2

LEMMA ElsewhereInv == ASSUME Inv, Elsewhere PROVE Inv'
<1>1. GroupsTypeOK'
  <2>1. PICK g \in Groups :
           /\ \E e \in Entry : bridge' = [bridge EXCEPT ![g] = e]
           /\ Changed(g, {})
    BY Jobs DEF Elsewhere, Entry
  <2> QED
    BY <2>1, ChangedType DEF Inv, GroupsTypeOK, Elsewhere, procVars
<1>2. JobOK'
  BY DEF Inv, JobOK, Elsewhere, procVars
<1> QED
  BY <1>1, <1>2 DEF Inv

LEMMA StepInv == Inv /\ [GroupsNext]_vars => Inv'
<1> SUFFICES ASSUME Inv, [GroupsNext]_vars PROVE Inv'
  OBVIOUS
<1>1. CASE UNCHANGED vars
  BY <1>1 DEF Inv, GroupsTypeOK, JobOK, vars
<1>2. CASE Elsewhere
  BY <1>2, ElsewhereInv
<1>3. ASSUME NEW p \in Procs, Step(p) PROVE Inv'
  <2>1. CASE End(p) \/ Refuse(p)
    BY <2>1, ExitInv DEF End, Refuse
  <2>2. CASE PutLights(p)
    BY <2>2, LightsInv
  <2>3. CASE PutName(p)
    BY <2>3, NameInv
  <2>4. CASE RememberLights(p) \/ RememberName(p)
    BY <2>4, RememberInv
  <2> QED
    BY <1>3, <2>1, <2>2, <2>3, <2>4, LoadInv DEF Step
<1> QED
  BY <1>1, <1>2, <1>3 DEF GroupsNext

\* Types and jobs, for all values of the constants.
THEOREM GroupsInvHolds == GroupsSpec => []Inv
BY InitInv, StepInv, PTL DEF GroupsSpec

\* Every variable of bridge, file and processes keeps its type.
THEOREM GroupsTypeCorrect == GroupsSpec => []GroupsTypeOK
<1>1. Inv => GroupsTypeOK
  BY DEF Inv
<1> QED
  BY GroupsInvHolds, <1>1, PTL

-----------------------------------------------------------------------------
(* The abstract table *)

Copy == [p \in Procs |-> [g \in Groups |-> Know(p, g)]]
File == [g \in Groups |-> FileKnow(g)]
None == [g \in Groups |-> {}]

\* What CachedTable says of the groups.
LEMMA TableIs ==
    /\ Table!TableTypeOK <=> /\ bridge \in [Groups -> Entry]
                             /\ Copy \in [Procs -> [Groups -> SUBSET Entry]]
                             /\ File \in [Groups -> SUBSET Entry]
    /\ Table!KnowsTruth <=> /\ \A r \in Procs, k \in Groups : Copy[r][k] \subseteq {bridge[k]}
                            /\ \A k \in Groups : File[k] \subseteq {bridge[k]}
    /\ Table!tableVars = <<bridge, Copy, File>>
    /\ Table!TableInit => /\ bridge \in [Groups -> Entry]
                          /\ Copy = [r \in Procs |-> None] /\ File = None
BY DEF Table!TableTypeOK, Table!KnowsTruth, Table!tableVars, Table!TableInit, Table!Blank,
       Copy, File, None

LEMMA TableIsNext ==
    /\ Table!TableTypeOK' <=> /\ bridge' \in [Groups -> Entry]
                              /\ Copy' \in [Procs -> [Groups -> SUBSET Entry]]
                              /\ File' \in [Groups -> SUBSET Entry]
    /\ Table!KnowsTruth' <=>
          /\ \A r \in Procs, k \in Groups : Copy'[r][k] \subseteq {bridge'[k]}
          /\ \A k \in Groups : File'[k] \subseteq {bridge'[k]}
    /\ UNCHANGED Table!tableVars <=> UNCHANGED <<bridge, Copy, File>>
BY DEF Table!TableTypeOK, Table!KnowsTruth, Table!tableVars, Copy, File

LEMMA TableSteps ==
    ASSUME Table!TableNext
    PROVE  \/ File' = None /\ UNCHANGED <<bridge, Copy>>
           \/ \E r \in Procs :
                 /\ Copy' = [Copy EXCEPT ![r] = [k \in Groups |-> {bridge[k]}]]
                 /\ UNCHANGED <<bridge, File>>
           \/ \E r \in Procs : Copy' = [Copy EXCEPT ![r] = File] /\ UNCHANGED <<bridge, File>>
           \/ \E r \in Procs : File' = Copy[r] /\ UNCHANGED <<bridge, Copy>>
           \/ \E r \in Procs : Copy' = [Copy EXCEPT ![r] = None] /\ UNCHANGED <<bridge, File>>
           \/ \E r \in Procs, k \in Groups :
                 Copy' = [Copy EXCEPT ![r][k] = {}] /\ UNCHANGED <<bridge, File>>
           \/ \E k \in Groups, v \in Entry, W \in SUBSET Procs :
                 /\ bridge' = [bridge EXCEPT ![k] = v]
                 /\ Copy' = [r \in Procs |->
                                [Copy[r] EXCEPT ![k] = IF r \in W THEN {v} ELSE {}]]
                 /\ File' = [File EXCEPT ![k] = {}]
<1>1. ASSUME Table!Discard
      PROVE  File' = None /\ UNCHANGED <<bridge, Copy>>
  BY <1>1 DEF Table!Discard, Table!Blank, Copy, File, None
<1>2. ASSUME NEW r \in Procs, Table!Fetch(r)
      PROVE  /\ Copy' = [Copy EXCEPT ![r] = [k \in Groups |-> {bridge[k]}]]
             /\ UNCHANGED <<bridge, File>>
  BY <1>2 DEF Table!Fetch, Copy, File
<1>3. ASSUME NEW r \in Procs, Table!Adopt(r)
      PROVE  Copy' = [Copy EXCEPT ![r] = File] /\ UNCHANGED <<bridge, File>>
  BY <1>3 DEF Table!Adopt, Copy, File
<1>4. ASSUME NEW r \in Procs, Table!Store(r)
      PROVE  File' = Copy[r] /\ UNCHANGED <<bridge, Copy>>
  BY <1>4 DEF Table!Store, Copy, File
<1>5. ASSUME NEW r \in Procs, Table!Forget(r)
      PROVE  Copy' = [Copy EXCEPT ![r] = None] /\ UNCHANGED <<bridge, File>>
  BY <1>5 DEF Table!Forget, Table!Blank, Copy, File, None
<1>6. ASSUME NEW r \in Procs, NEW k \in Groups, Table!Doubt(r, k)
      PROVE  Copy' = [Copy EXCEPT ![r][k] = {}] /\ UNCHANGED <<bridge, File>>
  BY <1>6 DEF Table!Doubt, Copy, File
<1>7. ASSUME NEW k \in Groups, NEW v \in Entry, NEW W \in SUBSET Procs, Table!Change(k, v, W)
      PROVE  /\ bridge' = [bridge EXCEPT ![k] = v]
             /\ Copy' = [r \in Procs |->
                            [Copy[r] EXCEPT ![k] = IF r \in W THEN {v} ELSE {}]]
             /\ File' = [File EXCEPT ![k] = {}]
  BY <1>7 DEF Table!Change, Copy, File
<1>8. CASE Table!Discard
  BY <1>1, <1>8
<1>9. CASE \E r \in Procs : Table!Fetch(r) \/ Table!Adopt(r) \/ Table!Store(r)
                            \/ Table!Forget(r)
  BY <1>2, <1>3, <1>4, <1>5, <1>9
<1>10. CASE \E r \in Procs, k \in Groups : Table!Doubt(r, k)
  BY <1>6, <1>10
<1>11. CASE \E k \in Groups, v \in Entry :
               Table!Change(k, v, {}) \/ \E r \in Procs : Table!Change(k, v, {r})
  <2>1. PICK k \in Groups, v \in Entry :
               Table!Change(k, v, {}) \/ \E r \in Procs : Table!Change(k, v, {r})
    BY <1>11
  <2>2. PICK W \in SUBSET Procs : Table!Change(k, v, W)
    BY <2>1
  <2>3. /\ bridge' = [bridge EXCEPT ![k] = v]
        /\ Copy' = [r \in Procs |-> [Copy[r] EXCEPT ![k] = IF r \in W THEN {v} ELSE {}]]
        /\ File' = [File EXCEPT ![k] = {}]
    BY <1>7, <2>2
  <2> QED
    BY <2>3
<1> QED
  BY <1>8, <1>9, <1>10, <1>11 DEF Table!TableNext

\* No step gives an entry another type.
LEMMA TypeStep ==
    ASSUME Table!TableTypeOK, [Table!TableNext]_Table!tableVars
    PROVE  Table!TableTypeOK'
<1>1. /\ bridge \in [Groups -> Entry] /\ Copy \in [Procs -> [Groups -> SUBSET Entry]]
      /\ File \in [Groups -> SUBSET Entry]
  BY TableIs
<1> SUFFICES /\ bridge' \in [Groups -> Entry]
             /\ Copy' \in [Procs -> [Groups -> SUBSET Entry]]
             /\ File' \in [Groups -> SUBSET Entry]
  BY TableIsNext
<1>2. CASE UNCHANGED Table!tableVars
  BY <1>1, <1>2, TableIsNext
<1>3. CASE Table!TableNext
  <2>1. None \in [Groups -> SUBSET Entry]
    BY DEF None
  <2>2. ASSUME NEW k \in Groups, NEW v \in Entry, NEW W \in SUBSET Procs,
               bridge' = [bridge EXCEPT ![k] = v],
               Copy' = [r \in Procs |-> [Copy[r] EXCEPT ![k] = IF r \in W THEN {v} ELSE {}]],
               File' = [File EXCEPT ![k] = {}]
        PROVE  /\ bridge' \in [Groups -> Entry]
               /\ Copy' \in [Procs -> [Groups -> SUBSET Entry]]
               /\ File' \in [Groups -> SUBSET Entry]
    <3>1. \A r \in Procs : [Copy[r] EXCEPT ![k] = IF r \in W THEN {v} ELSE {}]
                              \in [Groups -> SUBSET Entry]
      BY <1>1
    <3> QED
      BY <1>1, <2>2, <3>1
  <2>3. CASE File' = None /\ UNCHANGED <<bridge, Copy>>
    BY <1>1, <2>1, <2>3
  <2>4. CASE \E r \in Procs :
               /\ Copy' = [Copy EXCEPT ![r] = [k \in Groups |-> {bridge[k]}]]
               /\ UNCHANGED <<bridge, File>>
    BY <1>1, <2>1, <2>4
  <2>5. CASE \E r \in Procs : Copy' = [Copy EXCEPT ![r] = File] /\ UNCHANGED <<bridge, File>>
    BY <1>1, <2>1, <2>5
  <2>6. CASE \E r \in Procs : File' = Copy[r] /\ UNCHANGED <<bridge, Copy>>
    BY <1>1, <2>1, <2>6
  <2>7. CASE \E r \in Procs : Copy' = [Copy EXCEPT ![r] = None] /\ UNCHANGED <<bridge, File>>
    BY <1>1, <2>1, <2>7
  <2>8. CASE \E r \in Procs, k \in Groups :
               Copy' = [Copy EXCEPT ![r][k] = {}] /\ UNCHANGED <<bridge, File>>
    BY <1>1, <2>1, <2>8
  <2>9. CASE \E k \in Groups, v \in Entry, W \in SUBSET Procs :
               /\ bridge' = [bridge EXCEPT ![k] = v]
               /\ Copy' = [r \in Procs |->
                              [Copy[r] EXCEPT ![k] = IF r \in W THEN {v} ELSE {}]]
               /\ File' = [File EXCEPT ![k] = {}]
    BY <2>2, <2>9
  <2> QED
    BY <1>3, <2>3, <2>4, <2>5, <2>6, <2>7, <2>8, <2>9, TableSteps
<1> QED
  BY <1>2, <1>3

\* No step makes a copy know what is not so.
LEMMA TruthStep ==
    ASSUME Table!TableTypeOK, Table!KnowsTruth, [Table!TableNext]_Table!tableVars
    PROVE  Table!KnowsTruth'
<1>1. /\ bridge \in [Groups -> Entry] /\ Copy \in [Procs -> [Groups -> SUBSET Entry]]
      /\ File \in [Groups -> SUBSET Entry]
      /\ \A r \in Procs, k \in Groups : Copy[r][k] \subseteq {bridge[k]}
      /\ \A k \in Groups : File[k] \subseteq {bridge[k]}
  BY TableIs
<1> SUFFICES /\ \A r \in Procs, k \in Groups : Copy'[r][k] \subseteq {bridge'[k]}
             /\ \A k \in Groups : File'[k] \subseteq {bridge'[k]}
  BY TableIsNext
<1>2. CASE UNCHANGED Table!tableVars
  BY <1>1, <1>2, TableIsNext
<1>3. CASE Table!TableNext
  <2>1. \A k \in Groups : None[k] = {}
    BY DEF None
  <2>2. CASE File' = None /\ UNCHANGED <<bridge, Copy>>
    BY <1>1, <2>1, <2>2
  <2>3. CASE \E r \in Procs :
               /\ Copy' = [Copy EXCEPT ![r] = [k \in Groups |-> {bridge[k]}]]
               /\ UNCHANGED <<bridge, File>>
    BY <1>1, <2>1, <2>3
  <2>4. CASE \E r \in Procs : Copy' = [Copy EXCEPT ![r] = File] /\ UNCHANGED <<bridge, File>>
    BY <1>1, <2>1, <2>4
  <2>5. CASE \E r \in Procs : File' = Copy[r] /\ UNCHANGED <<bridge, Copy>>
    BY <1>1, <2>1, <2>5
  <2>6. CASE \E r \in Procs : Copy' = [Copy EXCEPT ![r] = None] /\ UNCHANGED <<bridge, File>>
    BY <1>1, <2>1, <2>6
  <2>7. CASE \E r \in Procs, k \in Groups :
               Copy' = [Copy EXCEPT ![r][k] = {}] /\ UNCHANGED <<bridge, File>>
    BY <1>1, <2>1, <2>7
  <2>8. CASE \E k \in Groups, v \in Entry, W \in SUBSET Procs :
               /\ bridge' = [bridge EXCEPT ![k] = v]
               /\ Copy' = [r \in Procs |->
                              [Copy[r] EXCEPT ![k] = IF r \in W THEN {v} ELSE {}]]
               /\ File' = [File EXCEPT ![k] = {}]
    BY <1>1, <2>8
  <2> QED
    BY <1>3, <2>2, <2>3, <2>4, <2>5, <2>6, <2>7, <2>8, TableSteps
<1> QED
  BY <1>2, <1>3

\* Every cached table of groups knows the truth or nothing.
THEOREM TablesKnowTruth == Table!TableSpec => [](Table!TableTypeOK /\ Table!KnowsTruth)
<1>1. Table!TableInit => Table!TableTypeOK /\ Table!KnowsTruth
  <2> SUFFICES ASSUME Table!TableInit
               PROVE  Table!TableTypeOK /\ Table!KnowsTruth
    OBVIOUS
  <2>1. bridge \in [Groups -> Entry] /\ Copy = [r \in Procs |-> None] /\ File = None
    BY TableIs
  <2> QED
    BY <2>1, TableIs DEF None
<1>2. Table!TableTypeOK /\ Table!KnowsTruth /\ [Table!TableNext]_Table!tableVars
         => (Table!TableTypeOK /\ Table!KnowsTruth)'
  BY TypeStep, TruthStep
<1> QED
  BY <1>1, <1>2, PTL DEF Table!TableSpec

-----------------------------------------------------------------------------
(* The refinement *)

LEMMA KnowType ==
    ASSUME Inv
    PROVE  /\ \A p \in Procs, g \in Groups : Know(p, g) \subseteq Entry
           /\ \A g \in Groups : FileKnow(g) \subseteq Entry
<1>1. ASSUME NEW p \in Procs, NEW g \in Groups PROVE Know(p, g) \subseteq Entry
  <2>1. mem[p].at[g] \in Entry
    BY DEF Inv, GroupsTypeOK, Tables
  <2>2. CASE InFlight(p, g)
    <3>1. job[p] \in Edits
      BY <2>2 DEF InFlight, Inv, JobOK
    <3>2. Wanted(p, job[p]) \subseteq Lights
      BY <3>1, WantedType
    <3>3. Pending(p, g) \in Entry
      BY <2>1, <3>1, <3>2, EditShape DEF Pending, Entry
    <3> QED
      BY <2>2, <3>3 DEF Know
  <2> QED
    BY <2>1, <2>2 DEF Know
<1>2. ASSUME NEW g \in Groups PROVE FileKnow(g) \subseteq Entry
  BY DEF FileKnow, Inv, GroupsTypeOK, Tables
<1> QED
  BY <1>1, <1>2

LEMMA TableTypes == Inv => Table!TableTypeOK
BY KnowType DEF Table!TableTypeOK, Inv, GroupsTypeOK

\* A process that is left alone knows what it knew.
LEMMA Untouched ==
    ASSUME NEW q, NEW g, mem'[q] = mem[q], touched'[q] = touched[q],
           pc'[q] = pc[q], job'[q] = job[q]
    PROVE  Know(q, g)' = Know(q, g)
BY DEF Know, InFlight, Pending, Wanted, Row, IsRename

LEMMA FileUntouched ==
    ASSUME UNCHANGED <<disk, diskTouched>>, NEW g
    PROVE  FileKnow(g)' = FileKnow(g)
BY DEF FileKnow

\* A step that leaves what everyone knows as it was is no step of the table.
LEMMA Stutter ==
    ASSUME UNCHANGED <<bridge, disk, diskTouched>>,
           \A q \in Procs, g \in Groups : Know(q, g)' = Know(q, g)
    PROVE  UNCHANGED Table!tableVars
BY FileUntouched DEF Table!tableVars

\* A step in which one process comes to know other things.
LEMMA OneLearns ==
    ASSUME NEW p \in Procs, NEW new \in [Groups -> SUBSET Entry],
           \A g \in Groups : Know(p, g)' = new[g],
           \A q \in Procs \ {p}, g \in Groups : Know(q, g)' = Know(q, g)
    PROVE  [q \in Procs |-> [g \in Groups |-> Know(q, g)']]
             = [[q \in Procs |-> [g \in Groups |-> Know(q, g)]] EXCEPT ![p] = new]
<1> DEFINE old == [q \in Procs |-> [g \in Groups |-> Know(q, g)]]
           now(q) == [g \in Groups |-> Know(q, g)']
<1>1. now(p) = new
  OBVIOUS
<1>2. \A q \in Procs \ {p} : now(q) = old[q]
  OBVIOUS
<1> QED
  BY <1>1, <1>2

\* Ends of processes.
LEMMA ExitForgets ==
    ASSUME Inv, NEW p \in Procs, Exit(p), UNCHANGED <<bridge, disk, diskTouched>>
    PROVE  Table!Forget(p)
<1>1. \A g \in Groups : Know(p, g)' = {}
  BY DEF Exit, Cold, Know, Inv, GroupsTypeOK
<1>2. ASSUME NEW q \in Procs \ {p}, NEW g \in Groups PROVE Know(q, g)' = Know(q, g)
  BY Untouched DEF Exit, Done, Goto, Inv, GroupsTypeOK
<1>3. Table!Blank \in [Groups -> SUBSET Entry]
  BY DEF Table!Blank
<1> QED
  BY <1>1, <1>2, <1>3, OneLearns, FileUntouched DEF Table!Forget, Table!Blank

\* Steps before a request is sent, and one whose answer gets lost.
LEMMA QuietStutters ==
    ASSUME Inv, NEW p \in Procs,
           \/ Begin(p) \/ LoadFails(p) \/ Consult(p)
           \/ EnsureLoaded(p) /\ UNCHANGED <<mem, touched>>
           \/ CurlFails(p) /\ UNCHANGED touched
    PROVE  [Table!TableNext]_Table!tableVars
<1>1. CASE CurlFails(p) /\ UNCHANGED touched /\ pc[p] = "answered"
  <2>1. job[p].group \in touched[p]
    BY <1>1 DEF CurlFails, Inv, GroupsTypeOK
  <2>2. \A g \in Groups : Know(p, g)' = Know(p, g)
    BY <1>1, <2>1 DEF CurlFails, Done, Goto, Know, InFlight, Inv, GroupsTypeOK
  <2>3. ASSUME NEW q \in Procs \ {p}, NEW g \in Groups PROVE Know(q, g)' = Know(q, g)
    BY <1>1, Untouched DEF CurlFails, Done, Goto, Inv, GroupsTypeOK
  <2> QED
    BY <1>1, <2>2, <2>3, Stutter DEF CurlFails
<1>2. CASE ~(CurlFails(p) /\ UNCHANGED touched /\ pc[p] = "answered")
  <2>1. /\ pc[p] # "answered" /\ pc'[p] # "answered"
        /\ UNCHANGED <<bridge, disk, mem, touched, diskTouched>>
        /\ \A q \in Procs \ {p} : pc'[q] = pc[q] /\ job'[q] = job[q]
    BY <1>2 DEF Begin, LoadFails, Consult, EnsureLoaded, CurlFails, Done, Goto,
                history, Inv, GroupsTypeOK
  <2>2. \A g \in Groups : Know(p, g)' = Know(p, g)
    BY <2>1 DEF Know, InFlight
  <2>3. ASSUME NEW q \in Procs \ {p}, NEW g \in Groups PROVE Know(q, g)' = Know(q, g)
    BY <2>1, Untouched
  <2> QED
    BY <2>1, <2>2, <2>3, Stutter
<1> QED
  BY <1>1, <1>2

LEMMA EnsureRefines ==
    ASSUME Inv, NEW p \in Procs, EnsureLoaded(p)
    PROVE  [Table!TableNext]_Table!tableVars
<1> USE DEF EnsureLoaded, Goto, Inv, GroupsTypeOK
<1>0. ASSUME NEW q \in Procs \ {p}, NEW g \in Groups PROVE Know(q, g)' = Know(q, g)
  BY Untouched
<1>1. CASE UNCHANGED <<mem, touched>>
  BY <1>1, QuietStutters
<1>2. CASE mem' = [mem EXCEPT ![p] = disk] /\ touched' = [touched EXCEPT ![p] = diskTouched]
  <2>1. pc'[p] # "answered"
    OBVIOUS
  <2>2. \A g \in Groups : Know(p, g)' = FileKnow(g)
    BY <1>2, <2>1 DEF Know, FileKnow, InFlight
  <2>3. [g \in Groups |-> FileKnow(g)] \in [Groups -> SUBSET Entry]
    BY KnowType
  <2>4. Table!Adopt(p)
    BY <1>0, <2>2, <2>3, OneLearns, FileUntouched DEF Table!Adopt
  <2> QED
    BY <2>4 DEF Table!TableNext
<1>3. CASE mem' = [mem EXCEPT ![p] = Cold] /\ touched' = [touched EXCEPT ![p] = {}]
  <2>1. \A g \in Groups : Know(p, g)' = {}
    BY <1>3 DEF Know, Cold
  <2>2. Table!Blank \in [Groups -> SUBSET Entry]
    BY DEF Table!Blank
  <2>3. Table!Forget(p)
    BY <1>0, <2>1, <2>2, OneLearns, FileUntouched DEF Table!Forget, Table!Blank
  <2> QED
    BY <2>3 DEF Table!TableNext
<1> QED
  BY <1>1, <1>2, <1>3

LEMMA LoadRefines ==
    ASSUME Inv, NEW p \in Procs, LoadAll(p)
    PROVE  Table!Fetch(p)
<1> USE DEF LoadAll, Goto, Inv, GroupsTypeOK
<1>0. ASSUME NEW q \in Procs \ {p}, NEW g \in Groups PROVE Know(q, g)' = Know(q, g)
  BY Untouched
<1>1. mem'[p].loaded /\ mem'[p].at = bridge /\ touched'[p] = {} /\ pc'[p] = "save"
  OBVIOUS
<1>2. \A g \in Groups : Know(p, g)' = {bridge[g]}
  BY <1>1 DEF Know, InFlight
<1>3. [g \in Groups |-> {bridge[g]}] \in [Groups -> SUBSET Entry]
  OBVIOUS
<1> QED
  BY <1>0, <1>2, <1>3, OneLearns, FileUntouched DEF Table!Fetch

LEMMA FileRefines ==
    ASSUME Inv, NEW p \in Procs, Truncate(p) \/ Flush(p)
    PROVE  Table!Discard \/ Table!Store(p)
<1>0. ASSUME NEW q \in Procs, NEW g \in Groups PROVE Know(q, g)' = Know(q, g)
  <2>1. pc[p] # "answered" /\ pc'[p] # "answered" /\ UNCHANGED <<mem, touched, job>>
    BY DEF Truncate, Flush, Goto, Inv, GroupsTypeOK
  <2>2. CASE q = p
    BY <2>1, <2>2 DEF Know, InFlight
  <2>3. CASE q # p
    <3>1. pc'[q] = pc[q]
      BY <2>3 DEF Truncate, Flush, Goto, Inv, GroupsTypeOK
    <3> QED
      BY <2>1, <3>1, Untouched
  <2> QED
    BY <2>2, <2>3
<1>1. CASE Truncate(p)
  <2>1. \A g \in Groups : FileKnow(g)' = {}
    BY <1>1 DEF Truncate, FileKnow, Cold
  <2> QED
    BY <1>0, <1>1, <2>1 DEF Truncate, Table!Discard, Table!Blank
<1>2. CASE Flush(p)
  <2>1. \A g \in Groups : FileKnow(g)' = Know(p, g)
    BY <1>2 DEF Flush, FileKnow, Know, InFlight
  <2> QED
    BY <1>0, <1>2, <2>1 DEF Flush, Table!Store
<1> QED
  BY <1>1, <1>2

LEMMA CurlRefines ==
    ASSUME Inv, NEW p \in Procs, CurlFails(p)
    PROVE  [Table!TableNext]_Table!tableVars
<1>1. CASE UNCHANGED touched
  BY <1>1, QuietStutters
<1>2. CASE /\ pc[p] = "answered"
           /\ touched' = [touched EXCEPT ![p] = @ \cup {job[p].group}]
  <2> USE DEF CurlFails, Done, Goto, Inv, GroupsTypeOK
  <2> DEFINE k == job[p].group
             new == [[g \in Groups |-> Know(p, g)] EXCEPT ![k] = {}]
  <2>0. k \in Groups
    BY <1>2, EditShape DEF JobOK
  <2>1. ASSUME NEW q \in Procs \ {p}, NEW g \in Groups PROVE Know(q, g)' = Know(q, g)
    BY <1>2, Untouched
  <2>2. \A g \in Groups : Know(p, g)' = new[g]
    BY <1>2, <2>0 DEF Know, InFlight
  <2>3. new \in [Groups -> SUBSET Entry]
    BY KnowType
  <2>4. Table!Doubt(p, k)
    <3> HIDE DEF k
    <3>1. [q \in Procs |-> [g \in Groups |-> Know(q, g)']]
            = [[q \in Procs |-> [g \in Groups |-> Know(q, g)]] EXCEPT ![p] = new]
      <4> HIDE DEF new
      <4> QED
        BY <2>1, <2>2, <2>3, OneLearns
    <3>2. UNCHANGED <<bridge, disk, diskTouched>>
      OBVIOUS
    <3> QED
      BY <3>1, <3>2, FileUntouched DEF Table!Doubt
  <2> QED
    BY <2>0, <2>4 DEF Table!TableNext
<1> QED
  BY <1>1, <1>2 DEF CurlFails

\* The bridge takes an edit: the process that sent it knows, if it knew the group.
LEMMA PutRefines ==
    ASSUME Inv, Table!KnowsTruth, NEW p \in Procs, pc[p] = "work",
           NEW j \in Edits, NEW entry \in Entry,
           /\ bridge' = [bridge EXCEPT ![j.group] = entry]
           /\ Changed(j.group, {p})
           /\ Goto(p, "answered")
           /\ job' = [job EXCEPT ![p] = j]
           /\ UNCHANGED <<mem, disk>>,
           mem[p].at[j.group] = bridge[j.group] => Pending(p, j.group)' = entry
    PROVE  Table!TableNext
<1> DEFINE k == j.group
           W == IF Know(p, k) = {} THEN {} ELSE {p}
<1> USE DEF Inv, GroupsTypeOK, Goto, Changed
<1>0. k \in Groups /\ W \subseteq Procs
  BY EditShape
<1>1. ASSUME NEW q \in Procs \ {p}, NEW g \in Groups
      PROVE  Know(q, g)' = IF g = k THEN {} ELSE Know(q, g)
  <2>1. /\ mem'[q] = mem[q] /\ pc'[q] = pc[q] /\ job'[q] = job[q]
        /\ touched'[q] = touched[q] \cup {k}
    OBVIOUS
  <2> QED
    BY <2>1 DEF Know, InFlight, Pending, Wanted, Row, IsRename
<1>2. ASSUME NEW g \in Groups
      PROVE  Know(p, g)' = IF g = k THEN IF Know(p, k) = {} THEN {} ELSE {entry}
                           ELSE Know(p, g)
  <2>1. /\ mem'[p] = mem[p] /\ pc'[p] = "answered" /\ job'[p] = j
        /\ touched'[p] = touched[p]
    OBVIOUS
  <2>2. CASE g # k
    BY <2>1, <2>2 DEF Know, InFlight
  <2>3. CASE g = k /\ Know(p, k) = {}
    BY <2>1, <2>3 DEF Know, InFlight
  <2>4. CASE g = k /\ Know(p, k) # {}
    <3>1. Know(p, k) = {mem[p].at[k]}
      BY <2>4 DEF Know, InFlight
    <3>2. Know(p, k) \subseteq {bridge[k]}
      BY <1>0 DEF Table!KnowsTruth
    <3>3. Pending(p, k)' = entry
      BY <3>1, <3>2
    <3> QED
      BY <2>1, <2>4, <3>1, <3>3 DEF Know, InFlight
  <2> QED
    BY <2>2, <2>3, <2>4
<1>3. ASSUME NEW g \in Groups
      PROVE  FileKnow(g)' = IF g = k THEN {} ELSE FileKnow(g)
  BY DEF FileKnow
<1>4. Table!Change(k, entry, W)
  <2>1. ASSUME NEW q \in Procs, NEW g \in Groups
        PROVE  Know(q, g)' = IF g = k THEN IF q \in W THEN {entry} ELSE {}
                             ELSE Know(q, g)
    BY <1>1, <1>2
  <2> HIDE DEF W, k
  <2>2. [q \in Procs |-> [g \in Groups |-> Know(q, g)']]
          = [q \in Procs |-> [[g \in Groups |-> Know(q, g)]
                                EXCEPT ![k] = IF q \in W THEN {entry} ELSE {}]]
    BY <1>0, <2>1
  <2>3. [g \in Groups |-> FileKnow(g)'] = [[g \in Groups |-> FileKnow(g)] EXCEPT ![k] = {}]
    BY <1>0, <1>3
  <2>4. bridge' = [bridge EXCEPT ![k] = entry]
    BY DEF k
  <2> QED
    BY <2>2, <2>3, <2>4 DEF Table!Change
<1> QED
  <2>1. W = {} \/ W = {p}
    OBVIOUS
  <2> QED
    BY <1>0, <1>4, <2>1 DEF Table!TableNext

LEMMA LightsRefine ==
    ASSUME Inv, Table!KnowsTruth, NEW p \in Procs, PutLights(p)
    PROVE  Table!TableNext
<1>1. PICK j \in Requests(p) :
         /\ IsLightEdit(j)
         /\ Put(p, j, [bridge[j.group] EXCEPT !.lights = Wanted(p, j)])
  BY DEF PutLights
<1>2. j \in Edits
  BY <1>1, RequestShape DEF PutLights
<1>3. CASE Exit(p) /\ UNCHANGED <<bridge, edits, diskTouched>>
  BY <1>3, ExitForgets DEF PutLights, Table!TableNext
<1>4. CASE /\ bridge' = [bridge EXCEPT ![j.group] = [bridge[j.group] EXCEPT !.lights = Wanted(p, j)]]
           /\ Changed(j.group, {p})
           /\ Goto(p, "answered")
           /\ job' = [job EXCEPT ![p] = j]
           /\ UNCHANGED mem
  <2> DEFINE entry == [bridge[j.group] EXCEPT !.lights = Wanted(p, j)]
  <2>1. entry \in Entry
    BY <1>2, WantedType, EditShape DEF Entry, Inv, GroupsTypeOK
  <2>2. /\ bridge' = [bridge EXCEPT ![j.group] = entry]
        /\ Changed(j.group, {p})
        /\ Goto(p, "answered")
        /\ job' = [job EXCEPT ![p] = j]
        /\ UNCHANGED <<mem, disk>>
    BY <1>4 DEF PutLights
  <2>3. job'[p] = j /\ ~IsRename(j)
    BY <1>1, <2>2 DEF Inv, GroupsTypeOK, IsLightEdit, IsRename
  <2>4. Pending(p, j.group)' = [mem[p].at[j.group] EXCEPT !.lights = Wanted(p, j)]
    BY <2>2, <2>3 DEF Pending, IsRename, Wanted, Row
  <2>5. pc[p] = "work"
    BY DEF PutLights
  <2> HIDE DEF entry
  <2>6. mem[p].at[j.group] = bridge[j.group] => Pending(p, j.group)' = entry
    BY <2>4 DEF entry
  <2> QED
    BY <1>2, <2>1, <2>2, <2>5, <2>6, PutRefines
<1> QED
  BY <1>1, <1>3, <1>4 DEF Put

LEMMA NameRefines ==
    ASSUME Inv, Table!KnowsTruth, NEW p \in Procs, PutName(p)
    PROVE  Table!TableNext
<1>1. PICK j \in Requests(p) :
         /\ IsRename(j)
         /\ Put(p, j, [bridge[j.group] EXCEPT !.name = j.name])
  BY DEF PutName
<1>2. j \in Edits
  BY <1>1, RequestShape DEF PutName
<1>3. CASE Exit(p) /\ UNCHANGED <<bridge, edits, diskTouched>>
  BY <1>3, ExitForgets DEF PutName, Table!TableNext
<1>4. CASE /\ bridge' = [bridge EXCEPT ![j.group] = [bridge[j.group] EXCEPT !.name = j.name]]
           /\ Changed(j.group, {p})
           /\ Goto(p, "answered")
           /\ job' = [job EXCEPT ![p] = j]
           /\ UNCHANGED mem
  <2> DEFINE entry == [bridge[j.group] EXCEPT !.name = j.name]
  <2>1. entry \in Entry
    BY <1>1, <1>2, EditShape DEF Entry, Inv, GroupsTypeOK
  <2>2. /\ bridge' = [bridge EXCEPT ![j.group] = entry]
        /\ Changed(j.group, {p})
        /\ Goto(p, "answered")
        /\ job' = [job EXCEPT ![p] = j]
        /\ UNCHANGED <<mem, disk>>
    BY <1>4 DEF PutName
  <2>3. job'[p] = j
    BY <2>2 DEF Inv, GroupsTypeOK
  <2>4. Pending(p, j.group)' = [mem[p].at[j.group] EXCEPT !.name = j.name]
    BY <1>1, <2>2, <2>3 DEF Pending, IsRename
  <2>5. pc[p] = "work"
    BY DEF PutName
  <2> HIDE DEF entry
  <2>6. mem[p].at[j.group] = bridge[j.group] => Pending(p, j.group)' = entry
    BY <2>4 DEF entry
  <2> QED
    BY <1>2, <2>1, <2>2, <2>5, <2>6, PutRefines
<1> QED
  BY <1>1, <1>3, <1>4 DEF Put

\* Writing down an edit the bridge has taken is no step of the table.
LEMMA RememberRefines ==
    ASSUME Inv, NEW p \in Procs, RememberLights(p) \/ RememberName(p)
    PROVE  UNCHANGED Table!tableVars
<1> DEFINE k == job[p].group
<1>0. /\ pc[p] = "answered" /\ job[p] \in Edits /\ k \in Groups
      /\ mem[p] \in Tables /\ mem[p].at \in [Groups -> Entry]
  BY EditShape DEF RememberLights, RememberName, Inv, JobOK, GroupsTypeOK, Tables
<1>1. /\ UNCHANGED <<bridge, disk, touched, diskTouched>>
      /\ pc'[p] # "answered"
      /\ \A q \in Procs \ {p} : mem'[q] = mem[q] /\ pc'[q] = pc[q] /\ job'[q] = job[q]
  <2>1. CASE RememberLights(p)
    BY <2>1 DEF RememberLights, Goto, history, Inv, GroupsTypeOK
  <2>2. CASE RememberName(p)
    BY <2>2 DEF RememberName, Goto, Done, history, Inv, GroupsTypeOK
  <2> QED
    BY <2>1, <2>2
<1>2. /\ mem'[p].loaded = mem[p].loaded
      /\ \A g \in Groups : mem'[p].at[g] = IF g = k THEN Pending(p, k) ELSE mem[p].at[g]
  <2>1. CASE RememberLights(p)
    <3>1. mem'[p] = [mem[p] EXCEPT !.at[k].lights = Wanted(p, job[p])]
      BY <2>1 DEF RememberLights, Inv, GroupsTypeOK
    <3>2. ~IsRename(job[p])
      BY <2>1 DEF RememberLights, IsLightEdit, IsRename
    <3> QED
      BY <1>0, <3>1, <3>2 DEF Pending, Tables
  <2>2. CASE RememberName(p)
    <3> DEFINE at == [mem[p].at EXCEPT ![k].name = job[p].name]
    <3>1. \E f : mem'[p] = [mem[p] EXCEPT !.at = at, !.index = f]
      BY <2>2 DEF RememberName, Inv, GroupsTypeOK
    <3>2. mem'[p].loaded = mem[p].loaded /\ mem'[p].at = at
      BY <1>0, <3>1 DEF Tables
    <3>3. IsRename(job[p])
      BY <2>2 DEF RememberName
    <3> QED
      BY <1>0, <3>2, <3>3 DEF Pending
  <2> QED
    BY <2>1, <2>2
<1>3. ASSUME NEW g \in Groups PROVE Know(p, g)' = Know(p, g)
  BY <1>0, <1>1, <1>2 DEF Know, InFlight
<1>4. ASSUME NEW q \in Procs \ {p}, NEW g \in Groups PROVE Know(q, g)' = Know(q, g)
  BY <1>1, Untouched
<1> QED
  BY <1>1, <1>3, <1>4, Stutter

\* Another program changes a group: nobody knows it any more.
LEMMA ElsewhereRefines ==
    ASSUME Inv, Elsewhere
    PROVE  Table!TableNext
<1>1. PICK k \in Groups, entry \in Entry :
         bridge' = [bridge EXCEPT ![k] = entry] /\ Changed(k, {})
  BY Jobs DEF Elsewhere, Entry
<1>2. ASSUME NEW q \in Procs, NEW g \in Groups
      PROVE  Know(q, g)' = IF g = k THEN {} ELSE Know(q, g)
  <2>1. /\ mem'[q] = mem[q] /\ pc'[q] = pc[q] /\ job'[q] = job[q]
        /\ touched'[q] = touched[q] \cup {k}
    BY <1>1 DEF Elsewhere, procVars, Changed
  <2> QED
    BY <2>1 DEF Know, InFlight, Pending, Wanted, Row, IsRename
<1>3. ASSUME NEW g \in Groups
      PROVE  FileKnow(g)' = IF g = k THEN {} ELSE FileKnow(g)
  BY <1>1 DEF FileKnow, Elsewhere, Changed
<1>4. Table!Change(k, entry, {})
  BY <1>1, <1>2, <1>3 DEF Table!Change
<1> QED
  BY <1>4 DEF Table!TableNext

LEMMA StepRefines ==
    ASSUME Inv, Table!KnowsTruth, [GroupsNext]_vars
    PROVE  [Table!TableNext]_Table!tableVars
<1>1. CASE UNCHANGED vars
  <2>1. UNCHANGED <<bridge, disk, mem, pc, job, touched, diskTouched>>
    BY <1>1 DEF vars
  <2> QED
    BY <2>1, Untouched, Stutter
<1>2. CASE Elsewhere
  BY <1>2, ElsewhereRefines
<1>3. ASSUME NEW p \in Procs, Step(p)
      PROVE  [Table!TableNext]_Table!tableVars
  <2>1. CASE End(p) \/ Refuse(p)
    <3>1. Exit(p) /\ UNCHANGED <<bridge, disk, diskTouched>>
      BY <2>1 DEF End, Refuse
    <3> QED
      BY <3>1, ExitForgets DEF Table!TableNext
  <2>2. CASE Begin(p) \/ LoadFails(p) \/ Consult(p)
    BY <2>2, QuietStutters
  <2>3. CASE EnsureLoaded(p)
    BY <2>3, EnsureRefines
  <2>4. CASE LoadAll(p)
    BY <2>4, LoadRefines DEF Table!TableNext
  <2>5. CASE Truncate(p) \/ Flush(p)
    BY <2>5, FileRefines DEF Table!TableNext
  <2>6. CASE CurlFails(p)
    BY <2>6, CurlRefines
  <2>7. CASE PutLights(p)
    BY <2>7, LightsRefine
  <2>8. CASE PutName(p)
    BY <2>8, NameRefines
  <2>9. CASE RememberLights(p) \/ RememberName(p)
    BY <2>9, RememberRefines
  <2> QED
    BY <1>3, <2>1, <2>2, <2>3, <2>4, <2>5, <2>6, <2>7, <2>8, <2>9 DEF Step
<1> QED
  BY <1>1, <1>2, <1>3 DEF GroupsNext

LEMMA InitRefines == GroupsInit => Table!TableInit
<1> SUFFICES ASSUME GroupsInit PROVE Table!TableInit
  OBVIOUS
<1>1. bridge \in [Groups -> Entry]
  BY InitInv DEF Inv, GroupsTypeOK
<1>2. ASSUME NEW p \in Procs, NEW g \in Groups PROVE Know(p, g) = {}
  BY DEF GroupsInit, Know, Cold
<1>3. ASSUME NEW g \in Groups PROVE FileKnow(g) = {}
  BY DEF GroupsInit, FileKnow, Cold
<1> QED
  BY <1>1, <1>2, <1>3 DEF Table!TableInit, Table!Blank

LEMMA TruthInit == GroupsInit => Table!KnowsTruth
BY InitRefines DEF Table!TableInit, Table!KnowsTruth, Table!Blank

LEMMA TruthKept ==
    Inv /\ Table!KnowsTruth /\ [GroupsNext]_vars => Table!KnowsTruth'
BY StepRefines, TableTypes, TruthStep

\* Every table of every process, and the file, knows the truth or nothing.
THEOREM GroupsKnowTruth == GroupsSpec => []Table!KnowsTruth
<1>1. GroupsInit => Table!KnowsTruth
  BY TruthInit
<1>2. Inv /\ Table!KnowsTruth /\ [GroupsNext]_vars => Table!KnowsTruth'
  BY TruthKept
<1> QED
  BY <1>1, <1>2, GroupsInvHolds, PTL DEF GroupsSpec

\* The groups implement CachedTable.
THEOREM Refinement == GroupsSpec => GroupsAreCached
<1>1. GroupsInit => Table!TableInit
  BY InitRefines
<1>2. Inv /\ Table!KnowsTruth /\ [GroupsNext]_vars => [Table!TableNext]_Table!tableVars
  BY StepRefines
<1> QED
  BY <1>1, <1>2, GroupsInvHolds, GroupsKnowTruth, PTL
     DEF GroupsSpec, GroupsAreCached, Table!TableSpec

\* A table differs from the bridge only by what happened behind its back, for any
\* number of processes, groups and edits.
THEOREM MirrorHolds == GroupsSpec => []TablesMirrorBridge
<1>1. Inv /\ Table!KnowsTruth => TablesMirrorBridge
  BY DEF Table!KnowsTruth, TablesMirrorBridge, Know, FileKnow, InFlight
<1> QED
  BY <1>1, GroupsInvHolds, GroupsKnowTruth, PTL

-----------------------------------------------------------------------------
(* The preferred groups *)

\* The index of a table that can be compared is one _rebuildPreferredIndexByName
\* may have computed from the table as it is.
IndexOK(t) == t.loaded /\ Comparable(t.at) => t.index \in Preferred(t.at, Known(t.at))

IndicesOK == IndexOK(disk) /\ \A p \in Procs : IndexOK(mem[p])

LEMMA ColdIndex == IndexOK(Cold)
BY DEF IndexOK, Cold

\* The index depends on names and types alone.
LEMMA SameNames ==
    ASSUME NEW a \in [Groups -> Entry], NEW b \in [Groups -> Entry],
           \A g \in Groups : a[g].name = b[g].name /\ a[g].typed = b[g].typed
    PROVE  /\ Comparable(a) <=> Comparable(b)
           /\ Preferred(a, Known(a)) = Preferred(b, Known(b))
<1>1. Known(a) = Known(b)
  BY DEF Known
<1>2. Comparable(a) <=> Comparable(b)
  BY <1>1 DEF Comparable, Known
<1>3. \A n \in Names : Named(a, Known(a), n) = Named(b, Known(b), n)
  BY <1>1 DEF Named, Known
<1>4. \A g \in Groups : TypeRank(a, g) = TypeRank(b, g)
  BY DEF TypeRank
<1>5. \A n \in Names : Named(b, Known(b), n) \subseteq Groups
  BY DEF Named, Known
<1>6. Preferred(a, Known(a)) = Preferred(b, Known(b))
  BY <1>3, <1>4, <1>5 DEF Preferred
<1> QED
  BY <1>2, <1>6

\* Every step recomputes, copies or drops the index, or leaves the names alone.
LEMMA IndexStep == Inv /\ IndicesOK /\ [GroupsNext]_vars => IndicesOK'
<1> SUFFICES ASSUME Inv, IndicesOK, [GroupsNext]_vars PROVE IndicesOK'
  OBVIOUS
<1> USE DEF Inv, GroupsTypeOK
<1>1. CASE UNCHANGED <<disk, mem>>
  BY <1>1 DEF IndicesOK
<1>2. ASSUME NEW p \in Procs, NEW t, mem' = [mem EXCEPT ![p] = t], IndexOK(t),
             disk' = disk
      PROVE  IndicesOK'
  BY <1>2 DEF IndicesOK
<1>3. ASSUME NEW p \in Procs, Step(p) PROVE IndicesOK'
  <2>1. CASE End(p) \/ Refuse(p)
    BY <2>1, <1>2, ColdIndex DEF End, Refuse, Exit
  <2>2. CASE EnsureLoaded(p)
    BY <2>2, <1>1, <1>2, ColdIndex DEF EnsureLoaded, IndicesOK
  <2>3. CASE LoadAll(p)
    <3>1. PICK f \in Preferred(bridge, Known(bridge)) :
            mem' = [mem EXCEPT ![p] = [loaded |-> TRUE, at |-> bridge, index |-> f]]
      BY <2>3 DEF LoadAll
    <3>2. IndexOK([loaded |-> TRUE, at |-> bridge, index |-> f])
      BY DEF IndexOK
    <3> QED
      BY <2>3, <3>1, <3>2, <1>2 DEF LoadAll
  <2>4. CASE Truncate(p)
    BY <2>4, ColdIndex DEF Truncate, IndicesOK
  <2>5. CASE Flush(p)
    BY <2>5 DEF Flush, IndicesOK
  <2>6. CASE PutLights(p)
    BY <2>6, <1>1, <1>2, ColdIndex DEF PutLights, Put, Exit
  <2>7. CASE PutName(p)
    BY <2>7, <1>1, <1>2, ColdIndex DEF PutName, Put, Exit
  <2>8. CASE RememberLights(p)
    <3> DEFINE k == job[p].group
               at == [mem[p].at EXCEPT ![k].lights = Wanted(p, job[p])]
               t == [mem[p] EXCEPT !.at = at]
    <3>1. /\ mem[p] \in Tables /\ mem[p].at \in [Groups -> Entry] /\ k \in Groups
          /\ job[p] \in Edits /\ disk' = disk
      BY <2>8, EditShape DEF RememberLights, JobOK, Tables
    <3>2. Wanted(p, job[p]) \subseteq Lights
      BY <3>1, WantedType
    <3>3. at \in [Groups -> Entry]
      BY <3>1, <3>2 DEF Entry
    <3>4. \A g \in Groups : mem[p].at[g].name = at[g].name /\ mem[p].at[g].typed = at[g].typed
      BY <3>1 DEF Entry
    <3>5. mem' = [mem EXCEPT ![p] = t]
      BY <2>8, <3>1 DEF RememberLights
    <3>6. t.at = at /\ t.loaded = mem[p].loaded /\ t.index = mem[p].index
      BY <3>1 DEF Tables
    <3> HIDE DEF at, t
    <3>7. IndexOK(t)
      BY <3>1, <3>3, <3>4, <3>6, SameNames DEF IndicesOK, IndexOK
    <3> QED
      BY <3>1, <3>5, <3>7, <1>2
  <2>9. CASE RememberName(p)
    <3> DEFINE at == [mem[p].at EXCEPT ![job[p].group].name = job[p].name]
               t(f) == [mem[p] EXCEPT !.at = at, !.index = f]
    <3>1. mem[p] \in Tables /\ disk' = disk
      BY <2>9 DEF RememberName
    <3>2. \E f : /\ mem' = [mem EXCEPT ![p] = t(f)]
                 /\ \/ f \in Preferred(at, Known(at))
                    \/ ~Comparable(at)
      BY <2>9 DEF RememberName
    <3>3. PICK f : /\ mem' = [mem EXCEPT ![p] = t(f)]
                   /\ \/ f \in Preferred(at, Known(at))
                      \/ ~Comparable(at)
      BY <3>2
    <3>4. t(f).at = at /\ t(f).index = f
      BY <3>1 DEF Tables
    <3>5. IndexOK(t(f))
      <4> HIDE DEF at, t
      <4> QED
        BY <3>3, <3>4 DEF IndexOK
    <3> HIDE DEF t
    <3> QED
      BY <3>1, <3>3, <3>5, <1>2
  <2>10. CASE Begin(p) \/ LoadFails(p) \/ Consult(p) \/ CurlFails(p)
    BY <2>10, <1>1 DEF Begin, LoadFails, Consult, CurlFails
  <2> QED
    BY <1>3, <2>1, <2>2, <2>3, <2>4, <2>5, <2>6, <2>7, <2>8, <2>9, <2>10 DEF Step
<1> QED
  BY <1>1, <1>3 DEF GroupsNext, Elsewhere, procVars, vars

\* A name is resolved to a group that bears it, and to the best type first, in
\* every comparable table of every process and of the file.
THEOREM IndexHolds == GroupsSpec => []PreferredIndexRight
<1>1. GroupsInit => IndicesOK
  BY ColdIndex DEF GroupsInit, IndicesOK
<1>2. IndicesOK => PreferredIndexRight
  <2> SUFFICES ASSUME IndicesOK, NEW t \in {disk} \cup {mem[p] : p \in Procs},
                      t.loaded, Comparable(t.at), NEW n \in Names
               PROVE  LET bearers == {g \in Groups : t.at[g].name = n}
                          ranks   == {TypeRank(t.at, g) : g \in bearers}
                      IN  IF bearers = {} THEN t.index[n] = NoGroup
                          ELSE /\ t.index[n] \in bearers
                               /\ \A r \in ranks : TypeRank(t.at, t.index[n]) <= r
    BY DEF PreferredIndexRight
  <2>1. t.index \in Preferred(t.at, Known(t.at))
    BY DEF IndicesOK, IndexOK
  <2>2. Named(t.at, Known(t.at), n) = {g \in Groups : t.at[g].name = n}
    BY GroupsAssumption DEF Named, Known
  <2> QED
    BY <2>1, <2>2 DEF Preferred
<1> QED
  BY <1>1, <1>2, IndexStep, GroupsInvHolds, PTL DEF GroupsSpec

-----------------------------------------------------------------------------
(* The members of a group *)

\* A process works, and saves, with tables it has loaded.
WorksLoaded ==
    \A p \in Procs : pc[p] \in {"work", "answered", "save", "truncated"} => mem[p].loaded

LEMMA LoadedStep == Inv /\ WorksLoaded /\ [GroupsNext]_vars => WorksLoaded'
<1> SUFFICES ASSUME Inv, WorksLoaded, [GroupsNext]_vars PROVE WorksLoaded'
  OBVIOUS
<1> USE DEF Inv, GroupsTypeOK, WorksLoaded
<1>1. CASE UNCHANGED <<pc, mem>>
  BY <1>1
<1>2. ASSUME NEW p \in Procs, Step(p) PROVE WorksLoaded'
  <2>1. CASE End(p) \/ Refuse(p)
    BY <2>1 DEF End, Refuse, Exit, Done, Goto
  <2>2. CASE EnsureLoaded(p)
    BY <2>2 DEF EnsureLoaded, Goto
  <2>3. CASE LoadAll(p)
    BY <2>3 DEF LoadAll, Goto
  <2>4. CASE PutLights(p) \/ PutName(p)
    <3>1. CASE Exit(p)
      BY <3>1 DEF Exit, Done, Goto
    <3>2. CASE pc[p] = "work" /\ Goto(p, "answered") /\ UNCHANGED mem
      BY <3>2 DEF Goto
    <3> QED
      BY <2>4, <3>1, <3>2 DEF PutLights, PutName, Put
  <2>5. CASE RememberLights(p) \/ RememberName(p)
    <3>1. mem[p] \in Tables /\ mem[p].loaded
      BY <2>5 DEF RememberLights, RememberName
    <3>2. mem'[p].loaded
      <4>1. CASE RememberLights(p)
        <5>1. \E at : mem'[p] = [mem[p] EXCEPT !.at = at]
          BY <4>1, <3>1 DEF RememberLights
        <5> QED
          BY <3>1, <5>1 DEF Tables
      <4>2. CASE RememberName(p)
        <5> DEFINE at == [mem[p].at EXCEPT ![job[p].group].name = job[p].name]
                   t(f) == [mem[p] EXCEPT !.at = at, !.index = f]
        <5>1. \E f : mem' = [mem EXCEPT ![p] = t(f)]
          BY <4>2 DEF RememberName
        <5>2. \A f : t(f).loaded
          BY <3>1 DEF Tables
        <5> HIDE DEF t
        <5> QED
          BY <5>1, <5>2
      <4> QED
        BY <2>5, <4>1, <4>2
    <3>3. \A q \in Procs \ {p} : mem'[q] = mem[q] /\ pc'[q] = pc[q]
      BY <2>5 DEF RememberLights, RememberName, Done, Goto
    <3> QED
      BY <3>2, <3>3
  <2>6. CASE \/ Begin(p) \/ LoadFails(p) \/ Consult(p) \/ CurlFails(p)
             \/ Truncate(p) \/ Flush(p)
    BY <2>6 DEF Begin, LoadFails, Consult, CurlFails, Truncate, Flush, Done, Goto
  <2> QED
    BY <1>2, <2>1, <2>2, <2>3, <2>4, <2>5, <2>6 DEF Step
<1> QED
  BY <1>1, <1>2 DEF GroupsNext, Elsewhere, procVars, vars

\* What EditKeepsMembers asks of a step.
MembersKept ==
    \A p \in Procs :
       LET g == job'[p].group IN
       pc[p] = "work" /\ pc'[p] = "answered" /\ g \notin touched[p] =>
          /\ job'[p].op = "add" =>
                bridge'[g].lights = bridge[g].lights \cup job'[p].light
          /\ job'[p].op = "remove" =>
                bridge'[g].lights = bridge[g].lights \ job'[p].light

\* Whoever puts a list has computed it from a true one, unless the group was
\* changed behind his back.
LEMMA MembersStep ==
    Inv /\ WorksLoaded /\ TablesMirrorBridge /\ [GroupsNext]_vars => MembersKept
<1> SUFFICES ASSUME Inv, WorksLoaded, TablesMirrorBridge, [GroupsNext]_vars,
                    NEW p \in Procs, pc[p] = "work", pc'[p] = "answered",
                    job'[p].group \notin touched[p],
                    job'[p].op \in {"add", "remove"}
             PROVE  LET g == job'[p].group IN
                    /\ job'[p].op = "add" =>
                          bridge'[g].lights = bridge[g].lights \cup job'[p].light
                    /\ job'[p].op = "remove" =>
                          bridge'[g].lights = bridge[g].lights \ job'[p].light
  BY DEF MembersKept
<1> USE DEF Inv, GroupsTypeOK
<1>1. PICK q \in Procs : Step(q)
  BY DEF GroupsNext, Elsewhere, procVars, vars
<1>2. q = p /\ (PutLights(p) \/ PutName(p))
  <2>1. ASSUME NEW r \in Procs, Exit(r) PROVE pc'[p] # "answered"
    BY <2>1 DEF Exit, Done, Goto
  <2>2. CASE End(q) \/ Refuse(q)
    BY <2>1, <2>2 DEF End, Refuse
  <2>3. CASE PutLights(q) \/ PutName(q)
    BY <2>1, <2>3 DEF PutLights, PutName, Put, Goto
  <2>4. CASE ~(End(q) \/ Refuse(q) \/ PutLights(q) \/ PutName(q))
    BY <1>1, <2>4
    DEF Step, Begin, EnsureLoaded, LoadAll, LoadFails, Truncate, Flush, Consult,
        CurlFails, RememberLights, RememberName, Done, Goto
  <2> QED
    BY <2>2, <2>3, <2>4
<1>3. PICK j \in Requests(p) : \E entry :
         /\ \/ IsLightEdit(j) /\ entry = [bridge[j.group] EXCEPT !.lights = Wanted(p, j)]
            \/ IsRename(j)
         /\ Put(p, j, entry)
  BY <1>2 DEF PutLights, PutName
<1>4. PICK entry :
         /\ \/ IsLightEdit(j) /\ entry = [bridge[j.group] EXCEPT !.lights = Wanted(p, j)]
            \/ IsRename(j)
         /\ Put(p, j, entry)
  BY <1>3
<1>5. job' = [job EXCEPT ![p] = j] /\ bridge' = [bridge EXCEPT ![j.group] = entry]
  <2>1. ~Exit(p)
    BY DEF Exit, Done, Goto
  <2> QED
    BY <1>4, <2>1 DEF Put
<1>6. j \in Edits /\ job'[p] = j /\ j.group \in Groups
  BY <1>3, <1>5, RequestShape, EditShape
<1>7. bridge'[j.group] = [bridge[j.group] EXCEPT !.lights = Wanted(p, j)]
  BY <1>4, <1>5, <1>6 DEF IsLightEdit, IsRename
<1>8. mem[p].at[j.group] = bridge[j.group]
  BY <1>6 DEF TablesMirrorBridge, WorksLoaded, InFlight
<1>9. bridge'[j.group].lights = Wanted(p, j)
  BY <1>6, <1>7 DEF Entry
<1> QED
  BY <1>6, <1>8, <1>9 DEF Wanted, Row

\* Adding or removing a light costs a group no other light, unless the table the
\* list was computed from was out of date.
THEOREM MembersHold == GroupsSpec => EditKeepsMembers
<1>1. GroupsInit => WorksLoaded
  BY DEF GroupsInit, WorksLoaded
<1>2. Inv /\ WorksLoaded /\ TablesMirrorBridge /\ [GroupsNext]_vars => [MembersKept]_vars
  BY MembersStep
<1> QED
  BY <1>1, <1>2, LoadedStep, GroupsInvHolds, MirrorHolds, PTL
     DEF GroupsSpec, EditKeepsMembers, MembersKept
=============================================================================
