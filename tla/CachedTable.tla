----------------------------- MODULE CachedTable -----------------------------
(***************************************************************************)
(* What the tables of the toolkit promise: copies of the bridge with       *)
(* holes.  A reader knows the entry of a key or does not; what it knows is *)
(* true.  It learns only from the bridge, from the file, or by writing the *)
(* entry itself, and it is never believed after another has changed it.    *)
(***************************************************************************)
CONSTANTS
    Readers,    \* who keeps a table in memory
    Keys,       \* what the tables are about
    Values      \* what an entry may be

VARIABLES
    truth,      \* the entries at the bridge
    copy,       \* what each reader knows of each of them: nothing or one value
    file        \* the same of the cache file

tableVars == <<truth, copy, file>>

Blank == [k \in Keys |-> {}]

TableTypeOK ==
    /\ truth \in [Keys -> Values]
    /\ copy \in [Readers -> [Keys -> SUBSET Values]]
    /\ file \in [Keys -> SUBSET Values]

TableInit ==
    /\ truth \in [Keys -> Values]
    /\ copy = [r \in Readers |-> Blank]
    /\ file = Blank

\* A reader asks the bridge for everything.
Fetch(r) ==
    /\ copy' = [copy EXCEPT ![r] = [k \in Keys |-> {truth[k]}]]
    /\ UNCHANGED <<truth, file>>

\* It takes over what the file knows, or hands to the file what it knows.
Adopt(r) == copy' = [copy EXCEPT ![r] = file] /\ UNCHANGED <<truth, file>>
Store(r) == file' = copy[r] /\ UNCHANGED <<truth, copy>>

\* It forgets all, or one entry of whose change it has not heard; the file may be
\* emptied.
Forget(r)  == copy' = [copy EXCEPT ![r] = Blank] /\ UNCHANGED <<truth, file>>
Doubt(r, k) == copy' = [copy EXCEPT ![r][k] = {}] /\ UNCHANGED <<truth, file>>
Discard    == file' = Blank /\ UNCHANGED <<truth, copy>>

\* The entry of k becomes v; of the readers only those of W know.
Change(k, v, W) ==
    /\ truth' = [truth EXCEPT ![k] = v]
    /\ copy' = [r \in Readers |->
                   [copy[r] EXCEPT ![k] = IF r \in W THEN {v} ELSE {}]]
    /\ file' = [file EXCEPT ![k] = {}]

TableNext ==
    \/ Discard
    \/ \E r \in Readers : Fetch(r) \/ Adopt(r) \/ Store(r) \/ Forget(r)
    \/ \E r \in Readers, k \in Keys : Doubt(r, k)
    \/ \E k \in Keys, v \in Values :
          Change(k, v, {}) \/ \E r \in Readers : Change(k, v, {r})

TableSpec == TableInit /\ [][TableNext]_tableVars

\* What a copy knows is what the bridge has.
KnowsTruth ==
    /\ \A r \in Readers, k \in Keys : copy[r][k] \subseteq {truth[k]}
    /\ \A k \in Keys : file[k] \subseteq {truth[k]}
=============================================================================
