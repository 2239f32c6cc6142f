---------------------------- MODULE HueUsersProofs ----------------------------
(***************************************************************************)
(* Proofs about HueUsers, for any accounts, stamps and keys: types, the    *)
(* mapping of names and the restored configuration for any number of       *)
(* processes; what deletion and the client keys promise for processes that *)
(* run one after the other.                                                *)
(***************************************************************************)
EXTENDS HueUsers, FiniteSetTheorems, WellFoundedInduction, TLAPS

Key == Id \cup {None}

Places == {"down", "idle", "list", "setA", "getA", "setB", "getB", "emit",
           "restore", "saving", "posted", "delete", "forget", "clear"}

-----------------------------------------------------------------------------
(* The least account *)

\* Every set of accounts that has an element has a least one: the order in which
\* listUsers and deleteByDevice take their rows.
LEMMA LeastElement ==
    ASSUME NEW S, S \subseteq Accounts, S # {}
    PROVE  Least(S) \in S /\ \A b \in S : Least(S) <= b
<1> DEFINE R == OpToRel(<, Nat)
<1>0. S \subseteq Nat
  BY ConfigAssumption
<1>1. R = {ss \in Nat \X Nat : ss[1] < ss[2]}
  BY DEF OpToRel
<1>2. IsWellFoundedOn(R, Nat)
  BY NatLessThanWellFounded
<1> HIDE DEF R
<1>3. PICK x \in S : \A y \in S : ~(<<y, x>> \in R)
  BY <1>0, <1>2, WFMin
<1>4. ASSUME NEW y \in S
      PROVE  x <= y
  <2>1. <<y, x>> \in Nat \X Nat
    BY <1>0
  <2>2. ~(y < x)
    BY <1>1, <1>3, <2>1
  <2> QED
    BY <1>0, <2>2
<1> QED
  BY <1>4 DEF Least

\* Two names at least.
Plural(S) == \E a, b \in S : a # b

LEMMA TwoAreMany ==
    ASSUME NEW S, Cardinality(S) >= 2
    PROVE  S # {} /\ Plural(S)
<1>1. S # {}
  BY FS_EmptySet
<1>2. PICK a : a \in S
  BY <1>1
<1>3. S # {a}
  BY FS_Singleton
<1> QED
  BY <1>1, <1>2, <1>3 DEF Plural

\* A deletion of several rows goes on as long as one is left.
LEMMA OneIsLeft ==
    ASSUME NEW S, Cardinality(S) > 1, NEW x
    PROVE  S \ {x} # {}
<1>1. S # {} /\ S # {x}
  BY FS_EmptySet, FS_Singleton
<1> QED
  BY <1>1

\* The second name of a flip is never the first one (rb of listUsers).
LEMMA RbIsAnother ==
    ASSUME NEW c \in Call, c.listed \ c.done # {}, Plural(c.listed)
    PROVE  /\ Ra(c) \in c.listed \ c.done
           /\ Rb(c) \in c.listed
           /\ Rb(c) # Ra(c)
<1> DEFINE after == {a \in c.listed : a > Ra(c)}
<1>0. c.listed \subseteq Accounts /\ c.listed \subseteq Nat
  BY ConfigAssumption DEF Call
<1>1. Ra(c) \in c.listed \ c.done
  BY <1>0, LeastElement DEF Ra
<1>2. CASE after = {}
  <2>1. Rb(c) = Least(c.listed)
    BY <1>2 DEF Rb
  <2>2. Least(c.listed) \in c.listed /\ \A b \in c.listed : Least(c.listed) <= b
    BY <1>0, <1>1, LeastElement
  <2>3. PICK b \in c.listed : b # Ra(c)
    BY DEF Plural
  <2>4. b < Ra(c)
    BY <1>0, <1>1, <1>2, <2>3
  <2>5. Least(c.listed) # Ra(c)
    BY <1>0, <1>1, <2>2, <2>3, <2>4
  <2> QED
    BY <1>1, <2>1, <2>2, <2>5
<1>3. CASE after # {}
  <2>1. Rb(c) = Least(after)
    BY <1>3 DEF Rb
  <2>2. Least(after) \in after
    BY <1>0, <1>3, LeastElement
  <2>3. Least(after) # Ra(c)
    BY <1>0, <1>1, <2>2
  <2> QED
    BY <1>1, <2>1, <2>2, <2>3
<1> QED
  BY <1>2, <1>3

-----------------------------------------------------------------------------
(* Type correctness *)

LEMMA Names ==
    /\ None \notin Id /\ None \in Key
    /\ \A a \in Accounts : Remote(a) \in Id /\ Local(a) \in Id /\ ClientKey(a) \in Id
    /\ EnvKeys \subseteq Key /\ UserKeys \subseteq Key
BY ConfigAssumption DEF None, Id, Key, Remote, Local, ClientKey

LEMMA Empties == NoKeys \in Store /\ Cold \in Cache /\ NoCall \in Call
BY Names DEF NoKeys, Store, Cold, Cache, NoCall, Call, Modes, Key

LEMMA CallShape ==
    ASSUME NEW c \in Call
    PROVE  /\ c.savedMode \in Modes /\ c.savedKey \in Key /\ c.flipKey \in Key
           /\ c.listed \subseteq Accounts /\ c.done \subseteq Accounts
           /\ c.doomed \subseteq Accounts
           /\ c.found \in [Accounts -> Key]
BY DEF Call, Key

\* Whatever of ::hue::config is called leaves a mode and keys behind.
LEMMA ConfigType ==
    ASSUME ConfigTypeOK, NEW p \in Procs,
           \/ ConfigDefault(p) \/ LoadConfig(p) \/ UNCHANGED configVars
           \/ \E m \in Modes : ConfigSetMode(p, m)
           \/ \E m \in Modes, k \in Key : ConfigSet(p, m, k)
    PROVE  ConfigTypeOK'
<1> USE DEF ConfigTypeOK
<1>1. ASSUME NEW k \in Key, NEW o \in Key
      PROVE  Loaded(k, o) \in Key
  BY Names DEF Loaded
<1>2. key \in [Procs -> Key] /\ override \in [Procs -> Key]
  BY DEF Key
<1>3. Loaded(key[p], override[p]) \in Key
  BY <1>1, <1>2
<1>4. Loaded(key[p], None) \in Key /\ Loaded(None, None) \in Key
  BY <1>1, <1>2, Names
<1>5. Loaded(Loaded(key[p], override[p]), None) \in Key
  BY <1>1, <1>3, Names
<1>6. CASE ConfigDefault(p)
  BY <1>2, <1>4, <1>6, Names DEF ConfigDefault, Modes, Key
<1>7. CASE LoadConfig(p)
  BY <1>2, <1>4, <1>7, Names DEF LoadConfig, Key
<1>8. CASE UNCHANGED configVars
  BY <1>8 DEF configVars
<1>9. ASSUME NEW m \in Modes, ConfigSetMode(p, m)
      PROVE  ConfigTypeOK'
  BY <1>2, <1>3, <1>9 DEF ConfigSetMode, Key
<1>10. ASSUME NEW m \in Modes, NEW k \in Key, ConfigSet(p, m, k)
      PROVE  ConfigTypeOK'
  BY <1>2, <1>5, <1>10 DEF ConfigSet, Key
<1> QED
  BY <1>6, <1>7, <1>8, <1>9, <1>10

\* The client keys a process works with.
LEMMA KnownType ==
    ASSUME UsersTypeOK, NEW p \in Procs
    PROVE  KnownKeys(p) \in Store
BY DEF KnownKeys, UsersTypeOK

\* clientKeyRemember files names and keys under names and keys.
LEMMA LinkType ==
    ASSUME NEW store \in Store, NEW pairs, \A q \in pairs : q[2] \in Key
    PROVE  Link(store, pairs) \in Store
<1>1. ASSUME NEW i \in Id, \E q \in pairs : q[1] = i
      PROVE  (CHOOSE q \in pairs : q[1] = i)[2] \in Key
  BY <1>1
<1> QED
  BY <1>1 DEF Link, Store, Key

\* The rows listUsers builds.
LEMMA RowsType ==
    ASSUME UsersTypeOK, NEW p \in Procs
    PROVE  FoundRows(p) \subseteq Row
<1>1. call[p] \in Call /\ KnownKeys(p) \in Store
  BY KnownType DEF UsersTypeOK
<1> QED
  BY <1>1, CallShape, Names DEF FoundRows, Row, Store, Key

\* clientKeySave.
LEMMA SaveType ==
    ASSUME UsersTypeOK, NEW p \in Procs, NEW store \in Store,
           NEW next \in {"idle", "restore", "clear"}, SaveKeys(p, store, next)
    PROVE  /\ keys' \in [Procs -> Store] /\ keysLoaded' \in [Procs -> BOOLEAN]
           /\ diskKeys' \in Store
           /\ pc' \in [Procs -> Places]
           /\ cont' \in [Procs -> {"idle", "restore", "clear"}]
BY Empties DEF SaveKeys, Goto, UsersTypeOK, Places

\* The end of a process.
LEMMA ExitType ==
    ASSUME UsersTypeOK, NEW p \in Procs, Exit(p)
    PROVE  /\ keys' \in [Procs -> Store] /\ keysLoaded' \in [Procs -> BOOLEAN]
           /\ cache' \in [Procs -> Cache] /\ call' \in [Procs -> Call]
           /\ pc' \in [Procs -> Places]
           /\ cont' \in [Procs -> {"idle", "restore", "clear"}]
BY Empties DEF Exit, Goto, UsersTypeOK, Places

-----------------------------------------------------------------------------
(* The inductive invariant *)

Flips == {"setA", "getA", "setB", "getB"}

\* A process that deletes, at place l, with k to be done after the keys are saved.
Deletes(l, k) == l \in {"delete", "forget", "clear"} \/ (l = "saving" /\ k = "clear")

\* What the local variables of a call are good for at a place.
CallFits(l, k, c) ==
    /\ c.done \subseteq c.listed
    /\ l = "list" => c.done = {}
    /\ l \in Flips => c.listed \ c.done # {} /\ Plural(c.listed)
    /\ Deletes(l, k) => c.doomed # {} /\ c.listed = {}

CallsFit == \A p \in Procs : CallFits(pc[p], cont[p], call[p])

Inv == UsersTypeOK /\ CallsFit

LEMMA NoCallFits ==
    ASSUME NEW l, NEW k, l \notin Flips, ~Deletes(l, k)
    PROVE  CallFits(l, k, NoCall)
BY DEF CallFits, NoCall

\* A step of one process disturbs nobody else's call.
LEMMA OneFits ==
    ASSUME CallsFit, NEW p \in Procs,
           \A q \in Procs \ {p} :
              pc'[q] = pc[q] /\ cont'[q] = cont[q] /\ call'[q] = call[q],
           CallFits(pc'[p], cont'[p], call'[p])
    PROVE  CallsFit'
<1>1. ASSUME NEW q \in Procs \ {p}
      PROVE  CallFits(pc'[q], cont'[q], call'[q])
  BY DEF CallsFit
<1> QED
  BY <1>1 DEF CallsFit

LEMMA InitInv == UsersInit => Inv
<1> SUFFICES ASSUME UsersInit
             PROVE  Inv
  OBVIOUS
<1>1. ConfigTypeOK
  BY Names DEF UsersInit, ConfigInit, ConfigTypeOK, Modes, Key
<1>2. UsersTypeOK
  BY <1>1, Empties, UsersAssumption DEF UsersInit, UsersTypeOK
<1>3. CallsFit
  BY NoCallFits DEF UsersInit, CallsFit, Flips, Deletes
<1> QED
  BY <1>2, <1>3 DEF Inv

LEMMA ExitFits ==
    ASSUME Inv, NEW p \in Procs, Exit(p)
    PROVE  CallsFit'
<1>1. pc'[p] = "down" /\ cont'[p] = "idle" /\ call'[p] = NoCall
  BY DEF Exit, Goto, Inv, UsersTypeOK
<1>2. CallFits(pc'[p], cont'[p], call'[p])
  BY <1>1, NoCallFits DEF Flips, Deletes
<1> QED
  BY <1>2, OneFits DEF Exit, Goto, Inv, UsersTypeOK

\* Start, end, errors and configuration.
LEMMA LifeInv ==
    ASSUME Inv, NEW p \in Procs, Start(p) \/ End(p) \/ TclError(p) \/ Configure(p)
    PROVE  Inv'
<1> USE DEF Inv
<1>0. ConfigTypeOK
  BY DEF UsersTypeOK
<1>1. CASE Start(p)
  <2>1. ConfigTypeOK'
    BY <1>0, <1>1, ConfigType DEF Start
  <2>2. UsersTypeOK'
    BY <1>1, <2>1 DEF Start, Goto, UsersTypeOK, bridgeVars, diskVars
  <2>3. CallFits("idle", cont[p], call[p])
    BY DEF CallsFit, CallFits, Flips, Deletes
  <2>4. CallsFit'
    BY <1>1, <2>3, OneFits DEF Start, Goto, UsersTypeOK
  <2> QED
    BY <2>2, <2>4
<1>2. CASE End(p)
  <2>1. Exit(p)
    BY <1>2 DEF End
  <2>2. UNCHANGED <<configVars, bridgeVars, gone, diskVars>>
    BY <1>2 DEF End
  <2>3. ConfigTypeOK'
    BY <1>0, <2>2, ConfigType
  <2>4. UsersTypeOK'
    BY <2>1, <2>2, <2>3, ExitType DEF UsersTypeOK, bridgeVars, diskVars, Places
  <2> QED
    BY <2>1, <2>4, ExitFits
<1>3. CASE TclError(p)
  <2>1. ConfigTypeOK'
    BY <1>0, <1>3, ConfigType DEF TclError
  <2>2. UsersTypeOK'
    BY <1>3, <2>1, Empties DEF TclError, Goto, UsersTypeOK, bridgeVars, diskVars
  <2>3. CallFits("idle", cont[p], NoCall)
    BY NoCallFits DEF Flips, Deletes
  <2>4. CallsFit'
    BY <1>3, <2>3, OneFits DEF TclError, Goto, UsersTypeOK
  <2> QED
    BY <2>2, <2>4
<1>4. CASE Configure(p)
  <2>1. \/ ConfigDefault(p) \/ \E m \in Modes : ConfigSetMode(p, m)
        \/ \E m \in Modes, k \in Key : ConfigSet(p, m, k)
    BY <1>0, <1>4, Names DEF Configure, ConfigTypeOK
  <2>2. ConfigTypeOK'
    BY <1>0, <2>1, ConfigType
  <2>3. UNCHANGED <<bridgeVars, gone, diskVars, procVars>>
    BY <1>4 DEF Configure
  <2>4. UsersTypeOK' /\ CallsFit'
    BY <2>2, <2>3 DEF UsersTypeOK, CallsFit, bridgeVars, diskVars, procVars
  <2> QED
    BY <2>4
<1> QED
  BY <1>1, <1>2, <1>3, <1>4

\* The steps that write client keys outside listUsers.
LEMMA KeysInv ==
    ASSUME Inv, NEW p \in Procs,
           \/ FlushKeys(p) \/ (\E a \in Accounts : AddKey(p, a) \/ Post(p, a))
           \/ RememberCreated(p)
    PROVE  Inv'
<1> USE DEF Inv
<1>0. ConfigTypeOK /\ KnownKeys(p) \in Store /\ keys[p] \in Store
  BY KnownType DEF UsersTypeOK
<1>1. CASE FlushKeys(p)
  <2>1. ConfigTypeOK'
    BY <1>0, <1>1, ConfigType DEF FlushKeys
  <2>2. UsersTypeOK'
    BY <1>0, <1>1, <2>1 DEF FlushKeys, Goto, UsersTypeOK, bridgeVars
  <2>3. CallFits(cont[p], "idle", call[p])
    BY <1>1 DEF FlushKeys, CallsFit, CallFits, Flips, Deletes, UsersTypeOK
  <2>4. CallsFit'
    BY <1>1, <2>3, OneFits DEF FlushKeys, Goto, UsersTypeOK
  <2> QED
    BY <2>2, <2>4
<1>2. ASSUME NEW a \in Accounts, AddKey(p, a)
      PROVE  Inv'
  <2>1. ConfigTypeOK'
    BY <1>0, <1>2, ConfigType DEF AddKey
  <2>2. [KnownKeys(p) EXCEPT ![Remote(a)] = ClientKey(a)] \in Store
    BY <1>0, Names DEF Store
  <2>3. UsersTypeOK'
    BY <1>2, <2>1, <2>2, SaveType DEF AddKey, UsersTypeOK, bridgeVars, Places
  <2>4. CallFits("saving", "idle", call[p])
    BY DEF CallsFit, CallFits, Flips, Deletes
  <2>5. CallsFit'
    BY <1>2, <2>4, OneFits DEF AddKey, SaveKeys, Goto, UsersTypeOK
  <2> QED
    BY <2>3, <2>5
<1>3. ASSUME NEW a \in Accounts, Post(p, a)
      PROVE  Inv'
  <2>1. ConfigTypeOK'
    BY <1>0, <1>3, ConfigType DEF Post
  <2> DEFINE new == [NoCall EXCEPT !.listed = {a}]
  <2>2. new \in Call /\ new.done = {} /\ new.listed = {a}
    BY Empties DEF Call, NoCall
  <2>3. call' = [call EXCEPT ![p] = new]
    BY <1>3 DEF Post
  <2> HIDE DEF new
  <2>4. UsersTypeOK'
    BY <1>3, <2>1, <2>2, <2>3 DEF Post, Goto, UsersTypeOK, diskVars
  <2>5. CallFits("posted", cont[p], new)
    BY <2>2 DEF CallFits, Flips, Deletes
  <2>6. UNCHANGED cont /\ pc' = [pc EXCEPT ![p] = "posted"]
    BY <1>3 DEF Post, Goto
  <2>7. CallsFit'
    BY <2>3, <2>5, <2>6, OneFits DEF UsersTypeOK
  <2> QED
    BY <2>4, <2>7
<1>4. CASE RememberCreated(p)
  <2>1. ConfigTypeOK'
    BY <1>0, <1>4, ConfigType DEF RememberCreated
  <2>2. CASE Goto(p, "idle") /\ UNCHANGED <<cont, keys, keysLoaded, diskKeys>>
    <3>1. UsersTypeOK'
      BY <1>4, <2>1, <2>2, Empties DEF RememberCreated, Goto, UsersTypeOK, bridgeVars
    <3>2. CallFits("idle", cont[p], NoCall)
      BY NoCallFits DEF Flips, Deletes
    <3>3. CallsFit'
      BY <1>4, <2>2, <3>2, OneFits DEF RememberCreated, Goto, UsersTypeOK
    <3> QED
      BY <3>1, <3>3
  <2>3. ASSUME NEW a \in call[p].listed \cap Keyed, NEW name \in Id,
               SaveKeys(p, [KnownKeys(p) EXCEPT ![name] = ClientKey(a)], "idle")
        PROVE  Inv'
    <3>1. a \in Accounts
      BY <2>3, UsersAssumption
    <3>2. [KnownKeys(p) EXCEPT ![name] = ClientKey(a)] \in Store
      BY <1>0, <3>1, Names DEF Store
    <3>3. UsersTypeOK'
      BY <1>4, <2>1, <2>3, <3>2, SaveType, Empties
      DEF RememberCreated, UsersTypeOK, bridgeVars, Places
    <3>4. CallFits("saving", "idle", NoCall)
      BY NoCallFits DEF Flips, Deletes
    <3>5. CallsFit'
      BY <1>4, <2>3, <3>4, OneFits DEF RememberCreated, SaveKeys, Goto, UsersTypeOK
    <3> QED
      BY <3>3, <3>5
  <2>4. \A a \in call[p].listed \cap Keyed :
           (IF mode[p] = "remote" THEN Remote(a) ELSE Local(a)) \in Id
    BY UsersAssumption, Names
  <2> QED
    BY <1>4, <2>2, <2>3, <2>4 DEF RememberCreated
<1> QED
  BY <1>1, <1>2, <1>3, <1>4

\* listUsers answered from the cache, or begun.
LEMMA ListInv ==
    ASSUME Inv, NEW p \in Procs, ListCached(p) \/ ListUsers(p)
    PROVE  Inv'
<1> USE DEF Inv
<1>0. /\ ConfigTypeOK /\ KnownKeys(p) \in Store /\ CachedRows(p) \in Cache
      /\ key \in [Procs -> Key] /\ override \in [Procs -> Key]
  BY KnownType DEF UsersTypeOK, ConfigTypeOK, CachedRows, Key
<1>1. CASE ListCached(p)
  <2> DEFINE rows == CachedRows(p).rows
             pairs == {<<r.ck, IF r.lu # None THEN r.lu ELSE Remote(r.acc)>>
                         : r \in {x \in rows : x.ck # None}}
  <2>1. ConfigTypeOK'
    BY <1>0, <1>1, ConfigType DEF ListCached
  <2>2. \A q \in pairs : q[2] \in Key
    BY <1>0, Names DEF Cache, Row, Key
  <2>3. Link(KnownKeys(p), pairs) \in Store
    <3> HIDE DEF pairs
    <3> QED
      BY <1>0, <2>2, LinkType
  <2>4. /\ cache' = [cache EXCEPT ![p] = CachedRows(p)]
        /\ \/ SaveKeys(p, Link(KnownKeys(p), pairs), "idle")
           \/ /\ keys' = [keys EXCEPT ![p] = KnownKeys(p)]
              /\ keysLoaded' = [keysLoaded EXCEPT ![p] = TRUE]
              /\ UNCHANGED <<pc, cont, diskKeys>>
        /\ UNCHANGED <<bridgeVars, gone, diskCache, call>>
    BY <1>1 DEF ListCached
  <2> HIDE DEF pairs
  <2>5. UsersTypeOK'
    <3>1. CASE SaveKeys(p, Link(KnownKeys(p), pairs), "idle")
      BY <1>0, <2>1, <2>3, <2>4, <3>1, SaveType DEF UsersTypeOK, bridgeVars, Places
    <3>2. CASE /\ keys' = [keys EXCEPT ![p] = KnownKeys(p)]
               /\ keysLoaded' = [keysLoaded EXCEPT ![p] = TRUE]
               /\ UNCHANGED <<pc, cont, diskKeys>>
      BY <1>0, <2>1, <2>4, <3>2 DEF UsersTypeOK, bridgeVars
    <3> QED
      BY <2>4, <3>1, <3>2
  <2>6. CallsFit'
    <3>1. CASE UNCHANGED <<pc, cont>>
      BY <2>4, <3>1 DEF CallsFit
    <3>2. CASE SaveKeys(p, Link(KnownKeys(p), pairs), "idle")
      <4>1. CallFits("saving", "idle", call[p])
        BY DEF CallsFit, CallFits, Flips, Deletes
      <4> QED
        BY <2>4, <3>2, <4>1, OneFits DEF SaveKeys, Goto, UsersTypeOK
    <3> QED
      BY <2>4, <3>1, <3>2
  <2> QED
    BY <2>5, <2>6
<1>2. CASE ListUsers(p)
  <2>1. ConfigTypeOK'
    BY <1>0, <1>2, ConfigType DEF ListUsers, Modes
  <2> DEFINE new == [NoCall EXCEPT !.savedMode = mode[p],
                                   !.savedKey = Loaded(key[p], override[p])]
  <2>2. new \in Call /\ new.done = {} /\ new.listed = {}
    <3>1. Loaded(key[p], override[p]) \in Key /\ mode[p] \in Modes
      BY <1>0, Names DEF ConfigTypeOK, Loaded
    <3> QED
      BY <3>1, Empties DEF Call, NoCall, Key
  <2>3. /\ call' = [call EXCEPT ![p] = new]
        /\ pc' = [pc EXCEPT ![p] = "list"]
        /\ UNCHANGED <<bridgeVars, gone, diskVars, cont, keys, keysLoaded>>
        /\ cache' \in {cache, [cache EXCEPT ![p] = CachedRows(p)]}
    BY <1>2 DEF ListUsers, Goto
  <2> HIDE DEF new
  <2>4. cache' \in [Procs -> Cache]
    BY <1>0, <2>3 DEF UsersTypeOK
  <2>5. UsersTypeOK'
    BY <2>1, <2>2, <2>3, <2>4 DEF UsersTypeOK, bridgeVars, diskVars
  <2>6. CallFits("list", cont[p], new)
    BY <2>2 DEF CallFits, Flips, Deletes
  <2>7. CallsFit'
    BY <2>3, <2>6, OneFits DEF UsersTypeOK
  <2> QED
    BY <2>5, <2>7
<1> QED
  BY <1>1, <1>2

\* A step that gives p another call and place, and keeps its keys.
LEMMA MoveInv ==
    ASSUME Inv, NEW p \in Procs, ConfigTypeOK', NEW new \in Call, NEW l \in Places,
           call' = [call EXCEPT ![p] = new], pc' = [pc EXCEPT ![p] = l],
           UNCHANGED <<bridgeVars, gone, diskVars, cont, keys, keysLoaded, cache>>,
           CallFits(l, cont[p], new)
    PROVE  Inv'
<1> USE DEF Inv
<1>1. UsersTypeOK'
  BY DEF UsersTypeOK, bridgeVars, diskVars, Places
<1>2. CallsFit'
  BY OneFits DEF UsersTypeOK
<1> QED
  BY <1>1, <1>2

\* An end of the process before or after some configuration.
LEMMA ExitInv ==
    ASSUME Inv, NEW p \in Procs, ConfigTypeOK', Exit(p),
           status' \in [Accounts -> {"unborn", "white", "removed"}],
           UNCHANGED <<stamp, gone, diskVars>>
    PROVE  Inv'
<1> USE DEF Inv
<1>1. UsersTypeOK'
  BY ExitType DEF UsersTypeOK, diskVars, Places
<1> QED
  BY <1>1, ExitFits

\* The remote list, and the flips under its names.
LEMMA FlipInv ==
    ASSUME Inv, NEW p \in Procs, RemoteListAll(p) \/ Flip(p) \/ FlipBack(p)
    PROVE  Inv'
<1> USE DEF Inv
<1> DEFINE c == call[p]
<1>0. /\ ConfigTypeOK /\ c \in Call
      /\ key \in [Procs -> Key] /\ override \in [Procs -> Key]
  BY DEF UsersTypeOK, ConfigTypeOK, Key
<1>1. CASE RemoteListAll(p)
  <2>1. ConfigTypeOK'
    BY <1>0, <1>1, ConfigType, CallShape DEF RemoteListAll
  <2>2. CASE Exit(p)
    BY <1>1, <2>1, <2>2, ExitInv DEF RemoteListAll, UsersTypeOK, bridgeVars
  <2>3. ASSUME NEW S \in SUBSET White, Cardinality(S) >= 2,
               call' = [call EXCEPT ![p].listed = S], Goto(p, "setA"),
               UNCHANGED <<configVars, cont, keys, keysLoaded, cache>>
        PROVE  Inv'
    <3> DEFINE new == [c EXCEPT !.listed = S]
    <3>1. S \subseteq Accounts /\ S # {} /\ Plural(S)
      BY <2>3, TwoAreMany DEF White
    <3>2. /\ new \in Call /\ new.listed = S /\ new.done = c.done
      BY <1>0, <3>1 DEF Call
    <3>3. c.done = {}
      BY <1>1 DEF RemoteListAll, CallsFit, CallFits
    <3>4. call' = [call EXCEPT ![p] = new] /\ pc' = [pc EXCEPT ![p] = "setA"]
      BY <2>3 DEF Goto
    <3> HIDE DEF new
    <3>5. CallFits("setA", cont[p], new)
      BY <3>1, <3>2, <3>3 DEF CallFits, Flips, Deletes
    <3>6. UNCHANGED <<bridgeVars, gone, diskVars>>
      BY <1>1 DEF RemoteListAll
    <3> QED
      BY <2>1, <2>3, <3>2, <3>4, <3>5, <3>6, MoveInv DEF Places
  <2> QED
    BY <1>1, <2>2, <2>3 DEF RemoteListAll
<1>2. CASE Flip(p)
  <2>1. pc[p] \in {"setA", "setB"}
    BY <1>2 DEF Flip
  <2>2. c.listed \ c.done # {} /\ Plural(c.listed)
    BY <2>1 DEF CallsFit, CallFits, Flips
  <2>3. Ra(c) \in Accounts /\ Rb(c) \in Accounts
    BY <1>0, <2>2, RbIsAnother, CallShape
  <2> DEFINE new == [c EXCEPT !.flipKey = Loaded(key[p], override[p])]
  <2>4. \E k \in Key, l \in {"getA", "getB"} :
           /\ ConfigSet(p, "local", k) /\ pc' = [pc EXCEPT ![p] = l]
           /\ call' = [call EXCEPT ![p] = new]
    BY <1>2, <2>3, Names DEF Flip, FlipTo, Goto, Key
  <2>5. PICK k \in Key, l \in {"getA", "getB"} :
           /\ ConfigSet(p, "local", k) /\ pc' = [pc EXCEPT ![p] = l]
           /\ call' = [call EXCEPT ![p] = new]
    BY <2>4
  <2>6. ConfigTypeOK'
    BY <1>0, <2>5, ConfigType DEF Modes
  <2>7. Loaded(key[p], override[p]) \in Key
    BY <1>0, Names DEF Loaded, ConfigTypeOK
  <2>8. new \in Call /\ new.listed = c.listed /\ new.done = c.done
    BY <1>0, <2>7 DEF Call, Key
  <2> HIDE DEF new
  <2>9. CallFits(l, cont[p], new)
    BY <2>2, <2>8 DEF CallsFit, CallFits, Deletes
  <2> QED
    BY <1>2, <2>5, <2>6, <2>8, <2>9, MoveInv DEF Flip, Places
<1>3. CASE FlipBack(p)
  <2>1. ConfigTypeOK'
    BY <1>0, <1>3, ConfigType, CallShape DEF FlipBack, Modes
  <2>2. CASE Exit(p)
    BY <1>3, <2>1, <2>2, ExitInv DEF FlipBack, UsersTypeOK, bridgeVars
  <2>3. CASE pc[p] = "getA" /\ Goto(p, "setB") /\ UNCHANGED <<cont, keys, keysLoaded, cache, call>>
    <3>1. call' = [call EXCEPT ![p] = c]
      BY <2>3 DEF UsersTypeOK
    <3>2. CallFits("setB", cont[p], c)
      BY <2>3 DEF CallsFit, CallFits, Flips, Deletes
    <3> QED
      BY <1>0, <1>3, <2>1, <2>3, <3>1, <3>2, MoveInv DEF FlipBack, Goto, Places
  <2>4. CASE pc[p] = "getB" /\ Match(p) /\ UNCHANGED <<cont, keys, keysLoaded, cache>>
    <3> DEFINE ra == Ra(c)
               done == c.done \cup {ra}
               new(u) == [c EXCEPT !.done = done, !.found[ra] = u]
               l == IF done = c.listed THEN "emit" ELSE "setA"
    <3>1. c.listed \ c.done # {} /\ Plural(c.listed) /\ c.done \subseteq c.listed
      BY <2>4 DEF CallsFit, CallFits, Flips
    <3>2. ra \in c.listed \ c.done /\ ra \in Accounts
      BY <1>0, <3>1, RbIsAnother, CallShape
    <3>3. \A names \in SUBSET Key : names \cup {None} \subseteq Key
      BY Names
    <3>4. SameJoinKey(ra, key[p]) \subseteq Key
      BY Names DEF SameJoinKey, Shown, White, Key
    <3>10. \E u \in Key : /\ call' = [call EXCEPT ![p].done = done, ![p].found[ra] = u]
                         /\ pc' = [pc EXCEPT ![p] = l]
      <4> HIDE DEF new
      <4> QED
        BY <2>4, <3>4, Names, Zenon DEF Match, Goto
    <3>11. ASSUME NEW u
          PROVE  [call EXCEPT ![p].done = done, ![p].found[ra] = u] = [call EXCEPT ![p] = new(u)]
      BY DEF UsersTypeOK
    <3>5. \E u \in Key : call' = [call EXCEPT ![p] = new(u)] /\ pc' = [pc EXCEPT ![p] = l]
      <4> HIDE DEF new
      <4> QED
        BY <3>10, <3>11
    <3>6. PICK u \in Key : call' = [call EXCEPT ![p] = new(u)] /\ pc' = [pc EXCEPT ![p] = l]
      BY <3>5
    <3>7. new(u) \in Call /\ new(u).done = done /\ new(u).listed = c.listed
      BY <1>0, <3>2, CallShape DEF Call, Key
    <3> HIDE DEF new
    <3>8. done \subseteq c.listed
      BY <3>1, <3>2
    <3>9. CallFits(l, cont[p], new(u))
      BY <3>1, <3>7, <3>8 DEF CallFits, Flips, Deletes
    <3> QED
      BY <1>3, <2>1, <2>4, <3>6, <3>7, <3>9, MoveInv DEF FlipBack, Places
  <2> QED
    BY <1>3, <2>2, <2>3, <2>4 DEF FlipBack
<1> QED
  BY <1>1, <1>2, <1>3

\* The rows of a call are built, and returned.
LEMMA ReturnInv ==
    ASSUME Inv, NEW p \in Procs, Emit(p) \/ Return(p)
    PROVE  Inv'
<1> USE DEF Inv
<1>0. /\ ConfigTypeOK /\ KnownKeys(p) \in Store /\ FoundRows(p) \subseteq Row
      /\ call[p] \in Call
  BY KnownType, RowsType DEF UsersTypeOK
<1>1. CASE Emit(p)
  <2> DEFINE linked == {r \in FoundRows(p) : r.ck # None /\ r.lu # None}
             pairs == {<<r.ck, r.lu>> : r \in linked}
  <2>1. ConfigTypeOK'
    BY <1>0, <1>1, ConfigType DEF Emit
  <2>2. \A q \in pairs : q[2] \in Key
    BY <1>0 DEF Row, Key
  <2>3. Link(KnownKeys(p), pairs) \in Store
    <3> HIDE DEF pairs
    <3> QED
      BY <1>0, <2>2, LinkType
  <2>4. /\ pc[p] = "emit"
        /\ \/ SaveKeys(p, Link(KnownKeys(p), pairs), "restore")
           \/ /\ keys' = [keys EXCEPT ![p] = KnownKeys(p)]
              /\ keysLoaded' = [keysLoaded EXCEPT ![p] = TRUE]
              /\ Goto(p, "restore")
              /\ UNCHANGED <<cont, diskKeys>>
        /\ UNCHANGED <<bridgeVars, gone, diskCache, cache, call>>
    BY <1>1 DEF Emit
  <2> HIDE DEF pairs
  <2>5. CASE SaveKeys(p, Link(KnownKeys(p), pairs), "restore")
    <3>1. UsersTypeOK'
      BY <2>1, <2>3, <2>4, <2>5, SaveType DEF UsersTypeOK, bridgeVars, Places
    <3>2. CallFits("saving", "restore", call[p])
      BY <2>4 DEF CallsFit, CallFits, Flips, Deletes
    <3>3. CallsFit'
      BY <2>4, <2>5, <3>2, OneFits DEF SaveKeys, Goto, UsersTypeOK
    <3> QED
      BY <3>1, <3>3
  <2>6. CASE /\ keys' = [keys EXCEPT ![p] = KnownKeys(p)]
             /\ keysLoaded' = [keysLoaded EXCEPT ![p] = TRUE]
             /\ Goto(p, "restore")
             /\ UNCHANGED <<cont, diskKeys>>
    <3>1. UsersTypeOK'
      BY <1>0, <2>1, <2>4, <2>6 DEF Goto, UsersTypeOK, bridgeVars
    <3>2. CallFits("restore", cont[p], call[p])
      BY <2>4 DEF CallsFit, CallFits, Flips, Deletes
    <3>3. CallsFit'
      BY <2>4, <2>6, <3>2, OneFits DEF Goto, UsersTypeOK
    <3> QED
      BY <3>1, <3>3
  <2> QED
    BY <2>4, <2>5, <2>6
<1>2. CASE Return(p)
  <2> DEFINE result == [loaded |-> TRUE, rows |-> FoundRows(p)]
  <2>1. ConfigTypeOK'
    BY <1>0, <1>2, ConfigType, CallShape DEF Return
  <2>2. result \in Cache
    BY <1>0 DEF Cache
  <2>3. /\ cache' = [cache EXCEPT ![p] = result]
        /\ diskCache' = result
        /\ call' = [call EXCEPT ![p] = NoCall]
        /\ pc' = [pc EXCEPT ![p] = "idle"]
        /\ UNCHANGED <<bridgeVars, gone, diskKeys, cont, keys, keysLoaded>>
    BY <1>2 DEF Return, Goto
  <2> HIDE DEF result
  <2>4. UsersTypeOK'
    BY <2>1, <2>2, <2>3, Empties DEF UsersTypeOK, bridgeVars
  <2>5. CallFits("idle", cont[p], NoCall)
    BY NoCallFits DEF Flips, Deletes
  <2>6. CallsFit'
    BY <2>3, <2>5, OneFits DEF UsersTypeOK
  <2> QED
    BY <2>4, <2>6
<1> QED
  BY <1>1, <1>2

\* The steps of a deletion.
LEMMA DeleteInv ==
    ASSUME Inv, NEW p \in Procs,
           StartDelete(p) \/ DeleteRemote(p) \/ ForgetKey(p) \/ ClearCache(p)
    PROVE  Inv'
<1> USE DEF Inv
<1> DEFINE c == call[p]
           first == Least(c.doomed)
<1>0. ConfigTypeOK /\ c \in Call /\ KnownKeys(p) \in Store
  BY KnownType DEF UsersTypeOK
<1>1. ConfigTypeOK'
  BY <1>0, ConfigType DEF StartDelete, DeleteRemote, ForgetKey, ClearCache
<1>2. CASE StartDelete(p)
  <2> DEFINE new(S) == [NoCall EXCEPT !.doomed = S]
  <2>1. {r.acc : r \in cache[p].rows} \subseteq Accounts
    BY DEF UsersTypeOK, Cache, Row
  <2>6. PICK S \in (SUBSET {r.acc : r \in cache[p].rows})
                \cup {{a} : a \in Accounts \ {b \in Accounts : status[b] = "unborn"}} :
           S # {} /\ call' = [call EXCEPT ![p] = new(S)]
    BY <1>2 DEF StartDelete
  <2>7. S \subseteq Accounts
    <3>1. CASE S \in SUBSET {r.acc : r \in cache[p].rows}
      BY <2>1, <3>1
    <3>2. CASE S \in {{a} : a \in Accounts \ {b \in Accounts : status[b] = "unborn"}}
      BY <3>2
    <3> QED
      BY <2>6, <3>1, <3>2
  <2>2. S # {} /\ call' = [call EXCEPT ![p] = new(S)] /\ S \in SUBSET Accounts
    BY <2>6, <2>7
  <2>3. /\ new(S) \in Call /\ new(S).doomed = S /\ new(S).listed = {}
        /\ new(S).done = {}
    BY <2>2, Empties DEF Call, NoCall
  <2>4. /\ pc' = [pc EXCEPT ![p] = "delete"]
        /\ UNCHANGED <<bridgeVars, gone, diskVars, cont, keys, keysLoaded, cache>>
    BY <1>2 DEF StartDelete, Goto
  <2> HIDE DEF new
  <2>5. CallFits("delete", cont[p], new(S))
    BY <2>2, <2>3 DEF CallFits, Flips, Deletes
  <2> QED
    BY <1>1, <2>2, <2>3, <2>4, <2>5, MoveInv DEF Places
<1>3. CASE DeleteRemote(p)
  <2>1. first \in Accounts
    BY <1>0, <1>3, CallShape, LeastElement DEF DeleteRemote, CallsFit, CallFits, Deletes
  <2>2. status' \in [Accounts -> {"unborn", "white", "removed"}]
    BY <1>3, <2>1 DEF DeleteRemote, UsersTypeOK
  <2>3. CASE Exit(p)
    BY <1>1, <1>3, <2>2, <2>3, ExitInv DEF DeleteRemote
  <2>4. CASE Goto(p, "forget") /\ UNCHANGED <<cont, keys, keysLoaded, cache, call>>
    <3>1. UsersTypeOK'
      BY <1>1, <1>3, <2>2, <2>4 DEF DeleteRemote, Goto, UsersTypeOK, diskVars
    <3>2. CallFits("forget", cont[p], c)
      BY <1>3 DEF DeleteRemote, CallsFit, CallFits, Flips, Deletes
    <3>3. CallsFit'
      BY <2>4, <3>2, OneFits DEF Goto, UsersTypeOK
    <3> QED
      BY <3>1, <3>3
  <2> QED
    BY <1>3, <2>3, <2>4 DEF DeleteRemote
<1>4. CASE ForgetKey(p)
  <2>1. [KnownKeys(p) EXCEPT ![Remote(first)] = None] \in Store
    BY <1>0 DEF Store
  <2>2. UsersTypeOK'
    BY <1>1, <1>4, <2>1, SaveType DEF ForgetKey, UsersTypeOK, bridgeVars, Places
  <2>3. CallFits("saving", "clear", c)
    BY <1>4 DEF ForgetKey, CallsFit, CallFits, Flips, Deletes
  <2>4. CallsFit'
    BY <1>4, <2>3, OneFits DEF ForgetKey, SaveKeys, Goto, UsersTypeOK
  <2> QED
    BY <2>2, <2>4
<1>5. CASE ClearCache(p)
  <2> DEFINE new == [c EXCEPT !.doomed = c.doomed \ {first}]
             l == IF Cardinality(c.doomed) > 1 THEN "delete" ELSE "idle"
  <2>1. c.doomed # {} /\ c.listed = {} /\ c.done \subseteq c.listed
    BY <1>5 DEF ClearCache, CallsFit, CallFits, Deletes
  <2>2. first \in Accounts
    BY <1>0, <2>1, CallShape, LeastElement
  <2>3. /\ new \in Call /\ new.doomed = c.doomed \ {first} /\ new.listed = {}
        /\ new.done = {}
    BY <1>0, <2>1 DEF Call
  <2>4. /\ call' = [call EXCEPT ![p] = new]
        /\ pc' = [pc EXCEPT ![p] = l]
        /\ cache' = [cache EXCEPT ![p] = Cold]
        /\ diskCache' = Cold /\ gone' = gone \cup {first}
        /\ UNCHANGED <<bridgeVars, diskKeys, cont, keys, keysLoaded>>
    BY <1>5 DEF ClearCache, Goto, UsersTypeOK
  <2>5. l = "delete" => new.doomed # {}
    BY <2>3, OneIsLeft
  <2>6. cont[p] # "clear" \/ l # "saving"
    OBVIOUS
  <2> HIDE DEF new
  <2>7. UsersTypeOK'
    BY <1>1, <2>2, <2>3, <2>4, Empties DEF UsersTypeOK, bridgeVars
  <2>8. CallFits(l, cont[p], new)
    BY <2>3, <2>5 DEF CallFits, Flips, Deletes
  <2>9. CallsFit'
    BY <2>4, <2>8, OneFits DEF UsersTypeOK
  <2> QED
    BY <2>7, <2>9
<1> QED
  BY <1>2, <1>3, <1>4, <1>5

LEMMA StepInv == Inv /\ [UsersNext]_vars => Inv'
<1> SUFFICES ASSUME Inv, [UsersNext]_vars
             PROVE  Inv'
  OBVIOUS
<1>1. ASSUME NEW p \in Procs, Step(p)
      PROVE  Inv'
  BY <1>1, LifeInv, KeysInv, ListInv, FlipInv, ReturnInv, DeleteInv DEF Step
<1>2. CASE Elsewhere
  BY <1>2 DEF Inv, Elsewhere, UsersTypeOK, CallsFit, ConfigTypeOK, configVars,
              diskVars, procVars
<1>3. CASE UNCHANGED vars
  BY <1>3 DEF Inv, UsersTypeOK, CallsFit, ConfigTypeOK, vars, configVars, bridgeVars,
              diskVars, procVars
<1> QED
  BY <1>1, <1>2, <1>3 DEF UsersNext

\* Every variable of the users module keeps its type, and every process that flips
\* has two names and one that is still to do, whatever other processes, other
\* programs and failures do meanwhile (hue.inc.users.tcl).
THEOREM UsersInvariant == UsersSpec => []Inv
BY InitInv, StepInv, PTL DEF UsersSpec

THEOREM UsersTypeCorrect == UsersSpec => []UsersTypeOK
<1>1. Inv => UsersTypeOK
  BY DEF Inv
<1> QED
  BY <1>1, UsersInvariant, PTL

-----------------------------------------------------------------------------
(* The mode and the key in use *)

\* A step of one process leaves every other one where it is.
LEMMA OthersStay ==
    ASSUME Inv, NEW p \in Procs, NEW q \in Procs \ {p}, Step(p)
    PROVE  /\ pc'[q] = pc[q] /\ cont'[q] = cont[q]
           /\ keys'[q] = keys[q] /\ keysLoaded'[q] = keysLoaded[q]
<1> USE DEF Inv, UsersTypeOK
<1>1. ASSUME Exit(p)
      PROVE  /\ pc'[q] = pc[q] /\ cont'[q] = cont[q]
             /\ keys'[q] = keys[q] /\ keysLoaded'[q] = keysLoaded[q]
  BY <1>1 DEF Exit, Goto
<1>2. ASSUME NEW store, NEW next, SaveKeys(p, store, next)
      PROVE  /\ pc'[q] = pc[q] /\ cont'[q] = cont[q]
             /\ keys'[q] = keys[q] /\ keysLoaded'[q] = keysLoaded[q]
  BY <1>2 DEF SaveKeys, Goto
<1>3. ASSUME NEW l, Goto(p, l)
      PROVE  pc'[q] = pc[q]
  BY <1>3 DEF Goto
<1>4. CASE Start(p) \/ End(p) \/ TclError(p) \/ Configure(p)
  BY <1>1, <1>3, <1>4 DEF Start, End, TclError, Configure, procVars
<1>5. CASE FlushKeys(p)
  BY <1>5 DEF FlushKeys, Goto
<1>6. ASSUME NEW a \in Accounts, AddKey(p, a) \/ Post(p, a)
      PROVE  /\ pc'[q] = pc[q] /\ cont'[q] = cont[q]
             /\ keys'[q] = keys[q] /\ keysLoaded'[q] = keysLoaded[q]
  BY <1>2, <1>3, <1>6 DEF AddKey, Post
<1>7. CASE RememberCreated(p)
  BY <1>2, <1>3, <1>7 DEF RememberCreated
<1>8. CASE ListCached(p)
  BY <1>2, <1>8 DEF ListCached
<1>9. CASE ListUsers(p) \/ RemoteListAll(p) \/ Flip(p)
  BY <1>1, <1>3, <1>9 DEF ListUsers, RemoteListAll, Flip, FlipTo
<1>10. CASE FlipBack(p)
  BY <1>1, <1>3, <1>10 DEF FlipBack, Match
<1>11. CASE Emit(p)
  <2>1. CASE \E store : SaveKeys(p, store, "restore")
    BY <1>2, <2>1
  <2>2. CASE /\ keys' = [keys EXCEPT ![p] = KnownKeys(p)]
             /\ keysLoaded' = [keysLoaded EXCEPT ![p] = TRUE]
             /\ Goto(p, "restore")
             /\ UNCHANGED <<cont, diskKeys>>
    BY <1>3, <2>2
  <2> QED
    BY <1>11, <2>1, <2>2 DEF Emit
<1>12. CASE Return(p) \/ StartDelete(p) \/ DeleteRemote(p)
  BY <1>1, <1>3, <1>12 DEF Return, StartDelete, DeleteRemote
<1>13. CASE ForgetKey(p) \/ ClearCache(p)
  BY <1>2, <1>3, <1>13 DEF ForgetKey, ClearCache
<1> QED
  BY <1>4, <1>5, <1>6, <1>7, <1>8, <1>9, <1>10, <1>11, <1>12, <1>13 DEF Step

\* Nor does it change the configuration in which another process is.
LEMMA OthersKeepKeys ==
    ASSUME Inv, NEW p \in Procs, NEW q \in Procs \ {p}, Step(p)
    PROVE  /\ mode'[q] = mode[q] /\ key'[q] = key[q] /\ override'[q] = override[q]
           /\ envKey' = envKey /\ call'[q] = call[q]
<1> USE DEF Inv, UsersTypeOK, ConfigTypeOK
<1>1. ASSUME UNCHANGED configVars, UNCHANGED call \/ Exit(p) \/ \E c : call' = [call EXCEPT ![p] = c]
      PROVE  /\ mode'[q] = mode[q] /\ key'[q] = key[q] /\ override'[q] = override[q]
             /\ envKey' = envKey /\ call'[q] = call[q]
  BY <1>1 DEF configVars, Exit
<1>2. ASSUME LoadConfig(p) \/ ConfigDefault(p) \/ (\E m : ConfigSetMode(p, m))
                \/ (\E m, k : ConfigSet(p, m, k))
      PROVE  mode'[q] = mode[q] /\ key'[q] = key[q] /\ override'[q] = override[q]
             /\ envKey' = envKey
  BY <1>2 DEF LoadConfig, ConfigDefault, ConfigSetMode, ConfigSet
<1>3. CASE Start(p) \/ Configure(p)
  BY <1>2, <1>3 DEF Start, Configure, procVars
<1>4. CASE End(p) \/ TclError(p)
  BY <1>1, <1>4 DEF End, TclError
<1>5. CASE FlushKeys(p) \/ (\E a \in Accounts : AddKey(p, a) \/ Post(p, a)) \/ RememberCreated(p)
  BY <1>1, <1>5 DEF FlushKeys, AddKey, Post, RememberCreated
<1>6. CASE ListCached(p) \/ Emit(p)
  BY <1>1, <1>6 DEF ListCached, Emit
<1>7. CASE ListUsers(p) \/ Flip(p) \/ Return(p)
  BY <1>2, <1>7 DEF ListUsers, Flip, FlipTo, Return
<1>8. CASE RemoteListAll(p)
  <2>1. call'[q] = call[q]
    BY <1>8 DEF RemoteListAll, Exit
  <2>2. CASE UNCHANGED configVars
    BY <2>1, <2>2 DEF configVars
  <2>3. CASE \E m, k : ConfigSet(p, m, k)
    BY <1>2, <2>1, <2>3
  <2> QED
    BY <1>8, <2>2, <2>3 DEF RemoteListAll
<1>9. CASE FlipBack(p)
  BY <1>2, <1>9 DEF FlipBack, Match, Exit
<1>10. CASE StartDelete(p)
  BY <1>1, <1>10 DEF StartDelete
<1>11. CASE DeleteRemote(p)
  BY <1>1, <1>11 DEF DeleteRemote
<1>12. CASE ForgetKey(p)
  BY <1>1, <1>12 DEF ForgetKey
<1>13. CASE ClearCache(p)
  BY <1>13 DEF ClearCache, configVars
<1> QED
  BY <1>3, <1>4, <1>5, <1>6, <1>7, <1>8, <1>9, <1>10, <1>11, <1>12, <1>13 DEF Step

\* A listing between its flips, at place l, with k to be done after the keys are saved.
AtHome(l, k) ==
    l \in {"list", "setA", "setB", "emit", "restore"} \/ (l = "saving" /\ k = "restore")

\* What the nested saves hold: within a flip the key of the caller is in flipKey, and
\* outside it reading the files again would bring that key about once more.
KeyFits(p) ==
    /\ pc[p] = "getA" => mode[p] = "local" /\ key[p] = Remote(Ra(call[p]))
    /\ pc[p] = "getB" => mode[p] = "local" /\ key[p] = Remote(Rb(call[p]))
    /\ pc[p] \in {"getA", "getB"} /\ call[p].savedKey # None
          => call[p].flipKey = call[p].savedKey
    /\ AtHome(pc[p], cont[p]) =>
          /\ mode[p] = "remote"
          /\ call[p].savedKey # None =>
                /\ key[p] = call[p].savedKey
                /\ Loaded(key[p], override[p]) = call[p].savedKey

KeysFit == \A p \in Procs : KeyFits(p)

LEMMA KeyStep ==
    ASSUME Inv, NEW p \in Procs, KeyFits(p), Step(p)
    PROVE  KeyFits(p)'
<1> USE DEF Goto
<1> DEFINE c == call[p]
<1>0. /\ pc \in [Procs -> Places] /\ cont \in [Procs -> {"idle", "restore", "clear"}]
      /\ c \in Call /\ DOMAIN call = Procs
      /\ mode \in [Procs -> Modes] /\ key \in [Procs -> Key] /\ override \in [Procs -> Key]
  BY DEF Inv, UsersTypeOK, ConfigTypeOK, Key, Places
<1>1. ASSUME pc'[p] \notin {"getA", "getB"}, ~AtHome(pc'[p], cont'[p])
      PROVE  KeyFits(p)'
  BY <1>1 DEF KeyFits
<1>2. CASE Start(p) \/ End(p) \/ TclError(p)
  BY <1>0, <1>1, <1>2 DEF Start, End, TclError, Exit, AtHome
<1>3. CASE Configure(p)
  BY <1>0, <1>1, <1>3 DEF Configure, procVars, AtHome
<1>4. CASE FlushKeys(p)
  <2>1. /\ pc[p] = "saving" /\ pc'[p] = cont[p] /\ cont'[p] = "idle"
        /\ UNCHANGED <<mode, key, override, envKey, call>>
    BY <1>0, <1>4 DEF FlushKeys, configVars
  <2>2. CASE cont[p] = "restore"
    BY <2>1, <2>2 DEF KeyFits, AtHome, Loaded
  <2>3. CASE cont[p] # "restore"
    BY <1>0, <1>1, <2>1, <2>3 DEF AtHome
  <2> QED
    BY <2>2, <2>3
<1>5. ASSUME NEW a \in Accounts, AddKey(p, a) \/ Post(p, a)
      PROVE  KeyFits(p)'
  BY <1>0, <1>1, <1>5 DEF AddKey, Post, SaveKeys, AtHome
<1>6. CASE RememberCreated(p)
  BY <1>0, <1>1, <1>6 DEF RememberCreated, SaveKeys, AtHome
<1>7. CASE ListCached(p)
  BY <1>0, <1>1, <1>7 DEF ListCached, SaveKeys, AtHome
<1>8. CASE ListUsers(p)
  <2> DEFINE k == Loaded(key[p], override[p])
  <2>1. k \in Key
    BY <1>0, Names DEF Loaded, Inv, UsersTypeOK, ConfigTypeOK
  <2>2. call'[p].savedKey = k
    BY <1>0, <1>8 DEF ListUsers, NoCall
  <2>3. /\ pc'[p] = "list" /\ mode'[p] = "remote" /\ key'[p] = k
        /\ override'[p] = override[p] /\ envKey' = envKey
    BY <1>0, <1>8 DEF ListUsers, ConfigSetMode
  <2>4. IF override'[p] # None THEN override'[p] = k
        ELSE (IF envKey' # None THEN envKey' ELSE k) = k
    BY <2>3 DEF Loaded
  <2> QED
    BY <2>2, <2>3, <2>4 DEF KeyFits, AtHome, Loaded
<1>9. CASE RemoteListAll(p)
  <2>1. CASE pc'[p] = "down"
    BY <1>1, <2>1 DEF AtHome
  <2>2. CASE \E S : call' = [call EXCEPT ![p].listed = S] /\ pc'[p] = "setA" /\ UNCHANGED configVars
    <3>1. call'[p].savedKey = c.savedKey /\ pc[p] = "list" /\ pc'[p] = "setA"
          /\ UNCHANGED <<mode, key, override, envKey>>
      BY <1>0, <1>9, <2>2 DEF RemoteListAll, configVars, Call
    <3> QED
      BY <3>1 DEF KeyFits, AtHome, Loaded
  <2> QED
    BY <1>0, <1>9, <2>1, <2>2 DEF RemoteListAll, Exit
<1>10. CASE Flip(p)
  <2>1. /\ pc[p] \in {"setA", "setB"}
        /\ call' = [call EXCEPT ![p].flipKey = Loaded(key[p], override[p])]
    BY <1>10 DEF Flip, FlipTo
  <2>2. /\ call'[p].savedKey = c.savedKey /\ call'[p].listed = c.listed
        /\ call'[p].done = c.done /\ call'[p].flipKey = Loaded(key[p], override[p])
    BY <1>0, <2>1 DEF Call
  <2>3. Ra(call'[p]) = Ra(c) /\ Rb(call'[p]) = Rb(c)
    BY <2>2 DEF Ra, Rb
  <2>4. c.savedKey # None => call'[p].flipKey = call'[p].savedKey
    BY <2>1, <2>2 DEF KeyFits, AtHome
  <2>5. \/ pc'[p] = "getA" /\ ConfigSet(p, "local", Remote(Ra(c)))
        \/ pc'[p] = "getB" /\ ConfigSet(p, "local", Remote(Rb(c)))
    BY <1>0, <1>10 DEF Flip, FlipTo
  <2>6. \A a : Remote(a) # None
    BY DEF Remote, None
  <2>7. /\ mode'[p] = "local"
        /\ pc'[p] = "getA" => key'[p] = Remote(Ra(c))
        /\ pc'[p] = "getB" => key'[p] = Remote(Rb(c))
    BY <1>0, <2>5, <2>6 DEF ConfigSet
  <2> QED
    BY <2>2, <2>3, <2>4, <2>5, <2>7 DEF KeyFits, AtHome
<1>11. CASE FlipBack(p)
  <2>1. CASE pc'[p] = "down"
    BY <1>1, <2>1 DEF AtHome
  <2>2. CASE pc'[p] # "down"
    <3>1. /\ pc[p] \in {"getA", "getB"} /\ pc'[p] \in {"setB", "emit", "setA"}
          /\ call'[p].savedKey = c.savedKey
      BY <1>0, <1>11, <2>2 DEF FlipBack, Exit, Match, Call
    <3>2. ConfigSet(p, "remote", c.flipKey)
      BY <1>11 DEF FlipBack
    <3>3. mode'[p] = "remote" /\ override'[p] = c.flipKey
          /\ (c.flipKey # None => key'[p] = c.flipKey)
      BY <1>0, <3>2 DEF ConfigSet
    <3>4. c.savedKey # None => c.flipKey = c.savedKey
      BY <3>1 DEF KeyFits
    <3> QED
      BY <3>1, <3>3, <3>4 DEF KeyFits, AtHome, Loaded
  <2> QED
    BY <2>1, <2>2
<1>12. CASE Emit(p)
  <2>1. /\ pc[p] = "emit" /\ AtHome(pc'[p], cont'[p]) /\ pc'[p] \in {"saving", "restore"}
        /\ UNCHANGED <<mode, key, override, envKey, call>>
    BY <1>0, <1>12 DEF Emit, SaveKeys, AtHome, configVars
  <2> QED
    BY <2>1 DEF KeyFits, AtHome, Loaded
<1>13. CASE Return(p) \/ StartDelete(p) \/ DeleteRemote(p)
  BY <1>0, <1>1, <1>13 DEF Return, StartDelete, DeleteRemote, Exit, AtHome
<1>14. CASE ForgetKey(p) \/ ClearCache(p)
  BY <1>0, <1>1, <1>14 DEF ForgetKey, ClearCache, SaveKeys, AtHome
<1> QED
  BY <1>2, <1>3, <1>4, <1>5, <1>6, <1>7, <1>8, <1>9, <1>10, <1>11, <1>12, <1>13, <1>14
  DEF Step

LEMMA KeysFitStep == Inv /\ KeysFit /\ [UsersNext]_vars => KeysFit'
<1> SUFFICES ASSUME Inv, KeysFit, [UsersNext]_vars
             PROVE  KeysFit'
  OBVIOUS
<1>1. ASSUME NEW p \in Procs, Step(p)
      PROVE  KeysFit'
  <2>1. KeyFits(p)'
    BY <1>1, KeyStep DEF KeysFit
  <2>2. ASSUME NEW q \in Procs \ {p}
        PROVE  KeyFits(q)'
    <3>1. KeyFits(q)
      BY DEF KeysFit
    <3>2. /\ pc'[q] = pc[q] /\ cont'[q] = cont[q] /\ mode'[q] = mode[q]
          /\ key'[q] = key[q] /\ override'[q] = override[q] /\ envKey' = envKey
          /\ call'[q] = call[q]
      BY <1>1, OthersStay, OthersKeepKeys
    <3> QED
      BY <3>1, <3>2 DEF KeyFits, Loaded
  <2> QED
    BY <2>1, <2>2 DEF KeysFit
<1>2. CASE Elsewhere \/ UNCHANGED vars
  <2>1. UNCHANGED <<configVars, pc, cont, call>>
    BY <1>2 DEF Elsewhere, vars, procVars
  <2> QED
    BY <2>1 DEF KeysFit, KeyFits, Loaded, configVars
<1> QED
  BY <1>1, <1>2 DEF UsersNext

LEMMA KeysFitInit == UsersInit => KeysFit
BY DEF UsersInit, KeysFit, KeyFits, AtHome

\* Every request of a listing goes out in the mode and under the key it is meant for,
\* although each flip saves and restores both inside the save and restore of listUsers,
\* for any number of processes and accounts.
THEOREM KeyInUseIsRight == UsersSpec => []RightKeyInUse
<1>1. KeysFit => RightKeyInUse
  BY DEF KeysFit, KeyFits, AtHome, RightKeyInUse
<1> QED
  BY <1>1, KeysFitInit, KeysFitStep, UsersInvariant, PTL DEF UsersSpec

-----------------------------------------------------------------------------
(* The mapping of remote names to local ones *)

\* u may stand as the local name of account a.
RightName(a, u) ==
    u # None =>
        /\ stamp[u[2]] = stamp[a]
        /\ (\A b \in Accounts : stamp[b] = stamp[a] => b = a) => u = Local(a)

RowsRight(rows) == \A r \in rows : RightName(r.acc, r.lu)

FoundRight(c) == \A a \in Accounts : RightName(a, c.found[a])

NamesRight ==
    /\ RowsRight(diskCache.rows)
    /\ \A p \in Procs : RowsRight(cache[p].rows) /\ FoundRight(call[p])

LEMMA NothingRight == RowsRight(Cold.rows) /\ FoundRight(NoCall)
BY DEF RowsRight, FoundRight, RightName, Cold, NoCall

\* Stamps never change, so names stay right.
LEMMA NamesStay ==
    ASSUME Inv, Inv', stamp' = stamp, RowsRight(diskCache'.rows),
           \A q \in Procs : RowsRight(cache'[q].rows) /\ FoundRight(call'[q])
    PROVE  NamesRight'
BY DEF NamesRight, RowsRight, FoundRight, RightName

\* What a flip finds is right: under another key than its own the bridge shows an
\* account by its local name, and the names it looks at are of one stamp.
LEMMA MatchRight ==
    ASSUME Inv, NamesRight, NEW p \in Procs, pc[p] = "getB", KeyFits(p), Match(p)
    PROVE  call' = [call EXCEPT ![p] = call'[p]] /\ FoundRight(call'[p])
<1> DEFINE c == call[p]
           ra == Ra(c)
           names == SameJoinKey(ra, key[p])
           done == c.done \cup {ra}
<1>0. c \in Call /\ DOMAIN call = Procs
  BY DEF Inv, UsersTypeOK
<1>1. c.listed \ c.done # {} /\ Plural(c.listed)
  BY DEF Inv, CallsFit, CallFits, Flips
<1>2. ra \in Accounts /\ key[p] # Remote(ra)
  <2>1. ra \in Accounts /\ Rb(c) # ra
    BY <1>0, <1>1, RbIsAnother, CallShape
  <2>2. key[p] = Remote(Rb(c))
    BY DEF KeyFits
  <2> QED
    BY <2>1, <2>2 DEF Remote
<1>3. \E u \in names \cup {None} :
         call' = [call EXCEPT ![p].done = done, ![p].found[ra] = u]
  BY Zenon DEF Match
<1>4. PICK u \in names \cup {None} :
         call' = [call EXCEPT ![p].done = done, ![p].found[ra] = u]
  BY <1>3
<1>5. RightName(ra, u)
  <2>1. CASE u = None
    BY <2>1 DEF RightName
  <2>2. CASE u \in names
    <3>1. PICK b \in White : stamp[b] = stamp[ra] /\ u = Shown(b, key[p])
      BY <2>2 DEF SameJoinKey
    <3>2. b \in Accounts /\ u[2] = b
      BY <3>1 DEF White, Shown, Remote, Local
    <3>3. b = ra => u = Local(ra)
      BY <1>2, <3>1 DEF Shown
    <3> QED
      BY <3>1, <3>2, <3>3 DEF RightName
  <2> QED
    BY <2>1, <2>2
<1>6. c.found \in [Accounts -> Key]
  BY <1>0, CallShape
<1>7. call'[p].found = [c.found EXCEPT ![ra] = u]
  BY <1>0, <1>4 DEF Call
<1>8. FoundRight(c)
  BY DEF NamesRight
<1>9. FoundRight(call'[p])
  BY <1>2, <1>5, <1>6, <1>7, <1>8 DEF FoundRight
<1>10. call' = [call EXCEPT ![p] = call'[p]]
  BY <1>0, <1>4
<1> QED
  BY <1>9, <1>10

\* What listUsers returns is what its flips found.
LEMMA ReturnRight ==
    ASSUME Inv, NamesRight, NEW p \in Procs
    PROVE  RowsRight(FoundRows(p))
<1>1. call[p].listed \subseteq Accounts
  BY CallShape DEF Inv, UsersTypeOK
<1> QED
  BY <1>1 DEF RowsRight, FoundRows, NamesRight, FoundRight

\* All other steps only pass rows on, or forget them.
RowsPass(p) ==
    /\ diskCache' \in {diskCache, Cold}
    /\ \/ cache' = cache
       \/ \E rows \in {cache[p], diskCache, Cold} : cache' = [cache EXCEPT ![p] = rows]
    /\ \/ call' = call
       \/ \E c \in {k \in Call : k.found \in {call[p].found, NoCall.found}} :
             call' = [call EXCEPT ![p] = c]

LEMMA OthersPass ==
    ASSUME Inv, NEW p \in Procs, Step(p), ~Return(p), ~(pc[p] = "getB" /\ Match(p))
    PROVE  RowsPass(p)
<1> USE DEF Inv
<1>0. call \in [Procs -> Call] /\ call[p] \in Call /\ NoCall \in Call
  BY Empties DEF UsersTypeOK
<1>1. ASSUME Exit(p), diskCache' = diskCache
      PROVE  RowsPass(p)
  BY <1>0, <1>1 DEF Exit, RowsPass
<1>2. CASE UNCHANGED <<diskCache, cache, call>>
  BY <1>2 DEF RowsPass
<1>3. CASE UNCHANGED <<diskCache, cache>> /\ call' = [call EXCEPT ![p] = NoCall]
  BY <1>0, <1>3 DEF RowsPass
<1>4. CASE Start(p) \/ End(p) \/ TclError(p) \/ Configure(p)
  BY <1>1, <1>2, <1>3, <1>4
  DEF Start, End, TclError, Configure, diskVars, procVars
<1>5. CASE FlushKeys(p) \/ (\E a \in Accounts : AddKey(p, a)) \/ RememberCreated(p)
  BY <1>2, <1>3, <1>5 DEF FlushKeys, AddKey, RememberCreated
<1>6. ASSUME NEW a \in Accounts, Post(p, a)
      PROVE  RowsPass(p)
  <2> DEFINE c == [NoCall EXCEPT !.listed = {a}]
  <2>1. c \in Call /\ c.found = NoCall.found
    BY <1>0 DEF Call
  <2>2. call' = [call EXCEPT ![p] = c] /\ UNCHANGED <<diskCache, cache>>
    BY <1>6 DEF Post, diskVars
  <2> HIDE DEF c
  <2> QED
    BY <2>1, <2>2 DEF RowsPass
<1>7. CASE ListCached(p)
  BY <1>7 DEF ListCached, CachedRows, RowsPass
<1>8. CASE ListUsers(p)
  <2> DEFINE c == [NoCall EXCEPT !.savedMode = mode[p],
                                 !.savedKey = Loaded(key[p], override[p])]
  <2>1. c \in Call /\ c.found = NoCall.found
    <3>1. Loaded(key[p], override[p]) \in Key /\ mode[p] \in Modes
      BY Names DEF UsersTypeOK, ConfigTypeOK, Loaded, Key
    <3> QED
      BY <1>0, <3>1 DEF Call, Key
  <2>2. call' = [call EXCEPT ![p] = c] /\ diskCache' = diskCache
    BY <1>8 DEF ListUsers, diskVars
  <2>3. \/ cache' = cache
        \/ \E rows \in {cache[p], diskCache, Cold} : cache' = [cache EXCEPT ![p] = rows]
    BY <1>8 DEF ListUsers, CachedRows
  <2> HIDE DEF c
  <2> QED
    BY <2>1, <2>2, <2>3 DEF RowsPass
<1>9. CASE RemoteListAll(p)
  <2>1. CASE Exit(p)
    BY <1>1, <1>9, <2>1 DEF RemoteListAll, diskVars
  <2>2. ASSUME NEW S \in SUBSET White, call' = [call EXCEPT ![p].listed = S],
               UNCHANGED <<diskCache, cache>>
        PROVE  RowsPass(p)
    <3> DEFINE c == [call[p] EXCEPT !.listed = S]
    <3>1. c \in Call /\ c.found = call[p].found
      BY <1>0 DEF Call, White
    <3>2. call' = [call EXCEPT ![p] = c]
      BY <2>2
    <3> HIDE DEF c
    <3> QED
      BY <2>2, <3>1, <3>2 DEF RowsPass
  <2> QED
    BY <1>9, <2>1, <2>2 DEF RemoteListAll, diskVars
<1>10. CASE Flip(p)
  <2> DEFINE c == [call[p] EXCEPT !.flipKey = Loaded(key[p], override[p])]
  <2>1. c \in Call /\ c.found = call[p].found
    <3>1. Loaded(key[p], override[p]) \in Key
      BY Names DEF UsersTypeOK, ConfigTypeOK, Loaded, Key
    <3> QED
      BY <1>0, <3>1 DEF Call, Key
  <2>2. call' = [call EXCEPT ![p] = c] /\ UNCHANGED <<diskCache, cache>>
    BY <1>10 DEF Flip, FlipTo, diskVars
  <2> HIDE DEF c
  <2> QED
    BY <2>1, <2>2 DEF RowsPass
<1>11. CASE FlipBack(p)
  BY <1>1, <1>2, <1>11 DEF FlipBack, diskVars
<1>12. CASE Emit(p)
  BY <1>2, <1>12 DEF Emit
<1>13. CASE StartDelete(p)
  <2>1. \E S : call' = [call EXCEPT ![p] = [NoCall EXCEPT !.doomed = S]]
    BY <1>13 DEF StartDelete
  <2>2. PICK S : call' = [call EXCEPT ![p] = [NoCall EXCEPT !.doomed = S]]
    BY <2>1
  <2> DEFINE c == [NoCall EXCEPT !.doomed = S]
  <2>3. call'[p] \in Call
    BY DeleteInv, <1>13 DEF UsersTypeOK
  <2>4. c \in Call /\ c.found = NoCall.found
    BY <1>0, <2>2, <2>3 DEF Call
  <2>5. UNCHANGED <<diskCache, cache>> /\ call' = [call EXCEPT ![p] = c]
    BY <1>13, <2>2 DEF StartDelete, diskVars
  <2> HIDE DEF c
  <2> QED
    BY <2>4, <2>5 DEF RowsPass
<1>14. CASE DeleteRemote(p)
  BY <1>1, <1>2, <1>14 DEF DeleteRemote, diskVars
<1>15. CASE ForgetKey(p)
  BY <1>2, <1>15 DEF ForgetKey
<1>16. CASE ClearCache(p)
  <2> DEFINE c == [call[p] EXCEPT !.doomed = call[p].doomed \ {Least(call[p].doomed)}]
  <2>1. c \in Call /\ c.found = call[p].found
    BY <1>0 DEF Call
  <2>2. call' = [call EXCEPT ![p] = c] /\ diskCache' = Cold
    BY <1>16 DEF ClearCache
  <2>3. cache' = [cache EXCEPT ![p] = Cold]
    BY <1>16 DEF ClearCache
  <2> HIDE DEF c
  <2> QED
    BY <2>1, <2>2, <2>3 DEF RowsPass
<1> QED
  BY <1>4, <1>5, <1>6, <1>7, <1>8, <1>9, <1>10, <1>11, <1>12, <1>13, <1>14, <1>15, <1>16
  DEF Step

\* Only the second answer of a flip finds names.
LEMMA MatchIsNoExit ==
    ASSUME Inv, NEW p \in Procs, Match(p)
    PROVE  ~Exit(p)
<1>1. pc'[p] \in {"emit", "setA"}
  BY DEF Match, Goto, Inv, UsersTypeOK
<1> QED
  BY <1>1 DEF Exit, Goto, Inv, UsersTypeOK

LEMMA OnlyFlipBack ==
    ASSUME Inv, NEW p \in Procs, Step(p), pc[p] = "getB", Match(p)
    PROVE  FlipBack(p)
<1>1. pc'[p] \in {"emit", "setA"}
  BY DEF Match, Goto, Inv, UsersTypeOK
<1>2. ~Exit(p)
  BY MatchIsNoExit
<1> QED
  BY <1>1, <1>2
  DEF Step, Start, End, TclError, Configure, FlushKeys, AddKey, Post,
      RememberCreated, ListCached, ListUsers, RemoteListAll, Flip, Emit, Return,
      StartDelete, DeleteRemote, ForgetKey, ClearCache, Goto, Inv, UsersTypeOK

LEMMA NamesStep == Inv /\ KeysFit /\ NamesRight /\ [UsersNext]_vars => NamesRight'
<1> SUFFICES ASSUME Inv, KeysFit, NamesRight, [UsersNext]_vars
             PROVE  NamesRight'
  OBVIOUS
<1>0. Inv'
  BY StepInv
<1>1. stamp' = stamp
  BY DEF UsersNext, Step, Elsewhere, Start, End, TclError, Configure, FlushKeys,
         AddKey, Post, RememberCreated, ListCached, ListUsers, RemoteListAll, Flip,
         FlipBack, Emit, Return, StartDelete, DeleteRemote, ForgetKey, ClearCache,
         vars, bridgeVars
<1>2. /\ cache \in [Procs -> Cache] /\ call \in [Procs -> Call]
      /\ RowsRight(diskCache.rows)
      /\ \A q \in Procs : RowsRight(cache[q].rows) /\ FoundRight(call[q])
  BY DEF Inv, UsersTypeOK, NamesRight
<1>3. ASSUME NEW p \in Procs, Step(p)
      PROVE  NamesRight'
  <2>1. CASE Return(p)
    <3> DEFINE result == [loaded |-> TRUE, rows |-> FoundRows(p)]
    <3>1. /\ cache' = [cache EXCEPT ![p] = result]
          /\ diskCache' = result
          /\ call' = [call EXCEPT ![p] = NoCall]
      BY <2>1 DEF Return
    <3>2. RowsRight(result.rows)
      BY ReturnRight
    <3> HIDE DEF result
    <3>3. ASSUME NEW q \in Procs
          PROVE  RowsRight(cache'[q].rows) /\ FoundRight(call'[q])
      BY <1>2, <3>1, <3>2, NothingRight
    <3> QED
      BY <1>0, <1>1, <3>1, <3>2, <3>3, NamesStay
  <2>2. CASE pc[p] = "getB" /\ Match(p)
    <3>1. FlipBack(p) /\ ~Exit(p)
      BY <1>3, <2>2, OnlyFlipBack, MatchIsNoExit
    <3>2. UNCHANGED <<diskCache, cache>>
      BY <2>2, <3>1 DEF FlipBack, diskVars
    <3>3. call' = [call EXCEPT ![p] = call'[p]] /\ FoundRight(call'[p])
      BY <2>2, MatchRight DEF KeysFit
    <3>4. ASSUME NEW q \in Procs
          PROVE  RowsRight(cache'[q].rows) /\ FoundRight(call'[q])
      BY <1>2, <3>2, <3>3
    <3> QED
      BY <1>0, <1>1, <1>2, <3>2, <3>4, NamesStay
  <2>3. CASE ~Return(p) /\ ~(pc[p] = "getB" /\ Match(p))
    <3>1. RowsPass(p)
      BY <1>3, <2>3, OthersPass
    <3>2. RowsRight(diskCache'.rows)
      BY <1>2, <3>1, NothingRight DEF RowsPass
    <3>3. ASSUME NEW q \in Procs
          PROVE  RowsRight(cache'[q].rows)
      BY <1>2, <3>1, NothingRight DEF RowsPass
    <3>4. ASSUME NEW q \in Procs
          PROVE  FoundRight(call'[q])
      <4>1. call'[q].found \in {call[q].found, NoCall.found}
        BY <1>2, <3>1 DEF RowsPass
      <4> QED
        BY <1>2, <4>1, NothingRight DEF FoundRight
    <3> QED
      BY <1>0, <1>1, <3>2, <3>3, <3>4, NamesStay
  <2> QED
    BY <2>1, <2>2, <2>3
<1>4. CASE Elsewhere
  BY <1>0, <1>1, <1>2, <1>4, NamesStay DEF Elsewhere, diskVars, procVars
<1>5. CASE UNCHANGED vars
  BY <1>0, <1>1, <1>2, <1>5, NamesStay DEF vars, diskVars, procVars
<1> QED
  BY <1>3, <1>4, <1>5 DEF UsersNext

\* The local name a row gives for a remote one belongs to an account of the same
\* device type and creation date, and to the account itself when no other has these:
\* flipping never takes a row for its neighbour (listUsers), for any number of
\* accounts, of twins among them and of processes.
THEOREM MappingHolds == UsersSpec => []MappingRight
<1>1. UsersInit => NamesRight
  BY NothingRight DEF UsersInit, NamesRight
<1>2. Inv /\ NamesRight => MappingRight
  BY DEF NamesRight, RowsRight, RightName, MappingRight
<1> QED
  BY <1>1, <1>2, UsersInvariant, KeysFitInit, KeysFitStep, NamesStep, PTL DEF UsersSpec

-----------------------------------------------------------------------------
(* Processes that run one after the other: what is filed and what is gone *)

\* No two processes of the toolkit run at the same time.
OneProcess == \A p, q \in Procs : p = q

Rows == diskCache.rows \cup UNION {cache[p].rows : p \in Procs}

\* A process that has read the client keys knows what the file holds, and while it
\* rewrites the file nothing is in it.
InStep ==
    \A p \in Procs :
        /\ pc[p] = "saving" => keysLoaded[p] /\ diskKeys = NoKeys
        /\ pc[p] # "saving" /\ keysLoaded[p] => keys[p] = diskKeys

\* Under a remote name nothing is filed but its client key: the swapped arguments of
\* clientKeyRemember file under client keys only.
Filed(store) == \A a \in Accounts : store[Remote(a)] \in {None, ClientKey(a)}

KeysFiled ==
    /\ Filed(diskKeys) /\ \A p \in Procs : Filed(keys[p])
    /\ \A r \in Rows : r.ck \in {None, ClientKey(r.acc)}

\* What a deletion has done before its client key is forgotten, and after.
UnderWay ==
    \A p \in Procs :
        /\ Deletes(pc[p], cont[p]) /\ pc[p] # "delete"
              => status[Least(call[p].doomed)] = "removed"
        /\ Deletes(pc[p], cont[p]) /\ pc[p] \notin {"delete", "forget"}
              => keysLoaded[p] /\ keys[p][Remote(Least(call[p].doomed))] = None

GoneForGood ==
    \A a \in gone :
        /\ status[a] = "removed"
        /\ \A r \in Rows : r.acc # a
        /\ diskKeys[Remote(a)] = None
        /\ \A p \in Procs : a \notin call[p].listed /\ keys[p][Remote(a)] = None

Books == InStep /\ KeysFiled /\ UnderWay /\ GoneForGood

LEMMA KindsDiffer ==
    \A a, b \in Accounts : Remote(a) # Local(b) /\ Remote(a) # ClientKey(b)
                           /\ (Remote(a) = Remote(b) => a = b)
                           /\ ClientKey(a) # None /\ Remote(a) \in Id
BY Names DEF Remote, Local, ClientKey

\* Linking leaves the remote names alone.
LEMMA LinkKeeps ==
    ASSUME NEW store, NEW pairs, \A q \in pairs : \E b \in Accounts : q[1] = ClientKey(b),
           NEW a \in Accounts
    PROVE  Link(store, pairs)[Remote(a)] = store[Remote(a)]
<1>1. ~ \E q \in pairs : q[1] = Remote(a)
  BY KindsDiffer
<1> QED
  BY <1>1, KindsDiffer DEF Link

\* What a rewrite of the client keys may change under the remote names.
Kept(p, store) ==
    \A a \in Accounts :
        \/ store[Remote(a)] = KnownKeys(p)[Remote(a)]
        \/ /\ store[Remote(a)] = ClientKey(a)
           /\ status[a] = "white" \/ a \in call[p].listed
        \/ store[Remote(a)] = None /\ ForgetKey(p) /\ a = Least(call[p].doomed)

\* What a step may do to the client keys: nothing, read them, lose the memory of
\* them with the process, flush them or begin to rewrite them.
KeysStay(p) ==
    pc[p] # "saving" /\ pc'[p] # "saving" /\ UNCHANGED <<keys, keysLoaded, diskKeys>>

KeysRead(p) ==
    /\ pc[p] # "saving" /\ pc'[p] # "saving"
    /\ keys' = [keys EXCEPT ![p] = KnownKeys(p)]
    /\ keysLoaded' = [keysLoaded EXCEPT ![p] = TRUE]
    /\ diskKeys' = diskKeys

KeysSaved(p) ==
    /\ pc[p] # "saving"
    /\ \E store, next : SaveKeys(p, store, next) /\ Kept(p, store)

KeysMove(p) ==
    \/ KeysStay(p) \/ KeysRead(p) \/ KeysSaved(p) \/ FlushKeys(p)
    \/ Exit(p) /\ diskKeys' = diskKeys

\* The rows a call builds hold the client key of their account, or none.
LEMMA FoundFiled ==
    ASSUME Inv, KeysFiled, NEW p \in Procs, NEW r \in FoundRows(p)
    PROVE  r.acc \in call[p].listed /\ r.acc \in Accounts
           /\ r.ck \in {None, ClientKey(r.acc)}
<1>1. call[p].listed \subseteq Accounts
  BY CallShape DEF Inv, UsersTypeOK
<1>2. Filed(KnownKeys(p))
  BY DEF KeysFiled, KnownKeys
<1> QED
  BY <1>1, <1>2 DEF FoundRows, Filed

LEMMA CachedFiled ==
    ASSUME Inv, KeysFiled, NEW p \in Procs, NEW r \in CachedRows(p).rows
    PROVE  r.acc \in Accounts /\ r.ck \in {None, ClientKey(r.acc)}
<1>1. r \in Rows
  BY DEF CachedRows, Rows
<1>2. r \in Row
  BY DEF CachedRows, Inv, UsersTypeOK, Cache
<1> QED
  BY <1>1, <1>2 DEF KeysFiled, Row

LEMMA KeysMoved ==
    ASSUME Inv, KeysFiled, NEW p \in Procs, Step(p)
    PROVE  KeysMove(p)
<1> USE DEF Inv, UsersTypeOK
<1>0. /\ KnownKeys(p) \in Store /\ pc \in [Procs -> Places]
      /\ DOMAIN KnownKeys(p) = Id
  BY KnownType DEF Store, Places
<1>1. ASSUME NEW l, pc[p] # "saving", l # "saving", Goto(p, l),
             UNCHANGED <<keys, keysLoaded, diskKeys>>
      PROVE  KeysMove(p)
  BY <1>0, <1>1 DEF Goto, KeysMove, KeysStay
<1>2. ASSUME Exit(p), diskKeys' = diskKeys
      PROVE  KeysMove(p)
  BY <1>2 DEF KeysMove
<1>3. ASSUME NEW store, NEW next, SaveKeys(p, store, next), pc[p] # "saving",
             Kept(p, store)
      PROVE  KeysMove(p)
  BY <1>3 DEF KeysMove, KeysSaved
<1>4. CASE Start(p) \/ End(p) \/ TclError(p)
  BY <1>1, <1>2, <1>4 DEF Start, End, TclError, diskVars
<1>5. CASE Configure(p)
  BY <1>5 DEF Configure, diskVars, procVars, KeysMove, KeysStay
<1>6. CASE FlushKeys(p)
  BY <1>6 DEF KeysMove
<1>7. ASSUME NEW a \in Accounts, AddKey(p, a)
      PROVE  KeysMove(p)
  <2> DEFINE store == [KnownKeys(p) EXCEPT ![Remote(a)] = ClientKey(a)]
  <2>1. Kept(p, store)
    BY <1>0, <1>7, KindsDiffer DEF AddKey, Kept
  <2>2. SaveKeys(p, store, "idle") /\ pc[p] # "saving"
    BY <1>7 DEF AddKey
  <2> HIDE DEF store
  <2> QED
    BY <1>3, <2>1, <2>2
<1>8. ASSUME NEW a \in Accounts, Post(p, a)
      PROVE  KeysMove(p)
  BY <1>1, <1>8 DEF Post, diskVars
<1>9. CASE RememberCreated(p)
  <2>1. pc[p] = "posted"
    BY <1>9 DEF RememberCreated
  <2>2. ASSUME NEW a \in call[p].listed \cap Keyed, NEW name \in {Remote(a), Local(a)},
               SaveKeys(p, [KnownKeys(p) EXCEPT ![name] = ClientKey(a)], "idle")
        PROVE  KeysMove(p)
    <3> DEFINE store == [KnownKeys(p) EXCEPT ![name] = ClientKey(a)]
    <3>1. a \in Accounts
      BY UsersAssumption
    <3>2. Kept(p, store)
      <4>1. ASSUME NEW b \in Accounts, b # a
            PROVE  store[Remote(b)] = KnownKeys(p)[Remote(b)]
        BY <1>0, <3>1, <4>1, KindsDiffer
      <4>2. store[Remote(a)] \in {KnownKeys(p)[Remote(a)], ClientKey(a)}
        BY <1>0, <3>1, KindsDiffer
      <4> HIDE DEF store
      <4> QED
        BY <3>1, <4>1, <4>2 DEF Kept
    <3>3. SaveKeys(p, store, "idle")
      BY <2>2
    <3> HIDE DEF store
    <3> QED
      BY <1>3, <2>1, <3>2, <3>3
  <2>3. \/ \E a \in call[p].listed \cap Keyed, name \in Id :
              /\ name \in {Remote(a), Local(a)}
              /\ SaveKeys(p, [KnownKeys(p) EXCEPT ![name] = ClientKey(a)], "idle")
        \/ Goto(p, "idle") /\ UNCHANGED <<cont, keys, keysLoaded, diskKeys>>
    BY <1>9, UsersAssumption, Names DEF RememberCreated
  <2> QED
    BY <1>1, <2>1, <2>2, <2>3
<1>10. CASE ListCached(p)
  <2> DEFINE rows == CachedRows(p).rows
             pairs == {<<r.ck, IF r.lu # None THEN r.lu ELSE Remote(r.acc)>>
                         : r \in {x \in rows : x.ck # None}}
             store == Link(KnownKeys(p), pairs)
  <2>1. \A q \in pairs : \E b \in Accounts : q[1] = ClientKey(b)
    BY CachedFiled
  <2>2. Kept(p, store)
    <3> HIDE DEF pairs
    <3> QED
      BY <2>1, LinkKeeps DEF Kept
  <2>3. /\ pc[p] = "idle"
        /\ \/ SaveKeys(p, store, "idle")
           \/ /\ keys' = [keys EXCEPT ![p] = KnownKeys(p)]
              /\ keysLoaded' = [keysLoaded EXCEPT ![p] = TRUE]
              /\ UNCHANGED <<pc, cont, diskKeys>>
    BY <1>10 DEF ListCached
  <2> HIDE DEF store
  <2> QED
    BY <1>3, <2>2, <2>3 DEF KeysMove, KeysRead
<1>11. CASE ListUsers(p) \/ RemoteListAll(p) \/ Flip(p)
  BY <1>1, <1>2, <1>11 DEF ListUsers, RemoteListAll, Flip, FlipTo, diskVars
<1>12. CASE FlipBack(p)
  BY <1>1, <1>2, <1>12 DEF FlipBack, Match, diskVars
<1>13. CASE Emit(p)
  <2> DEFINE linked == {r \in FoundRows(p) : r.ck # None /\ r.lu # None}
             pairs == {<<r.ck, r.lu>> : r \in linked}
             store == Link(KnownKeys(p), pairs)
  <2>1. \A q \in pairs : \E b \in Accounts : q[1] = ClientKey(b)
    BY FoundFiled
  <2>2. Kept(p, store)
    <3> HIDE DEF pairs
    <3> QED
      BY <2>1, LinkKeeps DEF Kept
  <2>3. /\ pc[p] = "emit"
        /\ \/ SaveKeys(p, store, "restore")
           \/ /\ keys' = [keys EXCEPT ![p] = KnownKeys(p)]
              /\ keysLoaded' = [keysLoaded EXCEPT ![p] = TRUE]
              /\ Goto(p, "restore")
              /\ UNCHANGED <<cont, diskKeys>>
    BY <1>13 DEF Emit
  <2> HIDE DEF store
  <2> QED
    BY <1>0, <1>3, <2>2, <2>3 DEF KeysMove, KeysRead, Goto
<1>14. CASE Return(p) \/ StartDelete(p) \/ DeleteRemote(p)
  BY <1>1, <1>2, <1>14 DEF Return, StartDelete, DeleteRemote, diskVars
<1>15. CASE ForgetKey(p)
  <2> DEFINE d == Least(call[p].doomed)
             store == [KnownKeys(p) EXCEPT ![Remote(d)] = None]
  <2>1. d \in Accounts
    BY <1>15, CallShape, LeastElement DEF ForgetKey, CallsFit, CallFits, Deletes
  <2>2. Kept(p, store)
    BY <1>0, <1>15, <2>1, KindsDiffer DEF Kept
  <2>3. SaveKeys(p, store, "clear") /\ pc[p] # "saving"
    BY <1>15 DEF ForgetKey
  <2> HIDE DEF store
  <2> QED
    BY <1>3, <2>2, <2>3
<1>16. CASE ClearCache(p)
  BY <1>1, <1>16 DEF ClearCache
<1> QED
  BY <1>4, <1>5, <1>6, <1>7, <1>8, <1>9, <1>10, <1>11, <1>12, <1>13, <1>14, <1>15, <1>16
  DEF Step

LEMMA RowsMoved ==
    ASSUME Inv, NEW p \in Procs, Step(p)
    PROVE  Rows' \subseteq IF Return(p) THEN Rows \cup FoundRows(p) ELSE Rows
<1>0. cache \in [Procs -> Cache] /\ Cold.rows = {}
  BY DEF Inv, UsersTypeOK, Cold
<1>1. CASE Return(p)
  <2> DEFINE result == [loaded |-> TRUE, rows |-> FoundRows(p)]
  <2>1. cache' = [cache EXCEPT ![p] = result] /\ diskCache' = result
    BY <1>1 DEF Return
  <2>2. result.rows = FoundRows(p)
    OBVIOUS
  <2> HIDE DEF result
  <2>3. \A q \in Procs : cache'[q].rows \subseteq cache[q].rows \cup FoundRows(p)
    BY <1>0, <2>1, <2>2
  <2> QED
    BY <1>1, <2>1, <2>2, <2>3 DEF Rows
<1>2. CASE ~Return(p) /\ ~(pc[p] = "getB" /\ Match(p))
  <2>1. RowsPass(p)
    BY <1>2, OthersPass
  <2>2. \A q \in Procs : cache'[q] \in {cache[q], diskCache, Cold}
    BY <1>0, <2>1 DEF RowsPass
  <2>3. diskCache' \in {diskCache, Cold}
    BY <2>1 DEF RowsPass
  <2> QED
    BY <1>0, <1>2, <2>2, <2>3 DEF Rows
<1>3. CASE ~Return(p) /\ pc[p] = "getB" /\ Match(p)
  <2>1. FlipBack(p)
    BY <1>3, OnlyFlipBack
  <2>2. UNCHANGED <<diskCache, cache>>
    BY <1>3, <2>1, MatchIsNoExit DEF FlipBack, diskVars
  <2> QED
    BY <1>3, <2>2 DEF Rows
<1> QED
  BY <1>1, <1>2, <1>3

\* Accounts that were removed stay so: the bridge gives no name twice.
LEMMA RemovedStays ==
    ASSUME Inv, [UsersNext]_vars, NEW a \in Accounts, status[a] = "removed"
    PROVE  status'[a] = "removed"
<1>1. CASE Elsewhere
  BY <1>1 DEF Elsewhere, Inv, UsersTypeOK
<1>2. ASSUME NEW p \in Procs, Step(p)
      PROVE  status'[a] = "removed"
  <2>1. CASE status' = status
    BY <2>1
  <2>2. ASSUME NEW b \in Accounts, Post(p, b)
        PROVE  status'[a] = "removed"
    BY <2>2 DEF Post, Inv, UsersTypeOK
  <2>3. CASE DeleteRemote(p)
    BY <2>3 DEF DeleteRemote, Inv, UsersTypeOK
  <2> QED
    BY <1>2, <2>1, <2>2, <2>3
    DEF Step, Start, End, TclError, Configure, FlushKeys, AddKey, RememberCreated,
        ListCached, ListUsers, RemoteListAll, Flip, FlipBack, Emit, Return,
        StartDelete, ForgetKey, ClearCache, bridgeVars
<1> QED
  BY <1>1, <1>2 DEF UsersNext, vars, bridgeVars

\* What a call lists is in the whitelist when it comes in.
LEMMA ListedMoved ==
    ASSUME Inv, NEW p \in Procs, Step(p)
    PROVE  \A a \in call'[p].listed : a \in call[p].listed \/ status'[a] = "white"
<1> USE DEF Inv, UsersTypeOK
<1>0. call \in [Procs -> Call] /\ call[p] \in Call /\ NoCall.listed = {}
  BY DEF NoCall
<1>1. CASE call' = call
  BY <1>1
<1>2. CASE call' = [call EXCEPT ![p] = NoCall]
  BY <1>0, <1>2
<1>3. CASE Start(p) \/ End(p) \/ TclError(p) \/ Configure(p)
  BY <1>1, <1>2, <1>3 DEF Start, End, Exit, TclError, Configure, procVars
<1>4. CASE FlushKeys(p) \/ (\E a \in Accounts : AddKey(p, a)) \/ RememberCreated(p)
  BY <1>1, <1>2, <1>4 DEF FlushKeys, AddKey, RememberCreated
<1>5. ASSUME NEW a \in Accounts, Post(p, a)
      PROVE  \A b \in call'[p].listed : status'[b] = "white"
  <2>1. call'[p].listed = {a}
    BY <1>0, <1>5 DEF Post, NoCall
  <2>2. status'[a] = "white"
    BY <1>5 DEF Post
  <2> QED
    BY <2>1, <2>2
<1>6. CASE ListCached(p) \/ Emit(p) \/ ForgetKey(p)
  BY <1>1, <1>6 DEF ListCached, Emit, ForgetKey
<1>7. CASE ListUsers(p)
  <2>1. call'[p].listed = {}
    BY <1>0, <1>7 DEF ListUsers, NoCall
  <2> QED
    BY <2>1
<1>8. CASE RemoteListAll(p)
  <2>1. CASE Exit(p)
    BY <1>2, <2>1 DEF Exit
  <2>2. ASSUME NEW S \in SUBSET White, call' = [call EXCEPT ![p].listed = S]
        PROVE  \A a \in call'[p].listed : status'[a] = "white"
    BY <1>0, <1>8, <2>2 DEF RemoteListAll, bridgeVars, White, Call
  <2> QED
    BY <1>8, <2>1, <2>2 DEF RemoteListAll
<1>9. CASE Flip(p)
  <2>1. call'[p].listed = call[p].listed
    BY <1>0, <1>9 DEF Flip, FlipTo, Call
  <2> QED
    BY <2>1
<1>10. CASE FlipBack(p)
  <2>1. CASE Match(p)
    <3>1. \E u : call' = [call EXCEPT ![p].done = call[p].done \cup {Ra(call[p])},
                                      ![p].found[Ra(call[p])] = u]
      BY <2>1, Zenon DEF Match
    <3>2. call'[p].listed = call[p].listed
      BY <1>0, <3>1 DEF Call
    <3> QED
      BY <3>2
  <2> QED
    BY <1>1, <1>2, <1>10, <2>1 DEF FlipBack, Exit
<1>11. CASE Return(p)
  BY <1>2, <1>11 DEF Return
<1>12. CASE StartDelete(p)
  <2>1. call'[p].listed = {}
    BY <1>0, <1>12 DEF StartDelete, NoCall
  <2> QED
    BY <2>1
<1>13. CASE DeleteRemote(p)
  BY <1>1, <1>2, <1>13 DEF DeleteRemote, Exit
<1>14. CASE ClearCache(p)
  <2>1. call'[p].listed = call[p].listed
    BY <1>0, <1>14 DEF ClearCache, Call
  <2> QED
    BY <2>1
<1> QED
  BY <1>3, <1>4, <1>5, <1>6, <1>7, <1>8, <1>9, <1>10, <1>11, <1>12, <1>13, <1>14
  DEF Step

\* The client keys in memory and on disk.
LEMMA KeysInStep ==
    ASSUME OneProcess, Inv, InStep, KeysFiled, NEW p \in Procs, Step(p)
    PROVE  InStep'
<1>0. /\ keys \in [Procs -> Store] /\ keysLoaded \in [Procs -> BOOLEAN]
      /\ pc \in [Procs -> Places] /\ cont \in [Procs -> {"idle", "restore", "clear"}]
  BY DEF Inv, UsersTypeOK, Places
<1>1. KeysMove(p)
  BY KeysMoved
<1>2. SUFFICES /\ pc'[p] = "saving" => keysLoaded'[p] /\ diskKeys' = NoKeys
               /\ pc'[p] # "saving" /\ keysLoaded'[p] => keys'[p] = diskKeys'
  BY DEF OneProcess, InStep
<1>3. CASE KeysStay(p)
  BY <1>3 DEF KeysStay, InStep
<1>4. CASE KeysRead(p)
  BY <1>0, <1>4 DEF KeysRead, InStep, KnownKeys
<1>5. CASE KeysSaved(p)
  BY <1>0, <1>5 DEF KeysSaved, SaveKeys, Goto
<1>6. CASE FlushKeys(p)
  BY <1>0, <1>6 DEF FlushKeys, Goto
<1>7. CASE Exit(p) /\ diskKeys' = diskKeys
  BY <1>0, <1>7 DEF Exit, Goto
<1> QED
  BY <1>1, <1>3, <1>4, <1>5, <1>6, <1>7 DEF KeysMove

\* What the store under a remote name may become.
LEMMA StoresMoved ==
    ASSUME OneProcess, Inv, KeysFiled, NEW p \in Procs, Step(p), NEW a \in Accounts
    PROVE  LET old == {diskKeys[Remote(a)], keys[p][Remote(a)]}
               new == IF status[a] = "white" \/ a \in call[p].listed
                      THEN {None, ClientKey(a)} ELSE {None}
           IN  diskKeys'[Remote(a)] \in old \cup new /\ keys'[p][Remote(a)] \in old \cup new
<1>0. keys \in [Procs -> Store] /\ NoKeys[Remote(a)] = None
  BY Names DEF Inv, UsersTypeOK, NoKeys
<1>1. KeysMove(p)
  BY KeysMoved
<1>2. CASE KeysStay(p)
  BY <1>2 DEF KeysStay
<1>3. CASE KeysRead(p)
  BY <1>0, <1>3 DEF KeysRead, KnownKeys
<1>4. CASE KeysSaved(p)
  BY <1>0, <1>4 DEF KeysSaved, SaveKeys, Kept, KnownKeys
<1>5. CASE FlushKeys(p)
  BY <1>5 DEF FlushKeys
<1>6. CASE Exit(p) /\ diskKeys' = diskKeys
  BY <1>0, <1>6 DEF Exit
<1> QED
  BY <1>1, <1>2, <1>3, <1>4, <1>5, <1>6 DEF KeysMove

LEMMA KeysFiledStep ==
    ASSUME OneProcess, Inv, KeysFiled, NEW p \in Procs, Step(p)
    PROVE  KeysFiled'
<1>1. ASSUME NEW a \in Accounts
      PROVE  /\ diskKeys'[Remote(a)] \in {None, ClientKey(a)}
             /\ keys'[p][Remote(a)] \in {None, ClientKey(a)}
  BY StoresMoved DEF KeysFiled, Filed
<1>2. ASSUME NEW r \in Rows'
      PROVE  r.ck \in {None, ClientKey(r.acc)}
  <2>1. r \in Rows \cup FoundRows(p)
    BY RowsMoved
  <2> QED
    BY <2>1, FoundFiled DEF KeysFiled
<1>3. \A q \in Procs : q = p
  BY DEF OneProcess
<1> QED
  BY <1>1, <1>2, <1>3 DEF KeysFiled, Filed

\* A deletion goes through its steps in their order.
LEMMA DeletionMoved ==
    ASSUME Inv, NEW p \in Procs, Step(p), Deletes(pc'[p], cont'[p]), pc'[p] # "delete"
    PROVE  \/ DeleteRemote(p) /\ pc'[p] = "forget" /\ call'[p] = call[p]
              /\ status'[Least(call[p].doomed)] = "removed"
           \/ ForgetKey(p)
           \/ FlushKeys(p) /\ Deletes(pc[p], cont[p]) /\ pc[p] = "saving"
<1> USE DEF Inv, UsersTypeOK
<1>1. pc'[p] \in {"forget", "clear", "saving"} /\ (pc'[p] = "saving" => cont'[p] = "clear")
  BY DEF Deletes
<1>2. ~Exit(p)
  BY <1>1 DEF Exit, Goto
<1>3. ~Start(p) /\ ~End(p) /\ ~TclError(p) /\ ~Configure(p)
  BY <1>1, <1>2 DEF Start, End, TclError, Configure, Goto, procVars
<1>4. ASSUME NEW store, NEW next, next # "clear"
      PROVE  ~SaveKeys(p, store, next)
  BY <1>1, <1>4 DEF SaveKeys, Goto
<1>5. \A a \in Accounts : ~AddKey(p, a) /\ ~Post(p, a)
  BY <1>1, <1>4 DEF AddKey, Post, Goto
<1>6. ~RememberCreated(p) /\ ~ListCached(p) /\ ~ListUsers(p)
  BY <1>1, <1>4 DEF RememberCreated, ListCached, ListUsers, Goto
<1>7. ~RemoteListAll(p) /\ ~Flip(p)
  BY <1>1, <1>2 DEF RemoteListAll, Flip, FlipTo, Goto
<1>8. ~FlipBack(p)
  BY <1>1, <1>2 DEF FlipBack, Match, Goto
<1>9. ~Emit(p)
  <2>1. ~Goto(p, "restore")
    BY <1>1 DEF Goto
  <2> QED
    BY <1>4, <2>1 DEF Emit
<1>10. ~Return(p) /\ ~StartDelete(p) /\ ~ClearCache(p)
  BY <1>1 DEF Return, StartDelete, ClearCache, Goto
<1>11. CASE DeleteRemote(p)
  <2>1. call[p].doomed # {} /\ call[p].doomed \subseteq Accounts
    BY <1>11, CallShape DEF DeleteRemote, CallsFit, CallFits, Deletes
  <2>2. Least(call[p].doomed) \in Accounts
    BY <2>1, LeastElement
  <2> QED
    BY <1>2, <1>11, <2>2 DEF DeleteRemote, Goto
<1>12. CASE FlushKeys(p)
  BY <1>1, <1>12 DEF FlushKeys, Goto, Deletes
<1> QED
  BY <1>3, <1>5, <1>6, <1>7, <1>8, <1>9, <1>10, <1>11, <1>12 DEF Step

LEMMA UnderWayStep ==
    ASSUME OneProcess, Inv, UnderWay, NEW p \in Procs, Step(p)
    PROVE  UnderWay'
<1> DEFINE d == Least(call[p].doomed)
<1> USE DEF Inv, UsersTypeOK
<1>1. SUFFICES ASSUME Deletes(pc'[p], cont'[p]), pc'[p] # "delete"
               PROVE  /\ status'[Least(call'[p].doomed)] = "removed"
                      /\ pc'[p] # "forget" =>
                            keysLoaded'[p] /\ keys'[p][Remote(Least(call'[p].doomed))] = None
  BY DEF OneProcess, UnderWay
<1>2. CASE DeleteRemote(p) /\ pc'[p] = "forget" /\ call'[p] = call[p]
           /\ status'[d] = "removed"
  BY <1>2
<1>3. CASE ForgetKey(p)
  <2>1. status[d] = "removed"
    BY <1>3 DEF ForgetKey, UnderWay, Deletes
  <2>2. d \in Accounts
    BY <1>3, CallShape, LeastElement DEF ForgetKey, CallsFit, CallFits, Deletes
  <2>3. KnownKeys(p) \in Store /\ Remote(d) \in Id
    BY <2>2, KnownType, Names
  <2>4. keysLoaded'[p] /\ keys'[p][Remote(d)] = None
    BY <1>3, <2>3 DEF ForgetKey, SaveKeys, Store
  <2> QED
    BY <1>3, <2>1, <2>4 DEF ForgetKey, bridgeVars
<1>4. CASE FlushKeys(p) /\ Deletes(pc[p], cont[p]) /\ pc[p] = "saving"
  BY <1>4 DEF FlushKeys, UnderWay, bridgeVars
<1> QED
  BY <1>1, <1>2, <1>3, <1>4, DeletionMoved

\* What a deletion has gone through with stays away.
LEMMA GoneStep ==
    ASSUME OneProcess, Books, Inv, Inv', [UsersNext]_vars, NEW p \in Procs, Step(p)
    PROVE  GoneForGood'
<1> DEFINE d == Least(call[p].doomed)
<1> USE DEF Books
<1>0. gone \subseteq Accounts /\ cache \in [Procs -> Cache]
  BY DEF Inv, UsersTypeOK
<1>1. ASSUME NEW a \in gone
      PROVE  /\ status'[a] = "removed"
             /\ \A r \in Rows' : r.acc # a
             /\ diskKeys'[Remote(a)] = None
             /\ a \notin call'[p].listed /\ keys'[p][Remote(a)] = None
  <2>1. a \in Accounts /\ status[a] = "removed" /\ a \notin call[p].listed
    BY <1>0 DEF GoneForGood
  <2>2. status'[a] = "removed"
    BY <2>1, RemovedStays
  <2>3. \A r \in Rows' : r.acc # a
    BY <2>1, RowsMoved, FoundFiled DEF GoneForGood
  <2>4. diskKeys'[Remote(a)] = None /\ keys'[p][Remote(a)] = None
    BY <2>1, StoresMoved DEF GoneForGood
  <2>5. a \notin call'[p].listed
    BY <2>1, <2>2, ListedMoved
  <2> QED
    BY <2>2, <2>3, <2>4, <2>5
<1>2. CASE ClearCache(p)
  <2>1. gone' = gone \cup {d} /\ UNCHANGED <<bridgeVars, diskKeys, keys>>
    BY <1>2 DEF ClearCache
  <2>2. pc[p] = "clear"
    BY <1>2 DEF ClearCache
  <2>3. status[d] = "removed" /\ keysLoaded[p] /\ keys[p][Remote(d)] = None
    BY <2>2 DEF UnderWay, Deletes
  <2>4. diskKeys[Remote(d)] = None
    BY <2>2, <2>3 DEF InStep
  <2>5. Rows' = {}
    <3>1. \A q \in Procs : cache'[q] = Cold
      BY <1>0, <1>2 DEF ClearCache, OneProcess
    <3>2. diskCache' = Cold /\ Cold.rows = {}
      BY <1>2 DEF ClearCache, Cold
    <3> QED
      BY <3>1, <3>2 DEF Rows
  <2>6. call'[p].listed = {}
    <3>1. call[p].listed = {} /\ call[p] \in Call
      BY <2>2 DEF Inv, UsersTypeOK, CallsFit, CallFits, Deletes
    <3> QED
      BY <1>2, <3>1 DEF ClearCache, Inv, UsersTypeOK, Call
  <2> QED
    BY <1>1, <2>1, <2>3, <2>4, <2>5, <2>6 DEF GoneForGood, OneProcess, bridgeVars
<1>3. CASE ~ClearCache(p)
  <2>1. gone' = gone
    BY <1>3 DEF Step, Start, End, TclError, Configure, FlushKeys, AddKey, Post,
                RememberCreated, ListCached, ListUsers, RemoteListAll, Flip, FlipBack,
                Emit, Return, StartDelete, DeleteRemote, ForgetKey
  <2> QED
    BY <1>1, <2>1 DEF GoneForGood, OneProcess
<1> QED
  BY <1>2, <1>3

LEMMA BooksInit == UsersInit => Books
<1> SUFFICES ASSUME UsersInit
             PROVE  Books
  OBVIOUS
<1>1. /\ gone = {} /\ diskKeys = NoKeys /\ diskCache = Cold
      /\ \A p \in Procs : /\ pc[p] = "down" /\ ~keysLoaded[p]
                          /\ keys[p] = NoKeys /\ cache[p] = Cold
  BY DEF UsersInit
<1>2. Rows = {} /\ Filed(NoKeys)
  BY <1>1, KindsDiffer DEF Rows, Cold, Filed, NoKeys
<1>3. ~Deletes("down", "idle") /\ \A p \in Procs : cont[p] = "idle"
  BY DEF Deletes, UsersInit
<1> QED
  BY <1>1, <1>2, <1>3 DEF Books, InStep, KeysFiled, UnderWay, GoneForGood

LEMMA BooksStep == OneProcess /\ Inv /\ Books /\ [UsersNext]_vars => Books'
<1> SUFFICES ASSUME OneProcess, Inv, Books, [UsersNext]_vars
             PROVE  Books'
  OBVIOUS
<1>1. Inv'
  BY StepInv
<1>2. ASSUME NEW p \in Procs, Step(p)
      PROVE  Books'
  <2>1. InStep' /\ KeysFiled'
    BY <1>2, KeysInStep, KeysFiledStep DEF Books
  <2>2. UnderWay'
    BY <1>2, UnderWayStep DEF Books
  <2>3. GoneForGood'
    BY <1>1, <1>2, GoneStep
  <2> QED
    BY <2>1, <2>2, <2>3 DEF Books
<1>3. CASE UNCHANGED vars \/ Elsewhere
  <2>1. UNCHANGED <<gone, diskVars, procVars>>
    BY <1>3 DEF vars, Elsewhere
  <2>2. UNCHANGED Rows
    BY <2>1 DEF Rows, diskVars, procVars
  <2>3. InStep'
    BY <2>1 DEF Books, InStep, diskVars, procVars
  <2>4. KeysFiled'
    BY <2>1, <2>2 DEF Books, KeysFiled, Filed, diskVars, procVars
  <2>5. UnderWay'
    <3>1. ASSUME NEW p \in Procs, Deletes(pc[p], cont[p])
          PROVE  Least(call[p].doomed) \in Accounts
      BY <3>1, CallShape, LeastElement DEF Inv, UsersTypeOK, CallsFit, CallFits
    <3> QED
      BY <2>1, <3>1, RemovedStays DEF Books, UnderWay, procVars
  <2>6. GoneForGood'
    <3>1. gone \subseteq Accounts
      BY DEF Inv, UsersTypeOK
    <3> QED
      BY <2>1, <2>2, <3>1, RemovedStays DEF Books, GoneForGood, diskVars, procVars
  <2> QED
    BY <2>3, <2>4, <2>5, <2>6 DEF Books
<1> QED
  BY <1>2, <1>3 DEF UsersNext

\* Where processes run one after the other, a process that has read the client keys
\* knows what the file holds, nothing but a client key stands under a remote name,
\* and a deletion forgets the client key of a user only after the bridge has removed
\* him (clientKeySave, clientKeyForget, deleteRemote).
THEOREM BooksHold ==
    ASSUME OneProcess
    PROVE  UsersSpec => []Books
<1>1. Inv /\ Books /\ [UsersNext]_vars => Books'
  BY BooksStep
<1> QED
  BY <1>1, BooksInit, UsersInvariant, PTL DEF UsersSpec

\* Where processes run one after the other, a user whose deletion went through is in
\* no cached row, in memory or on disk, and its client key is not on disk under its
\* name, whatever is listed, added, configured or killed later (deleteRemote).
THEOREM DeletionHolds ==
    ASSUME OneProcess
    PROVE  UsersSpec => []DeletedStaysGone
<1>1. Books => DeletedStaysGone
  BY DEF Books, GoneForGood, Rows, DeletedStaysGone
<1> QED
  BY <1>1, BooksHold, PTL

\* A step keeps the client key of a, on disk or in a process that is about to write
\* it, unless it is one of the two that may lose it.
LEMMA KeyStaysSafe ==
    ASSUME OneProcess, Inv, Books, [UsersNext]_vars, NEW a \in Accounts, KeySafe(a)
    PROVE  \/ KeySafe(a)'
           \/ \E p \in Procs : \/ pc[p] = "saving" /\ End(p)
                               \/ ForgetKey(p) /\ status[a] = "removed"
<1> USE DEF Books
<1>1. CASE UNCHANGED vars \/ Elsewhere
  BY <1>1 DEF Elsewhere, vars, KeySafe, diskVars, procVars
<1>2. ASSUME NEW p \in Procs, Step(p)
      PROVE  \/ KeySafe(a)'
             \/ pc[p] = "saving" /\ End(p)
             \/ ForgetKey(p) /\ status[a] = "removed"
  <2>0. /\ keys \in [Procs -> Store] /\ pc \in [Procs -> Places]
        /\ NoKeys[Remote(a)] = None
    BY Names DEF Inv, UsersTypeOK, Places, NoKeys
  <2>1. CASE pc[p] # "saving"
    <3>1. diskKeys[Remote(a)] # None
      BY <2>1 DEF KeySafe, OneProcess
    <3>2. KnownKeys(p)[Remote(a)] # None
      BY <2>1, <3>1 DEF KnownKeys, InStep
    <3>3. CASE KeysSaved(p)
      <4>1. PICK store, next : SaveKeys(p, store, next) /\ Kept(p, store)
        BY <3>3 DEF KeysSaved
      <4>2. pc'[p] = "saving" /\ keys'[p] = store
        BY <2>0, <4>1 DEF SaveKeys, Goto
      <4>3. store[Remote(a)] # None \/ (ForgetKey(p) /\ a = Least(call[p].doomed))
        BY <3>2, <4>1, KindsDiffer DEF Kept
      <4>4. ForgetKey(p) => status[Least(call[p].doomed)] = "removed"
        BY DEF ForgetKey, UnderWay, Deletes
      <4> QED
        BY <4>2, <4>3, <4>4 DEF KeySafe
    <3>4. CASE diskKeys' = diskKeys
      BY <3>1, <3>4 DEF KeySafe
    <3> QED
      BY <1>2, <2>1, <3>3, <3>4, KeysMoved
      DEF KeysMove, KeysStay, KeysRead, FlushKeys
  <2>2. CASE pc[p] = "saving"
    <3>1. keys[p][Remote(a)] # None
      BY <2>0, <2>2 DEF KeySafe, InStep, OneProcess
    <3>2. CASE FlushKeys(p)
      BY <3>1, <3>2 DEF FlushKeys, KeySafe
    <3>3. CASE Exit(p) /\ ~End(p)
      BY <1>2, <2>2, <3>3
      DEF Step, Start, TclError, Configure, FlushKeys, AddKey, Post,
          RememberCreated, ListCached, ListUsers, RemoteListAll, Flip, FlipBack,
          Emit, Return, StartDelete, DeleteRemote, ForgetKey, ClearCache, Exit, Goto,
          Inv, UsersTypeOK
    <3> QED
      BY <1>2, <2>2, <3>2, <3>3, KeysMoved DEF KeysMove, KeysStay, KeysRead, KeysSaved
  <2> QED
    BY <2>1, <2>2
<1> QED
  BY <1>1, <1>2 DEF UsersNext

\* The bridge tells a client key once: where processes run one after the other, the
\* file loses one only when its user is removed, or when the process dies while it
\* rewrites the file (clientKeySave, clientKeyForget).
THEOREM ClientKeysSurvive ==
    ASSUME OneProcess
    PROVE  UsersSpec => ClientKeySurvives
<1> DEFINE Survive == \A a \in Accounts :
                         KeySafe(a) =>
                            \/ KeySafe(a)'
                            \/ \E p \in Procs :
                                  \/ pc[p] = "saving" /\ End(p)
                                  \/ ForgetKey(p) /\ status[a] = "removed"
<1>1. Inv /\ Books /\ [UsersNext]_vars => [Survive]_vars
  BY KeyStaysSafe
<1> HIDE DEF Survive
<1>2. UsersSpec => [][Survive]_vars
  BY <1>1, UsersInvariant, BooksHold, PTL DEF UsersSpec
<1> QED
  BY <1>2 DEF Survive, ClientKeySurvives
=============================================================================
