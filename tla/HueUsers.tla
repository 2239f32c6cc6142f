------------------------------ MODULE HueUsers ------------------------------
(***************************************************************************)
(* hue.inc.users.tcl: application keys of the bridge.  listUsers finds the *)
(* local name of every remote name by reading the local whitelist under    *)
(* one remote key after the other, switching ::hue::config back and forth, *)
(* and caches the result; client keys, which the bridge tells only once,   *)
(* are kept in a file of their own.                                        *)
(***************************************************************************)
EXTENDS HueConfig, FiniteSets

CONSTANTS
    Stamps,     \* pairs of device type and creation date
    Stampings,  \* how they may be given to the accounts
    Newcomers,  \* accounts that are created in the course of a behaviour
    Keyed       \* bound: the accounts for which there is a client key

ASSUME UsersAssumption ==
    /\ Stampings \subseteq [Accounts -> Stamps] /\ Stampings # {}
    /\ Newcomers \subseteq Accounts /\ Keyed \subseteq Accounts

VARIABLES
    status,      \* of each account: unborn, white (in the whitelist) or removed
    stamp,       \* device type and creation date of each account
    gone,        \* history: accounts deleteRemote has removed and cleaned up
    diskKeys,    \* hue_users_clientkeys_cache.tcl
    diskCache,   \* hue_users_unified_cache.tcl
    pc,          \* where each process is
    cont,        \* where it goes when clientKeySave is done
    keys,        \* clientKeyByRemote
    keysLoaded,  \* clientKeyLoaded
    cache,       \* unifiedRows and unifiedLoaded
    call         \* local variables of listUsers and of the deletions

bridgeVars == <<status, stamp>>
diskVars == <<diskKeys, diskCache>>
procVars == <<pc, cont, keys, keysLoaded, cache, call>>
vars == <<configVars, bridgeVars, gone, diskVars, procVars>>

Store == [Id -> Id \cup {None}]
Row   == [acc : Accounts, lu : Id \cup {None}, ck : Id \cup {None}]
Cache == [loaded : BOOLEAN, rows : SUBSET Row]
Call  == [savedMode : Modes, savedKey : Id \cup {None},
          listed : SUBSET Accounts,      \* the remote list
          done : SUBSET Accounts,        \* accounts whose flip is over
          flipKey : Id \cup {None},      \* savedKey of _localWhitelistWithKey
          found : [Accounts -> Id \cup {None}],
          doomed : SUBSET Accounts]      \* deletions still to do

NoKeys == [i \in Id |-> None]
Cold   == [loaded |-> FALSE, rows |-> {}]
NoCall == [savedMode |-> "local", savedKey |-> None, listed |-> {}, done |-> {},
           flipKey |-> None, found |-> [a \in Accounts |-> None], doomed |-> {}]

UsersTypeOK ==
    /\ ConfigTypeOK
    /\ status \in [Accounts -> {"unborn", "white", "removed"}]
    /\ stamp \in [Accounts -> Stamps]
    /\ gone \subseteq Accounts
    /\ diskKeys \in Store
    /\ diskCache \in Cache
    /\ pc \in [Procs -> {"down", "idle", "list", "setA", "getA", "setB", "getB",
                         "emit", "restore", "saving", "posted", "delete",
                         "forget", "clear"}]
    /\ cont \in [Procs -> {"idle", "restore", "clear"}]
    /\ keys \in [Procs -> Store]
    /\ keysLoaded \in [Procs -> BOOLEAN]
    /\ cache \in [Procs -> Cache]
    /\ call \in [Procs -> Call]

White == {a \in Accounts : status[a] = "white"}

UsersInit ==
    /\ ConfigInit
    /\ status = [a \in Accounts |-> IF a \in Newcomers THEN "unborn" ELSE "white"]
    /\ stamp \in Stampings
    /\ gone = {}
    /\ diskKeys = NoKeys
    /\ diskCache = Cold
    /\ pc = [p \in Procs |-> "down"]
    /\ cont = [p \in Procs |-> "idle"]
    /\ keys = [p \in Procs |-> NoKeys]
    /\ keysLoaded = [p \in Procs |-> FALSE]
    /\ cache = [p \in Procs |-> Cold]
    /\ call = [p \in Procs |-> NoCall]

-----------------------------------------------------------------------------
(* Processes *)

Goto(p, l) == pc' = [pc EXCEPT ![p] = l]

Start(p) ==
    /\ pc[p] = "down"
    /\ LoadConfig(p)
    /\ Goto(p, "idle")
    /\ UNCHANGED <<bridgeVars, gone, diskVars, cont, keys, keysLoaded, cache, call>>

\* What a process that ends takes with it.
Exit(p) ==
    /\ Goto(p, "down")
    /\ keys' = [keys EXCEPT ![p] = NoKeys]
    /\ keysLoaded' = [keysLoaded EXCEPT ![p] = FALSE]
    /\ cache' = [cache EXCEPT ![p] = Cold]
    /\ call' = [call EXCEPT ![p] = NoCall]
    /\ cont' = [cont EXCEPT ![p] = "idle"]

\* The process ends, or is killed anywhere.
End(p) ==
    /\ pc[p] # "down"
    /\ Exit(p)
    /\ UNCHANGED <<configVars, bridgeVars, gone, diskVars>>

\* The user configures the process: ::hue::config with and without arguments.
Configure(p) ==
    /\ pc[p] = "idle"
    /\ \/ ConfigDefault(p)
       \/ \E m \in Modes : ConfigSetMode(p, m)
       \/ \E k \in UserKeys : ConfigSet(p, mode[p], k)
    /\ UNCHANGED <<bridgeVars, gone, diskVars, procVars>>

-----------------------------------------------------------------------------
(* The client keys *)

\* Mutant: the file is not read before it is written.
OnlyRemembered(p) == keys[p]

\* clientKeyEnsureLoaded: the file is read once per process.
KnownKeys(p) == IF keysLoaded[p] THEN keys[p] ELSE diskKeys

\* clientKeySave up to the truncation of the file by open.
SaveKeys(p, store, next) ==
    /\ keys' = [keys EXCEPT ![p] = store]
    /\ keysLoaded' = [keysLoaded EXCEPT ![p] = TRUE]
    /\ diskKeys' = NoKeys
    /\ Goto(p, "saving")
    /\ cont' = [cont EXCEPT ![p] = next]

\* clientKeySave: the buffer is flushed by close.
FlushKeys(p) ==
    /\ pc[p] = "saving"
    /\ diskKeys' = keys[p]
    /\ Goto(p, cont[p])
    /\ cont' = [cont EXCEPT ![p] = "idle"]
    /\ UNCHANGED <<configVars, bridgeVars, gone, diskCache, keys, keysLoaded,
                   cache, call>>

\* clientKeyAdd: the user enters a client key he has noted.
AddKey(p, a) ==
    /\ pc[p] = "idle"
    /\ a \in Keyed
    /\ status[a] = "white"
    /\ SaveKeys(p, [KnownKeys(p) EXCEPT ![Remote(a)] = ClientKey(a)], "idle")
    /\ UNCHANGED <<configVars, bridgeVars, gone, diskCache, cache, call>>

-----------------------------------------------------------------------------
(* Creation *)

\* The POST of createInfoRemote (after the virtual link button, which needs mode
\* remote) or of createInfoLocal.
Post(p, a) ==
    /\ pc[p] = "idle"
    /\ status[a] = "unborn"
    /\ status' = [status EXCEPT ![a] = "white"]
    /\ call' = [call EXCEPT ![p] = [NoCall EXCEPT !.listed = {a}]]
    /\ Goto(p, "posted")
    /\ UNCHANGED <<configVars, stamp, gone, diskVars, cont, keys, keysLoaded, cache>>

\* The answer is remembered under the name it brings: the remote name, or from
\* the bridge itself the local one.  Without generateclientkey it has no key.
RememberCreated(p) ==
    /\ pc[p] = "posted"
    /\ \/ \E a \in call[p].listed \cap Keyed :
             LET name == IF mode[p] = "remote" THEN Remote(a) ELSE Local(a)
             IN  SaveKeys(p, [KnownKeys(p) EXCEPT ![name] = ClientKey(a)], "idle")
       \/ /\ Goto(p, "idle")
          /\ UNCHANGED <<cont, keys, keysLoaded, diskKeys>>
    /\ call' = [call EXCEPT ![p] = NoCall]
    /\ UNCHANGED <<configVars, bridgeVars, gone, diskCache, cache>>

-----------------------------------------------------------------------------
(* listUsers *)

\* The first lines: the rows of the process, else those of the file.
CachedRows(p) == IF cache[p].loaded THEN cache[p] ELSE diskCache

\* clientKeyRemember $ck $name for pairs of a client key and a name, in any order:
\* the arguments arrive swapped, so what is filed is the name, under the key.
Link(store, pairs) ==
    [i \in Id |->
        IF \E q \in pairs : q[1] = i THEN (CHOOSE q \in pairs : q[1] = i)[2]
        ELSE store[i]]

\* Rows that are loaded and younger than the TTL are answered from the cache.
\* (clientKeyByUser, where a missing client key is looked up, is always empty.)
ListCached(p) ==
    LET rows  == CachedRows(p).rows
        pairs == {<<r.ck, IF r.lu # None THEN r.lu ELSE Remote(r.acc)>>
                    : r \in {x \in rows : x.ck # None}}
    IN
    /\ pc[p] = "idle"
    /\ CachedRows(p).loaded
    /\ cache' = [cache EXCEPT ![p] = CachedRows(p)]
    /\ \/ /\ pairs # {}
          /\ SaveKeys(p, Link(KnownKeys(p), pairs), "idle")
       \/ /\ pairs = {}
          /\ keys' = [keys EXCEPT ![p] = KnownKeys(p)]
          /\ keysLoaded' = [keysLoaded EXCEPT ![p] = TRUE]
          /\ UNCHANGED <<pc, cont, diskKeys>>
    /\ UNCHANGED <<configVars, bridgeVars, gone, diskCache, call>>

\* -force, no cache, or rows that are too old: save mode and key, go remote.
ListUsers(p) ==
    /\ pc[p] = "idle"
    /\ \E force \in BOOLEAN :
          cache' = IF force THEN cache ELSE [cache EXCEPT ![p] = CachedRows(p)]
    /\ call' = [call EXCEPT ![p] =
                  [NoCall EXCEPT !.savedMode = mode[p],
                                 !.savedKey = Loaded(key[p], override[p])]]
    /\ ConfigSetMode(p, "remote")
    /\ Goto(p, "list")
    /\ UNCHANGED <<bridgeVars, gone, diskVars, cont, keys, keysLoaded>>

\* curl fails, before or after the request has arrived: exec raises a Tcl error
\* that nothing in the toolkit catches, and the process is back at its caller.
TclError(p) ==
    /\ pc[p] \in {"list", "getA", "getB", "posted", "delete", "forget"}
    /\ Goto(p, "idle")
    /\ call' = [call EXCEPT ![p] = NoCall]
    /\ UNCHANGED <<configVars, bridgeVars, gone, diskVars, cont, keys, keysLoaded, cache>>

\* _remoteListAll: the list may be filtered, or left out of the answer, or hold
\* fewer than two names; then the process ends, the last time after a restore.
RemoteListAll(p) ==
    /\ pc[p] = "list"
    /\ \/ \E S \in SUBSET White :
             /\ Cardinality(S) >= 2
             /\ call' = [call EXCEPT ![p].listed = S]
             /\ Goto(p, "setA")
             /\ UNCHANGED <<configVars, cont, keys, keysLoaded, cache>>
       \/ /\ Exit(p)
          /\ UNCHANGED configVars
       \/ /\ ConfigSet(p, call[p].savedMode, call[p].savedKey)
          /\ Exit(p)
    /\ UNCHANGED <<bridgeVars, gone, diskVars>>

\* The list is sorted by name; ra is the next of it, rb the one after ra.
Least(S) == CHOOSE a \in S : \A b \in S : a <= b
Ra(c) == Least(c.listed \ c.done)

\* Mutant: the other key is the key itself.
RbSame(c) == Ra(c)

Rb(c) == LET after == {a \in c.listed : a > Ra(c)}
         IN  IF after = {} THEN Least(c.listed) ELSE Least(after)

\* Mutant: the key is saved when it has been changed.
FlipToTooLate(p, k, next) ==
    /\ call' = [call EXCEPT ![p].flipKey = k]
    /\ ConfigSet(p, "local", k)
    /\ Goto(p, next)

\* _localWhitelistWithKey: save the key, then config set -mode local -key k.
FlipTo(p, k, next) ==
    /\ call' = [call EXCEPT ![p].flipKey = Loaded(key[p], override[p])]
    /\ ConfigSet(p, "local", k)
    /\ Goto(p, next)

Flip(p) ==
    /\ \/ pc[p] = "setA" /\ FlipTo(p, Remote(Ra(call[p])), "getA")
       \/ pc[p] = "setB" /\ FlipTo(p, Remote(Rb(call[p])), "getB")
    /\ UNCHANGED <<bridgeVars, gone, diskVars, cont, keys, keysLoaded, cache>>

\* The name under which the bridge shows account b to a caller who uses key k.
Shown(b, k) == IF k = Remote(b) THEN Remote(b) ELSE Local(b)

\* Mutant: any name will do.
ShownToOther(ra, k) == {Shown(b, k) : b \in White}

\* The names that stand beside ra's device type and creation date.
SameJoinKey(ra, k) == {Shown(b, k) : b \in {w \in White : stamp[w] = stamp[ra]}}

\* The GET of _localWhitelistWithKey under the key in use: one of those names is
\* taken for the local name of ra, preferably not ra itself.
Match(p) ==
    LET ra == Ra(call[p])
        names == SameJoinKey(ra, key[p])
        done == call[p].done \cup {ra}
    IN  \E u \in IF names \ {Remote(ra)} # {} THEN names \ {Remote(ra)}
                 ELSE names \cup {None} :
            /\ call' = [call EXCEPT ![p].done = done, ![p].found[ra] = u]
            /\ Goto(p, IF done = call[p].listed THEN "emit" ELSE "setA")

\* The answer to either GET.  A key that is no longer in the whitelist gets an
\* error object without one: softError.  Mode and key go back in any case (the
\* mode is remote since ListUsers).
FlipBack(p) ==
    /\ \/ /\ pc[p] = "getA"
          /\ status[Ra(call[p])] = "white"
          /\ Goto(p, "setB")
          /\ UNCHANGED <<cont, keys, keysLoaded, cache, call>>
       \/ /\ pc[p] = "getB"
          /\ status[Rb(call[p])] = "white"
          /\ Match(p)
          /\ UNCHANGED <<cont, keys, keysLoaded, cache>>
       \/ /\ \/ pc[p] = "getA" /\ status[Ra(call[p])] # "white"
             \/ pc[p] = "getB" /\ status[Rb(call[p])] # "white"
          /\ Exit(p)
    /\ ConfigSet(p, "remote", call[p].flipKey)
    /\ UNCHANGED <<bridgeVars, gone, diskVars>>

FoundRows(p) ==
    {[acc |-> a, lu |-> call[p].found[a], ck |-> KnownKeys(p)[Remote(a)]]
        : a \in call[p].listed}

\* The rows are built; a row with client key and local name is "linked".
Emit(p) ==
    LET linked == {r \in FoundRows(p) : r.ck # None /\ r.lu # None} IN
    /\ pc[p] = "emit"
    /\ \/ /\ linked # {}
          /\ SaveKeys(p, Link(KnownKeys(p), {<<r.ck, r.lu>> : r \in linked}), "restore")
       \/ /\ linked = {}
          /\ keys' = [keys EXCEPT ![p] = KnownKeys(p)]
          /\ keysLoaded' = [keysLoaded EXCEPT ![p] = TRUE]
          /\ Goto(p, "restore")
          /\ UNCHANGED <<cont, diskKeys>>
    /\ UNCHANGED <<configVars, bridgeVars, gone, diskCache, cache, call>>

\* "Restore config exactly as it was", then cache the rows and return them.  The key
\* comes back as an explicit one: the override that this sets stays.
Return(p) ==
    LET result == [loaded |-> TRUE, rows |-> FoundRows(p)] IN
    /\ pc[p] = "restore"
    /\ ConfigSet(p, call[p].savedMode, call[p].savedKey)
    /\ cache' = [cache EXCEPT ![p] = result]
    /\ diskCache' = result
    /\ call' = [call EXCEPT ![p] = NoCall]
    /\ Goto(p, "idle")
    /\ UNCHANGED <<bridgeVars, gone, diskKeys, cont, keys, keysLoaded>>

-----------------------------------------------------------------------------
(* Deletion *)

\* delete <username>, or deleteByDevice for rows the pattern matches.
StartDelete(p) ==
    /\ pc[p] = "idle"
    /\ \E S \in (SUBSET {r.acc : r \in cache[p].rows})
                \cup {{a} : a \in Accounts \ {b \in Accounts : status[b] = "unborn"}} :
          /\ S # {}
          /\ call' = [call EXCEPT ![p] = [NoCall EXCEPT !.doomed = S]]
    /\ Goto(p, "delete")
    /\ UNCHANGED <<configVars, bridgeVars, gone, diskVars, cont, keys, keysLoaded, cache>>

\* DELETE /config/whitelist/<u>; an error in the answer ends the process.
DeleteRemote(p) ==
    LET a == Least(call[p].doomed) IN
    /\ pc[p] = "delete"
    /\ \/ /\ status[a] = "white"
          /\ status' = [status EXCEPT ![a] = "removed"]
          /\ Goto(p, "forget")
          /\ UNCHANGED <<cont, keys, keysLoaded, cache, call>>
       \/ /\ status[a] # "white"
          /\ Exit(p)
          /\ UNCHANGED status
    /\ UNCHANGED <<configVars, stamp, gone, diskVars>>

\* clientKeyForget
ForgetKey(p) ==
    /\ pc[p] = "forget"
    /\ SaveKeys(p, [KnownKeys(p) EXCEPT ![Remote(Least(call[p].doomed))] = None], "clear")
    /\ UNCHANGED <<configVars, bridgeVars, gone, diskCache, cache, call>>

\* Mutant: only the rows in memory are cleared.
ClearMemory(p) ==
    /\ pc[p] = "clear"
    /\ cache' = [cache EXCEPT ![p] = Cold]
    /\ gone' = gone \cup {Least(call[p].doomed)}
    /\ call' = [call EXCEPT ![p].doomed = @ \ {Least(@)}]
    /\ Goto(p, IF Cardinality(call[p].doomed) > 1 THEN "delete" ELSE "idle")
    /\ UNCHANGED <<configVars, bridgeVars, diskVars, cont, keys, keysLoaded>>

\* unifiedClearCache, and on to the next row.
ClearCache(p) ==
    /\ pc[p] = "clear"
    /\ cache' = [cache EXCEPT ![p] = Cold]
    /\ diskCache' = Cold
    /\ gone' = gone \cup {Least(call[p].doomed)}
    /\ call' = [call EXCEPT ![p].doomed = @ \ {Least(@)}]
    /\ Goto(p, IF Cardinality(call[p].doomed) > 1 THEN "delete" ELSE "idle")
    /\ UNCHANGED <<configVars, bridgeVars, diskKeys, cont, keys, keysLoaded>>

-----------------------------------------------------------------------------
\* Another program creates or deletes an account.
Elsewhere ==
    /\ \E a \in Accounts :
          \/ status[a] = "unborn" /\ status' = [status EXCEPT ![a] = "white"]
          \/ status[a] = "white" /\ status' = [status EXCEPT ![a] = "removed"]
    /\ UNCHANGED <<configVars, stamp, gone, diskVars, procVars>>

Step(p) ==
    \/ Start(p) \/ End(p) \/ TclError(p) \/ Configure(p)
    \/ FlushKeys(p) \/ (\E a \in Accounts : AddKey(p, a) \/ Post(p, a))
    \/ RememberCreated(p)
    \/ ListCached(p) \/ ListUsers(p) \/ RemoteListAll(p) \/ Flip(p) \/ FlipBack(p)
    \/ Emit(p) \/ Return(p)
    \/ StartDelete(p) \/ DeleteRemote(p) \/ ForgetKey(p) \/ ClearCache(p)

UsersNext == Elsewhere \/ \E p \in Procs : Step(p)

UsersSpec == UsersInit /\ [][UsersNext]_vars

-----------------------------------------------------------------------------
(* Properties *)

\* The local name a row gives for a remote one belongs to an account of the same
\* device type and creation date, and to the account itself when no other has
\* these: flipping never takes a row for its neighbour (listUsers), although
\* accounts come and go and the process may be restarted between the flips.
MappingRight ==
    \A r \in diskCache.rows \cup UNION {cache[p].rows : p \in Procs} :
        r.lu # None =>
            /\ stamp[r.lu[2]] = stamp[r.acc]
            /\ (\A b \in Accounts : stamp[b] = stamp[r.acc] => b = r.acc)
                  => r.lu = Local(r.acc)

\* The client key of a is on disk, or in a process that is about to write it.
KeySafe(a) ==
    \/ diskKeys[Remote(a)] # None
    \/ \E p \in Procs : pc[p] = "saving" /\ keys[p][Remote(a)] # None

\* The bridge tells a client key once.  Processes that run one after the other
\* lose one only by deleting its user, or by dying while they rewrite the file
\* ("It is only removed when the user/key is deleted", hue.inc.users.tcl).
ClientKeySurvives ==
    [][\A a \in Accounts :
          KeySafe(a) =>
             \/ KeySafe(a)'
             \/ \E p \in Procs :
                   \/ pc[p] = "saving" /\ End(p)
                   \/ ForgetKey(p) /\ status[a] = "removed"]_vars

\* A user whose deletion went through is in no cached row, in memory or on disk,
\* and its client key is not on disk under its name (deleteRemote).
DeletedStaysGone ==
    \A a \in gone :
        /\ \A r \in diskCache.rows \cup UNION {cache[p].rows : p \in Procs} : r.acc # a
        /\ diskKeys[Remote(a)] = None

\* Every request of a listing goes out in the mode and under the key it is meant
\* for: the GETs of a flip to the bridge itself under the two remote names, all that
\* lies between them to the cloud under the key of the caller - although each flip
\* saves and restores both inside the save and restore of listUsers, and each
\* "config set" reads the files again (listUsers, _localWhitelistWithKey).  A caller
\* without a key has none to come back to.
RightKeyInUse ==
    \A p \in Procs :
        /\ pc[p] = "getA" => mode[p] = "local" /\ key[p] = Remote(Ra(call[p]))
        /\ pc[p] = "getB" => mode[p] = "local" /\ key[p] = Remote(Rb(call[p]))
        /\ pc[p] \in {"list", "setA", "setB", "emit", "restore"} =>
              /\ mode[p] = "remote"
              /\ call[p].savedKey # None => key[p] = call[p].savedKey

\* "Stores: clientKeyByRemote(<remote_username>) = <clientkey>": what the file
\* holds are client keys.
StoreHoldsClientKeys ==
    \A i \in Id : diskKeys[i] # None => diskKeys[i][1] = "clientkey"
=============================================================================
