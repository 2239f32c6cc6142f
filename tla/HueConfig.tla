------------------------------ MODULE HueConfig ------------------------------
(***************************************************************************)
(* ::hue::config of hue.inc.core.tcl: the mode and the application key of  *)
(* a Tcl process, config.hue.tcl as the master of the key, an explicit     *)
(* override of it, and hue_config.tcl, where every config set leaves the   *)
(* mode for the processes to come (never the key).                         *)
(*                                                                         *)
(* An identifier is a pair: what it is, and the account it belongs to.     *)
(***************************************************************************)
EXTENDS Integers

CONSTANTS
    Procs,      \* the Tcl processes
    Accounts,   \* the accounts the whitelist of the bridge can ever hold
    EnvKeys,    \* what config.hue.tcl may name as its user
    UserKeys    \* the keys a user passes to config set -key

Id   == {"remote", "local", "clientkey"} \X Accounts
None == <<"none", 0>>     \* the empty string

Remote(a)    == <<"remote", a>>
Local(a)     == <<"local", a>>
ClientKey(a) == <<"clientkey", a>>

ASSUME ConfigAssumption ==
    /\ Accounts \subseteq Nat
    /\ EnvKeys \subseteq Id \cup {None} /\ EnvKeys # {}
    /\ UserKeys \subseteq Id \cup {None}

VARIABLES
    mode,       \* ::hue::mode of each process
    key,        \* ::hue::key
    override,   \* ::hue::keyOverride; None stands for keyOverrideSet 0
    diskMode,   \* the mode hue_config.tcl names
    envKey      \* the user config.hue.tcl names

configVars == <<mode, key, override, diskMode, envKey>>

Modes == {"local", "remote"}

ConfigTypeOK ==
    /\ mode \in [Procs -> Modes]
    /\ key \in [Procs -> Id \cup {None}]
    /\ override \in [Procs -> Id \cup {None}]
    /\ diskMode \in Modes
    /\ envKey \in EnvKeys

ConfigInit ==
    /\ mode = [p \in Procs |-> "local"]
    /\ key = [p \in Procs |-> None]
    /\ override = [p \in Procs |-> None]
    /\ diskMode \in Modes
    /\ envKey \in EnvKeys

\* envLoad on ::hue::key: the override wins; a config.hue.tcl without a user
\* leaves the key as it is.
Loaded(k, o) ==
    IF o # None THEN o ELSE IF envKey # None THEN envKey ELSE k

\* config set -mode m
ConfigSetMode(p, m) ==
    /\ mode' = [mode EXCEPT ![p] = m]
    /\ diskMode' = m
    /\ key' = [key EXCEPT ![p] = Loaded(key[p], override[p])]
    /\ UNCHANGED <<override, envKey>>

\* config set -mode m -key k: an empty k clears the override.
ConfigSet(p, m, k) ==
    /\ mode' = [mode EXCEPT ![p] = m]
    /\ diskMode' = m
    /\ override' = [override EXCEPT ![p] = k]
    /\ key' = [key EXCEPT ![p] =
                 IF k # None THEN k ELSE Loaded(Loaded(@, override[p]), None)]
    /\ UNCHANGED envKey

\* config without arguments
ConfigDefault(p) ==
    /\ mode' = [mode EXCEPT ![p] = "local"]
    /\ diskMode' = "local"
    /\ override' = [override EXCEPT ![p] = None]
    /\ key' = [key EXCEPT ![p] = Loaded(@, None)]
    /\ UNCHANGED envKey

\* A process starts: loadConfig at the end of hue.inc.core.tcl.
LoadConfig(p) ==
    /\ mode' = [mode EXCEPT ![p] = diskMode]
    /\ override' = [override EXCEPT ![p] = None]
    /\ key' = [key EXCEPT ![p] = Loaded(None, None)]
    /\ UNCHANGED <<diskMode, envKey>>
=============================================================================
