----------------------------- MODULE TokenFleet -----------------------------
(***************************************************************************)
(* The Tcl clients (HueToken) and remote.sh (RemoteSh) over the same       *)
(* hue_remote_env, as a crontab or a CCU program runs them: at most one    *)
(* of the two kinds is inside its token code at a time.  Within a kind     *)
(* nothing is serialised here; the checked instance has one process of     *)
(* each.                                                                   *)
(***************************************************************************)
EXTENDS HueToken, RemoteSh

fleetVars == <<vars, shVars>>

FleetTypeOK == TypeOK /\ ShTypeOK

FleetInit == Init /\ ShInit

TclQuiet == \A p \in Procs : pc[p] = "idle"
ShQuiet  == \A s \in Shells : shpc[s] = "start"

FleetTick == Tick /\ (\A s \in Shells : ShInTime(s)) /\ UNCHANGED shVars

FleetNext ==
    \/ FleetTick
    \/ ShQuiet /\ (\E p \in Procs : Step(p)) /\ UNCHANGED shVars
    \/ TclQuiet /\ (\E s \in Shells : ShStep(s)) /\ UNCHANGED tclVars

FleetSpec == FleetInit /\ [][FleetNext]_fleetVars

-----------------------------------------------------------------------------
(* Properties *)

ShCarries(s) ==
    /\ shpc[s] \in {"answered", "write1", "write2"}
    /\ env[s].rt = live

FleetLogin == LoginReachable \/ \E s \in Shells : ShCarries(s)

\* remote.sh writes whatever it has cut out of the reply: text that is not a token, or
\* empty lines.
Overwrites(s) == shpc[s] = "write1" /\ env[s].at \notin Issue

\* Used one after the other, the two clients hand the login on to each other:
\* it is lost only by a process that dies or loses an answer while it carries
\* the refresh token, or by remote.sh overwriting the file after a refresh that
\* curl could not make (its message is written) or a login that failed in any
\* way (an error object's fields or empty lines are) - never because a refresh
\* is refused.
FleetLoginLostOnlyByFault ==
    [][writable /\ FleetLogin
          => \/ FleetLogin'
             \/ \E p \in Procs : Carries(p) /\ (End(p) \/ LoseAnswer(p))
             \/ \E s \in Shells :
                   \/ ShCarries(s) /\ (ShEnd(s) \/ ShNoReply(s))
                   \/ Overwrites(s) /\ (env[s].in = Text \/ cmd[s] = "gettoken")]_fleetVars

\* What a client finds in the file or remembers never pairs an access token of
\* the cloud with an expiry still to come that overstates it, although remote.sh
\* writes the three lines one by one and may die between them.  (A login that
\* failed leaves the time of the writing as the expiry, beside no token; a Tcl
\* process takes it for its own token's and refreshes.  One that may not write the
\* file can merge the half-written file with its own expiry.)
FleetExpiryBelongsToToken ==
    \A m \in {file} \cup {mem[p] : p \in Procs} :
        writable /\ m.at \in Issue /\ m.exp > now
            => m.exp <= issuedAt[m.at] + Life + MaxDelay
=============================================================================
