------------------------------ MODULE HueToken ------------------------------
(***************************************************************************)
(* ensureFreshAccessToken of hue.inc.core.tcl, run by any number of Tcl    *)
(* processes over one hue_remote_env file.  A process is a script or a     *)
(* long-running watch: it keeps accessToken, refreshToken and expiresAt    *)
(* between two calls and loses them when it ends.  Every step that reads   *)
(* or writes something shared is an action of its own.                     *)
(***************************************************************************)
EXTENDS TokenStore

CONSTANTS
    Procs,     \* the Tcl processes
    TclSkew    \* ::hue::tokenSkewSeconds

ASSUME SkewAssumption == TclSkew \in Nat

\* 90 s of skew, 3600 s where expires_in is missing, 604800 s at the cloud.  The
\* bound on the delay of an answer is about the network: it is what the skew is
\* there for, and curl is run without a time limit.
ASSUME TimingAssumption ==
    /\ MaxDelay <= TclSkew
    /\ TclSkew + MaxDelay < DefaultLife
    /\ DefaultLife <= Life

VARIABLES
    pc,        \* where each process is in curlAuthArgs
    mem,       \* accessToken, refreshToken, expiresAt of each process
    reply,     \* the answer a process is about to read
    writable   \* whether this user may write hue_remote_env

tclVars == <<pc, mem, reply, writable>>
vars == <<storeVars, tclVars>>

Answer  == [at : Token, rt : Token, timed : BOOLEAN]
NoReply == [at |-> NoTok, rt |-> NoTok, timed |-> FALSE]

TypeOK ==
    /\ StoreTypeOK
    /\ pc \in [Procs -> {"idle", "refresh", "answered", "update", "truncated",
                         "reread", "auth", "ready"}]
    /\ mem \in [Procs -> Triple]
    /\ reply \in [Procs -> Answer]
    /\ writable \in BOOLEAN

Init ==
    /\ StoreInit
    /\ pc = [p \in Procs |-> "idle"]
    /\ mem = [p \in Procs |-> Empty]
    /\ reply = [p \in Procs |-> NoReply]
    /\ writable \in BOOLEAN

-----------------------------------------------------------------------------
(* Steps of one process *)

\* _parseHueRemoteEnv: a line that is missing or has no value leaves what the
\* process remembers.
Parsed(old, f) ==
    [at  |-> IF f.at = NoTok THEN old.at ELSE f.at,
     rt  |-> IF f.rt = NoTok THEN old.rt ELSE f.rt,
     exp |-> IF f.exp = NoExp THEN old.exp ELSE f.exp]

Goto(p, l) == pc' = [pc EXCEPT ![p] = l]

\* A process that ends takes what it remembers with it.
Forget(p) ==
    /\ Goto(p, "idle")
    /\ mem' = [mem EXCEPT ![p] = Empty]
    /\ reply' = [reply EXCEPT ![p] = NoReply]

\* Mutants: no skew; every call refreshes.
FreshWithoutSkew(m, t) == m.exp = NoExp \/ t < m.exp
FreshNever(m, t) == m.exp = NoExp

\* Is the remembered access token good enough to be used as it is?
FreshEnough(m, t) == m.exp = NoExp \/ t + TclSkew < m.exp

\* envLoad, then the checks up to the curl call.  Without a refresh token the
\* process ends by softError.
Load(p) ==
    LET m == Parsed(mem[p], file) IN
    /\ pc[p] = "idle"
    /\ \/ /\ FreshEnough(m, now)
          /\ Goto(p, "auth")
          /\ mem' = [mem EXCEPT ![p] = m]
          /\ UNCHANGED reply
       \/ /\ ~FreshEnough(m, now)
          /\ m.rt # NoTok
          /\ Goto(p, "refresh")
          /\ mem' = [mem EXCEPT ![p] = m]
          /\ UNCHANGED reply
       \/ /\ ~FreshEnough(m, now)
          /\ m.rt = NoTok
          /\ Forget(p)
    /\ UNCHANGED <<storeVars, writable>>

\* The cloud accepts the refresh token and answers; expires_in may be missing.
Accepted(p) ==
    /\ pc[p] = "refresh"
    /\ Exchange(mem[p].rt)
    /\ \E timed \in BOOLEAN :
          reply' = [reply EXCEPT ![p] = [at |-> issued + 1,
                                         rt |-> Answered(mem[p].rt),
                                         timed |-> timed]]
    /\ Goto(p, "answered")
    /\ UNCHANGED <<now, file, mem, writable>>

\* The cloud answers without an access_token: softError ends the process.
Refused(p) ==
    /\ pc[p] = "refresh"
    /\ mem[p].rt # live
    /\ Forget(p)
    /\ UNCHANGED <<storeVars, writable>>

\* curl fails before the cloud sees the request.  exec raises a Tcl error, and
\* the catch around ensureFreshAccessToken in curlAuthArgs swallows it.
NoContact(p) ==
    /\ pc[p] = "refresh"
    /\ Goto(p, "auth")
    /\ UNCHANGED <<storeVars, mem, reply, writable>>

\* curl fails after the cloud has answered: the same, but the token is spent.
LoseAnswer(p) ==
    /\ pc[p] = "answered"
    /\ Goto(p, "auth")
    /\ reply' = [reply EXCEPT ![p] = NoReply]
    /\ UNCHANGED <<storeVars, mem, writable>>

\* Mutants: the refresh token of the answer is dropped; the access token is.
ReceiveOldRefresh(p) ==
    /\ pc[p] = "answered"
    /\ mem' = [mem EXCEPT ![p].at = reply[p].at, ![p].exp = now + Life]
    /\ reply' = [reply EXCEPT ![p] = NoReply]
    /\ Goto(p, "update")
    /\ UNCHANGED <<storeVars, writable>>

ReceiveOldAccess(p) ==
    /\ pc[p] = "answered"
    /\ mem' = [mem EXCEPT ![p].exp = now + Life]
    /\ reply' = [reply EXCEPT ![p] = NoReply]
    /\ Goto(p, "update")
    /\ UNCHANGED <<storeVars, writable>>

\* The answer is parsed into memory: a missing refresh_token keeps the old
\* one, a missing expires_in stands for DefaultLife.
Receive(p) ==
    /\ pc[p] = "answered"
    /\ mem' = [mem EXCEPT ![p] =
                 [at  |-> reply[p].at,
                  rt  |-> IF reply[p].rt = NoTok THEN mem[p].rt ELSE reply[p].rt,
                  exp |-> now + (IF reply[p].timed THEN Life ELSE DefaultLife)]]
    /\ reply' = [reply EXCEPT ![p] = NoReply]
    /\ Goto(p, "update")
    /\ UNCHANGED <<storeVars, writable>>

\* open $f w: the file is empty from here until the buffer is flushed.
Truncate(p) ==
    /\ pc[p] = "update"
    /\ writable
    /\ file' = Empty
    /\ Goto(p, "truncated")
    /\ UNCHANGED <<now, cloudVars, mem, reply, writable>>

\* open fails; the catch around _updateHueRemoteEnvFile swallows the error.
OpenFails(p) ==
    /\ pc[p] = "update"
    /\ ~writable
    /\ Goto(p, "reread")
    /\ UNCHANGED <<storeVars, mem, reply, writable>>

Flush(p) ==
    /\ pc[p] = "truncated"
    /\ file' = mem[p]
    /\ Goto(p, "reread")
    /\ UNCHANGED <<now, cloudVars, mem, reply, writable>>

\* "re-read from master to guarantee we match the file"
Reread(p) ==
    /\ pc[p] = "reread"
    /\ mem' = [mem EXCEPT ![p] = Parsed(mem[p], file)]
    /\ Goto(p, "auth")
    /\ UNCHANGED <<storeVars, reply, writable>>

\* curlAuthArgs and curlBearerArgs: without an access token, softError.
Authorize(p) ==
    /\ pc[p] = "auth"
    /\ \/ /\ mem[p].at # NoTok
          /\ Goto(p, "ready")
          /\ UNCHANGED <<mem, reply>>
       \/ /\ mem[p].at = NoTok
          /\ Forget(p)
    /\ UNCHANGED <<storeVars, writable>>

\* The API call is made; a long-running process keeps its memory.
Call(p) ==
    /\ pc[p] = "ready"
    /\ Goto(p, "idle")
    /\ UNCHANGED <<storeVars, mem, reply, writable>>

\* The script ends between two calls, or is killed anywhere.
End(p) ==
    /\ pc[p] # "idle" \/ mem[p] # Empty
    /\ Forget(p)
    /\ UNCHANGED <<storeVars, writable>>
-----------------------------------------------------------------------------
\* Assumption on the surroundings: the answer of an exchange is read, written
\* and read back within MaxDelay.
InTime(p) ==
    /\ pc[p] = "answered" => now < issuedAt[reply[p].at] + MaxDelay
    /\ pc[p] \in {"update", "truncated", "reread"}
          => now < issuedAt[mem[p].at] + MaxDelay

Tick ==
    /\ now < MaxTime
    /\ \A p \in Procs : InTime(p)
    /\ now' = now + 1
    /\ UNCHANGED <<cloudVars, file, tclVars>>

Step(p) ==
    \/ Load(p) \/ Accepted(p) \/ Refused(p) \/ NoContact(p) \/ LoseAnswer(p)
    \/ Receive(p) \/ Truncate(p) \/ OpenFails(p) \/ Flush(p) \/ Reread(p)
    \/ Authorize(p) \/ Call(p) \/ End(p)

Next == Tick \/ \E p \in Procs : Step(p)

Spec == Init /\ [][Next]_vars
-----------------------------------------------------------------------------
(* Properties *)

\* The process holds the accepted refresh token and has yet to put it into the
\* file: nobody else can find it there.
Carries(p) ==
    \/ /\ pc[p] = "answered"
       /\ live \in {reply[p].rt, mem[p].rt}
    \/ /\ pc[p] \in {"update", "truncated"}
       /\ mem[p].rt = live

LoginReachable == file.rt = live \/ \E p \in Procs : Carries(p)

\* The remote login survives everything but a process that dies, or loses the
\* cloud's answer, between the exchange and the flush: whatever the processes
\* interleave, the refresh token the cloud accepts is in hue_remote_env or on
\* its way there (ensureFreshAccessToken with _updateHueRemoteEnvFile).
LoginLostOnlyByFault ==
    [][writable /\ LoginReachable
          => \/ LoginReachable'
             \/ \E p \in Procs : Carries(p) /\ (End(p) \/ LoseAnswer(p))]_vars

Updating(p) == pc[p] \in {"answered", "update", "truncated", "reread"}

\* No lock guards hue_remote_env, yet when the cloud rotates refresh tokens two
\* processes are never between an accepted exchange and the re-read after the
\* update at once: until the flush the refresh token itself is the lock, and
\* after it the new expiry keeps the others from refreshing again.
OneUpdater ==
    policy = "rotate" =>
        \A p, q \in Procs : Updating(p) /\ Updating(q) => p = q

\* The expiry a client remembers, or finds in the file, belongs to the access
\* token beside it and overstates its life by at most the delay of the answer,
\* although the file is rewritten under the readers.
ExpiryBelongsToToken ==
    \A m \in {file} \cup {mem[p] : p \in Procs} :
        m.exp # NoExp =>
            /\ m.at \in Issue
            /\ m.exp <= issuedAt[m.at] + Life + MaxDelay

\* A call is authorised with an access token the cloud honours, unless this
\* process's own curl failed or the file cannot be written (then the re-read
\* brings the old token back); curlAuthArgs ignores both errors.
AuthorisedIsHonoured ==
    [][\A p \in Procs :
          pc[p] # "auth" /\ pc'[p] = "auth" =>
             \/ Honoured(mem'[p].at, now) \/ mem'[p].at = NoTok
             \/ NoContact(p) \/ LoseAnswer(p) \/ ~writable]_vars
=============================================================================
