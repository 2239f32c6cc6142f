------------------------------ MODULE RemoteSh ------------------------------
(***************************************************************************)
(* The token commands of remote.sh: token, newtoken, refreshtoken and      *)
(* gettoken.  Each run of the script is a process; it reads hue_remote_env *)
(* once (testToken), talks to the cloud, and writes the file in three      *)
(* appending steps without looking at what the cloud said.  refreshtoken    *)
(* asks curl for its error messages (-S), gettoken does not.                *)
(***************************************************************************)
EXTENDS TokenStore

CONSTANTS
    Shells,    \* the remote.sh processes
    ShSkew     \* 3660: remote.sh token refreshes this long before the expiry

ASSUME ShSkewAssumption == ShSkew \in Nat

VARIABLES
    shpc,      \* where each shell is
    env,       \* ACCESS_TOKEN, REFRESH_TOKEN and the lifetime it has cut out
    cmd        \* the command it was started with

shVars == <<shpc, env, cmd>>

Commands == {"token", "newtoken", "refreshtoken", "gettoken"}

\* EXPIRES_IN as cut out of the reply: a lifetime, nothing at all (an error
\* reply), or text on which the shell's arithmetic fails (curl's own message).
Text == -1
ShEnv == [at : Token, rt : Token, in : {Life, 0, Text}]
NoEnv == [at |-> NoTok, rt |-> NoTok, in |-> 0]

ShTypeOK ==
    /\ shpc \in [Shells -> {"start", "request", "answered", "write1", "write2",
                          "write3", "printed"}]
    /\ env \in [Shells -> ShEnv]
    /\ cmd \in [Shells -> Commands]

ShInit ==
    /\ shpc = [s \in Shells |-> "start"]
    /\ env = [s \in Shells |-> NoEnv]
    /\ cmd = [s \in Shells |-> "token"]

-----------------------------------------------------------------------------
\* testToken: the file has all three lines.
Whole == file.rt # NoTok /\ file.at # NoTok /\ file.exp # NoExp

\* remote.sh token: the token of the file lasts long enough to be printed.
LastsLong == file.exp - now >= ShSkew

ShGoto(s, l) == shpc' = [shpc EXCEPT ![s] = l]

\* A shell that ends: the next command starts from a fresh environment.
ShExit(s) ==
    /\ ShGoto(s, "start")
    /\ env' = [env EXCEPT ![s] = NoEnv]
    /\ cmd' = [cmd EXCEPT ![s] = "token"]

\* The dispatch on $1.  But for gettoken it calls testToken, which ends the script
\* where the file is not whole (and tells the user which command to run instead).
Start(s) ==
    /\ shpc[s] = "start"
    /\ \E c \in Commands :
        /\ cmd' = [cmd EXCEPT ![s] = c]
        /\ \/ /\ c = "gettoken"
              /\ ShGoto(s, "request")
              /\ UNCHANGED env
           \/ /\ c # "gettoken" /\ Whole
              /\ ShGoto(s, IF c = "token" /\ LastsLong THEN "printed" ELSE "request")
              /\ env' = [env EXCEPT ![s] = [at |-> file.at, rt |-> file.rt, in |-> 0]]
    /\ UNCHANGED storeVars

\* What cut and tr make of a reply: tokens, an error object, the message of a curl
\* that was called with -S, and nothing at all from one that was called without.
Granted == [at |-> issued + 1, rt |-> Answered(live), in |-> Life]
Denied  == [at |-> Junk, rt |-> NoTok, in |-> 0]
Unreachable == [at |-> Junk, rt |-> Junk, in |-> Text]
Silent  == [at |-> NoTok, rt |-> NoTok, in |-> 0]

\* A refresh with the refresh token of the file, or a login by the user, which
\* the cloud grants without one.
ShAccepted(s) ==
    /\ shpc[s] = "request"
    /\ Exchange(IF cmd[s] = "gettoken" THEN live ELSE env[s].rt)
    /\ env' = [env EXCEPT ![s] = Granted]
    /\ ShGoto(s, "answered")
    /\ UNCHANGED <<now, file, cmd>>

\* The cloud answers with an error object.
ShRefused(s) ==
    /\ shpc[s] = "request"
    /\ cmd[s] = "gettoken" \/ env[s].rt # live
    /\ env' = [env EXCEPT ![s] = Denied]
    /\ ShGoto(s, "write1")
    /\ UNCHANGED <<storeVars, cmd>>

\* curl fails.  Under refreshtoken 2>&1 makes its message the reply; under gettoken
\* it prints none, and the fields are cut out of an empty text.
ShNoReply(s) ==
    /\ shpc[s] \in {"request", "answered"}
    /\ env' = [env EXCEPT ![s] =
                 IF cmd[s] = "gettoken" THEN Silent ELSE Unreachable]
    /\ ShGoto(s, "write1")
    /\ UNCHANGED <<storeVars, cmd>>

ShReceive(s) ==
    /\ shpc[s] = "answered"
    /\ ShGoto(s, "write1")
    /\ UNCHANGED <<storeVars, env, cmd>>

\* echo "ACCESS_TOKEN=..." >| file
ShWrite1(s) ==
    /\ shpc[s] = "write1"
    /\ file' = [Empty EXCEPT !.at = env[s].at]
    /\ ShGoto(s, "write2")
    /\ UNCHANGED <<now, cloudVars, env, cmd>>

\* Mutant: the fields of the reply are cut in the wrong order.
ShWrite2Swapped(s) ==
    /\ shpc[s] = "write2"
    /\ file' = [file EXCEPT !.rt = env[s].at]
    /\ ShGoto(s, "write3")
    /\ UNCHANGED <<now, cloudVars, env, cmd>>

\* echo "REFRESH_TOKEN=..." >> file
ShWrite2(s) ==
    /\ shpc[s] = "write2"
    /\ file' = [file EXCEPT !.rt = env[s].rt]
    /\ ShGoto(s, "write3")
    /\ UNCHANGED <<now, cloudVars, env, cmd>>

\* EXPIRES_AT=$(($EXPIRES_IN + $(date +%s))): without a lifetime that is the time of
\* the writing; on text the shell ends with a syntax error, the line is never written.
ShWrite3(s) ==
    /\ shpc[s] = "write3"
    /\ \/ /\ env[s].in # Text
          /\ file' = [file EXCEPT !.exp = now + env[s].in]
          /\ ShGoto(s, "printed")
          /\ UNCHANGED <<env, cmd>>
       \/ /\ env[s].in = Text
          /\ ShExit(s)
          /\ UNCHANGED file
    /\ UNCHANGED <<now, cloudVars>>

\* The caller takes the printed token; or the script is killed on the way.
ShEnd(s) ==
    /\ shpc[s] # "start"
    /\ ShExit(s)
    /\ UNCHANGED <<storeVars>>

-----------------------------------------------------------------------------
ShStep(s) ==
    \/ Start(s) \/ ShAccepted(s) \/ ShRefused(s) \/ ShNoReply(s) \/ ShReceive(s)
    \/ ShWrite1(s) \/ ShWrite2(s) \/ ShWrite3(s) \/ ShEnd(s)

\* An exchange is written to the file within MaxDelay of its issue.
ShInTime(s) ==
    shpc[s] \in {"answered", "write1", "write2", "write3"} /\ env[s].at \in Issue
        => now < issuedAt[env[s].at] + MaxDelay
=============================================================================
