----------------------------- MODULE TokenStore -----------------------------
(***************************************************************************)
(* What the two OAuth clients of the repository share: the file            *)
(* env/<appid>/hue_remote_env, the wall clock, and the Hue cloud that      *)
(* issues tokens.  hue.inc.core.tcl (module HueToken) and remote.sh        *)
(* (module RemoteSh) are separate processes; neither takes a lock.         *)
(*                                                                         *)
(* A token is the number of the exchange that issued it; the access and    *)
(* the refresh token of one exchange carry the same number.                *)
(***************************************************************************)
EXTENDS Integers

CONSTANTS
    Life,         \* lifetime of an access token (604800 s at the Hue cloud)
    DefaultLife,  \* what the Tcl client assumes when expires_in is missing
    MaxDelay,     \* bound: ticks from an issue to the client's last step with it
    Policies,     \* what a refresh answer does with the refresh token
    MaxIssued,    \* bound: tokens the cloud issues in one behaviour
    MaxTime       \* bound: last tick of the clock

ASSUME StoreAssumption ==
    /\ Life \in Nat \ {0} /\ DefaultLife \in Nat \ {0}
    /\ MaxDelay \in Nat /\ MaxTime \in Nat
    /\ MaxIssued \in Nat \ {0}
    /\ Policies \subseteq {"rotate", "repeat", "omit"} /\ Policies # {}

VARIABLES
    now,       \* [clock seconds], date +%s
    issued,    \* how many tokens the cloud has issued so far
    issuedAt,  \* when each of them was issued
    live,      \* the refresh token the cloud accepts
    policy,    \* the cloud's policy; it does not change in a behaviour
    file       \* contents of hue_remote_env

cloudVars == <<issued, issuedAt, live, policy>>
storeVars == <<now, issued, issuedAt, live, policy, file>>

NoTok == 0     \* ACCESS_TOKEN= or REFRESH_TOKEN= empty, or the line is missing
Junk  == -1    \* text that is not a token: an error reply cut into fields
NoExp == -1    \* no EXPIRES_AT line, or no number in it

Issue == 1..MaxIssued
Token == Issue \cup {NoTok, Junk}

\* The three values the clients read out of hue_remote_env.
Triple == [at : Token, rt : Token, exp : Nat \cup {NoExp}]
Empty  == [at |-> NoTok, rt |-> NoTok, exp |-> NoExp]

StoreTypeOK ==
    /\ now \in Nat
    /\ issued \in Issue
    /\ issuedAt \in [Issue -> Nat]
    /\ live \in Issue
    /\ policy \in Policies
    /\ file \in Triple

\* gettoken has logged in once: one token, in the file, and still accepted.
StoreInit ==
    /\ now = 0
    /\ issued = 1
    /\ issuedAt = [t \in Issue |-> 0]
    /\ live = 1
    /\ policy \in Policies
    /\ file = [at |-> 1, rt |-> 1, exp |-> Life]

\* The cloud takes refresh token rt.  Under "rotate" the old one dies with it.
Exchange(rt) ==
    /\ rt = live
    /\ issued < MaxIssued
    /\ issued' = issued + 1
    /\ issuedAt' = [issuedAt EXCEPT ![issued + 1] = now]
    /\ live' = IF policy = "rotate" THEN issued + 1 ELSE live
    /\ UNCHANGED policy

\* The refresh token named in the answer to an exchange of rt.
Answered(rt) ==
    IF policy = "rotate" THEN issued + 1
    ELSE IF policy = "repeat" THEN rt
    ELSE NoTok

\* An access token the cloud would honour now.
Honoured(at, t) == at \in Issue /\ t < issuedAt[at] + Life

=============================================================================
