--------------------------- MODULE HueTokenProofs ---------------------------
(***************************************************************************)
(* Proofs about HueToken and TokenFleet, for any set of processes, any     *)
(* policy of the cloud and any bounds: type correctness; that the remote   *)
(* login is lost only by a fault of the process that carries it; that      *)
(* rotation makes the update exclusive; and that tokens and their expiries *)
(* belong together.  The fleet may have any number of Tcl clients beside   *)
(* one remote.sh at a time.                                                *)
(***************************************************************************)
EXTENDS TokenFleet, TLAPS

-----------------------------------------------------------------------------
(* The inductive invariant *)

\* A process between an accepted exchange and the flush.
Window(p) == pc[p] \in {"answered", "update", "truncated"}

\* The refresh token it will leave in the file.
Carried(p) == IF pc[p] = "answered" THEN reply[p].rt ELSE mem[p].rt

\* Nobody knows a token that has not been issued.
NothingFromTheFuture ==
    /\ live <= issued
    /\ file.rt <= issued
    /\ \A p \in Procs : mem[p].rt <= issued /\ reply[p].rt <= issued

\* Under rotation the accepted token is the newest one, and a process in its
\* window is the only one that knows it.
RotatingLogin ==
    policy = "rotate" =>
        /\ live = issued
        /\ \A p \in Procs : Window(p) =>
              /\ Carried(p) = live
              /\ file.rt # live
              /\ \A q \in Procs \ {p} : mem[q].rt # live /\ ~Window(q)

\* Otherwise the accepted token stays as it is, and a process in its window has it.
StandingLogin ==
    policy # "rotate" =>
        \A p \in Procs :
            /\ reply[p].rt \in {NoTok, live}
            /\ Window(p) => mem[p].rt = live

IInv == TypeOK /\ NothingFromTheFuture /\ RotatingLogin /\ StandingLogin

-----------------------------------------------------------------------------
(* Type correctness *)

\* Reading the file gives a triple again (_parseHueRemoteEnv).
LEMMA ParsedType ==
    ASSUME NEW old \in Triple, NEW f \in Triple
    PROVE  /\ Parsed(old, f) \in Triple
           /\ Parsed(old, f).rt \in {old.rt, f.rt}
           /\ f.rt # NoTok => Parsed(old, f).rt = f.rt
  BY DEF Parsed, Triple, Token, Issue, NoTok, Junk, NoExp

LEMMA EmptyType == Empty \in Triple /\ NoReply \in Answer
  BY DEF Empty, NoReply, Triple, Answer, Token, NoTok, NoExp

\* The initial state has the declared types.
LEMMA InitType == Init => TypeOK
  BY StoreAssumption, EmptyType
  DEF Init, StoreInit, TypeOK, StoreTypeOK, Triple, Token, Issue

\* Every step of every process, and the clock, keep the declared types.
LEMMA StepType == TypeOK /\ [Next]_vars => TypeOK'
  <1> SUFFICES ASSUME TypeOK, [Next]_vars
               PROVE  TypeOK'
    OBVIOUS
  <1> USE StoreAssumption, EmptyType
  <1>1. CASE UNCHANGED vars
    BY <1>1 DEF TypeOK, StoreTypeOK, vars, storeVars, tclVars
  <1>2. CASE Tick
    BY <1>2 DEF Tick, TypeOK, StoreTypeOK, cloudVars, tclVars
  <1>3. ASSUME NEW p \in Procs, Step(p)
        PROVE  TypeOK'
    <2>1. CASE Load(p)
      <3>1. Parsed(mem[p], file) \in Triple
        BY ParsedType DEF TypeOK, StoreTypeOK
      <3>2. QED
        BY <2>1, <3>1
        DEF Load, Forget, Goto, TypeOK, StoreTypeOK, storeVars
    <2>2. CASE Accepted(p)
      <3>1. StoreTypeOK'
        BY <2>2 DEF Accepted, Exchange, TypeOK, StoreTypeOK, Issue
      <3>2. Answered(mem[p].rt) \in Token
        <4>1. mem[p].rt \in Token
          BY DEF TypeOK, Triple
        <4>2. issued + 1 \in Token
          BY <2>2 DEF Accepted, Exchange, TypeOK, StoreTypeOK, Token, Issue
        <4>3. policy \in {"rotate", "repeat", "omit"}
          BY DEF TypeOK, StoreTypeOK
        <4>4. QED
          BY <4>1, <4>2, <4>3 DEF Answered, Token
      <3>3. issued + 1 \in Token
        BY <2>2 DEF Accepted, Exchange, TypeOK, StoreTypeOK, Token, Issue
      <3>4. QED
        BY <2>2, <3>1, <3>2, <3>3 DEF Accepted, Goto, TypeOK, Answer
    <2>3. CASE Refused(p)
      BY <2>3 DEF Refused, Forget, Goto, TypeOK, StoreTypeOK, storeVars
    <2>4. CASE NoContact(p)
      BY <2>4 DEF NoContact, Goto, TypeOK, StoreTypeOK, storeVars
    <2>5. CASE LoseAnswer(p)
      BY <2>5 DEF LoseAnswer, Goto, TypeOK, StoreTypeOK, storeVars
    <2>6. CASE Receive(p)
      <3> DEFINE m == [at  |-> reply[p].at,
                       rt  |-> IF reply[p].rt = NoTok THEN mem[p].rt ELSE reply[p].rt,
                       exp |-> now + (IF reply[p].timed THEN Life ELSE DefaultLife)]
      <3>1. m \in Triple
        BY DEF TypeOK, StoreTypeOK, Triple, Answer
      <3>2. mem' = [mem EXCEPT ![p] = m]
        BY <2>6 DEF Receive
      <3> HIDE DEF m
      <3>3. QED
        BY <2>6, <3>1, <3>2 DEF Receive, Goto, TypeOK, StoreTypeOK, storeVars
    <2>7. CASE Truncate(p)
      BY <2>7 DEF Truncate, Goto, TypeOK, StoreTypeOK, cloudVars
    <2>8. CASE OpenFails(p)
      BY <2>8 DEF OpenFails, Goto, TypeOK, StoreTypeOK, storeVars
    <2>9. CASE Flush(p)
      BY <2>9 DEF Flush, Goto, TypeOK, StoreTypeOK, cloudVars
    <2>10. CASE Reread(p)
      <3>1. Parsed(mem[p], file) \in Triple
        BY ParsedType DEF TypeOK, StoreTypeOK
      <3>2. QED
        BY <2>10, <3>1 DEF Reread, Goto, TypeOK, StoreTypeOK, storeVars
    <2>11. CASE Authorize(p)
      BY <2>11 DEF Authorize, Forget, Goto, TypeOK, StoreTypeOK, storeVars
    <2>12. CASE Call(p)
      BY <2>12 DEF Call, Goto, TypeOK, StoreTypeOK, storeVars
    <2>13. CASE End(p)
      BY <2>13 DEF End, Forget, Goto, TypeOK, StoreTypeOK, storeVars
    <2>14. QED
      BY <1>3, <2>1, <2>2, <2>3, <2>4, <2>5, <2>6, <2>7, <2>8, <2>9, <2>10,
         <2>11, <2>12, <2>13 DEF Step
  <1>4. QED
    BY <1>1, <1>2, <1>3 DEF Next

\* hue_remote_env, the memory of every client and the cloud hold values of the
\* declared types, whatever the processes do.
THEOREM TypeCorrect == Spec => []TypeOK
  BY InitType, StepType, PTL DEF Spec

-----------------------------------------------------------------------------
(* The inductive invariant *)

\* The tokens anybody holds are numbers.
LEMMA TokensAreNumbers ==
    ASSUME TypeOK
    PROVE  /\ file.rt \in Int
           /\ \A q \in Procs : mem[q].rt \in Int /\ reply[q].rt \in Int
<1>1. Token \subseteq Int
  BY DEF Token, Issue, NoTok, Junk
<1>2. file.rt \in Token
  BY DEF TypeOK, StoreTypeOK, Triple
<1>3. ASSUME NEW q \in Procs
      PROVE  mem[q].rt \in Token /\ reply[q].rt \in Token
  <2>1. mem[q] \in Triple /\ reply[q] \in Answer
    BY DEF TypeOK
  <2>2. QED
    BY <2>1 DEF Triple, Answer
<1>4. QED
  BY <1>1, <1>2, <1>3

\* The invariant holds when gettoken has just filled the file.
LEMMA InitInv == Init => IInv
  <1> SUFFICES ASSUME Init
               PROVE  IInv
    OBVIOUS
  <1>1. TypeOK
    BY InitType
  <1>2. QED
    BY <1>1
    DEF Init, StoreInit, IInv, NothingFromTheFuture, RotatingLogin, StandingLogin,
        Window, NoTok, Empty, NoReply

\* What the steps that leave the cloud, the file and the refresh tokens of the
\* others alone have in common.
Bystander(p) ==
    /\ UNCHANGED <<live, issued, policy, file>>
    /\ \A q \in Procs \ {p} :
          mem'[q] = mem[q] /\ reply'[q] = reply[q] /\ pc'[q] = pc[q]

\* A step that ends a window, or never was in one, keeps the invariant when what
\* it then remembers is nothing, what it knew, or what the file says.
LEMMA QuietStep ==
    ASSUME NEW p \in Procs, IInv, TypeOK', Bystander(p),
           pc'[p] \notin {"answered", "update", "truncated"},
           mem'[p].rt \in {NoTok, mem[p].rt, file.rt},
           reply'[p].rt \in {NoTok, reply[p].rt}
    PROVE  IInv'
  <1>1. live \in Int /\ issued \in Int /\ live # NoTok /\ NoTok <= issued
    BY DEF IInv, TypeOK, StoreTypeOK, Issue, NoTok
  <1>2. NothingFromTheFuture'
    BY <1>1 DEF IInv, NothingFromTheFuture, Bystander
  <1>3. RotatingLogin'
    BY <1>1 DEF IInv, RotatingLogin, Bystander, Window, Carried
  <1>4. StandingLogin'
    BY <1>1 DEF IInv, StandingLogin, Bystander, Window
  <1>5. QED
    BY <1>2, <1>3, <1>4 DEF IInv

\* Every step of every process, and the clock, keep the invariant.
LEMMA StepInv == IInv /\ [Next]_vars => IInv'
  <1> SUFFICES ASSUME IInv, [Next]_vars
               PROVE  IInv'
    OBVIOUS
  <1>0. TypeOK /\ TypeOK'
    BY StepType DEF IInv
  <1>1. CASE UNCHANGED vars
    BY <1>0, <1>1
    DEF IInv, NothingFromTheFuture, RotatingLogin, StandingLogin, Window, Carried,
        vars, storeVars, tclVars
  <1>2. CASE Tick
    BY <1>0, <1>2
    DEF Tick, IInv, NothingFromTheFuture, RotatingLogin, StandingLogin, Window,
        Carried, cloudVars, tclVars
  <1>3. ASSUME NEW p \in Procs, Step(p)
        PROVE  IInv'
    <2> USE <1>0
    <2>1. CASE Load(p)
      <3>1. /\ Parsed(mem[p], file).rt \in {mem[p].rt, file.rt}
            /\ Parsed(mem[p], file) \in Triple
        BY ParsedType DEF TypeOK, StoreTypeOK
      <3>2. Bystander(p)
        BY <2>1 DEF Load, Forget, Goto, Bystander, storeVars, TypeOK
      <3>3. /\ pc'[p] \notin {"answered", "update", "truncated"}
            /\ mem'[p].rt \in {NoTok, mem[p].rt, file.rt}
            /\ reply'[p].rt \in {NoTok, reply[p].rt}
        BY <2>1, <3>1 DEF Load, Forget, Goto, TypeOK, Empty, NoReply
      <3>4. QED
        BY <3>2, <3>3, QuietStep
    <2>2. CASE Accepted(p)
      <3>1. /\ mem[p].rt = live /\ pc[p] = "refresh"
            /\ issued' = issued + 1 /\ policy' = policy /\ file' = file
            /\ mem' = mem
            /\ live' = IF policy = "rotate" THEN issued + 1 ELSE live
            /\ pc' = [pc EXCEPT ![p] = "answered"]
        BY <2>2 DEF Accepted, Exchange, Goto
      <3>2. /\ reply'[p].rt = Answered(live)
            /\ \A q \in Procs \ {p} : reply'[q] = reply[q]
        BY <2>2, <3>1 DEF Accepted, TypeOK
      <3>3. /\ issued \in Int /\ live \in Int /\ live > 0
            /\ policy \in {"rotate", "repeat", "omit"}
        BY StoreAssumption DEF TypeOK, StoreTypeOK, Issue
      <3>4. NothingFromTheFuture'
        <4>1. live <= issued /\ file.rt <= issued
              /\ \A q \in Procs : mem[q].rt <= issued /\ reply[q].rt <= issued
          BY DEF IInv, NothingFromTheFuture
        <4>2. /\ file.rt \in Int
              /\ \A q \in Procs : mem[q].rt \in Int /\ reply[q].rt \in Int
          BY TokensAreNumbers DEF IInv
        <4>3. live' <= issued' /\ file'.rt <= issued'
              /\ \A q \in Procs : mem'[q].rt <= issued'
          BY <3>1, <3>3, <4>1, <4>2
        <4>4. reply'[p].rt <= issued'
          <5>1. Answered(live) \in {issued + 1, live, NoTok}
            BY DEF Answered
          <5>2. QED
            BY <3>1, <3>2, <3>3, <4>1, <5>1 DEF NoTok
        <4>5. \A q \in Procs \ {p} : reply'[q].rt <= issued'
          BY <3>1, <3>2, <3>3, <4>1, <4>2
        <4>6. QED
          BY <4>3, <4>4, <4>5 DEF NothingFromTheFuture
      <3>5. RotatingLogin'
        <4> SUFFICES ASSUME policy = "rotate"
                     PROVE  RotatingLogin'
          BY <3>1 DEF RotatingLogin
        <4>1. \A q \in Procs \ {p} : ~Window(q)
          BY <3>1 DEF IInv, RotatingLogin
        <4>2. file.rt # live' /\ \A q \in Procs : mem[q].rt # live'
          BY <3>1, <3>3
          DEF IInv, NothingFromTheFuture, TypeOK, StoreTypeOK, Triple, Token,
              Issue, Junk, NoTok
        <4>3. QED
          BY <3>1, <3>2, <4>1, <4>2
          DEF RotatingLogin, Window, Carried, Answered, TypeOK
      <3>6. StandingLogin'
        BY <3>1, <3>2, <3>3
        DEF IInv, StandingLogin, Window, Answered, TypeOK
      <3>7. QED
        BY <3>4, <3>5, <3>6 DEF IInv
    <2>3. CASE Refused(p)
      BY <2>3, QuietStep
      DEF Refused, Forget, Goto, Bystander, storeVars, TypeOK, Empty, NoReply
    <2>4. CASE NoContact(p)
      BY <2>4, QuietStep DEF NoContact, Goto, Bystander, storeVars, TypeOK
    <2>5. CASE LoseAnswer(p)
      BY <2>5, QuietStep
      DEF LoseAnswer, Goto, Bystander, storeVars, TypeOK, NoReply
    <2>6. CASE Receive(p)
      <3>1. /\ pc[p] = "answered"
            /\ mem'[p].rt = IF reply[p].rt = NoTok THEN mem[p].rt ELSE reply[p].rt
            /\ \A q \in Procs \ {p} : mem'[q] = mem[q] /\ reply'[q] = reply[q]
            /\ reply'[p].rt = NoTok
            /\ pc' = [pc EXCEPT ![p] = "update"]
            /\ UNCHANGED <<live, issued, policy, file>>
        BY <2>6 DEF Receive, Goto, TypeOK, storeVars, NoReply
      <3>2. live \in Int /\ live # NoTok /\ issued \in Int /\ NoTok <= issued
        BY DEF TypeOK, StoreTypeOK, Issue, NoTok
      <3>3. NothingFromTheFuture'
        BY <3>1, <3>2 DEF IInv, NothingFromTheFuture
      <3>4. RotatingLogin'
        BY <3>1, <3>2 DEF IInv, RotatingLogin, Window, Carried, TypeOK
      <3>5. StandingLogin'
        BY <3>1, <3>2 DEF IInv, StandingLogin, Window, TypeOK
      <3>6. QED
        BY <3>3, <3>4, <3>5 DEF IInv
    <2>7. CASE Truncate(p)
      <3>1. /\ file' = Empty /\ pc[p] = "update"
            /\ pc' = [pc EXCEPT ![p] = "truncated"]
            /\ UNCHANGED <<live, issued, policy, mem, reply>>
        BY <2>7 DEF Truncate, Goto, cloudVars
      <3>2. live \in Int /\ live # NoTok /\ issued \in Int /\ NoTok <= issued
        BY DEF TypeOK, StoreTypeOK, Issue, NoTok
      <3>3. NothingFromTheFuture' /\ StandingLogin'
        BY <3>1, <3>2
        DEF IInv, NothingFromTheFuture, StandingLogin, Window, TypeOK, Empty
      <3>4. RotatingLogin'
        BY <3>1, <3>2 DEF IInv, RotatingLogin, Window, Carried, TypeOK, Empty
      <3>5. QED
        BY <3>3, <3>4 DEF IInv
    <2>8. CASE OpenFails(p)
      BY <2>8, QuietStep DEF OpenFails, Goto, Bystander, storeVars, TypeOK
    <2>9. CASE Flush(p)
      <3>1. /\ file' = mem[p] /\ pc[p] = "truncated"
            /\ pc' = [pc EXCEPT ![p] = "reread"]
            /\ UNCHANGED <<live, issued, policy, mem, reply>>
        BY <2>9 DEF Flush, Goto, cloudVars
      <3>2. NothingFromTheFuture' /\ StandingLogin'
        BY <3>1
        DEF IInv, NothingFromTheFuture, StandingLogin, Window, TypeOK
      <3>3. RotatingLogin'
        BY <3>1 DEF IInv, RotatingLogin, Window, Carried, TypeOK
      <3>4. QED
        BY <3>2, <3>3 DEF IInv
    <2>10. CASE Reread(p)
      <3>1. Parsed(mem[p], file).rt \in {mem[p].rt, file.rt}
        BY ParsedType DEF TypeOK, StoreTypeOK
      <3>2. QED
        BY <2>10, <3>1, QuietStep
        DEF Reread, Goto, Bystander, storeVars, TypeOK
    <2>11. CASE Authorize(p)
      BY <2>11, QuietStep
      DEF Authorize, Forget, Goto, Bystander, storeVars, TypeOK, Empty, NoReply
    <2>12. CASE Call(p)
      BY <2>12, QuietStep DEF Call, Goto, Bystander, storeVars, TypeOK
    <2>13. CASE End(p)
      BY <2>13, QuietStep
      DEF End, Forget, Goto, Bystander, storeVars, TypeOK, Empty, NoReply
    <2>14. QED
      BY <1>3, <2>1, <2>2, <2>3, <2>4, <2>5, <2>6, <2>7, <2>8, <2>9, <2>10,
         <2>11, <2>12, <2>13 DEF Step
  <1>4. QED
    BY <1>1, <1>2, <1>3 DEF Next

\* In every reachable state a rotated refresh token is known to the one process
\* that carries it, and a standing one to every process that has used it
\* (ensureFreshAccessToken).
THEOREM InvariantHolds == Spec => []IInv
  BY InitInv, StepInv, PTL DEF Spec

\* Without rotation there is only one refresh token to know.
OneName ==
    policy # "rotate" =>
        /\ file.rt \in {NoTok, live}
        /\ \A p \in Procs :
              /\ mem[p].rt \in {NoTok, live}
              /\ pc[p] = "refresh" => mem[p].rt # NoTok

LEMMA OneNameStep == IInv /\ OneName /\ [Next]_vars => OneName'
<1> SUFFICES ASSUME IInv, OneName, [Next]_vars, policy' # "rotate"
             PROVE  OneName'
  BY DEF OneName
<1>0. TypeOK
  BY DEF IInv
<1>1. CASE UNCHANGED vars \/ Tick
  BY <1>1 DEF vars, Tick, storeVars, cloudVars, tclVars, OneName
<1>2. ASSUME NEW p \in Procs, Step(p)
      PROVE  OneName'
  <2>1. policy' = policy /\ live' = live
    BY <1>2 DEF Step, Load, Accepted, Exchange, Refused, NoContact, LoseAnswer, Receive,
                Truncate, OpenFails, Flush, Reread, Authorize, Call, End, storeVars,
                cloudVars
  <2>2. file'.rt \in {NoTok, live}
    BY <1>2, <2>1
    DEF Step, Load, Accepted, Refused, NoContact, LoseAnswer, Receive, Truncate,
        OpenFails, Flush, Reread, Authorize, Call, End, storeVars, OneName, Empty
  <2>3. ASSUME NEW q \in Procs \ {p}
        PROVE  mem'[q] = mem[q] /\ pc'[q] = pc[q]
    BY <1>0, <1>2
    DEF Step, Load, Accepted, Refused, NoContact, LoseAnswer, Receive, Truncate,
        OpenFails, Flush, Reread, Authorize, Call, End, Forget, Goto, TypeOK
  <2>4. /\ Parsed(mem[p], file).rt \in {NoTok, live}
    BY <2>1, ParsedType DEF OneName, TypeOK, StoreTypeOK, IInv
  <2>5. /\ mem'[p].rt \in {NoTok, live}
        /\ pc'[p] = "refresh" => mem'[p].rt # NoTok
    <3>1. CASE Load(p)
      BY <1>0, <2>4, <3>1 DEF Load, Forget, Goto, TypeOK, Empty
    <3>2. CASE Receive(p)
      BY <1>0, <2>1, <3>2 DEF Receive, Goto, TypeOK, OneName, IInv, StandingLogin
    <3>3. CASE Reread(p)
      BY <1>0, <2>4, <3>3 DEF Reread, Goto, TypeOK
    <3>4. CASE ~Load(p) /\ ~Receive(p) /\ ~Reread(p)
      BY <1>0, <1>2, <2>1, <3>4
      DEF Step, Accepted, Refused, NoContact, LoseAnswer, Truncate,
          OpenFails, Flush, Authorize, Call, End, Forget, Goto, TypeOK, Empty, OneName
    <3> QED
      BY <3>1, <3>2, <3>3, <3>4
  <2> QED
    BY <2>1, <2>2, <2>3, <2>5 DEF OneName
<1> QED
  BY <1>1, <1>2 DEF Next

\* Where the cloud does not rotate refresh tokens, no refresh of a Tcl client is ever
\* refused: every client that refreshes does so with the accepted token.
THEOREM StandingNeverRefused ==
    Spec => [](policy # "rotate" => \A p \in Procs : pc[p] = "refresh" => mem[p].rt = live)
<1>1. Init => OneName
  BY DEF Init, StoreInit, OneName, Empty
<1>2. OneName => (policy # "rotate" => \A p \in Procs : pc[p] = "refresh" => mem[p].rt = live)
  BY DEF OneName
<1> QED
  BY <1>1, <1>2, InvariantHolds, OneNameStep, PTL DEF Spec

-----------------------------------------------------------------------------
(* The remote login *)

\* The one who loses the login, if anybody does.
Fault == \E p \in Procs : Carries(p) /\ (End(p) \/ LoseAnswer(p))

\* A step that leaves the cloud, the file and every carrier alone keeps the
\* login within reach.
LEMMA LoginKept ==
    ASSUME LoginReachable, live' = live, file' = file,
           \A q \in Procs : Carries(q) => Carries(q)'
    PROVE  LoginReachable'
  BY DEF LoginReachable

\* No step but a fault of a carrier loses the login.
LEMMA LoginStep ==
    IInv /\ [Next]_vars => (writable /\ LoginReachable => LoginReachable' \/ Fault)
  <1> SUFFICES ASSUME IInv, [Next]_vars, writable, LoginReachable, ~Fault
               PROVE  LoginReachable'
    OBVIOUS
  <1>0. TypeOK
    BY DEF IInv
  <1>1. CASE UNCHANGED vars
    BY <1>1, LoginKept DEF vars, storeVars, tclVars, Carries
  <1>2. CASE Tick
    BY <1>2, LoginKept DEF Tick, cloudVars, tclVars, Carries
  <1>3. ASSUME NEW p \in Procs, Step(p)
        PROVE  LoginReachable'
    <2> USE <1>0
    <2>1. CASE Load(p)
      BY <2>1, LoginKept
      DEF Load, Forget, Goto, TypeOK, storeVars, Carries
    <2>2. CASE Accepted(p)
      <3>1. /\ mem' = mem /\ mem[p].rt = live /\ pc'[p] = "answered"
            /\ live' = IF policy = "rotate" THEN issued + 1 ELSE live
            /\ reply'[p].rt = Answered(live)
        BY <2>2 DEF Accepted, Exchange, Goto, TypeOK
      <3>2. Carries(p)'
        BY <3>1 DEF Carries, Answered
      <3>3. QED
        BY <3>2 DEF LoginReachable
    <2>3. CASE Refused(p)
      BY <2>3, LoginKept
      DEF Refused, Forget, Goto, TypeOK, storeVars, Carries
    <2>4. CASE NoContact(p)
      BY <2>4, LoginKept DEF NoContact, Goto, TypeOK, storeVars, Carries
    <2>5. CASE LoseAnswer(p)
      <3>1. ~Carries(p)
        BY <2>5 DEF Fault
      <3>2. QED
        BY <2>5, <3>1, LoginKept
        DEF LoseAnswer, Goto, TypeOK, storeVars, Carries
    <2>6. CASE Receive(p)
      <3>1. /\ mem'[p].rt = IF reply[p].rt = NoTok THEN mem[p].rt ELSE reply[p].rt
            /\ \A q \in Procs \ {p} : mem'[q] = mem[q] /\ reply'[q] = reply[q]
            /\ pc[p] = "answered"
            /\ pc' = [pc EXCEPT ![p] = "update"]
            /\ UNCHANGED <<live, file>>
        BY <2>6 DEF Receive, Goto, TypeOK, storeVars
      <3>2. Carries(p) => Carries(p)'
        <4>1. policy = "rotate" => reply[p].rt = live
          BY <3>1 DEF IInv, RotatingLogin, Window, Carried
        <4>2. policy # "rotate" => reply[p].rt \in {NoTok, live} /\ mem[p].rt = live
          BY <3>1 DEF IInv, StandingLogin, Window
        <4>3. live # NoTok
          BY DEF TypeOK, StoreTypeOK, Issue, NoTok
        <4>4. QED
          BY <3>1, <4>1, <4>2, <4>3 DEF Carries, TypeOK
      <3>3. \A q \in Procs \ {p} : Carries(q) => Carries(q)'
        BY <3>1 DEF Carries, TypeOK
      <3>4. QED
        BY <3>1, <3>2, <3>3, LoginKept
    <2>7. CASE Truncate(p)
      <3>1. /\ pc[p] = "update" /\ pc'[p] = "truncated"
            /\ UNCHANGED <<live, mem>>
        BY <2>7 DEF Truncate, Goto, TypeOK, cloudVars
      <3>2. mem[p].rt = live
        BY <3>1 DEF IInv, RotatingLogin, StandingLogin, Window, Carried
      <3>3. Carries(p)'
        BY <3>1, <3>2 DEF Carries
      <3>4. QED
        BY <3>3 DEF LoginReachable
    <2>8. CASE OpenFails(p)
      BY <2>8 DEF OpenFails
    <2>9. CASE Flush(p)
      <3>1. pc[p] = "truncated" /\ file' = mem[p] /\ live' = live
        BY <2>9 DEF Flush, cloudVars
      <3>2. mem[p].rt = live
        BY <3>1 DEF IInv, RotatingLogin, StandingLogin, Window, Carried
      <3>3. QED
        BY <3>1, <3>2 DEF LoginReachable
    <2>10. CASE Reread(p)
      BY <2>10, LoginKept DEF Reread, Goto, TypeOK, storeVars, Carries
    <2>11. CASE Authorize(p)
      BY <2>11, LoginKept
      DEF Authorize, Forget, Goto, TypeOK, storeVars, Carries
    <2>12. CASE Call(p)
      BY <2>12, LoginKept DEF Call, Goto, TypeOK, storeVars, Carries
    <2>13. CASE End(p)
      <3>1. ~Carries(p)
        BY <2>13 DEF Fault
      <3>2. QED
        BY <2>13, <3>1, LoginKept
        DEF End, Forget, Goto, TypeOK, storeVars, Carries
    <2>14. QED
      BY <1>3, <2>1, <2>2, <2>3, <2>4, <2>5, <2>6, <2>7, <2>8, <2>9, <2>10,
         <2>11, <2>12, <2>13 DEF Step
  <1>4. QED
    BY <1>1, <1>2, <1>3 DEF Next

\* Whatever the processes interleave, and whatever the cloud does with refresh
\* tokens, only a process that dies or loses the cloud's answer between the
\* exchange and the flush loses the remote login.
THEOREM LoginSurvives == Spec => LoginLostOnlyByFault
  <1>1. IInv /\ [Next]_vars
           => [writable /\ LoginReachable => LoginReachable' \/ Fault]_vars
    BY LoginStep
  <1>2. QED
    BY <1>1, InvariantHolds, PTL DEF Spec, LoginLostOnlyByFault, Fault

-----------------------------------------------------------------------------
(* The tokens and the clock *)

\* What the cloud has issued so far.
Issued == 1..issued

\* An access token of the cloud with an expiry that overstates its life by at most
\* the delay of an answer, or neither of the two.
Sound(m) ==
    \/ m.at = NoTok /\ m.exp = NoExp
    \/ /\ m.at \in Issued
       /\ m.exp \in Nat
       /\ m.exp <= issuedAt[m.at] + Life + MaxDelay

IssuesPast == \A t \in Issued : issuedAt[t] <= now

PairsSound == Sound(file) /\ \A p \in Procs : Sound(mem[p])

\* An answer is at most MaxDelay old until the re-read after the update.
AnswersRecent ==
    \A p \in Procs : pc[p] = "answered" =>
        reply[p].at \in Issued /\ now <= issuedAt[reply[p].at] + MaxDelay

UpdatesRecent ==
    \A p \in Procs : pc[p] \in {"update", "truncated", "reread"} =>
        /\ mem[p].at \in Issued
        /\ now <= issuedAt[mem[p].at] + MaxDelay
        /\ issuedAt[mem[p].at] + DefaultLife <= mem[p].exp

\* A process re-reads what it has written, or what another has put there since.
FileKeepsUp ==
    \A p \in Procs : pc[p] = "reread" /\ writable /\ file.at # NoTok =>
        issuedAt[mem[p].at] <= issuedAt[file.at] + MaxDelay

Clocked == IssuesPast /\ PairsSound /\ AnswersRecent /\ UpdatesRecent /\ FileKeepsUp

\* Under rotation a process that re-reads is alone, and the others can neither
\* refresh with what they hold nor with what they find in the file.
OneAtATime ==
    policy = "rotate" =>
        \A p \in Procs : pc[p] = "reread" =>
            /\ writable => file = mem[p]
            /\ ~writable => /\ file.rt # live
                            /\ \A q \in Procs \ {p} : mem[q].rt # live
            /\ \A q \in Procs \ {p} :
                  ~Updating(q) /\ (pc[q] = "refresh" => mem[q].rt # live)

\* The file is empty only in the hands of a process that may write it.
TruncatedByWriter == \A p \in Procs : pc[p] = "truncated" => writable

TimedInv == IInv /\ Clocked /\ OneAtATime /\ TruncatedByWriter

\* The numbers the clock is compared with.
LEMMA ClockNumbers ==
    ASSUME TypeOK
    PROVE  /\ now \in Nat /\ issued \in Nat /\ issued > 0
           /\ Life \in Nat /\ DefaultLife \in Nat /\ MaxDelay \in Nat
           /\ Issued \subseteq Issue
           /\ \A t \in Issued : issuedAt[t] \in Nat
           /\ NoTok \notin Issued
<1>1. issued \in Nat /\ issued > 0 /\ issued <= MaxIssued /\ MaxIssued \in Nat
  BY StoreAssumption DEF TypeOK, StoreTypeOK, Issue
<1>2. Issued \subseteq Issue /\ NoTok \notin Issued
  BY <1>1 DEF Issued, Issue, NoTok
<1>3. QED
  BY <1>1, <1>2, StoreAssumption DEF TypeOK, StoreTypeOK

\* Reading the file line by line still yields a token with its own expiry.
LEMMA ParsedSound ==
    ASSUME NEW old \in Triple, NEW f \in Triple, Sound(old), Sound(f), TypeOK
    PROVE  /\ Sound(Parsed(old, f))
           /\ f.at = NoTok => Parsed(old, f).at = old.at
           /\ f.at # NoTok => /\ Parsed(old, f).at = f.at
                              /\ Parsed(old, f).exp = f.exp
<1>1. NoTok \notin Issued /\ NoExp \notin Nat
  BY ClockNumbers DEF NoExp
<1>2. CASE f.at = NoTok
  <2>1. f.exp = NoExp
    BY <1>1, <1>2 DEF Sound
  <2>2. Parsed(old, f).at = old.at /\ Parsed(old, f).exp = old.exp
    BY <1>2, <2>1 DEF Parsed
  <2>3. QED
    BY <1>2, <2>2 DEF Sound
<1>3. CASE f.at # NoTok
  <2>1. f.exp # NoExp
    BY <1>1, <1>3 DEF Sound
  <2>2. Parsed(old, f).at = f.at /\ Parsed(old, f).exp = f.exp
    BY <1>3, <2>1 DEF Parsed
  <2>3. QED
    BY <1>3, <2>2 DEF Sound
<1>4. QED
  BY <1>2, <1>3

\* A step of p that leaves the clock, the cloud, the file and the others alone, and
\* after which p is not updating, keeps the bookkeeping of the clock.
LEMMA QuietClock ==
    ASSUME NEW p \in Procs, Clocked,
           UNCHANGED <<now, issued, issuedAt, file, writable>>,
           \A q \in Procs \ {p} :
              mem'[q] = mem[q] /\ reply'[q] = reply[q] /\ pc'[q] = pc[q],
           pc'[p] \notin {"answered", "update", "truncated", "reread"},
           Sound(mem'[p])
    PROVE  Clocked'
<1>1. IssuesPast'
  BY DEF Clocked, IssuesPast, Issued
<1>2. PairsSound'
  <2>1. Sound(file)'
    BY DEF Clocked, PairsSound, Sound, Issued
  <2>2. ASSUME NEW q \in Procs
        PROVE  Sound(mem[q])'
    <3>1. CASE q = p
      BY <3>1 DEF Sound, Issued
    <3>2. CASE q # p
      BY <3>2 DEF Clocked, PairsSound, Sound, Issued
    <3>3. QED
      BY <3>1, <3>2
  <2>3. QED
    BY <2>1, <2>2 DEF PairsSound
<1>3. AnswersRecent' /\ UpdatesRecent' /\ FileKeepsUp'
  BY DEF Clocked, AnswersRecent, UpdatesRecent, FileKeepsUp, Issued
<1>4. QED
  BY <1>1, <1>2, <1>3 DEF Clocked

\* Every step of every process, and the clock, keep the bookkeeping of the clock.
LEMMA ClockStep == TypeOK /\ Clocked /\ [Next]_vars => Clocked'
  <1> SUFFICES ASSUME TypeOK, Clocked, [Next]_vars
               PROVE  Clocked'
    OBVIOUS
  <1>0. TypeOK'
    BY StepType
  <1>1. CASE UNCHANGED vars
    BY <1>1
    DEF Clocked, IssuesPast, PairsSound, AnswersRecent, UpdatesRecent, FileKeepsUp,
        Sound, Issued, vars, storeVars, tclVars
  <1>2. CASE Tick
    <2>1. /\ now' = now + 1
          /\ UNCHANGED <<issued, issuedAt, file, pc, mem, reply, writable>>
          /\ \A p \in Procs : InTime(p)
      BY <1>2 DEF Tick, cloudVars, tclVars
    <2>2. IssuesPast'
      BY <2>1, ClockNumbers DEF Clocked, IssuesPast, Issued
    <2>3. PairsSound' /\ FileKeepsUp'
      BY <2>1 DEF Clocked, PairsSound, FileKeepsUp, Sound, Issued
    <2>4. AnswersRecent'
      <3> SUFFICES ASSUME NEW p \in Procs, pc[p] = "answered"
                   PROVE  reply[p].at \in Issued /\ now' <= issuedAt[reply[p].at] + MaxDelay
        BY <2>1 DEF AnswersRecent, Issued
      <3>1. reply[p].at \in Issued
        BY DEF Clocked, AnswersRecent
      <3>2. now < issuedAt[reply[p].at] + MaxDelay
        BY <2>1 DEF InTime
      <3>3. QED
        BY <2>1, <3>1, <3>2, ClockNumbers
    <2>5. UpdatesRecent'
      <3> SUFFICES ASSUME NEW p \in Procs, pc[p] \in {"update", "truncated", "reread"}
                   PROVE  /\ mem[p].at \in Issued
                          /\ now' <= issuedAt[mem[p].at] + MaxDelay
                          /\ issuedAt[mem[p].at] + DefaultLife <= mem[p].exp
        BY <2>1 DEF UpdatesRecent, Issued
      <3>1. /\ mem[p].at \in Issued
            /\ issuedAt[mem[p].at] + DefaultLife <= mem[p].exp
        BY DEF Clocked, UpdatesRecent
      <3>2. now < issuedAt[mem[p].at] + MaxDelay
        BY <2>1 DEF InTime
      <3>3. QED
        BY <2>1, <3>1, <3>2, ClockNumbers
    <2>6. QED
      BY <2>2, <2>3, <2>4, <2>5 DEF Clocked
  <1>3. ASSUME NEW p \in Procs, Step(p)
        PROVE  Clocked'
    <2>0. /\ Sound(mem[p]) /\ Sound(file) /\ Sound(Empty)
          /\ mem[p] \in Triple /\ file \in Triple
      BY DEF Clocked, PairsSound, Sound, Empty, TypeOK, StoreTypeOK
    <2>1. CASE Load(p)
      <3>1. Sound(Parsed(mem[p], file))
        BY <2>0, ParsedSound
      <3>2. mem'[p] \in {Parsed(mem[p], file), Empty}
        BY <2>1 DEF Load, Forget, Goto, TypeOK
      <3>3. /\ UNCHANGED <<now, issued, issuedAt, file, writable>>
            /\ \A q \in Procs \ {p} :
                  mem'[q] = mem[q] /\ reply'[q] = reply[q] /\ pc'[q] = pc[q]
            /\ pc'[p] \notin {"answered", "update", "truncated", "reread"}
        BY <2>1 DEF Load, Forget, Goto, TypeOK, storeVars
      <3>4. Sound(mem'[p])
        BY <2>0, <3>1, <3>2
      <3>5. QED
        BY <3>3, <3>4, QuietClock
    <2>2. CASE Accepted(p)
      <3>1. /\ issued' = issued + 1 /\ issued < MaxIssued
            /\ issuedAt' = [issuedAt EXCEPT ![issued + 1] = now]
            /\ UNCHANGED <<now, file, mem, writable>>
            /\ pc' = [pc EXCEPT ![p] = "answered"]
        BY <2>2 DEF Accepted, Exchange, Goto
      <3>2. /\ reply'[p].at = issued + 1
            /\ \A q \in Procs \ {p} : reply'[q] = reply[q]
        BY <2>2 DEF Accepted, TypeOK
      <3>3. /\ \A t \in Issued : t \in Issued' /\ issuedAt'[t] = issuedAt[t]
            /\ \A t \in Issued' : t \in Issued \/ t = issued + 1
            /\ issued + 1 \in Issued'
            /\ issuedAt'[issued + 1] = now
        BY <3>1, ClockNumbers, StoreAssumption
        DEF Issued, Issue, TypeOK, StoreTypeOK
      <3>4. IssuesPast'
        BY <3>1, <3>3, ClockNumbers DEF Clocked, IssuesPast
      <3>5. PairsSound' /\ FileKeepsUp'
        BY <3>1, <3>3 DEF Clocked, PairsSound, FileKeepsUp, UpdatesRecent, Sound, TypeOK
      <3>6. AnswersRecent'
        <4>1. now <= now + MaxDelay
          BY ClockNumbers
        <4>2. QED
          BY <3>1, <3>2, <3>3, <4>1 DEF Clocked, AnswersRecent, TypeOK
      <3>7. UpdatesRecent'
        BY <3>1, <3>3 DEF Clocked, UpdatesRecent, TypeOK
      <3>8. QED
        BY <3>4, <3>5, <3>6, <3>7 DEF Clocked
    <2>3. CASE Refused(p)
      BY <2>0, <2>3, QuietClock DEF Refused, Forget, Goto, TypeOK, storeVars
    <2>4. CASE NoContact(p)
      BY <2>0, <2>4, QuietClock DEF NoContact, Goto, TypeOK, storeVars
    <2>5. CASE LoseAnswer(p)
      BY <2>0, <2>5, QuietClock DEF LoseAnswer, Goto, TypeOK, storeVars
    <2>6. CASE Receive(p)
      <3>1. /\ pc[p] = "answered" /\ pc' = [pc EXCEPT ![p] = "update"]
            /\ UNCHANGED <<now, issued, issuedAt, file, writable>>
            /\ \A q \in Procs \ {p} : mem'[q] = mem[q] /\ reply'[q] = reply[q]
            /\ mem'[p].at = reply[p].at
            /\ mem'[p].exp \in {now + Life, now + DefaultLife}
        BY <2>6 DEF Receive, Goto, TypeOK, storeVars
      <3>2. reply[p].at \in Issued /\ now <= issuedAt[reply[p].at] + MaxDelay
            /\ issuedAt[reply[p].at] <= now
        BY <3>1 DEF Clocked, AnswersRecent, IssuesPast
      <3>3. /\ mem'[p].exp \in Nat
            /\ mem'[p].exp <= issuedAt[mem'[p].at] + Life + MaxDelay
            /\ issuedAt[mem'[p].at] + DefaultLife <= mem'[p].exp
        BY <3>1, <3>2, ClockNumbers, TimingAssumption
      <3>4. IssuesPast'
        BY <3>1 DEF Clocked, IssuesPast, Issued
      <3>5. PairsSound'
        <4>1. ASSUME NEW q \in Procs
              PROVE  Sound(mem[q])'
          <5>1. CASE q = p
            BY <3>1, <3>2, <3>3, <5>1 DEF Sound, Issued
          <5>2. CASE q # p
            BY <3>1, <5>2 DEF Clocked, PairsSound, Sound, Issued
          <5>3. QED
            BY <5>1, <5>2
        <4>2. Sound(file)'
          BY <2>0, <3>1 DEF Sound, Issued
        <4>3. QED
          BY <4>1, <4>2 DEF PairsSound
      <3>6. AnswersRecent' /\ FileKeepsUp'
        BY <3>1 DEF Clocked, AnswersRecent, FileKeepsUp, Issued, TypeOK
      <3>7. UpdatesRecent'
        <4>1. ASSUME NEW q \in Procs \ {p}, pc'[q] \in {"update", "truncated", "reread"}
              PROVE  /\ mem'[q].at \in Issued'
                     /\ now <= issuedAt[mem'[q].at] + MaxDelay
                     /\ issuedAt[mem'[q].at] + DefaultLife <= mem'[q].exp
          BY <3>1, <4>1 DEF Clocked, UpdatesRecent, Issued, TypeOK
        <4>2. mem'[p].at \in Issued' /\ now <= issuedAt[mem'[p].at] + MaxDelay
          BY <3>1, <3>2 DEF Issued
        <4>3. QED
          BY <3>1, <3>3, <4>1, <4>2 DEF UpdatesRecent
      <3>8. QED
        BY <3>4, <3>5, <3>6, <3>7 DEF Clocked
    <2>7. CASE Truncate(p)
      <3>1. /\ pc[p] = "update" /\ pc' = [pc EXCEPT ![p] = "truncated"]
            /\ file' = Empty /\ file'.at = NoTok
            /\ UNCHANGED <<now, issued, issuedAt, mem, reply, writable>>
        BY <2>7 DEF Truncate, Goto, cloudVars, Empty
      <3>2. IssuesPast' /\ PairsSound'
        BY <2>0, <3>1 DEF Clocked, IssuesPast, PairsSound, Sound, Issued
      <3>3. AnswersRecent' /\ UpdatesRecent' /\ FileKeepsUp'
        BY <3>1
        DEF Clocked, AnswersRecent, UpdatesRecent, FileKeepsUp, Issued, TypeOK
      <3>4. QED
        BY <3>2, <3>3 DEF Clocked
    <2>8. CASE OpenFails(p)
      <3>1. /\ pc[p] = "update" /\ pc' = [pc EXCEPT ![p] = "reread"] /\ ~writable
            /\ UNCHANGED <<now, issued, issuedAt, file, mem, reply, writable>>
        BY <2>8 DEF OpenFails, Goto, storeVars
      <3>2. IssuesPast' /\ PairsSound'
        BY <3>1 DEF Clocked, IssuesPast, PairsSound, Sound, Issued
      <3>3. AnswersRecent' /\ UpdatesRecent' /\ FileKeepsUp'
        BY <3>1
        DEF Clocked, AnswersRecent, UpdatesRecent, FileKeepsUp, Issued, TypeOK
      <3>4. QED
        BY <3>2, <3>3 DEF Clocked
    <2>9. CASE Flush(p)
      <3>1. /\ pc[p] = "truncated" /\ pc' = [pc EXCEPT ![p] = "reread"]
            /\ file' = mem[p]
            /\ UNCHANGED <<now, issued, issuedAt, mem, reply, writable>>
        BY <2>9 DEF Flush, Goto, cloudVars
      <3>2. IssuesPast' /\ PairsSound'
        BY <2>0, <3>1 DEF Clocked, IssuesPast, PairsSound, Sound, Issued
      <3>3. AnswersRecent' /\ UpdatesRecent'
        BY <3>1 DEF Clocked, AnswersRecent, UpdatesRecent, Issued, TypeOK
      <3>4. FileKeepsUp'
        <4>1. mem[p].at \in Issued /\ now <= issuedAt[mem[p].at] + MaxDelay
          BY <3>1 DEF Clocked, UpdatesRecent
        <4>2. ASSUME NEW q \in Procs, pc'[q] = "reread"
              PROVE  issuedAt[mem[q].at] <= now /\ mem[q].at \in Issued
          BY <3>1, <4>1, <4>2 DEF Clocked, UpdatesRecent, IssuesPast, TypeOK
        <4>3. ASSUME NEW q \in Procs, pc'[q] = "reread"
              PROVE  issuedAt[mem[q].at] <= issuedAt[mem[p].at] + MaxDelay
          BY <4>1, <4>2, <4>3, ClockNumbers
        <4>4. QED
          BY <3>1, <4>3 DEF FileKeepsUp
      <3>5. QED
        BY <3>2, <3>3, <3>4 DEF Clocked
    <2>10. CASE Reread(p)
      <3>1. Sound(Parsed(mem[p], file))
        BY <2>0, ParsedSound
      <3>2. QED
        BY <2>10, <3>1, QuietClock DEF Reread, Goto, TypeOK, storeVars
    <2>11. CASE Authorize(p)
      BY <2>0, <2>11, QuietClock DEF Authorize, Forget, Goto, TypeOK, storeVars
    <2>12. CASE Call(p)
      BY <2>0, <2>12, QuietClock DEF Call, Goto, TypeOK, storeVars
    <2>13. CASE End(p)
      BY <2>0, <2>13, QuietClock DEF End, Forget, Goto, TypeOK, storeVars
    <2>14. QED
      BY <1>3, <2>1, <2>2, <2>3, <2>4, <2>5, <2>6, <2>7, <2>8, <2>9, <2>10,
         <2>11, <2>12, <2>13 DEF Step
  <1>4. QED
    BY <1>1, <1>2, <1>3 DEF Next

\* At the start no process is updating, and the login is as old as the clock.
LEMMA InitTimed == Init => TimedInv
  <1> SUFFICES ASSUME Init
               PROVE  TimedInv
    OBVIOUS
  <1>1. IInv
    BY InitInv
  <1>2. OneAtATime /\ AnswersRecent /\ UpdatesRecent /\ FileKeepsUp
        /\ TruncatedByWriter
    BY DEF Init, OneAtATime, AnswersRecent, UpdatesRecent, FileKeepsUp,
           TruncatedByWriter
  <1>3. IssuesPast /\ PairsSound
    BY StoreAssumption
    DEF Init, StoreInit, IssuesPast, PairsSound, Sound, Issued, Issue, Empty
  <1>4. QED
    BY <1>1, <1>2, <1>3 DEF TimedInv, Clocked

\* Who is updating: alone under rotation, and nobody else can refresh.
LEMMA UpdaterAlone ==
    ASSUME IInv, OneAtATime, policy = "rotate", NEW p \in Procs, Updating(p),
           NEW q \in Procs \ {p}
    PROVE  ~Updating(q) /\ (pc[q] = "refresh" => mem[q].rt # live)
<1>1. CASE pc[p] = "reread"
  BY <1>1 DEF OneAtATime
<1>2. CASE Window(p)
  <2>1. mem[q].rt # live /\ ~Window(q)
    BY <1>2 DEF IInv, RotatingLogin
  <2>2. pc[q] # "reread"
    BY DEF OneAtATime
  <2>3. QED
    BY <2>1, <2>2 DEF Updating, Window
<1>3. QED
  BY <1>1, <1>2 DEF Updating, Window

\* While a process re-reads, the file is so fresh that no other starts a refresh.
LEMMA FreshWhileRereading ==
    ASSUME TypeOK, Clocked, NEW p \in Procs, pc[p] = "reread", file = mem[p],
           NEW m \in Triple, Sound(m)
    PROVE  FreshEnough(Parsed(m, file), now)
<1>1. /\ mem[p].at \in Issued
      /\ now <= issuedAt[mem[p].at] + MaxDelay
      /\ issuedAt[mem[p].at] + DefaultLife <= mem[p].exp
  BY DEF Clocked, UpdatesRecent
<1>2. file.at # NoTok /\ Sound(file) /\ file \in Triple
  BY <1>1, ClockNumbers DEF Clocked, PairsSound, TypeOK, StoreTypeOK
<1>3. Parsed(m, file).exp = mem[p].exp
  BY <1>2, ParsedSound
<1>4. mem[p].exp \in Nat
  BY <1>2 DEF Sound
<1>5. now + TclSkew < mem[p].exp
  BY <1>1, <1>4, ClockNumbers, TimingAssumption, SkewAssumption
<1>6. QED
  BY <1>3, <1>5 DEF FreshEnough

\* A step of p that leaves the file alone, after which p neither re-reads nor has
\* come to update, and knows the accepted token only if it did before, keeps a
\* re-reading process alone.
LEMMA QuietOne ==
    ASSUME NEW p \in Procs, OneAtATime,
           UNCHANGED <<file, live, policy, writable>>,
           \A q \in Procs \ {p} : mem'[q] = mem[q] /\ pc'[q] = pc[q],
           pc'[p] # "reread",
           Updating(p)' => Updating(p),
           policy = "rotate" /\ mem'[p].rt = live =>
              \/ mem[p].rt = live
              \/ writable,
           \A q \in Procs \ {p} :
              policy = "rotate" /\ pc[q] = "reread" /\ pc'[p] = "refresh"
                 => mem'[p].rt # live
    PROVE  OneAtATime'
  BY DEF OneAtATime, Updating

\* Every step of every process, and the clock, keep a re-reading process alone.
LEMMA OneStep == TimedInv /\ [Next]_vars => OneAtATime'
  <1> SUFFICES ASSUME TimedInv, [Next]_vars
               PROVE  OneAtATime'
    OBVIOUS
  <1>0. TypeOK /\ IInv /\ Clocked /\ OneAtATime /\ TruncatedByWriter
    BY DEF TimedInv, IInv
  <1> USE <1>0
  <1>1. CASE UNCHANGED vars
    BY <1>1 DEF OneAtATime, Updating, vars, storeVars, tclVars
  <1>2. CASE Tick
    BY <1>2 DEF Tick, OneAtATime, Updating, cloudVars, tclVars
  <1>3. ASSUME NEW p \in Procs, Step(p)
        PROVE  OneAtATime'
    <2>0. live # NoTok
      BY DEF TypeOK, StoreTypeOK, Issue, NoTok
    <2>1. CASE Load(p)
      <3> DEFINE m == Parsed(mem[p], file)
      <3>1. m.rt \in {mem[p].rt, file.rt}
        BY ParsedType DEF TypeOK, StoreTypeOK
      <3>2. /\ UNCHANGED <<file, live, policy, writable>>
            /\ \A q \in Procs \ {p} : mem'[q] = mem[q] /\ pc'[q] = pc[q]
            /\ pc'[p] \in {"auth", "refresh", "idle"}
            /\ mem'[p].rt \in {m.rt, NoTok}
            /\ pc'[p] = "refresh" => ~FreshEnough(m, now)
            /\ pc[p] = "idle"
        BY <2>1 DEF Load, Forget, Goto, TypeOK, storeVars, cloudVars, Empty
      <3>3. ASSUME NEW q \in Procs \ {p}, policy = "rotate", pc[q] = "reread",
                   pc'[p] = "refresh"
            PROVE  mem'[p].rt # live
        <4>1. CASE writable
          <5>1. file = mem[q]
            BY <3>3, <4>1 DEF OneAtATime
          <5>2. Sound(mem[p]) /\ mem[p] \in Triple
            BY DEF Clocked, PairsSound, TypeOK
          <5>3. FreshEnough(m, now)
            BY <3>3, <5>1, <5>2, FreshWhileRereading
          <5>4. QED
            BY <3>2, <3>3, <5>3
        <4>2. CASE ~writable
          BY <2>0, <3>1, <3>2, <3>3, <4>2 DEF OneAtATime
        <4>3. QED
          BY <4>1, <4>2
      <3>4. ASSUME NEW q \in Procs \ {p}, policy = "rotate", pc[q] = "reread", ~writable
            PROVE  mem'[p].rt # live
        BY <2>0, <3>1, <3>2, <3>4 DEF OneAtATime
      <3> HIDE DEF m
      <3>5. QED
        BY <3>2, <3>3, <3>4 DEF OneAtATime, Updating
    <2>2. CASE Accepted(p)
      <3>1. /\ pc[p] = "refresh" /\ mem[p].rt = live
            /\ pc' = [pc EXCEPT ![p] = "answered"]
            /\ UNCHANGED <<policy>>
        BY <2>2 DEF Accepted, Exchange, Goto
      <3>2. ASSUME policy = "rotate", NEW q \in Procs
            PROVE  pc[q] # "reread"
        BY <3>1, <3>2 DEF OneAtATime
      <3>3. QED
        BY <3>1, <3>2 DEF OneAtATime, TypeOK
    <2>3. CASE Refused(p)
      BY <2>0, <2>3, QuietOne
      DEF Refused, Forget, Goto, TypeOK, storeVars, cloudVars, Updating, Empty
    <2>4. CASE NoContact(p)
      BY <2>4, QuietOne
      DEF NoContact, Goto, TypeOK, storeVars, cloudVars, Updating
    <2>5. CASE LoseAnswer(p)
      BY <2>5, QuietOne
      DEF LoseAnswer, Goto, TypeOK, storeVars, cloudVars, Updating
    <2>6. CASE Receive(p)
      <3>1. /\ pc[p] = "answered" /\ pc' = [pc EXCEPT ![p] = "update"]
            /\ UNCHANGED policy
        BY <2>6 DEF Receive, Goto, storeVars, cloudVars
      <3>2. Updating(p)
        BY <3>1 DEF Updating
      <3>3. ASSUME policy = "rotate", NEW q \in Procs
            PROVE  pc'[q] # "reread"
        BY <3>1, <3>2, <3>3 DEF OneAtATime, TypeOK
      <3>4. QED
        BY <3>1, <3>3 DEF OneAtATime
    <2>7. CASE Truncate(p)
      <3>1. /\ pc[p] = "update" /\ pc' = [pc EXCEPT ![p] = "truncated"]
            /\ UNCHANGED policy
        BY <2>7 DEF Truncate, Goto, storeVars, cloudVars
      <3>2. Updating(p)
        BY <3>1 DEF Updating
      <3>3. ASSUME policy = "rotate", NEW q \in Procs
            PROVE  pc'[q] # "reread"
        BY <3>1, <3>2, <3>3 DEF OneAtATime, TypeOK
      <3>4. QED
        BY <3>1, <3>3 DEF OneAtATime
    <2>8. CASE OpenFails(p)
      <3>1. /\ pc[p] = "update" /\ pc' = [pc EXCEPT ![p] = "reread"] /\ ~writable
            /\ UNCHANGED <<policy, live, file, mem, writable>>
        BY <2>8 DEF OpenFails, Goto, storeVars, cloudVars
      <3>2. SUFFICES ASSUME policy = "rotate"
                     PROVE  OneAtATime'
        BY <3>1 DEF OneAtATime
      <3>3. Updating(p) /\ Window(p)
        BY <3>1 DEF Updating, Window
      <3>4. /\ file.rt # live
            /\ \A q \in Procs \ {p} : mem[q].rt # live /\ ~Updating(q)
        BY <3>2, <3>3, UpdaterAlone DEF IInv, RotatingLogin
      <3>5. QED
        BY <3>1, <3>4 DEF OneAtATime, Updating, TypeOK
    <2>9. CASE Flush(p)
      <3>1. /\ pc[p] = "truncated" /\ pc' = [pc EXCEPT ![p] = "reread"]
            /\ file' = mem[p]
            /\ UNCHANGED <<policy, live, mem, writable>>
        BY <2>9 DEF Flush, Goto, cloudVars
      <3>2. SUFFICES ASSUME policy = "rotate"
                     PROVE  OneAtATime'
        BY <3>1 DEF OneAtATime
      <3>3. Updating(p) /\ Window(p)
        BY <3>1 DEF Updating, Window
      <3>4. \A q \in Procs \ {p} :
               ~Updating(q) /\ (pc[q] = "refresh" => mem[q].rt # live)
        BY <3>2, <3>3, UpdaterAlone
      <3>5. \A q \in Procs \ {p} : mem[q].rt # live
        BY <3>2, <3>3 DEF IInv, RotatingLogin
      <3>6. pc'[p] = "reread" /\ \A q \in Procs \ {p} : pc'[q] = pc[q]
        BY <3>1 DEF TypeOK
      <3>7. \A q \in Procs \ {p} : ~Updating(q)' /\ pc'[q] # "reread"
        BY <3>4, <3>6 DEF Updating
      <3>8. ~writable => FALSE
        BY <3>1 DEF TruncatedByWriter
      <3>9. QED
        BY <3>1, <3>4, <3>6, <3>7, <3>8 DEF OneAtATime
    <2>10. CASE Reread(p)
      <3>1. /\ pc[p] = "reread" /\ pc' = [pc EXCEPT ![p] = "auth"]
            /\ UNCHANGED policy
        BY <2>10 DEF Reread, Goto, storeVars, cloudVars
      <3>2. ASSUME policy = "rotate", NEW q \in Procs
            PROVE  pc'[q] # "reread"
        BY <3>1, <3>2 DEF OneAtATime, Updating, TypeOK
      <3>3. QED
        BY <3>1, <3>2 DEF OneAtATime
    <2>11. CASE Authorize(p)
      BY <2>0, <2>11, QuietOne
      DEF Authorize, Forget, Goto, TypeOK, storeVars, cloudVars, Updating, Empty
    <2>12. CASE Call(p)
      BY <2>12, QuietOne
      DEF Call, Goto, TypeOK, storeVars, cloudVars, Updating
    <2>13. CASE End(p)
      BY <2>0, <2>13, QuietOne
      DEF End, Forget, Goto, TypeOK, storeVars, cloudVars, Updating, Empty
    <2>14. QED
      BY <1>3, <2>1, <2>2, <2>3, <2>4, <2>5, <2>6, <2>7, <2>8, <2>9, <2>10,
         <2>11, <2>12, <2>13 DEF Step
  <1>4. QED
    BY <1>1, <1>2, <1>3 DEF Next

\* No step opens the file for a process that may not write it.
LEMMA WriterStep == TypeOK /\ TruncatedByWriter /\ [Next]_vars => TruncatedByWriter'
  <1> SUFFICES ASSUME TypeOK, TruncatedByWriter, [Next]_vars
               PROVE  TruncatedByWriter'
    OBVIOUS
  <1> USE DEF TruncatedByWriter
  <1>1. CASE UNCHANGED vars
    BY <1>1 DEF vars, tclVars
  <1>2. CASE Tick
    BY <1>2 DEF Tick, tclVars
  <1>3. ASSUME NEW p \in Procs, Step(p)
        PROVE  TruncatedByWriter'
    <2>1. CASE Truncate(p)
      BY <2>1 DEF Truncate, Goto, TypeOK
    <2>2. CASE ~Truncate(p)
      <3>1. /\ writable' = writable
            /\ \E l : pc' = [pc EXCEPT ![p] = l] /\ l # "truncated"
        BY <1>3, <2>2
        DEF Step, Load, Accepted, Refused, NoContact, LoseAnswer, Receive,
            OpenFails, Flush, Reread, Authorize, Call, End, Forget, Goto
      <3>2. QED
        BY <3>1 DEF TypeOK
    <2>3. QED
      BY <2>1, <2>2
  <1>4. QED
    BY <1>1, <1>2, <1>3 DEF Next

\* Every step keeps the timed invariant.
LEMMA TimedStep == TimedInv /\ [Next]_vars => TimedInv'
  BY StepInv, ClockStep, OneStep, WriterStep DEF TimedInv, IInv

\* Whatever the processes interleave, what is written down about the clock is
\* true: no token is older than its issue says, every pair of a token and an
\* expiry belongs together, and under rotation a re-reading process is alone.
THEOREM TimedHolds == Spec => []TimedInv
  BY InitTimed, TimedStep, PTL DEF Spec

\* Under rotation two processes are never between an accepted exchange and the
\* re-read after the update at once, although hue_remote_env has no lock.
THEOREM UpdatersExclude == Spec => []OneUpdater
  <1>1. TimedInv => OneUpdater
    BY UpdaterAlone DEF TimedInv, OneUpdater
  <1>2. QED
    BY <1>1, TimedHolds, PTL

\* The expiry a client remembers or finds in the file is that of the token beside
\* it, overstated by at most the delay of the answer.
THEOREM ExpiryRight == Spec => []ExpiryBelongsToToken
  <1>1. TimedInv => ExpiryBelongsToToken
    <2> SUFFICES ASSUME TimedInv,
                        NEW m \in {file} \cup {mem[p] : p \in Procs},
                        m.exp # NoExp
                 PROVE  m.at \in Issue /\ m.exp <= issuedAt[m.at] + Life + MaxDelay
      BY DEF ExpiryBelongsToToken
    <2>1. Sound(m)
      BY DEF TimedInv, Clocked, PairsSound
    <2>2. QED
      BY <2>1, ClockNumbers DEF Sound, TimedInv, IInv
  <1>2. QED
    BY <1>1, TimedHolds, PTL

-----------------------------------------------------------------------------
(* The calls *)

\* What AuthorisedIsHonoured asks of a step.
CallsHonoured ==
    \A p \in Procs :
        pc[p] # "auth" /\ pc'[p] = "auth" =>
           \/ Honoured(mem'[p].at, now) \/ mem'[p].at = NoTok
           \/ NoContact(p) \/ LoseAnswer(p) \/ ~writable

\* A token that passes the test of ensureFreshAccessToken is honoured, because the
\* skew is at least the delay by which its expiry may be overstated.
LEMMA FreshIsHonoured ==
    ASSUME TypeOK, NEW m, Sound(m), FreshEnough(m, now)
    PROVE  Honoured(m.at, now) \/ m.at = NoTok
<1>1. CASE m.exp = NoExp
  BY <1>1 DEF Sound, NoExp
<1>2. CASE m.exp # NoExp
  <2>1. /\ m.at \in Issued /\ m.exp \in Nat
        /\ m.exp <= issuedAt[m.at] + Life + MaxDelay
        /\ now + TclSkew < m.exp
    BY <1>2 DEF Sound, FreshEnough
  <2>2. now < issuedAt[m.at] + Life
    BY <2>1, ClockNumbers, TimingAssumption, SkewAssumption
  <2>3. QED
    BY <2>1, <2>2, ClockNumbers DEF Honoured
<1>3. QED
  BY <1>1, <1>2

\* What a process that has updated reads back is honoured, even where another has
\* updated in between.
LEMMA RereadIsHonoured ==
    ASSUME TypeOK, Clocked, NEW p \in Procs, pc[p] = "reread", writable
    PROVE  Honoured(Parsed(mem[p], file).at, now)
<1>1. /\ mem[p].at \in Issued
      /\ now <= issuedAt[mem[p].at] + MaxDelay
  BY DEF Clocked, UpdatesRecent
<1>2. /\ Sound(mem[p]) /\ Sound(file) /\ mem[p] \in Triple /\ file \in Triple
  BY DEF Clocked, PairsSound, TypeOK, StoreTypeOK
<1>3. TclSkew \in Nat /\ MaxDelay + MaxDelay < Life
  BY ClockNumbers, TimingAssumption, SkewAssumption
<1>4. CASE file.at = NoTok
  <2>1. Parsed(mem[p], file).at = mem[p].at
    BY <1>2, <1>4, ParsedSound
  <2>2. now < issuedAt[mem[p].at] + Life
    BY <1>1, <1>3, ClockNumbers
  <2>3. QED
    BY <1>1, <2>1, <2>2, ClockNumbers DEF Honoured
<1>5. CASE file.at # NoTok
  <2>1. Parsed(mem[p], file).at = file.at
    BY <1>2, <1>5, ParsedSound
  <2>2. file.at \in Issued
    BY <1>2, <1>5 DEF Sound
  <2>3. issuedAt[mem[p].at] <= issuedAt[file.at] + MaxDelay
    BY <1>5 DEF Clocked, FileKeepsUp
  <2>4. now < issuedAt[file.at] + Life
    BY <1>1, <1>3, <2>2, <2>3, ClockNumbers
  <2>5. QED
    BY <2>1, <2>2, <2>4, ClockNumbers DEF Honoured
<1>6. QED
  BY <1>4, <1>5

\* A step brings a process to its API call with a token the cloud honours.
LEMMA HonouredStep == TypeOK /\ Clocked /\ [Next]_vars => CallsHonoured
  <1> SUFFICES ASSUME TypeOK, Clocked, [Next]_vars, NEW p \in Procs,
                      pc[p] # "auth", pc'[p] = "auth", writable,
                      ~NoContact(p), ~LoseAnswer(p)
               PROVE  Honoured(mem'[p].at, now) \/ mem'[p].at = NoTok
    BY DEF CallsHonoured
  <1>1. PICK q \in Procs : Step(q)
    BY DEF Next, Tick, vars, tclVars
  <1>2. q = p /\ (Load(p) \/ Reread(p))
    BY <1>1
    DEF Step, Load, Accepted, Refused, NoContact, LoseAnswer, Receive, Truncate,
        OpenFails, Flush, Reread, Authorize, Call, End, Forget, Goto, TypeOK
  <1>3. CASE Load(p)
    <2>1. mem'[p] = Parsed(mem[p], file) /\ FreshEnough(Parsed(mem[p], file), now)
      BY <1>3 DEF Load, Forget, Goto, TypeOK
    <2>2. Sound(Parsed(mem[p], file))
      BY ParsedSound DEF Clocked, PairsSound, TypeOK, StoreTypeOK
    <2>3. QED
      BY <2>1, <2>2, FreshIsHonoured
  <1>4. CASE Reread(p)
    <2>1. mem'[p] = Parsed(mem[p], file) /\ pc[p] = "reread"
      BY <1>4 DEF Reread, TypeOK
    <2>2. QED
      BY <2>1, RereadIsHonoured
  <1>5. QED
    BY <1>2, <1>3, <1>4

\* A call is authorised with an access token the cloud honours, unless this
\* process's own curl has failed or the file cannot be written.
THEOREM CallsAreHonoured == Spec => AuthorisedIsHonoured
  <1>1. TimedInv /\ [Next]_vars => [CallsHonoured]_vars
    BY HonouredStep DEF TimedInv, IInv
  <1>2. QED
    BY <1>1, TimedHolds, PTL DEF Spec, AuthorisedIsHonoured, CallsHonoured

-----------------------------------------------------------------------------
(* Tcl clients and remote.sh over one file *)

LEMMA ShellTypes ==
    /\ NoEnv \in ShEnv
    /\ Denied \in ShEnv /\ Unreachable \in ShEnv /\ Silent \in ShEnv
    /\ TypeOK /\ issued + 1 \in Issue => Granted \in ShEnv
<1>1. NoEnv \in ShEnv
  BY DEF NoEnv, ShEnv, Token, NoTok
<1>2. Denied \in ShEnv /\ Unreachable \in ShEnv /\ Silent \in ShEnv
  BY DEF Denied, Unreachable, Silent, ShEnv, Token, NoTok, Junk, Text
<1>3. ASSUME TypeOK, issued + 1 \in Issue
      PROVE  Granted \in ShEnv
  <2>1. Answered(live) \in Token
    BY <1>3 DEF Answered, Token, TypeOK, StoreTypeOK
  <2> QED
    BY <1>3, <2>1 DEF Granted, ShEnv, Token
<1> QED
  BY <1>1, <1>2, <1>3

\* Every step of remote.sh keeps the declared types.
LEMMA ShStepType ==
    ASSUME TypeOK, ShTypeOK, NEW s \in Shells, ShStep(s), UNCHANGED tclVars
    PROVE  TypeOK' /\ ShTypeOK'
<1> USE ShellTypes, EmptyType DEF ShTypeOK, ShGoto
<1>0. file \in Triple /\ env[s] \in ShEnv /\ now \in Nat
  BY DEF TypeOK, StoreTypeOK
<1>1. ASSUME ShExit(s)
      PROVE  ShTypeOK'
  BY <1>1 DEF ShExit, Commands
<1>2. ASSUME UNCHANGED storeVars
      PROVE  TypeOK'
  BY <1>2 DEF storeVars, tclVars, TypeOK, StoreTypeOK
<1>3. ASSUME UNCHANGED <<now, cloudVars>>, file' \in Triple
      PROVE  TypeOK'
  BY <1>3 DEF cloudVars, tclVars, TypeOK, StoreTypeOK
<1>4. CASE Start(s)
  <2>1. [at |-> file.at, rt |-> file.rt, in |-> 0] \in ShEnv
    BY <1>0 DEF Triple, ShEnv
  <2>2. ShTypeOK'
    BY <1>4, <2>1 DEF Start
  <2> QED
    BY <1>2, <1>4, <2>2 DEF Start
<1>5. CASE ShAccepted(s)
  <2>1. issued + 1 \in Issue
    BY <1>5, StoreAssumption DEF ShAccepted, Exchange, TypeOK, StoreTypeOK, Issue
  <2>2. StoreTypeOK'
    BY <1>0, <1>5, <2>1 DEF ShAccepted, Exchange, TypeOK, StoreTypeOK
  <2>3. TypeOK'
    BY <2>2 DEF TypeOK, tclVars
  <2>4. ShTypeOK'
    BY <1>5, <2>1 DEF ShAccepted
  <2> QED
    BY <2>3, <2>4
<1>6. CASE ShRefused(s) \/ ShNoReply(s) \/ ShReceive(s)
  <2>1. ShTypeOK'
    BY <1>6 DEF ShRefused, ShNoReply, ShReceive
  <2> QED
    BY <1>2, <1>6, <2>1 DEF ShRefused, ShNoReply, ShReceive
<1>7. CASE ShWrite1(s) \/ ShWrite2(s)
  <2>1. file' \in Triple
    BY <1>0, <1>7 DEF ShWrite1, ShWrite2, Triple, ShEnv
  <2>2. ShTypeOK'
    BY <1>7 DEF ShWrite1, ShWrite2
  <2> QED
    BY <1>3, <1>7, <2>1, <2>2 DEF ShWrite1, ShWrite2
<1>8. CASE ShWrite3(s)
  <2>1. file' \in Triple
    <3>1. env[s].in # Text => now + env[s].in \in Nat
      BY <1>0, StoreAssumption DEF ShEnv, Text
    <3> QED
      BY <1>0, <1>8, <3>1 DEF ShWrite3, Triple
  <2>2. ShTypeOK'
    BY <1>1, <1>8 DEF ShWrite3
  <2> QED
    BY <1>3, <1>8, <2>1, <2>2 DEF ShWrite3
<1>9. CASE ShEnd(s)
  BY <1>1, <1>2, <1>9 DEF ShEnd
<1> QED
  BY <1>4, <1>5, <1>6, <1>7, <1>8, <1>9 DEF ShStep

LEMMA FleetTypeStep == FleetTypeOK /\ [FleetNext]_fleetVars => FleetTypeOK'
<1> SUFFICES ASSUME FleetTypeOK, [FleetNext]_fleetVars
             PROVE  FleetTypeOK'
  OBVIOUS
<1> USE DEF FleetTypeOK
<1>1. ASSUME [Next]_vars, UNCHANGED shVars
      PROVE  FleetTypeOK'
  BY <1>1, StepType DEF ShTypeOK, shVars
<1>2. CASE UNCHANGED fleetVars
  BY <1>1, <1>2 DEF fleetVars
<1>3. CASE FleetTick \/ \E p \in Procs : Step(p) /\ UNCHANGED shVars
  BY <1>1, <1>3 DEF FleetTick, Next
<1>4. ASSUME NEW s \in Shells, ShStep(s), UNCHANGED tclVars
      PROVE  FleetTypeOK'
  BY <1>4, ShStepType
<1> QED
  BY <1>2, <1>3, <1>4 DEF FleetNext

\* hue_remote_env, the cloud, the Tcl clients and the shells hold values of the
\* declared types, although remote.sh writes whatever it cuts out of a reply.
THEOREM FleetTypeCorrect == FleetSpec => []FleetTypeOK
<1>1. FleetInit => FleetTypeOK
  BY InitType, ShellTypes DEF FleetInit, FleetTypeOK, ShInit, ShTypeOK, Commands
<1> QED
  BY <1>1, FleetTypeStep, PTL DEF FleetSpec

\* No two runs of remote.sh at the same time; and the cloud names a refresh token in
\* every answer, for remote.sh cuts it out at a fixed place.
OneShell  == \A r, s \in Shells : r = s
AlwaysNamed == "omit" \notin Policies

ShWindow(s) == shpc[s] \in {"answered", "write1", "write2", "write3"}

\* What remote.sh knows of the cloud and the file on its way.
ShellFits(s) ==
    /\ env[s].rt <= issued
    /\ shpc[s] = "request" /\ cmd[s] # "gettoken" => env[s].rt = file.rt
    /\ ShWindow(s) /\ env[s].at \in Issue => env[s].rt = live
    /\ ShWindow(s) /\ env[s].at = NoTok => env[s].in = 0
    /\ shpc[s] = "answered" => env[s].at \in Issue
    /\ shpc[s] = "write1" /\ env[s].at \notin Issue
          => env[s].in = Text \/ cmd[s] = "gettoken" \/ file.rt # live
    /\ shpc[s] = "write2" => file = [Empty EXCEPT !.at = env[s].at]
    /\ shpc[s] = "write3" => file = [at |-> env[s].at, rt |-> env[s].rt, exp |-> NoExp]

ShellsFit == \A s \in Shells : ShellFits(s)

TurnsTaken == TclQuiet \/ ShQuiet

FleetInv == FleetTypeOK /\ IInv /\ TurnsTaken /\ ShellsFit

LEMMA ShellNumbers ==
    ASSUME FleetTypeOK, NEW s \in Shells
    PROVE  /\ env[s] \in ShEnv /\ env[s].rt \in Int /\ file.rt \in Int /\ file \in Triple
           /\ live \in Int /\ issued \in Int /\ live > 0 /\ issued > 0
           /\ NoTok = 0 /\ Junk = -1
<1>1. Token \subseteq Int
  BY DEF Token, Issue, NoTok, Junk
<1>2. env[s] \in ShEnv /\ file \in Triple
  BY DEF FleetTypeOK, TypeOK, StoreTypeOK, ShTypeOK
<1>3. env[s].rt \in Token /\ file.rt \in Token
  BY <1>2 DEF ShEnv, Triple
<1>4. live \in Int /\ issued \in Int /\ live > 0 /\ issued > 0
  BY StoreAssumption DEF FleetTypeOK, TypeOK, StoreTypeOK, Issue
<1> QED
  BY <1>1, <1>2, <1>3, <1>4 DEF NoTok, Junk

\* What a step of remote.sh does to the cloud and the file.
LEMMA ShellEffect ==
    ASSUME FleetInv, NEW s \in Shells, ShStep(s)
    PROVE  /\ policy' = policy /\ issued \in Int /\ issued' \in Int /\ issued <= issued'
           /\ policy = "rotate" => live' = issued'
           /\ policy # "rotate" => live' = live
           /\ live' <= issued'
           /\ file'.rt \in {NoTok, env[s].rt, file.rt}
<1> USE DEF FleetInv
<1>0. /\ live \in Int /\ issued \in Int /\ live <= issued
      /\ policy = "rotate" => live = issued
  BY ShellNumbers DEF IInv, NothingFromTheFuture, RotatingLogin
<1>1. CASE ShAccepted(s)
  BY <1>0, <1>1 DEF ShAccepted, Exchange
<1>2. CASE UNCHANGED storeVars
  BY <1>0, <1>2 DEF storeVars
<1>3. CASE ShWrite1(s) \/ ShWrite2(s) \/ ShWrite3(s)
  <2>1. UNCHANGED cloudVars
    BY <1>3 DEF ShWrite1, ShWrite2, ShWrite3
  <2>2. file'.rt \in {NoTok, env[s].rt, file.rt}
    BY <1>3, ShellNumbers DEF ShWrite1, ShWrite2, ShWrite3, Empty, Triple
  <2> QED
    BY <1>0, <2>1, <2>2 DEF cloudVars
<1> QED
  BY <1>1, <1>2, <1>3 DEF ShStep, Start, ShRefused, ShNoReply, ShReceive, ShEnd

\* A step of remote.sh while no Tcl client is in its token code keeps what the
\* clients rely on.
LEMMA ShellKeepsInv ==
    ASSUME FleetInv, TclQuiet, NEW s \in Shells, ShStep(s), UNCHANGED tclVars
    PROVE  IInv'
<1> USE DEF FleetInv
<1>0. TypeOK'
  BY ShStepType DEF FleetTypeOK
<1>1. /\ env[s].rt <= issued /\ env[s].rt \in Int /\ file.rt \in Int /\ issued > 0
      /\ NoTok = 0 /\ live \in Int
  BY ShellNumbers DEF ShellsFit, ShellFits
<1>2. /\ issued \in Int /\ issued' \in Int /\ issued <= issued' /\ live' <= issued'
      /\ file'.rt \in {NoTok, env[s].rt, file.rt}
      /\ policy = "rotate" => live' = issued'
      /\ policy # "rotate" => live' = live
      /\ policy' = policy
  BY ShellEffect
<1>3. NothingFromTheFuture'
  <2>1. \A q \in Procs : /\ mem[q].rt <= issued /\ reply[q].rt <= issued
                         /\ mem[q].rt \in Int /\ reply[q].rt \in Int
    BY TokensAreNumbers DEF IInv, NothingFromTheFuture
  <2>2. \A q \in Procs : mem'[q].rt <= issued' /\ reply'[q].rt <= issued'
    BY <1>2, <2>1 DEF tclVars
  <2>3. file'.rt <= issued'
    BY <1>1, <1>2 DEF IInv, NothingFromTheFuture
  <2> QED
    BY <1>2, <2>2, <2>3 DEF NothingFromTheFuture
<1>4. \A q \in Procs : ~Window(q)'
  BY DEF TclQuiet, Window, tclVars
<1>5. RotatingLogin'
  BY <1>2, <1>4 DEF RotatingLogin
<1>6. StandingLogin'
  BY <1>2, <1>4 DEF IInv, StandingLogin, tclVars
<1> QED
  BY <1>0, <1>3, <1>5, <1>6 DEF IInv

\* What remote.sh itself knows after its step.
LEMMA ShellKeepsFit ==
    ASSUME AlwaysNamed, FleetInv, NEW s \in Shells, ShStep(s)
    PROVE  ShellFits(s)'
<1> USE DEF FleetInv
<1> DEFINE e == env[s]
<1>0. /\ e \in ShEnv /\ e.rt \in Int /\ file \in Triple /\ file.rt \in Int
      /\ live \in Int /\ issued \in Int /\ live > 0 /\ issued > 0 /\ live <= issued
      /\ file.rt <= issued /\ NoTok = 0 /\ Junk = -1 /\ NoTok \notin Issue /\ Junk \notin Issue
  BY ShellNumbers DEF IInv, NothingFromTheFuture, Issue
<1>1. env \in [Shells -> ShEnv] /\ DOMAIN shpc = Shells /\ DOMAIN cmd = Shells
  BY DEF FleetTypeOK, ShTypeOK
<1>2. ShellFits(s)
  BY DEF ShellsFit
<1>3. ASSUME ShExit(s), issued' = issued
      PROVE  ShellFits(s)'
  BY <1>0, <1>1, <1>3 DEF ShExit, ShGoto, NoEnv, ShellFits, ShWindow
<1>4. CASE Start(s)
  <2>1. issued' = issued /\ file' = file /\ env'[s].rt \in {e.rt, file.rt}
        /\ shpc'[s] \in {"request", "printed"}
        /\ (shpc'[s] = "request" /\ cmd'[s] # "gettoken" => env'[s].rt = file.rt)
    BY <1>1, <1>4 DEF Start, ShGoto, storeVars
  <2> QED
    BY <1>0, <1>2, <2>1 DEF ShellFits, ShWindow
<1>5. CASE ShAccepted(s)
  <2>1. env'[s] = Granted /\ shpc'[s] = "answered" /\ issued' = issued + 1
        /\ live' = IF policy = "rotate" THEN issued + 1 ELSE live
    BY <1>1, <1>5 DEF ShAccepted, Exchange, ShGoto
  <2>2. policy \in {"rotate", "repeat"}
    BY StoreAssumption DEF AlwaysNamed, FleetTypeOK, TypeOK, StoreTypeOK
  <2>3. /\ env'[s].at = issued + 1 /\ env'[s].rt = live' /\ env'[s].rt <= issued'
        /\ env'[s].at \in Issue
    BY <1>0, <1>5, <2>1, <2>2, StoreAssumption DEF Granted, Answered, ShAccepted, Exchange, Issue
  <2> QED
    BY <1>0, <2>1, <2>3 DEF ShellFits, ShWindow
<1>6. CASE ShRefused(s)
  <2>1. /\ env'[s] = Denied /\ shpc'[s] = "write1" /\ cmd' = cmd
        /\ UNCHANGED storeVars /\ shpc[s] = "request"
        /\ cmd[s] = "gettoken" \/ e.rt # live
    BY <1>1, <1>6 DEF ShRefused, ShGoto
  <2> QED
    BY <1>0, <1>2, <2>1 DEF ShellFits, ShWindow, Denied, storeVars
<1>7. CASE ShNoReply(s)
  <2>1. /\ env'[s] = IF cmd[s] = "gettoken" THEN Silent ELSE Unreachable
        /\ shpc'[s] = "write1" /\ cmd' = cmd /\ UNCHANGED storeVars
    BY <1>1, <1>7 DEF ShNoReply, ShGoto
  <2> QED
    BY <1>0, <2>1 DEF ShellFits, ShWindow, Unreachable, Silent, storeVars
<1>8. CASE ShReceive(s)
  <2>1. /\ env' = env /\ shpc[s] = "answered" /\ shpc'[s] = "write1"
        /\ UNCHANGED storeVars
    BY <1>1, <1>8 DEF ShReceive, ShGoto
  <2> QED
    BY <1>0, <1>2, <2>1 DEF ShellFits, ShWindow, storeVars
<1>9. CASE ShWrite1(s)
  <2>1. /\ env' = env /\ shpc[s] = "write1" /\ shpc'[s] = "write2"
        /\ file' = [Empty EXCEPT !.at = e.at] /\ UNCHANGED cloudVars
    BY <1>1, <1>9 DEF ShWrite1, ShGoto
  <2> QED
    BY <1>0, <1>2, <2>1 DEF ShellFits, ShWindow, cloudVars
<1>10. CASE ShWrite2(s)
  <2>1. /\ env' = env /\ shpc[s] = "write2" /\ shpc'[s] = "write3"
        /\ file' = [file EXCEPT !.rt = e.rt] /\ UNCHANGED cloudVars
    BY <1>1, <1>10 DEF ShWrite2, ShGoto
  <2>2. file' = [at |-> e.at, rt |-> e.rt, exp |-> NoExp]
    BY <1>2, <2>1 DEF ShellFits, Empty
  <2> QED
    BY <1>0, <1>2, <2>1, <2>2 DEF ShellFits, ShWindow, cloudVars
<1>11. CASE ShWrite3(s)
  <2>1. CASE ShExit(s)
    BY <1>3, <1>11, <2>1 DEF ShWrite3, cloudVars
  <2>2. CASE env' = env /\ shpc'[s] = "printed" /\ UNCHANGED cloudVars
    BY <1>0, <1>2, <2>2 DEF ShellFits, ShWindow, cloudVars
  <2> QED
    BY <1>1, <1>11, <2>1, <2>2 DEF ShWrite3, ShGoto
<1>12. CASE ShEnd(s)
  BY <1>3, <1>12 DEF ShEnd, storeVars
<1> QED
  BY <1>4, <1>5, <1>6, <1>7, <1>8, <1>9, <1>10, <1>11, <1>12 DEF ShStep

LEMMA FleetInvStep ==
    OneShell /\ AlwaysNamed /\ FleetInv /\ [FleetNext]_fleetVars => FleetInv'
<1> SUFFICES ASSUME OneShell, AlwaysNamed, FleetInv, [FleetNext]_fleetVars
             PROVE  FleetInv'
  OBVIOUS
<1>0. FleetTypeOK'
  BY FleetTypeStep DEF FleetInv
<1>1. CASE UNCHANGED fleetVars \/ FleetTick
  <2>1. [Next]_vars
    BY <1>1 DEF fleetVars, FleetTick, Next
  <2>2. IInv'
    BY <2>1, StepInv DEF FleetInv
  <2>3. UNCHANGED <<cloudVars, file, tclVars, shVars>>
    BY <1>1 DEF fleetVars, FleetTick, Tick, vars, storeVars, cloudVars
  <2>4. TurnsTaken' /\ ShellsFit'
    BY <2>3 DEF FleetInv, TurnsTaken, TclQuiet, ShQuiet, ShellsFit, ShellFits, ShWindow,
                cloudVars, tclVars, shVars
  <2> QED
    BY <1>0, <2>2, <2>4 DEF FleetInv
<1>2. ASSUME ShQuiet, NEW p \in Procs, Step(p), UNCHANGED shVars
      PROVE  FleetInv'
  <2>1. IInv'
    BY <1>2, StepInv DEF FleetInv, Next
  <2>2. TurnsTaken'
    BY <1>2 DEF TurnsTaken, ShQuiet, shVars
  <2>3. issued \in Int /\ issued' \in {issued, issued + 1}
    BY <1>2
    DEF FleetInv, FleetTypeOK, TypeOK, StoreTypeOK, Issue, Step, Load, Accepted, Exchange,
        Refused, NoContact, LoseAnswer, Receive, Truncate, OpenFails, Flush, Reread,
        Authorize, Call, End, storeVars, cloudVars
  <2>4. ASSUME NEW s \in Shells
        PROVE  ShellFits(s)'
    <3>1. env[s].rt \in Int /\ env[s].rt <= issued /\ shpc'[s] = "start" /\ env' = env
      BY <1>2, ShellNumbers DEF FleetInv, ShellsFit, ShellFits, ShQuiet, shVars
    <3> QED
      BY <2>3, <3>1 DEF ShellFits, ShWindow
  <2> QED
    BY <1>0, <2>1, <2>2, <2>4 DEF FleetInv, ShellsFit
<1>3. ASSUME TclQuiet, NEW s \in Shells, ShStep(s), UNCHANGED tclVars
      PROVE  FleetInv'
  <2>1. IInv'
    BY <1>3, ShellKeepsInv
  <2>2. TurnsTaken'
    BY <1>3 DEF TurnsTaken, TclQuiet, tclVars
  <2>3. ShellsFit'
    BY <1>3, ShellKeepsFit DEF ShellsFit, OneShell
  <2> QED
    BY <1>0, <2>1, <2>2, <2>3 DEF FleetInv
<1> QED
  BY <1>1, <1>2, <1>3 DEF FleetNext

LEMMA FleetInvInit == FleetInit => FleetInv
<1> SUFFICES ASSUME FleetInit
             PROVE  FleetInv
  OBVIOUS
<1>1. FleetTypeOK
  BY InitType, ShellTypes DEF FleetInit, FleetTypeOK, ShInit, ShTypeOK, Commands
<1>2. IInv /\ TurnsTaken
  BY InitInv DEF FleetInit, Init, TurnsTaken, TclQuiet
<1>3. ShellsFit
  BY DEF FleetInit, Init, StoreInit, ShInit, NoEnv, NoTok, ShellsFit, ShellFits, ShWindow
<1> QED
  BY <1>1, <1>2, <1>3 DEF FleetInv

\* What the two kinds of client may rely on when they take turns with the file: the
\* invariant of the Tcl clients survives remote.sh, and remote.sh carries the accepted
\* refresh token whenever the cloud has granted it one.
THEOREM FleetInvariant ==
    ASSUME OneShell, AlwaysNamed
    PROVE  FleetSpec => []FleetInv
<1>1. FleetInv /\ [FleetNext]_fleetVars => FleetInv'
  BY FleetInvStep
<1> QED
  BY <1>1, FleetInvInit, PTL DEF FleetSpec

\* The one who loses the login, if anybody does.
FleetFault ==
    \/ Fault
    \/ \E s \in Shells :
          \/ ShCarries(s) /\ (ShEnd(s) \/ ShNoReply(s))
          \/ Overwrites(s) /\ (env[s].in = Text \/ cmd[s] = "gettoken")

LEMMA ShellKeepsLogin ==
    ASSUME OneShell, AlwaysNamed, FleetInv, FleetInv', TclQuiet, NEW s \in Shells,
           ShStep(s), UNCHANGED tclVars, FleetLogin, ~FleetFault
    PROVE  FleetLogin'
<1> USE DEF FleetInv
<1> DEFINE e == env[s]
<1>0. /\ file \in Triple /\ live \in Int /\ live > 0 /\ NoTok = 0
      /\ env \in [Shells -> ShEnv] /\ DOMAIN shpc = Shells /\ ShellFits(s) /\ ShellFits(s)'
  BY ShellNumbers DEF FleetTypeOK, ShTypeOK, ShellsFit
<1>1. file.rt = live \/ ShCarries(s)
  BY DEF FleetLogin, LoginReachable, Carries, TclQuiet, OneShell
<1>2. ASSUME UNCHANGED storeVars, ~ShCarries(s)
      PROVE  FleetLogin'
  BY <1>1, <1>2 DEF FleetLogin, LoginReachable, storeVars
<1>3. ASSUME ShCarries(s)'
      PROVE  FleetLogin'
  BY <1>3 DEF FleetLogin
<1>4. CASE Start(s) \/ ShRefused(s)
  <2>1. ~ShCarries(s) /\ UNCHANGED storeVars
    BY <1>4 DEF Start, ShRefused, ShCarries
  <2> QED
    BY <1>2, <2>1
<1>5. CASE ShAccepted(s)
  <2>1. shpc'[s] = "answered" /\ env'[s] = Granted
    BY <1>0, <1>5 DEF ShAccepted, ShGoto
  <2>2. env'[s].at \in Issue
    BY <1>0, <2>1 DEF ShellFits
  <2>3. env'[s].rt = live'
    BY <1>0, <2>1, <2>2 DEF ShellFits, ShWindow
  <2> QED
    BY <1>3, <2>1, <2>3 DEF ShCarries
<1>6. CASE ShNoReply(s) \/ ShEnd(s)
  <2>1. ~ShCarries(s) /\ UNCHANGED storeVars
    BY <1>6 DEF ShNoReply, ShEnd, FleetFault
  <2> QED
    BY <1>2, <2>1
<1>7. CASE ShReceive(s)
  <2>1. shpc'[s] = "write1" /\ UNCHANGED <<storeVars, env>>
    BY <1>0, <1>7 DEF ShReceive, ShGoto
  <2> QED
    BY <1>2, <1>3, <2>1 DEF ShCarries, storeVars
<1>8. CASE ShWrite1(s)
  <2>1. shpc[s] = "write1" /\ shpc'[s] = "write2" /\ env' = env /\ live' = live
    BY <1>0, <1>8 DEF ShWrite1, ShGoto, cloudVars
  <2>2. CASE e.at \in Issue
    BY <1>0, <1>3, <2>1, <2>2 DEF ShCarries, ShellFits, ShWindow
  <2>3. CASE e.at \notin Issue
    <3>1. file.rt # live
      BY <1>0, <2>1, <2>3 DEF ShellFits, FleetFault, Overwrites
    <3> QED
      BY <1>1, <1>3, <2>1, <3>1 DEF ShCarries
  <2> QED
    BY <2>2, <2>3
<1>9. CASE ShWrite2(s)
  <2>1. shpc[s] = "write2" /\ file'.rt = e.rt /\ live' = live
    BY <1>0, <1>9 DEF ShWrite2, cloudVars, Triple
  <2>2. file.rt = NoTok
    BY <1>0, <2>1 DEF ShellFits, Empty
  <2>3. e.rt = live
    BY <1>0, <1>1, <2>2 DEF ShCarries
  <2> QED
    BY <2>1, <2>3 DEF FleetLogin, LoginReachable
<1>10. CASE ShWrite3(s)
  <2>1. ~ShCarries(s) /\ live' = live /\ file'.rt = file.rt
    BY <1>0, <1>10 DEF ShWrite3, ShCarries, cloudVars, Triple
  <2> QED
    BY <1>1, <2>1 DEF FleetLogin, LoginReachable
<1> QED
  BY <1>4, <1>5, <1>6, <1>7, <1>8, <1>9, <1>10 DEF ShStep

LEMMA FleetLoginStep ==
    ASSUME OneShell, AlwaysNamed, FleetInv, [FleetNext]_fleetVars, writable, FleetLogin,
           ~FleetFault
    PROVE  FleetLogin'
<1>0. FleetInv'
  BY FleetInvStep
<1>1. CASE UNCHANGED fleetVars \/ FleetTick
  <2>1. UNCHANGED <<cloudVars, file, tclVars, shVars>>
    BY <1>1 DEF fleetVars, FleetTick, Tick, vars, storeVars, cloudVars
  <2> QED
    BY <2>1 DEF FleetLogin, LoginReachable, Carries, ShCarries, cloudVars, tclVars, shVars
<1>2. ASSUME ShQuiet, NEW p \in Procs, Step(p)
      PROVE  FleetLogin'
  <2>1. LoginReachable
    BY <1>2 DEF FleetLogin, ShQuiet, ShCarries
  <2>2. [Next]_vars /\ IInv /\ ~Fault
    BY <1>2 DEF Next, FleetInv, FleetFault
  <2> QED
    BY <2>1, <2>2, LoginStep DEF FleetLogin
<1>3. ASSUME TclQuiet, NEW s \in Shells, ShStep(s), UNCHANGED tclVars
      PROVE  FleetLogin'
  BY <1>0, <1>3, ShellKeepsLogin
<1> QED
  BY <1>1, <1>2, <1>3 DEF FleetNext

\* Used one after the other, any number of Tcl clients and remote.sh hand the login on
\* to each other: it is lost only by a process that dies or loses an answer while it
\* carries the refresh token, or by remote.sh overwriting the file after a refresh curl
\* could not make or a login that failed - never because a refresh is refused.
THEOREM FleetLoginSurvives ==
    ASSUME OneShell, AlwaysNamed
    PROVE  FleetSpec => FleetLoginLostOnlyByFault
<1> DEFINE Kept == writable /\ FleetLogin
                     => \/ FleetLogin'
                        \/ \E p \in Procs : Carries(p) /\ (End(p) \/ LoseAnswer(p))
                        \/ \E s \in Shells :
                              \/ ShCarries(s) /\ (ShEnd(s) \/ ShNoReply(s))
                              \/ Overwrites(s) /\ (env[s].in = Text \/ cmd[s] = "gettoken")
<1>1. FleetInv /\ [FleetNext]_fleetVars => [Kept]_fleetVars
  BY FleetLoginStep DEF FleetFault, Fault
<1> HIDE DEF Kept
<1>2. FleetSpec => [][Kept]_fleetVars
  BY <1>1, FleetInvariant, PTL DEF FleetSpec
<1> QED
  BY <1>2 DEF Kept, FleetLoginLostOnlyByFault

-----------------------------------------------------------------------------
(* Expiries under two kinds of client *)

\* An expiry still to come does not overstate the life of the access token beside it.
Bounded(m) ==
    m.at \in Issue => m.exp <= now \/ m.exp <= issuedAt[m.at] + Life + MaxDelay

\* Nothing was issued in the future, and no expiry is further away than a lifetime.
NothingLasts ==
    /\ \A t \in Issue : issuedAt[t] <= now
    /\ file.exp <= now + Life
    /\ \A p \in Procs : mem[p].exp <= now + Life

TclClock ==
    \A p \in Procs :
        /\ pc[p] = "answered" =>
              reply[p].at \in Issue /\ now <= issuedAt[reply[p].at] + MaxDelay
        /\ pc[p] \in {"update", "truncated"} => mem[p].at \in Issue /\ mem[p].exp \in Nat

\* A token remote.sh is about to write was issued after every expiry a Tcl client
\* remembers was set.
ShClock ==
    \A s \in Shells : ShWindow(s) /\ env[s].at \in Issue =>
        /\ now <= issuedAt[env[s].at] + MaxDelay
        /\ \A p \in Procs : mem[p].exp <= issuedAt[env[s].at] + Life

\* Without a token there is no expiry, or that of a login that failed.
FileClock == file.at = NoTok => file.exp <= now

\* remote.sh has left a token without its expiry in the file.
Half == file.at \in Issue /\ file.exp = NoExp

\* Clients that read a half-written file merge it with an expiry that is not too late.
HalfClock(p) ==
    Half =>
        /\ pc[p] \notin {"truncated", "reread"}
        /\ pc[p] # "update" => mem[p].exp <= issuedAt[file.at] + Life + MaxDelay

PairClock ==
    writable => Bounded(file) /\ \A p \in Procs : Bounded(mem[p]) /\ HalfClock(p)

FleetClock == NothingLasts /\ TclClock /\ ShClock /\ FileClock /\ PairClock

LEMMA FleetNumbers ==
    ASSUME TypeOK
    PROVE  /\ now \in Nat /\ Life \in Nat /\ DefaultLife \in Nat /\ MaxDelay \in Nat
           /\ DefaultLife <= Life
           /\ NoExp = -1 /\ NoTok \notin Issue /\ Junk \notin Issue
           /\ \A t \in Issue : issuedAt[t] \in Nat
           /\ file.exp \in Int /\ \A p \in Procs : mem[p].exp \in Int
<1>1. file \in Triple /\ \A p \in Procs : mem[p] \in Triple
  BY DEF TypeOK, StoreTypeOK
<1>2. \A m \in Triple : m.exp \in Int
  BY DEF Triple, NoExp
<1>3. NoTok \notin Issue /\ Junk \notin Issue
  BY StoreAssumption DEF Issue, NoTok, Junk
<1>4. now \in Nat /\ \A t \in Issue : issuedAt[t] \in Nat
  BY DEF TypeOK, StoreTypeOK
<1> QED
  BY <1>1, <1>2, <1>3, <1>4, StoreAssumption, TimingAssumption DEF NoExp

\* The cloud's record of an issue only grows.
LEMMA IssuesGrow ==
    ASSUME TypeOK, TypeOK', NothingLasts,
           UNCHANGED issuedAt \/ \E rt : Exchange(rt), now' = now
    PROVE  \A t \in Issue : /\ issuedAt'[t] \in Nat /\ issuedAt[t] \in Nat
                            /\ issuedAt[t] <= issuedAt'[t] /\ issuedAt'[t] <= now
<1>1. issuedAt \in [Issue -> Nat] /\ issuedAt' \in [Issue -> Nat] /\ now \in Nat
  BY DEF TypeOK, StoreTypeOK
<1>2. \A t \in Issue : issuedAt[t] <= now
  BY DEF NothingLasts
<1>3. CASE UNCHANGED issuedAt
  BY <1>1, <1>2, <1>3
<1>4. ASSUME NEW rt, Exchange(rt)
      PROVE  \A t \in Issue : issuedAt'[t] \in {issuedAt[t], now}
  BY <1>1, <1>4 DEF Exchange
<1> QED
  BY <1>1, <1>2, <1>3, <1>4

\* What was bounded stays so.
LEMMA BoundedStays ==
    ASSUME TypeOK, NEW m, m.exp \in Int, Bounded(m),
           \A t \in Issue : issuedAt'[t] \in Nat /\ issuedAt[t] \in Nat
                            /\ issuedAt[t] <= issuedAt'[t]
    PROVE  m.at \in Issue => m.exp <= now \/ m.exp <= issuedAt'[m.at] + Life + MaxDelay
BY FleetNumbers DEF Bounded

\* A step of p that leaves file and cloud alone, and after which it is not updating.
LEMMA QuietFleet ==
    ASSUME TypeOK, TypeOK', FleetClock, ShQuiet, UNCHANGED shVars, NEW p \in Procs,
           UNCHANGED <<storeVars, writable>>,
           \A q \in Procs \ {p} :
              mem'[q] = mem[q] /\ reply'[q] = reply[q] /\ pc'[q] = pc[q],
           pc'[p] \notin {"answered", "update", "truncated", "reread"},
           mem'[p].exp <= now + Life,
           writable => /\ Bounded(mem'[p])
                       /\ Half => mem'[p].exp <= issuedAt[file.at] + Life + MaxDelay
    PROVE  FleetClock'
<1> USE DEF FleetClock, storeVars, cloudVars
<1>1. NothingLasts' /\ FileClock'
  BY DEF NothingLasts, FileClock
<1>2. TclClock'
  BY DEF TclClock
<1>3. ShClock'
  BY DEF ShClock, ShWindow, ShQuiet, shVars
<1>4. PairClock'
  <2> SUFFICES ASSUME writable
               PROVE  PairClock'
    BY DEF PairClock
  <2>1. ASSUME NEW q \in Procs
        PROVE  Bounded(mem[q])' /\ HalfClock(q)'
    <3>1. CASE q = p
      BY <3>1 DEF Bounded, HalfClock, Half
    <3>2. CASE q # p
      BY <3>2 DEF PairClock, Bounded, HalfClock, Half
    <3> QED
      BY <3>1, <3>2
  <2>2. Bounded(file)'
    BY DEF PairClock, Bounded
  <2> QED
    BY <2>1, <2>2 DEF PairClock
<1> QED
  BY <1>1, <1>2, <1>3, <1>4

\* What a Tcl client makes of the file, whole, half-written or empty.
LEMMA ParsedBounded ==
    ASSUME TypeOK, FleetClock, NEW p \in Procs, pc[p] # "update"
    PROVE  LET m == Parsed(mem[p], file) IN
           /\ m.exp <= now + Life
           /\ writable => /\ Bounded(m)
                          /\ Half => m.exp <= issuedAt[file.at] + Life + MaxDelay
<1> DEFINE m == Parsed(mem[p], file)
<1> USE DEF FleetClock
<1>1. m.exp \in {mem[p].exp, file.exp} /\ (file.exp = NoExp => m.exp = mem[p].exp)
      /\ (file.exp # NoExp => m.exp = file.exp)
      /\ m.at = IF file.at = NoTok THEN mem[p].at ELSE file.at
  BY DEF Parsed
<1> HIDE DEF m
<1>2. m.exp <= now + Life
  BY <1>1 DEF NothingLasts
<1>3. ASSUME writable
      PROVE  /\ Bounded(m)
             /\ Half => m.exp <= issuedAt[file.at] + Life + MaxDelay
  <2>1. Bounded(file) /\ Bounded(mem[p]) /\ HalfClock(p)
    BY <1>3 DEF PairClock
  <2>2. Half => m.exp <= issuedAt[file.at] + Life + MaxDelay
    BY <1>1, <2>1 DEF HalfClock, Half
  <2>3. CASE file.at = NoTok
    <3>1. m.at = mem[p].at /\ (m.exp = mem[p].exp \/ m.exp <= now)
      BY <1>1, <2>3 DEF FileClock
    <3> QED
      BY <2>1, <2>2, <3>1 DEF Bounded
  <2>4. CASE file.at # NoTok /\ file.exp # NoExp
    <3>1. m.at = file.at /\ m.exp = file.exp
      BY <1>1, <2>4
    <3> QED
      BY <2>1, <2>2, <3>1 DEF Bounded
  <2>5. CASE file.at # NoTok /\ file.exp = NoExp
    BY <1>1, <2>2, <2>5 DEF Bounded, Half
  <2> QED
    BY <2>2, <2>3, <2>4, <2>5
<1> QED
  BY <1>2, <1>3 DEF m

\* A step of a Tcl client while no shell runs keeps the expiries.
LEMMA TclKeepsClock ==
    ASSUME TypeOK, TypeOK', FleetClock, ShQuiet, UNCHANGED shVars, NEW p \in Procs, Step(p)
    PROVE  FleetClock'
<1> USE DEF Goto, Forget
<1>0. /\ pc \in [Procs -> {"idle", "refresh", "answered", "update", "truncated",
                           "reread", "auth", "ready"}]
      /\ mem \in [Procs -> Triple] /\ reply \in [Procs -> Answer]
      /\ Empty.exp = -1 /\ Empty.at = NoTok /\ 0 - 1 <= now + Life
      /\ now \in Nat /\ Life \in Nat /\ MaxDelay \in Nat /\ DefaultLife \in Nat
      /\ DefaultLife <= Life /\ NoExp = -1 /\ NoTok \notin Issue
      /\ \A t \in Issue : issuedAt[t] \in Nat
      /\ file.exp \in Int /\ \A q \in Procs : mem[q].exp \in Int
  BY FleetNumbers DEF TypeOK, Empty, NoExp
<1>1. /\ NothingLasts /\ TclClock /\ FileClock /\ PairClock
  BY DEF FleetClock
<1>2. ShClock'
  BY DEF ShClock, ShWindow, ShQuiet, shVars
<1>3. /\ Bounded(Empty) /\ (Half => Empty.exp <= issuedAt[file.at] + Life + MaxDelay)
      /\ writable => Bounded(mem[p])
      /\ writable /\ Half /\ pc[p] # "update"
            => mem[p].exp <= issuedAt[file.at] + Life + MaxDelay
      /\ mem[p].exp <= now + Life
  BY <1>0, <1>1 DEF Bounded, Half, PairClock, HalfClock, NothingLasts
<1>4. CASE Load(p)
  BY <1>0, <1>3, <1>4, ParsedBounded, QuietFleet DEF Load
<1>5. CASE Refused(p) \/ End(p)
  BY <1>0, <1>3, <1>5, QuietFleet DEF Refused, End
<1>6. CASE NoContact(p) \/ LoseAnswer(p) \/ Call(p)
  BY <1>0, <1>3, <1>6, QuietFleet DEF NoContact, LoseAnswer, Call
<1>7. CASE Authorize(p)
  BY <1>0, <1>3, <1>7, QuietFleet DEF Authorize
<1>8. CASE Reread(p)
  BY <1>0, <1>3, <1>8, ParsedBounded, QuietFleet DEF Reread
<1>9. CASE Accepted(p)
  <2>1. /\ \E rt : Exchange(rt)
        /\ now' = now /\ UNCHANGED <<file, mem, writable>> /\ pc[p] = "refresh"
        /\ pc'[p] = "answered" /\ reply'[p].at = issued + 1
        /\ \A q \in Procs \ {p} : pc'[q] = pc[q] /\ reply'[q] = reply[q]
    BY <1>0, <1>9 DEF Accepted
  <2>2. \A t \in Issue : /\ issuedAt'[t] \in Nat /\ issuedAt[t] \in Nat
                         /\ issuedAt[t] <= issuedAt'[t] /\ issuedAt'[t] <= now
    BY <1>1, <2>1, IssuesGrow
  <2>3. issued + 1 \in Issue /\ issuedAt'[issued + 1] = now
    BY <1>9, StoreAssumption DEF Accepted, Exchange, TypeOK, StoreTypeOK, Issue
  <2>4. NothingLasts' /\ FileClock'
    BY <1>1, <2>1, <2>2 DEF NothingLasts, FileClock
  <2>5. TclClock'
    <3> SUFFICES ASSUME NEW q \in Procs
                 PROVE  /\ pc'[q] = "answered" =>
                              reply'[q].at \in Issue /\ now <= issuedAt'[reply'[q].at] + MaxDelay
                        /\ pc'[q] \in {"update", "truncated"}
                              => mem[q].at \in Issue /\ mem[q].exp \in Nat
      BY <2>1 DEF TclClock
    <3>1. CASE q = p
      BY <1>0, <2>1, <2>3, <3>1
    <3>2. CASE q # p
      BY <1>0, <1>1, <2>1, <2>2, <3>2 DEF TclClock
    <3> QED
      BY <3>1, <3>2
  <2>6. PairClock'
    <3> SUFFICES ASSUME writable
                 PROVE  PairClock'
      BY <2>1 DEF PairClock
    <3>1. Bounded(file)'
      BY <1>0, <1>1, <2>1, <2>2, BoundedStays DEF PairClock, Bounded
    <3>2. ASSUME NEW q \in Procs
          PROVE  Bounded(mem[q])'
      BY <1>0, <1>1, <2>1, <2>2, BoundedStays DEF PairClock, Bounded
    <3>3. ASSUME NEW q \in Procs
          PROVE  HalfClock(q)'
      BY <1>0, <1>1, <2>1, <2>2 DEF PairClock, HalfClock, Half
    <3> QED
      BY <3>1, <3>2, <3>3 DEF PairClock
  <2> QED
    BY <1>2, <2>4, <2>5, <2>6 DEF FleetClock
<1>10. CASE Receive(p)
  <2> DEFINE m == mem'[p]
  <2>1. /\ pc[p] = "answered" /\ pc'[p] = "update"
        /\ m.at = reply[p].at /\ m.exp \in {now + Life, now + DefaultLife}
        /\ \A q \in Procs \ {p} : /\ mem'[q] = mem[q] /\ reply'[q] = reply[q]
                                  /\ pc'[q] = pc[q]
        /\ UNCHANGED <<now, issuedAt, file, writable>>
    BY <1>0, <1>10 DEF Receive, storeVars
  <2>2. /\ m.at \in Issue /\ m.exp \in Nat /\ m.exp <= now + Life
        /\ m.exp <= issuedAt[m.at] + Life + MaxDelay
    BY <1>0, <1>1, <2>1 DEF TclClock
  <2> HIDE DEF m
  <2>3. NothingLasts' /\ FileClock' /\ TclClock'
    BY <1>1, <2>1, <2>2 DEF NothingLasts, FileClock, TclClock, m
  <2>4. PairClock'
    BY <1>1, <2>1, <2>2 DEF PairClock, HalfClock, Half, Bounded, m
  <2> QED
    BY <1>2, <2>3, <2>4 DEF FleetClock
<1>11. CASE Truncate(p)
  <2>1. /\ pc[p] = "update" /\ pc' = [pc EXCEPT ![p] = "truncated"]
        /\ file' = Empty
        /\ UNCHANGED <<now, issuedAt, mem, reply, writable>>
    BY <1>11 DEF Truncate, cloudVars
  <2>2. NothingLasts' /\ FileClock' /\ TclClock'
    BY <1>0, <1>1, <2>1 DEF NothingLasts, FileClock, TclClock
  <2>3. PairClock'
    BY <1>0, <1>1, <2>1 DEF PairClock, HalfClock, Half, Bounded
  <2> QED
    BY <1>2, <2>2, <2>3 DEF FleetClock
<1>12. CASE OpenFails(p)
  <2>1. /\ ~writable /\ pc' = [pc EXCEPT ![p] = "reread"]
        /\ UNCHANGED <<now, issuedAt, file, mem, reply, writable>>
    BY <1>12 DEF OpenFails, storeVars, cloudVars
  <2>2. NothingLasts' /\ FileClock' /\ TclClock' /\ PairClock'
    BY <1>0, <1>1, <2>1 DEF NothingLasts, FileClock, TclClock, PairClock
  <2> QED
    BY <1>2, <2>2 DEF FleetClock
<1>13. CASE Flush(p)
  <2>1. /\ pc[p] = "truncated" /\ pc' = [pc EXCEPT ![p] = "reread"]
        /\ file' = mem[p]
        /\ UNCHANGED <<now, issuedAt, mem, reply, writable>>
    BY <1>13 DEF Flush, cloudVars
  <2>2. mem[p].at \in Issue /\ mem[p].exp \in Nat
    BY <1>1, <2>1 DEF TclClock
  <2>3. NothingLasts' /\ FileClock' /\ TclClock'
    BY <1>0, <1>1, <2>1, <2>2 DEF NothingLasts, FileClock, TclClock
  <2>4. PairClock'
    BY <1>0, <1>1, <2>1, <2>2 DEF PairClock, HalfClock, Half, Bounded
  <2> QED
    BY <1>2, <2>3, <2>4 DEF FleetClock
<1> QED
  BY <1>4, <1>5, <1>6, <1>7, <1>8, <1>9, <1>10, <1>11, <1>12, <1>13 DEF Step

\* A step of remote.sh while no Tcl client is in its token code keeps the expiries.
LEMMA ShellKeepsClock ==
    ASSUME OneShell, TypeOK', FleetInv, FleetClock, TclQuiet, NEW s \in Shells,
           ShStep(s), UNCHANGED tclVars
    PROVE  FleetClock'
<1> DEFINE e == env[s]
<1> USE DEF ShGoto
<1>0. /\ TypeOK /\ ShellFits(s) /\ e \in ShEnv /\ DOMAIN shpc = Shells
      /\ env \in [Shells -> ShEnv] /\ file \in Triple
      /\ Life \in Nat /\ MaxDelay \in Nat /\ now \in Nat /\ NoExp = -1
      /\ NoTok \notin Issue /\ Junk \notin Issue
      /\ \A t \in Issue : issuedAt[t] \in Nat
      /\ file.exp \in Int /\ \A q \in Procs : mem[q].exp \in Int
  BY FleetNumbers, ShellNumbers DEF FleetInv, FleetTypeOK, ShTypeOK, ShellsFit
<1>1. /\ NothingLasts /\ TclClock /\ ShClock /\ FileClock /\ PairClock
  BY DEF FleetClock
<1>2. TclClock'
  BY DEF TclClock, TclQuiet, tclVars
<1>3. SUFFICES ASSUME UNCHANGED <<mem, writable, pc>>, \A q \in Procs : pc[q] = "idle"
               PROVE  NothingLasts' /\ ShClock' /\ FileClock' /\ PairClock'
  BY <1>2 DEF FleetClock, tclVars, TclQuiet
<1>4. ASSUME UNCHANGED <<now, issuedAt, file>>
      PROVE  NothingLasts' /\ FileClock' /\ PairClock'
  BY <1>1, <1>3, <1>4 DEF NothingLasts, FileClock, PairClock, Bounded, HalfClock, Half
<1>5. ASSUME UNCHANGED <<now, issuedAt>>,
             ShWindow(s)' /\ env'[s].at \in Issue => ShWindow(s) /\ env'[s].at = e.at
      PROVE  ShClock'
  <2>1. ASSUME ShWindow(s)', env'[s].at \in Issue
        PROVE  /\ now <= issuedAt[env'[s].at] + MaxDelay
               /\ \A q \in Procs : mem[q].exp <= issuedAt[env'[s].at] + Life
    BY <1>0, <1>1, <1>5, <2>1 DEF ShClock, ShWindow
  <2> QED
    BY <1>3, <1>5, <2>1 DEF ShClock, OneShell
<1>6. CASE Start(s)
  <2>1. UNCHANGED storeVars /\ shpc'[s] \in {"request", "printed"}
    BY <1>0, <1>6 DEF Start
  <2>2. UNCHANGED <<now, issuedAt, file>>
    BY <2>1 DEF storeVars
  <2>3. ShWindow(s)' /\ env'[s].at \in Issue => ShWindow(s) /\ env'[s].at = e.at
    BY <1>0, <2>1 DEF ShWindow
  <2>4. ShClock'
    BY <1>5, <2>2, <2>3
  <2> QED
    BY <1>4, <2>2, <2>4
<1>7. CASE ShAccepted(s)
  <2>1. /\ \E rt : Exchange(rt)
        /\ now' = now /\ file' = file /\ env'[s].at = issued + 1
    BY <1>0, <1>7 DEF ShAccepted, Granted
  <2>2. \A t \in Issue : /\ issuedAt'[t] \in Nat /\ issuedAt[t] \in Nat
                         /\ issuedAt[t] <= issuedAt'[t] /\ issuedAt'[t] <= now
    BY <1>0, <1>1, <2>1, IssuesGrow
  <2>3. issued + 1 \in Issue /\ issuedAt'[issued + 1] = now
    BY <1>0, <1>7, StoreAssumption DEF ShAccepted, Exchange, TypeOK, StoreTypeOK, Issue
  <2>4. NothingLasts' /\ FileClock'
    BY <1>1, <1>3, <2>1, <2>2 DEF NothingLasts, FileClock
  <2>5. ShClock'
    <3>1. /\ now <= issuedAt'[env'[s].at] + MaxDelay
          /\ \A q \in Procs : mem[q].exp <= issuedAt'[env'[s].at] + Life
      BY <1>0, <1>1, <2>1, <2>3 DEF NothingLasts
    <3> QED
      BY <1>3, <2>1, <3>1 DEF ShClock, OneShell
  <2>6. PairClock'
    <3> SUFFICES ASSUME writable
                 PROVE  PairClock'
      BY <1>3 DEF PairClock
    <3>1. Bounded(file)'
      BY <1>0, <1>1, <2>1, <2>2, BoundedStays DEF PairClock, Bounded
    <3>2. ASSUME NEW q \in Procs
          PROVE  Bounded(mem[q])'
      BY <1>0, <1>1, <1>3, <2>1, <2>2, BoundedStays DEF PairClock, Bounded
    <3>3. ASSUME NEW q \in Procs
          PROVE  HalfClock(q)'
      BY <1>0, <1>1, <1>3, <2>1, <2>2 DEF PairClock, HalfClock, Half
    <3> QED
      BY <3>1, <3>2, <3>3 DEF PairClock
  <2> QED
    BY <2>4, <2>5, <2>6
<1>8. CASE ShRefused(s) \/ ShNoReply(s)
  <2>1. UNCHANGED storeVars /\ env'[s].at \in {Junk, NoTok}
    BY <1>0, <1>8 DEF ShRefused, ShNoReply, Denied, Unreachable, Silent
  <2>2. UNCHANGED <<now, issuedAt, file>>
    BY <2>1 DEF storeVars
  <2>3. ShWindow(s)' /\ env'[s].at \in Issue => ShWindow(s) /\ env'[s].at = e.at
    BY <1>0, <2>1 DEF ShWindow
  <2>4. ShClock'
    BY <1>5, <2>2, <2>3
  <2> QED
    BY <1>4, <2>2, <2>4
<1>9. CASE ShReceive(s)
  <2>1. UNCHANGED <<now, issuedAt, file>> /\ ShWindow(s) /\ env' = env
    BY <1>9 DEF ShReceive, ShWindow, storeVars
  <2>2. ShClock'
    BY <1>5, <2>1
  <2> QED
    BY <1>4, <2>1, <2>2
<1>10. CASE ShWrite1(s)
  <2>1. /\ shpc[s] = "write1" /\ env' = env /\ UNCHANGED <<now, issuedAt>>
        /\ file'.at = e.at /\ file'.exp = NoExp
    BY <1>10 DEF ShWrite1, cloudVars, Empty
  <2>2. ShClock'
    BY <1>5, <2>1 DEF ShWindow
  <2>3. NothingLasts' /\ FileClock'
    BY <1>0, <1>1, <1>3, <2>1 DEF NothingLasts, FileClock
  <2>4. e.at \in Issue => \A q \in Procs : mem[q].exp <= issuedAt[e.at] + Life
    BY <1>1, <2>1 DEF ShClock, ShWindow
  <2>5. PairClock'
    BY <1>0, <1>1, <1>3, <2>1, <2>4 DEF PairClock, Bounded, HalfClock, Half
  <2> QED
    BY <2>2, <2>3, <2>5
<1>11. CASE ShWrite2(s)
  <2>1. /\ shpc[s] = "write2" /\ env' = env /\ UNCHANGED <<now, issuedAt>>
        /\ file'.at = file.at /\ file'.exp = file.exp
    BY <1>0, <1>11 DEF ShWrite2, cloudVars, Triple
  <2>2. ShClock'
    BY <1>5, <2>1 DEF ShWindow
  <2>3. NothingLasts' /\ FileClock' /\ PairClock'
    BY <1>1, <1>3, <2>1
    DEF NothingLasts, FileClock, PairClock, Bounded, HalfClock, Half
  <2> QED
    BY <2>2, <2>3
<1>12. CASE ShWrite3(s)
  <2>1. CASE ShExit(s) /\ file' = file
    <3>1. UNCHANGED <<now, issuedAt, file>> /\ shpc'[s] = "start"
      BY <1>0, <1>12, <2>1 DEF ShWrite3, ShExit, cloudVars
    <3>2. ~ShWindow(s)'
      BY <3>1 DEF ShWindow
    <3>3. ShClock'
      BY <1>5, <3>1, <3>2
    <3> QED
      BY <1>4, <3>1, <3>3
  <2>2. CASE /\ e.in # Text /\ file' = [file EXCEPT !.exp = now + e.in]
             /\ shpc'[s] = "printed" /\ env' = env
    <3>1. /\ shpc[s] = "write3" /\ UNCHANGED <<now, issuedAt>>
          /\ file.at = e.at /\ (e.at = NoTok => e.in = 0)
      BY <1>0, <1>12 DEF ShWrite3, cloudVars, ShellFits, ShWindow
    <3>2. e.in \in Nat /\ e.in <= Life
      BY <1>0, <2>2 DEF ShEnv
    <3>3. file'.at = e.at /\ file'.exp = now + e.in /\ file'.exp \in Nat
      BY <1>0, <2>2, <3>1, <3>2 DEF Triple
    <3>4. e.at \in Issue => now <= issuedAt[e.at] + MaxDelay
      BY <1>1, <3>1 DEF ShClock, ShWindow
    <3>5. ShClock'
      <4>1. ~ShWindow(s)'
        BY <2>2 DEF ShWindow
      <4> QED
        BY <1>5, <3>1, <4>1
    <3>6. NothingLasts' /\ FileClock'
      BY <1>0, <1>1, <1>3, <3>1, <3>2, <3>3 DEF NothingLasts, FileClock
    <3>7. PairClock'
      BY <1>0, <1>1, <1>3, <3>1, <3>2, <3>3, <3>4
      DEF PairClock, Bounded, HalfClock, Half
    <3> QED
      BY <3>5, <3>6, <3>7
  <2> QED
    BY <1>0, <1>12, <2>1, <2>2 DEF ShWrite3
<1>13. CASE ShEnd(s)
  <2>1. UNCHANGED <<now, issuedAt, file>> /\ shpc'[s] = "start"
    BY <1>0, <1>13 DEF ShEnd, ShExit, storeVars
  <2>2. ~ShWindow(s)'
    BY <2>1 DEF ShWindow
  <2>3. ShClock'
    BY <1>5, <2>1, <2>2
  <2> QED
    BY <1>4, <2>1, <2>3
<1> QED
  BY <1>6, <1>7, <1>8, <1>9, <1>10, <1>11, <1>12, <1>13 DEF ShStep

LEMMA FleetClockStep ==
    OneShell /\ FleetInv /\ FleetClock /\ [FleetNext]_fleetVars => FleetClock'
<1> SUFFICES ASSUME OneShell, FleetInv, FleetClock, [FleetNext]_fleetVars
             PROVE  FleetClock'
  OBVIOUS
<1>0. TypeOK /\ TypeOK'
  BY FleetTypeStep DEF FleetInv, FleetTypeOK
<1>1. CASE UNCHANGED fleetVars
  BY <1>1
  DEF fleetVars, vars, storeVars, cloudVars, tclVars, shVars, FleetClock, NothingLasts,
      TclClock, ShClock, ShWindow, FileClock, PairClock, HalfClock, Half, Bounded
<1>2. CASE FleetTick
  <2>1. /\ now' = now + 1
        /\ UNCHANGED <<issuedAt, file, pc, mem, reply, writable, shpc, env>>
        /\ \A p \in Procs : InTime(p)
        /\ \A s \in Shells : ShInTime(s)
    BY <1>2 DEF FleetTick, Tick, cloudVars, tclVars, shVars
  <2>2. NothingLasts'
    BY <1>0, <2>1, FleetNumbers DEF FleetClock, NothingLasts
  <2>3. TclClock'
    BY <1>0, <2>1, FleetNumbers DEF FleetClock, TclClock, InTime
  <2>4. ShClock'
    BY <1>0, <2>1, FleetNumbers DEF FleetClock, ShClock, ShInTime, ShWindow
  <2>5. FileClock' /\ PairClock'
    BY <1>0, <2>1, FleetNumbers DEF FleetClock, FileClock, PairClock, HalfClock, Half, Bounded
  <2> QED
    BY <2>2, <2>3, <2>4, <2>5 DEF FleetClock
<1>3. ASSUME ShQuiet, NEW p \in Procs, Step(p), UNCHANGED shVars
      PROVE  FleetClock'
  BY <1>0, <1>3, TclKeepsClock
<1>4. ASSUME TclQuiet, NEW s \in Shells, ShStep(s), UNCHANGED tclVars
      PROVE  FleetClock'
  BY <1>0, <1>4, ShellKeepsClock
<1> QED
  BY <1>1, <1>2, <1>3, <1>4 DEF FleetNext

LEMMA FleetClockInit == FleetInit => FleetClock
<1> SUFFICES ASSUME FleetInit
             PROVE  FleetClock
  OBVIOUS
<1>1. /\ TypeOK /\ now = 0 /\ file = [at |-> 1, rt |-> 1, exp |-> Life]
      /\ \A p \in Procs : pc[p] = "idle" /\ mem[p] = Empty
      /\ \A s \in Shells : shpc[s] = "start"
      /\ \A t \in Issue : issuedAt[t] = 0
  BY InitType DEF FleetInit, Init, StoreInit, ShInit
<1>2. /\ Life \in Nat /\ MaxDelay \in Nat /\ NoExp = -1 /\ NoTok \notin Issue
      /\ Empty.exp = NoExp /\ Empty.at = NoTok
  BY <1>1, FleetNumbers DEF Empty
<1>3. NothingLasts /\ TclClock /\ ShClock /\ FileClock
  BY <1>1, <1>2 DEF NothingLasts, TclClock, ShClock, ShWindow, FileClock, NoTok
<1>4. PairClock
  BY <1>1, <1>2 DEF PairClock, Bounded, HalfClock, Half
<1> QED
  BY <1>3, <1>4 DEF FleetClock

\* What a client finds in the file or remembers never pairs an access token of the
\* cloud with an expiry still to come that overstates it, although remote.sh writes the
\* three lines one by one, may die between them or fill them from a login that failed,
\* and any number of Tcl clients merge what they then find with what they remember.
THEOREM FleetExpiryRight ==
    ASSUME OneShell, AlwaysNamed
    PROVE  FleetSpec => []FleetExpiryBelongsToToken
<1>1. FleetInv /\ FleetClock => FleetExpiryBelongsToToken
  <2> SUFFICES ASSUME FleetInv, FleetClock, writable,
                      NEW m \in {file} \cup {mem[p] : p \in Procs}, m.at \in Issue, m.exp > now
               PROVE  m.exp <= issuedAt[m.at] + Life + MaxDelay
    BY DEF FleetExpiryBelongsToToken
  <2>1. TypeOK
    BY DEF FleetInv, FleetTypeOK
  <2>2. Bounded(m)
    BY DEF FleetClock, PairClock
  <2>3. m.exp \in Int /\ now \in Nat
    BY <2>1, FleetNumbers
  <2> QED
    BY <2>2, <2>3 DEF Bounded
<1>2. FleetInv /\ FleetClock /\ [FleetNext]_fleetVars => FleetClock'
  BY FleetClockStep
<1> QED
  BY <1>1, <1>2, FleetClockInit, FleetInvariant, PTL DEF FleetSpec
=============================================================================
