------------------------ MODULE EffectStreamerProofs ------------------------
(***************************************************************************)
(* What test.py guarantees for any number of lights, frames, signals and   *)
(* switches: a stop cuts the frame, nothing stops a loop without a cause,  *)
(* a started stream is closed, one signal does not hang the program.       *)
(***************************************************************************)
EXTENDS EffectStreamer, TLAPS

-----------------------------------------------------------------------------
(* The stack of handlers *)

HandlerPc == {"lock", "count", "stop", "stopping", "hard"}

\* Replacing the innermost handler leaves the others where they are.
LEMMA ContinueStack ==
    ASSUME NEW h \in Seq(HandlerPc), h # <<>>, NEW l \in HandlerPc
    PROVE  /\ <<l>> \o Tail(h) \in Seq(HandlerPc)
           /\ Len(<<l>> \o Tail(h)) = Len(h)
           /\ (<<l>> \o Tail(h))[1] = l
           /\ \A i \in 2..Len(h) : (<<l>> \o Tail(h))[i] = h[i]
  OBVIOUS

\* A new handler pushes the others one place down.
LEMMA PushStack ==
    ASSUME NEW h \in Seq(HandlerPc), NEW l \in HandlerPc
    PROVE  /\ <<l>> \o h \in Seq(HandlerPc)
           /\ Len(<<l>> \o h) = Len(h) + 1
           /\ \A i \in 1..Len(h) : (<<l>> \o h)[i + 1] = h[i]
  OBVIOUS

\* A handler that returns leaves the others one place up.
LEMMA ReturnStack ==
    ASSUME NEW h \in Seq(HandlerPc), h # <<>>
    PROVE  /\ Tail(h) \in Seq(HandlerPc)
           /\ Len(Tail(h)) = Len(h) - 1
           /\ \A i \in 2..Len(h) : Tail(h)[i - 1] = h[i]
  OBVIOUS

-----------------------------------------------------------------------------
(* The inductive invariant *)

\* How far a frame is, and how far an effect that is sent once.
InFrame ==
    /\ main = "send" => idx < NumLights
    /\ main \in {"frame", "send", "sleep"} /\ effect \in Once => frame < Frames
    /\ main \in {"configs", "area", "monitor", "start"} => frame = 0
    /\ main = "loop" => effect \in Looped

\* What has been sent since a stop was asked for: after a hard stop nothing but
\* the light whose test had been passed, after a stop no more than this frame.
SentLate ==
    /\ ~hard => late.hard = 0
    /\ ~stop => late.stop = 0
    /\ effect \in Looped =>
          /\ late.hard <= 1
          /\ late.stop <= NumLights
          /\ main = "send" => late.hard = 0
          /\ main \in {"frame", "send"} => late.stop <= idx

\* Every handler on the stack has its signal; the lock of stop_event is held by
\* main's own call of set(), or by one handler's.
LockHolders ==
    /\ Len(handlers) <= signals
    /\ condLock = "main" =>
          \/ main \in {"setting", "finalSetting"}
          \/ \E i \in DOMAIN handlers : handlers[i] = "stopping"

\* The stream is on only between start_stream and stop_stream, or because the
\* former raised.
StreamPhase ==
    /\ main \in {"configs", "area", "monitor", "start"} => stream = "off" /\ ~failing
    /\ main \in {"final", "finalSetting", "join"} \cup Ended => stream # "on" \/ StartRaised

\* Until the effect is over, only a signal, a switch or an answer without data can
\* have asked for a stop.
Cause == signals > 0 \/ switched \/ blank
Causes ==
    /\ lastStates \in OnOff /\ lights # lastStates => switched
    /\ lastStates = Nothing => blank
    /\ monitor \in {"set", "setting"} => switched \/ blank
    /\ stop => Cause \/ main \in {"finally", "final", "finalSetting", "join"} \cup Ended

SInv == StreamTypeOK /\ InFrame /\ SentLate /\ LockHolders /\ StreamPhase /\ Causes

-----------------------------------------------------------------------------

\* The invariant holds when the program starts.
LEMMA SInvInit == StreamInit => SInv
<1> SUFFICES ASSUME StreamInit PROVE SInv
  OBVIOUS
<1> USE StreamerAssumption DEF StreamInit
<1>1. StreamTypeOK
  <2>1. handlers \in Seq({"lock", "count", "stop", "stopping", "hard"})
    OBVIOUS
  <2>2. late \in [stop : 0..NumLights + 1, hard : 0..2]
    OBVIOUS
  <2>3. /\ signals \in 0..MaxSignals /\ flips \in 0..MaxFlips
        /\ idx \in 0..NumLights /\ frame \in 0..Frames
    OBVIOUS
  <2> QED
    BY <2>1, <2>2, <2>3 DEF StreamTypeOK
<1>2. InFrame /\ StreamPhase
  BY DEF InFrame, StreamPhase, Ended, StartRaised
<1>3. SentLate
  BY DEF SentLate
<1>4. LockHolders
  BY DEF LockHolders
<1>5. Causes
  BY DEF Causes, Unknown, Nothing, OnOff
<1> QED
  BY <1>1, <1>2, <1>3, <1>4, <1>5 DEF SInv

\* Steps of the main thread's own code; there is no handler on its stack.
LEMMA MainKeepsSInv == SInv /\ MainStep => SInv'
<1> SUFFICES ASSUME SInv, MainStep PROVE SInv'
  OBVIOUS
<1> USE StreamerAssumption DEF SInv, StreamTypeOK, At, Goto, handlerVars, monitorVars,
      events, world, InFrame, SentLate, LockHolders, StreamPhase, StartRaised, Causes,
      Cause, Looped, Once, Ended
<1>1. CASE GetConfigs
  BY <1>1 DEF GetConfigs
<1>2. CASE ChooseArea
  BY <1>2 DEF ChooseArea
<1>3. CASE StartMonitor
  BY <1>3 DEF StartMonitor
<1>4. CASE StartStream
  <2>1. /\ main = "start" /\ main' \in {"loop", "frame", "raised"}
        /\ main' = "loop" => effect \in Looped
        /\ main' = "frame" => effect \notin Looped
        /\ main' \in {"loop", "frame"} => stream' = "on"
        /\ stream' \in {"off", "on"}
        /\ UNCHANGED <<effect, idx, frame, failing, handlerVars, monitorVars, events,
                       world, late>>
    BY <1>4 DEF StartStream
  <2>2. StreamTypeOK' /\ InFrame'
    BY <2>1
  <2>3. SentLate' /\ LockHolders' /\ Causes'
    BY <2>1
  <2>4. StreamPhase'
    BY <2>1
  <2> QED BY <2>2, <2>3, <2>4
<1>5. CASE LoopTest
  BY <1>5 DEF LoopTest
<1>6. CASE NextLight
  BY <1>6 DEF NextLight
<1>7. CASE Send
  <2>1. ASSUME idx' = idx + 1, main' = "frame", late' = OneMore, UNCHANGED failing
        PROVE  SInv'
    <3>1. late'.hard = IF hard /\ late.hard <= 1 THEN late.hard + 1 ELSE late.hard
      BY <2>1 DEF OneMore
    <3>2. late'.stop = IF stop /\ late.stop <= NumLights THEN late.stop + 1 ELSE late.stop
      BY <2>1 DEF OneMore
    <3>3. late' \in [stop : 0..NumLights + 1, hard : 0..2]
      BY <2>1 DEF OneMore
    <3>4. StreamTypeOK'
      BY <1>7, <2>1, <3>3 DEF Send
    <3>5. SentLate'
      BY <1>7, <2>1, <3>1, <3>2 DEF Send
    <3>6. InFrame' /\ LockHolders' /\ StreamPhase' /\ Causes'
      BY <1>7, <2>1 DEF Send
    <3> QED
      BY <3>4, <3>5, <3>6
  <2>2. ASSUME failing' = TRUE, main' = "finally", UNCHANGED <<idx, late>>
        PROVE  SInv'
    BY <1>7, <2>2 DEF Send
  <2> QED
    BY <1>7, <2>1, <2>2 DEF Send
<1>8. CASE Sleep
  BY <1>8 DEF Sleep
<1>9. CASE MainSet
  BY <1>9 DEF MainSet
<1>10. CASE MainSetting
  BY <1>10 DEF MainSetting
<1>11. CASE StopStream
  BY <1>11 DEF StopStream
<1>12. CASE Join
  BY <1>12 DEF Join
<1> QED
  BY <1>1, <1>2, <1>3, <1>4, <1>5, <1>6, <1>7, <1>8, <1>9, <1>10, <1>11, <1>12
  DEF MainStep

\* Steps of the monitor thread.
LEMMA MonitorKeepsSInv == SInv /\ MonitorStep => SInv'
<1> SUFFICES ASSUME SInv, MonitorStep PROVE SInv'
  OBVIOUS
<1> USE DEF SInv, StreamTypeOK, MonitorAt, MonitorGoto, mainVars, handlerVars,
      events, world, InFrame, SentLate, LockHolders, StreamPhase, StartRaised, Causes,
      Cause
<1>1. CASE MonitorTest
  BY <1>1 DEF MonitorTest
<1>2. CASE MonitorFetch
  <2>1. PICK states \in {lights, Nothing} :
            /\ lastStates' = IF lastStates = Unknown THEN states ELSE lastStates
            /\ MonitorGoto(IF lastStates' = states THEN "test" ELSE "set")
            /\ blank' = (blank \/ states = Nothing)
    BY <1>2 DEF MonitorFetch
  <2>2. UNCHANGED <<mainVars, handlerVars, events, world, late>>
    BY <1>2 DEF MonitorFetch
  <2>3. Causes'
    BY <2>1, <2>2 DEF Unknown, Nothing, OnOff
  <2>4. StreamTypeOK' /\ InFrame' /\ SentLate' /\ LockHolders' /\ StreamPhase'
    BY <2>1, <2>2 DEF Unknown, Nothing, OnOff
  <2> QED BY <2>3, <2>4
<1>3. CASE MonitorError
  BY <1>3 DEF MonitorError
<1>4. CASE MonitorSet
  BY <1>4 DEF MonitorSet
<1>5. CASE MonitorSetting
  BY <1>5 DEF MonitorSetting
<1> QED
  BY <1>1, <1>2, <1>3, <1>4, <1>5 DEF MonitorStep

\* A signal and the handlers.
LEMMA HandlersKeepSInv == SInv /\ (Signal \/ HandlerStep) => SInv'
<1> SUFFICES ASSUME SInv, Signal \/ HandlerStep PROVE SInv'
  OBVIOUS
<1>h. handlers \in Seq(HandlerPc)
  BY DEF SInv, StreamTypeOK, HandlerPc
<1> USE DEF SInv, StreamTypeOK, mainVars, monitorVars, world, InFrame, SentLate,
      LockHolders, StreamPhase, StartRaised, Causes, Cause, Alive, Ended
<1>1. CASE Signal
  <2>1. /\ handlers' \in Seq(HandlerPc)
        /\ Len(handlers') = Len(handlers) + 1
        /\ \A i \in 1..Len(handlers) : handlers'[i + 1] = handlers[i]
    BY <1>1, <1>h, PushStack DEF Signal, HandlerPc
  <2>2. LockHolders'
    <3>1. Len(handlers') <= signals'
      BY <1>1, <2>1, <1>h DEF Signal
    <3>2. ASSUME NEW i \in DOMAIN handlers, handlers[i] = "stopping"
          PROVE  i + 1 \in DOMAIN handlers' /\ handlers'[i + 1] = "stopping"
      BY <2>1, <1>h, <3>2
    <3> QED
      BY <1>1, <3>1, <3>2 DEF Signal, events
  <2> QED
    <3>1. StreamTypeOK'
      BY <1>1, <2>1, StreamerAssumption DEF Signal, events, HandlerPc
    <3>2. InFrame' /\ SentLate' /\ StreamPhase'
      BY <1>1 DEF Signal, events
    <3>3. Causes'
      BY <1>1 DEF Signal, events
    <3> QED
      BY <2>2, <3>1, <3>2, <3>3
<1>2. ASSUME NEW l \in HandlerPc, handlers # <<>>, Continue(l), Head(handlers) # "stopping"
      PROVE  /\ handlers' \in Seq(HandlerPc)
             /\ Len(handlers') = Len(handlers)
             /\ handlers'[1] = l
             /\ \A i \in DOMAIN handlers :
                   handlers[i] = "stopping" => i \in DOMAIN handlers' /\ handlers'[i] = "stopping"
  <2>1. /\ handlers' \in Seq(HandlerPc)
        /\ Len(handlers') = Len(handlers)
        /\ handlers'[1] = l
        /\ \A i \in 2..Len(handlers) : handlers'[i] = handlers[i]
    BY <1>2, <1>h, ContinueStack DEF Continue
  <2> QED
    BY <1>2, <1>h, <2>1
<1>3. ASSUME handlers # <<>>, Return
      PROVE  /\ handlers' \in Seq(HandlerPc)
             /\ Len(handlers') = Len(handlers) - 1
             /\ \A i \in 2..Len(handlers) : handlers'[i - 1] = handlers[i]
  BY <1>3, <1>h, ReturnStack DEF Return
<1>4. CASE HandlerLock
  BY <1>4, <1>2, <1>h DEF HandlerLock, Top, HandlerPc, events
<1>5. CASE HandlerCount
  BY <1>5, <1>2, <1>h DEF HandlerCount, Top, HandlerPc, events
<1>6. CASE HandlerStop
  BY <1>6, <1>2, <1>h DEF HandlerStop, Top, HandlerPc
<1>7. CASE HandlerStopping
  BY <1>7, <1>3, <1>h DEF HandlerStopping, Top, HandlerPc
<1>8. CASE HandlerHard
  <2>1. StreamTypeOK'
    BY <1>8, <1>3, <1>h DEF HandlerHard, Top, HandlerPc
  <2>2. InFrame' /\ SentLate' /\ StreamPhase' /\ Causes'
    BY <1>8 DEF HandlerHard
  <2>3. LockHolders'
    <3>1. ASSUME NEW i \in DOMAIN handlers, handlers[i] = "stopping"
          PROVE  i - 1 \in DOMAIN handlers' /\ handlers'[i - 1] = "stopping"
      BY <1>8, <1>3, <1>h, <3>1 DEF HandlerHard, Top
    <3>2. Len(handlers') <= signals'
      BY <1>8, <1>3, <1>h DEF HandlerHard, Top
    <3> QED
      BY <1>8, <3>1, <3>2 DEF HandlerHard
  <2> QED
    BY <2>1, <2>2, <2>3
<1> QED
  BY <1>1, <1>4, <1>5, <1>6, <1>7, <1>8 DEF HandlerStep

\* Every step keeps the invariant.
LEMMA SInvStep == SInv /\ [StreamNext]_vars => SInv'
<1> SUFFICES ASSUME SInv, [StreamNext]_vars PROVE SInv'
  OBVIOUS
<1> USE DEF SInv, StreamTypeOK, mainVars, handlerVars, monitorVars, events, world,
      InFrame, SentLate, LockHolders, StreamPhase, StartRaised, Causes, Cause
<1>1. CASE MainStep
  BY <1>1, MainKeepsSInv
<1>2. CASE MonitorStep
  BY <1>2, MonitorKeepsSInv
<1>3. CASE Signal \/ HandlerStep
  BY <1>3, HandlersKeepSInv
<1>4. CASE Flip
  <2>1. StreamTypeOK'
    BY <1>4, StreamerAssumption DEF Flip
  <2>2. InFrame' /\ SentLate' /\ StreamPhase' /\ LockHolders'
    BY <1>4 DEF Flip
  <2>3. Causes'
    BY <1>4 DEF Flip, Unknown, Nothing, OnOff
  <2> QED
    BY <2>1, <2>2, <2>3
<1>5. CASE UNCHANGED vars
  BY <1>5 DEF vars
<1> QED
  BY <1>1, <1>2, <1>3, <1>4, <1>5 DEF StreamNext

-----------------------------------------------------------------------------
(* What follows from it *)

\* The invariant holds in every reachable state of test.py.
THEOREM SInvHolds == StreamSpec => []SInv
  BY SInvInit, SInvStep, PTL DEF StreamSpec

\* Every variable keeps its type.
THEOREM StreamTypeCorrect == StreamSpec => []StreamTypeOK
<1>1. SInv => StreamTypeOK
  BY DEF SInv
<1> QED
  BY <1>1, SInvHolds, PTL

\* After the second signal a loop sends at most one more light.
THEOREM HardStopHolds == StreamSpec => []HardStopCutsFrame
<1>1. SInv => HardStopCutsFrame
  BY DEF SInv, SentLate, HardStopCutsFrame
<1> QED
  BY <1>1, SInvHolds, PTL

\* After a stop, whoever asked for it, a loop sends at most the lights of a frame.
THEOREM FrameStopHolds == StreamSpec => []StopEndsWithFrame
<1>1. SInv => StopEndsWithFrame
  BY DEF SInv, SentLate, StopEndsWithFrame
<1> QED
  BY <1>1, SInvHolds, PTL

\* A running effect is not stopped without a signal, a switched light or an answer
\* without data.
THEOREM CauseHolds == StreamSpec => []StopHasCause
<1>1. SInv => StopHasCause
  BY DEF SInv, Causes, Cause, StopHasCause, Ended
<1> QED
  BY <1>1, SInvHolds, PTL

\* No way out of main leaves a started stream without stop_stream, but for an
\* exception of start_stream itself.
THEOREM ClosedHolds == StreamSpec => []StreamClosed
<1>1. SInv => StreamClosed
  BY DEF SInv, StreamPhase, StreamClosed, Alive
<1> QED
  BY <1>1, SInvHolds, PTL

\* One signal hangs the program only inside the main thread's own set(): a handler
\* that waits for another, or for its lock, is the second on the stack.
THEOREM OneSignalHolds == StreamSpec => []OneSignalIsSafe
<1>1. SInv => OneSignalIsSafe
  <2> SUFFICES ASSUME SInv, SelfBlocked, main \notin {"setting", "finalSetting"}
               PROVE  signals > 1
    BY DEF OneSignalIsSafe
  <2> USE DEF SInv, StreamTypeOK, LockHolders, Top
  <2>1. CASE Top("lock") /\ CtrlLockHeld
    BY <2>1 DEF CtrlLockHeld
  <2>2. CASE condLock = "main" /\ Top("stop")
    BY <2>2
  <2>3. CASE condLock = "main" /\ (At("set") \/ At("final"))
    BY <2>3 DEF At
  <2> QED
    BY <2>1, <2>2, <2>3 DEF SelfBlocked
<1> QED
  BY <1>1, SInvHolds, PTL

=============================================================================
