--------------------------- MODULE EffectStreamer ---------------------------
(***************************************************************************)
(* test.py: an entertainment effect is streamed to the lights of an area   *)
(* until it is over, until one of the lights is switched, which a daemon   *)
(* thread polls for, or until SIGINT or SIGTERM.  The handler of signals   *)
(* runs in the main thread, between any two steps of it and of itself, and *)
(* takes locks of which none is reentrant.                                 *)
(***************************************************************************)
EXTENDS Integers, Sequences

CONSTANTS
    Effects,    \* what --effect may name
    NumLights,  \* channels of the entertainment area
    Frames,     \* frames of an effect that is sent once; 5 in the code
    MaxSignals, \* bound: SIGINTs and SIGTERMs
    MaxFlips    \* bound: times the lights are switched

Looped == {"rainbow", "stroboscope", "flashing"}
Once   == {"bright", "randombright"}

ASSUME StreamerAssumption ==
    /\ Effects \subseteq Looped \cup Once
    /\ NumLights \in Nat \ {0} /\ Frames \in Nat \ {0}
    /\ MaxSignals \in Nat /\ MaxFlips \in Nat

VARIABLES
    effect,     \* --effect
    main,       \* where the main thread's own code is
    idx, frame, \* the light of a frame, the frame of an effect sent once
    failing,    \* an exception is on its way through the finally block
    stream,     \* the entertainment stream
    handlers,   \* the signal handlers on the main thread's stack, innermost first
    ctrlC,      \* _ctrl_c_count
    stop, hard, \* stop_event, hard_stop_event
    condLock,   \* who holds the lock inside stop_event
    monitor,    \* where the monitor thread is
    lights,     \* the watched lights, on or off
    lastStates, \* last_states
    blank,      \* history: an answer named none of the lights
    signals,    \* how many signals have come
    flips,      \* how often the lights have been switched
    late,       \* history: set_inputs since stop and since hard_stop was requested
    switched    \* history: a light was switched after the monitor's first look

mainVars    == <<effect, main, idx, frame, failing, stream>>
handlerVars == <<handlers, ctrlC, signals>>
monitorVars == <<monitor, lastStates, blank>>
events      == <<stop, hard, condLock>>
world       == <<lights, flips, switched>>
vars == <<mainVars, handlerVars, monitorVars, events, world, late>>

OnOff   == {"on", "off"}
Unknown == "unknown"    \* last_states is None
Nothing == "nothing"    \* {}: an answer without data
Ended   == {"done", "raised"}

StreamTypeOK ==
    /\ effect \in Effects
    /\ main \in {"configs", "area", "monitor", "start", "loop", "frame", "send",
                 "sleep", "set", "setting", "finally", "final", "finalSetting",
                 "join"} \cup Ended
    /\ idx \in 0..NumLights /\ frame \in 0..Frames
    /\ failing \in BOOLEAN
    /\ stream \in {"off", "on", "stopped", "stopFailed"}
    /\ handlers \in Seq({"lock", "count", "stop", "stopping", "hard"})
    /\ ctrlC \in Nat /\ signals \in 0..MaxSignals
    /\ stop \in BOOLEAN /\ hard \in BOOLEAN
    /\ condLock \in {"free", "main", "monitor"}
    /\ monitor \in {"none", "test", "fetch", "set", "setting", "ended"}
    /\ lights \in OnOff /\ lastStates \in OnOff \cup {Unknown, Nothing}
    /\ blank \in BOOLEAN
    /\ flips \in 0..MaxFlips
    /\ late \in [stop : 0..NumLights + 1, hard : 0..2]
    /\ switched \in BOOLEAN

StreamInit ==
    /\ effect \in Effects
    /\ main = "configs"
    /\ idx = 0 /\ frame = 0
    /\ failing = FALSE
    /\ stream = "off"
    /\ handlers = <<>>
    /\ ctrlC = 0 /\ signals = 0
    /\ stop = FALSE /\ hard = FALSE
    /\ condLock = "free"
    /\ monitor = "none"
    /\ lights \in OnOff /\ lastStates = Unknown /\ blank = FALSE
    /\ flips = 0
    /\ late = [stop |-> 0, hard |-> 0]
    /\ switched = FALSE

Alive == main \notin Ended

-----------------------------------------------------------------------------
(* The main thread, which runs its own code while no handler is on its stack *)

At(l)   == handlers = <<>> /\ main = l
Goto(l) == main' = l

\* The bridge answers, or an exception ends the program; --list-areas returns.
GetConfigs ==
    /\ At("configs")
    /\ \E l \in {"area", "done", "raised"} : Goto(l)
    /\ UNCHANGED <<effect, idx, frame, failing, stream, handlerVars, monitorVars,
                   events, world, late>>

\* The area is chosen by name and its JSON fetched: no such area, no channels and
\* a failed request raise.
ChooseArea ==
    /\ At("area")
    /\ \E l \in {"monitor", "raised"} : Goto(l)
    /\ UNCHANGED <<effect, idx, frame, failing, stream, handlerVars, monitorVars,
                   events, world, late>>

\* The lights are watched if the area lists any, and not for bright.
StartMonitor ==
    /\ At("monitor")
    /\ Goto("start")
    /\ \/ effect # "bright" /\ monitor' = "test"
       \/ UNCHANGED monitor
    /\ UNCHANGED <<effect, idx, frame, failing, stream, handlerVars, lastStates, blank,
                   events, world, late>>

\* start_stream is outside the try: if it raises, nothing is stopped, and the bridge
\* may have begun all the same, if only its answer or what follows it failed.
StartStream ==
    /\ At("start")
    /\ \/ /\ stream' = "on"
          /\ Goto(IF effect \in Looped THEN "loop" ELSE "frame")
       \/ Goto("raised") /\ stream' \in {"off", "on"}
    /\ UNCHANGED <<effect, idx, frame, failing, handlerVars, monitorVars, events,
                   world, late>>

\* Mutant: the loop waits for the second signal.
LoopTestHard ==
    /\ At("loop")
    /\ Goto(IF hard THEN "finally" ELSE "frame")
    /\ idx' = 0
    /\ UNCHANGED <<effect, frame, failing, stream, handlerVars, monitorVars, events,
                   world, late>>

\* The condition of the effect's while.
LoopTest ==
    /\ At("loop")
    /\ Goto(IF stop \/ hard THEN "finally" ELSE "frame")
    /\ idx' = 0
    /\ UNCHANGED <<effect, frame, failing, stream, handlerVars, monitorVars, events,
                   world, late>>

\* Mutant: the loops do not look at hard_stop_event within a frame.
NextLightAnyway ==
    /\ At("frame")
    /\ Goto(IF idx = NumLights THEN "sleep" ELSE "send")
    /\ UNCHANGED <<effect, idx, frame, failing, stream, handlerVars, monitorVars,
                   events, world, late>>

\* The next light of a frame; the loops leave the frame on hard_stop_event.
NextLight ==
    /\ At("frame")
    /\ Goto(IF idx = NumLights \/ (effect \in Looped /\ hard) THEN "sleep" ELSE "send")
    /\ UNCHANGED <<effect, idx, frame, failing, stream, handlerVars, monitorVars,
                   events, world, late>>

\* One more light is sent; the history stops counting beyond what is allowed.
OneMore ==
    [stop |-> IF stop /\ late.stop <= NumLights THEN late.stop + 1 ELSE late.stop,
     hard |-> IF hard /\ late.hard <= 1 THEN late.hard + 1 ELSE late.hard]

\* Mutant: an exception leaves main without the finally block.
SendUnguarded ==
    /\ At("send")
    /\ \/ /\ idx' = idx + 1
          /\ Goto("frame")
          /\ late' = OneMore
          /\ UNCHANGED failing
       \/ /\ failing' = TRUE
          /\ Goto("raised")
          /\ UNCHANGED <<idx, late>>
    /\ UNCHANGED <<effect, frame, stream, handlerVars, monitorVars, events, world>>

\* streaming.set_input; an exception goes through the finally block.
Send ==
    /\ At("send")
    /\ \/ /\ idx' = idx + 1
          /\ Goto("frame")
          /\ late' = OneMore
          /\ UNCHANGED failing
       \/ /\ failing' = TRUE
          /\ Goto("finally")
          /\ UNCHANGED <<idx, late>>
    /\ UNCHANGED <<effect, frame, stream, handlerVars, monitorVars, events, world>>

\* Mutant: a loop begins the next frame without its test.
SleepOnly ==
    /\ At("sleep")
    /\ idx' = 0
    /\ \/ effect \in Looped /\ Goto("frame") /\ UNCHANGED frame
       \/ /\ effect \in Once
          /\ frame' = frame + 1
          /\ Goto(IF frame + 1 < Frames THEN "frame" ELSE "set")
    /\ UNCHANGED <<effect, failing, stream, handlerVars, monitorVars, events, world,
                   late>>

\* The pause after a frame.
Sleep ==
    /\ At("sleep")
    /\ idx' = 0
    /\ \/ effect \in Looped /\ Goto("loop") /\ UNCHANGED frame
       \/ /\ effect \in Once
          /\ frame' = frame + 1
          /\ Goto(IF frame + 1 < Frames THEN "frame" ELSE "set")
    /\ UNCHANGED <<effect, failing, stream, handlerVars, monitorVars, events, world,
                   late>>

\* stop_event.set() of the main thread, at the end of an effect sent once and in
\* the finally block: it takes the lock of the event, ...
MainSet ==
    /\ \/ At("set") /\ Goto("setting")
       \/ At("final") /\ Goto("finalSetting")
    /\ condLock = "free"
    /\ condLock' = "main"
    /\ UNCHANGED <<effect, idx, frame, failing, stream, handlerVars, monitorVars,
                   stop, hard, world, late>>

\* ... sets the flag and releases it.
MainSetting ==
    /\ \/ At("setting") /\ Goto("finally")
       \/ At("finalSetting") /\ Goto("join")
    /\ stop' = TRUE
    /\ condLock' = "free"
    /\ UNCHANGED <<effect, idx, frame, failing, stream, handlerVars, monitorVars,
                   hard, world, late>>

\* stop_stream, whose exceptions are logged.
StopStream ==
    /\ At("finally")
    /\ \E s \in {"stopped", "stopFailed"} : stream' = s
    /\ Goto("final")
    /\ UNCHANGED <<effect, idx, frame, failing, handlerVars, monitorVars, events,
                   world, late>>

\* monitor_thread.join(timeout=2.0) returns in any case; the daemon thread ends
\* with the program.
Join ==
    /\ At("join")
    /\ Goto(IF failing THEN "raised" ELSE "done")
    /\ UNCHANGED <<effect, idx, frame, failing, stream, handlerVars, monitorVars,
                   events, world, late>>

MainStep ==
    \/ GetConfigs \/ ChooseArea \/ StartMonitor \/ StartStream \/ LoopTest
    \/ NextLight \/ Send \/ Sleep \/ MainSet \/ MainSetting \/ StopStream \/ Join

-----------------------------------------------------------------------------
(* Signals.  A handler runs on top of whatever the main thread was doing. *)

\* _ctrl_c_lock is held from the first step of a handler to its end.
CtrlLockHeld == \E i \in DOMAIN handlers : handlers[i] # "lock"

Top(l)       == handlers # <<>> /\ Head(handlers) = l
Continue(l)  == handlers' = <<l>> \o Tail(handlers)
Return       == handlers' = Tail(handlers)

\* SIGINT or SIGTERM; both have the same handler.
Signal ==
    /\ Alive
    /\ signals < MaxSignals
    /\ signals' = signals + 1
    /\ handlers' = <<"lock">> \o handlers
    /\ UNCHANGED <<mainVars, ctrlC, monitorVars, events, world, late>>

HandlerLock ==
    /\ Top("lock")
    /\ ~CtrlLockHeld
    /\ Continue("count")
    /\ UNCHANGED <<mainVars, ctrlC, signals, monitorVars, events, world, late>>

\* The first signal asks for a graceful stop, every other for a hard one.
HandlerCount ==
    /\ Top("count")
    /\ ctrlC' = ctrlC + 1
    /\ Continue(IF ctrlC = 0 THEN "stop" ELSE "hard")
    /\ UNCHANGED <<mainVars, signals, monitorVars, events, world, late>>

HandlerStop ==
    /\ Top("stop")
    /\ condLock = "free"
    /\ condLock' = "main"
    /\ Continue("stopping")
    /\ UNCHANGED <<mainVars, ctrlC, signals, monitorVars, stop, hard, world, late>>

\* Mutant: the lock of the event is not released.
HandlerStoppingHeld ==
    /\ Top("stopping")
    /\ stop' = TRUE
    /\ Return
    /\ UNCHANGED <<mainVars, ctrlC, signals, monitorVars, hard, condLock, world, late>>

HandlerStopping ==
    /\ Top("stopping")
    /\ stop' = TRUE
    /\ condLock' = "free"
    /\ Return
    /\ UNCHANGED <<mainVars, ctrlC, signals, monitorVars, hard, world, late>>

\* Nothing but a handler uses hard_stop_event's own lock.
HandlerHard ==
    /\ Top("hard")
    /\ hard' = TRUE
    /\ Return
    /\ UNCHANGED <<mainVars, ctrlC, signals, monitorVars, stop, condLock, world, late>>

HandlerStep ==
    HandlerLock \/ HandlerCount \/ HandlerStop \/ HandlerStopping \/ HandlerHard

-----------------------------------------------------------------------------
(* The monitor thread *)

MonitorAt(l)   == Alive /\ monitor = l
MonitorGoto(l) == monitor' = l

MonitorTest ==
    /\ MonitorAt("test")
    /\ MonitorGoto(IF stop \/ hard THEN "ended" ELSE "fetch")
    /\ UNCHANGED <<mainVars, handlerVars, lastStates, blank, events, world, late>>

\* Mutant: every answer is what the next one is compared with.
MonitorForgets ==
    /\ MonitorAt("fetch")
    /\ lastStates' = lights
    /\ MonitorGoto("test")
    /\ UNCHANGED <<mainVars, handlerVars, blank, events, world, late>>

\* The first answer is remembered; one that differs from it ends the loop.  An
\* answer without data is one that shows no light.
MonitorFetch ==
    /\ MonitorAt("fetch")
    /\ \E states \in {lights, Nothing} :
          /\ lastStates' = IF lastStates = Unknown THEN states ELSE lastStates
          /\ MonitorGoto(IF lastStates' = states THEN "test" ELSE "set")
          /\ blank' = (blank \/ states = Nothing)
    /\ UNCHANGED <<mainVars, handlerVars, events, world, late>>

\* Mutant: a failed request counts as a change.
MonitorErrorStops ==
    /\ MonitorAt("fetch")
    /\ MonitorGoto("set")
    /\ UNCHANGED <<mainVars, handlerVars, lastStates, blank, events, world, late>>

\* A request that fails is tried again after half a second.
MonitorError ==
    /\ MonitorAt("fetch")
    /\ MonitorGoto("test")
    /\ UNCHANGED <<mainVars, handlerVars, lastStates, blank, events, world, late>>

\* stop_evt.set(), as in the main thread.
MonitorSet ==
    /\ MonitorAt("set")
    /\ condLock = "free"
    /\ condLock' = "monitor"
    /\ MonitorGoto("setting")
    /\ UNCHANGED <<mainVars, handlerVars, lastStates, blank, stop, hard, world, late>>

MonitorSetting ==
    /\ MonitorAt("setting")
    /\ stop' = TRUE
    /\ condLock' = "free"
    /\ MonitorGoto("ended")
    /\ UNCHANGED <<mainVars, handlerVars, lastStates, blank, hard, world, late>>

MonitorStep ==
    MonitorTest \/ MonitorFetch \/ MonitorError \/ MonitorSet \/ MonitorSetting

\* Somebody switches a light of the area.
Flip ==
    /\ flips < MaxFlips
    /\ flips' = flips + 1
    /\ lights' \in OnOff \ {lights}
    /\ switched' = (switched \/ lastStates # Unknown)
    /\ UNCHANGED <<mainVars, handlerVars, monitorVars, events, late>>

StreamNext == MainStep \/ HandlerStep \/ MonitorStep \/ Signal \/ Flip

\* Threads are scheduled, calls of the library return, and of infinitely many
\* requests of the monitor one is answered.  Nobody has to signal or to switch.
StreamFairness ==
    /\ WF_vars(MainStep)
    /\ WF_vars(HandlerStep)
    /\ WF_vars(MonitorStep)
    /\ SF_vars(MonitorFetch)

StreamSpec == StreamInit /\ [][StreamNext]_vars /\ StreamFairness

-----------------------------------------------------------------------------
(* Properties *)

\* The main thread waits for a lock that it holds itself: a handler for the
\* _ctrl_c_lock of a handler below it, or anybody for the lock of stop_event.
SelfBlocked ==
    \/ Top("lock") /\ CtrlLockHeld
    \/ condLock = "main" /\ (Top("stop") \/ At("set") \/ At("final"))

\* A signal alone does not hang the program, unless it comes while the main
\* thread itself is inside stop_event.set() (handle_sigint, Event.set).
OneSignalIsSafe ==
    SelfBlocked => signals > 1 \/ main \in {"setting", "finalSetting"}

\* Once the hard stop is requested, a loop sends at most the one light whose
\* test had been passed (run_rainbow_loop and the others).
HardStopCutsFrame == effect \in Looped => late.hard <= 1

\* Once a stop is requested, by either thread, a loop finishes one frame at most.
StopEndsWithFrame == effect \in Looped => late.stop <= NumLights

\* Nothing stops a loop but a signal, a failed set_input, a light that was switched
\* after the monitor had looked, or an answer without data, which fetch_light_states
\* takes for one without lights; requests that fail do not (monitor_onoff).
StopHasCause ==
    stop /\ main \in {"loop", "frame", "send", "sleep"} => signals > 0 \/ switched \/ blank

\* However the program ends - effect over, stopped, exception in the middle of a
\* frame - a stream that was started has been asked to stop (main), unless it was
\* start_stream itself that raised, which no finally block is around.
StartRaised  == main = "raised" /\ ~failing
StreamClosed == ~Alive /\ stream = "on" => StartRaised

\* Whoever asks for a stop, the program ends, but for a main thread that waits
\* for itself.
StopTakesEffect == stop \/ hard ~> ~Alive \/ SelfBlocked

\* A light that is switched, and stays so, stops the effect.
SwitchStops ==
    \A b \in OnOff :
        lastStates = b /\ <>[](lights # b) ~> stop \/ ~Alive \/ SelfBlocked

\* "Second Ctrl-C: immediate exit" (docstring of test.py): with two signals the
\* program ends.
SecondSignalExits == signals >= 2 ~> ~Alive
=============================================================================
