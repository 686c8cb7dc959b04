---------------------------- MODULE DisplaySleep ----------------------------
(***************************************************************************)
(* The backlight, its sleep timer and the user button:                     *)
(* main/display/display_model.c, btn/button_press_state.c, btn/btn.c and   *)
(* what display_view.c posts.                                              *)
(*                                                                         *)
(* The button library and the sleep timer call back on the ESP timer's     *)
(* task, one callback at a time; the settings screen's commands are        *)
(* handled on the event loop's task, its brightness states on that or on   *)
(* the retry task (ViewEvent).  A step is one critical section of          *)
(* _g_data_mutex, one call of the timer or one write of the backlight.     *)
(* display_st is touched by the timer task alone, so it is written with    *)
(* the backlight.  A failed ESP_ERROR_CHECK restarts the device.           *)
(*                                                                         *)
(* s_elapsed_ms is kept as the number of thresholds it has passed, and a   *)
(* configuration's sleep is sleep_mode_en with a time other than zero.     *)
(***************************************************************************)
EXTENDS Naturals, Sequences, FiniteSets

CONSTANTS
  Levels,        \* brightness levels
  MaxPresses,    \* bound on presses of the button
  MaxSettings    \* bound on settings and brightness changes

Loop  == "view_event_task"
Retry == "view_state_retry"
Timer == "esp_timer"
Tasks == {Loop, Retry, Timer}

Dark    == 0
Default == [brightness |-> CHOOSE l \in Levels : TRUE, sleep |-> FALSE]
Configs == [brightness : Levels, sleep : BOOLEAN]

\* BUTTON_SLEEP_ and BUTTON_FACTORY_RESET_THRESHOLD_MS, 3 and 10 s.  The limit
\* of a release, 15 s, lies behind the factory reset and the restart it brings.
Sleeping == 1
Reset    == 2

ASSUME DisplayAssumptions ==
  /\ Levels # {} /\ Levels \subseteq Nat \ {Dark}
  /\ MaxPresses \in Nat
  /\ MaxSettings \in Nat

VARIABLES
  nvs,         \* the stored configuration
  cfg,         \* _g_display_model.cfg
  timer_st,    \* _g_display_model.timer_st
  display_st,  \* _g_display_model.display_st
  backlight,   \* brightness of the backlight, or Dark
  armed,       \* the sleep timer is running
  pc, job,     \* per task, the step it is at and what it works with
  commands,    \* DISPLAY_CFG_APPLY on its way
  brightness,  \* BRIGHTNESS_UPDATE on its way, or Dark for none
  button,      \* state of the button library, 0 when released
  repeat,      \* presses since then, 2 for more than one
  elapsed,     \* thresholds s_elapsed_ms has passed
  emitted,     \* actions this press has emitted: s_..._emitted
  sleep_flag,  \* a shutdown was accepted
  resetDue,    \* factory_reset_timer_handle is running
  shutdowns,   \* shutdowns accepted since the last long press began
  waited,      \* tasks in an operation since before the timer was armed
  applied,     \* sleep of the configuration applied last
  raced,       \* operations have overlapped since the device started
  presses, settings   \* counted for the bounds

model  == <<cfg, timer_st, display_st, backlight, armed>>
screen == <<commands, brightness>>
btn    == <<button, repeat, elapsed, emitted, sleep_flag, resetDue, shutdowns>>
ghosts == <<waited, applied, raced>>
counts == <<presses, settings>>
vars   == <<nvs, cfg, timer_st, display_st, backlight, armed, pc, job, commands,
            brightness, button, repeat, elapsed, emitted, sleep_flag, resetDue,
            shutdowns, waited, applied, raced, presses, settings>>

NoJob == [cfg |-> Default, then |-> "none"]

\* indicator_display_init and indicator_btn_init, with what NVS holds.
Booted(stored) ==
  /\ nvs = stored /\ cfg = stored
  /\ timer_st = stored.sleep /\ armed = stored.sleep
  /\ display_st = TRUE /\ backlight = stored.brightness
  /\ pc = [t \in Tasks |-> "idle"] /\ job = [t \in Tasks |-> NoJob]
  /\ commands = <<>> /\ brightness = Dark
  /\ button = 0 /\ repeat = 0 /\ elapsed = 0 /\ emitted = {}
  /\ sleep_flag = FALSE /\ resetDue = FALSE /\ shutdowns = 0
  /\ waited = {} /\ applied = stored.sleep /\ raced = FALSE

Init ==
  /\ \E stored \in Configs : Booted(stored)
  /\ presses = 0 /\ settings = 0

\* esp_restart or a failed check: only NVS survives.
Restart(stored) ==
  /\ nvs' = stored /\ cfg' = stored
  /\ timer_st' = stored.sleep /\ armed' = stored.sleep
  /\ display_st' = TRUE /\ backlight' = stored.brightness
  /\ pc' = [t \in Tasks |-> "idle"] /\ job' = [t \in Tasks |-> NoJob]
  /\ commands' = <<>> /\ brightness' = Dark
  /\ button' = 0 /\ repeat' = 0 /\ elapsed' = 0 /\ emitted' = {}
  /\ sleep_flag' = FALSE /\ resetDue' = FALSE /\ shutdowns' = 0
  /\ waited' = {} /\ applied' = stored.sleep /\ raced' = FALSE
  /\ UNCHANGED counts

-----------------------------------------------------------------------------
Idle(t)  == pc[t] = "idle"
Go(t, step) == pc' = [pc EXCEPT ![t] = step]

\* Operations on the sleep timer, which only these two tasks begin.
Others(t) == {u \in {Loop, Timer} \ {t} : ~Idle(u) /\ pc[u] \notin {"copy", "write"}}

\* Task t begins an operation with its first step.
Begin(t, step, j) ==
  /\ pc' = [pc EXCEPT ![t] = step]
  /\ job' = [job EXCEPT ![t] = j]
  /\ raced' = (raced \/ \E u \in Tasks \ {t} : ~Idle(u))
  /\ applied' = IF step = "save" THEN j.cfg.sleep ELSE applied
  /\ UNCHANGED waited

\* The callback that comes with task t's operation is done; a factory reset
\* goes on to start its own timer.
Finish(t) ==
  /\ pc' = [pc EXCEPT ![t] = "idle"]
  /\ job' = [job EXCEPT ![t] = NoJob]
  /\ resetDue' = (resetDue \/ job[t].then = "reset")

\* _sleep_mode_restart and _timer_stop.  timer_st is read ...
CheckTimer(t) ==
  /\ pc[t] = "check"
  /\ \/ timer_st /\ Go(t, "stop") /\ UNCHANGED <<job, resetDue, waited>>
     \/ /\ ~timer_st /\ job[t].cfg.sleep
        /\ Go(t, "mark") /\ UNCHANGED <<job, resetDue, waited>>
     \/ ~timer_st /\ ~job[t].cfg.sleep /\ Finish(t) /\ waited' = waited \ {t}
  /\ UNCHANGED <<nvs, model, screen, button, repeat, elapsed, emitted, sleep_flag,
                 shutdowns, applied, raced, counts>>

\* ... the timer is stopped, if it still runs, ...
StopTimer(t) ==
  /\ pc[t] = "stop" /\ armed
  /\ armed' = FALSE
  /\ Go(t, "clear")
  /\ UNCHANGED <<nvs, cfg, timer_st, display_st, backlight, job, screen, btn, ghosts,
                 counts>>

ClearTimer(t) ==
  /\ pc[t] = "clear"
  /\ timer_st' = FALSE
  /\ IF job[t].cfg.sleep
       THEN Go(t, "mark") /\ UNCHANGED <<job, resetDue, waited>>
       ELSE Finish(t) /\ waited' = waited \ {t}
  /\ UNCHANGED <<nvs, cfg, display_st, backlight, armed, screen, button, repeat,
                 elapsed, emitted, sleep_flag, shutdowns, applied, raced, counts>>

\* ... and started again.
MarkTimer(t) ==
  /\ pc[t] = "mark"
  /\ timer_st' = TRUE
  /\ Go(t, "start")
  /\ UNCHANGED <<nvs, cfg, display_st, backlight, armed, job, screen, btn, ghosts,
                 counts>>

StartTimer(t) ==
  /\ pc[t] = "start" /\ ~armed
  /\ armed' = TRUE
  /\ Finish(t)
  /\ waited' = Others(t)
  /\ UNCHANGED <<nvs, cfg, timer_st, display_st, backlight, screen, button, repeat,
                 elapsed, emitted, sleep_flag, shutdowns, applied, raced, counts>>

\* ESP_ERROR_CHECK of esp_timer_stop and esp_timer_start_once, which fail with
\* ESP_ERR_INVALID_STATE.
Fails(t) == (pc[t] = "stop" /\ ~armed) \/ (pc[t] = "start" /\ armed)

Abort(t) == Fails(t) /\ Restart(nvs)

-----------------------------------------------------------------------------
\* Mutant: the same configuration is posted twice.
UserConfiguresTwice(c) ==
  /\ settings < MaxSettings
  /\ settings' = settings + 1
  /\ commands' = commands \o <<c, c>>
  /\ UNCHANGED <<nvs, model, pc, job, brightness, btn, ghosts, presses>>

\* The settings screen posts a configuration (_post_display_cfg) ...
UserConfigures(c) ==
  /\ settings < MaxSettings
  /\ settings' = settings + 1
  /\ commands' = Append(commands, c)
  /\ UNCHANGED <<nvs, model, pc, job, brightness, btn, ghosts, presses>>

\* ... or publishes a brightness, which replaces one on its way.
UserSlides(l) ==
  /\ settings < MaxSettings
  /\ settings' = settings + 1
  /\ brightness' = l
  /\ UNCHANGED <<nvs, model, pc, job, commands, btn, ghosts, presses>>

\* _view_event_handler, DISPLAY_CFG_APPLY: set, saved if NVS takes it, and the
\* timer restarted.
ApplyConfig ==
  /\ Idle(Loop) /\ commands # <<>>
  /\ cfg' = Head(commands)
  /\ commands' = Tail(commands)
  /\ Begin(Loop, "save", [cfg |-> Head(commands), then |-> "none"])
  /\ UNCHANGED <<nvs, timer_st, display_st, backlight, armed, brightness, btn, counts>>

SaveConfig ==
  /\ pc[Loop] = "save"
  /\ nvs' \in {job[Loop].cfg, nvs}
  /\ Go(Loop, "check")
  /\ UNCHANGED <<model, job, screen, btn, ghosts, counts>>

\* BRIGHTNESS_UPDATE: the backlight is set, then the configuration is read,
\* changed and written back.
SetBacklight(t) ==
  /\ Idle(t) /\ brightness # Dark
  /\ backlight' = brightness
  /\ brightness' = Dark
  /\ pc' = [pc EXCEPT ![t] = "copy"]
  /\ job' = [job EXCEPT ![t].cfg.brightness = brightness]
  /\ raced' = (raced \/ \E u \in Tasks \ {t} : ~Idle(u))
  /\ UNCHANGED <<nvs, cfg, timer_st, display_st, armed, commands, btn, waited,
                 applied, counts>>

CopyConfig(t) ==
  /\ pc[t] = "copy"
  /\ job' = [job EXCEPT ![t].cfg.sleep = cfg.sleep]
  /\ Go(t, "write")
  /\ UNCHANGED <<nvs, model, screen, btn, ghosts, counts>>

WriteConfig(t) ==
  /\ pc[t] = "write"
  /\ cfg' = job[t].cfg
  /\ Go(t, "idle")
  /\ job' = [job EXCEPT ![t] = NoJob]
  /\ UNCHANGED <<nvs, timer_st, display_st, backlight, armed, screen, btn, ghosts,
                 counts>>

-----------------------------------------------------------------------------
\* _sleep_mode_timer_callback, a minute or more after the timer was armed:
\* whatever was going on then is done.
SleepTimerFires ==
  /\ Idle(Timer) /\ armed /\ waited = {}
  /\ armed' = FALSE
  /\ Begin(Timer, "fired", NoJob)
  /\ UNCHANGED <<nvs, cfg, timer_st, display_st, backlight, screen, btn, counts>>

\* _lcd_bl_off, of the callback and of indicator_display_off.
TurnOff ==
  /\ pc[Timer] \in {"fired", "off"}
  /\ backlight' = Dark
  /\ display_st' = FALSE
  /\ Go(Timer, IF pc[Timer] = "fired" THEN "ring" ELSE "check")
  /\ UNCHANGED <<nvs, cfg, timer_st, armed, job, screen, btn, ghosts, counts>>

\* Mutant: timer_st is left to say that the timer runs.
FiredTimerForgets ==
  /\ pc[Timer] = "ring"
  /\ Finish(Timer)
  /\ waited' = waited \ {Timer}
  /\ UNCHANGED <<nvs, model, screen, button, repeat, elapsed, emitted, sleep_flag,
                 shutdowns, applied, raced, counts>>

FiredTimerClears ==
  /\ pc[Timer] = "ring"
  /\ timer_st' = FALSE
  /\ Finish(Timer)
  /\ waited' = waited \ {Timer}
  /\ UNCHANGED <<nvs, cfg, display_st, backlight, armed, screen, button, repeat,
                 elapsed, emitted, sleep_flag, shutdowns, applied, raced, counts>>

\* indicator_display_on: _lcd_bl_on reads the brightness and sets it, then
\* indicator_display_sleep_restart reads the configuration again.
ReadBrightness ==
  /\ pc[Timer] = "on"
  /\ job' = [job EXCEPT ![Timer].cfg = cfg]
  /\ Go(Timer, "light")
  /\ UNCHANGED <<nvs, model, screen, btn, ghosts, counts>>

TurnOn ==
  /\ pc[Timer] = "light"
  /\ backlight' = job[Timer].cfg.brightness
  /\ display_st' = TRUE
  /\ Go(Timer, "reread")
  /\ UNCHANGED <<nvs, cfg, timer_st, armed, job, screen, btn, ghosts, counts>>

\* Mutant: the display is on and the sleep timer left alone.
RereadNothing ==
  /\ pc[Timer] = "reread"
  /\ Finish(Timer)
  /\ waited' = waited \ {Timer}
  /\ UNCHANGED <<nvs, model, screen, button, repeat, elapsed, emitted, sleep_flag,
                 shutdowns, applied, raced, counts>>

RereadConfig ==
  /\ pc[Timer] = "reread"
  /\ job' = [job EXCEPT ![Timer].cfg = cfg]
  /\ Go(Timer, "check")
  /\ UNCHANGED <<nvs, model, screen, btn, ghosts, counts>>

DisplayOff      == Begin(Timer, "off", NoJob)
DisplayOn(then) == Begin(Timer, "on", [NoJob EXCEPT !.then = then])

-----------------------------------------------------------------------------
\* The button library (button_handler), debounced.
PressBegins ==
  /\ Idle(Timer) /\ button \in {0, 2} /\ presses < MaxPresses
  /\ presses' = presses + 1
  /\ button' = IF button = 0 THEN 1 ELSE 3
  /\ repeat' = IF button = 0 THEN 1 ELSE 2
  /\ UNCHANGED <<nvs, model, pc, job, screen, elapsed, emitted, sleep_flag, resetDue,
                 shutdowns, ghosts, settings>>

\* BUTTON_LONG_PRESS_START: button_press_begin.
LongPressBegins ==
  /\ Idle(Timer) /\ button = 1
  /\ button' = 5
  /\ elapsed' = 0
  /\ emitted' = {}
  /\ shutdowns' = 0
  /\ UNCHANGED <<nvs, model, pc, job, screen, repeat, sleep_flag, resetDue, ghosts,
                 counts>>

\* BUTTON_LONG_PRESS_HOLD, when button_press_hold passes a threshold.  The 3 s
\* to a factory reset are over before another press has been held so long.
HoldPasses(threshold) ==
  /\ Idle(Timer) /\ button = 5 /\ ~resetDue
  /\ elapsed + 1 = threshold

\* RESTART, which wakes the device, ...
HoldRestarts ==
  /\ HoldPasses(Sleeping) /\ sleep_flag
  /\ Restart(nvs)

\* ... PREPARE_SLEEP, ...
HoldPreparesSleep ==
  /\ HoldPasses(Sleeping) /\ ~sleep_flag
  /\ elapsed' = Sleeping
  /\ emitted' = emitted \cup {"sleep"}
  /\ DisplayOff
  /\ UNCHANGED <<nvs, model, screen, button, repeat, sleep_flag, resetDue, shutdowns,
                 counts>>

\* ... or FACTORY_RESET, whether or not its command is accepted.
HoldResets ==
  /\ HoldPasses(Reset)
  /\ elapsed' = Reset
  /\ emitted' = emitted \cup {"reset"}
  /\ DisplayOn("reset")
  /\ UNCHANGED <<nvs, model, screen, button, repeat, sleep_flag, resetDue, shutdowns,
                 counts>>

\* Mutant: an accepted shutdown is not remembered.
ReleaseShutsDownAgain ==
  /\ elapsed >= Sleeping
  /\ "reset" \notin emitted

\* button_press_release: SHUTDOWN is emitted until it has been accepted, and
\* never by a press that came to the factory reset.
ReleaseShutsDown ==
  /\ elapsed >= Sleeping
  /\ emitted \cap {"reset", "shutdown"} = {}

Release ==
  /\ Idle(Timer) /\ button \in {1, 3, 5}
  /\ \/ button = 1 /\ button' = 2
     \/ button = 3 /\ button' \in {0, 2}
     \/ button = 5 /\ button' = 0

\* BUTTON_PRESS_UP: the command is accepted, or rejected and the display is on
\* again.
ReleasedQuietly ==
  /\ Release /\ ~ReleaseShutsDown
  /\ UNCHANGED <<nvs, model, pc, job, screen, repeat, elapsed, emitted, sleep_flag,
                 resetDue, shutdowns, ghosts, counts>>

ShutdownAccepted ==
  /\ Release /\ ReleaseShutsDown
  /\ emitted' = emitted \cup {"shutdown"}
  /\ sleep_flag' = TRUE
  /\ shutdowns' = shutdowns + 1
  /\ UNCHANGED <<nvs, model, pc, job, screen, repeat, elapsed, resetDue, ghosts,
                 counts>>

ShutdownRejected ==
  /\ Release /\ ReleaseShutsDown
  /\ DisplayOn("none")
  /\ UNCHANGED <<nvs, model, screen, repeat, elapsed, emitted, sleep_flag, resetDue,
                 shutdowns, counts>>

\* BUTTON_SINGLE_CLICK: a sleeping device restarts, otherwise the display is
\* toggled.  BUTTON_DOUBLE_CLICK does nothing.
ClickRestarts ==
  /\ Idle(Timer) /\ button = 2 /\ repeat = 1 /\ sleep_flag
  /\ Restart(nvs)

ClickToggles ==
  /\ Idle(Timer) /\ button = 2 /\ repeat = 1 /\ ~sleep_flag
  /\ button' = 0
  /\ IF display_st THEN DisplayOff ELSE DisplayOn("none")
  /\ UNCHANGED <<nvs, model, screen, repeat, elapsed, emitted, sleep_flag, resetDue,
                 shutdowns, counts>>

DoubleClicked ==
  /\ Idle(Timer) /\ button = 2 /\ repeat = 2
  /\ button' = 0
  /\ UNCHANGED <<nvs, model, pc, job, screen, repeat, elapsed, emitted, sleep_flag,
                 resetDue, shutdowns, ghosts, counts>>

\* _factory_reset_callback.
FactoryReset ==
  /\ Idle(Timer) /\ resetDue
  /\ Restart(Default)

-----------------------------------------------------------------------------
TimerStep(t) == CheckTimer(t) \/ StopTimer(t) \/ ClearTimer(t) \/ MarkTimer(t) \/ StartTimer(t)

BrightnessStep(t) == SetBacklight(t) \/ CopyConfig(t) \/ WriteConfig(t)

\* What a task does with the operation it is in, or a handler with an event.
Works ==
  \/ \E t \in {Loop, Timer} : TimerStep(t) \/ Abort(t)
  \/ \E t \in {Loop, Retry} : BrightnessStep(t)
  \/ ApplyConfig \/ SaveConfig
  \/ TurnOff \/ FiredTimerClears
  \/ ReadBrightness \/ TurnOn \/ RereadConfig

Users ==
  \/ \E c \in Configs : UserConfigures(c)
  \/ \E l \in Levels : UserSlides(l)
  \/ PressBegins \/ LongPressBegins
  \/ HoldRestarts \/ HoldPreparesSleep \/ HoldResets
  \/ ReleasedQuietly \/ ShutdownAccepted \/ ShutdownRejected
  \/ ClickRestarts \/ ClickToggles \/ DoubleClicked

Next == Works \/ Users \/ SleepTimerFires \/ FactoryReset

Spec == Init /\ [][Next]_vars

(***************************************************************************)
(* Tasks go on with what they have begun and handle what was posted, and   *)
(* the sleep timer expires.  Nobody has to touch the button or the screen. *)
(***************************************************************************)
FairSpec == Spec /\ WF_vars(Works) /\ WF_vars(SleepTimerFires)

-----------------------------------------------------------------------------
LoopPc  == {"idle", "save", "check", "stop", "clear", "mark", "start", "copy", "write"}
RetryPc == {"idle", "copy", "write"}
TimerPc == {"idle", "fired", "ring", "off", "on", "light", "reread", "check", "stop",
            "clear", "mark", "start"}

\* Type invariant; no configuration is posted but by the user.
TypeOK ==
  /\ nvs \in Configs /\ cfg \in Configs
  /\ timer_st \in BOOLEAN /\ display_st \in BOOLEAN /\ armed \in BOOLEAN
  /\ backlight \in Levels \cup {Dark} /\ brightness \in Levels \cup {Dark}
  /\ pc \in [Tasks -> LoopPc \cup TimerPc]
  /\ pc[Loop] \in LoopPc /\ pc[Retry] \in RetryPc /\ pc[Timer] \in TimerPc
  /\ job \in [Tasks -> [cfg : Configs, then : {"none", "reset"}]]
  /\ commands \in Seq(Configs) /\ Len(commands) <= settings
  /\ button \in {0, 1, 2, 3, 5} /\ repeat \in 0 .. 2
  /\ elapsed \in 0 .. Reset
  /\ emitted \subseteq {"sleep", "reset", "shutdown"}
  /\ sleep_flag \in BOOLEAN /\ resetDue \in BOOLEAN
  /\ shutdowns \in 0 .. presses
  /\ waited \subseteq Tasks /\ applied \in BOOLEAN /\ raced \in BOOLEAN
  /\ presses \in 0 .. MaxPresses /\ settings \in 0 .. MaxSettings

\* The checks on the sleep timer, which would reboot the device, only fail once
\* two tasks have been at it: after any expiry, configuration, click or press,
\* timer_st agrees with the timer when a task comes to it.
AbortsNeedOverlap == \A t \in {Loop, Timer} : Fails(t) => raced

\* A press shuts down at most once, counting the short presses after it, whose
\* releases are judged by its time, and never while a factory reset is coming.
PressActsOnce == shutdowns <= 1 /\ (resetDue => shutdowns = 0)

\* With the sleep mode applied, a display that display_st says is lit goes dark,
\* however it was lit, by boot, click or rejected shutdown, whatever was saved,
\* unless two tasks were at the display at once.  A brightness lights a dark
\* display without display_st and without a timer, which this does not cover.
LitGoesDark ==
  (display_st /\ applied) ~> (~display_st \/ ~applied \/ raced)
=============================================================================
