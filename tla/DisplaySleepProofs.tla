------------------------- MODULE DisplaySleepProofs -------------------------
(***************************************************************************)
(* Safety of the display, its sleep timer and the button for every set of  *)
(* levels and any number of presses and settings.  PressInv says what a    *)
(* press may still do by what it has done; TimerInv that, until two tasks  *)
(* overlap, timer_st agrees with the timer wherever the task at work is    *)
(* not between the two.                                                    *)
(***************************************************************************)
EXTENDS DisplaySleep, SequenceTheorems, TLAPS

Jobs == [cfg : Configs, then : {"none", "reset"}]

\* The parts of TypeOK.
DeviceOK ==
  /\ nvs \in Configs /\ cfg \in Configs
  /\ timer_st \in BOOLEAN /\ display_st \in BOOLEAN /\ armed \in BOOLEAN
  /\ backlight \in Levels \cup {Dark}

TasksOK ==
  /\ pc \in [Tasks -> LoopPc \cup TimerPc]
  /\ pc[Loop] \in LoopPc /\ pc[Retry] \in RetryPc /\ pc[Timer] \in TimerPc
  /\ job \in [Tasks -> Jobs]

ScreenOK ==
  /\ brightness \in Levels \cup {Dark}
  /\ commands \in Seq(Configs) /\ Len(commands) <= settings
  /\ settings \in 0 .. MaxSettings

ButtonOK ==
  /\ button \in {0, 1, 2, 3, 5} /\ repeat \in 0 .. 2
  /\ elapsed \in 0 .. Reset
  /\ emitted \subseteq {"sleep", "reset", "shutdown"}
  /\ sleep_flag \in BOOLEAN /\ resetDue \in BOOLEAN
  /\ presses \in 0 .. MaxPresses

GhostsOK == waited \subseteq Tasks /\ applied \in BOOLEAN /\ raced \in BOOLEAN

\* What the press has done bounds what it may still do: a shutdown has been
\* counted exactly if it was emitted, and that only by the release of a press
\* that did not come to the factory reset.
PressInv ==
  /\ shutdowns = IF "shutdown" \in emitted THEN 1 ELSE 0
  /\ button = 5 \/ "reset" \in emitted => "shutdown" \notin emitted
  /\ \A t \in Tasks :
       job[t].then = "reset" => t = Timer /\ ~Idle(t) /\ "reset" \in emitted
  /\ resetDue => /\ "shutdown" \notin emitted
                 /\ "reset" \in emitted \/ elapsed = 0
  /\ button # 0 \/ "shutdown" \in emitted => presses > 0

\* A task has changed one of timer_st and the timer, and not yet the other, or
\* the timer has fired.
Between == {"clear", "start", "fired", "ring"}

TimerInv ==
  raced \/
    /\ \A t, u \in Tasks : Idle(t) \/ Idle(u) \/ t = u
    /\ (\A t \in Tasks : pc[t] \notin Between) => (timer_st = armed)
    /\ \A t \in Tasks : /\ pc[t] \in Between => ~armed
                        /\ pc[t] \in {"stop", "start"} => timer_st
                        /\ pc[t] = "mark" => ~timer_st

DisplayInv ==
  /\ DeviceOK /\ TasksOK /\ ScreenOK /\ ButtonOK /\ GhostsOK
  /\ PressInv /\ TimerInv

LEMMA InvIsTyped == DisplayInv => TypeOK
BY DEF DisplayInv, DeviceOK, TasksOK, ScreenOK, ButtonOK, GhostsOK, PressInv,
       TypeOK, Jobs

LEMMA TaskNames ==
  /\ Loop # Timer /\ Loop # Retry /\ Retry # Timer
  /\ Tasks = {Loop, Retry, Timer}
BY DEF Loop, Timer, Retry, Tasks

LEMMA DefaultTyped == Default \in Configs /\ NoJob \in Jobs
<1>1. (CHOOSE l \in Levels : TRUE) \in Levels
  BY DisplayAssumptions
<1> QED
  BY <1>1 DEF Default, Configs, NoJob, Jobs

-----------------------------------------------------------------------------
(* The start and every restart.                                            *)

LEMMA BootedInv ==
  ASSUME NEW stored \in Configs, Booted(stored),
         presses \in 0 .. MaxPresses, settings \in 0 .. MaxSettings
  PROVE  DisplayInv
<1>1. DeviceOK
  BY DEF Booted, DeviceOK, Configs
<1>2. TasksOK
  BY DefaultTyped, TaskNames DEF Booted, TasksOK, LoopPc, RetryPc, TimerPc
<1>3. ScreenOK
  BY DEF Booted, ScreenOK
<1>4. /\ button = 0 /\ repeat = 0 /\ elapsed = 0 /\ emitted = {}
      /\ sleep_flag = FALSE /\ resetDue = FALSE
  BY DEF Booted
<1>5. ButtonOK
  <2>1. sleep_flag \in BOOLEAN /\ resetDue \in BOOLEAN
    BY <1>4, Zenon
  <2>2. elapsed \in 0 .. Reset /\ repeat \in 0 .. 2
    BY <1>4 DEF Reset
  <2> QED
    BY <1>4, <2>1, <2>2 DEF ButtonOK
<1>6. GhostsOK /\ PressInv /\ TimerInv
  BY DEF Booted, GhostsOK, PressInv, TimerInv, Idle, Configs, NoJob, Between
<1> QED
  BY <1>1, <1>2, <1>3, <1>5, <1>6 DEF DisplayInv

LEMMA RestartInv ==
  ASSUME NEW stored \in Configs, Restart(stored),
         presses \in 0 .. MaxPresses, settings \in 0 .. MaxSettings
  PROVE  DisplayInv'
<1>1. DeviceOK'
  BY DEF Restart, DeviceOK, Configs
<1>2. TasksOK'
  BY DefaultTyped, TaskNames DEF Restart, TasksOK, LoopPc, RetryPc, TimerPc
<1>3. ScreenOK'
  BY DEF Restart, ScreenOK, counts
<1>4. /\ button' = 0 /\ repeat' = 0 /\ elapsed' = 0 /\ emitted' = {}
      /\ sleep_flag' = FALSE /\ resetDue' = FALSE /\ presses' = presses
  BY DEF Restart, counts
<1>5. ButtonOK'
  <2>1. sleep_flag' \in BOOLEAN /\ resetDue' \in BOOLEAN
    BY <1>4, Zenon
  <2>2. elapsed' \in 0 .. Reset /\ repeat' \in 0 .. 2
    BY <1>4 DEF Reset
  <2> QED
    BY <1>4, <2>1, <2>2 DEF ButtonOK
<1>6. GhostsOK' /\ PressInv' /\ TimerInv'
  BY DEF Restart, GhostsOK, PressInv, TimerInv, Idle, Configs, NoJob, Between
<1> QED
  BY <1>1, <1>2, <1>3, <1>5, <1>6 DEF DisplayInv

-----------------------------------------------------------------------------
(* What a step of one task leaves to show.                                 *)

\* Before tasks overlap, the others are idle while one works.
LEMMA OthersIdle ==
  ASSUME TimerInv, ~raced, NEW t \in Tasks, ~Idle(t)
  PROVE  /\ \A u \in Tasks \ {t} : pc[u] = "idle"
         /\ pc[t] \notin Between => (timer_st = armed)
         /\ pc[t] \in Between => ~armed
         /\ pc[t] \in {"stop", "start"} => timer_st
         /\ pc[t] = "mark" => ~timer_st
BY DEF TimerInv, Idle, Between

\* A task that goes on, or is done, is at a step of its own again.
LEMMA StepTyped ==
  ASSUME TasksOK, NEW t \in Tasks, NEW step,
         pc' = [pc EXCEPT ![t] = step], job' \in [Tasks -> Jobs],
         step \in IF t = Loop THEN LoopPc ELSE IF t = Retry THEN RetryPc ELSE TimerPc
  PROVE  TasksOK'
BY TaskNames DEF TasksOK, LoopPc, RetryPc, TimerPc

\* The timer agrees with timer_st after a step of task t, if it does where t is.
LEMMA StepTimed ==
  ASSUME TasksOK, TimerInv, NEW t \in Tasks, ~Idle(t), NEW step,
         pc' = [pc EXCEPT ![t] = step], raced' = raced,
         ~raced => /\ step \notin Between => (timer_st' = armed')
                   /\ step \in Between => ~armed'
                   /\ step \in {"stop", "start"} => timer_st'
                   /\ step = "mark" => ~timer_st'
  PROVE  TimerInv'
<1> SUFFICES ASSUME ~raced PROVE TimerInv'
  BY DEF TimerInv
<1>1. \A u \in Tasks \ {t} : pc'[u] = "idle"
  BY OthersIdle DEF TasksOK
<1>2. pc'[t] = step
  BY DEF TasksOK
<1> QED
  BY <1>1, <1>2 DEF TimerInv, Idle, Between

\* Likewise for a task that begins, which with another at work is an overlap.
LEMMA BeginTimed ==
  ASSUME TasksOK, TimerInv, NEW t \in Tasks, Idle(t), NEW step,
         step \notin {"clear", "start", "ring", "stop", "mark"},
         pc' = [pc EXCEPT ![t] = step],
         raced' = (raced \/ \E u \in Tasks \ {t} : ~Idle(u)),
         timer_st' = timer_st,
         IF step = "fired" THEN ~armed' ELSE armed' = armed
  PROVE  TimerInv'
<1> SUFFICES ASSUME ~raced, \A u \in Tasks \ {t} : Idle(u) PROVE TimerInv'
  BY DEF TimerInv
<1>1. \A u \in Tasks \ {t} : pc'[u] = "idle"
  BY DEF TasksOK, Idle
<1>2. pc'[t] = step
  BY DEF TasksOK
<1>3. timer_st = armed
  BY DEF TimerInv, Idle, Between
<1> QED
  BY <1>1, <1>2, <1>3 DEF TimerInv, Idle, Between

\* A press has done no more after a step of task t that keeps what comes with
\* its operation.
LEMMA StepPressed ==
  ASSUME TasksOK, PressInv, NEW t \in Tasks, ~Idle(t), NEW step, step # "idle",
         pc' = [pc EXCEPT ![t] = step], job' \in [Tasks -> Jobs],
         \A u \in Tasks : job'[u].then = job[u].then,
         UNCHANGED <<btn, presses>>
  PROVE  PressInv'
BY DEF TasksOK, PressInv, Idle, btn

\* Nor after an operation is done: a factory reset has been emitted.
LEMMA FinishPressed ==
  ASSUME TasksOK, PressInv, NEW t \in Tasks, Finish(t),
         UNCHANGED <<button, repeat, elapsed, emitted, sleep_flag, shutdowns, presses>>
  PROVE  /\ PressInv'
         /\ job' \in [Tasks -> Jobs]
         /\ resetDue \in BOOLEAN => resetDue' \in BOOLEAN
<1>1. /\ job' \in [Tasks -> Jobs]
      /\ \A u \in Tasks : job'[u] = IF u = t THEN NoJob ELSE job[u]
      /\ \A u \in Tasks : pc'[u] = IF u = t THEN "idle" ELSE pc[u]
  BY DefaultTyped DEF TasksOK, Finish
<1>2. resetDue' = (resetDue \/ job[t].then = "reset")
  BY DEF Finish
<1>3. resetDue \in BOOLEAN => resetDue' \in BOOLEAN
  BY <1>2
<1>4. \A u \in Tasks : job'[u].then = "reset" => job[u].then = "reset" /\ u # t
  BY <1>1 DEF NoJob
<1> QED
  BY <1>1, <1>2, <1>3, <1>4 DEF PressInv, Idle

-----------------------------------------------------------------------------
(* The sleep timer.                                                        *)

LEMMA TimerStepInv ==
  ASSUME DisplayInv, NEW t \in {Loop, Timer}, TimerStep(t)
  PROVE  DisplayInv'
<1>0. /\ DeviceOK /\ TasksOK /\ ScreenOK /\ ButtonOK /\ GhostsOK
      /\ PressInv /\ TimerInv /\ t \in Tasks
  BY TaskNames DEF DisplayInv
\* A step inside the operation, ...
<1>1. ASSUME NEW step \in {"stop", "clear", "mark", "start"}, Go(t, step), ~Idle(t),
             job' = job, resetDue' = resetDue, waited' = waited,
             DeviceOK', raced' = raced,
             ~raced => /\ step \notin Between => (timer_st' = armed')
                       /\ step \in Between => ~armed'
                       /\ step \in {"stop", "start"} => timer_st'
                       /\ step = "mark" => ~timer_st',
             UNCHANGED <<screen, button, repeat, elapsed, emitted, sleep_flag,
                         shutdowns, applied, counts>>
      PROVE  DisplayInv'
  <2>1. TasksOK'
    BY <1>0, <1>1, TaskNames, StepTyped DEF Go, LoopPc, TimerPc, TasksOK
  <2>2. TimerInv'
    BY <1>0, <1>1, StepTimed DEF Go
  <2>3. PressInv'
    BY <1>0, <1>1, StepPressed DEF Go, btn, counts, TasksOK
  <2>4. ScreenOK' /\ ButtonOK' /\ GhostsOK'
    BY <1>0, <1>1 DEF ScreenOK, ButtonOK, GhostsOK, screen, counts
  <2> QED
    BY <1>1, <2>1, <2>2, <2>3, <2>4 DEF DisplayInv
\* ... and its last.
<1>2. ASSUME Finish(t), ~Idle(t), waited' \subseteq Tasks, DeviceOK', raced' = raced,
             ~raced => timer_st' = armed',
             UNCHANGED <<screen, button, repeat, elapsed, emitted, sleep_flag,
                         shutdowns, applied, counts>>
      PROVE  DisplayInv'
  <2>1. PressInv' /\ job' \in [Tasks -> Jobs] /\ resetDue' \in BOOLEAN
    BY <1>0, <1>2, FinishPressed DEF counts, ButtonOK
  <2>2. TasksOK'
    BY <1>0, <1>2, <2>1, TaskNames, StepTyped DEF Finish, LoopPc, TimerPc
  <2>3. TimerInv'
    BY <1>0, <1>2, StepTimed DEF Finish, Between
  <2>4. ScreenOK' /\ ButtonOK' /\ GhostsOK'
    BY <1>0, <1>2, <2>1 DEF ScreenOK, ButtonOK, GhostsOK, screen, counts
  <2> QED
    BY <1>2, <2>1, <2>2, <2>3, <2>4 DEF DisplayInv
<1>3. ASSUME ~Idle(t), ~raced
      PROVE  /\ pc[t] \notin Between => (timer_st = armed)
             /\ pc[t] \in Between => ~armed
             /\ pc[t] \in {"stop", "start"} => timer_st
             /\ pc[t] = "mark" => ~timer_st
  BY <1>0, <1>3, OthersIdle
<1>4. /\ job[t].cfg.sleep \in BOOLEAN /\ timer_st \in BOOLEAN /\ armed \in BOOLEAN
      /\ waited \ {t} \subseteq Tasks /\ Others(t) \subseteq Tasks
  BY <1>0, TaskNames DEF TasksOK, Jobs, Configs, DeviceOK, GhostsOK, Others
<1>5. CASE CheckTimer(t)
  <2>1. ~Idle(t) /\ DeviceOK' /\ raced' = raced
    BY <1>0, <1>5 DEF CheckTimer, Idle, DeviceOK, model
  <2>2. CASE timer_st
    BY <1>1, <1>3, <1>5, <2>1, <2>2 DEF CheckTimer, Between, model
  <2>3. CASE ~timer_st /\ job[t].cfg.sleep
    BY <1>1, <1>3, <1>5, <2>1, <2>3 DEF CheckTimer, Between, model
  <2>4. CASE ~timer_st /\ ~job[t].cfg.sleep
    BY <1>2, <1>3, <1>4, <1>5, <2>1, <2>4 DEF CheckTimer, Between, model
  <2> QED
    BY <2>2, <2>3, <2>4
<1>6. CASE StopTimer(t)
  <2>1. ~Idle(t) /\ DeviceOK' /\ raced' = raced
    BY <1>0, <1>6 DEF StopTimer, Idle, DeviceOK, ghosts
  <2> QED
    BY <1>1, <1>6, <2>1 DEF StopTimer, Between, btn, ghosts
<1>7. CASE ClearTimer(t)
  <2>1. ~Idle(t) /\ DeviceOK' /\ raced' = raced
    BY <1>0, <1>7 DEF ClearTimer, Idle, DeviceOK
  <2>2. ~raced => ~armed'
    BY <1>3, <1>7, <2>1 DEF ClearTimer, Between
  <2>3. CASE job[t].cfg.sleep
    BY <1>1, <1>4, <1>7, <2>1, <2>2, <2>3 DEF ClearTimer, Between
  <2>4. CASE ~job[t].cfg.sleep
    BY <1>2, <1>4, <1>7, <2>1, <2>2, <2>4 DEF ClearTimer
  <2> QED
    BY <2>3, <2>4
<1>8. CASE MarkTimer(t)
  <2>1. ~Idle(t) /\ DeviceOK' /\ raced' = raced
    BY <1>0, <1>8 DEF MarkTimer, Idle, DeviceOK, ghosts
  <2> QED
    BY <1>1, <1>3, <1>8, <2>1 DEF MarkTimer, Between, btn, ghosts
<1>9. CASE StartTimer(t)
  <2>1. ~Idle(t) /\ DeviceOK' /\ raced' = raced
    BY <1>0, <1>9 DEF StartTimer, Idle, DeviceOK
  <2> QED
    BY <1>2, <1>3, <1>4, <1>9, <2>1 DEF StartTimer
<1> QED
  BY <1>5, <1>6, <1>7, <1>8, <1>9 DEF TimerStep

-----------------------------------------------------------------------------
(* Settings and brightness.                                                *)

LEMMA PostInv ==
  ASSUME DisplayInv,
         \/ \E c \in Configs : UserConfigures(c)
         \/ \E l \in Levels : UserSlides(l)
  PROVE  DisplayInv'
<1>0. ScreenOK
  BY DEF DisplayInv
<1>1. ScreenOK'
  <2>1. settings' \in 0 .. MaxSettings /\ settings' = settings + 1
    BY <1>0, DisplayAssumptions DEF UserConfigures, UserSlides, ScreenOK
  <2>2. brightness' \in Levels \cup {Dark}
    BY <1>0 DEF UserConfigures, UserSlides, ScreenOK
  <2>3. \/ commands' = commands
        \/ \E c \in Configs : commands' = Append(commands, c)
    BY DEF UserConfigures, UserSlides
  <2>4. commands' \in Seq(Configs) /\ Len(commands') <= Len(commands) + 1
    BY <1>0, <2>3, AppendProperties, LenProperties DEF ScreenOK
  <2> QED
    BY <1>0, <2>1, <2>2, <2>4, LenProperties DEF ScreenOK
<1>2. UNCHANGED <<nvs, model, pc, job, btn, ghosts, presses>>
  BY DEF UserConfigures, UserSlides
<1> QED
  BY <1>1, <1>2 DEF DisplayInv, DeviceOK, TasksOK, ButtonOK, GhostsOK, PressInv,
     TimerInv, Idle, model, btn, ghosts

LEMMA SettingsInv ==
  ASSUME DisplayInv, ApplyConfig \/ SaveConfig
  PROVE  DisplayInv'
<1>0. /\ DeviceOK /\ TasksOK /\ ScreenOK /\ ButtonOK /\ GhostsOK
      /\ PressInv /\ TimerInv /\ Loop \in Tasks
  BY TaskNames DEF DisplayInv
<1>1. CASE ApplyConfig
  <2> DEFINE j == [cfg |-> Head(commands), then |-> "none"]
  <2>1. /\ Head(commands) \in Configs /\ commands' \in Seq(Configs)
        /\ Len(commands') <= Len(commands)
    BY <1>0, <1>1, HeadTailProperties, LenProperties DEF ApplyConfig, ScreenOK
  <2>2. /\ pc' = [pc EXCEPT ![Loop] = "save"] /\ job' = [job EXCEPT ![Loop] = j]
        /\ applied' = j.cfg.sleep /\ waited' = waited
        /\ raced' = (raced \/ \E u \in Tasks \ {Loop} : ~Idle(u))
    BY <1>1 DEF ApplyConfig, Begin
  <2>3. j \in Jobs /\ applied' \in BOOLEAN /\ raced' \in BOOLEAN
    BY <2>1, <2>2 DEF Jobs, Configs
  <2>4. TasksOK'
    BY <1>0, <2>2, <2>3, StepTyped DEF TasksOK, LoopPc
  <2>5. TimerInv'
    BY <1>0, <1>1, <2>2, BeginTimed DEF ApplyConfig
  <2>6. PressInv'
    BY <1>0, <1>1, <2>2, TaskNames DEF ApplyConfig, PressInv, TasksOK, Idle, btn, counts
  <2>7. DeviceOK' /\ ButtonOK' /\ GhostsOK'
    BY <1>0, <1>1, <2>1, <2>2, <2>3
       DEF ApplyConfig, DeviceOK, ButtonOK, GhostsOK, btn, counts
  <2>8. ScreenOK'
    BY <1>0, <1>1, <2>1, LenProperties DEF ApplyConfig, ScreenOK, counts
  <2> QED
    BY <2>4, <2>5, <2>6, <2>7, <2>8 DEF DisplayInv
<1>2. CASE SaveConfig
  <2>1. nvs' \in Configs
    BY <1>0, <1>2 DEF SaveConfig, TasksOK, Jobs, DeviceOK
  <2>2. ~Idle(Loop) /\ raced' = raced
    BY <1>2 DEF SaveConfig, Idle, ghosts
  <2>3. TasksOK'
    BY <1>0, <1>2, StepTyped DEF SaveConfig, Go, TasksOK, LoopPc
  <2>4. TimerInv'
    BY <1>0, <1>2, <2>2, OthersIdle, StepTimed DEF SaveConfig, Go, Between, model
  <2>5. PressInv'
    BY <1>0, <1>2, <2>2, StepPressed DEF SaveConfig, Go, TasksOK, counts
  <2> QED
    BY <1>0, <1>2, <2>1, <2>3, <2>4, <2>5 DEF SaveConfig, DisplayInv, DeviceOK,
       ScreenOK, ButtonOK, GhostsOK, model, screen, btn, ghosts, counts
<1> QED
  BY <1>1, <1>2

LEMMA BrightnessInv ==
  ASSUME DisplayInv, NEW t \in {Loop, Retry}, BrightnessStep(t)
  PROVE  DisplayInv'
<1>0. /\ DeviceOK /\ TasksOK /\ ScreenOK /\ ButtonOK /\ GhostsOK
      /\ PressInv /\ TimerInv /\ t \in Tasks
  BY TaskNames DEF DisplayInv
<1>1. job[t] \in Jobs
  BY <1>0 DEF TasksOK
<1>2. CASE SetBacklight(t)
  <2>1. brightness \in Levels
    BY <1>0, <1>2 DEF SetBacklight, ScreenOK
  <2>2. /\ pc' = [pc EXCEPT ![t] = "copy"]
        /\ job' = [job EXCEPT ![t].cfg.brightness = brightness]
        /\ raced' = (raced \/ \E u \in Tasks \ {t} : ~Idle(u))
    BY <1>2 DEF SetBacklight
  <2>3. [job[t] EXCEPT !.cfg.brightness = brightness] \in Jobs
    BY <1>1, <2>1 DEF Jobs, Configs
  <2>4. job' \in [Tasks -> Jobs] /\ \A u \in Tasks : job'[u].then = job[u].then
    BY <1>0, <2>2, <2>3 DEF TasksOK, Jobs
  <2>5. TasksOK'
    BY <1>0, <2>2, <2>4, TaskNames, StepTyped DEF LoopPc, RetryPc
  <2>6. TimerInv'
    BY <1>0, <1>2, <2>2, BeginTimed DEF SetBacklight
  <2>7. PressInv'
    BY <1>0, <1>2, <2>2, <2>4 DEF SetBacklight, PressInv, TasksOK, Idle, btn, counts
  <2>8. DeviceOK' /\ ButtonOK' /\ ScreenOK' /\ GhostsOK'
    BY <1>0, <1>2, <2>1, <2>2
       DEF SetBacklight, DeviceOK, ButtonOK, ScreenOK, GhostsOK, btn, counts
  <2> QED
    BY <2>5, <2>6, <2>7, <2>8 DEF DisplayInv
<1>3. CASE CopyConfig(t)
  <2>1. job' = [job EXCEPT ![t].cfg.sleep = cfg.sleep]
    BY <1>3 DEF CopyConfig
  <2>2. [job[t] EXCEPT !.cfg.sleep = cfg.sleep] \in Jobs
    BY <1>0, <1>1 DEF Jobs, Configs, DeviceOK
  <2>3. job' \in [Tasks -> Jobs] /\ \A u \in Tasks : job'[u].then = job[u].then
    BY <1>0, <2>1, <2>2 DEF TasksOK, Jobs
  <2>4. ~Idle(t) /\ raced' = raced
    BY <1>3 DEF CopyConfig, Idle, ghosts
  <2>5. TasksOK'
    BY <1>0, <1>3, <2>3, TaskNames, StepTyped DEF CopyConfig, Go, LoopPc, RetryPc
  <2>6. TimerInv'
    BY <1>0, <1>3, <2>4, OthersIdle, StepTimed DEF CopyConfig, Go, Between, model
  <2>7. PressInv'
    BY <1>0, <1>3, <2>3, <2>4, StepPressed DEF CopyConfig, Go, counts
  <2> QED
    BY <1>0, <1>3, <2>5, <2>6, <2>7 DEF CopyConfig, DisplayInv, DeviceOK,
       ScreenOK, ButtonOK, GhostsOK, model, screen, btn, ghosts, counts
<1>4. CASE WriteConfig(t)
  <2>1. cfg' \in Configs
    BY <1>1, <1>4 DEF WriteConfig, Jobs
  <2>2. job' \in [Tasks -> Jobs]
    BY <1>0, <1>4, DefaultTyped DEF WriteConfig, TasksOK
  <2>3. ~Idle(t) /\ raced' = raced
    BY <1>4 DEF WriteConfig, Idle, ghosts
  <2>4. TasksOK'
    BY <1>0, <1>4, <2>2, TaskNames, StepTyped DEF WriteConfig, Go, LoopPc, RetryPc
  <2>5. TimerInv'
    BY <1>0, <1>4, <2>3, OthersIdle, StepTimed DEF WriteConfig, Go, Between
  <2>6. PressInv'
    BY <1>0, <1>4, TaskNames
       DEF WriteConfig, Go, PressInv, TasksOK, Idle, NoJob, btn, counts
  <2> QED
    BY <1>0, <1>4, <2>1, <2>4, <2>5, <2>6 DEF WriteConfig, DisplayInv, DeviceOK,
       ScreenOK, ButtonOK, GhostsOK, screen, btn, ghosts, counts
<1> QED
  BY <1>2, <1>3, <1>4 DEF BrightnessStep

-----------------------------------------------------------------------------
(* The display, on the timer's task.                                       *)

\* The timer's task begins an operation, from a callback that leaves
\* everything but the button alone or takes the timer that has expired.
LEMMA BeginInv ==
  ASSUME DisplayInv, Idle(Timer),
         NEW step \in {"fired", "off", "on"}, NEW then \in {"none", "reset"},
         Begin(Timer, step, [NoJob EXCEPT !.then = then]),
         armed' = IF step = "fired" THEN FALSE ELSE armed,
         UNCHANGED <<nvs, cfg, timer_st, display_st, backlight, screen, sleep_flag,
                     shutdowns, counts>>,
         ButtonOK',
         resetDue' = resetDue,
         emitted' \cap {"shutdown"} = emitted \cap {"shutdown"},
         button' \in {0, 2, button}, button' # 0 => button # 0,
         then = "reset" \/ "reset" \in emitted' => /\ "reset" \in emitted'
                                                 /\ "shutdown" \notin emitted,
         resetDue => emitted' = emitted /\ elapsed' = elapsed
  PROVE  DisplayInv'
<1>0. /\ DeviceOK /\ TasksOK /\ ScreenOK /\ ButtonOK /\ GhostsOK
      /\ PressInv /\ TimerInv /\ Timer \in Tasks
  BY TaskNames DEF DisplayInv
<1>1. /\ pc' = [pc EXCEPT ![Timer] = step]
      /\ job' = [job EXCEPT ![Timer] = [NoJob EXCEPT !.then = then]]
      /\ applied' = applied /\ waited' = waited
      /\ raced' = (raced \/ \E u \in Tasks \ {Timer} : ~Idle(u))
  BY DEF Begin
<1>2. /\ [NoJob EXCEPT !.then = then] \in Jobs
      /\ [NoJob EXCEPT !.then = then].then = then
  BY DefaultTyped DEF NoJob, Jobs
<1>3. TasksOK'
  BY <1>0, <1>1, <1>2, TaskNames, StepTyped DEF TasksOK, TimerPc
<1>4. TimerInv'
  BY <1>0, <1>1, BeginTimed
<1>5. PressInv'
  <2>1. \A u \in Tasks : job'[u].then = IF u = Timer THEN then ELSE job[u].then
    BY <1>0, <1>1, <1>2 DEF TasksOK
  <2>2. pc'[Timer] = step /\ step # "idle"
    BY <1>0, <1>1 DEF TasksOK
  <2>3. \A u \in Tasks : job'[u].then = "reset" =>
          u = Timer /\ pc'[u] # "idle" /\ "reset" \in emitted'
    BY <1>0, <2>1, <2>2 DEF PressInv
  <2>4. "shutdown" \in emitted' <=> "shutdown" \in emitted
    OBVIOUS
  <2>5. presses' = presses /\ shutdowns' = shutdowns
    BY DEF counts
  <2> QED
    BY <1>0, <2>3, <2>4, <2>5 DEF PressInv, Idle
<1>6. DeviceOK' /\ ScreenOK' /\ GhostsOK'
  <2>1. raced' \in BOOLEAN /\ armed' \in BOOLEAN
    BY <1>0, <1>1 DEF DeviceOK
  <2> QED
    BY <1>0, <1>1, <2>1 DEF DeviceOK, ScreenOK, GhostsOK, screen, counts
<1> QED
  BY <1>3, <1>4, <1>5, <1>6 DEF DisplayInv

LEMMA FiresInv ==
  ASSUME DisplayInv, SleepTimerFires
  PROVE  DisplayInv'
<1>1. ButtonOK' /\ NoJob = [NoJob EXCEPT !.then = "none"]
  BY DEF SleepTimerFires, DisplayInv, ButtonOK, btn, counts, NoJob
<1>2. PressInv
  BY DEF DisplayInv
<1> QED
  BY <1>1, <1>2, BeginInv DEF SleepTimerFires, btn, PressInv

\* A step of the display that goes on.
LEMMA OperationInv ==
  ASSUME DisplayInv, TurnOff \/ ReadBrightness \/ TurnOn \/ RereadConfig
  PROVE  DisplayInv'
<1>0. /\ DeviceOK /\ TasksOK /\ ScreenOK /\ ButtonOK /\ GhostsOK
      /\ PressInv /\ TimerInv /\ Timer \in Tasks /\ job[Timer] \in Jobs
  BY TaskNames DEF DisplayInv, TasksOK
<1>1. /\ pc[Timer] \in {"fired", "off", "on", "light", "reread"}
      /\ UNCHANGED <<nvs, cfg, timer_st, armed, screen, btn, ghosts, counts>>
      /\ ~Idle(Timer) /\ raced' = raced
  BY DEF TurnOff, ReadBrightness, TurnOn, RereadConfig, model, ghosts, Idle
<1>2. PICK step \in {"ring", "check", "light", "reread"} :
        /\ pc' = [pc EXCEPT ![Timer] = step]
        /\ step = "ring" <=> pc[Timer] = "fired"
  BY DEF TurnOff, ReadBrightness, TurnOn, RereadConfig, Go
<1>3. /\ job' \in [Tasks -> Jobs]
      /\ \A u \in Tasks : job'[u].then = job[u].then
  <2>1. job' = job \/ job' = [job EXCEPT ![Timer].cfg = cfg]
    BY DEF TurnOff, ReadBrightness, TurnOn, RereadConfig
  <2>2. [job[Timer] EXCEPT !.cfg = cfg] \in Jobs
    BY <1>0 DEF Jobs, DeviceOK
  <2> QED
    BY <1>0, <2>1, <2>2 DEF TasksOK, Jobs
<1>4. DeviceOK'
  <2>1. job[Timer].cfg.brightness \in Levels
    BY <1>0 DEF Jobs, Configs
  <2>2. backlight' \in Levels \cup {Dark} /\ display_st' \in BOOLEAN
    BY <1>0, <2>1, Zenon
       DEF TurnOff, ReadBrightness, TurnOn, RereadConfig, model, DeviceOK
  <2> QED
    BY <1>0, <1>1, <2>2 DEF DeviceOK
<1>5. TasksOK'
  BY <1>0, <1>2, <1>3, TaskNames, StepTyped DEF TimerPc
<1>6. TimerInv'
  BY <1>0, <1>1, <1>2, OthersIdle, StepTimed DEF Between
<1>7. PressInv'
  BY <1>0, <1>1, <1>2, <1>3, StepPressed DEF counts
<1> QED
  BY <1>0, <1>1, <1>4, <1>5, <1>6, <1>7 DEF DisplayInv, ScreenOK, ButtonOK,
     GhostsOK, screen, btn, ghosts, counts

LEMMA ClearsInv ==
  ASSUME DisplayInv, FiredTimerClears
  PROVE  DisplayInv'
<1>0. /\ DeviceOK /\ TasksOK /\ ScreenOK /\ ButtonOK /\ GhostsOK
      /\ PressInv /\ TimerInv /\ Timer \in Tasks
  BY TaskNames DEF DisplayInv
<1>1. ~Idle(Timer) /\ raced' = raced
  BY DEF FiredTimerClears, Idle
<1>2. PressInv' /\ job' \in [Tasks -> Jobs] /\ resetDue' \in BOOLEAN
  BY <1>0, FinishPressed DEF FiredTimerClears, counts, ButtonOK
<1>3. TasksOK'
  BY <1>0, <1>2, TaskNames, StepTyped DEF FiredTimerClears, Finish, TimerPc
<1>4. TimerInv'
  BY <1>0, <1>1, OthersIdle, StepTimed DEF FiredTimerClears, Finish, Between, DeviceOK
<1> QED
  BY <1>0, <1>2, <1>3, <1>4 DEF FiredTimerClears, DisplayInv, DeviceOK, ScreenOK,
     ButtonOK, GhostsOK, screen, counts

-----------------------------------------------------------------------------
(* The button.                                                             *)

\* A callback of the button that ends at once and counts no shutdown.
LEMMA ButtonInv ==
  ASSUME DisplayInv, Idle(Timer),
         UNCHANGED <<nvs, model, pc, job, screen, emitted, sleep_flag, resetDue,
                     shutdowns, ghosts, settings>>,
         button' \in {0, 1, 2, 3}, repeat' \in {repeat, 1, 2}, elapsed' = elapsed,
         presses' \in 0 .. MaxPresses, presses' >= presses,
         button' # 0 => presses' > 0
  PROVE  DisplayInv'
<1>0. ButtonOK /\ PressInv
  BY DEF DisplayInv
<1>1. ButtonOK'
  BY <1>0 DEF ButtonOK
<1>2. PressInv'
  <2>1. presses > 0 => presses' > 0
    BY <1>0, DisplayAssumptions DEF ButtonOK
  <2> QED
    BY <1>0, <2>1 DEF PressInv, Idle
<1> QED
  BY <1>1, <1>2 DEF DisplayInv, DeviceOK, TasksOK, ScreenOK, GhostsOK, TimerInv,
     Idle, model, screen, ghosts

LEMMA PressesInv ==
  ASSUME DisplayInv, PressBegins \/ DoubleClicked \/ ReleasedQuietly
  PROVE  DisplayInv'
<1>0. /\ presses \in 0 .. MaxPresses /\ MaxPresses \in Nat
      /\ button # 0 => presses > 0
  BY DisplayAssumptions DEF DisplayInv, ButtonOK, PressInv
<1>1. CASE PressBegins
  <2>1. presses' \in 0 .. MaxPresses /\ presses' >= presses /\ presses' > 0
    BY <1>0, <1>1 DEF PressBegins
  <2> QED
    BY <1>1, <2>1, ButtonInv DEF PressBegins
<1>2. CASE DoubleClicked \/ ReleasedQuietly
  <2>1. /\ button # 0 /\ button' \in {0, 2} /\ Idle(Timer) /\ presses' = presses
        /\ UNCHANGED <<nvs, model, pc, job, screen, repeat, elapsed, emitted,
                       sleep_flag, resetDue, shutdowns, ghosts, settings>>
    BY <1>2 DEF DoubleClicked, ReleasedQuietly, Release, counts
  <2>2. presses' >= presses /\ presses' > 0 /\ presses' \in 0 .. MaxPresses
    BY <1>0, <2>1
  <2> QED
    BY <2>1, <2>2, ButtonInv
<1> QED
  BY <1>1, <1>2

LEMMA LongPressInv ==
  ASSUME DisplayInv, LongPressBegins
  PROVE  DisplayInv'
<1>0. ButtonOK /\ PressInv
  BY DEF DisplayInv
<1>1. ButtonOK'
  BY <1>0 DEF LongPressBegins, ButtonOK, Reset, counts
<1>2. PressInv'
  BY <1>0 DEF LongPressBegins, PressInv, Idle, counts
<1> QED
  BY <1>1, <1>2 DEF LongPressBegins, DisplayInv, DeviceOK, TasksOK, ScreenOK,
     GhostsOK, TimerInv, Idle, model, screen, ghosts, counts

LEMMA ShutdownInv ==
  ASSUME DisplayInv, ShutdownAccepted
  PROVE  DisplayInv'
<1>0. ButtonOK /\ PressInv
  BY DEF DisplayInv
<1>1. /\ button # 0 /\ button' \in {0, 2} /\ Idle(Timer)
      /\ "reset" \notin emitted /\ "shutdown" \notin emitted /\ elapsed # 0
      /\ emitted' = emitted \cup {"shutdown"} /\ shutdowns' = shutdowns + 1
  BY DEF ShutdownAccepted, Release, ReleaseShutsDown, Sleeping
<1>2. ButtonOK'
  BY <1>0, <1>1 DEF ShutdownAccepted, ButtonOK, counts
<1>3. PressInv'
  BY <1>0, <1>1 DEF ShutdownAccepted, PressInv, Idle, counts
<1> QED
  BY <1>2, <1>3 DEF ShutdownAccepted, DisplayInv, DeviceOK, TasksOK, ScreenOK,
     GhostsOK, TimerInv, Idle, model, screen, ghosts, counts

\* What a held or released button starts with the display.
LEMMA ButtonActsInv ==
  ASSUME DisplayInv,
         HoldPreparesSleep \/ HoldResets \/ ShutdownRejected \/ ClickToggles
  PROVE  DisplayInv'
<1>0. ButtonOK /\ PressInv
  BY DEF DisplayInv
<1>1. UNCHANGED <<nvs, cfg, timer_st, display_st, backlight, armed, screen, repeat,
                  sleep_flag, resetDue, shutdowns, counts>>
  BY DEF HoldPreparesSleep, HoldResets, ShutdownRejected, ClickToggles, model
<1>2. NoJob = [NoJob EXCEPT !.then = "none"]
  BY DEF NoJob
<1>3. CASE HoldPreparesSleep
  <2>1. /\ Begin(Timer, "off", [NoJob EXCEPT !.then = "none"])
        /\ emitted' = emitted \cup {"sleep"} /\ button' = button /\ Idle(Timer)
        /\ button = 5 /\ ~resetDue /\ elapsed' = Sleeping
    BY <1>2, <1>3 DEF HoldPreparesSleep, HoldPasses, DisplayOff
  <2>2. ButtonOK'
    BY <1>0, <1>1, <2>1 DEF ButtonOK, Sleeping, Reset, counts
  <2> QED
    BY <1>0, <1>1, <2>1, <2>2, BeginInv DEF PressInv
<1>4. CASE HoldResets
  <2>1. /\ Begin(Timer, "on", [NoJob EXCEPT !.then = "reset"])
        /\ emitted' = emitted \cup {"reset"} /\ button' = button /\ Idle(Timer)
        /\ button = 5 /\ ~resetDue /\ elapsed' = Reset
    BY <1>4 DEF HoldResets, HoldPasses, DisplayOn
  <2>2. ButtonOK'
    BY <1>0, <1>1, <2>1 DEF ButtonOK, Reset, counts
  <2> QED
    BY <1>0, <1>1, <2>1, <2>2, BeginInv DEF PressInv
<1>5. CASE ShutdownRejected \/ ClickToggles
  <2>1. PICK step \in {"off", "on"} : Begin(Timer, step, [NoJob EXCEPT !.then = "none"])
    BY <1>2, <1>5 DEF ShutdownRejected, ClickToggles, DisplayOn, DisplayOff
  <2>2. /\ emitted' = emitted /\ elapsed' = elapsed /\ Idle(Timer)
        /\ button' \in {0, 2} /\ button # 0
    BY <1>5 DEF ShutdownRejected, ClickToggles, Release
  <2>3. ButtonOK'
    BY <1>0, <1>1, <2>2 DEF ButtonOK, counts
  <2> QED
    BY <1>0, <1>1, <2>1, <2>2, <2>3, BeginInv DEF PressInv
<1> QED
  BY <1>3, <1>4, <1>5

-----------------------------------------------------------------------------
LEMMA RestartsInv ==
  ASSUME DisplayInv,
         \/ \E t \in {Loop, Timer} : Abort(t)
         \/ HoldRestarts \/ ClickRestarts \/ FactoryReset
  PROVE  DisplayInv'
<1>1. PICK stored \in Configs : Restart(stored)
  BY DefaultTyped DEF Abort, HoldRestarts, ClickRestarts, FactoryReset, DisplayInv,
     DeviceOK
<1> QED
  BY <1>1, RestartInv DEF DisplayInv, ButtonOK, ScreenOK

LEMMA InitInv == Init => DisplayInv
BY BootedInv, DisplayAssumptions DEF Init

LEMMA NextInv == DisplayInv /\ [Next]_vars => DisplayInv'
<1>1. ASSUME DisplayInv, UNCHANGED vars PROVE DisplayInv'
  BY <1>1 DEF vars, DisplayInv, DeviceOK, TasksOK, ScreenOK, ButtonOK, GhostsOK,
     PressInv, TimerInv, Idle
<1>2. ASSUME DisplayInv, Works PROVE DisplayInv'
  BY <1>2, TimerStepInv, RestartsInv, BrightnessInv, SettingsInv, OperationInv,
     ClearsInv DEF Works
<1>3. ASSUME DisplayInv, Users PROVE DisplayInv'
  BY <1>3, PostInv, PressesInv, LongPressInv, RestartsInv, ButtonActsInv, ShutdownInv
     DEF Users
<1> QED
  BY <1>1, <1>2, <1>3, FiresInv, RestartsInv DEF Next

LEMMA DisplayAlways == Spec => []DisplayInv
BY InitInv, NextInv, PTL DEF Spec

\* The display, the settings on their way and the button keep their types, over
\* every restart, for any number of presses and settings.
THEOREM TypeCorrect == Spec => []TypeOK
BY DisplayAlways, InvIsTyped, PTL

\* A failed check on the sleep timer reboots the device: it never does, for any
\* number of presses, settings and expiries, as long as no task begins an
\* operation while another is in one.
THEOREM TimerChecksHold == Spec => []AbortsNeedOverlap
<1>1. DisplayInv => AbortsNeedOverlap
  <2> SUFFICES ASSUME DisplayInv, NEW t \in {Loop, Timer}, Fails(t), ~raced
               PROVE  FALSE
    BY DEF AbortsNeedOverlap
  <2>1. t \in Tasks /\ ~Idle(t) /\ TimerInv
    BY TaskNames DEF DisplayInv, Fails, Idle
  <2> QED
    BY <2>1, OthersIdle DEF Fails, Between
<1> QED
  BY <1>1, DisplayAlways, PTL

\* However often the button is pressed, released and held, and whichever
\* shutdowns are rejected, a long press and the short ones after it shut the
\* device down at most once, and not at all while a factory reset is coming.
THEOREM OneShutdownPerPress == Spec => []PressActsOnce
<1>1. DisplayInv => PressActsOnce
  BY DEF DisplayInv, PressInv, PressActsOnce
<1> QED
  BY <1>1, DisplayAlways, PTL
=============================================================================
