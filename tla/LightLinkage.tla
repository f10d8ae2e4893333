---------------------------- MODULE LightLinkage ----------------------------
(***************************************************************************)
(* The ambient-light linkage of applications/sensor_light.c together with  *)
(* the two settings it drives: the buzzer enable of notifier_buzzer.c and  *)
(* the OLED refresh period of ui_oled.c, and the shell commands of         *)
(* stopwatch_cli.c that set the same things (sw_light, sw_light_invert,    *)
(* sw_beep, sw_oled_rate) or sound the buzzer (sw_start/stop/reset/lap).   *)
(*                                                                         *)
(* Two threads: the light thread (priority RT_THREAD_PRIORITY_MAX - 3,     *)
(* one iteration every 50 ms) and the shell thread tshell, which has the   *)
(* higher priority and so may preempt the light thread between any two of  *)
(* its statements.  The light thread's iteration is split where a          *)
(* preemption changes the outcome: after it has read s_enabled.  The rest *)
(* of the iteration only writes single words the shell never reads back   *)
(* in the middle of a command, so it is one step.                          *)
(***************************************************************************)
EXTENDS Integers

CONSTANTS
  U8_BITS,           \* width of the rt_uint8_t counters dark_cnt/light_cnt
  U16_BITS,          \* width of rt_uint16_t (the refresh period)
  HYST,              \* consecutive determinations needed to switch (3)
  DARK_REFRESH_MS,   \* ui_oled_set_refresh_ms(300) when dark
  LIGHT_REFRESH_MS,  \* ui_oled_set_refresh_ms(10) when light
  MIN_REFRESH_MS,    \* the clamp "if (ms < 10) ms = 10"
  RATE_ARGS          \* values atoi() may return for sw_oled_rate <ms>

ASSUME /\ U8_BITS \in Nat \ {0} /\ U16_BITS \in Nat \ {0}
       /\ HYST \in 1..(2^U8_BITS - 1)
       /\ {DARK_REFRESH_MS, LIGHT_REFRESH_MS, MIN_REFRESH_MS} \subseteq Nat
       /\ RATE_ARGS \subseteq Int

VARIABLES
  pin,             \* level of LIGHT_DO_PIN (the environment)
  s_enabled,       \* sensor_light.c s_enabled
  s_dark,          \* sensor_light.c s_dark
  s_invert,        \* sensor_light.c s_invert
  dark_cnt,        \* light_thread_entry's local dark_cnt
  light_cnt,       \* light_thread_entry's local light_cnt
  light_pc,        \* "check": before line 52; "sample": s_enabled was read TRUE
  s_beep_enabled,  \* notifier_buzzer.c s_beep_enabled
  buzzer_on,       \* what buz_set() last wrote to BUZZER_PIN
  s_refresh_ms,    \* ui_oled.c s_refresh_ms
  shell_pc         \* "idle", or "beeping" inside notifier_beep_once's delay

vars == <<pin, s_enabled, s_dark, s_invert, dark_cnt, light_cnt, light_pc,
          s_beep_enabled, buzzer_on, s_refresh_ms, shell_pc>>

U8_MOD  == 2^U8_BITS
U16_MOD == 2^U16_BITS

(* read_do(): DO = 0 means dark, then the optional inversion.            *)
ReadDo == IF s_invert THEN pin = 1 ELSE pin = 0

(* buz_set(on): the buzzer pin, active low.                              *)
BuzSet(on) == buzzer_on' = on

(* sensor_light_enable() and sensor_light_set_invert()                    *)
SensorLightEnable(en) == s_enabled' = en
SensorLightSetInvert(inv) == s_invert' = inv

(* Variant: the buzzer is not switched off when beeps are disabled.      *)
BeepEnableKeepBuzzer(en) ==
  /\ s_beep_enabled' = en
  /\ UNCHANGED buzzer_on

(* notifier_beep_enable(enable): a disabled buzzer is switched off.      *)
BeepEnable(en) ==
  /\ s_beep_enabled' = en
  /\ buzzer_on' = IF en THEN buzzer_on ELSE FALSE

(* Variant: ui_oled_set_refresh_ms() without its own clamp.             *)
SetRefreshUnclamped(ms) == s_refresh_ms' = ms

(* ui_oled_set_refresh_ms(ms), ms already an rt_uint16_t.                 *)
SetRefresh(ms) == s_refresh_ms' = IF ms < MIN_REFRESH_MS THEN MIN_REFRESH_MS ELSE ms

(* apply_state(dark)                                                      *)
ApplyState(dark) ==
  /\ s_dark' = dark
  /\ BeepEnable(~dark)
  /\ SetRefresh(IF dark THEN DARK_REFRESH_MS ELSE LIGHT_REFRESH_MS)

(* Power-on, after main() has run stopwatch_init() ... sensor_light_init(): *)
(* main has the highest priority, so no other thread runs before it       *)
(* sleeps; sensor_light_init() applies the first reading directly.        *)
Init ==
  /\ pin \in {0, 1}
  /\ s_enabled = TRUE /\ s_invert = TRUE
  /\ s_dark = (pin = 1)
  /\ dark_cnt = 0 /\ light_cnt = 0 /\ light_pc = "check"
  /\ s_beep_enabled = ~s_dark /\ buzzer_on = FALSE
  /\ s_refresh_ms = IF s_dark THEN DARK_REFRESH_MS ELSE LIGHT_REFRESH_MS
  /\ shell_pc = "idle"

-----------------------------------------------------------------------------
(* The environment: the module's DO output changes.                      *)
PinChange ==
  /\ pin' = 1 - pin
  /\ UNCHANGED <<s_enabled, s_dark, s_invert, dark_cnt, light_cnt, light_pc,
                 s_beep_enabled, buzzer_on, s_refresh_ms, shell_pc>>

(* light_thread_entry line 52: the test of s_enabled.  When it is false  *)
(* the iteration only sleeps, which changes nothing.                      *)
LightCheck ==
  /\ light_pc = "check" /\ s_enabled
  /\ light_pc' = "sample"
  /\ UNCHANGED <<pin, s_enabled, s_dark, s_invert, dark_cnt, light_cnt,
                 s_beep_enabled, buzzer_on, s_refresh_ms, shell_pc>>

(* Variant: the light branch tests dark_cnt, a copy of the dark branch.   *)
LightSampleCopyPaste ==
  /\ light_pc = "sample"
  /\ LET dark_now == ReadDo
         dc == IF dark_now THEN (dark_cnt + 1) % U8_MOD ELSE 0
         lc == IF dark_now THEN 0 ELSE (light_cnt + 1) % U8_MOD
     IN /\ dark_cnt' = dc /\ light_cnt' = lc
        /\ IF ~s_dark /\ dc >= HYST THEN ApplyState(TRUE)
           ELSE IF s_dark /\ dc >= HYST THEN ApplyState(FALSE)
           ELSE UNCHANGED <<s_dark, s_beep_enabled, buzzer_on, s_refresh_ms>>
  /\ light_pc' = "check"
  /\ UNCHANGED <<pin, s_enabled, s_invert, shell_pc>>

(* light_thread_entry lines 54-73: one sample, the run counters (which    *)
(* wrap at rt_uint8_t) and the hysteresis: switch after HYST consecutive  *)
(* determinations of the other state.                                     *)
LightSample ==
  /\ light_pc = "sample"
  /\ LET dark_now == ReadDo
         dc == IF dark_now THEN (dark_cnt + 1) % U8_MOD ELSE 0
         lc == IF dark_now THEN 0 ELSE (light_cnt + 1) % U8_MOD
     IN /\ dark_cnt' = dc /\ light_cnt' = lc
        /\ IF ~s_dark /\ dc >= HYST THEN ApplyState(TRUE)
           ELSE IF s_dark /\ lc >= HYST THEN ApplyState(FALSE)
           ELSE UNCHANGED <<s_dark, s_beep_enabled, buzzer_on, s_refresh_ms>>
  /\ light_pc' = "check"
  /\ UNCHANGED <<pin, s_enabled, s_invert, shell_pc>>

-----------------------------------------------------------------------------
(* The shell thread.  A command runs only when no earlier one is still    *)
(* inside notifier_beep_once()'s delay.                                   *)
ShellVarsButBuzzer == <<pin, s_dark, dark_cnt, light_cnt, light_pc>>

(* sw_light on|off -> sensor_light_enable()                               *)
SwLight(b) ==
  /\ shell_pc = "idle" /\ SensorLightEnable(b)
  /\ UNCHANGED <<ShellVarsButBuzzer, s_invert, s_beep_enabled, buzzer_on,
                 s_refresh_ms, shell_pc>>

(* sw_light_invert on|off -> sensor_light_set_invert()                    *)
SwLightInvert(b) ==
  /\ shell_pc = "idle" /\ SensorLightSetInvert(b)
  /\ UNCHANGED <<ShellVarsButBuzzer, s_enabled, s_beep_enabled, buzzer_on,
                 s_refresh_ms, shell_pc>>

(* sw_beep on|off -> notifier_beep_enable()                               *)
SwBeep(b) ==
  /\ shell_pc = "idle" /\ BeepEnable(b)
  /\ UNCHANGED <<ShellVarsButBuzzer, s_enabled, s_invert, s_refresh_ms,
                 shell_pc>>

(* sw_oled_rate <ms>: clamp the int at 10, cast it to rt_uint16_t and     *)
(* pass it to ui_oled_set_refresh_ms(), which clamps again.               *)
SwOledRate(arg) ==
  /\ shell_pc = "idle"
  /\ LET ms == IF arg < MIN_REFRESH_MS THEN MIN_REFRESH_MS ELSE arg
     IN SetRefresh(ms % U16_MOD)
  /\ UNCHANGED <<ShellVarsButBuzzer, s_enabled, s_invert, s_beep_enabled,
                 buzzer_on, shell_pc>>

(* notifier_beep_once(ms) at the end of sw_start/stop/reset/lap: when     *)
(* enabled, drive the buzzer and sleep; a disabled buzzer returns at once *)
(* and changes nothing.                                                   *)
BeepOnce ==
  /\ shell_pc = "idle" /\ s_beep_enabled
  /\ BuzSet(TRUE) /\ shell_pc' = "beeping"
  /\ UNCHANGED <<ShellVarsButBuzzer, s_enabled, s_invert, s_beep_enabled,
                 s_refresh_ms>>

(* ... rt_thread_mdelay(ms) returns; buz_set(0).                          *)
BeepDone ==
  /\ shell_pc = "beeping"
  /\ BuzSet(FALSE) /\ shell_pc' = "idle"
  /\ UNCHANGED <<ShellVarsButBuzzer, s_enabled, s_invert, s_beep_enabled,
                 s_refresh_ms>>

Next ==
  \/ PinChange
  \/ LightCheck \/ LightSample
  \/ \E b \in BOOLEAN : SwLight(b) \/ SwLightInvert(b) \/ SwBeep(b)
  \/ \E a \in RATE_ARGS : SwOledRate(a)
  \/ BeepOnce \/ BeepDone

(* The light thread wakes every 50 ms and every thread of higher priority *)
(* (tshell, ui_oled) blocks regularly, so its steps are weakly fair; so   *)
(* is the end of a beep's delay.  The user and the environment are not.   *)
Spec == Init /\ [][Next]_vars
        /\ WF_vars(LightCheck) /\ WF_vars(LightSample) /\ WF_vars(BeepDone)

-----------------------------------------------------------------------------
(* The buzzer never sounds while beeps are disabled: a dark transition of *)
(* the light thread during a shell command's beep must silence it, not    *)
(* leave it on until the command's delay ends.                            *)
BuzzerSilentWhenDisabled == buzzer_on => s_beep_enabled

(* The UI thread sleeps rt_thread_mdelay(s_refresh_ms) per frame; the     *)
(* period never drops below 10 ms, whatever int sw_oled_rate is given     *)
(* (the rt_uint16_t cast comes after the command's own clamp).            *)
RefreshNeverBelowMin == s_refresh_ms >= MIN_REFRESH_MS

(* Hysteresis converges: once linkage stays enabled and the reading stays *)
(* the same, s_dark eventually settles on that reading, whatever the      *)
(* counters held before (after a disable, an inversion or a wrap).        *)
LightFollowsSteadyReading ==
  \A r \in BOOLEAN : <>[](s_enabled /\ ReadDo = r) => <>[](s_dark = r)

(* sw_light off stops the linkage: from then on the light thread no       *)
(* longer changes the dark state (and with it the beep and refresh        *)
(* settings the user may set next).                                       *)
LightOffFreezesLinkage == [][~s_enabled => UNCHANGED s_dark]_vars

=============================================================================
