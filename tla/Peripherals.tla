----------------------------- MODULE Peripherals -----------------------------
(***************************************************************************)
(* The threads around the engine that drive the board's indicators,       *)
(* composed: the LED thread (Indicator), the light thread with the buzzer *)
(* and refresh settings (LightLinkage), and the shell commands that join  *)
(* them.  sw_start, sw_stop, sw_reset and sw_lap of stopwatch_cli.c call  *)
(* the engine and then notifier_beep_once(), so one shell command moves   *)
(* the engine state the LED thread polls and sounds the buzzer the light  *)
(* thread may silence; the shell runs no other command while it sleeps in *)
(* the beep.  The engine is what stopwatch.h promises (StopwatchAbstract). *)
(***************************************************************************)
EXTENDS LightLinkage, StopwatchAbstract

VARIABLES led_run, led_pause, blink

Ind == INSTANCE Indicator

led_vars == <<led_run, led_pause, blink>>
pvars == <<abs_vars, led_vars, vars>>

(* main(): stopwatch_init(), indicator_led_init(), notifier_buzzer_init(), *)
(* ui_oled_init(), sensor_light_init(), in this order, before any of the   *)
(* threads they create runs.                                              *)
PInit == Ind!Init /\ Init

(* The tail of cmd_sw_start/stop/reset/lap: notifier_beep_once(ms).       *)
BeepAfterCommand ==
  \/ BeepOnce
  \/ ~s_beep_enabled /\ UNCHANGED vars

(* A stopwatch command typed at the shell: the engine call (start on a    *)
(* Running stopwatch and stop on a stopped one return at once), then the  *)
(* acknowledgement beep.  stopwatch_lap() never fails once initialised.   *)
SwEngineCommand ==
  /\ shell_pc = "idle"
  /\ \/ AbsStart \/ AbsStop \/ AbsReset \/ AbsLap
     \/ state = RUNNING /\ UNCHANGED abs_vars   \* sw_start while Running
     \/ state # RUNNING /\ UNCHANGED abs_vars   \* sw_stop while stopped
  /\ BeepAfterCommand
  /\ UNCHANGED led_vars

(* sw_clear_laps: stopwatch_clear_laps(), no beep.                        *)
SwClearLaps ==
  /\ shell_pc = "idle" /\ AbsClearLaps
  /\ UNCHANGED <<led_vars, vars>>

(* The stopwatch runs on.                                                 *)
TimePasses == Elapse /\ UNCHANGED <<led_vars, vars>>

(* One turn of the LED thread.                                            *)
LedTurn == Ind!LedPoll /\ UNCHANGED vars

(* A step of the light thread, a settings command, the light changing or  *)
(* the end of a beep's delay.                                             *)
LightStep ==
  /\ \/ PinChange \/ LightCheck \/ LightSample \/ BeepDone
     \/ \E b \in BOOLEAN : SwLight(b) \/ SwLightInvert(b) \/ SwBeep(b)
     \/ \E a \in RATE_ARGS : SwOledRate(a)
  /\ UNCHANGED <<abs_vars, led_vars>>

PNext == SwEngineCommand \/ SwClearLaps \/ TimePasses \/ LedTurn \/ LightStep

(* The LED and light threads sleep between turns and the shell blocks     *)
(* between commands: the thread steps and the end of a beep are weakly    *)
(* fair; the user, the light and the stopwatch's running are not.         *)
PSpec ==
  /\ PInit /\ [][PNext]_pvars
  /\ WF_pvars(LedTurn)
  /\ WF_pvars(LightCheck /\ UNCHANGED <<abs_vars, led_vars>>)
  /\ WF_pvars(LightSample /\ UNCHANGED <<abs_vars, led_vars>>)
  /\ WF_pvars(BeepDone /\ UNCHANGED <<abs_vars, led_vars>>)

-----------------------------------------------------------------------------
(* The LEDs follow the stopwatch the shell commands drive, even while the *)
(* shell sleeps in a beep: once the state stays put, the pause LED ends   *)
(* up lit exactly when Paused, the run LED off unless Running, and while  *)
(* Running the run LED keeps toggling.                                    *)
LedFollowsState == Ind!LedFollowsState

=============================================================================
