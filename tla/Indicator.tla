------------------------------ MODULE Indicator ------------------------------
(***************************************************************************)
(* The LED thread of applications/indicator_led.c composed with what the   *)
(* engine promises (StopwatchAbstract): every turn it reads                *)
(* stopwatch_get_state() once and drives the run and pause LEDs, blinking  *)
(* the run LED while Running.  The error LED is always off and left out.  *)
(***************************************************************************)
EXTENDS StopwatchAbstract

VARIABLES
  led_run,    \* LED_RUN_PIN
  led_pause,  \* LED_PAUSE_PIN
  blink       \* indicator_led_entry's local blink

led_vars == <<led_run, led_pause, blink>>
ivars == <<abs_vars, led_vars>>

(* indicator_led_init(): all LEDs off.                                    *)
Init == AbsInit /\ led_run = FALSE /\ led_pause = FALSE /\ blink = FALSE

(* Variant: the PAUSED case without its break, falling into default.     *)
LedPollFallThrough ==
  /\ CASE state = RUNNING -> /\ blink' = ~blink /\ led_run' = ~blink
                             /\ led_pause' = FALSE
       [] OTHER           -> /\ led_run' = FALSE /\ led_pause' = FALSE
                             /\ UNCHANGED blink
  /\ UNCHANGED abs_vars

(* One turn of indicator_led_entry: s = stopwatch_get_state() and the     *)
(* pins of its case.                                                      *)
LedPoll ==
  /\ CASE state = RUNNING -> /\ blink' = ~blink /\ led_run' = ~blink
                             /\ led_pause' = FALSE
       [] state = PAUSED  -> /\ led_run' = FALSE /\ led_pause' = TRUE
                             /\ UNCHANGED blink
       [] OTHER           -> /\ led_run' = FALSE /\ led_pause' = FALSE
                             /\ UNCHANGED blink
  /\ UNCHANGED abs_vars

(* Engine commands from the shell, and time passing.                     *)
EngineStep == AbsNext /\ UNCHANGED led_vars

Next == EngineStep \/ LedPoll

(* The thread sleeps 200 or 500 ms per turn and every thread of higher    *)
(* priority blocks regularly: weak fairness.                              *)
Spec == Init /\ [][Next]_ivars /\ WF_ivars(LedPoll)

-----------------------------------------------------------------------------
(* The LEDs follow the stopwatch: once the state stays put, the pause LED *)
(* is eventually lit exactly when it is Paused, the run LED stays off     *)
(* unless it is Running, and while Running the run LED keeps toggling.    *)
LedFollowsState ==
  \A st \in {IDLE, RUNNING, PAUSED} :
    <>[](state = st) =>
      /\ <>[](/\ led_pause = (st = PAUSED)
              /\ (st # RUNNING => ~led_run))
      /\ (st = RUNNING => []<>led_run /\ []<>~led_run)

=============================================================================
