--------------------------- MODULE MCLightLinkage ---------------------------
(* LightLinkage with the real refresh values and narrow run counters.     *)
EXTENDS LightLinkage

MC_U8_BITS  == 3       \* counters wrap at 8, so a long dark run wraps
MC_U16_BITS == 16
MC_HYST     == 3
(* atoi() results: below the clamp, a normal period, and one that the     *)
(* rt_uint16_t cast turns into 5.                                         *)
MC_RATE_ARGS == {0, 300, 65541}

-----------------------------------------------------------------------------
(* A history variable beside the linkage: how many samples the light      *)
(* thread has taken since sw_light last turned the linkage on, counted up *)
(* to HYST.  It only observes the steps of Next.                          *)
VARIABLE fresh

HInit == Init /\ fresh = 0

HNext ==
  /\ Next
  /\ fresh' = CASE ~s_enabled /\ s_enabled' -> 0
               [] light_pc = "sample" /\ light_pc' = "check" ->
                    IF fresh < HYST THEN fresh + 1 ELSE HYST
               [] OTHER -> fresh

HSpec == HInit /\ [][HNext]_<<vars, fresh>>

(* light_thread_entry line 63: "hysteresis: switch state only after 3    *)
(* consecutive determinations".  The sample that switches s_dark and the  *)
(* HYST - 1 before it are all taken since the linkage was last turned on; *)
(* dark_cnt and light_cnt are kept while it is off.                       *)
SwitchNeedsFreshRun == [][s_dark' # s_dark => fresh >= HYST - 1]_<<vars, fresh>>

=============================================================================
