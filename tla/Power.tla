------------------------------- MODULE Power -------------------------------
(***************************************************************************)
(* The self-current burst and the battery reading of                       *)
(* libs/cookie_power/src/power.c, for a caller whose sample structure is   *)
(* not cleared (both loops keep it on the stack).  One step is one call    *)
(* into the ADC driver, which may fail each time.  Currents are kept in    *)
(* steps of the ADC, times a scale; a build without the ADC channels is    *)
(* one whose channel setup always fails.                                   *)
(***************************************************************************)
EXTENDS Integers

CONSTANTS Readings,     \* readings of the ADC that are not negative
          Samples,      \* COOKIE_POWER_BURST_SAMPLES
          Scale         \* current of one step; 0 for a gain or shunt of 0

VARIABLES initialised,  \* the ADC channels are set up
          step,         \* "idle", "setup", "burst", "vbat", "returned"
          goal,         \* "present", "burst" or "vbat": the running call
          rc,           \* its result is 0
          left,         \* readings left in the burst
          sum, peak,    \* sum_ma, peak_ma
          written       \* fields of the sample that this call has written

vars == <<initialised, step, goal, rc, left, sum, peak, written>>
burst == <<left, sum, peak>>

Fields == {"i_avg", "i_pk", "vbat"}

Init == /\ initialised = FALSE /\ step = "idle" /\ goal = "present" /\ rc = FALSE
        /\ left = 0 /\ sum = 0 /\ peak = 0
        /\ written = {}

Return(ok) == step' = "returned" /\ rc' = ok

\* What follows a successful initialise_if_needed.
Proceed(g) == IF g = "present" THEN Return(TRUE)
              ELSE step' = g /\ rc' = FALSE

\* cookie_power_present, cookie_power_sample_burst, cookie_power_read_vbat_mv.
Call(g) ==
    /\ step = "idle"
    /\ goal' = g
    /\ left' = Samples /\ sum' = 0 /\ peak' = 0
    /\ IF initialised THEN Proceed(g) ELSE step' = "setup" /\ rc' = FALSE
    /\ UNCHANGED <<initialised, written>>

\* initialise_if_needed: both channels ready and set up, or an error.
Setup ==
    /\ step = "setup"
    /\ \/ initialised' = TRUE /\ Proceed(goal)
       \/ Return(FALSE) /\ UNCHANGED initialised
    /\ UNCHANGED <<goal, burst, written>>

\* raw_to_milliamps: a small negative excursion is 0.
RawToMilliamps(raw) == IF raw < 0 THEN 0 ELSE raw * Scale

\* One reading of the burst; the first that fails ends the call.
ReadOne ==
    /\ step = "burst" /\ left > 0
    /\ \/ Return(FALSE) /\ UNCHANGED burst
       \/ \E raw \in Readings \cup {-1} :
            LET ma == RawToMilliamps(raw)
            IN  /\ left' = left - 1
                /\ sum' = sum + ma
                /\ peak' = IF ma > peak THEN ma ELSE peak
                /\ UNCHANGED <<step, rc>>
    /\ UNCHANGED <<initialised, goal, written>>

\* Mean and peak are stored before the battery is read.
StoreBurst ==
    /\ step = "burst" /\ left = 0
    /\ step' = "vbat"
    /\ written' = written \cup {"i_avg", "i_pk"}
    /\ UNCHANGED <<initialised, goal, rc, burst>>

\* A burst whose battery reading is optional.
ReadVbatIgnored ==
    /\ step = "vbat"
    /\ Return(TRUE)
    /\ written' \in {written, written \cup {"vbat"}}
    /\ UNCHANGED <<initialised, goal, burst>>

\* read_vbat_mv; its failure is that of the whole call.
ReadVbat ==
    /\ step = "vbat"
    /\ \E ok \in BOOLEAN :
        /\ Return(ok)
        /\ written' = IF ok THEN written \cup {"vbat"} ELSE written
    /\ UNCHANGED <<initialised, goal, burst>>

\* The caller takes the result, and its locals die.
Take ==
    /\ step = "returned"
    /\ step' = "idle" /\ goal' = "present" /\ rc' = FALSE
    /\ left' = 0 /\ sum' = 0 /\ peak' = 0 /\ written' = {}
    /\ UNCHANGED initialised

-----------------------------------------------------------------------------
Step == Setup \/ ReadOne \/ StoreBurst \/ ReadVbat

-----------------------------------------------------------------------------
\* A burst that returns 0 has written all three fields, whatever was in the
\* caller's structure before, and its mean lies between 0 and its peak.
SampleIsWhole ==
    step = "returned" /\ rc /\ goal = "burst" =>
        /\ written = Fields
        /\ 0 <= sum /\ sum <= Samples * peak
=============================================================================
