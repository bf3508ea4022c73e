------------------------------ MODULE RiotNode -------------------------------
(***************************************************************************)
(* The RIOT port of the sensor node (ports/riot/sensor_node/main.c).  The  *)
(* main thread boots, and then measures, posts, lingers and rests.  The    *)
(* netif thread of GNRC sends what is queued behind its back; the two      *)
(* sensors sit on a bus that may refuse any transaction, and they keep     *)
(* their state when the processor restarts.  A refused write changes       *)
(* nothing; a sensor that is asleep refuses everything but its wake-up.    *)
(***************************************************************************)
EXTENDS Integers

CONSTANTS Fragments   \* link frames of one report (bound)

ASSUME FragmentsAssumption == Fragments \in Nat \ {0}

VARIABLES
    pc,         \* the next step of the main thread
    hasNetif,   \* there is a 6LoWPAN interface
    netif,      \* netif_pid is set
    canSleep,   \* the driver supports the SLEEP state
    radio,      \* "idle" (in RX) or "sleep"
    queued,     \* link frames the netif thread has to send
    flying,     \* one of them is on the air
    busy,       \* history: attempts of this cycle that met a transmission
    busOk,      \* FALSE while the bus may refuse transactions
    shtOk, shtAwake,      \* shtc3_ok, and what the SHTC3 does
    icmOk, icmAwake,      \* icm_ok, and what the IMU does
    refused,    \* history: sensors whose last command to sleep was refused
    th, accel,  \* have_th, have_accel
    tx, sens    \* LED0 and LED1: the markers, and the blinks of the boot

vars == <<pc, hasNetif, netif, canSleep, radio, queued, flying, busy, busOk,
          shtOk, shtAwake, icmOk, icmAwake, refused, th, accel, tx, sens>>
air == <<radio, queued, flying>>
sht == <<shtOk, shtAwake>>
icm == <<icmOk, icmAwake>>
frame == <<th, accel>>
leds == <<tx, sens>>
env == <<hasNetif, canSleep, busOk>>

Boot == {"blink", "probe", "alarm", "idle", "shtWake", "shtInit", "shtOff", "icmBank", "icmWake"}
Loop == {"cycle", "wake", "read", "off", "icmRead", "icmSleep", "post", "mark",
         "linger", "sleep", "again", "rest"}

TypeOK == /\ pc \in Boot \cup Loop
          /\ radio \in {"idle", "sleep"}
          /\ queued \in 0..Fragments
          /\ busy \in 0..2
          /\ refused \subseteq {"sht", "icm"}
          /\ {hasNetif, netif, canSleep, flying, busOk, shtOk, shtAwake, icmOk,
              icmAwake, th, accel, tx, sens} \subseteq BOOLEAN

Init == /\ pc = "blink"
        /\ hasNetif \in BOOLEAN /\ canSleep \in BOOLEAN /\ busOk \in BOOLEAN
        /\ netif = FALSE
        /\ radio = "idle" /\ queued = 0 /\ flying = FALSE /\ busy = 0
        /\ shtOk = FALSE /\ shtAwake = FALSE
        /\ icmOk = FALSE /\ icmAwake = FALSE
        /\ refused = {}
        /\ th = FALSE /\ accel = FALSE /\ tx = FALSE /\ sens = FALSE

Goto(from, to) == pc = from /\ pc' = to

-----------------------------------------------------------------------------
(* GNRC and the world.                                                     *)

\* The netif thread takes a frame to the driver; one that meets a sleeping
\* radio is dropped.
NetifSends ==
    /\ queued > 0 /\ ~flying
    /\ queued' = queued - 1
    /\ flying' = (radio = "idle")
    /\ UNCHANGED <<pc, netif, radio, busy, sht, icm, refused, frame, leds, env>>

NetifDone ==
    /\ flying
    /\ flying' = FALSE
    /\ UNCHANGED <<pc, netif, radio, queued, busy, sht, icm, refused, frame, leds, env>>

\* Neighbour discovery of GNRC itself.
StackSends ==
    /\ hasNetif /\ queued < Fragments
    /\ queued' = queued + 1
    /\ UNCHANGED <<pc, netif, radio, flying, busy, sht, icm, refused, frame, leds, env>>

BusChanges ==
    /\ busOk' = ~busOk
    /\ UNCHANGED <<pc, hasNetif, netif, canSleep, air, busy, sht, icm, refused, frame, leds>>

\* The processor restarts (reset pin, a new image); the sensors stay powered.
Restart ==
    /\ pc' = "blink"
    /\ netif' = FALSE /\ radio' = "idle" /\ queued' = 0 /\ flying' = FALSE /\ busy' = 0
    /\ shtOk' = FALSE /\ icmOk' = FALSE /\ refused' = {}
    /\ th' = FALSE /\ accel' = FALSE /\ tx' = FALSE /\ sens' = FALSE
    /\ UNCHANGED <<env, shtAwake, icmAwake>>

-----------------------------------------------------------------------------
\* radio_set_state: 0 when the driver takes the state or is in it already.
Accepts(state) == netif /\ ~flying /\ (state = "idle" \/ canSleep)
SetState(state) ==
    /\ radio' = IF Accepts(state) THEN state ELSE radio
    /\ UNCHANGED <<queued, flying>>

\* The two outcomes of a transaction.
Ack(ok, awake) == IF ok THEN awake ELSE ~busOk \/ ~awake

\* An access of the SHTC3 that its wake-up is not part of.
ShtAck(ok) == Ack(ok, shtAwake)

\* shtc3_wakeup and shtc3_to_sleep: the results of the writes are ignored.
ShtWakes ==
    /\ shtAwake' \in IF busOk THEN {TRUE} ELSE {TRUE, shtAwake}
    /\ UNCHANGED <<shtOk, refused>>
ShtSleeps ==
    /\ \E ok \in BOOLEAN :
        /\ ShtAck(ok)
        /\ shtAwake' = (shtAwake /\ ~ok)
        /\ refused' = IF ok \/ ~shtAwake THEN refused \ {"sht"} ELSE refused \cup {"sht"}
    /\ UNCHANGED shtOk

\* The IMU answers awake or asleep.
IcmAck(ok) == ok \/ ~busOk

-----------------------------------------------------------------------------
(* main, up to its loop.                                                   *)

\* Three green blinks; derive_src.
BootBlinks ==
    /\ Goto("blink", "probe")
    /\ netif' = hasNetif
    /\ UNCHANGED <<air, busy, sht, icm, refused, frame, leds, env>>

\* The probe of the low-power state.
ProbeSleep ==
    /\ pc = "probe"
    /\ SetState("sleep")
    /\ pc' = IF Accepts("sleep") THEN "idle" ELSE "alarm"
    /\ UNCHANGED <<netif, busy, sht, icm, refused, frame, leds, env>>

\* Ten red blinks.
Alarm ==
    /\ Goto("alarm", "idle")
    /\ UNCHANGED <<netif, air, busy, sht, icm, refused, frame, leds, env>>

ProbeIdle ==
    /\ Goto("idle", "shtWake")
    /\ SetState("idle")
    /\ UNCHANGED <<netif, busy, sht, icm, refused, frame, leds, env>>

BootShtWake ==
    /\ Goto("shtWake", "shtInit")
    /\ ShtWakes
    /\ UNCHANGED <<netif, air, busy, icm, frame, leds, env>>

\* shtcx_init; on failure the sensor is not put back to sleep.
BootShtInit ==
    /\ pc = "shtInit"
    /\ \E ok \in BOOLEAN :
        /\ ShtAck(ok)
        /\ shtOk' = ok
        /\ pc' = IF ok THEN "shtOff" ELSE "icmBank"
    /\ UNCHANGED <<netif, air, busy, shtAwake, icm, refused, frame, leds, env>>

BootShtSleep ==
    /\ Goto("shtOff", "icmBank")
    /\ ShtSleeps
    /\ UNCHANGED <<netif, air, busy, icm, frame, leds, env>>

\* icm_init: the bank, then the wake-up, each only if the one before succeeded.
IcmInitBank ==
    /\ pc = "icmBank"
    /\ \E ok \in BOOLEAN : IcmAck(ok) /\ pc' = IF ok THEN "icmWake" ELSE "cycle"
    /\ UNCHANGED <<netif, air, busy, sht, icm, refused, frame, leds, env>>

IcmInitWake ==
    /\ Goto("icmWake", "cycle")
    /\ \E ok \in BOOLEAN : IcmAck(ok) /\ icmOk' = ok /\ icmAwake' = (icmAwake \/ ok)
    /\ UNCHANGED <<netif, air, busy, sht, refused, frame, leds, env>>

-----------------------------------------------------------------------------
(* The loop.                                                               *)

\* Red goes high, radio_wake, green goes high.
CycleStart ==
    /\ pc = "cycle"
    /\ pc' = IF shtOk THEN "wake" ELSE "icmRead"
    /\ SetState("idle")
    /\ tx' = TRUE /\ sens' = TRUE
    /\ th' = FALSE /\ accel' = FALSE /\ busy' = 0
    /\ UNCHANGED <<netif, sht, icm, refused, env>>

\* A read that relies on the wake-up of the boot.
NoWake ==
    /\ Goto("wake", "read")
    /\ UNCHANGED <<netif, air, busy, sht, icm, refused, frame, leds, env>>

ReadWake ==
    /\ Goto("wake", "read")
    /\ ShtWakes
    /\ UNCHANGED <<netif, air, busy, icm, frame, leds, env>>

ReadSht ==
    /\ Goto("read", "off")
    /\ \E ok \in BOOLEAN : ShtAck(ok) /\ th' = ok
    /\ UNCHANGED <<netif, air, busy, sht, icm, refused, accel, leds, env>>

\* Back to sleep only after a read that succeeded.
ReadOffIfRead ==
    /\ Goto("off", "icmRead")
    /\ IF th THEN ShtSleeps ELSE UNCHANGED <<sht, refused>>
    /\ UNCHANGED <<netif, air, busy, icm, frame, leds, env>>

\* Back to sleep, whatever the read returned.
ReadOff ==
    /\ Goto("off", "icmRead")
    /\ ShtSleeps
    /\ UNCHANGED <<netif, air, busy, icm, frame, leds, env>>

\* icm_read_accel, first half; the chip acknowledges a read when it is asleep.
IcmRead ==
    /\ pc = "icmRead"
    /\ IF icmOk
       THEN /\ pc' = "icmSleep"
            /\ \E ok \in BOOLEAN : IcmAck(ok) /\ accel' = ok
       ELSE pc' = "post" /\ UNCHANGED accel
    /\ sens' = icmOk
    /\ UNCHANGED <<netif, air, busy, sht, icm, refused, th, tx, env>>

\* Its second half writes SLEEP after a failed read too; green goes low.
IcmSleep ==
    /\ Goto("icmSleep", "post")
    /\ \E ok \in BOOLEAN :
        /\ IcmAck(ok)
        /\ icmAwake' = (icmAwake /\ ~ok)
        /\ refused' = IF ok THEN refused \ {"icm"} ELSE refused \cup {"icm"}
    /\ sens' = FALSE
    /\ UNCHANGED <<netif, air, busy, sht, icmOk, frame, tx, env>>

\* build_frame and coap_post: without an interface the stack drops the report.
Post ==
    /\ Goto("post", "mark")
    /\ queued' \in IF netif THEN {queued, Fragments} ELSE {queued}
    /\ UNCHANGED <<netif, radio, flying, busy, sht, icm, refused, frame, leds, env>>

MarkOff ==
    /\ Goto("mark", "linger")
    /\ tx' = FALSE
    /\ UNCHANGED <<netif, air, busy, sht, icm, refused, frame, sens, env>>

Linger ==
    /\ Goto("linger", "sleep")
    /\ UNCHANGED <<netif, air, busy, sht, icm, refused, frame, leds, env>>

\* radio_sleep without its second attempt.
RadioSleepOnce ==
    /\ pc \in {"sleep", "again"}
    /\ SetState("sleep")
    /\ busy' = IF netif /\ flying THEN busy + 1 ELSE busy
    /\ pc' = "rest"
    /\ UNCHANGED <<netif, sht, icm, refused, frame, leds, env>>

\* radio_sleep: after -EBUSY it waits 50 ms and tries once more; then the node
\* rests for what is left of the interval, whatever came of it.
RadioSleep ==
    /\ pc \in {"sleep", "again"}
    /\ SetState("sleep")
    /\ busy' = IF netif /\ flying THEN busy + 1 ELSE busy
    /\ pc' = IF netif /\ flying /\ pc = "sleep" THEN "again" ELSE "rest"
    /\ UNCHANGED <<netif, sht, icm, refused, frame, leds, env>>

IntervalEnds ==
    /\ Goto("rest", "cycle")
    /\ UNCHANGED <<netif, air, busy, sht, icm, refused, frame, leds, env>>

-----------------------------------------------------------------------------
BootStep == \/ BootBlinks \/ ProbeSleep \/ Alarm \/ ProbeIdle \/ BootShtWake
            \/ BootShtInit \/ BootShtSleep \/ IcmInitBank \/ IcmInitWake
LoopStep == \/ CycleStart \/ ReadWake \/ ReadSht \/ ReadOff \/ IcmRead \/ IcmSleep
            \/ Post \/ MarkOff \/ Linger \/ RadioSleep \/ IntervalEnds
Next == BootStep \/ LoopStep \/ NetifSends \/ NetifDone \/ StackSends \/ BusChanges \/ Restart

Spec == Init /\ [][Next]_vars

\* The main thread runs; every wait of it ends.
FairSpec == Spec /\ WF_vars(BootStep \/ LoopStep)

-----------------------------------------------------------------------------
\* While the node rests its radio is asleep, unless it has no interface, the
\* driver cannot sleep, or both attempts met a transmission: a first -EBUSY is
\* never the end of it.
RadioRests ==
    pc = "rest" => \/ radio = "sleep"
                   \/ ~netif \/ ~canSleep
                   \/ busy = 2

\* While the node rests a sensor is awake only if its initialisation failed
\* (since the restart) or if the bus refused the last command to sleep: a
\* failed read leaves no sensor awake.
SensorsRest ==
    pc \in {"rest", "linger", "sleep", "again"} =>
        /\ shtAwake => ~shtOk \/ "sht" \in refused
        /\ icmAwake => ~icmOk \/ "icm" \in refused

\* Once the bus is good for ever every frame carries what the boot initialised,
\* however badly the reads before went.
FramesHeal ==
    <>[](busOk /\ pc # "blink") => <>[](pc = "mark" => (th <=> shtOk) /\ (accel <=> icmOk))

-----------------------------------------------------------------------------
\* "If the driver rejects the low-power state, say so on the red LED ... a flat
\* ~12 mA baseline is a driver limit, not a build mix-up" (main.c:364-366).
AlarmMeansDriver == pc = "alarm" => ~canSleep
=============================================================================
