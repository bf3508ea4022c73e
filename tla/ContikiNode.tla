---------------------------- MODULE ContikiNode -----------------------------
(***************************************************************************)
(* The Contiki-NG port of the sensor node: the protothread of              *)
(* ports/contiki-ng/sensor_node/cookie-sensor-node.c with its event timers *)
(* and the radio duty cycle (RADIO_SLEEP).  A protothread runs from one    *)
(* wait to the next without being preempted and, on the scale of its       *)
(* timers, in no time; time passes only while it waits.  The two sensors   *)
(* hang on a bit-banged bus: a transaction is refused when its address is  *)
(* not acknowledged, and a line stuck low acknowledges for everyone.  The  *)
(* text of the frame and the phase markers are left out.                   *)
(***************************************************************************)
EXTENDS Integers

CONSTANTS Interval,     \* REPORT_INTERVAL_SEC, in ticks
          Linger,       \* RADIO_LINGER_MS
          Reoff,        \* the period of the re-assert loop
          JoinTimeout,  \* JOIN_TIMEOUT_SEC
          MaxLatch      \* ticks RPL traffic keeps the radio in RX (bound)

ASSUME TimesAssumption ==
    /\ Interval \in Nat /\ Linger \in Nat \ {0} /\ Reoff \in Nat \ {0}
    /\ Linger < Interval /\ JoinTimeout \in Nat /\ MaxLatch \in Nat

VARIABLES
    pc,         \* the next wait, or the next step of the boot or a cycle
    reachable,  \* NETSTACK_ROUTING.node_is_reachable
    waited,     \* seconds spent joining
    left,       \* ticks until the etimer cycle expires; 0: expired
    late,       \* ticks since it expired
    timer,      \* ticks until linger or reoff expires
    radio,      \* "on" by the node, "off", or "latched" in RX by RPL traffic
    latched,    \* history: ticks the radio has been latched
    phase,      \* history: ticks since the cycle was first set, modulo Interval
    report,     \* history: the last report was "none", "sent" or "dropped"
    bus,        \* "good", "flaky", or "stuck": SDA held low
    shtAwake,   \* the SHTC3 is awake
    icmOk,      \* icm_ok
    icmAwake,   \* the IMU runs
    th, accel   \* the fields of the frame: "none", "real", or "zeros"

sensors == <<bus, shtAwake, icmOk, icmAwake, th, accel>>
vars == <<pc, reachable, waited, left, late, timer, radio, latched, phase, report, sensors>>

TypeOK == /\ pc \in {"icmInit", "join", "wait", "shtWake", "shtRead", "shtOff",
                     "icmRead", "icmOff", "post", "linger", "reoff"}
          /\ reachable \in BOOLEAN
          /\ waited \in 0..JoinTimeout
          /\ left \in 0..Interval
          /\ late \in 0..Interval
          /\ timer \in 0..(IF Linger > Reoff THEN Linger ELSE Reoff)
          /\ radio \in {"on", "off", "latched"}
          /\ latched \in 0..MaxLatch
          /\ phase \in 0..(Interval - 1)
          /\ report \in {"none", "sent", "dropped"}
          /\ bus \in {"good", "flaky", "stuck"}
          /\ shtAwake \in BOOLEAN /\ icmOk \in BOOLEAN /\ icmAwake \in BOOLEAN
          /\ th \in {"none", "real", "zeros"} /\ accel \in {"none", "real", "zeros"}

\* The sensors stay powered when the processor restarts.
Init == /\ pc = "icmInit"
        /\ reachable \in BOOLEAN
        /\ waited = 0
        /\ left = 0 /\ late = 0 /\ timer = 0
        /\ radio = "on" /\ latched = 0
        /\ phase = 0
        /\ report = "none"
        /\ bus \in {"good", "flaky", "stuck"}
        /\ shtAwake \in BOOLEAN /\ icmAwake \in BOOLEAN /\ icmOk = FALSE
        /\ th = "none" /\ accel = "none"

\* etimer_expired(&cycle): true from the expiry until the timer is set again.
Expired == left = 0

-----------------------------------------------------------------------------
\* The join loop ends, joined or not: radio off, etimer_set(&cycle).
JoinEnds ==
    /\ pc = "join"
    /\ reachable \/ waited = JoinTimeout
    /\ radio' = "off"
    /\ left' = Interval
    /\ phase' = 0
    /\ pc' = "wait"
    /\ UNCHANGED <<reachable, waited, late, timer, latched, report, sensors>>

\* The cycle timer fired: radio on, markers up, a new frame.
WakeUp ==
    /\ pc = "wait" /\ Expired
    /\ radio' = "on" /\ latched' = 0
    /\ th' = "none" /\ accel' = "none"
    /\ pc' = "shtWake"
    /\ UNCHANGED <<reachable, waited, left, late, timer, phase, report, bus, shtAwake,
                   icmOk, icmAwake>>

timing == <<reachable, waited, left, late, timer, radio, latched, phase>>

-----------------------------------------------------------------------------
(* The sensors, polled within the step of the protothread.                 *)

\* i2c_write returns 0 when SDA is low in the ninth clock: the chip, or
\* nothing but the line, holds it there.
Replies == CASE bus = "good" -> {"ack"}
             [] bus = "flaky" -> {"ack", "nack"}
             [] bus = "stuck" -> {"ghost"}

\* icm_init, which returns before its second write when the first is refused.
IcmInit ==
    /\ pc = "icmInit"
    /\ \E bank, wake \in Replies :
        /\ icmOk' = ("nack" \notin {bank, wake})
        /\ icmAwake' = (icmAwake \/ (bank # "nack" /\ wake = "ack"))
    /\ pc' = "join"
    /\ UNCHANGED <<timing, report, bus, shtAwake, th, accel>>

\* shtc3_read: the wake-up.
ShtWake ==
    /\ pc = "shtWake"
    /\ \E r \in Replies :
        /\ shtAwake' = (shtAwake \/ r = "ack")
        /\ pc' = IF r = "nack" THEN "icmRead" ELSE "shtRead"
    /\ UNCHANGED <<timing, report, bus, icmOk, icmAwake, th, accel>>

\* Its measurement, whose command is not checked, and the data: a sensor that
\* did not measure refuses, and the early return skips the sleep command.  The
\* checksums are thrown away, so the zeros of a stuck line count as data.
ShtRead ==
    /\ pc = "shtRead"
    /\ \E measure, data \in Replies :
        LET real == data = "ack" /\ measure = "ack" /\ shtAwake
        IN  /\ th' = IF real THEN "real" ELSE IF data = "ghost" THEN "zeros" ELSE "none"
            /\ pc' = IF real \/ data = "ghost" THEN "shtOff" ELSE "icmRead"
    /\ UNCHANGED <<timing, report, bus, shtAwake, icmOk, icmAwake, accel>>

\* Its sleep command, not checked either.
ShtOff ==
    /\ pc = "shtOff"
    /\ \E r \in Replies : shtAwake' = (shtAwake /\ r # "ack")
    /\ pc' = "icmRead"
    /\ UNCHANGED <<timing, report, bus, icmOk, icmAwake, th, accel>>

\* icm_read_accel: it returns before the sleep write when the read is refused.
IcmRead ==
    /\ pc = "icmRead"
    /\ \E r \in Replies :
        /\ pc' = IF ~icmOk \/ r = "nack" THEN "post" ELSE "icmOff"
        /\ accel' = IF ~icmOk \/ r = "nack" THEN "none"
                    ELSE IF r = "ack" THEN "real" ELSE "zeros"
    /\ UNCHANGED <<timing, report, bus, shtAwake, icmOk, icmAwake, th>>

\* A read that leaves the chip running.
IcmOffSkipped ==
    /\ pc = "icmOff"
    /\ pc' = "post"
    /\ UNCHANGED <<timing, report, sensors>>

IcmOff ==
    /\ pc = "icmOff"
    /\ \E r \in Replies : icmAwake' = (icmAwake /\ r # "ack")
    /\ pc' = "post"
    /\ UNCHANGED <<timing, report, bus, shtAwake, icmOk, th, accel>>

\* A node that takes a join timeout for good.
PostGivesUp ==
    /\ pc = "post"
    /\ report' = IF reachable /\ waited < JoinTimeout THEN "sent" ELSE "dropped"
    /\ timer' = Linger
    /\ pc' = "linger"
    /\ UNCHANGED <<reachable, waited, left, late, radio, latched, phase, sensors>>

\* coap_sendto returns an error, counted in tx_drop, unless the node is
\* reachable; markers down; etimer_set(&linger).
Post ==
    /\ pc = "post"
    /\ report' = IF reachable THEN "sent" ELSE "dropped"
    /\ timer' = Linger
    /\ pc' = "linger"
    /\ UNCHANGED <<reachable, waited, left, late, radio, latched, phase, sensors>>

-----------------------------------------------------------------------------
(* The way back to sleep.                                                  *)

\* etimer_restart: it starts now.
RestartCycle ==
    /\ left' = Interval
    /\ late' = 0

\* etimer_reset: the new period starts where the last one ended.
ResetCycle ==
    /\ left' = Interval - late
    /\ late' = 0

Due == timer = 0 \/ (pc = "reoff" /\ Expired)

\* A linger that forgets NETSTACK_MAC.off().
MacStaysOn ==
    /\ pc \in {"linger", "reoff"} /\ Due
    /\ IF Expired
       THEN /\ ResetCycle /\ pc' = "wait" /\ UNCHANGED timer
       ELSE /\ timer' = Reoff /\ pc' = "reoff" /\ UNCHANGED <<left, late>>
    /\ UNCHANGED <<reachable, waited, radio, latched, phase, report, sensors>>

\* The linger, or a turn of the re-assert loop, is over: NETSTACK_MAC.off(),
\* and while (!etimer_expired(&cycle)) decides what comes next.
MacOff ==
    /\ pc \in {"linger", "reoff"} /\ Due
    /\ radio' = "off" /\ latched' = 0
    /\ IF Expired
       THEN /\ ResetCycle /\ pc' = "wait" /\ UNCHANGED timer
       ELSE /\ timer' = Reoff /\ pc' = "reoff" /\ UNCHANGED <<left, late>>
    /\ UNCHANGED <<reachable, waited, phase, report, sensors>>

-----------------------------------------------------------------------------
(* The rest of Contiki-NG.                                                 *)

RoutingChanges ==
    /\ reachable' = ~reachable
    /\ UNCHANGED <<pc, waited, left, late, timer, radio, latched, phase, report, sensors>>

\* RPL control traffic goes out whatever the state of the MAC, and leaves the
\* radio in RX; some time later the radio is off again.
RplSends ==
    /\ radio = "off"
    /\ radio' = "latched" /\ latched' = 0
    /\ UNCHANGED <<pc, reachable, waited, left, late, timer, phase, report, sensors>>

Unlatch ==
    /\ radio = "latched"
    /\ radio' = "off" /\ latched' = 0
    /\ UNCHANGED <<pc, reachable, waited, left, late, timer, phase, report, sensors>>

BusChanges ==
    /\ bus' \in {"good", "flaky", "stuck"} \ {bus}
    /\ UNCHANGED <<pc, timing, report, shtAwake, icmOk, icmAwake, th, accel>>

\* The process runs before time passes.
ProcessReady == \/ pc = "join" /\ (reachable \/ waited = JoinTimeout)
                \/ pc = "wait" /\ Expired
                \/ pc \in {"linger", "reoff"} /\ Due
                \/ pc \notin {"join", "wait", "linger", "reoff"}

Tick ==
    /\ ~ProcessReady
    /\ radio = "latched" => latched < MaxLatch
    /\ latched' = IF radio = "latched" THEN latched + 1 ELSE latched
    /\ waited' = IF pc = "join" THEN waited + 1 ELSE waited
    /\ left' = IF left > 0 THEN left - 1 ELSE 0
    /\ late' = IF pc # "join" /\ Expired THEN late + 1 ELSE late
    /\ timer' = IF timer > 0 THEN timer - 1 ELSE 0
    /\ phase' = (phase + 1) % Interval
    /\ UNCHANGED <<pc, reachable, radio, report, sensors>>

-----------------------------------------------------------------------------
Process == \/ IcmInit \/ JoinEnds \/ WakeUp \/ ShtWake \/ ShtRead \/ ShtOff
           \/ IcmRead \/ IcmOff \/ Post \/ MacOff
Next == Process \/ RoutingChanges \/ BusChanges \/ RplSends \/ Unlatch \/ Tick

Spec == Init /\ [][Next]_vars

\* Time passes, the process runs when one of its timers expires, and the latch
\* ends.
FairSpec == Spec /\ SF_vars(Process) /\ SF_vars(Tick) /\ WF_vars(Unlatch)

-----------------------------------------------------------------------------
\* The cycle does not drift: every wake-up is a whole number of intervals after
\* the timer was first set, although each cycle lingers after it expired.
CycleDoesNotDrift == [][WakeUp => phase = 0]_vars

\* Between two cycles the node itself never holds the radio on, and within one
\* it holds it on for the linger (the duty cycle that is measured).
RadioDutyCycle ==
    /\ pc = "wait" /\ left > 0 => radio # "on"
    /\ pc # "join" /\ radio = "on" => late <= Linger

\* A node that gets and stays reachable reports in every cycle, whether or not
\* it joined in time and whatever was dropped before.
ReachableReports ==
    <>[]reachable => []<>(pc = "linger" /\ report = "sent")

\* Once the bus is good for ever both sensors sleep between the cycles, although
\* a refused read leaves its sensor awake; the IMU of a node whose icm_init was
\* refused is never looked at again.
SensorsHeal ==
    <>[](bus = "good") => <>[](pc = "wait" => ~shtAwake /\ (icmOk => ~icmAwake))

-----------------------------------------------------------------------------
\* "Returns 0 if the byte was ACKed" (cookie-sensor-node.c:141): a frame carries
\* only what a sensor said.
FieldsAreReal == "zeros" \notin {th, accel}

\* "Re-assert radio-off every 2 s until the next cycle"
\* (cookie-sensor-node.c:479): between cycles the radio is never in RX longer.
LatchIsCut == latched <= Reoff
=============================================================================
