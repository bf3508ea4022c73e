------------------------------ MODULE SedLoop ------------------------------
(***************************************************************************)
(* The cycle of the SED profile (apps/sensor_node/src/sed_loop.c) with the *)
(* attach wait of thread_setup.c: sleep, wait for a parent, read the       *)
(* sensors, push, put the IMU to sleep.  The main thread is preemptible:   *)
(* the OpenThread thread changes the role and ends CoAP exchanges between  *)
(* any two steps.  The build is the one with phase markers                 *)
(* (CONFIG_NODE_MEAS_LED).  Of the IMU only what Icm20648 shows to last    *)
(* from call to call is kept; of CookieCoap, how many requests are open.   *)
(***************************************************************************)
EXTENDS Integers

CONSTANTS MaxPolls,    \* 200 ms polls in one attach wait (code: 50)
          MaxOpen,     \* requests OpenThread keeps open at once (bound)
          UptimeMod,   \* k_uptime_get_32 wraps here (code: 2^32)
          MaxWindow    \* the longest wake window, below UptimeMod (bound)

VARIABLES
    pc,           \* "sleep", "poll", "frame", "env", "imu", "power", "active",
                  \* "push", "mark", "imuOff"
    attached,     \* the role is CHILD or above
    polls,        \* polls left before the deadline
    uptime,       \* k_uptime_get_32
    tStart,       \* local variable of the cycle
    elapsed,      \* history: true time since the wake-up
    tx, sens,     \* the marker pads
    imuReady,     \* the driver's "ready" state
    imuAwake,     \* the chip draws its running current
    busOk,        \* the I2C bus: FALSE while transactions may be refused, and
                  \* for ever if its controller is not ready
    accel,        \* has_accel: the frame carries a sample of the IMU
    tActive,      \* t_active_ms
    open          \* requests OpenThread may still retransmit

vars == <<pc, attached, polls, uptime, tStart, elapsed, tx, sens,
          imuReady, imuAwake, busOk, accel, tActive, open>>
clock == <<uptime, tStart, elapsed>>
imu == <<imuReady, imuAwake>>
frame == <<accel, tActive>>

PC == {"sleep", "poll", "frame", "env", "imu", "power", "active", "push",
       "mark", "imuOff"}

TypeOK == /\ pc \in PC
          /\ attached \in BOOLEAN
          /\ polls \in 0..MaxPolls
          /\ uptime \in 0..(UptimeMod - 1)
          /\ tStart \in 0..(UptimeMod - 1)
          /\ elapsed \in 0..MaxWindow
          /\ tx \in BOOLEAN
          /\ sens \in BOOLEAN
          /\ imuReady \in BOOLEAN
          /\ imuAwake \in BOOLEAN
          /\ busOk \in BOOLEAN
          /\ accel \in BOOLEAN
          /\ tActive \in 0..(UptimeMod - 1)
          /\ open \in 0..MaxOpen

Init == /\ pc = "sleep"
        /\ attached \in BOOLEAN
        /\ polls = 0
        /\ uptime = 0 /\ tStart = 0 /\ elapsed = 0
        /\ tx = FALSE /\ sens = FALSE
        /\ imuReady = FALSE /\ imuAwake = FALSE
        /\ busOk \in BOOLEAN
        /\ accel = FALSE /\ tActive = 0
        /\ open = 0

-----------------------------------------------------------------------------
(* What happens around the loop.                                           *)

\* Time passes in a wake window.
Tick == /\ pc # "sleep"
        /\ elapsed < MaxWindow
        /\ elapsed' = elapsed + 1
        /\ uptime' = (uptime + 1) % UptimeMod
        /\ UNCHANGED <<pc, attached, polls, tStart, tx, sens, imu, busOk, frame, open>>

RoleChanges == /\ attached' = ~attached
               /\ UNCHANGED <<pc, polls, clock, tx, sens, imu, busOk, frame, open>>

BusChanges == /\ busOk' = ~busOk
              /\ UNCHANGED <<pc, attached, polls, clock, tx, sens, imu, frame, open>>

ExchangeEnds == /\ open > 0
                /\ open' = open - 1
                /\ UNCHANGED <<pc, attached, polls, clock, tx, sens, imu, busOk, frame>>

-----------------------------------------------------------------------------
(* The cycle.                                                              *)

\* A cycle that waits for no time at all.
WakeUpNoWait ==
    /\ pc = "sleep"
    /\ uptime' \in 0..(UptimeMod - 1)
    /\ tStart' = uptime'
    /\ elapsed' = 0
    /\ tx' = TRUE
    /\ polls' = 0
    /\ pc' = "poll"
    /\ UNCHANGED <<attached, sens, imu, busOk, frame, open>>

\* k_sleep of the report interval ends at any uptime; red goes high.
WakeUp ==
    /\ pc = "sleep"
    /\ uptime' \in 0..(UptimeMod - 1)
    /\ tStart' = uptime'
    /\ elapsed' = 0
    /\ tx' = TRUE
    /\ polls' = MaxPolls
    /\ pc' = "poll"
    /\ UNCHANGED <<attached, sens, imu, busOk, frame, open>>

\* cookie_thread_wait_attached: look at the role, then sleep 200 ms.
PollAttached ==
    /\ pc = "poll" /\ polls > 0
    /\ attached
    /\ pc' = "frame"
    /\ polls' = 0
    /\ UNCHANGED <<attached, clock, tx, sens, imu, busOk, frame, open>>

\* A wait whose deadline moves with every poll.
PollAgainForEver ==
    /\ pc = "poll" /\ polls > 0
    /\ ~attached
    /\ UNCHANGED vars

PollAgain ==
    /\ pc = "poll" /\ polls > 0
    /\ ~attached
    /\ polls' = polls - 1
    /\ UNCHANGED <<pc, attached, clock, tx, sens, imu, busOk, frame, open>>

\* cookie_icm20648_sleep: nothing unless the driver is ready, nothing if the
\* bus refuses one of its two writes.
ImuSleep ==
    /\ imuAwake' \in IF ~imuReady THEN {imuAwake}
                     ELSE IF busOk THEN {FALSE} ELSE {FALSE, imuAwake}
    /\ UNCHANGED imuReady

\* A give-up path that does not touch the marker.
PollTimeoutMarkerOn ==
    /\ pc = "poll" /\ polls = 0
    /\ pc' = "imuOff"
    /\ UNCHANGED <<attached, polls, clock, tx, sens, imu, busOk, frame, open>>

\* The deadline passed: -ETIMEDOUT whatever the role is by now.  MARK_TX(0),
\* quiesce (which does nothing), and the way out by the sleep of the IMU.
PollTimeout ==
    /\ pc = "poll" /\ polls = 0
    /\ tx' = FALSE
    /\ pc' = "imuOff"
    /\ UNCHANGED <<attached, polls, clock, sens, imu, busOk, frame, open>>

\* struct sensor_frame f = { 0 }, the Thread fields, MARK_SENS(1).
BuildFrame ==
    /\ pc = "frame"
    /\ sens' = TRUE
    /\ accel' = FALSE /\ tActive' = 0
    /\ pc' = "env"
    /\ UNCHANGED <<attached, polls, clock, tx, imu, busOk, open>>

\* The SHTC3 wakes and sleeps within one read.
ReadEnvironment ==
    /\ pc = "env"
    /\ pc' = "imu"
    /\ UNCHANGED <<attached, polls, clock, tx, sens, imu, busOk, frame, open>>

\* cookie_icm20648_present: the first call resets, wakes and configures the
\* chip; on a bad bus it may break off before or after the wake-up.
ImuPresent ==
    IF imuReady THEN UNCHANGED imu
    ELSE \/ imuReady' = TRUE /\ imuAwake' = TRUE
         \/ ~busOk /\ imuReady' = FALSE /\ imuAwake' \in BOOLEAN

\* cookie_icm20648_read: no wake-up before the data registers are read.
ReadImu ==
    /\ pc = "imu"
    /\ ImuPresent
    /\ \/ imuReady' /\ accel' = TRUE
       \/ (~imuReady' \/ ~busOk) /\ UNCHANGED accel
    /\ pc' = "power"
    /\ UNCHANGED <<attached, polls, clock, tx, sens, busOk, tActive, open>>

\* The supply sample; MARK_SENS(0).
ReadPower ==
    /\ pc = "power"
    /\ sens' = FALSE
    /\ pc' = "active"
    /\ UNCHANGED <<attached, polls, clock, tx, imu, busOk, frame, open>>

\* A difference that does not wrap.
ActiveTimeSaturates ==
    /\ pc = "active"
    /\ tActive' = IF uptime >= tStart THEN uptime - tStart ELSE 0
    /\ pc' = "push"
    /\ UNCHANGED <<attached, polls, clock, tx, sens, imu, busOk, accel, open>>

\* t_active_ms = k_uptime_get_32() - t_start, modulo the width of uint32_t.
ActiveTime ==
    /\ pc = "active"
    /\ tActive' = (uptime + UptimeMod - tStart) % UptimeMod
    /\ pc' = "push"
    /\ UNCHANGED <<attached, polls, clock, tx, sens, imu, busOk, accel, open>>

\* cookie_coap_push_frame returns at once; its result is ignored.  A request
\* it got through stays open until it is answered or times out.
Push ==
    /\ pc = "push"
    /\ open' \in {open, open + 1} \cap 0..MaxOpen
    /\ pc' = "mark"
    /\ UNCHANGED <<attached, polls, clock, tx, sens, imu, busOk, frame>>

\* MARK_TX(0).
TransmitMark ==
    /\ pc = "mark"
    /\ tx' = FALSE
    /\ pc' = "imuOff"
    /\ UNCHANGED <<attached, polls, clock, sens, imu, busOk, frame, open>>

\* cookie_icm20648_sleep; cookie_coap_quiesce, which does nothing.  The frame
\* and t_start go out of scope.
CycleEnds ==
    /\ pc = "imuOff"
    /\ ImuSleep
    /\ pc' = "sleep"
    /\ tStart' = 0 /\ elapsed' = 0 /\ accel' = FALSE /\ tActive' = 0
    /\ UNCHANGED <<attached, polls, uptime, tx, sens, busOk, open>>

-----------------------------------------------------------------------------
Cycle == \/ WakeUp \/ PollAttached \/ PollAgain \/ PollTimeout \/ BuildFrame
         \/ ReadEnvironment \/ ReadImu \/ ReadPower \/ ActiveTime
         \/ Push \/ TransmitMark \/ CycleEnds
Next == Cycle \/ Tick \/ RoleChanges \/ BusChanges \/ ExchangeEnds

Spec == Init /\ [][Next]_vars

\* The main thread keeps running; OpenThread ends every exchange.
FairSpec == Spec /\ WF_vars(Cycle) /\ WF_vars(ExchangeEnds)

-----------------------------------------------------------------------------
\* The edges the timing campaign measures: red is high exactly from wake-up to
\* the return of the transmit call, green only while sensors are read, and both
\* are low in deep sleep, on the path that gives up attaching too.
MarkersMatchPhase ==
    /\ tx <=> pc \notin {"sleep", "imuOff"}
    /\ sens <=> pc \in {"env", "imu", "power"}

\* t_active_ms is the true time since the wake-up, across the wrap of the
\* 32-bit uptime counter.
ActiveTimeIsElapsed == [][pc = "active" /\ pc' = "push" => tActive' = elapsed]_vars

\* A ready IMU is asleep when the node goes to sleep, after a cycle that pushed
\* and after one that gave up attaching, unless the bus refuses the writes.
ImuRestsOnGoodBus ==
    [][(busOk /\ pc' = "sleep" /\ pc # "sleep" /\ imuReady) => ~imuAwake']_vars

\* A node that stays attached pushes in every cycle; one that stays detached
\* goes back to sleep in every cycle.
PushesWhileAttached == <>[]attached => []<>(pc = "push")
SleepsAlways == []<>(pc = "sleep")

-----------------------------------------------------------------------------
\* "0 if attached, -ETIMEDOUT otherwise" (thread_setup.h): the wait gives up
\* only on a node that is not attached.
TimeoutMeansDetached == [][PollTimeout => ~attached]_vars

\* "Cancel any pending retransmissions and put the transport into a state
\* suitable for entering deep sleep" (coap_client.h:37-38).
QuietTransportInSleep == pc = "sleep" => open = 0

\* "Put the IMU into low-power sleep" (icm20648.h:46): a cycle that ends on a
\* good bus leaves the IMU without its running current.
ImuOffInSleep == [][(busOk /\ pc = "imuOff" /\ pc' = "sleep") => ~imuAwake']_vars
=============================================================================
