------------------------------ MODULE SedNode ------------------------------
(***************************************************************************)
(* The SED node with its drivers: the cycle of SedLoop, whose sensor       *)
(* window is here made of the calls into Icm20648, transaction by          *)
(* transaction, into Power, reading by reading, and into the SHTC3         *)
(* wrapper.  All of it runs in the main thread, so at most one call is     *)
(* open; time, roles, exchanges and the health of the bus change between   *)
(* any two of its steps.  What SedLoop promises of the cycle and assumes   *)
(* of the IMU is checked here against the drivers (ImplementsLoop).        *)
(***************************************************************************)
EXTENDS Integers

CONSTANTS MaxPolls, MaxOpen, UptimeMod, MaxWindow,   \* of SedLoop
          Strap, DtAddr,                             \* of Icm20648
          Readings, Samples, Scale                   \* of Power

ASSUME LoopAssumption ==
    /\ MaxPolls \in Nat \ {0} /\ MaxOpen \in Nat
    /\ UptimeMod \in Nat /\ MaxWindow \in Nat /\ MaxWindow < UptimeMod
ASSUME AddressAssumption == Strap \in {104, 105} /\ DtAddr \in {104, 105}
ASSUME BurstAssumption == Readings \subseteq Nat /\ Samples \in 1..256 /\ Scale \in Nat

VARIABLES
    pc, attached, polls, uptime, tStart, elapsed, tx, sens, accel, tActive, open,
    initialised, dev, icmStep, icmGoal, rangesOk, chip, sample, slept,
    restoreFailed, bus, busReady,
    adcReady, adcStep, adcGoal, adcRc, left, sum, peak, written,
    call,        \* the IMU call that is open: "none", "present", "read", "sleep"
    before,      \* history: the IMU when that call began
    trouble,     \* history: the bus was flaky since that call began
    shtReady,    \* device_is_ready of the SHTC3, decided at boot
    env,         \* has_temp and has_humid
    power        \* has_i_avg, has_i_pk and has_vbat

cycleVars == <<attached, polls, uptime, tStart, elapsed, tx, sens, accel, tActive, open>>
icmVars == <<initialised, dev, icmStep, icmGoal, rangesOk, chip, sample, slept,
             restoreFailed, bus, busReady>>
adcVars == <<adcReady, adcStep, adcGoal, adcRc, left, sum, peak, written>>
callVars == <<call, before, trouble>>
fieldVars == <<shtReady, env, power>>
vars == <<pc, cycleVars, icmVars, adcVars, callVars, fieldVars>>

Imu == [ready |-> initialised, awake |-> ~chip.asleep]

\* While a call is open, SedLoop sees the IMU as it was when the call began; the
\* bus is good for it if there is one and it was good throughout.
ImuSeen == IF call = "none" THEN Imu ELSE before
BusSeen == busReady /\ bus = "good" /\ ~trouble

Loop == INSTANCE SedLoop WITH imuReady <- ImuSeen.ready, imuAwake <- ImuSeen.awake,
                              busOk <- BusSeen
Icm == INSTANCE Icm20648 WITH pc <- icmStep, goal <- icmGoal
Adc == INSTANCE Power WITH initialised <- adcReady, step <- adcStep, goal <- adcGoal,
                           rc <- adcRc

Init == /\ Icm!Init
        /\ Adc!Init
        /\ call = "none" /\ before = Imu /\ trouble = FALSE
        /\ shtReady \in {FALSE, busReady}    \* its driver's init needs the bus
        /\ env = FALSE /\ power = FALSE
        /\ attached \in BOOLEAN
        /\ pc = "sleep" /\ polls = 0
        /\ uptime = 0 /\ tStart = 0 /\ elapsed = 0
        /\ tx = FALSE /\ sens = FALSE /\ accel = FALSE /\ tActive = 0 /\ open = 0

-----------------------------------------------------------------------------
(* Around the loop.                                                        *)

Drivers == UNCHANGED <<icmVars, adcVars, callVars, fieldVars>>

Tick == Drivers /\ Loop!Tick
RoleChanges == Drivers /\ Loop!RoleChanges
ExchangeEnds == Drivers /\ Loop!ExchangeEnds
BusChanges ==
    /\ Icm!BusChanges
    /\ trouble' = (trouble \/ call # "none")
    /\ UNCHANGED <<pc, cycleVars, adcVars, call, before, fieldVars>>

-----------------------------------------------------------------------------
(* The steps of the cycle that call no driver are those of SedLoop.        *)

WakeUp == Drivers /\ Loop!WakeUp
PollAttached == Drivers /\ Loop!PollAttached
PollAgain == Drivers /\ Loop!PollAgain
PollTimeout == Drivers /\ Loop!PollTimeout
BuildFrame == Drivers /\ Loop!BuildFrame
ActiveTime == Drivers /\ Loop!ActiveTime
Push == Drivers /\ Loop!Push
TransmitMark == Drivers /\ Loop!TransmitMark

-----------------------------------------------------------------------------
(* The sensor window.                                                      *)

\* cookie_shtc3_present and cookie_shtc3_read.  A board without the sensor, or
\* one whose driver failed at boot, has none for good; of a sensor that is there
\* only the fetch uses the bus.
ReadEnvironment ==
    /\ pc = "env"
    /\ \/ ~shtReady /\ UNCHANGED env
       \/ shtReady /\ env' \in IF bus = "good" THEN {TRUE} ELSE BOOLEAN
    /\ pc' = "imu"
    /\ UNCHANGED <<cycleVars, icmVars, adcVars, callVars, shtReady, power>>

Opens(name) ==
    /\ call' = name
    /\ before' = Imu
    /\ trouble' = (bus = "flaky")
    /\ UNCHANGED <<pc, cycleVars, adcVars, fieldVars>>

Closes ==
    /\ icmStep = "idle"
    /\ call' = "none"
    /\ before' = Imu
    /\ UNCHANGED <<icmVars, trouble, adcVars>>

ImuDriver ==
    /\ Icm!Driver
    /\ UNCHANGED <<pc, cycleVars, adcVars, callVars, fieldVars>>

ImuPresent == pc = "imu" /\ call = "none" /\ Icm!Present /\ Opens("present")

ImuAbsent ==
    /\ call = "present" /\ ~initialised
    /\ Closes
    /\ pc' = "power"
    /\ UNCHANGED <<cycleVars, fieldVars>>

ImuRead ==
    /\ call = "present" /\ initialised
    /\ Icm!Read
    /\ call' = "read"
    /\ UNCHANGED <<pc, cycleVars, adcVars, before, trouble, fieldVars>>

ImuReadReturns ==
    /\ call = "read"
    /\ Closes
    /\ accel' = (sample # "none")
    /\ pc' = "power"
    /\ UNCHANGED <<attached, polls, uptime, tStart, elapsed, tx, sens, tActive, open,
                   fieldVars>>

PowerDriver ==
    /\ Adc!Step
    /\ UNCHANGED <<pc, cycleVars, icmVars, callVars, fieldVars>>

PowerPresent ==
    /\ pc = "power"
    /\ Adc!Call("present")
    /\ UNCHANGED <<pc, cycleVars, icmVars, callVars, fieldVars>>

\* present() returned: on to the burst, or out of the sensor window.
PowerBurst ==
    /\ adcStep = "returned" /\ adcGoal = "present" /\ adcRc
    /\ adcGoal' = "burst" /\ adcStep' = "burst" /\ adcRc' = FALSE
    /\ UNCHANGED <<pc, cycleVars, icmVars, adcReady, left, sum, peak, written, callVars,
                   fieldVars>>

ReadPower ==
    /\ adcStep = "returned"
    /\ ~adcRc \/ adcGoal = "burst"
    /\ Adc!Take
    /\ power' = adcRc
    /\ sens' = FALSE
    /\ pc' = "active"
    /\ UNCHANGED <<attached, polls, uptime, tStart, elapsed, tx, accel, tActive, open,
                   icmVars, callVars, shtReady, env>>

-----------------------------------------------------------------------------
(* The way back to sleep.                                                  *)

ImuSleep == pc = "imuOff" /\ call = "none" /\ Icm!SleepCall /\ Opens("sleep")

\* A cycle that leaves the IMU running.
CycleEndsImuOn ==
    /\ pc = "imuOff" /\ call = "none"
    /\ Closes
    /\ pc' = "sleep"
    /\ tStart' = 0 /\ elapsed' = 0 /\ accel' = FALSE /\ tActive' = 0
    /\ env' = FALSE /\ power' = FALSE
    /\ UNCHANGED <<attached, polls, uptime, tx, sens, open, shtReady>>

\* cookie_icm20648_sleep returned, or the driver was not ready; quiesce does
\* nothing.  The frame and t_start go out of scope.
CycleEnds ==
    /\ pc = "imuOff"
    /\ call = "sleep" \/ ~initialised
    /\ Closes
    /\ pc' = "sleep"
    /\ tStart' = 0 /\ elapsed' = 0 /\ accel' = FALSE /\ tActive' = 0
    /\ env' = FALSE /\ power' = FALSE
    /\ UNCHANGED <<attached, polls, uptime, tx, sens, open, shtReady>>

-----------------------------------------------------------------------------
Thread == \/ WakeUp \/ PollAttached \/ PollAgain \/ PollTimeout \/ BuildFrame
          \/ ReadEnvironment
          \/ ImuPresent \/ ImuDriver \/ ImuAbsent \/ ImuRead \/ ImuReadReturns
          \/ PowerPresent \/ PowerDriver \/ PowerBurst \/ ReadPower
          \/ ActiveTime \/ Push \/ TransmitMark \/ ImuSleep \/ CycleEnds
Next == Thread \/ Tick \/ RoleChanges \/ ExchangeEnds \/ BusChanges

Spec == Init /\ [][Next]_vars

\* The main thread keeps running; OpenThread ends every exchange.
FairSpec == Spec /\ WF_vars(Thread) /\ WF_vars(ExchangeEnds)

-----------------------------------------------------------------------------
\* Through its drivers the node behaves as SedLoop says: each call of the IMU
\* and of the ADC looks from outside like the single step SedLoop takes for it,
\* and an IMU that the bus did not disturb has the outcome SedLoop assumes.
ImplementsLoop == Loop!Spec

\* The promises of the cycle (SedLoop), with the drivers in place.
MarkersMatchPhase == Loop!MarkersMatchPhase
ActiveTimeIsElapsed == Loop!ActiveTimeIsElapsed
ImuRestsOnGoodBus == Loop!ImuRestsOnGoodBus

\* The cycle always gets back to sleep, and a node that stays attached pushes
\* again and again, whatever the drivers meet on the bus.
CycleGoesOn == Loop!SleepsAlways /\ Loop!PushesWhileAttached

\* A driver that calls itself ready has configured the chip, and a bad inertial
\* sample has one of the known causes (Icm20648), with this loop as the caller.
SamplesExplained == Icm!ReadyConfigured /\ Icm!BadSampleExplained

\* A power sample is complete or not reported, and within the ADC's range (Power).
SampleIsWhole == Adc!SampleIsWhole

\* Once the bus is good for ever, every frame the node pushes carries the fields
\* of each device that came up at boot, however the initialisation of the IMU
\* broke off and whatever bank it had left selected.  The two devices differ: the
\* wrapper of the SHTC3 and the check of the controller trust what the boot found,
\* the IMU driver begins anew in every cycle.
FramesHeal ==
    <>[](bus = "good") => <>[](pc = "push" => (shtReady => env) /\ (busReady => accel))
=============================================================================
