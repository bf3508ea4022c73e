------------------------------ MODULE Icm20648 ------------------------------
(***************************************************************************)
(* The IMU driver (libs/cookie_sensors/src/icm20648.c) against the         *)
(* registers of the chip that its properties are about.  One step is one   *)
(* I2C transaction; on a flaky bus any transaction may be refused, and a   *)
(* refused write changes nothing.  The chip is external: it is asleep      *)
(* after power-up and after DEVICE_RESET, it answers at one of two         *)
(* addresses, and a register number means another register in bank 2.      *)
(***************************************************************************)
CONSTANTS Strap,    \* the address the AD0 strap selects: 104 or 105
          DtAddr    \* the address in the devicetree

VARIABLES initialised,    \* the driver's cached "ready" state
          dev,            \* dev_addr
          pc,             \* the next transaction of the running call
          goal,           \* what the caller asked for
          rangesOk,       \* rc of configure_ranges so far
          chip,           \* registers of the chip
          sample,         \* what the running or the last call returned
          slept,          \* history: cookie_icm20648_sleep took effect
          restoreFailed,  \* history: the return to bank 0 was refused
          bus,            \* "good", or "flaky": transactions may be refused
          busReady        \* device_is_ready of the I2C controller, decided at boot

wires == <<bus, busReady>>
vars == <<initialised, dev, pc, goal, rangesOk, chip, sample, slept, restoreFailed, wires>>

PC == {"idle", "probeBank", "whoAmI", "resetBank", "reset", "wake", "allOn",
       "bank2", "gyro", "accel", "restore", "burst", "sleepBank", "sleepBit"}
Chip == [bank : {0, 2}, asleep : BOOLEAN, gyroSet : BOOLEAN, accelSet : BOOLEAN]
Sample == {"none", "fresh", "frozen", "wrong bank", "wrong scale"}
AltAddr == IF DtAddr = 104 THEN 105 ELSE 104

TypeOK == /\ initialised \in BOOLEAN
          /\ dev \in {0, DtAddr, AltAddr}
          /\ pc \in PC
          /\ goal \in {"present", "read", "sleep"}
          /\ rangesOk \in BOOLEAN
          /\ chip \in Chip
          /\ sample \in Sample
          /\ slept \in BOOLEAN
          /\ restoreFailed \in BOOLEAN
          /\ bus \in {"good", "flaky"}
          /\ busReady \in BOOLEAN

PowerUp == [bank |-> 0, asleep |-> TRUE, gyroSet |-> FALSE, accelSet |-> FALSE]

Init == /\ initialised = FALSE
        /\ dev = 0
        /\ pc = "idle"
        /\ goal = "present"
        /\ rangesOk = FALSE
        /\ chip = PowerUp
        /\ sample = "none"
        /\ slept = FALSE
        /\ restoreFailed = FALSE
        /\ bus \in {"good", "flaky"}
        /\ busReady \in BOOLEAN

\* One I2C transaction: acknowledged only if the chip is at dev, refused only
\* if it is not or the bus is flaky.
Transaction(ok) == IF ok THEN dev = Strap ELSE dev # Strap \/ bus = "flaky"

\* A register write of the step named here, in the bank it is meant for.
Write(here, bank, written, next, failed) ==
    /\ pc = here
    /\ \E ok \in BOOLEAN :
        /\ Transaction(ok)
        /\ chip' = IF ok /\ chip.bank = bank THEN written ELSE chip
        /\ pc' = IF ok THEN next ELSE failed

\* REG_BANK_SEL is the same register in every bank.
SelectBank(here, bank, next, failed) ==
    Write(here, chip.bank, [chip EXCEPT !.bank = bank], next, failed)

-----------------------------------------------------------------------------
\* cookie_icm20648_present and cookie_icm20648_read: initialise if needed, and
\* a read goes on to the data registers.  Without the controller the call
\* returns -ENODEV before it has touched the bus.
Call(g) ==
    /\ pc = "idle"
    /\ goal' = g
    /\ \/ /\ initialised
          /\ pc' = IF g = "read" THEN "burst" ELSE "idle"
          /\ UNCHANGED dev
       \/ /\ ~initialised /\ busReady
          /\ pc' = "probeBank"
          /\ dev' = DtAddr
       \/ /\ ~initialised /\ ~busReady
          /\ UNCHANGED <<pc, dev>>
    /\ sample' = "none"
    /\ UNCHANGED <<initialised, rangesOk, chip, slept, restoreFailed, wires>>

\* A probe that trusts the chip to be in bank 0.
ProbeWithoutBank ==
    /\ pc = "probeBank"
    /\ pc' = "whoAmI"
    /\ UNCHANGED <<initialised, dev, goal, rangesOk, chip, sample, slept, restoreFailed, wires>>

\* probe_addr: the result of select_bank is ignored.
ProbeBank ==
    /\ SelectBank("probeBank", 0, "whoAmI", "whoAmI")
    /\ UNCHANGED <<initialised, dev, goal, rangesOk, sample, slept, restoreFailed, wires>>

\* WHO_AM_I reads its value in bank 0 only; the second address is tried after
\* the first, and then the call returns -ENODEV.
ProbeWhoAmI ==
    /\ pc = "whoAmI"
    /\ \E ok \in BOOLEAN :
        /\ Transaction(ok)
        /\ IF ok /\ chip.bank = 0
           THEN pc' = "resetBank" /\ UNCHANGED dev
           ELSE IF dev = DtAddr
                THEN pc' = "probeBank" /\ dev' = AltAddr
                ELSE pc' = "idle" /\ UNCHANGED dev
    /\ UNCHANGED <<initialised, goal, rangesOk, chip, sample, slept, restoreFailed, wires>>

\* reset_and_wake, write by write; each failure ends the call.
ResetBank ==
    /\ SelectBank("resetBank", 0, "reset", "idle")
    /\ UNCHANGED <<initialised, dev, goal, rangesOk, sample, slept, restoreFailed, wires>>

Reset ==
    /\ Write("reset", 0, PowerUp, "wake", "idle")
    /\ UNCHANGED <<initialised, dev, goal, rangesOk, sample, slept, restoreFailed, wires>>

\* A reset_and_wake that forgets PWR_MGMT_1 = CLK_AUTO.
WakeSkipped ==
    /\ pc = "wake"
    /\ pc' = "allOn"
    /\ UNCHANGED <<initialised, dev, goal, rangesOk, chip, sample, slept, restoreFailed, wires>>

Wake ==
    /\ Write("wake", 0, [chip EXCEPT !.asleep = FALSE], "allOn", "idle")
    /\ UNCHANGED <<initialised, dev, goal, rangesOk, sample, slept, restoreFailed, wires>>

AllOn ==
    /\ Write("allOn", 0, chip, "bank2", "idle")
    /\ UNCHANGED <<initialised, dev, goal, rangesOk, sample, slept, restoreFailed, wires>>

\* configure_ranges: the first failing write goes to out.
ConfigBank ==
    /\ SelectBank("bank2", 2, "gyro", "idle")
    /\ UNCHANGED <<initialised, dev, goal, rangesOk, sample, slept, restoreFailed, wires>>

\* A configure_ranges without the goto: rc is that of the second write.
ConfigGyroNoGoto ==
    /\ Write("gyro", 2, [chip EXCEPT !.gyroSet = TRUE], "accel", "accel")
    /\ UNCHANGED <<initialised, dev, goal, rangesOk, sample, slept, restoreFailed, wires>>

ConfigGyro ==
    /\ Write("gyro", 2, [chip EXCEPT !.gyroSet = TRUE], "accel", "restore")
    /\ rangesOk' = FALSE
    /\ UNCHANGED <<initialised, dev, goal, sample, slept, restoreFailed, wires>>

ConfigAccel ==
    /\ pc = "accel"
    /\ pc' = "restore"
    /\ \E ok \in BOOLEAN :
        /\ Transaction(ok)
        /\ rangesOk' = ok
        /\ chip' = IF ok /\ chip.bank = 2 THEN [chip EXCEPT !.accelSet = TRUE] ELSE chip
    /\ UNCHANGED <<initialised, dev, goal, sample, slept, restoreFailed, wires>>

\* out: the result of the return to bank 0 is ignored; the driver is ready if
\* the ranges were written.
RestoreBank ==
    /\ pc = "restore"
    /\ \E ok \in BOOLEAN :
        /\ Transaction(ok)
        /\ chip' = IF ok THEN [chip EXCEPT !.bank = 0] ELSE chip
        /\ restoreFailed' = ~ok
    /\ initialised' = rangesOk
    /\ pc' = IF rangesOk /\ goal = "read" THEN "burst" ELSE "idle"
    /\ UNCHANGED <<dev, goal, rangesOk, sample, slept, wires>>

\* i2c_burst_read of the data registers, scaled by the tables; no wake-up and
\* no bank select comes before it.
BurstRead ==
    /\ pc = "burst"
    /\ pc' = "idle"
    /\ \E ok \in BOOLEAN :
        /\ Transaction(ok)
        /\ sample' = CASE ~ok -> "none"
                       [] ok /\ chip.bank # 0 -> "wrong bank"
                       [] ok /\ chip.bank = 0 /\ ~(chip.gyroSet /\ chip.accelSet)
                              -> "wrong scale"
                       [] ok /\ chip.bank = 0 /\ chip.gyroSet /\ chip.accelSet
                              -> IF chip.asleep THEN "frozen" ELSE "fresh"
    /\ UNCHANGED <<initialised, dev, goal, rangesOk, chip, slept, restoreFailed, wires>>

\* cookie_icm20648_sleep: before the driver is ready it returns 0 and writes
\* nothing, even when a broken-off initialisation left the chip awake.
SleepCall ==
    /\ pc = "idle"
    /\ initialised
    /\ goal' = "sleep"
    /\ pc' = "sleepBank"
    /\ UNCHANGED <<initialised, dev, rangesOk, chip, sample, slept, restoreFailed, wires>>

SleepBank ==
    /\ SelectBank("sleepBank", 0, "sleepBit", "idle")
    /\ UNCHANGED <<initialised, dev, goal, rangesOk, sample, slept, restoreFailed, wires>>

SleepBit ==
    /\ pc = "sleepBit"
    /\ pc' = "idle"
    /\ \E ok \in BOOLEAN :
        /\ Transaction(ok)
        /\ chip' = IF ok /\ chip.bank = 0 THEN [chip EXCEPT !.asleep = TRUE] ELSE chip
        /\ slept' = (slept \/ ok)
    /\ UNCHANGED <<initialised, dev, goal, rangesOk, sample, restoreFailed, wires>>

BusChanges ==
    /\ bus' \in {"good", "flaky"} \ {bus}
    /\ UNCHANGED <<initialised, dev, pc, goal, rangesOk, chip, sample, slept, restoreFailed,
                   busReady>>

-----------------------------------------------------------------------------
Present == Call("present")
Read == Call("read")
Driver == \/ ProbeBank \/ ProbeWhoAmI \/ ResetBank \/ Reset \/ Wake \/ AllOn
          \/ ConfigBank \/ ConfigGyro \/ ConfigAccel \/ RestoreBank
          \/ BurstRead \/ SleepBank \/ SleepBit
Next == Present \/ Read \/ SleepCall \/ Driver \/ BusChanges

Spec == Init /\ [][Next]_vars

\* A call runs to its end, and both loops read the IMU in every cycle.
FairSpec == Spec /\ WF_vars(Driver) /\ SF_vars(Read)

-----------------------------------------------------------------------------
\* The driver never reports ready with a range register unwritten: a sample it
\* returns is scaled by the table its ranges select (initialise_if_needed).
ReadyConfigured ==
    /\ initialised => chip.gyroSet /\ chip.accelSet /\ dev = Strap
    /\ sample # "wrong scale"

\* The two ways, and the only two, in which a read returns 0 with data that is
\* not a sample: the chip was put to sleep after it was initialised, or the
\* return to bank 0 was refused.  A chip that was put to sleep is asleep,
\* whatever bank the driver had left selected.
BadSampleExplained ==
    /\ pc = "burst" => /\ chip.asleep => slept
                       /\ chip.bank # 0 => restoreFailed
    /\ slept => chip.asleep

\* Once the bus is good for ever the IMU gets ready and stays so, however the
\* last initialisation broke off: the probe selects bank 0 before WHO_AM_I.  A
\* controller that did not come up at boot is never tried again.
ReadyWhenBusHeals == busReady /\ <>[](bus = "good") => <>[]initialised

-----------------------------------------------------------------------------
\* "Read one accelerometer + gyroscope sample" (icm20648.h:35): on a good bus a
\* read that succeeds returns what the chip measures now.
ReadIsFresh == sample # "frozen"

\* configure_ranges "returns to bank 0" (icm20648.c:12-13), so a ready driver
\* between two calls is in bank 0.
ReadyInBank0 == initialised /\ pc = "idle" => chip.bank = 0
=============================================================================
