--------------------------- MODULE SedNodeProofs ---------------------------
(***************************************************************************)
(* Proofs about SedNode: what the two drivers promise, that the node with  *)
(* its drivers implements SedLoop, and what it therefore promises itself.  *)
(***************************************************************************)
EXTENDS SedNode, TLAPS

-----------------------------------------------------------------------------
(* The IMU driver.  Its inductive invariant follows the initialisation     *)
(* from write to write: which bank is selected, whether the chip is awake  *)
(* and which ranges are set at each transaction.                           *)

ReadySteps == {"idle", "burst", "sleepBank", "sleepBit"}
AtStrap == {"resetBank", "reset", "wake", "allOn", "bank2", "gyro", "accel", "restore"}

IcmSteps ==
    /\ initialised => /\ icmStep \in ReadySteps
                      /\ dev = Strap /\ chip.gyroSet /\ chip.accelSet
                      /\ chip.asleep => slept
                      /\ chip.bank # 0 => restoreFailed
    /\ icmStep \in {"burst", "sleepBank", "sleepBit"} => initialised
    /\ slept => initialised /\ chip.asleep
    /\ sample # "wrong scale"
    /\ icmStep \in AtStrap => dev = Strap
    /\ icmStep \in {"reset", "wake", "allOn", "sleepBit"} => chip.bank = 0
    /\ icmStep \in {"allOn", "bank2", "gyro", "accel", "restore"} => ~chip.asleep
    /\ icmStep \in {"gyro", "accel"} => chip.bank = 2
    /\ icmStep = "accel" => chip.gyroSet
    /\ icmStep = "restore" /\ rangesOk => chip.gyroSet /\ chip.accelSet

IcmInv == Icm!TypeOK /\ IcmSteps

(* The invariant of the IMU driver holds at power-up and is kept by every  *)
(* transaction, refused or not, and by every call.                         *)
LEMMA IcmInitially == Icm!Init => IcmInv
<1> USE DEF Icm!Init, Icm!PowerUp
<1>1. Icm!Init => Icm!TypeOK
  <2> SUFFICES ASSUME Icm!Init PROVE Icm!TypeOK
    OBVIOUS
  <2>1. icmStep \in Icm!PC /\ chip \in Icm!Chip /\ sample \in Icm!Sample
    BY DEF Icm!PC, Icm!Chip, Icm!Sample
  <2> QED
    BY <2>1 DEF Icm!TypeOK
<1>2. Icm!Init => IcmSteps
  BY DEF IcmSteps, ReadySteps, AtStrap
<1> QED
  BY <1>1, <1>2 DEF IcmInv

(* Every register access of the ICM driver keeps what the driver knows of  *)
(* the chip.                                                               *)
LEMMA IcmKept == IcmInv /\ [Icm!Next]_icmVars => IcmInv'
<1> SUFFICES ASSUME IcmInv, [Icm!Next]_icmVars PROVE IcmInv'
  OBVIOUS
<1> USE DEF IcmInv, IcmSteps, Icm!TypeOK, ReadySteps, AtStrap, Icm!wires
<1>0. Icm!PowerUp \in Icm!Chip /\ chip \in Icm!Chip
  BY DEF Icm!PowerUp, Icm!Chip
<1>1. CASE Icm!Present
  BY ZenonT(60), <1>1 DEF Icm!Present, Icm!Call, Icm!PC, Icm!Chip, Icm!Sample
<1>2. CASE Icm!Read
  BY ZenonT(60), <1>2 DEF Icm!Read, Icm!Call, Icm!PC, Icm!Chip, Icm!Sample
<1>3. CASE Icm!SleepCall
  BY <1>3 DEF Icm!SleepCall, Icm!PC, Icm!Chip, Icm!Sample
<1>4. CASE Icm!BusChanges
  <2>1. Icm!TypeOK'
    BY <1>4 DEF Icm!BusChanges
  <2>2. IcmSteps'
    BY <1>4 DEF Icm!BusChanges
  <2> QED
    BY <2>1, <2>2
<1>5. CASE Icm!ProbeBank
  BY ZenonT(60), <1>5 DEF Icm!ProbeBank, Icm!SelectBank, Icm!Write, Icm!PC, Icm!Chip, Icm!Sample
<1>6. CASE Icm!ProbeWhoAmI
  <2>1. Icm!TypeOK'
    BY <1>6 DEF Icm!ProbeWhoAmI, Icm!Transaction, Icm!PC
  <2>2. IcmSteps'
    BY <1>6 DEF Icm!ProbeWhoAmI, Icm!Transaction, Icm!PC
  <2> QED
    BY <2>1, <2>2
<1>7. CASE Icm!ResetBank
  BY ZenonT(60), <1>7 DEF Icm!ResetBank, Icm!SelectBank, Icm!Write, Icm!PC, Icm!Chip, Icm!Sample
<1>8. CASE Icm!Reset
  <2>1. Icm!TypeOK'
    BY <1>0, <1>8 DEF Icm!Reset, Icm!Write, Icm!PC
  <2>2. ~initialised /\ ~slept /\ chip.bank = 0
    BY <1>8 DEF Icm!Reset, Icm!Write
  <2>3. Icm!PowerUp.bank = 0
    BY DEF Icm!PowerUp
  <2>4. IcmSteps'
    BY <1>8, <2>2, <2>3 DEF Icm!Reset, Icm!Write
  <2> QED
    BY <2>1, <2>4
<1>9. CASE Icm!Wake
  BY ZenonT(60), <1>9 DEF Icm!Wake, Icm!Write, Icm!PC, Icm!Chip, Icm!Sample
<1>10. CASE Icm!AllOn
  BY ZenonT(60), <1>10 DEF Icm!AllOn, Icm!Write, Icm!PC, Icm!Chip, Icm!Sample
<1>11. CASE Icm!ConfigBank
  BY ZenonT(60), <1>11 DEF Icm!ConfigBank, Icm!SelectBank, Icm!Write, Icm!PC, Icm!Chip, Icm!Sample
<1>12. CASE Icm!ConfigGyro
  BY ZenonT(60), <1>12 DEF Icm!ConfigGyro, Icm!Write, Icm!PC, Icm!Chip, Icm!Sample
<1>13. CASE Icm!ConfigAccel
  BY ZenonT(60), <1>13 DEF Icm!ConfigAccel, Icm!PC, Icm!Chip, Icm!Sample
<1>14. CASE Icm!RestoreBank
  BY ZenonT(60), <1>14 DEF Icm!RestoreBank, Icm!PC, Icm!Chip, Icm!Sample
<1>15. CASE Icm!BurstRead
  BY ZenonT(60), <1>15 DEF Icm!BurstRead, Icm!PC, Icm!Chip, Icm!Sample
<1>16. CASE Icm!SleepBank
  BY ZenonT(120), <1>16 DEF Icm!SleepBank, Icm!SelectBank, Icm!Write, Icm!PC, Icm!Chip, Icm!Sample
<1>17. CASE Icm!SleepBit
  BY ZenonT(60), <1>17 DEF Icm!SleepBit, Icm!PC, Icm!Chip, Icm!Sample
<1>18. CASE UNCHANGED icmVars
  <2>1. Icm!TypeOK'
    BY <1>18 DEF icmVars
  <2>2. IcmSteps'
    BY <1>18 DEF icmVars
  <2> QED
    BY <2>1, <2>2
<1> QED
  BY <1>1, <1>2, <1>3, <1>4, <1>5, <1>6, <1>7, <1>8, <1>9, <1>10, <1>11, <1>12,
     <1>13, <1>14, <1>15, <1>16, <1>17, <1>18 DEF Icm!Next, Icm!Driver

-----------------------------------------------------------------------------
(* The ADC driver.                                                         *)

AdcInv ==
    /\ adcReady \in BOOLEAN /\ adcRc \in BOOLEAN
    /\ adcStep \in {"idle", "setup", "burst", "vbat", "returned"}
    /\ adcGoal \in {"present", "burst"}
    /\ left \in 0..Samples /\ sum \in Nat /\ peak \in Nat
    /\ written \subseteq Adc!Fields
    /\ adcStep # "idle" => sum <= (Samples - left) * peak
    /\ adcStep = "setup" => adcGoal = "present"
    /\ adcStep \in {"burst", "vbat"} => adcGoal = "burst"
    /\ adcStep = "vbat" => left = 0 /\ {"i_avg", "i_pk"} \subseteq written
    /\ adcStep = "returned" /\ adcRc /\ adcGoal = "burst" =>
        left = 0 /\ written = Adc!Fields

\* What the node does with the ADC driver.
AdcNext == Adc!Call("present") \/ Adc!Step \/ PowerBurst \/ Adc!Take

(* One more reading, and a peak that bounds it and the peak so far: the    *)
(* sum stays below the number of readings times the peak.                  *)
LEMMA MeanBelowPeak ==
    ASSUME NEW k \in Nat, NEW s \in Nat, NEW p \in Nat, NEW ma \in Nat, NEW q \in Nat,
           s <= k * p, p <= q, ma <= q
    PROVE  s + ma <= (k + 1) * q
<1>1. k * p <= k * q
  OBVIOUS
<1>2. (k + 1) * q = k * q + q
  OBVIOUS
<1>3. k * p \in Nat /\ k * q \in Nat
  OBVIOUS
<1> QED
  BY <1>1, <1>2, <1>3

(* The currents of the burst are natural numbers, whatever the ADC returns. *)
LEMMA MilliampsNat == \A raw \in Readings \cup {-1} : Adc!RawToMilliamps(raw) \in Nat
  BY BurstAssumption DEF Adc!RawToMilliamps

(* The ADC rests, and nothing has been sampled.                            *)
LEMMA AdcInitially == Adc!Init => AdcInv
<1> SUFFICES ASSUME Adc!Init PROVE AdcInv
  OBVIOUS
<1>1. left \in 0..Samples /\ sum \in Nat /\ peak \in Nat
  BY BurstAssumption DEF Adc!Init
<1> QED
  BY <1>1 DEF Adc!Init, AdcInv

(* Every ADC call of the node keeps the invariant of the power driver.     *)
LEMMA AdcKept == AdcInv /\ (AdcNext \/ UNCHANGED adcVars) => AdcInv'
<1> SUFFICES ASSUME AdcInv, AdcNext \/ UNCHANGED adcVars PROVE AdcInv'
  OBVIOUS
<1> USE BurstAssumption DEF AdcInv, Adc!Fields
<1>1. CASE Adc!Call("present")
  <2>1. /\ left' = Samples /\ sum' = 0 /\ peak' = 0 /\ adcGoal' = "present"
        /\ UNCHANGED <<adcReady, written>>
    BY <1>1 DEF Adc!Call
  <2>2. adcStep' \in {"returned", "setup"} /\ adcRc' \in BOOLEAN
    <3>1. CASE adcReady
      BY <1>1, <3>1 DEF Adc!Call, Adc!Proceed, Adc!Return
    <3>2. CASE ~adcReady
      BY <1>1, <3>2 DEF Adc!Call
    <3> QED
      BY <3>1, <3>2
  <2>3. left' \in 0..Samples /\ sum' <= (Samples - left') * peak'
    BY <2>1
  <2> QED
    BY <2>1, <2>2, <2>3
<1>2. CASE Adc!Setup
  BY <1>2 DEF Adc!Setup, Adc!Proceed, Adc!Return, Adc!burst
<1>3. CASE Adc!ReadOne
  <2>1. CASE Adc!Return(FALSE) /\ UNCHANGED Adc!burst
    BY <1>3, <2>1 DEF Adc!ReadOne, Adc!Return, Adc!burst
  <2>2. ASSUME NEW raw \in Readings \cup {-1},
               left' = left - 1,
               sum' = sum + Adc!RawToMilliamps(raw),
               peak' = IF Adc!RawToMilliamps(raw) > peak THEN Adc!RawToMilliamps(raw)
                       ELSE peak,
               UNCHANGED <<adcStep, adcRc>>
        PROVE  AdcInv'
    <3> DEFINE ma == Adc!RawToMilliamps(raw)
               k == Samples - left
    <3>1. ma \in Nat
      BY MilliampsNat
    <3>2. peak' \in Nat /\ ma <= peak' /\ peak <= peak' /\ sum' = sum + ma /\ sum' \in Nat
      BY <2>2, <3>1
    <3>3. k \in Nat /\ left' \in 0..Samples /\ Samples - left' = k + 1 /\ sum <= k * peak
      BY <1>3, <2>2 DEF Adc!ReadOne
    <3> HIDE DEF ma, k
    <3>4. sum' <= (k + 1) * peak'
      <4>1. peak \in Nat /\ sum \in Nat
        OBVIOUS
      <4> QED
        BY <3>1, <3>2, <3>3, <4>1, MeanBelowPeak
    <3>5. sum' <= (Samples - left') * peak'
      BY <3>3, <3>4
    <3> QED
      BY <1>3, <2>2, <3>2, <3>3, <3>5 DEF Adc!ReadOne
  <2> QED
    BY <1>3, <2>1, <2>2 DEF Adc!ReadOne
<1>4. CASE Adc!StoreBurst
  BY <1>4 DEF Adc!StoreBurst, Adc!burst
<1>5. CASE Adc!ReadVbat
  <2>1. adcStep' = "returned" /\ adcRc' \in BOOLEAN
    BY <1>5 DEF Adc!ReadVbat, Adc!Return
  <2>2. UNCHANGED <<adcReady, adcGoal, left, sum, peak>>
    BY <1>5 DEF Adc!ReadVbat, Adc!burst
  <2>3. written' \subseteq Adc!Fields /\ (adcRc' => written' = Adc!Fields)
    <3>1. {"i_avg", "i_pk"} \subseteq written /\ written \subseteq Adc!Fields
      BY <1>5 DEF Adc!ReadVbat
    <3>2. written \cup {"vbat"} = Adc!Fields
      BY <3>1
    <3>3. PICK ok \in BOOLEAN : /\ adcRc' = ok
                                /\ written' = IF ok THEN written \cup {"vbat"} ELSE written
      BY <1>5 DEF Adc!ReadVbat, Adc!Return
    <3> QED
      BY <3>1, <3>2, <3>3
  <2> QED
    BY <1>5, <2>1, <2>2, <2>3 DEF Adc!ReadVbat
<1>6. CASE PowerBurst
  BY <1>6 DEF PowerBurst
<1>7. CASE Adc!Take
  <2>1. left' \in 0..Samples /\ sum' \in Nat /\ peak' \in Nat /\ written' = {}
    BY <1>7 DEF Adc!Take
  <2>2. adcStep' = "idle" /\ adcGoal' = "present" /\ adcRc' = FALSE /\ UNCHANGED adcReady
    BY <1>7 DEF Adc!Take
  <2> QED
    BY <2>1, <2>2
<1>8. CASE UNCHANGED adcVars
  BY <1>8 DEF adcVars
<1> QED
  BY <1>1, <1>2, <1>3, <1>4, <1>5, <1>6, <1>7, <1>8 DEF AdcNext, Adc!Step

-----------------------------------------------------------------------------
(* Every step of the node is a step of each driver, or leaves it alone.    *)
LEMMA DriverSteps ==
    [Next]_vars => [Icm!Next]_icmVars /\ (AdcNext \/ UNCHANGED adcVars)
<1> SUFFICES ASSUME [Next]_vars
             PROVE  [Icm!Next]_icmVars /\ (AdcNext \/ UNCHANGED adcVars)
  OBVIOUS
<1> USE DEF Drivers
<1>1. CASE UNCHANGED vars
  BY <1>1 DEF vars
<1>2. CASE \/ Tick \/ RoleChanges \/ ExchangeEnds \/ WakeUp \/ PollAttached \/ PollAgain
           \/ PollTimeout \/ BuildFrame \/ ActiveTime \/ Push \/ TransmitMark
  BY <1>2 DEF Tick, RoleChanges, ExchangeEnds, WakeUp, PollAttached, PollAgain,
              PollTimeout, BuildFrame, ActiveTime, Push, TransmitMark
<1>3. CASE ReadEnvironment \/ ImuAbsent \/ ImuReadReturns \/ CycleEnds
  BY <1>3 DEF ReadEnvironment, ImuAbsent, ImuReadReturns, CycleEnds, Closes
<1>4. CASE BusChanges \/ ImuPresent \/ ImuDriver \/ ImuRead \/ ImuSleep
  BY <1>4 DEF BusChanges, ImuPresent, ImuDriver, ImuRead, ImuSleep, Opens, Icm!Next
<1>5. CASE PowerPresent \/ PowerDriver \/ PowerBurst \/ ReadPower
  BY <1>5 DEF PowerPresent, PowerDriver, PowerBurst, ReadPower, AdcNext
<1> QED
  BY <1>1, <1>2, <1>3, <1>4, <1>5 DEF Next, Thread

DriverInv == IcmInv /\ AdcInv

(* The invariants of both drivers hold in the node, whatever the loop and  *)
(* the bus do.                                                             *)
THEOREM DriversCorrect == Spec => []DriverInv
<1>1. Init => DriverInv
  <2> SUFFICES ASSUME Init PROVE DriverInv
    OBVIOUS
  <2>1. IcmInv
    BY IcmInitially DEF Init
  <2>2. AdcInv
    BY AdcInitially DEF Init
  <2> QED
    BY <2>1, <2>2 DEF DriverInv
<1>2. DriverInv /\ [Next]_vars => DriverInv'
  BY DriverSteps, IcmKept, AdcKept DEF DriverInv
<1> QED
  BY <1>1, <1>2, PTL DEF Spec

(* A ready driver has configured the chip, and a bad inertial sample has   *)
(* one of the two known causes: the property SamplesExplained of the runs. *)
THEOREM SamplesCorrect == Spec => []SamplesExplained
<1>1. DriverInv => SamplesExplained
  BY DEF DriverInv, IcmInv, IcmSteps, ReadySteps, SamplesExplained, Icm!ReadyConfigured,
         Icm!BadSampleExplained
<1> QED
  BY <1>1, DriversCorrect, PTL

(* A power sample is complete or not reported, and its mean lies between 0 *)
(* and its peak, for every number of readings and every scale.             *)
THEOREM PowerCorrect == Spec => []SampleIsWhole
<1>1. DriverInv => SampleIsWhole
  BY BurstAssumption DEF DriverInv, AdcInv, SampleIsWhole, Adc!SampleIsWhole
<1> QED
  BY <1>1, DriversCorrect, PTL
-----------------------------------------------------------------------------
(* The calls.                                                              *)

CallInv ==
    /\ call \in {"none", "present", "read", "sleep"}
    /\ before \in [ready : BOOLEAN, awake : BOOLEAN]
    /\ trouble \in BOOLEAN
    /\ call = "none" => icmStep = "idle"
    /\ call \in {"present", "read"} => pc = "imu"
    /\ call = "sleep" => pc = "imuOff"
    /\ adcStep # "idle" => pc = "power"
    /\ pc \in {"env", "imu"} => accel = FALSE
    /\ call # "none" /\ before.ready => initialised
    /\ call # "none" /\ ~trouble => bus = "good"

PresentInv ==
    call = "present" =>
        /\ icmGoal = "present"
        /\ icmStep \notin {"burst", "sleepBank", "sleepBit"}
        /\ busReady /\ ~trouble /\ ~initialised =>
            /\ icmStep # "idle"
            /\ icmStep \in {"probeBank", "whoAmI"} => dev \in {DtAddr, Strap}
            /\ icmStep = "whoAmI" /\ dev = Strap => chip.bank = 0
            /\ icmStep = "restore" => rangesOk

OutcomeInv ==
    /\ call \in {"present", "read"} /\ initialised =>
        IF before.ready THEN before.awake = ~chip.asleep ELSE ~chip.asleep
    /\ call = "read" => /\ initialised
                        /\ icmStep \in {"burst", "idle"}
                        /\ icmStep = "idle" /\ ~trouble => sample # "none"
    /\ call = "sleep" => /\ initialised /\ before.ready
                         /\ icmStep \in {"sleepBank", "sleepBit", "idle"}
                         /\ chip.asleep \/ before.awake
                         /\ icmStep = "idle" /\ ~trouble => chip.asleep

CallsInv == CallInv /\ PresentInv /\ OutcomeInv


(* No call has begun and no driver is in the middle of one.                *)
LEMMA CallsInitially == Init => CallsInv
<1> SUFFICES ASSUME Init PROVE CallsInv
  OBVIOUS
<1>1. /\ call = "none" /\ pc = "sleep" /\ trouble = FALSE
      /\ icmStep = "idle" /\ adcStep = "idle"
  BY DEF Init, Icm!Init, Adc!Init
<1>2. before \in [ready : BOOLEAN, awake : BOOLEAN]
  BY DEF Init, Icm!Init, Icm!PowerUp, Imu
<1> QED
  BY <1>1, <1>2 DEF CallsInv, CallInv, PresentInv, OutcomeInv

(* Steps that leave the drivers and the open call alone keep the relation  *)
(* between them, if they move the program only where no call is open.      *)
LEMMA CallsAround ==
    ASSUME CallsInv, UNCHANGED <<icmVars, adcVars, callVars>>,
           UNCHANGED pc \/ pc \notin {"imu", "power", "imuOff"},
           pc' \in {"env", "imu"} => accel' = FALSE
    PROVE  CallsInv'
  BY DEF CallsInv, CallInv, PresentInv, OutcomeInv, icmVars, adcVars, callVars

(* A step of the driver is a step of a running call.                       *)
LEMMA DriverNotIdle ==
    Icm!Driver => icmStep # "idle" /\ UNCHANGED <<bus, busReady, icmGoal>>
  BY DEF Icm!wires, Icm!Driver, Icm!ProbeBank, Icm!ProbeWhoAmI, Icm!ResetBank, Icm!Reset,
         Icm!Wake, Icm!AllOn, Icm!ConfigBank, Icm!ConfigGyro, Icm!ConfigAccel, Icm!RestoreBank,
         Icm!BurstRead, Icm!SleepBank, Icm!SleepBit, Icm!SelectBank, Icm!Write

(* While cookie_icm20648_present is open on a bus that was good throughout, *)
(* every transaction of the initialisation succeeds at the right address.   *)
LEMMA PresentKept ==
    ASSUME IcmInv, CallInv, CallInv', PresentInv, Icm!Driver,
           UNCHANGED <<call, trouble, bus, busReady, icmGoal>>
    PROVE  PresentInv'
<1> SUFFICES ASSUME call = "present" PROVE PresentInv'
  BY DEF PresentInv
<1> USE DEF PresentInv
<1>0. /\ icmGoal = "present" /\ icmStep \notin {"burst", "sleepBank", "sleepBit"}
      /\ icmStep # "idle" => ~initialised
      /\ call' = "present" /\ icmGoal' = "present" /\ UNCHANGED <<trouble, busReady>>
      /\ ~trouble => bus = "good" /\ \A ok \in BOOLEAN : Icm!Transaction(ok) => (ok <=> dev = Strap)
  BY DEF IcmInv, IcmSteps, ReadySteps, CallInv, Icm!Transaction
<1>a. ASSUME icmStep \in AtStrap, ~trouble, NEW ok \in BOOLEAN, Icm!Transaction(ok)
      PROVE  ok
  BY <1>0, <1>a DEF IcmInv, IcmSteps
<1>1. CASE Icm!ProbeBank
  BY <1>0, <1>1 DEF Icm!ProbeBank, Icm!SelectBank, Icm!Write
<1>2. CASE Icm!ProbeWhoAmI
  BY <1>0, <1>2, AddressAssumption DEF Icm!ProbeWhoAmI, Icm!AltAddr
<1>3. CASE Icm!ResetBank
  BY <1>0, <1>a, <1>3 DEF Icm!ResetBank, Icm!SelectBank, Icm!Write, AtStrap
<1>4. CASE Icm!Reset \/ Icm!Wake \/ Icm!AllOn
  BY <1>0, <1>a, <1>4 DEF Icm!Reset, Icm!Wake, Icm!AllOn, Icm!Write, AtStrap
<1>5. CASE Icm!ConfigBank
  BY <1>0, <1>a, <1>5 DEF Icm!ConfigBank, Icm!SelectBank, Icm!Write, AtStrap
<1>6. CASE Icm!ConfigGyro
  BY <1>0, <1>a, <1>6 DEF Icm!ConfigGyro, Icm!Write, AtStrap
<1>7. CASE Icm!ConfigAccel
  BY <1>0, <1>a, <1>7 DEF Icm!ConfigAccel, AtStrap
<1>8. CASE Icm!RestoreBank
  BY <1>0, <1>8 DEF Icm!RestoreBank
<1>9. CASE Icm!BurstRead \/ Icm!SleepBank \/ Icm!SleepBit
  BY <1>0, <1>9 DEF Icm!BurstRead, Icm!SleepBank, Icm!SleepBit, Icm!SelectBank, Icm!Write
<1> QED
  BY <1>1, <1>2, <1>3, <1>4, <1>5, <1>6, <1>7, <1>8, <1>9 DEF Icm!Driver

(* How a call of the IMU ends, step by step of the driver.                 *)
LEMMA OutcomeKept ==
    ASSUME IcmInv, CallInv, CallInv', PresentInv, OutcomeInv, Icm!Driver,
           UNCHANGED <<call, before, trouble, bus>>
    PROVE  OutcomeInv'
<1>0. /\ icmStep # "idle" /\ call # "none"
      /\ initialised => icmStep \in ReadySteps /\ dev = Strap
      /\ before.ready => initialised
      /\ ~trouble => bus = "good"
      /\ \A ok \in BOOLEAN : initialised /\ ~trouble /\ Icm!Transaction(ok) => ok
  BY DriverNotIdle DEF IcmInv, IcmSteps, CallInv, Icm!Transaction
<1>1. CASE call = "present"
  <2>1. ~initialised /\ ~before.ready
    BY <1>0, <1>1 DEF PresentInv, ReadySteps
  <2>2. initialised' => icmStep = "restore" /\ chip'.asleep = chip.asleep
    BY <2>1 DEF Icm!Driver, Icm!ProbeBank, Icm!ProbeWhoAmI, Icm!ResetBank, Icm!Reset,
                Icm!Wake, Icm!AllOn, Icm!ConfigBank, Icm!ConfigGyro, Icm!ConfigAccel,
                Icm!RestoreBank, Icm!BurstRead, Icm!SleepBank, Icm!SleepBit,
                IcmInv, Icm!TypeOK, Icm!Chip
  <2>3. initialised' => ~chip'.asleep
    BY <2>2 DEF IcmInv, IcmSteps
  <2> QED
    BY <1>1, <2>1, <2>3 DEF OutcomeInv
<1>2. CASE call = "read"
  <2>1. initialised /\ icmStep = "burst"
    BY <1>0, <1>2 DEF OutcomeInv
  <2>2. Icm!BurstRead
    BY <2>1 DEF Icm!Driver, Icm!ProbeBank, Icm!ProbeWhoAmI, Icm!ResetBank, Icm!Reset,
                Icm!Wake, Icm!AllOn, Icm!ConfigBank, Icm!ConfigGyro, Icm!ConfigAccel,
                Icm!RestoreBank, Icm!SleepBank, Icm!SleepBit, Icm!SelectBank, Icm!Write
  <2>3. ~trouble => sample' # "none"
    BY <1>0, <2>1, <2>2 DEF Icm!BurstRead
  <2> QED
    BY <1>2, <2>1, <2>2, <2>3 DEF OutcomeInv, Icm!BurstRead
<1>3. CASE call = "sleep"
  <2>1. initialised /\ before.ready /\ icmStep \in {"sleepBank", "sleepBit"}
    BY <1>0, <1>3 DEF OutcomeInv
  <2>2. Icm!SleepBank \/ Icm!SleepBit
    BY <2>1 DEF Icm!Driver, Icm!ProbeBank, Icm!ProbeWhoAmI, Icm!ResetBank, Icm!Reset,
                Icm!Wake, Icm!AllOn, Icm!ConfigBank, Icm!ConfigGyro, Icm!ConfigAccel,
                Icm!RestoreBank, Icm!BurstRead, Icm!SelectBank, Icm!Write
  <2>3. CASE Icm!SleepBank
    BY <1>0, <1>3, <2>1, <2>3 DEF OutcomeInv, Icm!SleepBank, Icm!SelectBank, Icm!Write,
                                 IcmInv, Icm!TypeOK, Icm!Chip
  <2>4. CASE Icm!SleepBit
    BY <1>0, <1>3, <2>1, <2>4 DEF OutcomeInv, Icm!SleepBit, IcmInv, IcmSteps, Icm!TypeOK,
                                 Icm!Chip
  <2> QED
    BY <2>2, <2>3, <2>4
<1> QED
  BY <1>0, <1>1, <1>2, <1>3 DEF CallInv

(* A call of the loop takes its driver from rest to rest, and what it      *)
(* leaves behind is explained by what went wrong during it.                *)
LEMMA CallsKept == DriverInv /\ CallsInv /\ [Next]_vars => CallsInv'
<1> SUFFICES ASSUME DriverInv, CallsInv, [Next]_vars PROVE CallsInv'
  OBVIOUS
<1>0. /\ IcmInv /\ IcmSteps /\ chip \in Icm!Chip /\ initialised \in BOOLEAN
      /\ chip.asleep \in BOOLEAN
  BY DEF DriverInv, IcmInv, Icm!TypeOK, Icm!Chip
<1>1. CASE \/ Tick \/ RoleChanges \/ ExchangeEnds \/ UNCHANGED vars
  <2>1. UNCHANGED <<icmVars, adcVars, callVars, pc, accel>>
    BY <1>1 DEF Tick, RoleChanges, ExchangeEnds, Drivers, vars, cycleVars, Loop!Tick,
                Loop!RoleChanges, Loop!ExchangeEnds, Loop!frame
  <2> QED
    BY <2>1, CallsAround DEF CallsInv, CallInv
<1>2. CASE \/ WakeUp \/ PollAttached \/ PollAgain \/ PollTimeout
           \/ ActiveTime \/ Push \/ TransmitMark
  <2>1. /\ UNCHANGED <<icmVars, adcVars, callVars>>
        /\ pc \notin {"imu", "power", "imuOff"}
        /\ pc' \notin {"env", "imu"}
    BY <1>2 DEF WakeUp, PollAttached, PollAgain, PollTimeout, ActiveTime, Push,
                TransmitMark, Drivers, Loop!WakeUp, Loop!PollAttached, Loop!PollAgain,
                Loop!PollTimeout, Loop!ActiveTime, Loop!Push, Loop!TransmitMark
  <2> QED
    BY <2>1, CallsAround
<1>3. CASE BuildFrame \/ ReadEnvironment
  <2>1. /\ UNCHANGED <<icmVars, adcVars, callVars>>
        /\ pc \notin {"imu", "power", "imuOff"}
    BY <1>3 DEF BuildFrame, ReadEnvironment, Drivers, Loop!BuildFrame
  <2>2. accel' = FALSE
    <3>1. CASE BuildFrame
      BY <3>1 DEF BuildFrame, Loop!BuildFrame
    <3>2. CASE ReadEnvironment
      BY <3>2 DEF ReadEnvironment, cycleVars, CallsInv, CallInv
    <3> QED
      BY <1>3, <3>1, <3>2
  <2> QED
    BY <2>1, <2>2, CallsAround
<1>4. CASE PowerPresent \/ PowerDriver \/ PowerBurst \/ ReadPower
  <2>1. pc = "power"
    BY <1>4 DEF PowerPresent, PowerDriver, PowerBurst, ReadPower, Adc!Step, Adc!Setup,
                Adc!ReadOne, Adc!StoreBurst, Adc!ReadVbat, CallsInv, CallInv
  <2>2. call = "none" /\ UNCHANGED <<icmVars, callVars>>
    BY <1>4, <2>1 DEF PowerPresent, PowerDriver, PowerBurst, ReadPower, CallsInv, CallInv
  <2>3. pc' = "power" \/ (pc' = "active" /\ adcStep' = "idle")
    <3>1. CASE PowerPresent \/ PowerDriver \/ PowerBurst
      <4>1. pc' = pc
        BY <3>1 DEF PowerPresent, PowerDriver, PowerBurst
      <4> QED
        BY <2>1, <4>1
    <3>2. CASE ReadPower
      BY <3>2 DEF ReadPower, Adc!Take
    <3> QED
      BY <1>4, <3>1, <3>2
  <2> QED
    BY <2>1, <2>2, <2>3 DEF CallsInv, CallInv, PresentInv, OutcomeInv, icmVars, callVars
<1>5. CASE BusChanges
  BY <1>5 DEF BusChanges, Icm!BusChanges, adcVars, cycleVars, CallsInv, CallInv,
              PresentInv, OutcomeInv
<1>6. CASE ImuPresent
  <2>1. /\ pc = "imu" /\ call' = "present" /\ icmGoal' = "present"
        /\ trouble' = (bus = "flaky")
        /\ UNCHANGED <<pc, accel, adcStep, initialised, chip, bus, busReady, rangesOk>>
    BY <1>6 DEF ImuPresent, Icm!Present, Icm!Call, Icm!wires, Opens, cycleVars, adcVars
  <2>2. before' = [ready |-> initialised, awake |-> ~chip.asleep]
    BY <1>6 DEF ImuPresent, Opens, Imu
  <2>3. /\ initialised => icmStep' = "idle"
        /\ ~initialised /\ busReady => icmStep' = "probeBank" /\ dev' = DtAddr
        /\ ~initialised /\ ~busReady => icmStep' = "idle"
    BY <1>6 DEF ImuPresent, Icm!Present, Icm!Call
  <2>4. bus \in {"good", "flaky"}
    BY <1>0 DEF IcmInv, Icm!TypeOK
  <2>5. CallInv'
    BY <1>0, <2>1, <2>2, <2>4 DEF CallsInv, CallInv
  <2>6. PresentInv'
    BY <1>0, <2>1, <2>3 DEF PresentInv
  <2>7. OutcomeInv'
    BY <1>0, <2>1, <2>2 DEF OutcomeInv
  <2> QED
    BY <2>5, <2>6, <2>7 DEF CallsInv
<1>7. CASE ImuDriver
  <2>1. UNCHANGED <<pc, accel, adcStep, call, before, trouble>> /\ Icm!Driver
    BY <1>7 DEF ImuDriver, cycleVars, adcVars, callVars
  <2>2. icmStep # "idle" /\ UNCHANGED <<bus, busReady, icmGoal>>
    BY <2>1, DriverNotIdle
  <2>3. initialised => initialised'
    BY <1>0, <2>1 DEF IcmSteps, ReadySteps, Icm!Driver, Icm!ProbeBank, Icm!ProbeWhoAmI,
                Icm!ResetBank, Icm!Reset, Icm!Wake, Icm!AllOn, Icm!ConfigBank,
                Icm!ConfigGyro, Icm!ConfigAccel, Icm!RestoreBank, Icm!BurstRead,
                Icm!SleepBank, Icm!SleepBit
  <2>4. CallInv'
    BY <2>1, <2>2, <2>3 DEF CallsInv, CallInv
  <2>5. PresentInv'
    BY <1>0, <2>1, <2>2, <2>4, PresentKept DEF CallsInv
  <2>6. OutcomeInv'
    BY <1>0, <2>1, <2>2, <2>4, OutcomeKept DEF CallsInv
  <2> QED
    BY <2>4, <2>5, <2>6 DEF CallsInv
<1>8. CASE ImuAbsent \/ ImuReadReturns
  <2>1. /\ call' = "none" /\ icmStep = "idle"
        /\ UNCHANGED <<icmStep, adcStep, trouble>> /\ pc' = "power"
    BY <1>8 DEF ImuAbsent, ImuReadReturns, Closes, icmVars, adcVars
  <2>2. before' \in [ready : BOOLEAN, awake : BOOLEAN]
    <3>1. before' = Imu
      BY <1>8 DEF ImuAbsent, ImuReadReturns, Closes
    <3> QED
      BY <1>0, <3>1 DEF Imu
  <2> QED
    BY <2>1, <2>2 DEF CallsInv, CallInv, PresentInv, OutcomeInv
<1>9. CASE ImuRead
  BY <1>0, <1>9 DEF ImuRead, Icm!Read, Icm!Call, Icm!wires, adcVars, cycleVars,
              CallsInv, CallInv, PresentInv, OutcomeInv
<1>10. CASE ImuSleep
  <2>1. /\ pc = "imuOff" /\ call' = "sleep" /\ icmStep' = "sleepBank" /\ initialised
        /\ trouble' = (bus = "flaky")
        /\ UNCHANGED <<pc, accel, adcStep, initialised, chip, bus>>
    BY <1>10 DEF Icm!wires, ImuSleep, Icm!SleepCall, Opens, cycleVars, adcVars
  <2>2. before' = [ready |-> initialised, awake |-> ~chip.asleep]
    BY <1>10 DEF ImuSleep, Opens, Imu
  <2>3. bus \in {"good", "flaky"}
    BY <1>0 DEF IcmInv, Icm!TypeOK
  <2>4. CallInv'
    BY <1>0, <2>1, <2>2, <2>3 DEF CallsInv, CallInv
  <2>5. PresentInv' /\ OutcomeInv'
    BY <1>0, <2>1, <2>2 DEF PresentInv, OutcomeInv
  <2> QED
    BY <2>4, <2>5 DEF CallsInv
<1>11. CASE CycleEnds
  <2>1. /\ call' = "none" /\ icmStep = "idle" /\ pc = "imuOff"
        /\ UNCHANGED <<icmStep, adcStep, trouble>> /\ pc' = "sleep"
    BY <1>11 DEF CycleEnds, Closes, icmVars, adcVars
  <2>2. before' \in [ready : BOOLEAN, awake : BOOLEAN]
    BY <1>0, <1>11 DEF CycleEnds, Closes, Imu
  <2> QED
    BY <2>1, <2>2 DEF CallsInv, CallInv, PresentInv, OutcomeInv
<1> QED
  BY <1>1, <1>2, <1>3, <1>4, <1>5, <1>6, <1>7, <1>8, <1>9, <1>10, <1>11 DEF Next, Thread

(* The calls of the IMU, from their opening to their end.                  *)
THEOREM CallsCorrect == Spec => []CallsInv
  BY CallsInitially, CallsKept, DriversCorrect, PTL DEF Spec

-----------------------------------------------------------------------------
(* The refinement: the node with its drivers behaves as SedLoop says.      *)

(* The initial states of the node are those of the loop.                   *)
LEMMA LoopInitially == Init => Loop!Init
<1> SUFFICES ASSUME Init PROVE Loop!Init
  OBVIOUS
<1>1. ImuSeen.ready = FALSE /\ ImuSeen.awake = FALSE
  BY DEF Init, Icm!Init, Icm!PowerUp, ImuSeen, Imu
<1>2. BusSeen \in BOOLEAN
  BY DEF BusSeen
<1> QED
  BY <1>1, <1>2 DEF Init, Loop!Init

(* A step between the calls is the step of SedLoop of that name.           *)
LEMMA LoopAround ==
    ASSUME \/ Tick \/ RoleChanges \/ ExchangeEnds \/ WakeUp \/ PollAttached
           \/ PollAgain \/ PollTimeout \/ BuildFrame \/ ActiveTime \/ Push
           \/ TransmitMark
    PROVE  Loop!Next
  BY DEF Tick, RoleChanges, ExchangeEnds, WakeUp, PollAttached, PollAgain, PollTimeout,
         BuildFrame, ActiveTime, Push, TransmitMark, Loop!Next, Loop!Cycle

(* What SedLoop sees of the IMU while the drivers rest.                    *)
LEMMA SeenKept ==
    ASSUME UNCHANGED <<icmVars, callVars>>
    PROVE  UNCHANGED <<ImuSeen.ready, ImuSeen.awake, BusSeen>>
  BY DEF icmVars, callVars, ImuSeen, Imu, BusSeen

(* A step of the node is a step of the loop, seen through the state of     *)
(* the drivers, or does not touch what the loop sees.                      *)
LEMMA LoopStep ==
    DriverInv /\ CallsInv /\ CallsInv' /\ [Next]_vars => [Loop!Next]_(Loop!vars)
<1> SUFFICES ASSUME DriverInv, CallsInv, CallsInv', [Next]_vars
             PROVE  [Loop!Next]_(Loop!vars)
  OBVIOUS
<1> USE DEF Loop!imu, Loop!clock, Loop!frame
<1>1. CASE UNCHANGED vars
  <2>1. UNCHANGED <<ImuSeen.ready, ImuSeen.awake, BusSeen>>
    BY <1>1, SeenKept DEF vars
  <2> QED
    BY <1>1, <2>1 DEF vars, cycleVars, Loop!vars
<1>2. CASE \/ Tick \/ RoleChanges \/ ExchangeEnds \/ WakeUp \/ PollAttached \/ PollAgain
           \/ PollTimeout \/ BuildFrame \/ ActiveTime \/ Push \/ TransmitMark
  BY <1>2, LoopAround
<1>3. CASE ReadEnvironment
  <2>1. UNCHANGED <<ImuSeen.ready, ImuSeen.awake, BusSeen>>
    BY <1>3, SeenKept DEF ReadEnvironment
  <2>2. Loop!ReadEnvironment
    BY <1>3, <2>1 DEF ReadEnvironment, cycleVars, Loop!ReadEnvironment
  <2> QED
    BY <2>2 DEF Loop!Next, Loop!Cycle
<1>4. CASE PowerPresent \/ PowerDriver \/ PowerBurst
  <2>1. UNCHANGED <<pc, cycleVars, icmVars, callVars>>
    BY <1>4 DEF PowerPresent, PowerDriver, PowerBurst
  <2>2. UNCHANGED <<ImuSeen.ready, ImuSeen.awake, BusSeen>>
    BY <2>1, SeenKept
  <2> QED
    BY <2>1, <2>2 DEF cycleVars, Loop!vars
<1>5. CASE ReadPower
  <2>1. pc = "power"
    BY <1>5 DEF ReadPower, CallsInv, CallInv
  <2>2. UNCHANGED <<ImuSeen.ready, ImuSeen.awake, BusSeen>>
    BY <1>5, SeenKept DEF ReadPower
  <2>3. Loop!ReadPower
    BY <1>5, <2>1, <2>2 DEF ReadPower, Loop!ReadPower
  <2> QED
    BY <2>3 DEF Loop!Next, Loop!Cycle
<1>6. CASE BusChanges
  <2>1. UNCHANGED <<ImuSeen.ready, ImuSeen.awake, pc, cycleVars>>
    BY <1>6 DEF BusChanges, Icm!BusChanges, ImuSeen, Imu
  <2>2. BusSeen' = BusSeen \/ BusSeen' = ~BusSeen
    BY DEF BusSeen
  <2>3. CASE BusSeen' = BusSeen
    BY <2>1, <2>3 DEF cycleVars, Loop!vars
  <2>4. CASE BusSeen' = ~BusSeen
    BY <2>1, <2>4 DEF cycleVars, Loop!BusChanges, Loop!Next
  <2> QED
    BY <2>2, <2>3, <2>4
<1>7. CASE ImuPresent \/ ImuSleep
  <2>1. UNCHANGED <<pc, cycleVars>>
    BY <1>7 DEF ImuPresent, ImuSleep, Opens
  <2>2. UNCHANGED <<ImuSeen.ready, ImuSeen.awake>>
    BY <1>7 DEF ImuPresent, ImuSleep, Opens, ImuSeen
  <2>3. BusSeen' = BusSeen \/ BusSeen' = ~BusSeen
    BY DEF BusSeen
  <2>4. CASE BusSeen' = BusSeen
    BY <2>1, <2>2, <2>4 DEF cycleVars, Loop!vars
  <2>5. CASE BusSeen' = ~BusSeen
    BY <2>1, <2>2, <2>5 DEF cycleVars, Loop!BusChanges, Loop!Next
  <2> QED
    BY <2>3, <2>4, <2>5
<1>8. CASE ImuDriver
  <2>1. call # "none" /\ UNCHANGED <<bus, busReady>>
    BY <1>8, DriverNotIdle DEF ImuDriver, CallsInv, CallInv
  <2>2. UNCHANGED <<ImuSeen.ready, ImuSeen.awake, BusSeen, pc, cycleVars>>
    BY <1>8, <2>1 DEF ImuDriver, callVars, ImuSeen, BusSeen
  <2> QED
    BY <2>2 DEF cycleVars, Loop!vars
<1>9. CASE ImuRead
  <2>1. /\ call # "none" /\ call' # "none"
        /\ UNCHANGED <<before, trouble, bus, busReady, pc, cycleVars>>
    BY <1>9 DEF ImuRead, Icm!Read, Icm!Call, Icm!wires
  <2>2. UNCHANGED <<ImuSeen.ready, ImuSeen.awake, BusSeen>>
    BY <2>1 DEF ImuSeen, BusSeen
  <2> QED
    BY <2>1, <2>2 DEF cycleVars, Loop!vars
<1>10. CASE ImuAbsent \/ ImuReadReturns
  <2>1. /\ call \in {"present", "read"} /\ call' = "none" /\ icmStep = "idle"
        /\ pc = "imu" /\ pc' = "power"
        /\ UNCHANGED <<initialised, chip, sample, bus, busReady, trouble>>
        /\ UNCHANGED <<attached, polls, uptime, tStart, elapsed, tx, sens, tActive, open>>
    BY <1>10 DEF ImuAbsent, ImuReadReturns, Closes, icmVars, cycleVars, CallsInv, CallInv
  <2>2. /\ ImuSeen.ready = before.ready /\ ImuSeen.awake = before.awake
        /\ ImuSeen.ready' = initialised /\ ImuSeen.awake' = ~chip.asleep
        /\ BusSeen' = BusSeen
    BY <2>1 DEF ImuSeen, Imu, BusSeen
  <2>3. /\ initialised \in BOOLEAN /\ chip.asleep \in BOOLEAN
        /\ before.ready \in BOOLEAN /\ before.awake \in BOOLEAN
    BY DEF DriverInv, IcmInv, Icm!TypeOK, Icm!Chip, CallsInv, CallInv
  <2>4. accel = FALSE /\ (before.ready => initialised)
    BY <2>1 DEF CallsInv, CallInv
  <2>5. BusSeen => ~trouble /\ busReady
    BY DEF BusSeen
  <2>6. Loop!ImuPresent
    <3>1. CASE initialised
      BY <2>1, <2>2, <2>3, <2>4, <3>1 DEF Loop!ImuPresent, CallsInv, OutcomeInv
    <3>2. CASE ~initialised
      <4>1. trouble \/ ~busReady
        BY <2>1, <3>2 DEF CallsInv, CallInv, PresentInv, OutcomeInv
      <4> QED
        BY <2>2, <2>3, <2>4, <2>5, <3>2, <4>1 DEF Loop!ImuPresent
    <3> QED
      BY <3>1, <3>2
  <2>7. \/ ImuSeen.ready' /\ accel' = TRUE
        \/ (~ImuSeen.ready' \/ ~BusSeen) /\ accel' = accel
    <3>1. CASE ImuAbsent
      BY <2>2, <3>1 DEF ImuAbsent, cycleVars
    <3>2. CASE ImuReadReturns
      <4>1. initialised /\ call = "read" /\ accel' = (sample # "none")
        BY <3>2 DEF ImuReadReturns, CallsInv, OutcomeInv
      <4>2. CASE sample # "none"
        BY <2>2, <4>1, <4>2
      <4>3. CASE sample = "none"
        <5>1. trouble
          BY <2>1, <4>1, <4>3 DEF CallsInv, CallInv, OutcomeInv
        <5>2. accel' = FALSE /\ accel = FALSE
          BY <2>4, <4>1, <4>3
        <5> QED
          BY <2>5, <5>1, <5>2
      <4> QED
        BY <4>2, <4>3
    <3> QED
      BY <1>10, <3>1, <3>2
  <2>8. Loop!ReadImu
    BY <2>1, <2>2, <2>6, <2>7 DEF Loop!ReadImu
  <2> QED
    BY <2>8 DEF Loop!Next, Loop!Cycle
<1>11. CASE CycleEnds
  <2>1. /\ call' = "none" /\ pc = "imuOff" /\ icmStep = "idle"
        /\ call = "sleep" \/ ~initialised
        /\ UNCHANGED <<initialised, chip, bus, busReady, trouble>>
    BY <1>11 DEF CycleEnds, Closes, icmVars
  <2>2. /\ ImuSeen.ready' = initialised /\ ImuSeen.awake' = ~chip.asleep
        /\ BusSeen' = BusSeen
    BY <2>1 DEF ImuSeen, Imu, BusSeen
  <2>3. /\ initialised \in BOOLEAN /\ chip.asleep \in BOOLEAN
        /\ before.ready \in BOOLEAN /\ before.awake \in BOOLEAN
    BY DEF DriverInv, IcmInv, Icm!TypeOK, Icm!Chip, CallsInv, CallInv
  <2>4. call \in {"none", "sleep"}
    BY <2>1 DEF CallsInv, CallInv
  <2>5. Loop!ImuSleep
    <3>1. CASE call = "sleep"
      <4>1. ImuSeen.ready = before.ready /\ ImuSeen.awake = before.awake
        BY <3>1 DEF ImuSeen
      <4>2. /\ initialised /\ before.ready /\ (chip.asleep \/ before.awake)
            /\ ~trouble => chip.asleep
        BY <2>1, <3>1 DEF CallsInv, OutcomeInv
      <4>3. BusSeen => ~trouble
        BY DEF BusSeen
      <4> QED
        BY <2>2, <2>3, <4>1, <4>2, <4>3 DEF Loop!ImuSleep
    <3>2. CASE call = "none"
      <4>1. ImuSeen.ready = initialised /\ ImuSeen.awake = ~chip.asleep
        BY <3>2 DEF ImuSeen, Imu
      <4> QED
        BY <2>1, <2>2, <2>3, <3>2, <4>1 DEF Loop!ImuSleep
    <3> QED
      BY <2>4, <3>1, <3>2
  <2>6. Loop!CycleEnds
    BY <1>11, <2>2, <2>5 DEF CycleEnds, Loop!CycleEnds
  <2> QED
    BY <2>6 DEF Loop!Next, Loop!Cycle
<1> QED
  BY <1>1, <1>2, <1>3, <1>4, <1>5, <1>6, <1>7, <1>8, <1>9, <1>10, <1>11 DEF Next, Thread

(* Through its drivers the node behaves as SedLoop says: each call of the  *)
(* IMU and of the ADC looks from outside like the single step SedLoop      *)
(* takes for it, and an IMU that the bus did not disturb has the outcome   *)
(* SedLoop assumes (the property ImplementsLoop of the runs).              *)
THEOREM LoopImplemented == Spec => ImplementsLoop
  BY LoopInitially, LoopStep, DriversCorrect, CallsCorrect, PTL
     DEF Spec, ImplementsLoop, Loop!Spec

-----------------------------------------------------------------------------
(* What SedLoop promises, and with it the node.                            *)

(* The arithmetic of a counter that wraps.                                 *)
LEMMA WrapRange ==
    ASSUME NEW m \in Nat \ {0}, NEW x \in Nat PROVE x % m \in 0..(m - 1)
  OBVIOUS

(* The successor of a counter that wraps.                                  *)
LEMMA WrapNext ==
    ASSUME NEW m \in Nat \ {0}, NEW x \in 0..(m - 1)
    PROVE  (x + 1) % m = IF x + 1 = m THEN 0 ELSE x + 1
  OBVIOUS

(* A counter that wraps once has its own value again.                      *)
LEMMA WrapDifference ==
    ASSUME NEW m \in Nat \ {0}, NEW x \in 0..(m - 1) PROVE x % m = x /\ (x + m) % m = x
  OBVIOUS

\* The uptime is the start of the cycle and the time since, wrapped at most
\* once; both are counts of the 32-bit clock.
ClockInv ==
    /\ uptime \in 0..(UptimeMod - 1) /\ tStart \in 0..(UptimeMod - 1)
    /\ elapsed \in 0..MaxWindow
    /\ pc # "sleep" => \/ uptime = tStart + elapsed
                       \/ uptime + UptimeMod = tStart + elapsed

(* Every step of the loop keeps the two clocks together.                   *)
LEMMA ClockKept == ClockInv /\ [Loop!Next]_(Loop!vars) => ClockInv'
<1> SUFFICES ASSUME ClockInv, [Loop!Next]_(Loop!vars) PROVE ClockInv'
  OBVIOUS
<1> USE LoopAssumption DEF ClockInv
<1>1. CASE Loop!Tick
  <2>1. /\ pc # "sleep" /\ elapsed < MaxWindow /\ elapsed' = elapsed + 1
        /\ uptime' = (uptime + 1) % UptimeMod /\ UNCHANGED <<pc, tStart>>
    BY <1>1 DEF Loop!Tick
  <2>2. uptime' = IF uptime + 1 = UptimeMod THEN 0 ELSE uptime + 1
    BY <2>1, WrapNext
  <2> QED
    BY <2>1, <2>2
<1>2. CASE Loop!WakeUp
  <2>1. PICK now \in 0..(UptimeMod - 1) :
          uptime' = now /\ tStart' = now /\ elapsed' = 0
    BY <1>2 DEF Loop!WakeUp
  <2>2. elapsed' \in 0..MaxWindow
    BY <2>1
  <2>3. uptime' = tStart' + elapsed'
    BY <2>1
  <2> QED
    BY <2>1, <2>2, <2>3
<1>3. CASE Loop!CycleEnds
  BY <1>3 DEF Loop!CycleEnds
<1>4. CASE \/ Loop!PollAttached \/ Loop!PollAgain \/ Loop!PollTimeout \/ Loop!BuildFrame
           \/ Loop!ReadEnvironment \/ Loop!ReadImu \/ Loop!ReadPower \/ Loop!ActiveTime
           \/ Loop!Push \/ Loop!TransmitMark \/ Loop!RoleChanges \/ Loop!BusChanges
           \/ Loop!ExchangeEnds \/ UNCHANGED Loop!vars
  <2>1. UNCHANGED <<uptime, tStart, elapsed>>
    BY <1>4 DEF Loop!PollAttached, Loop!PollAgain, Loop!PollTimeout, Loop!BuildFrame,
                Loop!ReadEnvironment, Loop!ReadImu, Loop!ReadPower, Loop!ActiveTime,
                Loop!Push, Loop!TransmitMark, Loop!RoleChanges, Loop!BusChanges,
                Loop!ExchangeEnds, Loop!vars, Loop!clock
  <2>2. pc # "sleep" \/ UNCHANGED pc
    BY <1>4 DEF Loop!PollAttached, Loop!PollAgain, Loop!PollTimeout, Loop!BuildFrame,
                Loop!ReadEnvironment, Loop!ReadImu, Loop!ReadPower, Loop!ActiveTime,
                Loop!Push, Loop!TransmitMark, Loop!RoleChanges, Loop!BusChanges,
                Loop!ExchangeEnds, Loop!vars
  <2> QED
    BY <2>1, <2>2
<1> QED
  BY <1>1, <1>2, <1>3, <1>4 DEF Loop!Next, Loop!Cycle

(* The uptime is the start of the cycle and the time since, modulo the     *)
(* width of the counter, in every state of the loop.                       *)
LEMMA ClockCorrect == Loop!Spec => []ClockInv
<1>1. Loop!Init => ClockInv
  BY LoopAssumption DEF Loop!Init, ClockInv
<1> QED
  BY <1>1, ClockKept, PTL DEF Loop!Spec

(* The active time that the frame reports is the true time since the       *)
(* wake-up, for every width of the uptime counter and every window that is *)
(* shorter than it, across the wrap too.                                   *)
THEOREM ActiveTimeCorrect == Spec => ActiveTimeIsElapsed
<1>1. ClockInv /\ [Loop!Next]_(Loop!vars)
      => [pc = "active" /\ pc' = "push" => tActive' = elapsed]_(Loop!vars)
  <2> SUFFICES ASSUME ClockInv, Loop!Next, pc = "active", pc' = "push"
               PROVE  tActive' = elapsed
    OBVIOUS
  <2>1. Loop!ActiveTime
    BY DEF Loop!Next, Loop!Cycle, Loop!WakeUp, Loop!PollAttached, Loop!PollAgain,
           Loop!PollTimeout, Loop!BuildFrame, Loop!ReadEnvironment, Loop!ReadImu,
           Loop!ReadPower, Loop!Push, Loop!TransmitMark, Loop!CycleEnds, Loop!Tick,
           Loop!RoleChanges, Loop!BusChanges, Loop!ExchangeEnds
  <2>2. tActive' = (uptime + UptimeMod - tStart) % UptimeMod
    BY <2>1 DEF Loop!ActiveTime
  <2>3. elapsed \in 0..(UptimeMod - 1) /\ UptimeMod \in Nat \ {0}
    BY LoopAssumption DEF ClockInv
  <2>4. \/ uptime + UptimeMod - tStart = elapsed + UptimeMod
        \/ uptime + UptimeMod - tStart = elapsed
    BY LoopAssumption DEF ClockInv
  <2> QED
    BY <2>2, <2>3, <2>4, WrapDifference
<1> QED
  BY <1>1, LoopImplemented, ClockCorrect, PTL
     DEF ImplementsLoop, Loop!Spec, ActiveTimeIsElapsed, Loop!ActiveTimeIsElapsed

\* The markers need no more than their own types and that of pc.
MarkerInv == /\ pc \in Loop!PC /\ tx \in BOOLEAN /\ sens \in BOOLEAN
             /\ Loop!MarkersMatchPhase

(* Every step of the loop keeps the markers of its phase.                  *)
LEMMA MarkersKept == MarkerInv /\ [Loop!Next]_(Loop!vars) => MarkerInv'
<1> SUFFICES ASSUME MarkerInv, [Loop!Next]_(Loop!vars) PROVE MarkerInv'
  OBVIOUS
<1> USE DEF MarkerInv, Loop!PC, Loop!MarkersMatchPhase
<1>1. CASE Loop!Tick \/ Loop!RoleChanges \/ Loop!BusChanges \/ Loop!ExchangeEnds
           \/ UNCHANGED Loop!vars
  <2>1. UNCHANGED <<pc, tx, sens>>
    BY <1>1 DEF Loop!Tick, Loop!RoleChanges, Loop!BusChanges, Loop!ExchangeEnds, Loop!vars
  <2> QED
    BY <2>1
<1>2. CASE Loop!WakeUp
  BY <1>2 DEF Loop!WakeUp
<1>3. CASE Loop!PollAttached \/ Loop!PollAgain
  BY <1>3 DEF Loop!PollAttached, Loop!PollAgain
<1>4. CASE Loop!PollTimeout
  BY <1>4 DEF Loop!PollTimeout
<1>5. CASE Loop!BuildFrame
  BY <1>5 DEF Loop!BuildFrame
<1>6. CASE Loop!ReadEnvironment \/ Loop!ReadImu
  BY <1>6 DEF Loop!ReadEnvironment, Loop!ReadImu
<1>7. CASE Loop!ReadPower
  BY <1>7 DEF Loop!ReadPower
<1>8. CASE Loop!ActiveTime \/ Loop!Push
  BY <1>8 DEF Loop!ActiveTime, Loop!Push
<1>9. CASE Loop!TransmitMark
  BY <1>9 DEF Loop!TransmitMark
<1>10. CASE Loop!CycleEnds
  BY <1>10 DEF Loop!CycleEnds
<1> QED
  BY <1>1, <1>2, <1>3, <1>4, <1>5, <1>6, <1>7, <1>8, <1>9, <1>10 DEF Loop!Next, Loop!Cycle

(* Red is high from the wake-up to the return of the transmit call and     *)
(* green only while sensors are read, on every path through the drivers.   *)
THEOREM MarkersCorrect == Spec => []MarkersMatchPhase
<1>1. Loop!Init => MarkerInv
  BY DEF Loop!Init, MarkerInv, Loop!PC, Loop!MarkersMatchPhase
<1>2. MarkerInv => MarkersMatchPhase
  BY DEF MarkerInv, MarkersMatchPhase
<1> QED
  BY <1>1, <1>2, MarkersKept, LoopImplemented, PTL DEF ImplementsLoop, Loop!Spec

(* A ready IMU is asleep when the node goes to sleep on a bus that was     *)
(* good throughout the call, after every kind of cycle.                    *)
THEOREM ImuRestsCorrect == Spec => ImuRestsOnGoodBus
<1>1. [Loop!Next]_(Loop!vars)
      => [(BusSeen /\ pc' = "sleep" /\ pc # "sleep" /\ ImuSeen.ready)
            => ~ImuSeen.awake']_(Loop!vars)
  <2> SUFFICES ASSUME Loop!Next, BusSeen, pc' = "sleep", pc # "sleep", ImuSeen.ready
               PROVE  ~ImuSeen.awake'
    OBVIOUS
  <2>1. Loop!CycleEnds
    BY DEF Loop!Next, Loop!Cycle, Loop!WakeUp, Loop!PollAttached, Loop!PollAgain,
           Loop!PollTimeout, Loop!BuildFrame, Loop!ReadEnvironment, Loop!ReadImu,
           Loop!ReadPower, Loop!ActiveTime, Loop!Push, Loop!TransmitMark, Loop!Tick,
           Loop!RoleChanges, Loop!BusChanges, Loop!ExchangeEnds
  <2> QED
    BY <2>1 DEF Loop!CycleEnds, Loop!ImuSleep
<1> QED
  BY <1>1, LoopImplemented, PTL
     DEF ImplementsLoop, Loop!Spec, ImuRestsOnGoodBus, Loop!ImuRestsOnGoodBus
=============================================================================
