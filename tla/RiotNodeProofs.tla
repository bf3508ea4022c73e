--------------------------- MODULE RiotNodeProofs ---------------------------
(***************************************************************************)
(* Proofs about RiotNode: what rests between two cycles of the RIOT node,  *)
(* for every number of link frames in a report.                            *)
(***************************************************************************)
EXTENDS RiotNode, TLAPS

\* The steps between the sensors and the attempts to sleep.
BeforeSleep == {"wake", "read", "off", "icmRead", "icmSleep", "post", "mark", "linger", "sleep"}

\* The count of the attempts that met a transmission follows the program, and
\* a rest the radio does not sleep in has one of the three reasons.
RadioInv == /\ pc \in BeforeSleep => busy = 0
            /\ pc = "again" => busy = 1
            /\ RadioRests

(* Every step keeps the count and the reasons.                             *)
THEOREM AttemptsCorrect == Spec => []RadioInv
<1> USE DEF RadioInv, RadioRests, BeforeSleep, Goto, air, sht, icm, frame, leds, env
<1>1. Init => RadioInv
  BY DEF Init
<1>2. RadioInv /\ [Next]_vars => RadioInv'
  <2> SUFFICES ASSUME RadioInv, [Next]_vars PROVE RadioInv'
    OBVIOUS
  <2>1. CASE NetifSends \/ NetifDone \/ StackSends \/ BusChanges \/ UNCHANGED vars
    BY <2>1 DEF NetifSends, NetifDone, StackSends, BusChanges, vars
  <2>2. CASE Restart
    BY <2>2 DEF Restart
  <2>3. CASE BootStep
    BY <2>3 DEF BootStep, BootBlinks, ProbeSleep, Alarm, ProbeIdle, BootShtWake,
                BootShtInit, BootShtSleep, IcmInitBank, IcmInitWake
  <2>4. CASE CycleStart
    BY <2>4 DEF CycleStart
  <2>5. CASE ReadWake \/ ReadSht \/ ReadOff \/ IcmRead \/ IcmSleep
    BY <2>5 DEF ReadWake, ReadSht, ReadOff, IcmRead, IcmSleep
  <2>6. CASE Post \/ MarkOff \/ Linger
    BY <2>6 DEF Post, MarkOff, Linger
  <2>7. CASE RadioSleep
    BY <2>7 DEF RadioSleep, SetState, Accepts
  <2>8. CASE IntervalEnds
    BY <2>8 DEF IntervalEnds
  <2> QED
    BY <2>1, <2>2, <2>3, <2>4, <2>5, <2>6, <2>7, <2>8 DEF Next, LoopStep
<1> QED
  BY <1>1, <1>2, PTL DEF Spec

(* While the node rests its radio is asleep, unless there is no interface, *)
(* the driver cannot sleep or both attempts met a transmission.            *)
THEOREM RadioCorrect == Spec => []RadioRests
<1>1. RadioInv => RadioRests
  BY DEF RadioInv
<1> QED
  BY <1>1, AttemptsCorrect, PTL

(* Type correctness; that the attempts number two at most rests on the     *)
(* invariant of the radio.                                                 *)
THEOREM TypeCorrect == Spec => []TypeOK
<1> DEFINE Bools == {hasNetif, netif, canSleep, flying, busOk, shtOk, shtAwake, icmOk,
                     icmAwake, th, accel, tx, sens}
<1> USE FragmentsAssumption
<1>1. Init => TypeOK
  <2> SUFFICES ASSUME Init PROVE TypeOK
    OBVIOUS
  <2>1. pc \in Boot \cup Loop /\ radio \in {"idle", "sleep"} /\ refused \subseteq {"sht", "icm"}
    BY DEF Init, Boot
  <2>2. queued \in 0..Fragments
    BY DEF Init
  <2>3. busy \in 0..2
    BY DEF Init
  <2>4. Bools \subseteq BOOLEAN
    BY DEF Init
  <2> QED
    BY <2>1, <2>2, <2>3, <2>4 DEF TypeOK
<1>2. TypeOK /\ RadioInv /\ [Next]_vars => TypeOK'
  <2> SUFFICES ASSUME TypeOK, RadioInv, [Next]_vars PROVE TypeOK'
    OBVIOUS
  <2>0. /\ hasNetif \in BOOLEAN /\ netif \in BOOLEAN /\ canSleep \in BOOLEAN
        /\ flying \in BOOLEAN /\ busOk \in BOOLEAN /\ shtOk \in BOOLEAN
        /\ shtAwake \in BOOLEAN /\ icmOk \in BOOLEAN /\ icmAwake \in BOOLEAN
        /\ th \in BOOLEAN /\ accel \in BOOLEAN /\ tx \in BOOLEAN /\ sens \in BOOLEAN
    BY DEF TypeOK
  <2> USE DEF air, sht, icm, frame, leds, env, Goto, SetState, ShtWakes, ShtSleeps
  <2>1. pc' \in Boot \cup Loop
    BY DEF TypeOK, Boot, Loop, Next, BootStep, LoopStep, NetifSends, NetifDone, StackSends,
           BusChanges, Restart, BootBlinks, ProbeSleep, Alarm, ProbeIdle, BootShtWake,
           BootShtInit, BootShtSleep, IcmInitBank, IcmInitWake, CycleStart, ReadWake,
           ReadSht, ReadOff, IcmRead, IcmSleep, Post, MarkOff, Linger, RadioSleep,
           IntervalEnds, vars
  <2>2. radio' \in {"idle", "sleep"} /\ queued' \in 0..Fragments
    <3>1. radio' \in {"idle", "sleep"}
      BY DEF TypeOK, Next, BootStep, LoopStep, NetifSends, NetifDone, StackSends,
             BusChanges, Restart, BootBlinks, ProbeSleep, Alarm, ProbeIdle, BootShtWake,
             BootShtInit, BootShtSleep, IcmInitBank, IcmInitWake, CycleStart, ReadWake,
             ReadSht, ReadOff, IcmRead, IcmSleep, Post, MarkOff, Linger, RadioSleep,
             IntervalEnds, vars
    <3>2. \/ queued' \in {queued, 0, Fragments}
          \/ queued > 0 /\ queued' = queued - 1
          \/ queued < Fragments /\ queued' = queued + 1
      BY DEF Next, BootStep, LoopStep, NetifSends, NetifDone, StackSends,
             BusChanges, Restart, BootBlinks, ProbeSleep, Alarm, ProbeIdle, BootShtWake,
             BootShtInit, BootShtSleep, IcmInitBank, IcmInitWake, CycleStart, ReadWake,
             ReadSht, ReadOff, IcmRead, IcmSleep, Post, MarkOff, Linger, RadioSleep,
             IntervalEnds, vars
    <3>3. queued \in 0..Fragments
      BY DEF TypeOK
    <3>4. queued' \in 0..Fragments
      BY <3>2, <3>3
    <3> QED
      BY <3>1, <3>4
  <2>3. refused' \subseteq {"sht", "icm"}
    BY DEF TypeOK, Next, BootStep, LoopStep, NetifSends, NetifDone, StackSends,
           BusChanges, Restart, BootBlinks, ProbeSleep, Alarm, ProbeIdle, BootShtWake,
           BootShtInit, BootShtSleep, IcmInitBank, IcmInitWake, CycleStart, ReadWake,
           ReadSht, ReadOff, IcmRead, IcmSleep, Post, MarkOff, Linger, RadioSleep,
           IntervalEnds, vars
  <2>4. busy' \in 0..2
    <3>1. busy' = busy \/ busy' = 0 \/ (pc \in {"sleep", "again"} /\ busy' = busy + 1)
      BY DEF Next, BootStep, LoopStep, NetifSends, NetifDone, StackSends,
             BusChanges, Restart, BootBlinks, ProbeSleep, Alarm, ProbeIdle, BootShtWake,
             BootShtInit, BootShtSleep, IcmInitBank, IcmInitWake, CycleStart, ReadWake,
             ReadSht, ReadOff, IcmRead, IcmSleep, Post, MarkOff, Linger, RadioSleep,
             IntervalEnds, vars
    <3>2. pc \in {"sleep", "again"} => busy \in {0, 1}
      BY DEF RadioInv, BeforeSleep
    <3> QED
      BY <3>1, <3>2 DEF TypeOK
  <2>5. Bools' \subseteq BOOLEAN
    BY <2>0 DEF Next, BootStep, LoopStep, NetifSends, NetifDone, StackSends,
           BusChanges, Restart, BootBlinks, ProbeSleep, Alarm, ProbeIdle, BootShtWake,
           BootShtInit, BootShtSleep, IcmInitBank, IcmInitWake, CycleStart, ReadWake,
           ReadSht, ReadOff, IcmRead, IcmSleep, Post, MarkOff, Linger, RadioSleep,
           IntervalEnds, vars
  <2> QED
    BY <2>1, <2>2, <2>3, <2>4, <2>5 DEF TypeOK
<1> QED
  BY <1>1, <1>2, AttemptsCorrect, PTL DEF Spec

\* From the command to sleep on, a sensor that is awake was never initialised
\* or has refused the command.
SensorsInv ==
    /\ pc \in {"icmRead", "icmSleep", "post", "mark", "linger", "sleep", "again", "rest"} =>
        (shtAwake => ~shtOk \/ "sht" \in refused)
    /\ pc \in {"post", "mark", "linger", "sleep", "again", "rest"} =>
        (icmAwake => ~icmOk \/ "icm" \in refused)

(* While the node rests a sensor is awake only if its initialisation       *)
(* failed or the bus refused the last command to sleep; no failed read     *)
(* leaves one awake.                                                       *)
THEOREM SensorsCorrect == Spec => []SensorsRest
<1> USE DEF SensorsInv, Goto, air, sht, icm, frame, leds, env
<1>1. Init => SensorsInv
  BY DEF Init
<1>2. SensorsInv /\ [Next]_vars => SensorsInv'
  <2> SUFFICES ASSUME SensorsInv, [Next]_vars PROVE SensorsInv'
    OBVIOUS
  <2>1. CASE NetifSends \/ NetifDone \/ StackSends \/ BusChanges \/ UNCHANGED vars
    BY <2>1 DEF NetifSends, NetifDone, StackSends, BusChanges, vars
  <2>2. CASE Restart
    BY <2>2 DEF Restart
  <2>3. CASE BootStep
    BY <2>3 DEF BootStep, BootBlinks, ProbeSleep, Alarm, ProbeIdle, BootShtWake,
                BootShtInit, BootShtSleep, IcmInitBank, IcmInitWake
  <2>4. CASE CycleStart
    BY <2>4 DEF CycleStart
  <2>5. CASE ReadWake \/ ReadSht
    BY <2>5 DEF ReadWake, ReadSht
  <2>6. CASE ReadOff
    BY <2>6 DEF ReadOff, ShtSleeps, ShtAck, Ack
  <2>7. CASE IcmRead
    BY <2>7 DEF IcmRead
  <2>8. CASE IcmSleep
    BY <2>8 DEF IcmSleep
  <2>9. CASE Post \/ MarkOff \/ Linger
    BY <2>9 DEF Post, MarkOff, Linger
  <2>10. CASE RadioSleep \/ IntervalEnds
    BY <2>10 DEF RadioSleep, IntervalEnds
  <2> QED
    BY <2>1, <2>2, <2>3, <2>4, <2>5, <2>6, <2>7, <2>8, <2>9, <2>10 DEF Next, LoopStep
<1>3. SensorsInv => SensorsRest
  BY DEF SensorsRest
<1> QED
  BY <1>1, <1>2, <1>3, PTL DEF Spec
=============================================================================
