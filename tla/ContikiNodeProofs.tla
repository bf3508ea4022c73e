------------------------- MODULE ContikiNodeProofs --------------------------
(***************************************************************************)
(* Proofs about ContikiNode, for every interval, linger, join timeout and  *)
(* latch: the cycle does not drift, and the node itself holds the radio on *)
(* no longer than the linger.                                              *)
(***************************************************************************)
EXTENDS ContikiNode, TLAPS

\* The steps of the process that take no time.
Reading == {"shtWake", "shtRead", "shtOff", "icmRead", "icmOff", "post"}

\* The cycle timer against the phase: while it runs they add up to the
\* interval, and after its expiry late counts on with the phase.  The linger
\* starts at the expiry, so its timer and late add up to Linger; hence the
\* cycle timer has always expired when the linger is over, and the re-assert
\* loop is never entered.
TimeInv ==
    /\ pc \in {"icmInit", "join", "wait", "linger"} \cup Reading
    /\ left \in 0..Interval /\ late \in 0..Linger /\ timer \in 0..Linger
    /\ phase \in 0..(Interval - 1)
    /\ pc \in {"icmInit", "join"} => left = 0 /\ late = 0
    /\ pc = "wait" => late = 0 /\ IF left > 0 THEN phase + left = Interval ELSE phase = 0
    /\ pc \in Reading => left = 0 /\ late = 0 /\ phase = 0
    /\ pc = "linger" => left = 0 /\ late + timer = Linger /\ phase = late

(* The phase counts modulo the interval.                                   *)
LEMMA PhaseNext ==
    ASSUME NEW x \in 0..(Interval - 1)
    PROVE  (x + 1) % Interval = IF x + 1 = Interval THEN 0 ELSE x + 1
  BY TimesAssumption

(* The cycle timer and the phase agree, however long the process lingers.  *)
THEOREM TimesCorrect == Spec => []TimeInv
<1> USE TimesAssumption DEF TimeInv, Reading
<1>1. Init => TimeInv
  BY DEF Init
<1>2. TimeInv /\ [Next]_vars => TimeInv'
  <2> SUFFICES ASSUME TimeInv, [Next]_vars PROVE TimeInv'
    OBVIOUS
  <2> USE DEF timing, Expired
  <2>1. CASE JoinEnds
    BY <2>1 DEF JoinEnds
  <2>2. CASE WakeUp
    BY <2>2 DEF WakeUp
  <2>3. CASE IcmInit \/ ShtWake \/ ShtRead \/ ShtOff \/ IcmRead \/ IcmOff
    <3>1. UNCHANGED <<left, late, timer, phase>>
      BY <2>3 DEF IcmInit, ShtWake, ShtRead, ShtOff, IcmRead, IcmOff
    <3>2. \/ pc = "icmInit" /\ pc' = "join"
          \/ pc \in Reading /\ pc' \in Reading
      BY <2>3 DEF IcmInit, ShtWake, ShtRead, ShtOff, IcmRead, IcmOff
    <3> QED
      BY <3>1, <3>2
  <2>4. CASE Post
    BY <2>4 DEF Post
  <2>5. CASE MacOff
    BY <2>5 DEF MacOff, Due, ResetCycle
  <2>6. CASE RoutingChanges \/ RplSends \/ Unlatch \/ BusChanges \/ UNCHANGED vars
    <3>1. UNCHANGED <<pc, left, late, timer, phase>>
      BY <2>6 DEF RoutingChanges, RplSends, Unlatch, BusChanges, vars
    <3> QED
      BY <3>1
  <2>7. CASE Tick
    <3>1. phase' = IF phase + 1 = Interval THEN 0 ELSE phase + 1
      BY <2>7, PhaseNext DEF Tick
    <3>2. CASE pc = "join"
      BY <2>7, <3>1, <3>2 DEF Tick
    <3>3. CASE pc = "wait"
      BY <2>7, <3>1, <3>3 DEF Tick, ProcessReady
    <3>4. CASE pc = "linger"
      BY <2>7, <3>1, <3>4 DEF Tick, ProcessReady, Due
    <3> QED
      BY <2>7, <3>2, <3>3, <3>4 DEF Tick, ProcessReady
  <2> QED
    BY <2>1, <2>2, <2>3, <2>4, <2>5, <2>6, <2>7 DEF Next, Process
<1> QED
  BY <1>1, <1>2, PTL DEF Spec

(* Every wake-up is a whole number of intervals after the timer was first  *)
(* set, although each cycle lingers after its expiry.                      *)
THEOREM NoDrift == Spec => CycleDoesNotDrift
<1>1. TimeInv => (WakeUp => phase = 0)
  BY DEF TimeInv, WakeUp, Expired
<1> QED
  BY <1>1, TimesCorrect, PTL DEF CycleDoesNotDrift

\* The radio is on in the states of the process, in the join and while it
\* lingers, and nowhere else.
RadioInv == pc = "wait" => radio # "on"

(* Between two cycles the node itself never holds the radio on, and within *)
(* one it holds it on no longer than the linger.                           *)
THEOREM DutyCycleCorrect == Spec => []RadioDutyCycle
<1>1. Init => RadioInv
  BY DEF Init, RadioInv
<1>2. RadioInv /\ [Next]_vars => RadioInv'
  BY DEF RadioInv, Next, Process, IcmInit, JoinEnds, WakeUp, ShtWake, ShtRead, ShtOff,
         IcmRead, IcmOff, Post, MacOff, RoutingChanges, BusChanges, RplSends, Unlatch,
         Tick, timing, vars
<1>3. TimeInv /\ RadioInv => RadioDutyCycle
  BY TimesAssumption DEF TimeInv, RadioInv, RadioDutyCycle
<1> QED
  BY <1>1, <1>2, <1>3, TimesCorrect, PTL DEF Spec

(* Type correctness of the Contiki-NG node: the timers from the invariant  *)
(* above, the rest by itself.                                              *)
THEOREM TypeCorrect == Spec => []TypeOK
<1> DEFINE Counts == waited \in 0..JoinTimeout /\ latched \in 0..MaxLatch
           Flags == /\ reachable \in BOOLEAN /\ shtAwake \in BOOLEAN
                    /\ icmOk \in BOOLEAN /\ icmAwake \in BOOLEAN
           Names == /\ radio \in {"on", "off", "latched"}
                    /\ report \in {"none", "sent", "dropped"}
                    /\ bus \in {"good", "flaky", "stuck"}
                    /\ th \in {"none", "real", "zeros"} /\ accel \in {"none", "real", "zeros"}
<1> USE TimesAssumption
<1>1. Init => Counts /\ Flags /\ Names
  <2> SUFFICES ASSUME Init PROVE Counts /\ Flags /\ Names
    OBVIOUS
  <2>1. Counts
    BY DEF Init
  <2>2. Flags
    BY DEF Init
  <2>3. Names
    BY DEF Init
  <2> QED
    BY <2>1, <2>2, <2>3
<1>2. Counts /\ Flags /\ Names /\ [Next]_vars => (Counts /\ Flags /\ Names)'
  <2> SUFFICES ASSUME Counts, Flags, Names, [Next]_vars PROVE Counts' /\ Flags' /\ Names'
    OBVIOUS
  <2>1. waited' \in 0..JoinTimeout
    <3>1. waited' = waited \/ (waited # JoinTimeout /\ waited' = waited + 1)
      BY DEF ProcessReady, Next, Process, IcmInit, JoinEnds, WakeUp, ShtWake, ShtRead, ShtOff, IcmRead,
             IcmOff, Post, MacOff, RoutingChanges, BusChanges, RplSends, Unlatch, Tick,
             timing, sensors, vars
    <3> QED
      BY <3>1
  <2>2. latched' \in 0..MaxLatch
    <3>1. latched' \in {0, latched} \/ (latched < MaxLatch /\ latched' = latched + 1)
      BY DEF Next, Process, IcmInit, JoinEnds, WakeUp, ShtWake, ShtRead, ShtOff, IcmRead,
             IcmOff, Post, MacOff, RoutingChanges, BusChanges, RplSends, Unlatch, Tick,
             timing, sensors, vars
    <3> QED
      BY <3>1
  <2>3. Flags'
    BY DEF Next, Process, IcmInit, JoinEnds, WakeUp, ShtWake, ShtRead, ShtOff, IcmRead,
             IcmOff, Post, MacOff, RoutingChanges, BusChanges, RplSends, Unlatch, Tick,
             timing, sensors, vars
  <2>4. Names'
    BY DEF Next, Process, IcmInit, JoinEnds, WakeUp, ShtWake, ShtRead, ShtOff, IcmRead,
             IcmOff, Post, MacOff, RoutingChanges, BusChanges, RplSends, Unlatch, Tick,
             timing, sensors, vars
  <2> QED
    BY <2>1, <2>2, <2>3, <2>4
<1>3. TimeInv /\ Counts /\ Flags /\ Names => TypeOK
  BY DEF TimeInv, Reading, TypeOK
<1> QED
  BY <1>1, <1>2, <1>3, TimesCorrect, PTL DEF Spec
=============================================================================
