--------------------------- MODULE NodeLoopProofs ---------------------------
(***************************************************************************)
(* Proofs about NodeLoop, for every bound on the ticks that are counted.   *)
(***************************************************************************)
EXTENDS NodeLoop, TLAPS

(* Type correctness of the report loop.                                    *)
THEOREM TypeCorrect == Spec => []TypeOK
<1> USE OwedAssumption DEF TypeOK, PC
<1>0. NoFrame \in Frame /\ \A r \in Role : [role |-> r, hops |-> Hops(r)] \in Frame
  BY DEF NoFrame, Frame, Role, Hops
<1>a. 0 \in 0..MaxOwed
  OBVIOUS
<1>1. Init => TypeOK
  <2> SUFFICES ASSUME Init PROVE TypeOK
    OBVIOUS
  <2>1. owed \in 0..MaxOwed
    BY <1>a DEF Init
  <2>2. blinks \in 0..6 /\ left \in 0..6
    BY DEF Init
  <2>3. work \in {"idle", "queued", "running", "requeued"} /\ pc \in PC
    BY DEF Init
  <2>4. role \in Role /\ frame \in Frame
    BY <1>0 DEF Init
  <2>5. meas \in BOOLEAN /\ red \in BOOLEAN /\ green \in BOOLEAN
    BY DEF Init
  <2> QED
    BY <2>1, <2>2, <2>3, <2>4, <2>5
<1>2. TypeOK /\ [Next]_vars => TypeOK'
  <2> SUFFICES ASSUME TypeOK, [Next]_vars PROVE TypeOK'
    OBVIOUS
  <2>1. \A r \in Role : BlinkCount(r) \in 2..6
    BY DEF Role, BlinkCount
  <2>2. CASE TimerFires
    BY <2>2 DEF TimerFires
  <2>3. CASE RoleChanges
    BY <2>3 DEF RoleChanges
  <2>4. CASE HandlerStarts
    <3>1. owed' \in 0..MaxOwed
      BY <1>a, <2>4 DEF HandlerStarts
    <3>2. blinks' \in 0..6 /\ left' \in 0..6
      BY <2>1, <2>4 DEF HandlerStarts
    <3>3. work' \in {"idle", "queued", "running", "requeued"} /\ pc' \in PC
      BY <2>4 DEF HandlerStarts
    <3>4. role' \in Role /\ frame' \in Frame
      BY <1>0, <2>4 DEF HandlerStarts, BuildFrame
    <3>5. meas' \in BOOLEAN /\ red' \in BOOLEAN /\ green' \in BOOLEAN
      BY <2>4 DEF HandlerStarts
    <3> QED
      BY <3>1, <3>2, <3>3, <3>4, <3>5
  <2>5. CASE FlashEnds
    BY <2>5 DEF FlashEnds
  <2>6. CASE NextFlash
    BY <2>6 DEF NextFlash
  <2>7. CASE BlinksDone
    BY <1>0, <2>1, <2>7 DEF BlinksDone, BuildFrame, Return, Attached
  <2>8. CASE SensorsRead
    BY <2>8 DEF SensorsRead
  <2>9. CASE Push
    BY <1>0, <2>9 DEF Push, Return
  <2>10. CASE UNCHANGED vars
    BY <2>10 DEF vars
  <2> QED
    BY <2>2, <2>3, <2>4, <2>5, <2>6, <2>7, <2>8, <2>9, <2>10 DEF Next, Handler
<1> QED
  BY <1>1, <1>2, PTL DEF Spec

(* The work item is with the workqueue exactly while the handler is not    *)
(* blocked anywhere; a tick that is owed has queued it.                    *)
ItemInv == /\ pc = "none" <=> work \in {"idle", "queued"}
           /\ TickServedOnce

(* No tick is lost and none is served twice, for any number of ticks that  *)
(* fall into one run of the handler.                                       *)
THEOREM TicksCorrect == Spec => []TickServedOnce
<1> USE OwedAssumption DEF TypeOK, PC, ItemInv, TickServedOnce
<1>1. Init => ItemInv
  BY DEF Init
<1>2. TypeOK /\ ItemInv /\ [Next]_vars => ItemInv'
  <2> SUFFICES ASSUME TypeOK, ItemInv, [Next]_vars PROVE ItemInv'
    OBVIOUS
  <2>1. CASE TimerFires
    BY <2>1 DEF TimerFires
  <2>2. CASE RoleChanges
    BY <2>2 DEF RoleChanges
  <2>3. CASE HandlerStarts
    BY <2>3 DEF HandlerStarts
  <2>4. CASE FlashEnds
    BY <2>4 DEF FlashEnds
  <2>5. CASE NextFlash
    BY <2>5 DEF NextFlash
  <2>6. CASE BlinksDone
    BY <2>6 DEF BlinksDone, Return
  <2>7. CASE SensorsRead
    BY <2>7 DEF SensorsRead
  <2>8. CASE Push
    BY <2>8 DEF Push, Return
  <2>9. CASE UNCHANGED vars
    BY <2>9 DEF vars
  <2> QED
    BY <2>1, <2>2, <2>3, <2>4, <2>5, <2>6, <2>7, <2>8, <2>9 DEF Next, Handler
<1> QED
  BY <1>1, <1>2, TypeCorrect, PTL DEF Spec

(* What each LED may show at each place of the handler: the flashes belong *)
(* to the build without markers, and every way out finds both LEDs as it   *)
(* has to leave them.                                                      *)
LedInv == /\ LedsRest
          /\ pc \in {"flash", "pause"} => ~meas
          /\ pc = "pause" => ~red
          /\ pc \in {"sensors", "push"} /\ ~meas => ~red
          /\ pc = "push" /\ meas => ~green

(* The LEDs rest between two runs, whichever way the run ended.            *)
THEOREM LedsCorrect == Spec => []LedsRest
<1> USE DEF TypeOK, PC, LedInv, LedsRest
<1>1. Init => LedInv
  BY DEF Init
<1>2. TypeOK /\ LedInv /\ [Next]_vars => LedInv'
  <2> SUFFICES ASSUME TypeOK, LedInv, [Next]_vars PROVE LedInv'
    OBVIOUS
  <2>1. CASE TimerFires
    BY <2>1 DEF TimerFires
  <2>2. CASE RoleChanges
    BY <2>2 DEF RoleChanges
  <2>3. CASE HandlerStarts
    BY <2>3 DEF HandlerStarts
  <2>4. CASE FlashEnds
    BY <2>4 DEF FlashEnds
  <2>5. CASE NextFlash
    BY <2>5 DEF NextFlash
  <2>6. CASE BlinksDone
    BY <2>6 DEF BlinksDone, Return
  <2>7. CASE SensorsRead
    BY <2>7 DEF SensorsRead
  <2>8. CASE Push
    BY <2>8 DEF Push, Return
  <2>9. CASE UNCHANGED vars
    BY <2>9 DEF vars
  <2> QED
    BY <2>1, <2>2, <2>3, <2>4, <2>5, <2>6, <2>7, <2>8, <2>9 DEF Next, Handler
<1> QED
  BY <1>1, <1>2, TypeCorrect, PTL DEF Spec
=============================================================================
