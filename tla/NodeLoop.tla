------------------------------ MODULE NodeLoop ------------------------------
(***************************************************************************)
(* The report loop of the AUTO profile (apps/sensor_node/src/node_loop.c): *)
(* a periodic timer submits one work item, the system workqueue runs       *)
(* report_work_handler, and the OpenThread thread changes the role of the  *)
(* node whenever the handler sleeps.  Both threads are cooperative, so the *)
(* role is stable between two blocking calls: a step of the handler is the *)
(* code from one blocking call to the next.                                *)
(***************************************************************************)
EXTENDS Naturals

CONSTANT MaxOwed   \* ticks counted since a run began (bound)

ASSUME OwedAssumption == MaxOwed \in Nat \ {0}

VARIABLES
    meas,     \* CONFIG_NODE_MEAS_LED of this build
    role,     \* otThreadGetDeviceRole
    work,     \* report_work: "idle", "queued", "running", or "requeued"
    owed,     \* history: ticks since the handler last started
    pc,       \* where the handler is blocked, or "none"
    blinks,   \* local variable of the handler
    left,     \* flashes blink_red_n still owes
    red, green, \* the LEDs
    frame     \* the frame being built

vars == <<meas, role, work, owed, pc, blinks, left, red, green, frame>>

Role == {"disabled", "detached", "child", "router", "leader"}
PC == {"none", "flash", "pause", "sensors", "push"}
NoFrame == [role |-> "none", hops |-> 0]
Frame == [role : Role, hops : 0..2] \cup {NoFrame}

\* role_blink_count: the role as the number of red flashes.
BlinkCount(r) == CASE r = "disabled" -> 2 [] r = "detached" -> 3
                   [] r = "child" -> 4 [] r = "router" -> 5 [] r = "leader" -> 6

\* cookie_thread_hops_to_leader.
Hops(r) == CASE r = "router" -> 1 [] r = "child" -> 2
             [] r \in {"leader", "detached", "disabled"} -> 0

\* A threshold one too high: children do not count as attached.
AttachedAboveChild(b) == b > 4

\* attached = (blinks >= 4).
Attached(b) == b >= 4

TypeOK == /\ meas \in BOOLEAN
          /\ role \in Role
          /\ work \in {"idle", "queued", "running", "requeued"}
          /\ owed \in 0..MaxOwed
          /\ pc \in PC
          /\ blinks \in 0..6
          /\ left \in 0..6
          /\ red \in BOOLEAN
          /\ green \in BOOLEAN
          /\ frame \in Frame

Init == /\ meas \in BOOLEAN
        /\ role \in Role
        /\ work = "idle"
        /\ owed = 0
        /\ pc = "none"
        /\ blinks = 0
        /\ left = 0
        /\ red = FALSE
        /\ green = FALSE
        /\ frame = NoFrame

-----------------------------------------------------------------------------
\* A timer that submits only when the work item is idle.
TimerFiresWhenIdle ==
    /\ owed < MaxOwed
    /\ owed' = owed + 1
    /\ work' = IF work = "idle" THEN "queued" ELSE work
    /\ UNCHANGED <<meas, role, pc, blinks, left, red, green, frame>>

\* report_timer_cb, in interrupt context: k_work_submit queues an idle item
\* (1), queues a running one again (2), and leaves a queued one alone (0).
TimerFires ==
    /\ owed < MaxOwed
    /\ owed' = owed + 1
    /\ work' = CASE work = "idle" -> "queued"
                 [] work = "running" -> "requeued"
                 [] work \in {"queued", "requeued"} -> work
    /\ UNCHANGED <<meas, role, pc, blinks, left, red, green, frame>>

\* The OpenThread thread runs while the handler is blocked or not running.
RoleChanges ==
    /\ role' \in Role \ {role}
    /\ UNCHANGED <<meas, work, owed, pc, blinks, left, red, green, frame>>

\* The handler returns; an item queued meanwhile is still queued.
Return ==
    /\ pc' = "none"
    /\ work' = IF work = "requeued" THEN "queued" ELSE "idle"

\* The frame's role, RSSI and hops are read again, after the last sleep.
BuildFrame == frame' = [role |-> role, hops |-> Hops(role)]

\* A start of the handler whose early return leaves the red marker on.
HandlerStartsMarkerStuck ==
    /\ pc = "none" /\ work = "queued"
    /\ owed' = 0
    /\ blinks' = BlinkCount(role)
    /\ IF meas
       THEN /\ red' = TRUE
            /\ UNCHANGED left
            /\ IF Attached(BlinkCount(role))
               THEN /\ work' = "running" /\ pc' = "sensors"
                    /\ green' = TRUE /\ BuildFrame
               ELSE /\ work' = "idle" /\ UNCHANGED <<pc, green, frame>>
       ELSE /\ red' = TRUE /\ left' = BlinkCount(role)
            /\ work' = "running" /\ pc' = "flash"
            /\ UNCHANGED <<green, frame>>
    /\ UNCHANGED <<meas, role>>

\* The workqueue starts the handler.  With markers it goes on to the sensors or
\* returns at once; otherwise it flashes the role first.
HandlerStarts ==
    /\ pc = "none" /\ work = "queued"
    /\ owed' = 0
    /\ blinks' = BlinkCount(role)
    /\ IF meas
       THEN /\ UNCHANGED left
            /\ IF Attached(BlinkCount(role))
               THEN /\ work' = "running" /\ pc' = "sensors"
                    /\ red' = TRUE /\ green' = TRUE /\ BuildFrame
               ELSE /\ work' = "idle" /\ red' = FALSE
                    /\ UNCHANGED <<pc, green, frame>>
       ELSE /\ red' = TRUE /\ left' = BlinkCount(role)
            /\ work' = "running" /\ pc' = "flash"
            /\ UNCHANGED <<green, frame>>
    /\ UNCHANGED <<meas, role>>

\* blink_red_n: 80 ms on, 220 ms off.
FlashEnds ==
    /\ pc = "flash"
    /\ red' = FALSE
    /\ pc' = "pause"
    /\ UNCHANGED <<meas, role, work, owed, blinks, left, green, frame>>

NextFlash ==
    /\ pc = "pause" /\ left > 1
    /\ red' = TRUE
    /\ left' = left - 1
    /\ pc' = "flash"
    /\ UNCHANGED <<meas, role, work, owed, blinks, green, frame>>

\* After the last pause the LED shows, and the push depends on, the role of the
\* start of the cycle, up to 1.8 s ago; the frame takes the role of now.
BlinksDone ==
    /\ pc = "pause" /\ left = 1
    /\ left' = 0
    /\ green' = Attached(blinks)
    /\ IF Attached(blinks)
       THEN /\ pc' = "sensors" /\ BuildFrame /\ UNCHANGED work
       ELSE /\ Return /\ UNCHANGED frame
    /\ UNCHANGED <<meas, role, owed, blinks, red>>

\* fill_environmental, fill_inertial, fill_power: the reads block on the bus.
SensorsRead ==
    /\ pc = "sensors"
    /\ pc' = "push"
    /\ green' = IF meas THEN FALSE ELSE green
    /\ UNCHANGED <<meas, role, work, owed, blinks, left, red, frame>>

\* cookie_coap_push_frame may wait for the mutex of the client; then the
\* handler returns.
Push ==
    /\ pc = "push"
    /\ Return
    /\ red' = IF meas THEN FALSE ELSE red
    /\ frame' = NoFrame
    /\ UNCHANGED <<meas, role, owed, blinks, left, green>>

-----------------------------------------------------------------------------
Handler == \/ HandlerStarts \/ FlashEnds \/ NextFlash \/ BlinksDone
           \/ SensorsRead \/ Push
Next == TimerFires \/ RoleChanges \/ Handler

Spec == Init /\ [][Next]_vars

\* The timer is periodic and the workqueue runs whatever is queued.
FairSpec == Spec /\ WF_vars(TimerFires) /\ WF_vars(Handler)

-----------------------------------------------------------------------------
\* No tick is lost and none is served twice: the item is queued exactly when
\* the timer has fired since the handler last started, although any number of
\* ticks may fall into one run (k_work_submit in report_timer_cb).
TickServedOnce == work \in {"queued", "requeued"} <=> owed > 0

\* The LEDs never stay lit by accident: between two runs the red one is dark,
\* and with markers the green one too, whichever way the run ended.
LedsRest == pc = "none" => ~red /\ (meas => ~green)

\* A node that stays attached, in any role, keeps reporting; one that stays
\* detached stops, and its attached LED goes dark.
ReportsFollowRole ==
    /\ \A r \in {"child", "router", "leader"} : <>[](role = r) => []<>(pc = "push")
    /\ <>[](role = "detached") => <>[](pc # "push" /\ ~green)

-----------------------------------------------------------------------------
\* "not attached (blinks=%d), skipping push" (node_loop.c:156): what is pushed
\* was built by an attached node (CHILD/ROUTER/LEADER, node_loop.c:154).
PushedWhileAttached ==
    frame # NoFrame => frame.role \in {"child", "router", "leader"}
=============================================================================
