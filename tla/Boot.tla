-------------------------------- MODULE Boot --------------------------------
(***************************************************************************)
(* From power-on to the main loop: the REGOUT0 hook of the board           *)
(* (boards/cei/cookie_nrf_v200/board.c), and main() of the two Zephyr      *)
(* applications, apps/sensor_node and apps/gateway.  The supply may fail   *)
(* at any step; UICR and OpenThread's settings outlive it.  A write of     *)
(* UICR can only clear bits, so one that is interrupted may leave any      *)
(* value between the old and the new one.  The OpenThread thread changes   *)
(* the role, and tells so later.  Whether the stack is up before main() or *)
(* only after openthread_run() is a choice of the build.                   *)
(***************************************************************************)
EXTENDS Integers

CONSTANT MaxPolls    \* polls of the 60 s attach wait (code: 300)

ASSUME BootAssumption == MaxPolls \in Nat \ {0}

VARIABLES
    build,        \* what is fixed when the image is built
    pc,           \* the next step of the boot
    high,         \* MAINREGSTATUS: supplied through VDDH
    vout,         \* REGOUT0.VOUT in UICR
    rail,         \* the value the regulator took at the last reset
    writable,     \* NVMC.CONFIG is WEN
    settings,     \* OpenThread's settings hold a network
    running,      \* the stack is up
    attached,     \* the role is CHILD or above
    told,         \* no state change waits for its callback
    registered,   \* the gateway's state callback is registered
    red,          \* the red LED
    polls,        \* polls left
    coap          \* cookie_coap_init, or gateway_coap_server_start, succeeded

bootVars == <<build, pc, high, vout, rail, writable, settings, running, attached,
              told, registered, red, polls, coap>>
power == <<build, high, rail>>
uicr == <<vout, writable>>
thread == <<settings, running, attached, told>>
led == <<registered, red>>

DEFAULT == 7    \* UICR_REGOUT0_VOUT_DEFAULT: 1.8 V
V3V0 == 4       \* UICR_REGOUT0_VOUT_3V0

\* What an interrupted write may leave: 111b, and each way to 100b.
Partial == 4..7

\* The application, OPENTHREAD_MANUAL_START, COOKIE_FACTORY_RESET_ON_BOOT.
Builds == [image : {"node", "gateway"}, manual : BOOLEAN, reset : BOOLEAN]

BootTypeOK == /\ build \in Builds
              /\ pc \in {"off", "rail", "enable", "write", "disable", "reset", "stack", "bsp",
                         "wipe", "register", "run", "wait", "coap", "loop", "returned"}
              /\ vout \in Partial /\ rail \in Partial
              /\ polls \in 0..MaxPolls
              /\ {high, writable, settings, running, attached, told, registered, red, coap}
                   \subseteq BOOLEAN

BootInit == /\ build \in Builds
            /\ pc = "off" /\ high = FALSE
            /\ vout = DEFAULT /\ rail = DEFAULT /\ writable = FALSE
            /\ settings \in BOOLEAN
            /\ running = FALSE /\ attached = FALSE /\ told = TRUE
            /\ registered = FALSE /\ red = FALSE /\ polls = 0 /\ coap = FALSE

Goto(from, to) == pc = from /\ pc' = to

-----------------------------------------------------------------------------
(* Supply and resets.                                                      *)

\* A reset of any kind: peripherals and RAM start anew, the regulator takes
\* the value in UICR.
Restart ==
    /\ pc' = "rail"
    /\ rail' = vout
    /\ writable' = FALSE
    /\ running' = FALSE /\ attached' = FALSE /\ told' = TRUE
    /\ registered' = FALSE /\ red' = FALSE /\ polls' = 0 /\ coap' = FALSE

PowerOn ==
    /\ pc = "off"
    /\ Restart
    /\ high' \in BOOLEAN
    /\ UNCHANGED <<build, vout, settings>>

\* The supply fails; in the middle of the write of UICR some bits are cleared.
PowerFails ==
    /\ pc # "off"
    /\ pc' = "off"
    /\ vout' \in IF pc = "write" /\ writable THEN Partial ELSE {vout}
    /\ writable' = FALSE
    /\ running' = FALSE /\ attached' = FALSE /\ told' = TRUE
    /\ registered' = FALSE /\ red' = FALSE /\ polls' = 0 /\ coap' = FALSE
    /\ UNCHANGED <<power, settings>>

-----------------------------------------------------------------------------
(* board_early_init_hook.                                                  *)

CheckRail ==
    /\ pc = "rail"
    /\ pc' = IF high /\ vout = DEFAULT THEN "enable" ELSE "stack"
    /\ UNCHANGED <<power, uicr, thread, led, polls, coap>>

\* A hook that forgets to enable writes.
NoEnable ==
    /\ Goto("enable", "write")
    /\ UNCHANGED <<power, uicr, thread, led, polls, coap>>

EnableWrite ==
    /\ Goto("enable", "write")
    /\ writable' = TRUE
    /\ UNCHANGED <<power, vout, thread, led, polls, coap>>

\* Flash ignores the write unless it is enabled.
WriteRegOut ==
    /\ Goto("write", "disable")
    /\ vout' = IF writable THEN V3V0 ELSE vout
    /\ UNCHANGED <<power, writable, thread, led, polls, coap>>

DisableWrite ==
    /\ Goto("disable", "reset")
    /\ writable' = FALSE
    /\ UNCHANGED <<power, vout, thread, led, polls, coap>>

\* A hook that goes on without the reset.
NoReset ==
    /\ Goto("reset", "stack")
    /\ UNCHANGED <<power, uicr, thread, led, polls, coap>>

SystemReset ==
    /\ pc = "reset"
    /\ Restart
    /\ UNCHANGED <<build, high, vout, settings>>

-----------------------------------------------------------------------------
(* main() of both applications, and what Zephyr's SYS_INIT does before it. *)

\* The OpenThread glue brings the stack up, unless the start is left to main.
\* The comments of the repository disagree about which build it is: "no
\* MANUAL_START" in apps/gateway/src/main.c:4 and thread_setup.c:4,
\* "MANUAL_START defaults to y" in apps/sensor_node/src/main.c:81.
InitStack ==
    /\ Goto("stack", "bsp")
    /\ running' \in BOOLEAN
    /\ build.manual => ~running'
    /\ UNCHANGED <<power, uicr, settings, attached, told, led, polls, coap>>

\* LEDs as outputs, off, and the blinks of the measurement build.
BspInit ==
    /\ Goto("bsp", "wipe")
    /\ red' = FALSE
    /\ UNCHANGED <<power, uicr, thread, registered, polls, coap>>

\* otInstanceErasePersistentInfo, after Thread and IPv6 are disabled: a stack
\* that was up loses its role, and has that to tell.
EraseSettings ==
    /\ pc = "wipe"
    /\ pc' = IF build.image = "gateway" THEN "register" ELSE "run"
    /\ \/ /\ build.reset
          /\ settings' = FALSE /\ running' = FALSE /\ attached' = FALSE
          /\ told' = (told /\ ~attached)
       \/ ~build.reset /\ UNCHANGED thread
    /\ UNCHANGED <<power, uicr, led, polls, coap>>

Register ==
    /\ Goto("register", "run")
    /\ registered' = TRUE
    /\ UNCHANGED <<power, uicr, thread, red, polls, coap>>

\* openthread_run, which a stack that is up does not mind; main returns when it
\* fails.
RunThread ==
    /\ pc = "run"
    /\ \/ /\ running' = TRUE
          /\ pc' = IF build.image = "gateway" THEN "coap" ELSE "wait"
       \/ pc' = "returned" /\ UNCHANGED running
    /\ polls' = MaxPolls
    /\ UNCHANGED <<power, uicr, settings, attached, told, led, coap>>

\* cookie_thread_wait_attached, whose timeout is ignored.
WaitAttached ==
    /\ pc = "wait"
    /\ IF attached \/ polls = 0
       THEN pc' = "coap" /\ UNCHANGED polls
       ELSE polls' = polls - 1 /\ UNCHANGED pc
    /\ UNCHANGED <<power, uicr, thread, led, coap>>

\* cookie_coap_init of the node, gateway_coap_server_start of the gateway.
StartCoap ==
    /\ pc = "coap"
    /\ \E ok \in BOOLEAN :
        /\ coap' = ok
        /\ pc' = IF ok THEN "loop" ELSE "returned"
    /\ UNCHANGED <<power, uicr, thread, led, polls>>

-----------------------------------------------------------------------------
(* The OpenThread thread.                                                  *)

RoleChanges ==
    /\ running
    /\ attached' = ~attached
    /\ settings' = (settings \/ attached')
    /\ told' = FALSE
    /\ UNCHANGED <<power, pc, uicr, running, led, polls, coap>>

\* A callback that toggles the LED.
OnStateChangedToggles ==
    /\ ~told
    /\ told' = TRUE
    /\ red' = IF registered THEN ~red ELSE red
    /\ UNCHANGED <<power, pc, uicr, settings, running, attached, registered, polls, coap>>

\* on_thread_state_changed reads the role again; flags of several changes are
\* merged into one call.
OnStateChanged ==
    /\ ~told
    /\ told' = TRUE
    /\ red' = IF registered THEN attached ELSE red
    /\ UNCHANGED <<power, pc, uicr, settings, running, attached, registered, polls, coap>>

-----------------------------------------------------------------------------
Cpu == \/ CheckRail \/ EnableWrite \/ WriteRegOut \/ DisableWrite \/ SystemReset
       \/ InitStack \/ BspInit \/ EraseSettings \/ Register \/ RunThread \/ WaitAttached \/ StartCoap
BootNext == Cpu \/ PowerOn \/ PowerFails \/ RoleChanges \/ OnStateChanged

BootSpec == BootInit /\ [][BootNext]_bootVars

\* A supplied processor runs.
FairBoot == BootSpec /\ WF_bootVars(Cpu)

-----------------------------------------------------------------------------
\* No application code runs on a board in high-voltage mode whose GPIO rail is
\* still at the 1.8 V of an erased chip, wherever power failed before.
RailRaised == pc \notin {"off", "rail", "enable", "write", "disable", "reset"} /\ high
                 => rail # DEFAULT

\* A board that stays supplied gets to its main loop or returns from main: it
\* does not reset for ever.
BootEnds == <>[](pc # "off") => <>(pc \in {"loop", "returned"})

\* The gateway's red LED never shows an attachment that is gone, once the change
\* has been told.  It shows every attachment, one that came before or during the
\* start of the server too, when the stack comes up behind the registration of the
\* callback: when main starts it, or has it start anew for the factory reset.
LedShowsRole ==
    build.image = "gateway" /\ told =>
        /\ red => attached
        /\ registered /\ (build.manual \/ build.reset) => (attached => red)

-----------------------------------------------------------------------------
\* "Raise REGOUT0 to 3.0 V ... it is written once" (board.c:16-17).
RailIs3V0 == pc = "loop" /\ high => rail = V3V0

\* "OpenThread is auto-started by the Zephyr glue (no MANUAL_START)"
\* (apps/gateway/src/main.c:4): the role such a stack takes before main registers
\* the callback is one the LED shows when the loop is reached and all is told.
EarlyRoleShown ==
    build.image = "gateway" /\ ~build.manual /\ pc = "loop" /\ told => (attached => red)
=============================================================================
