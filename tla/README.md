# Cookie Thread: a TLA+ model of the mesh sensor firmware and its PC tool

Cookie Thread is a Thread mesh of battery-powered sensor nodes.  Each node wakes
up, reads its sensors, encodes a JSON frame and pushes it over CoAP to a gateway;
the gateway prints every frame as one line on its USB console, beside a topology
line every five seconds; a Python tool on the host shows, logs and exports those
lines.  The firmware is Zephyr + OpenThread, with ports of the node and the
gateway to RIOT and Contiki-NG for comparison measurements.

This directory holds TLA+ modules translated from that code, TLC configurations
that check them on small instances, and proofs that TLAPS checks for all instances.

## 1. The system

| Component | Source | State it keeps | Operations | Talks to |
|---|---|---|---|---|
| CoAP push client | `libs/cookie_proto/src/coap_client.c` | `initialised`, the cached `have_gateway`/`gateway` pair under a mutex | init, push, invalidate, quiesce, `on_response` callback | OpenThread (calls, callback in its thread) |
| Gateway CoAP server | `apps/gateway/src/coap_server.c` | none of its own (OpenThread's response cache) | POST handler, 2.04 response | nodes (datagrams), console |
| Gateway console | `apps/gateway/src/main.c`, `usb_print.c` | `tick`, the line under construction | topology every 5 s, frame lines, log | three threads on one console |
| IMU driver | `libs/cookie_sensors/src/icm20648.c` | `initialised`, `dev_addr`; the chip's registers | present, read, sleep | I2C bus that may refuse |
| AUTO report loop | `apps/sensor_node/src/node_loop.c` | timer, work item, LEDs | timer callback, work handler | OpenThread role, push client, drivers |
| SED report loop | `apps/sensor_node/src/sed_loop.c` | cycle locals, marker pads | one endless cycle | the same |
| OpenThread helpers | `apps/sensor_node/src/thread_setup.c` | none | attach wait, role, hops, RSSI, id | OpenThread |
| PC tool, live | `tools/pc_tool/cookie_pctool/tui.py`, `source.py` | queue, stop event, log file, mesh state | reader, display and key threads | serial line, terminal, log |
| PC tool, data | `frames.py`, `state.py`, `export.py`, `snapshot.py`, `stub.py` | nodes, history, topology, markers | parse, feed, render, export | log file |
| Contiki-NG node | `ports/contiki-ng/sensor_node` | event timers, radio state | one protothread | RPL, CoAP, MAC |
| RIOT node | `ports/riot/sensor_node` | `shtc3_ok`, `icm_ok`, `netif_pid` | boot probe, one loop | GNRC, gcoap, I2C |
| Port gateways | `ports/riot/gateway`, `ports/contiki-ng/gateway` | none | POST handler | console |
| Frame codec | `libs/cookie_proto/src/frame_json.c` | none | encode, decode | push client |
| Power sampling | `libs/cookie_power/src/power.c` | `initialised` | burst, battery | SAADC |
| SHTC3 wrapper | `libs/cookie_sensors/src/shtc3.c` | none | present, read | Zephyr driver |
| Boot, board | `apps/*/src/main.c`, `boards/cei/.../board.c` | UICR REGOUT0, OpenThread's settings, the red LED | rail hook, start-up, role callback | the loops, OpenThread's thread |

What is hard here:

* **Two threads and one cache.**  `cookie_coap_push_frame` reads the flag and the
  address of the gateway while `on_response`, in OpenThread's thread, replaces them.
  Answers come late, twice, from several gateways, or after the exchange timed out.
* **Buffers.**  Every push takes message buffers that a dozen error paths give back.
* **Role changes in the middle of a handler.**  Both loops block (blinking, polling,
  I2C) and go on with what they read before.
* **A chip with modes.**  Register numbers depend on the bank, data on the sleep bit,
  and any of the eight writes of the initialisation may fail.
* **Preemption on the console.**  The frame is printed one character at a time.
* **Three Python threads** share a queue, a file and the mesh state without a lock.
* **Buffers of fixed size** along the way of a frame: the encoder's, the ports', the
  gateway's 512 bytes, with a padding that is meant to fill them.
* **Restarts.**  The sensors stay powered when the processor restarts; UICR is written
  once, and the supply may fail in that very write.
* **Timers** that are re-armed after work of unknown length, and a 32-bit uptime.

What makes each part correct, in one line each: the cached pair is consistent and
earned; no buffer is lost; every push returns and every exchange ends; a gateway that
stays is found; a ready driver has configured its chip; ticks are coalesced and never
lost; markers follow the phases; a frame is not split on the console; a received line
is in exactly one place until it is logged; the duty cycle does not drift; radio and
sensors sleep between cycles unless the hardware refused; a frame is read back as it was
measured or refused; no code runs on the low rail and no board resets for ever.

`PROJECT.json` lists the components with their status and every hazard with its line.

## 2. Modules

| Module | Models | Grain of a step |
|---|---|---|
| `ReportDelivery` | the promise of the CoAP path, without buffers, locks or datagrams | one visible event |
| `CookieCoap` | push client, gateway handler, OpenThread's exchanges and the radio | one access to the shared cache, one OpenThread call, one datagram |
| `MCCookieCoap` | symmetry sets for TLC | |
| `SedNode` | the SED node: `SedLoop`, `Icm20648` and `Power` composed, and the SHTC3 wrapper | one step of one of them |
| `Icm20648` | the IMU driver against the chip's registers | one I2C transaction |
| `Power` | the current burst and the battery reading | one ADC call |
| `NodeLoop` | AUTO loop: timer, work item, handler, LEDs | from one blocking call to the next |
| `SedLoop` | SED loop with the attach wait | one call that may block or that a property tells apart |
| `FramePath` | the three encoders, the gateway's copy, the decoder | one appended piece, one member read |
| `Boot` | rail hook, `main()` of both applications, role callback | one register access, one call |
| `GatewayConsole` | topology walk and the three writers of the console | one fragment of a line, one table entry |
| `PcTool` | reader, display and key threads, queue, log, export | one access to shared state |
| `ContikiNode` | the Contiki-NG protothread, its event timers, radio and sensors | from one wait to the next; in it, one bus transaction |
| `RiotNode` | the RIOT node, GNRC's thread and the radio states, the sensors | one bus transaction, one radio command |
| `MeshState` | the topology event and its drawing in the PC tool | one call, one child |
| `CookieCoapProofs`, `SedNodeProofs`, `NodeLoopProofs`, `RiotNodeProofs`, `ContikiNodeProofs`, `FramePathProofs` | the theorems about the module they are named after (section 4) | |
| `GatewayProofs` | the theorems about `GatewayConsole` and `Boot` | |
| `PcToolProofs` | the theorems about `PcTool` and `MeshState` | |

`Boot` and `MeshState` prefix the names every specification has (`BootInit`, `MeshNext`),
because their theorems stand in a module that extends a second specification.

Each module has the code's names where TLA+ allows it, and each definition is mapped to
its lines in `PROJECT.json` ("map").  Between the actions of a module stand definitions
such as `SnapshotFlagUnlocked` or `WakeSkipped`, each introduced by a comment: they are faulty
variants of the action that follows, one plausible slip each.  Replacing the action by
its variant violates a property (listed under "mutants"); this is how we know that the
properties depend on the code and not on the shape of the model.

### CookieCoap

`have`, `gateway`, `lock` are `ctx` of `coap_client.c`; `pc`, `unicast`, `peer`, `held`
the locals of a push; `cb` the callback; `pending` OpenThread's request table; `free`
and `stack` its buffer pool; `reqs`, `rsps` the datagrams in flight; `listening`,
`cached` the gateways and their response caches; `printed` and `served` are history.
A push is `PushStart, SnapshotFlag, SnapshotAddr, NewMessage, AppendFrame, SendRequest`
with `OutFree` for the `goto out_free`; the callback is `StoreAddr, StoreFlag`;
`cookie_coap_invalidate_gateway` is `InvalidateAddr, InvalidateFlag`.  The reads and
writes of the pair are steps of their own, so that the mutex, and not the model, keeps
them together.  Datagrams are lost, delayed, reordered and repeated; a gateway leaves
and comes back; a handler without a buffer prints but does not answer.

`ReportDelivery` is implemented by `CookieCoap` under the mapping `open` = tokens of the
pending exchanges, `known` = the cached address if the flag is set (`ImplementsDelivery`).

Abstractions: a token is a model value that is fresh when a push starts (the code draws
four random bytes); a message takes one buffer, the copy kept for a confirmable request
two; OpenThread's calls are atomic, although the code makes them without
`openthread_mutex_lock` — a race there is undefined and is listed as a hazard.

### Icm20648

One action per register access.  The chip is external: a bank, a sleep bit, two range
registers.  Any transaction may be refused on a flaky bus and is refused at the wrong
address.  A sample is `fresh`, `frozen` (chip asleep), `wrong bank` or `wrong scale`.
`busReady` is `device_is_ready` of the bus controller: fixed at boot, and without it
neither the probe nor a read is tried.

### NodeLoop

`NodeLoop` has the Zephyr work item with its four states (idle, queued, running, running
and queued again) so that coalescing is visible, and both builds (`meas`).

### SedLoop, SedNode, Power

In `SedLoop` the kernel's uptime wraps at `UptimeMod`; `elapsed` is the true time as
history.  Of the IMU, `SedLoop` keeps what outlives a call (ready, awake) and assumes
what a call does to it.  `SedNode` replaces these assumptions by the drivers: each call
of `cookie_icm20648_present`, `_read` and `_sleep` runs `Icm20648` transaction by
transaction, each call of `cookie_power_present` and `_sample_burst` runs `Power` reading
by reading, with time, role, exchanges and the bus changing in between.  `ImplementsLoop`
is the refinement: while a call is open the abstract IMU is the one from before the call
(`ImuSeen`), and its step happens when the call returns; the bus counts as good for the
call only if it was good throughout (`BusSeen`).  `Power` keeps currents in ADC steps
times a scale; `written` are the fields of the caller's uncleared structure.  `shtReady` is
`device_is_ready` of the SHTC3, whose driver Zephyr initialises once, at boot.  A device
that was not ready then, or is not in the devicetree, is never tried again, although the
bus heals: `FramesHeal` promises the fields of the ready devices and no others.

### FramePath

Text is a sequence of JSON tokens, and a number of bytes.  What is known at compile time
is a constant of a piece (its fewest and its most bytes, counted from the format and the
range of its arguments); the numbers between are the choice of `extra`.  The 960-byte
buffer and the padding of 64, 256 and 512 bytes are those of `overlays/pad_sweep.conf`.
The values a counter may have are a parameter (`UInt`), so the proofs cover all 32-bit
counters and the runs the three that matter.  A cut leaves any proper prefix of the tokens.
The decoder takes one member at a time.  The gateway's own lines and those of the ports enter the same decoder; nothing in the
tree calls `cookie_frame_from_json` today, and `parse_line` of the PC tool refuses at the
same first character.

### Boot

`vout` is what UICR holds, `rail` what the regulator took at the last reset.  A write of
UICR clears bits; interrupted, it leaves any value between the old and the new.  `told`
is false while a state change waits for `on_thread_state_changed`, which reads the role
when it runs.  `build` is what is chosen when the image is built: the application,
`CONFIG_OPENTHREAD_MANUAL_START`, `CONFIG_COOKIE_FACTORY_RESET_ON_BOOT`.  Without
`MANUAL_START` the stack may be up before `main()` (`InitStack`), and take a role before the
gateway registers its callback; with it the stack starts in `openthread_run` at the end of
`main()`.  Section 5 says why both are modelled.

### GatewayConsole

Three writers by priority: OpenThread's thread (cooperative), the main thread, the log
thread.  A line is two fragments and a newline.  `emit_topology` walks the neighbour
tables with an iterator while OpenThread changes them, because it does not take the
OpenThread lock.  The red LED and the role callback are in `Boot`.

### PcTool

POSIX `live --log`.  `queue`, `stop`, `log`, `open`, `markers`, `fed` are the shared
objects; each thread has a program counter.  `terminal` says whether stdin is a terminal
or the pipe of `--stdin`; `bad` is the line, if any, whose field does not convert; `note` the
line, if any, that is a marker event of the source, which `feed` adds to the same
`markers` as the keys do; `tty` and `buf` are the kernel's and Python's buffer of the
keyboard.  The key thread tests `stop` before `select`, not after it, so a key that arrives
when the tool is stopping is still read (`KeyChecks`, `KeyTimeout`, `ReadKey`).

### MeshState

`topology` is the dict of the last event; any event may come, with repeated names and
cycles, because the parser takes any tree a line holds.  The recursion of `_draw_subtree`
is the stack `calls` of (node, next child); `MaxCalls` is what the interpreter allows, and
at that depth `DrawChild` raises.  `roots` holds the iterations the loop of
`render_topology_ascii` still has to make; the main thread feeds and draws in turn, so
`OnTopology` is enabled between drawings only.  An exception here leaves `run_tui` the way
one of `parse_line` does, which `PcTool` models.

### ContikiNode

`left`, `late` are the etimer `cycle`, `timer` the linger or re-assert timer, `radio` the
MAC.  A protothread is not preempted, so time passes only in its waits.  The bus is good,
flaky (a transaction may be refused) or stuck (SDA low: every byte seems acknowledged and
every bit reads 0).

### RiotNode

`queued`, `flying` are the fragments GNRC still has to send and the one in the air; the
driver answers -EBUSY while one is.  `busy` counts those answers in one cycle, `refused`
the sensors whose last sleep command the bus refused.  `Restart` is a reset of the
processor: the flags are lost, the sensors stay as they are.

## 3. Runs

| Run | Question | Result | States |
|---|---|---|---|
| `coap_safety` | is the cached pair consistent and earned, is every buffer accounted for, is `ReportDelivery` implemented? | yes | 775 k (with symmetry) |
| `coap_live` | does every push return, every exchange end, a gateway get found, do reports keep arriving? | yes | 1.9 k |
| `sed_node` | do the drivers look like the steps of the loop, is every sample explained and whole, do markers, active time and IMU keep their promises, does the cycle come round, do the fields of ready devices heal? | yes | 440 k |
| `node_loop` | are ticks coalesced but never lost, LEDs dark at rest, reports unending while attached? | yes | 2.6 k |
| `gw_console` | is a frame contiguous, is the tree honest, does the topology line fit, is a neighbour that stays shown? | yes | 116 k |
| `pc_tool` | is a line in one place, the log in order and ahead of the screen, markers logged, the log closed? | yes | 521 k |
| `contiki` | does the cycle keep its phase, is the radio held on for the linger only, does a late joiner report, do the sensors sleep again on a healed bus? | yes | 80 k |
| `riot` | what may keep the radio or a sensor awake, do frames heal, over restarts? | yes | 18 k |
| `frame_path` | is a frame given up exactly when it does not fit, read back as measured, refused when cut? | yes | 393 k |
| `boot` | does nobody run on the low rail, does a supplied board start, does the LED tell the role? | yes | 3.5 k |
| `coap_timeout` | "On CON timeout: cache cleared" | violated | |
| `icm_fresh` | "Read one ... sample" | violated | |

`MeshState` is proved (section 4) and has its configuration beside the runs: `Mesh.cfg`
passes on 9.6 k states, with three names, two parents and two children each.  Every shape
that matters is there: self-loops, two-cycles, forests, a child of two parents, one listed
twice, names that are no parent.  `MaxCalls` 4 is one more than the names.

### Bounds, and why they suffice

* `coap_safety`: one node, because nodes share only the gateways, whose handler keeps
  nothing per node but the response cache; two addresses, so that answers of different
  gateways compete and a pair can be torn; two tokens, so that a late answer of one
  exchange meets another; five buffers and one foreign taker, so that each step of a
  push meets an empty pool; one retransmission.  Addresses and tokens are symmetric: no
  action or property of that run distinguishes them.
* `coap_live`: one address and one token, because a temporal check with this many
  strong fairness conditions does not scale; `StackMax` 0, so that the pool is short
  only by the node's own doing.
* `sed_node`: strap and devicetree disagree, so the probe has to go to the second
  address; two polls (code: 50) give a first, a later and a last look at the role;
  `UptimeMod` 3 with windows up to 2 wraps at every point of the cycle; a burst of two
  readings, each 4095, negative or failed, has a first and a last one.  One open
  exchange, because the loop only counts them.  `SedLoop.cfg` checks the
  loop alone with larger bounds, `Icm.cfg` the driver alone.
* `node_loop`: `MaxOwed` caps a history counter; three ticks in one run suffice for
  "running and queued again, and once more".
* `gw_console`: two neighbours in four slots leave, return elsewhere, and are listed
  twice.  A line of 60 bytes is full after three entries, and since 256 - 60 is a
  multiple of an entry's seven bytes it fills to the same offset before its end as the
  line of 256; the proof covers both (`LineAssumption`, section 4).
* `pc_tool`: a queue of two, three lines and two key presses: the queue fills, overflows,
  and a stop finds lines in every place.  `OddLines` {0, 2}: none of the lines, or the one
  in the middle, fails to convert, and none or that one is a marker event, so ordinary
  lines stand before and behind it.
* `contiki`: six ticks per interval, a linger of one and a re-assert period of two keep
  the order of the code's constants; `MaxLatch` bounds how long RPL holds the radio.
* `riot`: two fragments per report, so that the radio is busy at the first, at both or at
  no attempt to sleep.
* `frame_path`: the buffers and paddings of the builds themselves; `LongMax` 3 stands for
  2^31 - 1, counters are 0, the limit and one more.
* `boot`: two polls of the attach wait (code: 300); both images, both supply modes,
  both values of each build option.

`CHECK_DEADLOCK FALSE` stands in the configurations of `PcTool` and `MeshState` alone: the
tool ends, by a key or by an exception.

### Fairness, and why the code justifies it

* Threads run (`WF` on each step of a push, of the callback, of the loops): Zephyr,
  Contiki-NG and Python schedule every ready thread.
* Taking the mutex is `SF` (`PushStart`, `SnapshotFlag`, `StoreAddr`): `k_mutex_unlock`
  hands the mutex to a waiter, so no waiter is passed over for ever.
* Timers of OpenThread fire per exchange (`SF` for each token, because the stack may
  close and reopen an exchange under the same name).
* The radio loses any datagram but not all: of requests that are sent again and again
  one is handled while its sender waits (`SF` on `HandlePost`), and of such answers one
  arrives (`SF` on `ReceiveResponse`).  No fairness makes a gateway stay or return;
  `GatewayFound` and `ReportsArrive` have it as a premise that from some time on the
  gateways listen, however late, and whatever the node tried before.
* `SedNode`: the main thread runs, whichever call it is in, and OpenThread ends every
  exchange.  That the bus heals is a premise of `FramesHeal`.
* `RiotNode`, `Boot`: the main thread runs; nothing is assumed of GNRC, of the bus, of the
  supply or of the role.
* `GatewayConsole`: a handler that prints returns, and the radio leaves the main thread
  time again and again (`SF`: it is preempted, not starved).
* `PcTool`: no fairness on the source, on the user or on `Interrupt`.  `MeshState`: the main
  thread goes on while it draws; nothing is assumed of the events.
* `ContikiNode`: time passes and an expired process is polled; RPL lets go of the radio.

## 4. Proofs

Every safety invariant and every action property that a run checks is also proved for
all values of the constants; so are both refinements, and the invariants of `MeshState`.
`PROJECT.json` ("theorems") says what each theorem states.  The proofs use no more than
the assumptions the modules state about their constants, and TLC evaluates these on
every run:

| Assumption | Says | Why the code justifies it |
|---|---|---|
| `AddrAssumption` | no address, the group and a gateway's address are three things | `ff03::1` is a group; the model value `NoAddr` is an absent one |
| `BufferAssumption`, `RetransmitAssumption`, `OwedAssumption`, `QueueAssumption`, `InputAssumption`, `FragmentsAssumption` | sizes and bounds are natural numbers, some not 0 | |
| `LoopAssumption` | the window one cycle can last is shorter than the wrap of the uptime | seconds against 2^32 ms |
| `AddressAssumption` | strap and devicetree name one of the two addresses of the chip | data sheet, `icm20648.c` |
| `BurstAssumption` | 1 to 256 readings a burst, each a natural number or the -1 of `ReadOne`, which is clamped; a scale that is not negative | `power.c` |
| `TimesAssumption` | the linger is shorter than the interval | 300 ms against 30 s |
| `BootAssumption` | the attach wait polls at least once | `thread_setup.c` |
| `SlotsAssumption` | the neighbours fit into the table | OpenThread's table |
| `SizesAssumption` | padding, buffers and digits are natural numbers, the limit of `strtol` too; a counter is at most twice that limit and one | a counter is a `uint32_t`, the limit 2^31 - 1 |
| `LineAssumption` | the line has room for a tree without neighbours, and its size is not 2 or 3 modulo 7 | 256 is 4 modulo 7 |

The theorems about `MeshState` have one hypothesis, `FewNames`: names are finitely many and
fewer than the calls the interpreter's stack holds (a mesh has dozens of nodes, the stack
1000 calls).

`LineAssumption` is a result of the proof.  `emit_topology` stops adding neighbours at a
margin of eight bytes, and a neighbour takes seven, the brackets three and the zero one.
The margin alone does not keep them in the buffer: with a buffer of 254 or 255 bytes the
last neighbour would leave no room for them.  For the 256 bytes of the code there is room
for any number of neighbours.

### The arguments

**`CookieCoap`.**  `GatewayIsServed` is not inductive: it says nothing about the address
the callback holds before it stores it, nor about the answers that carry it.  `ServedInv`
follows the address backwards.  `LockOwner`: the mutex has one owner, and each owner is
inside its critical section, which excludes the torn pair.  `AddressesServed`: the address
in the callback, in the cache, in a push that read the flag, and in a pending confirmable
request is one that printed a report of this node; `cb.at = "flag"` remembers that the
address is stored and the flag not yet.  `AnswersServed`: whoever answers, now or out of
its response cache, has printed first.  `UnicastCorrect` and `ResponsesCorrect` follow.

`AccountingCorrect` rests on `BufferInv`: how many buffers a push holds at each program
point, and that OpenThread keeps one finite set of copies with one copy per token, so that
closing an exchange returns exactly its cost.  The sum over a set is written as two
cardinalities (`Copies`) so that the lemmas on `Cardinality` apply.

`DeliveryImplemented` maps every step of the path to a step of `ReportDelivery` or to a
stutter.  It needs `TokensIssued` (what is pending or in flight belongs to an
exchange its node opened), `ServedInv` (an address that becomes known is one that printed) and
`BufferInv` (one copy per token: an exchange that is closed is closed altogether).

**`SedNode`.**  `DriversCorrect` keeps two invariants in the composition, whatever the
loop does between two transactions: `IcmInv` says what each program point of the
initialisation has written to the chip and that only a refused return leaves it in
another bank; `AdcInv` says what the readings so far add up to.  `SamplesCorrect` and
`PowerCorrect` follow.  `CallsInv` ties an open call to the loop: where `pc` waits, that
the snapshot `before` is the chip's state when the call began, and how far an undisturbed
call has got, so that a call without trouble ends as `SedLoop` assumes.  With it
`LoopImplemented` shows that each transaction is a stutter of the abstract loop and each
return its step.  The promises are then proved of `SedLoop` and carried over by the
refinement: `ActiveTimeCorrect` from `ClockInv` (the uptime is the start plus the true
time, wrapped at most once), `MarkersCorrect` from `MarkerInv`, `ImuRestsCorrect` from the
step itself.

**`NodeLoop`.**  `ItemInv`: the item is with the workqueue exactly while the handler is not
at work.  `LedInv`: what each LED may show at each place of the handler, in both builds.

**`FramePath`.**  `Room`: at each program point the offset is the bytes of the pieces so
far (`Total`), the padding splits what is left of the sum, and a Zephyr frame is given up
exactly when the sum does not fit.  `Total` is a recursive function of the pieces; that it
exists, and that it grows, is a least-element argument over the naturals (`Least`), which
needs no theorem with an operator parameter.  `Texts` says what the tokens in the buffer
are: a brace and then members, each a known key, a colon and the value the encoder writes
for it; `Continues` is the induction step, that a piece appended to such a
text leaves it one.  `Lines` follows the decoder over what the gateway printed.  On a whole
line it is always at a member or behind one, and has set exactly the fields before it
(`OnWhole`); a cut line has lost the last brace, which is the only one, so the decoder
runs off its end (`OnCut`); a port's tag is refused at once (`OnTag`).  All three
properties follow, for every buffer, padding, counter and payload limit.

**`Boot`.**  `RailInv`: until the hook has decided, the rail is the one UICR names.
`LedInv`: only the callback lights the LED, and only when it is registered.  With
`MANUAL_START`, or after the factory reset has disabled Thread, there is no role yet when
`main()` registers it.

**`RiotNode`.**  `RadioInv` counts the busy answers by program point.  `SensorsInv` starts
the promise at the sleep command: each sensor that is still awake from there on never got
ready or refused.

**`ContikiNode`.**  `TimeInv`: while the cycle timer runs, phase and remaining time add up
to the interval; after its expiry the lateness and the linger timer add up to the linger.
Hence every wake-up has phase 0 (`NoDrift`), the radio is held for the linger only
(`DutyCycleCorrect`), and the re-assert loop is never entered, as `ContikiReoff.cfg` shows.

**`GatewayConsole`.**  `OffsetInv` is the length of the line in terms of the neighbours
listed, and that it can still be closed; `MarginIsEnough` is the arithmetic above.
`WalkInv`: a neighbour that stayed is listed or in a slot the iterator has not reached, so
changes of the table cost no tree entry.  `FrameInv`: the fragments of a frame stand
together at the end of the console, for nobody of lower priority runs inside it.

**`PcTool`.**  The tool's invariant is built on `Base`: types, what each thread holds, and
`ClockInv`, which bounds the stamps by the inputs.  `OrderInv`: log, hand of the main
thread, queue and hand of the reader are in the order of their stamps and numbers, each
part wholly before the next; this makes the log a history although the key thread
writes between.  `PlaceInv`: what was given up is nowhere else, and while the tool runs
each line is somewhere.  `LogInv` and `MarkersLogged`: the log's markers are those of the
screen, without the one in the key thread's hand; those that came as lines are in the log
before they are on the screen.  `FedInv`: the screen shows the lines of
the log but for the one in hand.  `NothingLost` adds that two places never hold the same
line, which is the strict order of `OrderInv`.

**`MeshState`.**  `PathInv`: each call on the stack draws a child of the node of the call
below it.  If a node were there twice, the nodes between would be children of each other
(`PathIsSimple`); so the stack of a tree without a cycle is no deeper than there are names
(`StackIsShort`, by the pigeonhole principle), and does not overflow.  `DrawnInv`: what is
not drawn yet is still ahead, a root of the loop or a child some call has to come to.  When
nothing is ahead, a set of nodes left out would need one that is a child of none of the
others, and that one is a root or the child of a drawn node.  `OnceInv`: in a tree that
lists no child twice, no node is drawn before its parent, so none is drawn again.

### Only model-checked

* All liveness: temporal proofs under fairness, and `ENABLED`, are out of the prover's reach.
  These are the leads-to and always-again properties of the runs, and `DrawingEnds`.
* The two findings are counterexamples and come from TLC alone.

## 5. Where code and documents disagree

Under "findings", each with a counterexample run:

* **The cache survives a timeout** (`coap_client.c:109`): the header says a CON timeout
  clears it.  Nothing in the tree calls `cookie_coap_invalidate_gateway`, so a node whose
  gateway got a new address never finds it again.
* **The IMU is read asleep** (`icm20648.c:222`): nothing clears the sleep bit set at the
  end of the previous cycle.

Further configurations show what the modules say of other sentences; TLC violates each
(`tlc -config <file> <module>`).  They are kept as documentation of hazards:

| Configuration | Module, property | Sentence |
|---|---|---|
| `CoapFirstResponder.cfg` | `MCCookieCoap`, `FirstResponderKept` | `coap_client.h:24`: every later responder replaces the first |
| `IcmBank.cfg` | `Icm20648`, `ReadyInBank0` | `icm20648.c:12`: a failed return to bank 0 is ignored |
| `NodeLoopRole.cfg` | `NodeLoop`, `PushedWhileAttached` | `node_loop.c:156`: the role is stale after the blinks |
| `ContikiReoff.cfg` | `ContikiNode`, `LatchIsCut` | `cookie-sensor-node.c:479`: the re-assert loop tests the timer that woke the process and is reset only after it, so it is never entered |
| `ContikiZeros.cfg` | `ContikiNode`, `FieldsAreReal` | `cookie-sensor-node.c:141`: a line held low acknowledges, and its zeros are data |
| `RiotAlarm.cfg` | `RiotNode`, `AlarmMeansDriver` | `ports/riot/sensor_node/main.c:364`: GNRC's own traffic makes the probe fail too |
| `BootLed.cfg` | `Boot`, `EarlyRoleShown` | `apps/gateway/src/main.c:4`: "OpenThread is auto-started": such a stack takes its role before anybody listens |
| `BootRail.cfg` | `Boot`, `RailIs3V0` | `board.c:16`: an interrupted write leaves another voltage for good |
| `FrameCut.cfg` | `FramePath`, `PrintedVerbatim` | `usb_print.c:4`, `Kconfig:49`: the frame of the 512-byte step is longer than `MAX_PAYLOAD` |
| `FrameCounters.cfg` | `FramePath`, `CountersKept` | `frame_json.c:107`: strtol, not strtoul, so a counter stops at `LONG_MAX` |
| `FrameRx.cfg` | `FramePath`, `PortFramesIngested` | `ports/riot/sensor_node/main.c:6`: the port gateways print `RX ` before the frame |
| `SedWait.cfg` | `SedLoop`, `TimeoutMeansDetached` | `thread_setup.h:12`: attached in the last 200 ms |
| `SedQuiesce.cfg` | `SedLoop`, `QuietTransportInSleep` | `coap_client.h:37`: quiesce does nothing |
| `SedImu.cfg` | `SedLoop`, `ImuOffInSleep` | `icm20648.h:46`: a half-initialised chip stays awake |
| `GwIntact.cfg` | `GatewayConsole`, `FramesReachIntact` | `apps/gateway/prj.conf:58`: a frame lands inside a topology line |
| `MeshRaises.cfg` | `MeshState`, `NeverRaises` | `apps/gateway/src/main.c:33`: a neighbour whose address ends as the gateway's does is listed below its own name |
| the same, with `-continue` | `MeshState`, `EveryNodeShown` | `state.py:4`: nodes below each other and below no root are left out |
| `PcExport.cfg` | `PcTool`, `ExportIsHostClock` | `export.py:11`: the log has no stamps, so markers and lines change places |
| `PcLog.cfg` | `PcTool`, `EveryLineLogged` | `cli.py:27`: a stop leaves queued lines unlogged |
| `PcKeys.cfg` | `PcTool`, `KeysAreRead` | `tui.py:2`: no keys with `--stdin` |
| `PcQuit.cfg` | `PcTool`, `QuitKeyStops` | `tui.py:180`: a key read ahead into a buffer |

`BootLed.cfg` belongs to a question the repository answers in two ways.  The gateway's
`main.c:4` ("auto-started by the Zephyr glue (no MANUAL_START)") and `prj.conf:9`, the sensor
node's `main.c:4` and `prj.conf:4` and `thread_setup.c:4` say that the stack starts in
`SYS_INIT`, before `main()`; the sensor node's `main.c:81` says that MANUAL_START is on in
this configuration, and both `main()` call `openthread_run`.  Which of them is true depends
on the defaults of the SDK, which is not in the tree, so `Boot` has both.  If the stack
starts by itself, then on a gateway that is not reset to factory the role taken before
`openthread_state_changed_callback_register` is never told: the red LED stays dark until the next change of
state.  `LedShowsRole` promises the attachment only for the builds whose stack comes up
behind the registration, and for every build that the LED is not lit without a role.

## 6. Not modelled, and why

* Numbers as text: digits, rounding and white space; a reading is named by its key.  The
  conversion of the battery reading to millivolts.
* `parse_line`'s fields, and what a frame writes into its row of the table: copies.  What
  `feed` stores is one step of `PcTool`; the roles and strokes of the drawn tree are left out.
* Rendering, HTML, snapshot, stub generator; the Windows key reader.
* Set-up of the port gateways (addresses, shell): calls in a straight line.  Contiki-NG's
  REGOUT0 fix copies the Zephyr hook, which is in `Boot`.
* Diagnostic applications: `diag_blinky`, `diag_sleep` and the rest blink or sleep, and
  nothing depends on them.
* Bootloader port, build scripts, CI, devicetree and binaries.  More than half of the
  repository's implementation lines are `ports/bootloader/sdk_config.h`, a generated
  header of constants for a bootloader whose source is not in the tree.
* Inside OpenThread, RPL, GNRC and the kernels: taken by their interfaces, marked external.

## 7. What is left

* Eleven hazards have no property of a passing run.  For eight of them the code does what it
  should not, and a configuration of section 5 shows it; the drawing of the tree (`state.py:136`)
  is proved instead.  Two are left: the message calls of `coap_client.c:142` run without
  OpenThread's lock, so what they may do is undefined; and a line the gateway prints twice
  (`coap_server.c:102`) is not seen, because `printed` is a set.
* What an answer does that comes while the node sleeps (`sed_loop.c:144`) depends on the radio
  of a sleepy child, which would have to be modelled inside OpenThread.
* The drawing reads the roles of the nodes the display thread has fed, and the key thread
  adds markers meanwhile: each is a single operation of the interpreter, and no property
  relates them yet.
* Liveness could be reduced to the invariants its leads-to chains rest on; the bounded
  progress measures of `MeshState` (calls and children still ahead) and of `Boot` are the
  shortest of them.
