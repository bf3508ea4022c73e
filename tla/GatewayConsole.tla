--------------------------- MODULE GatewayConsole ---------------------------
(***************************************************************************)
(* The console of the gateway (apps/gateway/src/main.c, usb_print.c and    *)
(* the POST handler of coap_server.c).  Three threads write to it one      *)
(* character at a time: the OpenThread thread, which is cooperative and    *)
(* prints the sensor frames; the main thread, which prints the topology    *)
(* every fifth second; and the log thread of the lowest priority.  A       *)
(* thread runs only while those above it are blocked, and may be           *)
(* preempted between two characters.  print_lock is taken by the           *)
(* OpenThread thread alone, so it never excludes anybody and is left out.  *)
(* A line is two fragments and the newline.                                *)
(***************************************************************************)
EXTENDS Integers, Sequences, SequencesExt

CONSTANTS Nodes,    \* neighbours the gateway may have
          Slots,    \* entries of OpenThread's neighbour tables
          LineSize  \* sizeof(line) in emit_topology (code: 256)

ASSUME SlotsAssumption == Nodes \in Nat /\ Slots \in Nat /\ Nodes <= Slots
\* A line without neighbours fits, and so does the full one: a neighbour takes 7
\* characters, and the margin of 8 leaves the closing 3 and the zero their room
\* for these sizes of the buffer only.
ASSUME LineAssumption == LineSize \in Nat /\ LineSize >= 40 /\ LineSize % 7 \notin {2, 3}

VARIABLES
    table,     \* the neighbour tables: a node or 0 in each slot
    tick,      \* tick % 5
    main,      \* "sleep", "walk", "print"
    it, off,   \* the iterator and the write offset of emit_topology
    listed,    \* the neighbours written to the line so far
    stayed,    \* history: neighbours in the same slot since the walk began
    seen,      \* history: neighbours at some time since the walk began
    at,        \* at[w]: fragments of its line thread w has printed
    current    \* what the console holds since the last newline

vars == <<table, tick, main, it, off, listed, stayed, seen, at, current>>
walkVars == <<it, off, listed, stayed, seen>>

Node == 1..Nodes
Writer == {"frame", "topology", "log"}
Line(w) == <<<<w, 1>>, <<w, 2>>>>
Neighbours == {n \in Node : \E s \in 1..Slots : table[s] = n}

TypeOK == /\ table \in [1..Slots -> 0..Nodes]
          /\ tick \in 0..4
          /\ main \in {"sleep", "walk", "print"}
          /\ it \in 0..Slots
          /\ off \in 0..LineSize
          /\ listed \in Seq(Node)
          /\ stayed \subseteq Node
          /\ seen \subseteq Node
          /\ at \in [Writer -> 0..2]
          /\ current \in Seq(Writer \X {1, 2})

Init == /\ \E k \in 0..Nodes : table = [s \in 1..Slots |-> IF s <= k THEN s ELSE 0]
        /\ tick = 0
        /\ main = "sleep"
        /\ it = 0
        /\ off = 0
        /\ listed = <<>>
        /\ stayed = {}
        /\ seen = {}
        /\ at = [w \in Writer |-> 0]
        /\ current = <<>>

\* The line a thread is in the middle of.
Unfinished(w) == at[w] > 0

-----------------------------------------------------------------------------
\* printk, one character after the other: a fragment of the line of w, or its
\* newline, with which the reader gets whatever the console holds.
Fragment(w) ==
    /\ at[w] < 2
    /\ at' = [at EXCEPT ![w] = @ + 1]
    /\ current' = Append(current, <<w, at[w] + 1>>)

Newline(w) ==
    /\ at[w] = 2
    /\ at' = [at EXCEPT ![w] = 0]
    /\ current' = <<>>

\* What preemption by priority lets run.
MayRun(w) == CASE w = "frame" -> TRUE
               [] w = "topology" -> ~Unfinished("frame")
               [] w = "log" -> ~Unfinished("frame") /\ main = "sleep"

\* gateway_usb_print_line, called by sensors_post_handler with a payload that is
\* not empty; a request may arrive at any time.
PrintFrame ==
    /\ Fragment("frame")
    /\ UNCHANGED <<table, tick, main, walkVars>>

\* A newline printed before the last fragment of the payload.
FrameEndsEarly ==
    /\ at["frame"] \in {1, 2}
    /\ at' = [at EXCEPT !["frame"] = 0]
    /\ current' = <<>>
    /\ UNCHANGED <<table, tick, main, walkVars>>

FrameEnds ==
    /\ Newline("frame")
    /\ UNCHANGED <<table, tick, main, walkVars>>

\* The log thread prints what LOG_INF and the others put into its buffer.
PrintLog ==
    /\ MayRun("log")
    /\ Fragment("log") \/ Newline("log")
    /\ UNCHANGED <<table, tick, main, walkVars>>

-----------------------------------------------------------------------------
(* OpenThread changes the neighbour tables, in its own thread.             *)

Leave(s) ==
    /\ table[s] # 0
    /\ table' = [table EXCEPT ![s] = 0]
    /\ stayed' = stayed \ {table[s]}
    /\ UNCHANGED <<tick, main, it, off, listed, seen, at, current>>

Join(n, s) ==
    /\ n \notin Neighbours
    /\ table[s] = 0
    /\ table' = [table EXCEPT ![s] = n]
    /\ seen' = seen \cup {n}
    /\ UNCHANGED <<tick, main, it, off, listed, stayed, at, current>>

-----------------------------------------------------------------------------
(* The main thread.                                                        *)

\* The length of {"event":"topology","tree":{"xxxx":[ and of one neighbour.
Header == 36

Entry(first) == IF first THEN 6 ELSE 7

\* One second has passed; every fifth time emit_topology starts its line.
Second ==
    /\ main = "sleep" /\ MayRun("topology")
    /\ tick' = (tick + 1) % 5
    /\ IF tick' = 0
       THEN /\ main' = "walk" /\ it' = 0 /\ off' = Header /\ listed' = <<>>
            /\ stayed' = Neighbours /\ seen' = Neighbours
       ELSE UNCHANGED <<main, walkVars>>
    /\ UNCHANGED <<table, at, current>>

\* while (off < sizeof(line) - 8 && ...)
RoomLeft == off < LineSize - 8

\* otThreadGetNextNeighborInfo: the next slot in use, without OpenThread's lock.
Later == {s \in (it + 1)..Slots : table[s] # 0}
NextSlot == CHOOSE s \in Later : \A r \in Later : s <= r

\* A walk that passes over the slot it looked at last.
WalkSkipping ==
    /\ main = "walk" /\ MayRun("topology")
    /\ RoomLeft /\ Later # {}
    /\ it' = IF NextSlot < Slots THEN NextSlot + 1 ELSE NextSlot
    /\ off' = off + Entry(listed = <<>>)
    /\ listed' = Append(listed, table[NextSlot])
    /\ UNCHANGED <<table, tick, main, stayed, seen, at, current>>

Walk ==
    /\ main = "walk" /\ MayRun("topology")
    /\ RoomLeft /\ Later # {}
    /\ it' = NextSlot
    /\ off' = off + Entry(listed = <<>>)
    /\ listed' = Append(listed, table[NextSlot])
    /\ UNCHANGED <<table, tick, main, stayed, seen, at, current>>

\* snprintf(..., "]}}"), which cuts off what does not fit.
CloseLine ==
    /\ main = "walk" /\ MayRun("topology")
    /\ ~(RoomLeft /\ Later # {})
    /\ off' = off + 3
    /\ main' = "print"
    /\ UNCHANGED <<table, tick, it, listed, stayed, seen, at, current>>

\* printk("%s\n", line), and back to k_sleep.
PrintTopology ==
    /\ main = "print" /\ MayRun("topology")
    /\ Fragment("topology")
    /\ UNCHANGED <<table, tick, main, walkVars>>

TopologyEnds ==
    /\ main = "print" /\ MayRun("topology")
    /\ Newline("topology")
    /\ main' = "sleep"
    /\ it' = 0 /\ off' = 0 /\ listed' = <<>> /\ stayed' = {} /\ seen' = {}
    /\ UNCHANGED <<table, tick>>

-----------------------------------------------------------------------------
MainThread == Second \/ Walk \/ CloseLine \/ PrintTopology \/ TopologyEnds
OtThread == \/ PrintFrame \/ FrameEnds
            \/ \E s \in 1..Slots : Leave(s) \/ \E n \in Node : Join(n, s)
Next == MainThread \/ OtThread \/ PrintLog

Spec == Init /\ [][Next]_vars

\* A handler that prints returns, and the radio leaves the main thread time.
FairSpec == Spec /\ WF_vars(FrameEnds \/ (Unfinished("frame") /\ PrintFrame))
                 /\ SF_vars(MainThread)

-----------------------------------------------------------------------------
\* A frame reaches the console in one piece, its newline right behind it: what
\* spoils its line was there before (gateway_usb_print_line), and only because
\* the frame preempted a writer inside its line; every line that was finished
\* left the console at the start of the next.
FrameContiguous ==
    [][FrameEnds => /\ IsSuffix(Line("frame"), current)
                    /\ \/ current = Line("frame")
                       \/ Unfinished("topology") \/ Unfinished("log")]_vars

\* The line had no room for a further neighbour when it was closed.
LineFull == main = "print" /\ off - 3 >= LineSize - 8

\* The tree lists every neighbour that kept its slot while the table was
\* walked, unless the line is full, and nobody who was not a neighbour
\* meanwhile, although the table changes under the iterator; and the line is
\* closed for any number of neighbours: the brackets and the terminating zero
\* fit into the buffer (main.c:45-60).
TreeIsHonest ==
    main = "print" => /\ stayed \subseteq ToSet(listed) \/ LineFull
                      /\ ToSet(listed) \subseteq seen
                      /\ off < LineSize

\* A neighbour that stays is shown again and again, however often the frames
\* preempt the main thread and the table changes around it, if the line does
\* not fill up again and again.
NeighboursShown ==
    \A n \in Node : <>[](n \in Neighbours) /\ <>[]~LineFull
                       => []<>(main = "print" /\ n \in ToSet(listed))

-----------------------------------------------------------------------------
\* "Frames (printk) also bypass the log subsystem so they reach the console
\* intact" (prj.conf): the reader gets the line of a frame, and nothing else.
FramesReachIntact ==
    [][FrameEnds => current = Line("frame")]_vars
=============================================================================
