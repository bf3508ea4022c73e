------------------------------- MODULE PcTool -------------------------------
(***************************************************************************)
(* The live monitor on the PC (tools/pc_tool/cookie_pctool, the command    *)
(* "live --log" on a POSIX host).  Three threads: the reader turns bytes   *)
(* of the gateway into time-stamped lines and queues them; the main thread *)
(* drains the queue four times a second, appends each line to the log and  *)
(* feeds it to MeshState; the key thread inserts markers and stops the     *)
(* tool.  Log and MeshState are shared without a lock, and a line may be a *)
(* marker event itself.  Afterwards the log is exported.  Time is a        *)
(* counter of the stamps that have been taken.                             *)
(***************************************************************************)
EXTENDS Integers, Sequences, SequencesExt

CONSTANTS QueueMax,    \* Queue(maxsize) (code: 4096)
          MaxLines,    \* lines the gateway sends (bound)
          OddLines,    \* lines that may be bad or a note, and 0 (bound)
          MaxPresses   \* keys the user presses (bound)

ASSUME QueueAssumption == QueueMax \in Nat \ {0}
ASSUME InputAssumption == /\ MaxLines \in Nat /\ MaxPresses \in Nat
                          /\ OddLines \subseteq 0..MaxLines

VARIABLES
    terminal,  \* stdin is a terminal, and not the pipe of "live --stdin"
    bad,       \* the line whose fields do not convert, or 0
    note,      \* the line that is a marker event, or 0
    clock,     \* stamps taken so far (time.monotonic_ns)
    sent,      \* lines the source has yielded
    reader,    \* "read", "put", "fail", "stop", "gone"
    item,      \* the line the reader holds
    queue,
    dropped,   \* history: lines the reader gave up
    stop,      \* the threading.Event
    main,      \* "check", "drain", "log", "feed", "close", "gone"
    hand,      \* the line the main thread holds
    crashed,   \* history: parse_line raised
    fed,       \* MeshState: the lines fed to it
    markers,   \* MeshState.markers: of the key thread, and of marker events
    key,       \* "start", "poll", "select", "write", "gone"
    mark,      \* the marker the key thread is about to write
    pressed,   \* keys pressed so far
    tty, buf,  \* keys in the kernel, and in the buffer of sys.stdin
    log,       \* entries of the log file
    open       \* the log file is open

readerVars == <<sent, reader, item, dropped>>
mainVars == <<main, hand, crashed>>
mesh == <<fed, markers>>
keyVars == <<key, mark, pressed, tty, buf>>
logVars == <<log, open>>
input == <<terminal, bad, note>>
vars == <<input, clock, readerVars, queue, stop, mainVars, mesh, keyVars, logVars>>

Keys == {"a", "q"}
None == [what |-> "none", id |-> 0, stamp |-> 0]
Entry == [what : {"line", "marker", "error"}, id : 0..MaxLines,
          stamp : 1..(MaxLines + MaxPresses + 1)]

TypeOK == /\ terminal \in BOOLEAN
          /\ bad \in 0..MaxLines /\ note \in 0..MaxLines
          /\ clock \in 0..(MaxLines + MaxPresses + 1)
          /\ sent \in 0..MaxLines
          /\ reader \in {"read", "put", "fail", "stop", "gone"}
          /\ item \in Entry \cup {None}
          /\ queue \in Seq(Entry) /\ Len(queue) <= QueueMax
          /\ dropped \subseteq 1..MaxLines
          /\ stop \in BOOLEAN
          /\ main \in {"check", "drain", "log", "feed", "close", "gone"}
          /\ hand \in Entry \cup {None}
          /\ crashed \in BOOLEAN
          /\ fed \in Seq(Entry) /\ markers \in Seq(Entry)
          /\ key \in {"start", "poll", "select", "write", "gone"}
          /\ mark \in Entry \cup {None}
          /\ pressed \in 0..MaxPresses
          /\ tty \in Seq(Keys) /\ buf \in Seq(Keys)
          /\ log \in Seq(Entry)
          /\ open \in BOOLEAN

Init == /\ terminal \in BOOLEAN
        /\ bad \in OddLines /\ note \in OddLines
        /\ bad = 0 \/ note = 0    \* bound: at most one such line
        /\ clock = 0
        /\ sent = 0 /\ reader = "read" /\ item = None /\ dropped = {}
        /\ queue = <<>>
        /\ stop = FALSE
        /\ main = "check" /\ hand = None /\ crashed = FALSE
        /\ fed = <<>> /\ markers = <<>>
        /\ key = "start" /\ mark = None /\ pressed = 0 /\ tty = <<>> /\ buf = <<>>
        /\ log = <<>> /\ open = TRUE

Stamp(what, id) == [what |-> what, id |-> id, stamp |-> clock + 1]

-----------------------------------------------------------------------------
(* The reader thread.                                                      *)

\* The source yields a line with the host time; after stop the loop breaks.
ReaderYields ==
    /\ reader = "read" /\ sent < MaxLines
    /\ sent' = sent + 1
    /\ clock' = clock + 1
    /\ item' = Stamp("line", sent + 1)
    /\ reader' = IF stop THEN "gone" ELSE "put"
    /\ UNCHANGED <<input, dropped, queue, stop, mainVars, mesh, keyVars, logVars>>

ReaderPuts ==
    /\ reader = "put" /\ Len(queue) < QueueMax
    /\ queue' = Append(queue, item)
    /\ reader' = "read"
    /\ UNCHANGED <<input, clock, sent, item, dropped, stop, mainVars, mesh, keyVars, logVars>>

\* queue.put(..., timeout=0.5) on a queue that stays full: except: pass.
ReaderDrops ==
    /\ reader = "put" /\ Len(queue) = QueueMax
    /\ dropped' = dropped \cup {item.id}
    /\ reader' = "read"
    /\ UNCHANGED <<input, clock, sent, item, queue, stop, mainVars, mesh, keyVars, logVars>>

\* The file or pipe ends: the thread returns.  The port fails: an error event.
SourceEnds ==
    /\ reader = "read"
    /\ reader' \in {"gone", "fail"}
    /\ UNCHANGED <<input, clock, sent, item, dropped, queue, stop, mainVars, mesh, keyVars,
                   logVars>>

ReaderPutsError ==
    /\ reader = "fail" /\ Len(queue) < QueueMax
    /\ clock' = clock + 1
    /\ queue' = Append(queue, Stamp("error", 0))
    /\ reader' = "stop"
    /\ UNCHANGED <<input, sent, item, dropped, stop, mainVars, mesh, keyVars, logVars>>

ReaderStops ==
    /\ reader = "stop"
    /\ stop' = TRUE
    /\ reader' = "gone"
    /\ UNCHANGED <<input, clock, sent, item, dropped, queue, mainVars, mesh, keyVars, logVars>>

-----------------------------------------------------------------------------
(* The main thread.                                                        *)

\* while not stop.is_set(), after rendering and a quarter of a second.
Check ==
    /\ main = "check"
    /\ main' = IF stop THEN "close" ELSE "drain"
    /\ UNCHANGED <<input, clock, readerVars, queue, stop, hand, crashed, mesh, keyVars,
                   logVars>>

\* A drain that leaves the newest line for the next time.
DrainButOne ==
    /\ main = "drain"
    /\ IF Len(queue) <= 1
       THEN /\ main' = "check"
            /\ UNCHANGED <<queue, hand>>
       ELSE /\ hand' = Head(queue)
            /\ queue' = Tail(queue)
            /\ main' = "log"
    /\ UNCHANGED <<input, clock, readerVars, stop, crashed, mesh, keyVars, logVars>>

\* A drain that empties the queue and keeps one line of it.
DrainKeepsOne ==
    /\ main = "drain"
    /\ IF queue = <<>>
       THEN /\ main' = "check"
            /\ UNCHANGED <<queue, hand>>
       ELSE /\ hand' = Head(queue)
            /\ queue' = <<>>
            /\ main' = "log"
    /\ UNCHANGED <<input, clock, readerVars, stop, crashed, mesh, keyVars, logVars>>

\* get_nowait; Empty ends the drain, and only then is the screen rendered.
Drain ==
    /\ main = "drain"
    /\ IF queue = <<>>
       THEN /\ main' = "check"
            /\ UNCHANGED <<queue, hand>>
       ELSE /\ hand' = Head(queue)
            /\ queue' = Tail(queue)
            /\ main' = "log"
    /\ UNCHANGED <<input, clock, readerVars, stop, crashed, mesh, keyVars, logVars>>

Raises(line) == line.what = "line" /\ line.id = bad
IsNote(line) == line.what = "line" /\ line.id = note

\* A log of the lines that parse.
LogParsed ==
    /\ main = "log"
    /\ log' = IF Raises(hand) THEN log ELSE Append(log, hand)
    /\ main' = "feed"
    /\ UNCHANGED <<input, clock, readerVars, queue, stop, hand, crashed, mesh, keyVars,
                   open>>

\* log_fp.write and flush, before the line is parsed; no stamp is written.
Log ==
    /\ main = "log"
    /\ log' = Append(log, hand)
    /\ main' = "feed"
    /\ UNCHANGED <<input, clock, readerVars, queue, stop, hand, crashed, mesh, keyVars,
                   open>>

\* parse_line and MeshState.feed, which adds the marker of a marker event; int()
\* or float() of a field may raise, and nothing catches that but the finally of
\* run_tui.
Feed ==
    /\ main = "feed"
    /\ IF Raises(hand)
       THEN /\ crashed' = TRUE
            /\ main' = "close"
            /\ UNCHANGED mesh
       ELSE /\ fed' = Append(fed, hand)
            /\ markers' = IF IsNote(hand) THEN Append(markers, hand) ELSE markers
            /\ main' = "drain"
            /\ UNCHANGED crashed
    /\ UNCHANGED <<input, clock, readerVars, queue, stop, hand, keyVars, logVars>>

\* Ctrl-C raises KeyboardInterrupt wherever the main thread is.
Interrupt ==
    /\ main \in {"check", "drain", "log", "feed"}
    /\ main' = "close"
    /\ UNCHANGED <<input, clock, readerVars, queue, stop, hand, crashed, mesh, keyVars,
                   logVars>>

\* finally: stop.set(), log_fp.close().
Close ==
    /\ main = "close"
    /\ stop' = TRUE
    /\ open' = FALSE
    /\ main' = "gone"
    /\ UNCHANGED <<input, clock, readerVars, queue, hand, crashed, mesh, keyVars, log>>

\* The process ends, and the daemon threads with it.
Exit ==
    /\ main = "gone"
    /\ reader' = "gone" /\ key' = "gone" /\ mark' = None
    /\ UNCHANGED <<input, clock, sent, item, dropped, queue, stop, mainVars, mesh, pressed,
                   tty, buf, logVars>>

-----------------------------------------------------------------------------
(* The key thread.                                                         *)

PressKey(k) ==
    /\ pressed < MaxPresses
    /\ pressed' = pressed + 1
    /\ tty' = IF terminal THEN Append(tty, k) ELSE tty
    /\ UNCHANGED <<input, clock, readerVars, queue, stop, mainVars, mesh, key, mark, buf,
                   logVars>>

\* termios.tcgetattr raises on a pipe, and the thread returns.
KeyStart ==
    /\ key = "start"
    /\ key' = IF terminal THEN "poll" ELSE "gone"
    /\ UNCHANGED <<input, clock, readerVars, queue, stop, mainVars, mesh, mark, pressed, tty,
                   buf, logVars>>

\* while not stop.is_set(): what follows does not look at it again.
KeyChecks ==
    /\ key = "poll"
    /\ key' = IF stop THEN "gone" ELSE "select"
    /\ UNCHANGED <<input, clock, readerVars, queue, stop, mainVars, mesh, mark, pressed, tty,
                   buf, logVars>>

\* select on the descriptor finds nothing for 50 ms.
KeyTimeout ==
    /\ key = "select" /\ tty = <<>>
    /\ key' = "poll"
    /\ UNCHANGED <<input, clock, readerVars, queue, stop, mainVars, mesh, mark, pressed, tty,
                   buf, logVars>>

\* select returns, and sys.stdin.read(1) takes all the kernel holds into its own
\* buffer; _handle_key sets stop or adds a marker.
ReadKey ==
    /\ key = "select" /\ tty # <<>>
    /\ LET ready == IF buf = <<>> THEN tty ELSE buf
       IN  /\ tty' = IF buf = <<>> THEN <<>> ELSE tty
           /\ buf' = Tail(ready)
           /\ IF Head(ready) = "q"
              THEN /\ stop' = TRUE
                   /\ key' = "poll"
                   /\ UNCHANGED <<mark, markers, clock>>
              ELSE /\ mark' = Stamp("marker", 0)
                   /\ markers' = Append(markers, mark')
                   /\ clock' = clock + 1
                   /\ key' = "write"
                   /\ UNCHANGED stop
    /\ UNCHANGED <<input, readerVars, queue, mainVars, fed, pressed, logVars>>

\* A marker that is not written once the tool is stopping.
WriteMarkerUnlessStop ==
    /\ key = "write"
    /\ mark' = None
    /\ IF open /\ ~stop
       THEN /\ log' = Append(log, mark)
            /\ key' = "poll"
       ELSE /\ key' = "gone"
            /\ UNCHANGED log
    /\ UNCHANGED <<input, clock, readerVars, queue, stop, mainVars, mesh, pressed, tty, buf,
                   open>>

\* log_fp.write of the marker; on a closed file it raises and the thread ends.
WriteMarker ==
    /\ key = "write"
    /\ mark' = None
    /\ IF open
       THEN /\ log' = Append(log, mark)
            /\ key' = "poll"
       ELSE /\ key' = "gone"
            /\ UNCHANGED log
    /\ UNCHANGED <<input, clock, readerVars, queue, stop, mainVars, mesh, pressed, tty, buf,
                   open>>

-----------------------------------------------------------------------------
Put == ReaderPuts \/ ReaderDrops \/ ReaderPutsError \/ ReaderStops
Reader == ReaderYields \/ Put \/ SourceEnds
Main == Check \/ Drain \/ Log \/ Feed \/ Close
Key == KeyStart \/ KeyChecks \/ KeyTimeout \/ ReadKey \/ WriteMarker
Next == \/ Reader \/ Main \/ Key \/ Interrupt \/ Exit
        \/ \E k \in Keys : PressKey(k)

Spec == Init /\ [][Next]_vars

\* Python runs every thread; nobody need press a key or send a line.
FairSpec == Spec /\ WF_vars(Put) /\ WF_vars(Main) /\ WF_vars(Key)

-----------------------------------------------------------------------------
Ids(s) == {s[i].id : i \in {j \in 1..Len(s) : s[j].what = "line"}}
Lines == {e \in ToSet(log) : e.what # "marker"}
Running == main \notin {"close", "gone"} /\ ~stop

\* While the tool runs, every received line is in exactly one place: with the
\* reader, in the queue, with the main thread, in the log, or given up because
\* the queue stayed full (_reader_thread and _drain).
NothingVanishes ==
    LET holders(i) == {h \in {"reader", "queue", "main", "log", "dropped"} :
            CASE h = "reader" -> reader = "put" /\ item.id = i
              [] h = "queue" -> i \in Ids(queue)
              [] h = "main" -> main = "log" /\ hand.what = "line" /\ hand.id = i
              [] h = "log" -> i \in Ids(log)
              [] h = "dropped" -> i \in dropped}
    IN  Running => \A i \in 1..sent : \E h \in holders(i) : holders(i) = {h}

\* The entries of s that are markers, or those that are not, are in the order
\* of their stamps, each once.
InOrder(s) ==
    \A i, j \in 1..Len(s) :
        i < j /\ (s[i].what = "marker" <=> s[j].what = "marker") => s[i].stamp < s[j].stamp

\* The log holds its lines, and its markers, in the order they were stamped,
\* whatever was dropped in between and however the two writers interleave.
LinesInOrder == InOrder(log)

\* s is the lines of the log: both are in order, and hold the same entries.
Shows(s) == InOrder(s) /\ ToSet(s) = Lines

\* What the screen shows is in the log, and the log is one line ahead at most;
\* the line that ends the tool is the last line of the log.
FedIsLogged ==
    /\ Shows(fed) \/ Shows(Append(fed, hand))
    /\ main = "feed" \/ crashed => Shows(Append(fed, hand))

\* The log is the history of the session: the lines in their order, and ahead of
\* the screen (_drain against _reader_thread and _handle_key).
LogIsHistory == LinesInOrder /\ FedIsLogged

\* As long as the log is open it has every marker of the screen, the key thread's
\* and those of marker events, but the one the key thread is about to write; and
\* the screen has every marker of the log (_handle_key and _on_event against the
\* finally of run_tui).
MarkersLogged ==
    LET shown == ToSet(markers) \ (IF key = "write" THEN {mark} ELSE {})
    IN  open => /\ shown \subseteq ToSet(log)
                /\ \A e \in ToSet(log) : e.what = "marker" => e \in shown

\* A queued line is logged unless the tool stops, and a tool that is told to
\* stop closes its log, however many lines wait.
DisplayGoesOn ==
    /\ \A i \in 1..MaxLines : i \in Ids(queue) ~> i \in Ids(log) \/ ~Running
    /\ stop ~> ~open

-----------------------------------------------------------------------------
\* export_log parses the lines of the log in order and gives each the time of
\* the export; the stamp of a marker is in the payload, and not looked at.
Exported(s) == [i \in 1..Len(s) |-> [entry |-> s[i], x |-> i]]

\* "Time axis is seconds since first frame (host clock)" (export.py:11): what
\* was stamped later on the host is not drawn earlier.
ExportIsHostClock ==
    LET e == Exported(log)
    IN  \A i, j \in DOMAIN e : e[i].entry.stamp < e[j].entry.stamp => e[i].x < e[j].x

\* "Append every received line to this log file" (cli.py:27).
EveryLineLogged == main = "gone" => Ids(log) = 1..sent

\* "Markers are inserted by pressing a single letter key" (tui.py:2): the
\* thread that reads the keys lives as long as the tool runs.
KeysAreRead == Running => key # "gone"

\* "q to quit" (tui.py:180).
QuitKeyStops == (\E i \in 1..Len(tty) : tty[i] = "q") ~> stop
=============================================================================
