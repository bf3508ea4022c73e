---------------------------- MODULE PcToolProofs ----------------------------
(***************************************************************************)
(* Proofs about PcTool: where a received line is, and what the log says,   *)
(* for every size of the queue and any number of lines and keys, however   *)
(* the three threads interleave, and wherever the tool is interrupted; and *)
(* about MeshState: what is drawn of any topology event, and of which      *)
(* alone the drawing fails.                                                *)
(***************************************************************************)
EXTENDS PcTool, MeshState, FiniteSetTheorems, SequenceTheorems, TLAPS

(* A stamp is taken for a line, for a key that was read, and once for the  *)
(* error of the port.                                                      *)
ClockInv ==
    clock + Len(tty) + Len(buf) <= sent + pressed + (IF reader \in {"stop", "gone"} THEN 1 ELSE 0)

(* What a thread holds while it is about to pass it on.                    *)
HeldInv ==
    /\ reader = "put" => item \in Entry /\ item.what = "line" /\ item.id = sent /\ sent > 0
    /\ main \in {"log", "feed"} => hand \in Entry /\ hand.what # "marker"
    /\ key = "write" => /\ mark \in Entry /\ mark.what = "marker"
                        /\ mark \in ToSet(markers)
    /\ \A e \in ToSet(queue) : e.what # "marker"
    /\ main = "gone" => ~open
    /\ crashed => main \in {"close", "gone"}

(* The lines on their way: with the main thread, in the queue, with the reader. *)
Queued == ToSet(queue)
Taken == IF main = "log" THEN {hand} ELSE {}
Offered == IF reader = "put" THEN {item} ELSE {}

Precedes(a, b) == /\ a.stamp < b.stamp
                  /\ a.what = "line" /\ b.what = "line" => a.id < b.id
AllPrecede(A, B) == \A a \in A, b \in B : Precedes(a, b)

QueueInOrder == \A i, j \in 1..Len(queue) : i < j => Precedes(queue[i], queue[j])

(* Whatever is further on its way to the log is older, and everything is   *)
(* older than what is stamped next.                                        *)
OrderInv ==
    /\ AllPrecede(Lines, Taken)
    /\ AllPrecede(Lines \cup Taken, Queued)
    /\ QueueInOrder
    /\ AllPrecede(Lines \cup Taken \cup Queued, Offered)
    /\ AllPrecede(Lines \cup Taken \cup Queued \cup Offered, {Stamp("line", sent + 1)})

(* While the tool runs every line is on its way, in the log or given up, and *)
(* what was given up is nowhere else.                                      *)
LineIds(S) == {e.id : e \in {f \in S : f.what = "line"}}
Somewhere == Lines \cup Taken \cup Queued \cup Offered

PlaceInv ==
    /\ dropped \subseteq 1..sent
    /\ dropped \cap LineIds(Somewhere) = {}
    /\ Running => 1..sent \subseteq dropped \cup LineIds(Somewhere)

(* The log is in order, and its markers are older than the one to be written. *)
Markers == {e \in ToSet(log) : e.what = "marker"}

LogInv ==
    /\ InOrder(log)
    /\ \A e \in Markers : e.stamp <= clock /\ (key = "write" => e.stamp < mark.stamp)
    /\ key = "write" => mark.stamp <= clock

(* The screen and the log agree, but for the line in hand.                 *)
FedInv ==
    /\ main \in {"check", "drain", "log"} => Shows(fed)
    /\ FedIsLogged

Inv == /\ TypeOK /\ ClockInv /\ HeldInv
       /\ OrderInv /\ PlaceInv /\ LogInv /\ FedInv /\ MarkersLogged

-----------------------------------------------------------------------------
(* A sequence that grows by an entry, or gives up its first one.           *)
LEMMA SetOfAppend ==
    ASSUME NEW S, NEW s \in Seq(S), NEW e \in S
    PROVE  ToSet(Append(s, e)) = ToSet(s) \cup {e}
<1>1. /\ DOMAIN s = 1..Len(s) /\ Len(s) \in Nat
      /\ DOMAIN Append(s, e) = 1..(Len(s) + 1)
      /\ \A i \in 1..Len(s) : Append(s, e)[i] = s[i]
      /\ Append(s, e)[Len(s) + 1] = e
  BY AppendProperties
<1>2. 1..(Len(s) + 1) = 1..Len(s) \cup {Len(s) + 1}
  BY <1>1
<1> QED
  BY <1>1, <1>2 DEF ToSet

(* The set of a sequence is its head and the set of its tail.              *)
LEMMA SetOfTail ==
    ASSUME NEW S, NEW s \in Seq(S), s # <<>>
    PROVE  /\ Head(s) \in S /\ Tail(s) \in Seq(S)
           /\ Len(Tail(s)) = Len(s) - 1 /\ Len(s) \in Nat \ {0}
           /\ Head(s) = s[1] /\ \A i \in 1..Len(Tail(s)) : Tail(s)[i] = s[i + 1]
           /\ ToSet(s) = {Head(s)} \cup ToSet(Tail(s))
<1>1. /\ Head(s) \in S /\ Tail(s) \in Seq(S)
      /\ Len(Tail(s)) = Len(s) - 1 /\ Len(s) \in Nat \ {0}
      /\ Head(s) = s[1] /\ \A i \in 1..Len(Tail(s)) : Tail(s)[i] = s[i + 1]
  BY HeadTailProperties
<1>2. DOMAIN s = 1..Len(s) /\ DOMAIN Tail(s) = 1..(Len(s) - 1)
  BY <1>1
<1>3. \A i \in 1..Len(s) : i = 1 \/ i - 1 \in 1..(Len(s) - 1)
  BY <1>1
<1>4. 1 \in 1..Len(s) /\ \A i \in 1..(Len(s) - 1) : i + 1 \in 1..Len(s)
  BY <1>1
<1>5. ASSUME NEW i \in 1..Len(s) PROVE s[i] \in {Head(s)} \cup ToSet(Tail(s))
  <2>1. CASE i = 1
    BY <1>1, <2>1
  <2>2. CASE i # 1
    <3>1. i - 1 \in 1..(Len(s) - 1) /\ (i - 1) + 1 = i
      BY <1>1, <1>3, <2>2
    <3>2. Tail(s)[i - 1] = s[i]
      BY <1>1, <3>1
    <3> QED
      BY <1>2, <3>1, <3>2 DEF ToSet
  <2> QED
    BY <2>1, <2>2
<1>6. {Head(s)} \cup ToSet(Tail(s)) \subseteq ToSet(s)
  BY <1>1, <1>2, <1>4 DEF ToSet
<1> QED
  BY <1>1, <1>2, <1>5, <1>6 DEF ToSet

(* The entries of a sequence are in its set, and no others.                *)
LEMMA EntriesOf ==
    ASSUME NEW S, NEW s \in Seq(S)
    PROVE  /\ ToSet(s) \subseteq S
           /\ \A i \in 1..Len(s) : s[i] \in ToSet(s)
           /\ \A e \in ToSet(s) : \E i \in 1..Len(s) : s[i] = e
  BY DEF ToSet

(* What the key thread reads leaves one key less, and takes one stamp at most. *)
LEMMA ReadKeyStep ==
    ASSUME tty \in Seq(Keys), buf \in Seq(Keys), ReadKey
    PROVE  /\ tty' \in Seq(Keys) /\ buf' \in Seq(Keys)
           /\ Len(tty') + Len(buf') = Len(tty) + Len(buf) - 1
           /\ Len(tty) \in Nat /\ Len(buf) \in Nat
           /\ Len(tty') \in Nat /\ Len(buf') \in Nat
<1>1. Len(tty) \in Nat /\ Len(buf) \in Nat /\ <<>> \in Seq(Keys) /\ Len(<<>>) = 0
  OBVIOUS
<1>2. CASE buf = <<>>
  <2>1. tty # <<>> /\ tty' = <<>> /\ buf' = Tail(tty)
    BY <1>2 DEF ReadKey
  <2>2. Tail(tty) \in Seq(Keys) /\ Len(Tail(tty)) = Len(tty) - 1 /\ Len(tty) \in Nat \ {0}
    BY <2>1, SetOfTail
  <2> QED
    BY <1>1, <1>2, <2>1, <2>2
<1>3. CASE buf # <<>>
  <2>1. tty' = tty /\ buf' = Tail(buf)
    BY <1>3 DEF ReadKey
  <2>2. Tail(buf) \in Seq(Keys) /\ Len(Tail(buf)) = Len(buf) - 1 /\ Len(buf) \in Nat \ {0}
    BY <1>3, SetOfTail
  <2> QED
    BY <1>1, <2>1, <2>2
<1> QED
  BY <1>2, <1>3

-----------------------------------------------------------------------------
(* The parts of the type invariant.                                        *)
Flags == {terminal, stop, crashed, open} \subseteq BOOLEAN
Places == /\ reader \in {"read", "put", "fail", "stop", "gone"}
          /\ main \in {"check", "drain", "log", "feed", "close", "gone"}
          /\ key \in {"start", "poll", "select", "write", "gone"}
Numbers == /\ bad \in 0..MaxLines /\ note \in 0..MaxLines
           /\ sent \in 0..MaxLines /\ pressed \in 0..MaxPresses
           /\ clock \in 0..(MaxLines + MaxPresses + 1)
Held == {item, hand, mark} \subseteq Entry \cup {None}
Kept == /\ queue \in Seq(Entry) /\ Len(queue) <= QueueMax
        /\ fed \in Seq(Entry) /\ markers \in Seq(Entry)
        /\ log \in Seq(Entry) /\ dropped \subseteq 1..MaxLines
Typed == tty \in Seq(Keys) /\ buf \in Seq(Keys)

(* The type invariant is the conjunction of its parts.                     *)
LEMMA TypeParts == TypeOK <=> Flags /\ Places /\ Numbers /\ Held /\ Kept /\ Typed
<1>1. Flags <=> terminal \in BOOLEAN /\ stop \in BOOLEAN /\ crashed \in BOOLEAN /\ open \in BOOLEAN
  BY DEF Flags
<1> QED
  BY <1>1 DEF TypeOK, Places, Numbers, Held, Kept, Typed

(* The stamps do not run out: each is taken for a line that was sent, a key *)
(* that was pressed, or the error of the port.                             *)
LEMMA ClockKept == TypeOK /\ ClockInv /\ [Next]_vars => ClockInv' /\ Numbers'
<1> SUFFICES ASSUME TypeOK, ClockInv, [Next]_vars PROVE ClockInv' /\ Numbers'
  OBVIOUS
<1>c. MaxLines \in Nat /\ MaxPresses \in Nat
  BY InputAssumption
<1>t. /\ reader \in {"read", "put", "fail", "stop", "gone"}
      /\ tty \in Seq(Keys) /\ buf \in Seq(Keys)
      /\ Len(tty) \in Nat /\ Len(buf) \in Nat
      /\ bad \in 0..MaxLines /\ note \in 0..MaxLines
      /\ sent \in 0..MaxLines /\ pressed \in 0..MaxPresses
      /\ clock \in 0..(MaxLines + MaxPresses + 1)
  BY DEF TypeOK
<1>1. CASE ReaderYields
  BY <1>1, <1>c, <1>t DEF ReaderYields, ClockInv, Numbers, mesh, keyVars, input
<1>2. CASE UNCHANGED <<bad, note, clock, sent, pressed, tty, buf>> /\ reader \notin {"stop",
                       "gone"}
  <2>1. Numbers'
    BY <1>2, <1>t DEF Numbers
  <2> QED
    BY <1>2, <1>c, <1>t, <2>1 DEF ClockInv
<1>3. CASE /\ UNCHANGED <<bad, note, clock, sent, pressed, tty, buf>>
           /\ reader' = "gone" \/ reader' = reader
  <2>1. Numbers'
    BY <1>3, <1>t DEF Numbers
  <2> QED
    BY <1>3, <1>c, <1>t, <2>1 DEF ClockInv
<1>4. CASE ReaderPutsError
  BY <1>4, <1>c, <1>t DEF ReaderPutsError, ClockInv, Numbers, mesh, keyVars, input
<1>5. ASSUME NEW k \in Keys, PressKey(k) PROVE ClockInv' /\ Numbers'
  <2>1. Len(tty') \in {Len(tty), Len(tty) + 1}
    BY <1>5, <1>t DEF PressKey
  <2> QED
    BY <1>5, <1>c, <1>t, <2>1 DEF PressKey, ClockInv, Numbers, input, readerVars
<1>6. CASE ReadKey
  <2>1. /\ Len(tty') + Len(buf') = Len(tty) + Len(buf) - 1
        /\ Len(tty') \in Nat /\ Len(buf') \in Nat
    BY <1>6, <1>t, ReadKeyStep
  <2>2. clock' \in {clock, clock + 1} /\ UNCHANGED <<bad, note, sent, reader, pressed>>
    BY <1>6 DEF ReadKey, input, readerVars
  <2>3. clock' \in 0..(MaxLines + MaxPresses + 1)
    BY <1>c, <1>t, <2>1, <2>2 DEF ClockInv
  <2> QED
    BY <1>c, <1>t, <2>1, <2>2, <2>3 DEF ClockInv, Numbers
<1>7. CASE ReaderPuts \/ ReaderDrops \/ SourceEnds
  BY <1>2, <1>7, <1>t DEF ReaderPuts, ReaderDrops, SourceEnds, input, mesh, keyVars
<1>8. CASE ReaderStops \/ Exit
  BY <1>3, <1>8 DEF ReaderStops, Exit, input, mesh, keyVars
<1>9. CASE \/ Check \/ Drain \/ Log \/ Feed \/ Interrupt \/ Close \/ KeyStart \/ WriteMarker
           \/ KeyChecks \/ KeyTimeout \/ UNCHANGED vars
  BY <1>3, <1>9 DEF Check, Drain, Log, Feed, Interrupt, Close, KeyStart, WriteMarker,
     KeyChecks, KeyTimeout,
     vars, input, mesh, keyVars, readerVars
<1> QED
  BY <1>1, <1>4, <1>5, <1>6, <1>7, <1>8, <1>9 DEF Next, Reader, Put, Main, Key

(* The line stamped next is an entry, and so are the error of the port and *)
(* the marker of a key.                                                    *)
LEMMA StampIsEntry ==
    ASSUME TypeOK, ClockInv
    PROVE  /\ reader = "read" /\ sent < MaxLines => Stamp("line", sent + 1) \in Entry
           /\ reader = "fail" => Stamp("error", 0) \in Entry
           /\ tty # <<>> => Stamp("marker", 0) \in Entry
<1>1. /\ MaxLines \in Nat /\ MaxPresses \in Nat /\ clock \in Nat /\ sent \in 0..MaxLines
      /\ pressed \in 0..MaxPresses /\ Len(tty) \in Nat /\ Len(buf) \in Nat
  BY InputAssumption DEF TypeOK
<1>2. reader \in {"read", "fail"} => clock + 1 \in 1..(MaxLines + MaxPresses + 1)
  BY <1>1 DEF ClockInv
<1>5. tty # <<>> => clock + 1 \in 1..(MaxLines + MaxPresses + 1)
  <2> SUFFICES ASSUME tty # <<>> PROVE clock + 1 \in 1..(MaxLines + MaxPresses + 1)
    OBVIOUS
  <2>1. Len(tty) \in Nat \ {0}
    BY SetOfTail DEF TypeOK
  <2> QED
    BY <1>1, <2>1 DEF ClockInv
<1>3. sent < MaxLines => sent + 1 \in 0..MaxLines
  BY <1>1
<1>4. 0 \in 0..MaxLines
  BY <1>1
<1> QED
  BY <1>2, <1>3, <1>4, <1>5 DEF Stamp, Entry

(* What is passed on is what was taken over, and it is a line or the error. *)
LEMMA HeldKept ==
    TypeOK /\ ClockInv /\ HeldInv /\ [Next]_vars => HeldInv' /\ Held' /\ Kept'
<1> SUFFICES ASSUME TypeOK, ClockInv, HeldInv, [Next]_vars PROVE HeldInv' /\ Held' /\ Kept'
  OBVIOUS
<1>c. MaxLines \in Nat /\ MaxPresses \in Nat
  BY InputAssumption
<1>t. /\ queue \in Seq(Entry) /\ Len(queue) <= QueueMax /\ fed \in Seq(Entry)
      /\ log \in Seq(Entry) /\ dropped \subseteq 1..MaxLines
      /\ markers \in Seq(Entry) /\ None \in Entry \cup {None}
      /\ item \in Entry \cup {None} /\ hand \in Entry \cup {None}
      /\ mark \in Entry \cup {None}
      /\ sent \in 0..MaxLines /\ QueueMax \in Nat /\ Len(queue) \in Nat
  BY QueueAssumption DEF TypeOK
<1>1. CASE ReaderYields
  <2>1. /\ reader = "read" /\ sent < MaxLines /\ sent' = sent + 1
        /\ item' = Stamp("line", sent + 1)
        /\ UNCHANGED <<dropped, queue, main, hand, crashed, fed, key, mark, markers, log, open>>
    BY <1>1 DEF ReaderYields, mainVars, mesh, keyVars, logVars
  <2>2. item' \in Entry /\ item'.what = "line" /\ item'.id = sent'
    BY <2>1, StampIsEntry DEF Stamp
  <2> QED
    BY <1>t, <2>1, <2>2 DEF HeldInv, Held, Kept
<1>2. CASE ReaderPuts
  <2>1. /\ item \in Entry /\ item.what = "line" /\ Len(queue) < QueueMax
        /\ queue' = Append(queue, item) /\ reader' = "read"
        /\ UNCHANGED <<item, dropped, main, hand, crashed, fed, key, mark, markers, log, open>>
    BY <1>2 DEF ReaderPuts, HeldInv, mainVars, mesh, keyVars, logVars
  <2>2. queue' \in Seq(Entry) /\ Len(queue') <= QueueMax /\ ToSet(queue') = ToSet(queue) \cup {item}
    BY <1>t, <2>1, SetOfAppend, AppendProperties
  <2> QED
    BY <1>t, <2>1, <2>2 DEF HeldInv, Held, Kept
<1>3. CASE ReaderDrops
  <2>1. /\ item.id = sent /\ sent > 0 /\ dropped' = dropped \cup {item.id} /\ reader' = "read"
        /\ UNCHANGED <<item, queue, main, hand, crashed, fed, key, mark, markers, log, open>>
    BY <1>3 DEF ReaderDrops, HeldInv, mainVars, mesh, keyVars, logVars
  <2>2. dropped' \subseteq 1..MaxLines
    BY <1>c, <1>t, <2>1
  <2> QED
    BY <1>t, <2>1, <2>2 DEF HeldInv, Held, Kept
<1>4. CASE SourceEnds \/ ReaderStops
  <2>1. /\ reader' # "put"
        /\ UNCHANGED <<item, dropped, queue, main, hand, crashed, fed, key, mark, markers,
                       log, open>>
    BY <1>4 DEF SourceEnds, ReaderStops, mainVars, mesh, keyVars, logVars
  <2> QED
    BY <1>t, <2>1 DEF HeldInv, Held, Kept
<1>5. CASE ReaderPutsError
  <2>1. /\ reader = "fail" /\ Len(queue) < QueueMax /\ reader' = "stop"
        /\ queue' = Append(queue, Stamp("error", 0))
        /\ UNCHANGED <<item, dropped, main, hand, crashed, fed, key, mark, markers, log, open>>
    BY <1>5 DEF ReaderPutsError, mainVars, mesh, keyVars, logVars
  <2>2. Stamp("error", 0) \in Entry /\ Stamp("error", 0).what # "marker"
    BY <2>1, StampIsEntry DEF Stamp
  <2>3. /\ queue' \in Seq(Entry) /\ Len(queue') <= QueueMax
        /\ ToSet(queue') = ToSet(queue) \cup {Stamp("error", 0)}
    BY <1>t, <2>1, <2>2, SetOfAppend, AppendProperties
  <2> QED
    BY <1>t, <2>1, <2>2, <2>3 DEF HeldInv, Held, Kept
<1>6. CASE Check \/ Interrupt
  <2>1. /\ main' \in {"close", "drain"} /\ main \notin {"close", "gone"}
        /\ UNCHANGED <<sent, reader, item, dropped, queue, hand, crashed, fed, key, mark,
                       markers, log, open>>
    BY <1>6 DEF Check, Interrupt, readerVars, mesh, keyVars, logVars
  <2> QED
    BY <1>t, <2>1 DEF HeldInv, Held, Kept
<1>7. CASE Drain
  <2>1. UNCHANGED <<sent, reader, item, dropped, crashed, fed, key, mark, markers, log,
                    open>> /\ main = "drain"
    BY <1>7 DEF Drain, readerVars, mesh, keyVars, logVars
  <2>2. CASE queue = <<>>
    <3>1. main' = "check" /\ UNCHANGED <<queue, hand>>
      BY <1>7, <2>2 DEF Drain
    <3> QED
      BY <1>t, <2>1, <3>1 DEF HeldInv, Held, Kept
  <2>3. CASE queue # <<>>
    <3>1. main' = "log" /\ hand' = Head(queue) /\ queue' = Tail(queue)
      BY <1>7, <2>3 DEF Drain
    <3>2. /\ hand' \in Entry /\ queue' \in Seq(Entry) /\ Len(queue') <= QueueMax
          /\ ToSet(queue) = {hand'} \cup ToSet(queue')
      BY <1>t, <2>3, <3>1, SetOfTail
    <3> QED
      BY <1>t, <2>1, <3>1, <3>2 DEF HeldInv, Held, Kept
  <2> QED
    BY <2>2, <2>3
<1>8. CASE Log
  <2>1. /\ main = "log" /\ main' = "feed" /\ log' = Append(log, hand)
        /\ UNCHANGED <<sent, reader, item, dropped, queue, hand, crashed, fed, key, mark,
                       markers, open>>
    BY <1>8 DEF Log, readerVars, mesh, keyVars
  <2>2. log' \in Seq(Entry)
    BY <1>t, <2>1, AppendProperties DEF HeldInv
  <2> QED
    BY <1>t, <2>1, <2>2 DEF HeldInv, Held, Kept
<1>9. CASE Feed
  <2>1. /\ main = "feed"
        /\ UNCHANGED <<sent, reader, item, dropped, queue, hand, key, mark, log, open>>
        /\ \/ main' = "close" /\ fed' = fed /\ markers' = markers
           \/ /\ main' = "drain" /\ fed' = Append(fed, hand) /\ crashed' = crashed
              /\ markers' \in {markers, Append(markers, hand)}
    BY <1>9 DEF Feed, mesh, readerVars, keyVars, logVars
  <2>2. /\ fed' \in Seq(Entry) /\ markers' \in Seq(Entry)
        /\ ToSet(markers) \subseteq ToSet(markers')
    <3>1. hand \in Entry
      BY <2>1 DEF HeldInv
    <3>2. Append(fed, hand) \in Seq(Entry) /\ Append(markers, hand) \in Seq(Entry)
      BY <1>t, <3>1, AppendProperties
    <3>3. ToSet(Append(markers, hand)) = ToSet(markers) \cup {hand}
      BY <1>t, <3>1, SetOfAppend
    <3> QED
      BY <1>t, <2>1, <3>2, <3>3
  <2>3. Held' /\ Kept'
    BY <1>t, <2>1, <2>2 DEF Held, Kept
  <2>4. crashed' => main' \in {"close", "gone"}
    BY <2>1 DEF HeldInv
  <2> QED
    BY <2>1, <2>2, <2>3, <2>4 DEF HeldInv
<1>10. CASE Close
  <2>1. /\ main' = "gone" /\ ~open'
        /\ UNCHANGED <<sent, reader, item, dropped, queue, hand, crashed, fed, key, mark,
                       markers, log>>
    BY <1>10 DEF Close, readerVars, mesh, keyVars
  <2> QED
    BY <1>t, <2>1 DEF HeldInv, Held, Kept
<1>11. CASE Exit
  <2>1. /\ reader' = "gone" /\ key' = "gone" /\ mark' = None
        /\ UNCHANGED <<item, dropped, queue, main, hand, crashed, fed, markers, log, open>>
    BY <1>11 DEF Exit, mainVars, mesh, logVars
  <2> QED
    BY <1>t, <2>1 DEF HeldInv, Held, Kept
<1>12. CASE KeyStart \/ KeyChecks \/ KeyTimeout \/ \E k \in Keys : PressKey(k)
  <2>1. /\ key' # "write" \/ key' = key
        /\ UNCHANGED <<sent, reader, item, dropped, queue, main, hand, crashed, fed, mark,
                       markers, log, open>>
    BY <1>12 DEF KeyStart, KeyChecks, KeyTimeout, PressKey, readerVars, mainVars, mesh, logVars
  <2> QED
    BY <1>t, <2>1 DEF HeldInv, Held, Kept
<1>13. CASE ReadKey
  <2> DEFINE m == Stamp("marker", 0)
  <2>1. /\ UNCHANGED <<sent, reader, item, dropped, queue, main, hand, crashed, fed, log, open>>
        /\ \/ key' = "poll" /\ UNCHANGED <<mark, markers>>
           \/ key' = "write" /\ mark' = m /\ markers' = Append(markers, m)
    BY <1>13 DEF ReadKey, readerVars, mainVars, logVars
  <2>2. m \in Entry /\ m.what = "marker"
    BY <1>13, StampIsEntry DEF ReadKey, Stamp
  <2> HIDE DEF m
  <2>3. Append(markers, m) \in Seq(Entry) /\ ToSet(Append(markers, m)) = ToSet(markers) \cup {m}
    BY <1>t, <2>2, AppendProperties, SetOfAppend
  <2> QED
    BY <1>t, <2>1, <2>2, <2>3 DEF HeldInv, Held, Kept
<1>14. CASE WriteMarker
  <2>1. /\ key = "write" /\ key' # "write" /\ mark' = None
        /\ log' = Append(log, mark) \/ log' = log
        /\ UNCHANGED <<sent, reader, item, dropped, queue, main, hand, crashed, fed, markers,
                       open>>
    BY <1>14 DEF WriteMarker, readerVars, mainVars, mesh
  <2>2. log' \in Seq(Entry)
    <3>1. mark \in Entry
      BY <2>1 DEF HeldInv
    <3>2. Append(log, mark) \in Seq(Entry)
      BY <1>t, <3>1, AppendProperties
    <3> QED
      BY <1>t, <2>1, <3>2
  <2> QED
    BY <1>t, <2>1, <2>2 DEF HeldInv, Held, Kept
<1>15. CASE UNCHANGED vars
  BY <1>15, <1>t DEF vars, readerVars, mainVars, mesh, keyVars, logVars, HeldInv, Held, Kept
<1> QED
  BY <1>1, <1>2, <1>3, <1>4, <1>5, <1>6, <1>7, <1>8, <1>9, <1>10, <1>11, <1>12, <1>13, <1>14,
     <1>15 DEF Next, Reader, Put, Main, Key

(* The places of the threads, the flags and the keys keep their types.     *)
LEMMA PlacesKept == TypeOK /\ ClockInv /\ [Next]_vars => Flags' /\ Places' /\ Typed'
<1> SUFFICES ASSUME TypeOK, ClockInv, [Next]_vars PROVE Flags' /\ Places' /\ Typed'
  OBVIOUS
<1>1. Places'
  <2>1. Places
    BY TypeParts
  <2> QED
    BY <2>1 DEF Places, Next, Reader, Put, Main, Key, ReaderYields, ReaderPuts, ReaderDrops,
                SourceEnds, ReaderPutsError, ReaderStops, Check, Drain, Log, Feed, Interrupt,
                Close, Exit, PressKey, KeyStart, ReadKey, WriteMarker, KeyChecks, KeyTimeout,
                vars, input,
                readerVars, mainVars, mesh, keyVars, logVars
<1>2. Flags'
  <2>1. terminal \in BOOLEAN /\ stop \in BOOLEAN /\ crashed \in BOOLEAN /\ open \in BOOLEAN
    BY DEF TypeOK
  <2> QED
    BY <2>1 DEF Flags, Next, Reader, Put, Main, Key, ReaderYields, ReaderPuts, ReaderDrops,
                SourceEnds, ReaderPutsError, ReaderStops, Check, Drain, Log, Feed, Interrupt,
                Close, Exit, PressKey, KeyStart, ReadKey, WriteMarker, KeyChecks, KeyTimeout,
                vars, input,
                readerVars, mainVars, mesh, keyVars, logVars
<1>3. Typed'
  <2>1. tty \in Seq(Keys) /\ buf \in Seq(Keys)
    BY DEF TypeOK
  <2>2. CASE ReadKey
    BY <2>1, <2>2, ReadKeyStep DEF Typed
  <2>3. ASSUME NEW k \in Keys, PressKey(k) PROVE Typed'
    <3>1. tty' \in {tty, Append(tty, k)} /\ buf' = buf
      BY <2>3 DEF PressKey
    <3>2. Append(tty, k) \in Seq(Keys)
      BY <2>1, AppendProperties
    <3> QED
      BY <2>1, <3>1, <3>2 DEF Typed
  <2>4. CASE UNCHANGED <<tty, buf>>
    BY <2>1, <2>4 DEF Typed
  <2> QED
    BY <2>2, <2>3, <2>4
       DEF Next, Reader, Put, Main, Key, ReaderYields, ReaderPuts, ReaderDrops, SourceEnds,
           ReaderPutsError, ReaderStops, Check, Drain, Log, Feed, Interrupt, Close, Exit,
           KeyStart, WriteMarker, KeyChecks, KeyTimeout, vars, keyVars
<1> QED
  BY <1>1, <1>2, <1>3

(* The part of the invariant the others build on.                          *)
Base == TypeOK /\ ClockInv /\ HeldInv

(* The tool starts with empty hands.                                       *)
LEMMA BaseInitially == Init => Base
<1> SUFFICES ASSUME Init PROVE Base
  OBVIOUS
<1>1. MaxLines \in Nat /\ MaxPresses \in Nat /\ QueueMax \in Nat
  BY InputAssumption, QueueAssumption
<1>2. /\ Places /\ Held
  BY DEF Init, Places, Held
<1>3. Flags
  BY DEF Init, Flags
<1>4. Numbers /\ Typed
  BY <1>1, InputAssumption DEF Init, Numbers, Typed
<1>5. Kept
  BY <1>1 DEF Init, Kept
<1>6. ClockInv
  BY <1>1 DEF Init, ClockInv
<1>7. HeldInv
  BY DEF Init, HeldInv, ToSet
<1> QED
  BY <1>2, <1>3, <1>4, <1>5, <1>6, <1>7, TypeParts DEF Base

(* Types, stamps and what is held are inductive together.                  *)
LEMMA BaseKept == Base /\ [Next]_vars => Base'
<1> SUFFICES ASSUME Base, [Next]_vars PROVE Base'
  OBVIOUS
<1>1. ClockInv' /\ Numbers'
  BY ClockKept DEF Base
<1>2. HeldInv' /\ Held' /\ Kept'
  BY HeldKept DEF Base
<1>3. Flags' /\ Places' /\ Typed'
  BY PlacesKept DEF Base
<1>4. TypeOK'
  <2>1. (TypeOK <=> Flags /\ Places /\ Numbers /\ Held /\ Kept /\ Typed)'
    BY TypeParts, PTL
  <2> QED
    BY <1>1, <1>2, <1>3, <2>1
<1> QED
  BY <1>1, <1>2, <1>4 DEF Base

(* Types, stamps and what is held, in every state of the tool.             *)
THEOREM BaseCorrect == Spec => []Base
  BY BaseInitially, BaseKept, PTL DEF Spec

-----------------------------------------------------------------------------
(* Everything on its way is an entry.                                      *)
LEMMA FlowType ==
    ASSUME Base
    PROVE  /\ Lines \subseteq Entry /\ Taken \subseteq Entry /\ Queued \subseteq Entry
           /\ Offered \subseteq Entry
           /\ \A e \in Entry : e.stamp \in Nat /\ e.id \in Nat
           /\ clock \in Nat /\ sent \in Nat
<1>1. Lines \subseteq Entry /\ Queued \subseteq Entry
  BY EntriesOf DEF Base, TypeOK, Lines, Queued
<1>2. Taken \subseteq Entry /\ Offered \subseteq Entry
  BY DEF Base, HeldInv, Taken, Offered
<1>3. \A e \in Entry : e.stamp \in Nat /\ e.id \in Nat
  BY InputAssumption DEF Entry
<1> QED
  BY <1>1, <1>2, <1>3, InputAssumption DEF Base, TypeOK

(* What an append to the log adds to its lines and to its markers.         *)
LEMMA LinesAppended ==
    ASSUME log \in Seq(Entry), NEW e \in Entry, log' = Append(log, e)
    PROVE  /\ Lines' = IF e.what = "marker" THEN Lines ELSE Lines \cup {e}
           /\ Markers' = IF e.what = "marker" THEN Markers \cup {e} ELSE Markers
<1>1. ToSet(log') = ToSet(log) \cup {e}
  BY SetOfAppend
<1> QED
  BY <1>1 DEF Lines, Markers

(* Where each step that moves a line takes it from, and where it puts it.  *)
LEMMA YieldFlow ==
    ASSUME Base, ReaderYields
    PROVE  /\ sent' = sent + 1 /\ clock' = clock + 1 /\ queue' = queue /\ Offered = {}
           /\ Lines' = Lines /\ Taken' = Taken /\ Queued' = Queued
           /\ Offered' = IF stop THEN {} ELSE {Stamp("line", sent + 1)}
<1>1. /\ reader = "read" /\ item' = Stamp("line", sent + 1)
      /\ reader' = IF stop THEN "gone" ELSE "put"
      /\ UNCHANGED <<log, main, hand, queue>>
      /\ clock' = clock + 1 /\ sent' = sent + 1
  BY DEF ReaderYields, mainVars, mesh, logVars
<1> QED
  BY <1>1 DEF Lines, Taken, Queued, Offered

(* The reader queues the line it holds.                                    *)
LEMMA PutFlow ==
    ASSUME Base, ReaderPuts
    PROVE  /\ sent' = sent /\ clock' = clock /\ queue' = Append(queue, item)
           /\ Lines' = Lines /\ Taken' = Taken /\ Queued' = Queued \cup {item}
           /\ Offered = {item} /\ Offered' = {} /\ item \in Entry
<1>1. /\ reader = "put" /\ reader' = "read" /\ queue' = Append(queue, item)
      /\ UNCHANGED <<log, main, hand, clock, sent>>
  BY DEF ReaderPuts, mainVars, mesh, logVars
<1>2. item \in Entry /\ queue \in Seq(Entry)
  BY <1>1 DEF Base, TypeOK, HeldInv
<1>3. Queued' = Queued \cup {item}
  BY <1>1, <1>2, SetOfAppend DEF Queued
<1> QED
  BY <1>1, <1>2, <1>3 DEF Lines, Taken, Offered

(* The reader queues the error of the port, which is no line.              *)
LEMMA ErrorFlow ==
    ASSUME Base, ReaderPutsError
    PROVE  /\ sent' = sent /\ clock' = clock + 1 /\ queue' = Append(queue, Stamp("error", 0))
           /\ Lines' = Lines /\ Taken' = Taken /\ Queued' = Queued \cup {Stamp("error", 0)}
           /\ Offered = {} /\ Offered' = {} /\ Stamp("error", 0) \in Entry
<1>1. /\ reader = "fail" /\ reader' = "stop" /\ queue' = Append(queue, Stamp("error", 0))
      /\ UNCHANGED <<log, main, hand, sent>> /\ clock' = clock + 1
  BY DEF ReaderPutsError, mainVars, mesh, logVars
<1>2. Stamp("error", 0) \in Entry /\ queue \in Seq(Entry)
  BY <1>1, StampIsEntry DEF Base, TypeOK
<1>3. Queued' = Queued \cup {Stamp("error", 0)}
  BY <1>1, <1>2, SetOfAppend DEF Queued
<1> QED
  BY <1>1, <1>2, <1>3 DEF Lines, Taken, Offered

(* The main thread takes the head of the queue.                            *)
LEMMA DrainFlow ==
    ASSUME Base, Drain, queue # <<>>
    PROVE  /\ sent' = sent /\ clock' = clock /\ queue' = Tail(queue) /\ hand' = Head(queue)
           /\ Lines' = Lines /\ Taken = {} /\ Taken' = {hand'}
           /\ Queued = {hand'} \cup Queued' /\ Offered' = Offered
<1>1. /\ main = "drain" /\ main' = "log" /\ hand' = Head(queue) /\ queue' = Tail(queue)
      /\ UNCHANGED <<log, reader, item, clock, sent>>
  BY DEF Drain, readerVars, logVars
<1>2. Queued = {hand'} \cup Queued'
  BY <1>1, SetOfTail DEF Queued, Base, TypeOK
<1> QED
  BY <1>1, <1>2 DEF Lines, Taken, Offered

(* The main thread logs the line it took.                                  *)
LEMMA LogFlow ==
    ASSUME Base, Log
    PROVE  /\ sent' = sent /\ clock' = clock /\ queue' = queue
           /\ Lines' = Lines \cup {hand} /\ Taken = {hand} /\ Taken' = {}
           /\ Queued' = Queued /\ Offered' = Offered /\ Markers' = Markers
           /\ hand \in Entry /\ hand.what # "marker"
<1>1. /\ main = "log" /\ main' = "feed" /\ log' = Append(log, hand)
      /\ UNCHANGED <<queue, reader, item, clock, sent>>
  BY DEF Log, readerVars
<1>2. hand \in Entry /\ hand.what # "marker" /\ log \in Seq(Entry)
  BY <1>1 DEF Base, TypeOK, HeldInv
<1>3. Lines' = Lines \cup {hand} /\ Markers' = Markers
  BY <1>1, <1>2, LinesAppended
<1> QED
  BY <1>1, <1>2, <1>3 DEF Taken, Queued, Offered

(* The key thread writes its marker if the log is open.                    *)
LEMMA MarkerFlow ==
    ASSUME Base, WriteMarker
    PROVE  /\ sent' = sent /\ clock' = clock /\ queue' = queue
           /\ Lines' = Lines /\ Taken' = Taken /\ Queued' = Queued /\ Offered' = Offered
           /\ mark \in Entry /\ mark.what = "marker" /\ mark \in ToSet(markers)
           /\ \/ ~open /\ log' = log
              \/ /\ log' = Append(log, mark)
                 /\ Markers' = Markers \cup {mark}
<1>1. /\ key = "write"
      /\ (~open /\ log' = log) \/ log' = Append(log, mark)
      /\ UNCHANGED <<queue, reader, item, main, hand, clock, sent>>
  BY DEF WriteMarker, readerVars, mainVars
<1>2. mark \in Entry /\ mark.what = "marker" /\ mark \in ToSet(markers)
  BY <1>1 DEF Base, HeldInv
<1>3. log \in Seq(Entry)
  BY DEF Base, TypeOK
<1>4. CASE log' = log
  BY <1>1, <1>2, <1>4 DEF Lines, Taken, Queued, Offered
<1>5. CASE log' = Append(log, mark)
  <2>1. Lines' = Lines /\ Markers' = Markers \cup {mark}
    BY <1>2, <1>3, <1>5, LinesAppended
  <2> QED
    BY <1>1, <1>2, <1>5, <2>1 DEF Taken, Queued, Offered
<1> QED
  BY <1>1, <1>4, <1>5

(* A queue that grows by what is younger than everything in it stays in order. *)
LEMMA QueueGrows ==
    ASSUME queue \in Seq(Entry), NEW e \in Entry, queue' = Append(queue, e),
           QueueInOrder, AllPrecede(Queued, {e})
    PROVE  QueueInOrder'
<1> SUFFICES ASSUME NEW i \in 1..Len(queue'), NEW j \in 1..Len(queue'), i < j
             PROVE  Precedes(queue'[i], queue'[j])
  BY DEF QueueInOrder
<1>1. /\ Len(queue') = Len(queue) + 1 /\ Len(queue) \in Nat
      /\ \A k \in 1..Len(queue) : queue'[k] = queue[k]
      /\ queue'[Len(queue) + 1] = e
  BY AppendProperties
<1>2. i \in 1..Len(queue) /\ (j \in 1..Len(queue) \/ j = Len(queue) + 1)
  BY <1>1
<1>3. CASE j \in 1..Len(queue)
  BY <1>1, <1>2, <1>3 DEF QueueInOrder
<1>4. CASE j = Len(queue) + 1
  <2>1. queue[i] \in Queued
    BY <1>2, EntriesOf DEF Queued
  <2> QED
    BY <1>1, <1>2, <1>4, <2>1 DEF AllPrecede
<1> QED
  BY <1>2, <1>3, <1>4

(* A step that puts nothing on its way keeps the order.                    *)
LEMMA OrderOfFewer ==
    ASSUME Base, OrderInv, clock' \in Nat, clock' >= clock, sent' = sent,
           Lines' = Lines, Taken' \subseteq Taken, queue' = queue, Offered' \subseteq Offered
    PROVE  OrderInv'
<1>1. Queued' = Queued
  BY DEF Queued
<1>2. AllPrecede(Lines \cup Taken \cup Queued \cup Offered, {Stamp("line", sent + 1)'})
  <2> SUFFICES ASSUME NEW a \in Lines \cup Taken \cup Queued \cup Offered
               PROVE  Precedes(a, Stamp("line", sent + 1)')
    BY DEF AllPrecede
  <2>1. a.stamp < clock + 1 /\ (a.what = "line" => a.id < sent + 1)
    BY DEF OrderInv, AllPrecede, Precedes, Stamp
  <2>2. a.stamp \in Nat /\ clock \in Nat
    BY FlowType
  <2> QED
    BY <2>1, <2>2 DEF Precedes, Stamp
<1> QED
  BY <1>1, <1>2 DEF OrderInv, AllPrecede, QueueInOrder

(* A line passes from the reader through the queue to the main thread and  *)
(* into the log, and overtakes nothing.                                    *)
LEMMA OrderKept == Base /\ Base' /\ OrderInv /\ [Next]_vars => OrderInv'
<1> SUFFICES ASSUME Base, Base', OrderInv, [Next]_vars PROVE OrderInv'
  OBVIOUS
<1>t. /\ queue \in Seq(Entry) /\ log \in Seq(Entry) /\ clock \in Nat /\ clock' \in Nat
      /\ sent \in Nat
  BY FlowType, InputAssumption DEF Base, TypeOK
<1>e. Lines \cup Taken \cup Queued \cup Offered \subseteq Entry
  BY FlowType
<1>n. \A e \in Entry : e.stamp \in Nat /\ e.id \in Nat
  BY FlowType
<1>1. CASE ReaderYields
  <2> DEFINE fresh == Stamp("line", sent + 1)
  <2>1. /\ sent' = sent + 1 /\ clock' = clock + 1 /\ queue' = queue
        /\ Lines' = Lines /\ Taken' = Taken /\ Queued' = Queued /\ Offered' \subseteq {fresh}
    BY <1>1, YieldFlow
  <2>2. AllPrecede(Lines \cup Taken \cup Queued, {fresh})
    BY DEF OrderInv, AllPrecede
  <2>3. AllPrecede(Lines \cup Taken \cup Queued \cup {fresh}, {Stamp("line", sent + 1)'})
    <3> SUFFICES ASSUME NEW a \in Lines \cup Taken \cup Queued \cup {fresh}
                 PROVE  Precedes(a, Stamp("line", sent + 1)')
      BY DEF AllPrecede
    <3>1. CASE a = fresh
      BY <1>t, <2>1, <3>1 DEF Precedes, Stamp
    <3>2. CASE a # fresh
      <4>1. a.stamp < clock + 1 /\ (a.what = "line" => a.id < sent + 1)
        BY <2>2, <3>2 DEF AllPrecede, Precedes, Stamp
      <4>2. a.stamp \in Nat /\ a.id \in Nat
        BY <1>e, <1>n, <3>2
      <4> QED
        BY <1>t, <2>1, <4>1, <4>2 DEF Precedes, Stamp
    <3> QED
      BY <3>1, <3>2
  <2> HIDE DEF fresh
  <2> QED
    BY <2>1, <2>2, <2>3 DEF OrderInv, AllPrecede, QueueInOrder
<1>2. CASE ReaderPuts
  <2>1. /\ sent' = sent /\ clock' = clock /\ queue' = Append(queue, item)
        /\ Lines' = Lines /\ Taken' = Taken /\ Queued' = Queued \cup {item}
        /\ Offered = {item} /\ Offered' = {} /\ item \in Entry
    BY <1>2, PutFlow
  <2>2. AllPrecede(Queued, {item})
    BY <2>1 DEF OrderInv, AllPrecede
  <2>3. QueueInOrder'
    BY <1>t, <2>1, <2>2, QueueGrows DEF OrderInv
  <2>4. Stamp("line", sent + 1)' = Stamp("line", sent + 1)
    BY <2>1 DEF Stamp
  <2> QED
    BY <2>1, <2>3, <2>4 DEF OrderInv, AllPrecede
<1>3. CASE ReaderPutsError
  <2> DEFINE e == Stamp("error", 0)
  <2>1. /\ sent' = sent /\ clock' = clock + 1 /\ queue' = Append(queue, e)
        /\ Lines' = Lines /\ Taken' = Taken /\ Queued' = Queued \cup {e}
        /\ Offered = {} /\ Offered' = {} /\ e \in Entry
    BY <1>3, ErrorFlow
  <2>2. e.stamp = clock + 1 /\ e.what = "error"
    BY DEF Stamp
  <2> HIDE DEF e
  <2>3. AllPrecede(Lines \cup Taken \cup Queued, {e})
    BY <2>2 DEF OrderInv, AllPrecede, Precedes, Stamp
  <2>4. QueueInOrder'
    <3>1. AllPrecede(Queued, {e})
      BY <2>3 DEF AllPrecede
    <3> QED
      BY <1>t, <2>1, <3>1, QueueGrows DEF OrderInv
  <2>5. AllPrecede(Lines \cup Taken \cup Queued \cup {e}, {Stamp("line", sent + 1)'})
    <3> SUFFICES ASSUME NEW a \in Lines \cup Taken \cup Queued \cup {e}
                 PROVE  Precedes(a, Stamp("line", sent + 1)')
      BY DEF AllPrecede
    <3>1. CASE a = e
      BY <1>t, <2>1, <2>2, <3>1 DEF Precedes, Stamp
    <3>2. CASE a # e
      <4>1. a.stamp < clock + 1 /\ (a.what = "line" => a.id < sent + 1)
        BY <3>2 DEF OrderInv, AllPrecede, Precedes, Stamp
      <4>2. a.stamp \in Nat /\ a.id \in Nat
        BY <1>e, <1>n, <3>2
      <4> QED
        BY <1>t, <2>1, <4>1, <4>2 DEF Precedes, Stamp
    <3> QED
      BY <3>1, <3>2
  <2> QED
    BY <2>1, <2>3, <2>4, <2>5 DEF OrderInv, AllPrecede
<1>4. CASE Drain /\ queue # <<>>
  <2>1. /\ sent' = sent /\ clock' = clock /\ queue' = Tail(queue) /\ hand' = Head(queue)
        /\ Lines' = Lines /\ Taken = {} /\ Taken' = {hand'}
        /\ Queued = {hand'} \cup Queued' /\ Offered' = Offered
    BY <1>4, DrainFlow
  <2>2. /\ Head(queue) = queue[1] /\ Len(queue) \in Nat \ {0} /\ Len(queue') = Len(queue) - 1
        /\ \A i \in 1..Len(queue') : queue'[i] = queue[i + 1]
        /\ queue' \in Seq(Entry)
    BY <1>4, <1>t, <2>1, SetOfTail
  <2>3. AllPrecede({hand'}, Queued')
    <3> SUFFICES ASSUME NEW b \in Queued' PROVE Precedes(hand', b)
      BY DEF AllPrecede
    <3>1. PICK i \in 1..Len(queue') : queue'[i] = b
      BY <2>2, EntriesOf DEF Queued
    <3>2. queue[i + 1] = b /\ 1 \in 1..Len(queue) /\ i + 1 \in 1..Len(queue) /\ 1 < i + 1
      BY <2>2, <3>1
    <3> QED
      BY <2>1, <2>2, <3>2 DEF OrderInv, QueueInOrder
  <2>4. QueueInOrder'
    <3> SUFFICES ASSUME NEW i \in 1..Len(queue'), NEW j \in 1..Len(queue'), i < j
                 PROVE  Precedes(queue'[i], queue'[j])
      BY DEF QueueInOrder
    <3>1. i + 1 \in 1..Len(queue) /\ j + 1 \in 1..Len(queue) /\ i + 1 < j + 1
      BY <2>2
    <3> QED
      BY <2>2, <3>1 DEF OrderInv, QueueInOrder
  <2>5. Stamp("line", sent + 1)' = Stamp("line", sent + 1)
    BY <2>1 DEF Stamp
  <2> QED
    BY <2>1, <2>3, <2>4, <2>5 DEF OrderInv, AllPrecede
<1>5. CASE Log
  <2>1. /\ sent' = sent /\ clock' = clock /\ queue' = queue
        /\ Lines' = Lines \cup {hand} /\ Taken = {hand} /\ Taken' = {}
        /\ Queued' = Queued /\ Offered' = Offered
    BY <1>5, LogFlow
  <2>2. Stamp("line", sent + 1)' = Stamp("line", sent + 1)
    BY <2>1 DEF Stamp
  <2> QED
    BY <2>1, <2>2 DEF OrderInv, AllPrecede, QueueInOrder
<1>6. CASE WriteMarker
  BY <1>6, <1>t, MarkerFlow, OrderOfFewer
<1>7. CASE ReaderDrops \/ SourceEnds \/ ReaderStops
  <2>1. reader' # "put" /\ UNCHANGED <<log, main, hand, queue, sent, clock>>
    BY <1>7 DEF ReaderDrops, SourceEnds, ReaderStops, mainVars, mesh, logVars
  <2>2. Lines' = Lines /\ Taken' = Taken /\ Offered' = {}
    BY <2>1 DEF Lines, Taken, Offered
  <2> QED
    BY <1>t, <2>1, <2>2, OrderOfFewer
<1>8. CASE Check \/ (Drain /\ queue = <<>>) \/ Feed \/ Interrupt \/ Close
  <2>1. main' # "log" /\ UNCHANGED <<log, reader, item, queue, sent, clock>>
    BY <1>8 DEF Check, Drain, Feed, Interrupt, Close, readerVars, logVars
  <2>2. Lines' = Lines /\ Taken' = {} /\ Offered' = Offered
    BY <2>1 DEF Lines, Taken, Offered
  <2> QED
    BY <1>t, <2>1, <2>2, OrderOfFewer
<1>9. CASE Exit
  <2>1. reader' = "gone" /\ UNCHANGED <<log, main, hand, queue, sent, clock>>
    BY <1>9 DEF Exit, mainVars, mesh, logVars
  <2>2. Lines' = Lines /\ Taken' = Taken /\ Offered' = {}
    BY <2>1 DEF Lines, Taken, Offered
  <2> QED
    BY <1>t, <2>1, <2>2, OrderOfFewer
<1>10. CASE KeyStart \/ KeyChecks \/ KeyTimeout \/ ReadKey
            \/ (\E k \in Keys : PressKey(k)) \/ UNCHANGED vars
  <2>1. clock' \in {clock, clock + 1} /\ UNCHANGED <<log, main, hand, reader, item, queue,
                                                     sent>>
    BY <1>10 DEF KeyStart, KeyChecks, KeyTimeout, ReadKey, PressKey, vars, readerVars,
       mainVars, mesh, logVars
  <2>2. Lines' = Lines /\ Taken' = Taken /\ Offered' = Offered
    BY <2>1 DEF Lines, Taken, Offered
  <2> QED
    BY <1>t, <2>1, <2>2, OrderOfFewer
<1> QED
  BY <1>1, <1>2, <1>3, <1>4, <1>5, <1>6, <1>7, <1>8, <1>9, <1>10
     DEF Next, Reader, Put, Main, Key

-----------------------------------------------------------------------------
(* A tool that is stopped or interrupted stays so.                         *)
LEMMA RunningBefore == [Next]_vars /\ Running' => Running
<1> SUFFICES ASSUME [Next]_vars, Running' PROVE Running
  OBVIOUS
<1>1. CASE UNCHANGED <<main, stop>>
  BY <1>1 DEF Running
<1>2. CASE ReaderStops \/ ReadKey
  BY <1>2 DEF ReaderStops, ReadKey, Running, mainVars, mesh
<1>3. CASE Check \/ Drain \/ Log \/ Feed \/ Interrupt \/ Close
  BY <1>3 DEF Check, Drain, Log, Feed, Interrupt, Close, Running
<1> QED
  BY <1>1, <1>2, <1>3
     DEF Next, Reader, Put, Main, Key, ReaderYields, ReaderPuts, ReaderDrops, SourceEnds,
         ReaderPutsError, Exit, PressKey, KeyStart, WriteMarker, KeyChecks, KeyTimeout, vars,
         mainVars, mesh

(* A step that only moves lines on, or loses one as the tool ends, keeps   *)
(* what is known of where they are.                                        *)
LEMMA PlaceOfSame ==
    ASSUME PlaceInv, [Next]_vars, sent' = sent, dropped' = dropped,
           LineIds(Somewhere)' \subseteq LineIds(Somewhere),
           Running' => LineIds(Somewhere)' = LineIds(Somewhere)
    PROVE  PlaceInv'
  BY RunningBefore DEF PlaceInv

(* No step of the three threads loses a line without a record of it.       *)
LEMMA PlaceKept == Base /\ OrderInv /\ PlaceInv /\ [Next]_vars => PlaceInv'
<1> SUFFICES ASSUME Base, OrderInv, PlaceInv, [Next]_vars PROVE PlaceInv'
  OBVIOUS
<1>t. /\ sent \in Nat /\ Lines \cup Taken \cup Queued \cup Offered \subseteq Entry
      /\ \A e \in Entry : e.stamp \in Nat /\ e.id \in Nat
  BY FlowType
<1>1. CASE ReaderYields
  <2> DEFINE fresh == Stamp("line", sent + 1)
  <2>1. /\ sent' = sent + 1 /\ Offered = {} /\ stop' = stop /\ dropped' = dropped
        /\ Lines' = Lines /\ Taken' = Taken /\ Queued' = Queued
        /\ Offered' = IF stop THEN {} ELSE {fresh}
    BY <1>1, YieldFlow DEF ReaderYields
  <2>2. fresh.what = "line" /\ fresh.id = sent + 1
    BY DEF Stamp
  <2> HIDE DEF fresh
  <2>3. CASE stop
    <3>1. ~Running' /\ Somewhere' = Somewhere
      BY <2>1, <2>3 DEF Running, Somewhere
    <3>2. 1..sent \subseteq 1..sent'
      BY <1>t, <2>1
    <3> QED
      BY <2>1, <3>1, <3>2 DEF PlaceInv, LineIds
  <2>4. CASE ~stop
    <3>1. Somewhere' = Somewhere \cup {fresh}
      BY <2>1, <2>4 DEF Somewhere
    <3>2. LineIds(Somewhere)' = LineIds(Somewhere) \cup {sent + 1}
      BY <2>2, <3>1 DEF LineIds
    <3>3. 1..sent' = 1..sent \cup {sent + 1} /\ sent + 1 \notin 1..sent
      BY <1>t, <2>1
    <3> QED
      BY <2>1, <3>2, <3>3, RunningBefore DEF PlaceInv
  <2> QED
    BY <2>3, <2>4
<1>2. CASE ReaderPuts
  <2>1. Somewhere' = Somewhere /\ sent' = sent
    BY <1>2, PutFlow DEF Somewhere
  <2>2. dropped' = dropped
    BY <1>2 DEF ReaderPuts
  <2> QED
    BY <2>1, <2>2, PlaceOfSame DEF LineIds
<1>3. CASE ReaderDrops
  <2>1. /\ reader = "put" /\ reader' = "read" /\ dropped' = dropped \cup {item.id}
        /\ UNCHANGED <<sent, log, main, hand, queue>>
    BY <1>3 DEF ReaderDrops, mainVars, mesh, logVars
  <2>2. item.what = "line" /\ item.id = sent /\ sent > 0 /\ Offered = {item} /\ Offered' = {}
    BY <2>1 DEF Base, HeldInv, Offered
  <2>3. Lines' = Lines /\ Taken' = Taken /\ Queued' = Queued
    BY <2>1 DEF Lines, Taken, Queued
  <2>4. \A e \in Lines \cup Taken \cup Queued : e.what = "line" => e.id # item.id
    <3> SUFFICES ASSUME NEW e \in Lines \cup Taken \cup Queued, e.what = "line"
                 PROVE  e.id # item.id
      OBVIOUS
    <3>1. e.id < item.id
      BY <2>2 DEF OrderInv, AllPrecede, Precedes
    <3>2. e.id \in Nat
      BY <1>t
    <3> QED
      BY <1>t, <2>2, <3>1, <3>2
  <2>5. Somewhere' = Lines \cup Taken \cup Queued /\ Somewhere = Somewhere' \cup {item}
    BY <2>2, <2>3 DEF Somewhere
  <2>6. LineIds(Somewhere) = LineIds(Somewhere)' \cup {item.id}
    BY <2>2, <2>5 DEF LineIds
  <2>7. item.id \notin LineIds(Somewhere)'
    BY <2>4, <2>5 DEF LineIds
  <2>8. item.id \in 1..sent
    BY <1>t, <2>2
  <2> QED
    BY <2>1, <2>6, <2>7, <2>8, RunningBefore DEF PlaceInv
<1>4. CASE ReaderPutsError
  <2>1. /\ sent' = sent /\ Somewhere' = Somewhere \cup {Stamp("error", 0)}
    BY <1>4, ErrorFlow DEF Somewhere
  <2>2. Stamp("error", 0).what = "error"
    BY DEF Stamp
  <2>3. LineIds(Somewhere)' = LineIds(Somewhere)
    BY <2>1, <2>2 DEF LineIds
  <2>4. dropped' = dropped
    BY <1>4 DEF ReaderPutsError
  <2> QED
    BY <2>1, <2>3, <2>4, PlaceOfSame
<1>5. CASE Drain /\ queue # <<>>
  <2>1. Somewhere' = Somewhere /\ sent' = sent
    BY <1>5, DrainFlow DEF Somewhere
  <2>2. dropped' = dropped
    BY <1>5 DEF Drain, readerVars
  <2> QED
    BY <2>1, <2>2, PlaceOfSame DEF LineIds
<1>6. CASE Log
  <2>1. Somewhere' = Somewhere /\ sent' = sent
    BY <1>6, LogFlow DEF Somewhere
  <2>2. dropped' = dropped
    BY <1>6 DEF Log, readerVars
  <2> QED
    BY <2>1, <2>2, PlaceOfSame DEF LineIds
<1>7. CASE WriteMarker
  <2>1. Somewhere' = Somewhere /\ sent' = sent
    BY <1>7, MarkerFlow DEF Somewhere
  <2>2. dropped' = dropped
    BY <1>7 DEF WriteMarker, readerVars
  <2> QED
    BY <2>1, <2>2, PlaceOfSame DEF LineIds
<1>8. CASE Exit \/ Interrupt
  <2>1. /\ reader' = "gone" \/ UNCHANGED <<reader, item>>
        /\ main' \in {"close", "gone"} /\ (main' = main \/ main' = "close")
        /\ UNCHANGED <<sent, dropped, log, queue, hand>>
    BY <1>8 DEF Exit, Interrupt, mainVars, mesh, readerVars, logVars
  <2>2. /\ Lines' = Lines /\ Queued' = Queued
        /\ Taken' \subseteq Taken /\ Offered' \subseteq Offered
    BY <2>1 DEF Lines, Queued, Taken, Offered
  <2>3. LineIds(Somewhere)' \subseteq LineIds(Somewhere)
    BY <2>2 DEF LineIds, Somewhere
  <2>4. ~Running'
    BY <2>1 DEF Running
  <2> QED
    BY <2>1, <2>3, <2>4, PlaceOfSame
<1>9. CASE SourceEnds \/ ReaderStops
  <2>1. /\ reader # "put" /\ reader' # "put"
        /\ UNCHANGED <<sent, dropped, log, queue, main, hand>>
    BY <1>9 DEF SourceEnds, ReaderStops, mainVars, mesh, logVars
  <2>2. Lines' = Lines /\ Queued' = Queued /\ Taken' = Taken /\ Offered' = Offered
    BY <2>1 DEF Lines, Queued, Taken, Offered
  <2> QED
    BY <2>1, <2>2, PlaceOfSame DEF LineIds, Somewhere
<1>10. CASE Check \/ (Drain /\ queue = <<>>) \/ Feed \/ Close
  <2>1. /\ main # "log" /\ main' # "log"
        /\ UNCHANGED <<sent, dropped, log, queue, reader, item>>
    BY <1>10 DEF Check, Drain, Feed, Close, readerVars, logVars
  <2>2. Lines' = Lines /\ Queued' = Queued /\ Taken' = Taken /\ Offered' = Offered
    BY <2>1 DEF Lines, Queued, Taken, Offered
  <2> QED
    BY <2>1, <2>2, PlaceOfSame DEF LineIds, Somewhere
<1>11. CASE KeyStart \/ KeyChecks \/ KeyTimeout \/ ReadKey
            \/ (\E k \in Keys : PressKey(k)) \/ UNCHANGED vars
  <2>1. UNCHANGED <<sent, dropped, log, queue, reader, item, main, hand>>
    BY <1>11 DEF KeyStart, KeyChecks, KeyTimeout, ReadKey, PressKey, vars, readerVars,
       mainVars, mesh, logVars
  <2>2. Lines' = Lines /\ Queued' = Queued /\ Taken' = Taken /\ Offered' = Offered
    BY <2>1 DEF Lines, Queued, Taken, Offered
  <2> QED
    BY <2>1, <2>2, PlaceOfSame DEF LineIds, Somewhere
<1> QED
  BY <1>1, <1>2, <1>3, <1>4, <1>5, <1>6, <1>7, <1>8, <1>9, <1>10, <1>11
     DEF Next, Reader, Put, Main, Key

-----------------------------------------------------------------------------
(* A sequence in order that grows by an entry younger than those of its kind *)
(* stays in order.                                                         *)
LEMMA InOrderAppend ==
    ASSUME NEW s \in Seq(Entry), NEW e \in Entry, InOrder(s),
           \A x \in ToSet(s) : (x.what = "marker" <=> e.what = "marker") => x.stamp < e.stamp
    PROVE  InOrder(Append(s, e))
<1> DEFINE t == Append(s, e)
<1>1. /\ Len(t) = Len(s) + 1 /\ Len(s) \in Nat
      /\ \A k \in 1..Len(s) : t[k] = s[k]
      /\ t[Len(s) + 1] = e
  BY AppendProperties
<1> HIDE DEF t
<1> SUFFICES ASSUME NEW i \in 1..Len(t), NEW j \in 1..Len(t), i < j,
                    t[i].what = "marker" <=> t[j].what = "marker"
             PROVE  t[i].stamp < t[j].stamp
  BY DEF InOrder, t
<1>2. i \in 1..Len(s) /\ (j \in 1..Len(s) \/ j = Len(s) + 1)
  BY <1>1
<1>3. CASE j \in 1..Len(s)
  BY <1>1, <1>2, <1>3 DEF InOrder
<1>4. CASE j = Len(s) + 1
  <2>1. s[i] \in ToSet(s)
    BY <1>2, EntriesOf
  <2> QED
    BY <1>1, <1>2, <1>4, <2>1
<1> QED
  BY <1>2, <1>3, <1>4

(* A key that is read is the youngest marker, and nothing else is.         *)
LEMMA ReadKeyMarkers ==
    ASSUME Base, ReadKey
    PROVE  /\ log' = log /\ open' = open /\ key = "select"
           /\ \/ key' = "poll" /\ UNCHANGED <<mark, markers, clock>>
              \/ /\ key' = "write" /\ clock' = clock + 1
                 /\ mark'.stamp = clock + 1 /\ ToSet(markers') = ToSet(markers) \cup {mark'}
<1>1. /\ log' = log /\ open' = open /\ key = "select" /\ tty # <<>>
      /\ \/ key' = "poll" /\ UNCHANGED <<mark, markers, clock>>
         \/ /\ key' = "write" /\ clock' = clock + 1
            /\ mark' = Stamp("marker", 0) /\ markers' = Append(markers, Stamp("marker", 0))
  BY DEF ReadKey, logVars
<1>2. Stamp("marker", 0) \in Entry /\ markers \in Seq(Entry)
  BY <1>1, StampIsEntry DEF Base, TypeOK
<1>3. ToSet(Append(markers, Stamp("marker", 0))) = ToSet(markers) \cup {Stamp("marker", 0)}
  BY <1>2, SetOfAppend
<1>4. Stamp("marker", 0).stamp = clock + 1
  BY DEF Stamp
<1> QED
  BY <1>1, <1>3, <1>4

(* The two writers append what is youngest of its kind.                    *)
LEMMA LogKept == Base /\ Base' /\ OrderInv /\ LogInv /\ [Next]_vars => LogInv'
<1> SUFFICES ASSUME Base, Base', OrderInv, LogInv, [Next]_vars PROVE LogInv'
  OBVIOUS
<1>t. log \in Seq(Entry) /\ clock \in Nat /\ clock' \in Nat
  BY InputAssumption DEF Base, TypeOK
<1>m. \A e \in Markers : e \in ToSet(log) /\ e.what = "marker" /\ e.stamp \in Nat
  BY <1>t, EntriesOf, FlowType DEF Markers
<1>1. CASE Log
  <2>1. /\ Markers' = Markers /\ clock' = clock /\ hand \in Entry /\ hand.what # "marker"
        /\ Taken = {hand}
    BY <1>1, LogFlow
  <2>2. log' = Append(log, hand) /\ UNCHANGED <<key, mark>>
    BY <1>1 DEF Log, keyVars
  <2>3. \A x \in ToSet(log) : x.what # "marker" => x.stamp < hand.stamp
    BY <2>1 DEF OrderInv, AllPrecede, Precedes, Lines
  <2>4. InOrder(log')
    BY <1>t, <2>1, <2>2, <2>3, InOrderAppend DEF LogInv
  <2> QED
    BY <2>1, <2>2, <2>4 DEF LogInv
<1>2. CASE WriteMarker
  <2>1. key = "write" /\ key' # "write" /\ clock' = clock
    BY <1>2 DEF WriteMarker
  <2>2. CASE log' = log
    BY <2>1, <2>2 DEF LogInv, Markers
  <2>3. CASE log' = Append(log, mark) /\ Markers' = Markers \cup {mark}
    <3>1. \A x \in ToSet(log) : x.what = "marker" => x.stamp < mark.stamp
      BY <2>1 DEF LogInv, Markers
    <3>2. mark \in Entry /\ mark.what = "marker"
      BY <1>2, MarkerFlow
    <3>3. InOrder(log')
      BY <1>t, <2>3, <3>1, <3>2, InOrderAppend DEF LogInv
    <3>4. mark.stamp <= clock
      BY <2>1 DEF LogInv
    <3> QED
      BY <2>1, <2>3, <3>3, <3>4 DEF LogInv
  <2> QED
    BY <1>2, <2>2, <2>3, MarkerFlow
<1>3. CASE ReadKey
  <2>1. log' = log
    BY <1>3, ReadKeyMarkers
  <2>2. Markers' = Markers
    BY <2>1 DEF Markers
  <2>3. CASE key' = "poll" /\ clock' = clock
    BY <2>1, <2>2, <2>3 DEF LogInv
  <2>4. CASE clock' = clock + 1 /\ mark'.stamp = clock + 1
    <3>1. \A e \in Markers : e.stamp <= clock' /\ e.stamp < mark'.stamp
      BY <1>m, <1>t, <2>4 DEF LogInv
    <3> QED
      BY <1>t, <2>1, <2>2, <2>4, <3>1 DEF LogInv
  <2> QED
    BY <1>3, <2>3, <2>4, ReadKeyMarkers
<1>4. CASE log' = log /\ clock' >= clock /\ (key' # "write" \/ UNCHANGED <<key, mark>>)
  <2>1. Markers' = Markers
    BY <1>4 DEF Markers
  <2>2. key = "write" => mark.stamp \in Nat
    BY FlowType DEF Base, HeldInv
  <2> QED
    BY <1>4, <1>m, <1>t, <2>1, <2>2 DEF LogInv
<1> QED
  BY <1>1, <1>2, <1>3, <1>4, <1>t
     DEF Next, Reader, Put, Main, Key, ReaderYields, ReaderPuts, ReaderDrops, SourceEnds,
         ReaderPutsError, ReaderStops, Check, Drain, Feed, Interrupt, Close, Exit, PressKey,
         KeyStart, KeyChecks, KeyTimeout, vars, keyVars, logVars

(* No marker is missing from an open log but the one being written, and a  *)
(* marker event is in the log before it is on the screen.                  *)
LEMMA MarkersKept ==
    Base /\ Base' /\ LogInv /\ FedInv /\ MarkersLogged /\ [Next]_vars => MarkersLogged'
<1> SUFFICES ASSUME Base, Base', LogInv, FedInv, MarkersLogged, [Next]_vars
             PROVE  MarkersLogged'
  OBVIOUS
<1> DEFINE shown == ToSet(markers) \ (IF key = "write" THEN {mark} ELSE {})
<1>t. log \in Seq(Entry) /\ markers \in Seq(Entry) /\ fed \in Seq(Entry) /\ clock \in Nat
  BY InputAssumption DEF Base, TypeOK
<1>m. open => /\ shown \subseteq ToSet(log)
              /\ \A e \in ToSet(log) : e.what = "marker" => e \in shown
  BY DEF MarkersLogged
<1>p. (open => /\ shown \subseteq ToSet(log)
               /\ \A e \in ToSet(log) : e.what = "marker" => e \in shown)'
        => MarkersLogged'
  BY DEF MarkersLogged
<1>1. CASE Log
  <2>1. hand \in Entry /\ hand.what # "marker"
    BY <1>1, LogFlow
  <2>2. log' = Append(log, hand) /\ UNCHANGED <<key, mark, markers, open>>
    BY <1>1 DEF Log, mesh, keyVars
  <2>3. ToSet(log') = ToSet(log) \cup {hand}
    BY <1>t, <2>1, <2>2, SetOfAppend
  <2> QED
    BY <1>m, <1>p, <2>1, <2>2, <2>3
<1>2. CASE WriteMarker
  <2>1. key = "write" /\ key' # "write" /\ UNCHANGED <<markers, open>>
    BY <1>2 DEF WriteMarker, mesh
  <2>2. CASE ~open
    BY <2>1, <2>2 DEF MarkersLogged
  <2>3. CASE open
    <3>1. log' = Append(log, mark) /\ mark \in Entry /\ mark \in ToSet(markers)
      BY <1>2, <2>3, MarkerFlow
    <3>2. ToSet(log') = ToSet(log) \cup {mark}
      BY <1>t, <3>1, SetOfAppend
    <3> QED
      BY <1>m, <1>p, <2>1, <2>3, <3>1, <3>2
  <2> QED
    BY <2>2, <2>3
<1>3. CASE ReadKey
  <2>1. /\ log' = log /\ open' = open /\ key = "select"
        /\ \/ key' = "poll" /\ UNCHANGED <<mark, markers, clock>>
           \/ /\ key' = "write" /\ clock' = clock + 1
              /\ mark'.stamp = clock + 1 /\ ToSet(markers') = ToSet(markers) \cup {mark'}
    BY <1>3, ReadKeyMarkers
  <2>2. \A e \in ToSet(log) : e.what = "marker" => e.stamp \in Nat /\ e.stamp <= clock
    BY <1>t, EntriesOf, FlowType DEF LogInv, Markers
  <2>3. CASE key' = "poll"
    BY <1>m, <1>p, <2>1, <2>3
  <2>4. CASE key' = "write"
    <3>1. \A e \in ToSet(log) : e.what = "marker" => e # mark'
      BY <1>t, <2>1, <2>2, <2>4
    <3> QED
      BY <1>m, <1>p, <2>1, <2>4, <3>1
  <2> QED
    BY <2>1, <2>3, <2>4
<1>4. CASE Feed
  <2>1. /\ main = "feed" /\ UNCHANGED <<log, open, key, mark>>
        /\ markers' \in {markers, Append(markers, hand)}
    BY <1>4 DEF Feed, mesh, keyVars, logVars
  <2>2. hand \in Entry /\ hand.what # "marker"
    BY <2>1 DEF Base, HeldInv
  <2>3. hand \in ToSet(log)
    <3>1. ToSet(Append(fed, hand)) = Lines
      BY <2>1 DEF FedInv, FedIsLogged, Shows
    <3>2. hand \in Lines
      BY <1>t, <2>2, <3>1, SetOfAppend
    <3> QED
      BY <3>2 DEF Lines
  <2>4. ToSet(markers') \in {ToSet(markers), ToSet(markers) \cup {hand}}
    BY <1>t, <2>1, <2>2, SetOfAppend
  <2> QED
    BY <1>m, <1>p, <2>1, <2>3, <2>4
<1>5. CASE ~open'
  BY <1>5 DEF MarkersLogged
<1>6. CASE /\ log' = log /\ open' = open /\ markers' = markers /\ mark' = mark
           /\ (key # "write" /\ key' # "write") \/ key' = key
  BY <1>m, <1>p, <1>6
<1>7. CASE Exit
  <2>1. ~open'
    BY <1>7 DEF Exit, Base, HeldInv, logVars
  <2> QED
    BY <2>1, <1>5
<1> QED
  BY <1>1, <1>2, <1>3, <1>4, <1>5, <1>6, <1>7
     DEF Next, Reader, Put, Main, Key, ReaderYields, ReaderPuts, ReaderDrops, SourceEnds,
         ReaderPutsError, ReaderStops, Check, Drain, Interrupt, Close, PressKey,
         KeyStart, KeyChecks, KeyTimeout, vars, mesh, keyVars, logVars

(* The screen catches up with the log line by line.                        *)
LEMMA FedKept == Base /\ OrderInv /\ FedInv /\ [Next]_vars => FedInv'
<1> SUFFICES ASSUME Base, OrderInv, FedInv, [Next]_vars PROVE FedInv'
  OBVIOUS
<1>t. /\ fed \in Seq(Entry)
      /\ crashed => main \in {"close", "gone"}
      /\ main \in {"check", "drain", "log", "feed", "close", "gone"}
  BY DEF Base, TypeOK, HeldInv
<1>1. CASE Log
  <2>1. /\ main = "log" /\ main' = "feed" /\ UNCHANGED <<fed, hand, crashed>>
    BY <1>1 DEF Log, mesh
  <2>2. /\ Lines' = Lines \cup {hand} /\ hand \in Entry /\ hand.what # "marker"
        /\ Taken = {hand}
    BY <1>1, LogFlow
  <2>3. InOrder(fed) /\ ToSet(fed) = Lines
    BY <2>1 DEF FedInv, Shows
  <2>4. \A x \in ToSet(fed) : x.stamp < hand.stamp
    BY <2>2, <2>3 DEF OrderInv, AllPrecede, Precedes
  <2>5. InOrder(Append(fed, hand)) /\ ToSet(Append(fed, hand)) = Lines'
    BY <1>t, <2>2, <2>3, <2>4, InOrderAppend, SetOfAppend
  <2> QED
    BY <2>1, <2>5 DEF FedInv, FedIsLogged, Shows
<1>2. CASE Feed
  <2>1. main = "feed" /\ Lines' = Lines
    BY <1>2 DEF Feed, logVars, Lines
  <2>2. Shows(Append(fed, hand))
    BY <2>1 DEF FedInv, FedIsLogged
  <2>3. CASE main' = "close" /\ fed' = fed /\ hand' = hand
    BY <2>1, <2>2, <2>3 DEF FedInv, FedIsLogged, Shows
  <2>4. CASE main' = "drain" /\ fed' = Append(fed, hand) /\ ~crashed'
    BY <2>1, <2>2, <2>4 DEF FedInv, FedIsLogged, Shows
  <2>5. ~crashed
    BY <1>t, <2>1
  <2> QED
    BY <1>2, <2>3, <2>4, <2>5 DEF Feed, mesh
<1>3. CASE Drain
  <2>1. main = "drain" /\ main' \in {"check", "log"} /\ UNCHANGED <<fed,
                                                                    crashed>> /\ Lines' = Lines
    BY <1>3 DEF Drain, mesh, logVars, Lines
  <2>2. ~crashed /\ Shows(fed)
    BY <1>t, <2>1 DEF FedInv
  <2> QED
    BY <2>1, <2>2 DEF FedInv, FedIsLogged, Shows
<1>4. CASE Check \/ Interrupt \/ Close
  <2>1. /\ main' \in {"close", "gone"} \/ (main = "check" /\ main' = "drain")
        /\ UNCHANGED <<fed, hand, crashed>> /\ Lines' = Lines
    BY <1>4 DEF Check, Interrupt, Close, mesh, logVars, Lines
  <2> QED
    BY <1>t, <2>1 DEF FedInv, FedIsLogged, Shows
<1>5. CASE WriteMarker
  <2>1. UNCHANGED <<main, hand, crashed, fed>> /\ Lines' = Lines
    BY <1>5, MarkerFlow DEF WriteMarker, mainVars, mesh
  <2> QED
    BY <2>1 DEF FedInv, FedIsLogged, Shows
<1>6. CASE UNCHANGED <<main, hand, crashed, fed, log>>
  BY <1>6 DEF FedInv, FedIsLogged, Shows, Lines
<1> QED
  BY <1>1, <1>2, <1>3, <1>4, <1>5, <1>6
     DEF Next, Reader, Put, Main, Key, ReaderYields, ReaderPuts, ReaderDrops, SourceEnds,
         ReaderPutsError, ReaderStops, Exit, PressKey, ReadKey, KeyStart, KeyChecks,
         KeyTimeout, vars,
         mainVars, mesh, logVars

-----------------------------------------------------------------------------
(* The inductive invariant of the tool.                                    *)
THEOREM ToolCorrect == Spec => []Inv
<1>1. Init => Inv
  <2> SUFFICES ASSUME Init PROVE Inv
    OBVIOUS
  <2>1. Base
    BY BaseInitially
  <2>2. ToSet(<<>>) = {}
    BY DEF ToSet
  <2>3. /\ Lines = {} /\ Markers = {} /\ Queued = {} /\ Taken = {} /\ Offered = {}
    BY <2>2 DEF Init, Lines, Markers, Queued, Taken, Offered
  <2>4. OrderInv
    BY <2>3 DEF Init, OrderInv, AllPrecede, QueueInOrder
  <2>5. PlaceInv
    BY <2>3 DEF Init, PlaceInv, Somewhere, LineIds
  <2>6. LogInv
    BY <2>3 DEF Init, LogInv, InOrder
  <2>7. FedInv
    BY <2>2, <2>3 DEF Init, FedInv, FedIsLogged, Shows, InOrder
  <2>8. MarkersLogged
    BY <2>2 DEF Init, MarkersLogged
  <2> QED
    BY <2>1, <2>4, <2>5, <2>6, <2>7, <2>8 DEF Base, Inv
<1>2. Inv /\ [Next]_vars => Inv'
  <2> SUFFICES ASSUME Inv, [Next]_vars PROVE Inv'
    OBVIOUS
  <2>1. Base /\ OrderInv /\ PlaceInv /\ LogInv /\ FedInv /\ MarkersLogged
    BY DEF Inv, Base
  <2>2. Base'
    BY <2>1, BaseKept
  <2>3. OrderInv' /\ PlaceInv' /\ LogInv' /\ FedInv' /\ MarkersLogged'
    BY <2>1, <2>2, OrderKept, PlaceKept, LogKept, FedKept, MarkersKept
  <2> QED
    BY <2>2, <2>3 DEF Base, Inv
<1> QED
  BY <1>1, <1>2, PTL DEF Spec

(* Type correctness: the queue keeps its bound, and the stamps do not run out. *)
THEOREM TypeCorrect == Spec => []TypeOK
  BY ToolCorrect, PTL DEF Inv

(* The numbers of the lines in a sequence.                                 *)
LEMMA IdsOf ==
    ASSUME NEW s \in Seq(Entry)
    PROVE  Ids(s) = LineIds(ToSet(s))
<1>1. DOMAIN s = 1..Len(s)
  OBVIOUS
<1>2. ASSUME NEW i \in Ids(s) PROVE i \in LineIds(ToSet(s))
  <2>1. PICK j \in 1..Len(s) : s[j].what = "line" /\ i = s[j].id
    BY DEF Ids
  <2>2. s[j] \in ToSet(s)
    BY <1>1, <2>1 DEF ToSet
  <2> QED
    BY <2>1, <2>2 DEF LineIds
<1>3. ASSUME NEW i \in LineIds(ToSet(s)) PROVE i \in Ids(s)
  <2>1. PICK e \in ToSet(s) : e.what = "line" /\ i = e.id
    BY DEF LineIds
  <2>2. PICK j \in 1..Len(s) : s[j] = e
    BY <1>1, <2>1 DEF ToSet
  <2> QED
    BY <2>1, <2>2 DEF Ids
<1> QED
  BY <1>2, <1>3

(* Every received line is in exactly one place while the tool runs: with the *)
(* reader, in the queue, with the main thread, in the log or given up      *)
(* (_reader_thread and _drain).                                            *)
THEOREM NothingLost == Spec => []NothingVanishes
<1>1. Inv => NothingVanishes
  <2> SUFFICES ASSUME Inv, Running, NEW i \in 1..sent
               PROVE  LET holders == {h \in {"reader", "queue", "main", "log", "dropped"} :
                            CASE h = "reader" -> reader = "put" /\ item.id = i
                              [] h = "queue" -> i \in Ids(queue)
                              [] h = "main" -> main = "log" /\ hand.what = "line" /\ hand.id = i
                              [] h = "log" -> i \in Ids(log)
                              [] h = "dropped" -> i \in dropped}
                      IN  \E h \in holders : holders = {h}
    BY DEF NothingVanishes
  <2>1. Base /\ OrderInv /\ PlaceInv
    BY DEF Inv, Base
  <2>2. (i \in Ids(queue)) <=> (i \in LineIds(Queued))
    BY IdsOf DEF Inv, TypeOK, Queued
  <2>3. (i \in Ids(log)) <=> (i \in LineIds(Lines))
    <3>1. Ids(log) = LineIds(ToSet(log))
      BY IdsOf DEF Inv, TypeOK
    <3>2. LineIds(ToSet(log)) = LineIds(Lines)
      BY DEF LineIds, Lines
    <3> QED
      BY <3>1, <3>2
  <2>4. (main = "log" /\ hand.what = "line" /\ hand.id = i) <=> (i \in LineIds(Taken))
    BY DEF LineIds, Taken
  <2>5. (reader = "put" /\ item.id = i) <=> (i \in LineIds(Offered))
    BY <2>1 DEF LineIds, Offered, Base, HeldInv
  <2>6. ASSUME NEW A, NEW B, A \subseteq Entry, B \subseteq Entry, AllPrecede(A, B)
        PROVE  ~(i \in LineIds(A) /\ i \in LineIds(B))
    <3> SUFFICES ASSUME NEW a \in A, NEW b \in B, a.what = "line", b.what = "line",
                        a.id = i, b.id = i
                 PROVE  FALSE
      BY DEF LineIds
    <3>1. a.id < b.id
      BY <2>6 DEF AllPrecede, Precedes
    <3> QED
      BY <3>1
  <2>7. /\ AllPrecede(Lines, Taken) /\ AllPrecede(Lines, Queued) /\ AllPrecede(Taken, Queued)
        /\ AllPrecede(Lines, Offered) /\ AllPrecede(Taken, Offered)
        /\ AllPrecede(Queued, Offered)
    BY <2>1 DEF OrderInv, AllPrecede
  <2>8. /\ ~(i \in LineIds(Lines) /\ i \in LineIds(Taken))
        /\ ~(i \in LineIds(Lines) /\ i \in LineIds(Queued))
        /\ ~(i \in LineIds(Taken) /\ i \in LineIds(Queued))
        /\ ~(i \in LineIds(Lines) /\ i \in LineIds(Offered))
        /\ ~(i \in LineIds(Taken) /\ i \in LineIds(Offered))
        /\ ~(i \in LineIds(Queued) /\ i \in LineIds(Offered))
    BY <2>1, <2>6, <2>7, FlowType
  <2>9. /\ i \in dropped \/ i \in LineIds(Lines) \/ i \in LineIds(Taken)
           \/ i \in LineIds(Queued) \/ i \in LineIds(Offered)
        /\ i \in dropped => /\ i \notin LineIds(Lines) /\ i \notin LineIds(Taken)
                            /\ i \notin LineIds(Queued) /\ i \notin LineIds(Offered)
    BY <2>1 DEF PlaceInv, Somewhere, LineIds
  <2>10. CASE i \in LineIds(Offered)
    BY <2>2, <2>3, <2>4, <2>5, <2>8, <2>9, <2>10
  <2>11. CASE i \in LineIds(Queued)
    BY <2>2, <2>3, <2>4, <2>5, <2>8, <2>9, <2>11
  <2>12. CASE i \in LineIds(Taken)
    BY <2>2, <2>3, <2>4, <2>5, <2>8, <2>9, <2>12
  <2>13. CASE i \in LineIds(Lines)
    BY <2>2, <2>3, <2>4, <2>5, <2>8, <2>9, <2>13
  <2>14. CASE i \in dropped
    BY <2>2, <2>3, <2>4, <2>5, <2>8, <2>9, <2>14
  <2> QED
    BY <2>9, <2>10, <2>11, <2>12, <2>13, <2>14
<1> QED
  BY <1>1, ToolCorrect, PTL

(* The log is the history of the session, and the screen is behind it by one *)
(* line at most (_drain against _reader_thread and _handle_key).           *)
THEOREM LogCorrect == Spec => []LogIsHistory
<1>1. Inv => LogIsHistory
  BY DEF Inv, LogInv, FedInv, LogIsHistory, LinesInOrder
<1> QED
  BY <1>1, ToolCorrect, PTL

(* An open log has every marker of the screen, of keys and of marker       *)
(* events, but the one being written, and the screen has those of the log  *)
(* (_handle_key and _on_event against the finally of run_tui).             *)
THEOREM MarkersCorrect == Spec => []MarkersLogged
  BY ToolCorrect, PTL DEF Inv

(***************************************************************************)
(* The topology.                                                           *)
(***************************************************************************)

(* Each call on the stack but the first draws a child of the node of the   *)
(* call before it.                                                         *)
MeshTypes ==
    /\ DOMAIN topology \subseteq Names /\ \A n \in DOMAIN topology : topology[n] \in Seq(Names)
    /\ first \in Names
    /\ DOMAIN topology # {} => first \in DOMAIN topology
    /\ view \in {"feed", "draw", "shown", "raised"}
    /\ roots \subseteq TreeNames
    /\ calls \in Seq([node : Names, next : Nat \ {0}])
    /\ out \in Seq(Names)

PathInv ==
    /\ MeshTypes
    /\ \A k \in 1..(Len(calls) - 1) : calls[k + 1].node \in Listed(calls[k].node)
    /\ Len(calls) <= MaxCalls
    /\ view = "raised" => Len(calls) = MaxCalls
    /\ view \in {"feed", "shown"} => calls = <<>> /\ roots = {}
    /\ view = "feed" => out = <<>>

(* A child is the child of a parent.                                       *)
LEMMA ListedFacts ==
    ASSUME MeshTypes
    PROVE  /\ \A n : Listed(n) \subseteq ChildSet
           /\ \A n : Listed(n) # {} => n \in DOMAIN topology
           /\ TreeNames \subseteq Names
           /\ \A n : Children(n) \in Seq(Names) /\ Listed(n) \subseteq Names
           /\ \A n : \A i \in 1..Len(Children(n)) : Children(n)[i] \in Listed(n)
           /\ \A n, c : c \in Listed(n) => \E i \in 1..Len(Children(n)) : c = Children(n)[i]
           /\ \A c \in ChildSet : \E n \in DOMAIN topology : c \in Listed(n)
           /\ \A n : n \notin DOMAIN topology => Len(Children(n)) = 0
           /\ \A n \in DOMAIN topology : Children(n) = topology[n]
<1>1. \A n : Children(n) \in Seq(Names)
  BY DEF MeshTypes, Children
<1>2. \A n : DOMAIN Children(n) = 1..Len(Children(n))
  BY <1>1
<1>3. \A n : n \notin DOMAIN topology => Len(Children(n)) = 0 /\ Listed(n) = {}
  <2> TAKE n
  <2>1. HAVE n \notin DOMAIN topology
  <2>2. Children(n) = <<>>
    BY <2>1 DEF Children
  <2> QED
    BY <1>2, <2>2 DEF Listed
<1>4. \A n : Listed(n) \subseteq Names
  BY <1>1, <1>2 DEF Listed
<1>5. \A n : Listed(n) \subseteq ChildSet
  BY <1>3 DEF ChildSet
<1>6. TreeNames \subseteq Names
  BY <1>4 DEF TreeNames, ChildSet, MeshTypes
<1>7. \A n : \A i \in 1..Len(Children(n)) : Children(n)[i] \in Listed(n)
  BY <1>2 DEF Listed
<1>8. \A n, c : c \in Listed(n) => \E i \in 1..Len(Children(n)) : c = Children(n)[i]
  BY <1>2 DEF Listed
<1>9. \A c \in ChildSet : \E n \in DOMAIN topology : c \in Listed(n)
  BY DEF ChildSet
<1>10. \A n \in DOMAIN topology : Children(n) = topology[n]
  BY DEF Children
<1> QED
  BY <1>1, <1>3, <1>4, <1>5, <1>6, <1>7, <1>8, <1>9, <1>10

(* Without a cycle no node is on the stack twice: the calls between two    *)
(* calls for one node would be for nodes that are children of each other.  *)
LEMMA PathIsSimple ==
    ASSUME PathInv, Acyclic, NEW i \in 1..Len(calls), NEW j \in 1..Len(calls),
           calls[i].node = calls[j].node
    PROVE  i = j
<1>0. calls \in Seq([node : Names, next : Nat \ {0}]) /\ Len(calls) \in Nat /\ MeshTypes
  BY DEF PathInv, MeshTypes
<1>1. ASSUME NEW a \in 1..Len(calls), NEW b \in 1..Len(calls),
             calls[a].node = calls[b].node, a < b
      PROVE  FALSE
  <2> DEFINE S == {calls[k].node : k \in (a + 1)..b}
  <2>1. \A k \in (a + 1)..b : calls[k].node \in Listed(calls[k - 1].node)
    <3> TAKE k \in (a + 1)..b
    <3>1. k - 1 \in 1..(Len(calls) - 1) /\ (k - 1) + 1 = k
      BY <1>0, <1>1
    <3> QED
      BY <3>1 DEF PathInv
  <2>2. \A k \in (a + 1)..b : \E m \in S : calls[k].node \in Listed(m)
    <3> TAKE k \in (a + 1)..b
    <3>1. CASE k = a + 1
      <4>1. calls[k - 1].node = calls[b].node /\ b \in (a + 1)..b
        BY <1>0, <1>1, <3>1
      <4> QED
        BY <2>1, <4>1
    <3>2. CASE k # a + 1
      <4>1. k - 1 \in (a + 1)..b
        BY <1>0, <1>1, <3>2
      <4> QED
        BY <2>1, <4>1
    <3> QED
      BY <3>1, <3>2
  <2>3. S \subseteq TreeNames
    <3>1. \A k \in (a + 1)..b : calls[k].node \in TreeNames
      <4> TAKE k \in (a + 1)..b
      <4>1. calls[k].node \in Listed(calls[k - 1].node)
        BY <2>1
      <4>2. Listed(calls[k - 1].node) \subseteq ChildSet
        BY <1>0, ListedFacts
      <4> QED
        BY <4>1, <4>2 DEF TreeNames
    <3> QED
      BY <3>1
  <2>4. b \in (a + 1)..b
    BY <1>0, <1>1
  <2>5. S # {}
    BY <2>4
  <2>6. PICK n \in S : \A m \in S : n \notin Listed(m)
    BY <2>3, <2>5 DEF Acyclic
  <2> QED
    BY <2>2, <2>6
<1> QED
  BY <1>0, <1>1

(* So the stack of a tree without a cycle is at most as deep as there are  *)
(* names.                                                                  *)
LEMMA StackIsShort ==
    ASSUME FewNames, PathInv, Acyclic
    PROVE  Len(calls) <= Cardinality(Names)
<1>0. calls \in Seq([node : Names, next : Nat \ {0}]) /\ Len(calls) \in Nat
  BY DEF PathInv, MeshTypes
<1>1. IsFiniteSet(Names) /\ Cardinality(Names) \in Nat
  BY FewNames, FS_CardinalityType DEF FewNames
<1>2. SUFFICES ASSUME Cardinality(Names) < Len(calls) PROVE FALSE
  BY <1>0, <1>1
<1> DEFINE f == [k \in 1..Len(calls) |-> calls[k].node]
<1>3. f \in [1..Len(calls) -> Names]
  <2>1. \A k \in 1..Len(calls) : calls[k] \in [node : Names, next : Nat \ {0}]
    BY <1>0, ElementOfSeq
  <2>2. \A k \in 1..Len(calls) : calls[k].node \in Names
    BY <2>1
  <2> QED
    BY <2>2
<1>4. IsFiniteSet(1..Len(calls)) /\ Cardinality(1..Len(calls)) = Len(calls)
  <2>1. 1 \in Int /\ Len(calls) \in Int /\ ~(1 > Len(calls))
    BY <1>0, <1>1, <1>2
  <2> QED
    BY <2>1, FS_Interval
<1>5. PICK i \in 1..Len(calls), j \in 1..Len(calls) : i # j /\ f[i] = f[j]
  <2> HIDE DEF f
  <2> QED
    BY <1>1, <1>2, <1>3, <1>4, FS_PigeonHole
<1> QED
  BY <1>5, PathIsSimple

-----------------------------------------------------------------------------
(* A call for a child: the call above it stands before its next child.     *)
Pushed(s, c) == Append([s EXCEPT ![Len(s)].next = @ + 1], Call(c))

LEMMA PushFacts ==
    ASSUME NEW s \in Seq([node : Names, next : Nat \ {0}]), s # <<>>, NEW c \in Names
    PROVE  /\ Pushed(s, c) \in Seq([node : Names, next : Nat \ {0}])
           /\ Len(Pushed(s, c)) = Len(s) + 1
           /\ \A k \in 1..Len(s) : Pushed(s, c)[k].node = s[k].node
           /\ \A k \in 1..(Len(s) - 1) : Pushed(s, c)[k].next = s[k].next
           /\ Pushed(s, c)[Len(s)].next = s[Len(s)].next + 1
           /\ Pushed(s, c)[Len(s) + 1].node = c /\ Pushed(s, c)[Len(s) + 1].next = 1
<1> DEFINE t == Pushed(s, c)
<1> DEFINE R == [node : Names, next : Nat \ {0}]
           u == [s EXCEPT ![Len(s)].next = @ + 1]
<1>0. s \in Seq(R)
  OBVIOUS
<1>1. Len(s) \in Nat /\ Len(s) \in 1..Len(s)
  <2> HIDE DEF R
  <2> QED
    BY <1>0, EmptySeq
<1>2. s[Len(s)] \in R
  BY <1>0, <1>1, ElementOfSeq
<1>3. [s[Len(s)] EXCEPT !.next = @ + 1] \in R
  <2>1. s[Len(s)].node \in Names /\ s[Len(s)].next \in Nat
    BY <1>2
  <2>2. PICK n \in Names, x \in Nat \ {0} : s[Len(s)] = [node |-> n, next |-> x]
    BY <1>2
  <2>3. [s[Len(s)] EXCEPT !.next = @ + 1] = [node |-> n, next |-> x + 1]
    BY <2>2
  <2> QED
    BY <2>3
<1>4. u = [s EXCEPT ![Len(s)] = [s[Len(s)] EXCEPT !.next = @ + 1]]
  OBVIOUS
<1>5. u \in Seq(R) /\ Len(u) = Len(s)
  BY <1>1, <1>3, <1>4, ExceptSeq
<1>6. \A k \in 1..Len(s) : u[k] = IF k = Len(s) THEN [s[Len(s)] EXCEPT !.next = @ + 1]
                                               ELSE s[k]
  BY <1>1, <1>4
<1>7. Call(c) \in R /\ Call(c).node = c /\ Call(c).next = 1
  BY DEF Call
<1>8. t \in Seq(R) /\ Len(t) = Len(s) + 1 /\ t[Len(s) + 1] = Call(c)
      /\ \A k \in 1..Len(s) : t[k] = u[k]
  <2> DEFINE e == Call(c)
  <2>1. t = Append(u, e)
    BY DEF Pushed
  <2>2. e \in R
    BY <1>7
  <2> HIDE DEF u, R, e, t
  <2>3. /\ Append(u, e) \in Seq(R) /\ Len(Append(u, e)) = Len(u) + 1
        /\ \A k \in 1..Len(u) : Append(u, e)[k] = u[k]
        /\ Append(u, e)[Len(u) + 1] = e
    BY <1>5, <2>2, AppendProperties
  <2>4. t \in Seq(R) /\ Len(t) = Len(s) + 1 /\ t[Len(s) + 1] = e
        /\ \A k \in 1..Len(s) : t[k] = u[k]
    BY <1>5, <2>1, <2>3
  <2> QED
    BY <2>4 DEF e
<1>9. \A k \in 1..Len(s) : u[k].node = s[k].node
  BY <1>1, <1>2, <1>6
<1>10. \A k \in 1..(Len(s) - 1) : u[k].next = s[k].next
  BY <1>1, <1>6
<1>11. u[Len(s)].next = s[Len(s)].next + 1
  BY <1>1, <1>2, <1>6
<1> HIDE DEF u, t, R
<1>12. /\ t \in Seq(R) /\ Len(t) = Len(s) + 1
       /\ \A k \in 1..Len(s) : t[k].node = s[k].node
       /\ \A k \in 1..(Len(s) - 1) : t[k].next = s[k].next
       /\ t[Len(s)].next = s[Len(s)].next + 1
       /\ t[Len(s) + 1].node = c /\ t[Len(s) + 1].next = 1
  <2>1. \A k \in 1..Len(s) : t[k].node = s[k].node
    BY <1>8, <1>9
  <2>2. \A k \in 1..(Len(s) - 1) : t[k].next = s[k].next
    <3> TAKE k \in 1..(Len(s) - 1)
    <3>1. k \in 1..Len(s)
      BY <1>1
    <3> QED
      BY <1>8, <1>10, <3>1
  <2>3. t[Len(s)].next = s[Len(s)].next + 1
    BY <1>1, <1>8, <1>11
  <2> QED
    BY <1>7, <1>8, <2>1, <2>2, <2>3
<1> QED
  BY <1>12 DEF t, R

(* A call that returns: the calls above it are what they were.             *)
Popped(s) == SubSeq(s, 1, Len(s) - 1)

LEMMA PopFacts ==
    ASSUME NEW s \in Seq([node : Names, next : Nat \ {0}]), s # <<>>
    PROVE  /\ Popped(s) \in Seq([node : Names, next : Nat \ {0}])
           /\ Len(Popped(s)) = Len(s) - 1
           /\ \A k \in 1..Len(Popped(s)) : Popped(s)[k] = s[k]
<1> DEFINE t == Popped(s)
<1> DEFINE R == [node : Names, next : Nat \ {0}]
<1>0. s \in Seq(R)
  OBVIOUS
<1> HIDE DEF R
<1>1. Len(s) \in Nat /\ Len(s) # 0
  BY <1>0, EmptySeq
<1>2. /\ t \in Seq(R)
      /\ Len(t) = Len(s) - 1
      /\ \A k \in 1..Len(t) : t[k] = s[k]
  <2> DEFINE n == Len(s) - 1
  <2>1. 1 \in Int /\ n \in Int /\ \A k \in 1..n : s[k] \in R
    BY <1>0, <1>1, ElementOfSeq
  <2>2. t = SubSeq(s, 1, n)
    BY DEF Popped
  <2>3. /\ SubSeq(s, 1, n) \in Seq(R)
        /\ Len(SubSeq(s, 1, n)) = IF 1 <= n THEN n - 1 + 1 ELSE 0
        /\ \A k \in 1..(n - 1 + 1) : SubSeq(s, 1, n)[k] = s[1 + k - 1]
    <3> HIDE DEF n
    <3> QED
      BY <2>1, SubSeqProperties
  <2>4. Len(t) = n
    <3>1. n \in Nat
      BY <1>1
    <3> HIDE DEF n
    <3>2. (IF 1 <= n THEN n - 1 + 1 ELSE 0) = n
      BY <3>1
    <3> QED
      BY <2>2, <2>3, <3>2
  <2>5. \A k \in 1..n : t[k] = s[k]
    <3> TAKE k \in 1..n
    <3>1. k \in 1..(n - 1 + 1) /\ 1 + k - 1 = k
      BY <1>1
    <3> QED
      BY <2>2, <2>3, <3>1
  <2> QED
    BY <2>2, <2>3, <2>4, <2>5
<1> QED
  BY <1>2 DEF R

-----------------------------------------------------------------------------
(* What the drawing has reached: a node that is drawn has each of its       *)
(* children drawn too, or a call that comes to it.                         *)
Drawn == {out[i] : i \in DOMAIN out}

DrawnInv ==
    /\ view \in {"draw", "shown"} => roots \subseteq Roots /\ Roots \subseteq roots \cup Drawn
    /\ Drawn \subseteq TreeNames
    /\ \A m \in Drawn : \A i \in 1..Len(Children(m)) :
           \/ Children(m)[i] \in Drawn
           \/ \E k \in 1..Len(calls) : calls[k].node = m /\ calls[k].next <= i
    /\ \A k \in 1..Len(calls) : calls[k].node \in Drawn

(* In a tree that is one, nothing is drawn before its parent or again.     *)
OnceInv ==
    /\ \A i, j \in DOMAIN out : out[i] = out[j] => i = j
    /\ roots \cap Drawn = {}
    /\ \A m : \A i \in 1..Len(Children(m)) :
           Children(m)[i] \in Drawn =>
               /\ m \in Drawn
               /\ \A k \in 1..Len(calls) : calls[k].node = m => i < calls[k].next

MeshInv == PathInv /\ DrawnInv /\ (Acyclic /\ ListedOnce => OnceInv)

(* A line more: one node more that is drawn.                               *)
LEMMA DrawnFacts ==
    ASSUME MeshTypes, NEW x \in Names, out' = Append(out, x)
    PROVE  /\ out' \in Seq(Names)
           /\ Drawn' = Drawn \cup {x}
           /\ (\A i, j \in DOMAIN out : out[i] = out[j] => i = j) /\ x \notin Drawn
                  => \A i, j \in DOMAIN out' : out'[i] = out'[j] => i = j
<1>1. out \in Seq(Names) /\ Len(out) \in Nat /\ DOMAIN out = 1..Len(out)
  BY LenProperties DEF MeshTypes
<1>2. /\ out' \in Seq(Names) /\ Len(out') = Len(out) + 1
      /\ \A k \in 1..Len(out) : out'[k] = out[k]
      /\ out'[Len(out) + 1] = x
  BY <1>1, AppendProperties
<1>3. DOMAIN out' = 1..(Len(out) + 1)
  BY <1>2, LenProperties
<1>4. Drawn' = Drawn \cup {x}
  <2>1. ASSUME NEW y \in Drawn' PROVE y \in Drawn \cup {x}
    <3>1. PICK i \in 1..(Len(out) + 1) : y = out'[i]
      BY <1>3 DEF Drawn
    <3>2. CASE i = Len(out) + 1
      BY <1>2, <3>1, <3>2
    <3>3. CASE i # Len(out) + 1
      <4>1. i \in 1..Len(out)
        BY <1>1, <3>3
      <4> QED
        BY <1>1, <1>2, <3>1, <4>1 DEF Drawn
    <3> QED
      BY <3>2, <3>3
  <2>2. ASSUME NEW y \in Drawn PROVE y \in Drawn'
    <3>1. PICK i \in 1..Len(out) : y = out[i]
      BY <1>1 DEF Drawn
    <3>2. i \in 1..(Len(out) + 1)
      BY <1>1
    <3> QED
      BY <1>2, <1>3, <3>1, <3>2 DEF Drawn
  <2>3. x \in Drawn'
    <3>1. Len(out) + 1 \in 1..(Len(out) + 1)
      BY <1>1
    <3> QED
      BY <1>2, <1>3, <3>1 DEF Drawn
  <2> QED
    BY <2>1, <2>2, <2>3
<1>5. ASSUME \A i, j \in DOMAIN out : out[i] = out[j] => i = j, x \notin Drawn,
             NEW i \in 1..(Len(out) + 1), NEW j \in 1..(Len(out) + 1), out'[i] = out'[j]
      PROVE  i = j
  <2>1. \A k \in 1..Len(out) : out'[k] # x
    BY <1>1, <1>2, <1>5 DEF Drawn
  <2>2. \A k \in 1..(Len(out) + 1) : k # Len(out) + 1 => k \in 1..Len(out)
    BY <1>1
  <2> QED
    BY <1>1, <1>2, <1>5, <2>1, <2>2
<1> QED
  BY <1>2, <1>3, <1>4, <1>5

(* The roots of a tree without a cycle are the nodes above all others.     *)
LEMMA RootsFacts ==
    ASSUME MeshTypes, DOMAIN topology # {}
    PROVE  /\ Roots \subseteq TreeNames
           /\ Acyclic => Roots = DOMAIN topology \ ChildSet
<1>1. Roots \subseteq TreeNames
  BY DEF Roots, TreeNames, MeshTypes
<1>2. ASSUME Acyclic PROVE ~(DOMAIN topology \subseteq ChildSet)
  <2>1. SUFFICES ASSUME DOMAIN topology \subseteq ChildSet PROVE FALSE
    OBVIOUS
  <2>2. DOMAIN topology \subseteq TreeNames
    BY DEF TreeNames
  <2>3. PICK n \in DOMAIN topology : \A m \in DOMAIN topology : n \notin Listed(m)
    BY <1>2, <2>2 DEF Acyclic
  <2> QED
    BY <2>1, <2>3, ListedFacts
<1> QED
  BY <1>1, <1>2 DEF Roots

(* What is said of the tree stays so while it is drawn.                    *)
LEMMA SameTree ==
    ASSUME UNCHANGED <<topology, first>>
    PROVE  /\ \A n : Children(n)' = Children(n) /\ Listed(n)' = Listed(n)
           /\ ChildSet' = ChildSet /\ TreeNames' = TreeNames /\ Roots' = Roots
           /\ Acyclic' <=> Acyclic
           /\ ListedOnce' <=> ListedOnce
<1>1. \A n : Children(n)' = Children(n)
  BY DEF Children
<1>2. \A n : Listed(n)' = Listed(n)
  BY <1>1 DEF Listed
<1>3. ChildSet' = ChildSet
  BY <1>2 DEF ChildSet
<1>4. TreeNames' = TreeNames
  BY <1>3 DEF TreeNames
<1>5. Roots' = Roots
  BY <1>3 DEF Roots
<1>6. Acyclic' <=> Acyclic
  BY <1>2, <1>4 DEF Acyclic
<1>7. ListedOnce' <=> ListedOnce
  BY DEF ListedOnce
<1> QED
  BY <1>1, <1>2, <1>3, <1>4, <1>5, <1>6, <1>7

(* A topology event, which comes between two drawings.                     *)
LEMMA OnTopologyStep ==
    ASSUME FewNames, MeshInv, OnTopology
    PROVE  MeshInv'
<1>1. view = "feed" /\ calls = <<>> /\ roots = {} /\ out = <<>> /\ first \in Names
  BY DEF MeshInv, PathInv, MeshTypes, OnTopology
<1>2. view' = "feed" /\ calls' = <<>> /\ roots' = {} /\ out' = <<>>
  BY <1>1 DEF OnTopology
<1>3. Len(<<>>) = 0 /\ DOMAIN out' = {}
  BY <1>2
<1>4. DOMAIN topology' \subseteq Names /\ \A n \in DOMAIN topology' : topology'[n] \in Seq(Names)
  <2>1. PICK K \in SUBSET Names : topology' \in [K -> Lists]
    BY DEF OnTopology, Trees
  <2>2. \A l \in Lists : l \in Seq(Names)
    BY FewNames DEF Lists, FewNames
  <2> QED
    BY <2>1, <2>2
<1>5. first' \in Names /\ (DOMAIN topology' # {} => first' \in DOMAIN topology')
  BY <1>1, <1>4 DEF OnTopology
<1>6. <<>> \in Seq([node : Names, next : Nat \ {0}]) /\ <<>> \in Seq(Names)
  BY EmptySeq
<1>7. MeshTypes'
  BY <1>2, <1>4, <1>5, <1>6 DEF MeshTypes
<1>8. PathInv'
  BY <1>2, <1>3, <1>7, FewNames DEF PathInv, FewNames
<1>9. Drawn' = {}
  BY <1>3 DEF Drawn
<1>10. DrawnInv'
  BY <1>2, <1>3, <1>9 DEF DrawnInv
<1>11. OnceInv'
  BY <1>2, <1>3, <1>9 DEF OnceInv
<1> QED
  BY <1>8, <1>10, <1>11 DEF MeshInv

(* The drawing begins with all roots before it.                            *)
LEMMA RenderStep ==
    ASSUME FewNames, MeshInv, Render
    PROVE  MeshInv'
<1>1. /\ view = "feed" /\ calls = <<>> /\ out = <<>> /\ DOMAIN topology # {}
      /\ MeshTypes
  BY DEF MeshInv, PathInv, Render
<1>2. /\ view' = "draw" /\ calls' = <<>> /\ roots' = Roots /\ out' = <<>>
      /\ topology' = topology /\ first' = first
  BY <1>1 DEF Render
<1>3. Len(<<>>) = 0 /\ DOMAIN out' = {}
  BY <1>2
<1>4. roots' \subseteq TreeNames'
  BY <1>1, <1>2, RootsFacts, SameTree
<1>5. MeshTypes'
  BY <1>1, <1>2, <1>4 DEF MeshTypes
<1>6. PathInv'
  BY <1>2, <1>3, <1>5, FewNames DEF PathInv, FewNames
<1>7. Drawn' = {}
  BY <1>3 DEF Drawn
<1>8. DrawnInv'
  BY <1>2, <1>3, <1>7, SameTree DEF DrawnInv
<1>9. OnceInv'
  BY <1>2, <1>3, <1>7 DEF OnceInv
<1> QED
  BY <1>6, <1>8, <1>9 DEF MeshInv

(* A root is drawn on an empty stack.                                      *)
LEMMA DrawRootStep ==
    ASSUME FewNames, MeshInv, DrawRoot
    PROVE  MeshInv'
<1>1. /\ view = "draw" /\ calls = <<>> /\ Len(calls) = 0 /\ MeshTypes
      /\ PathInv /\ DrawnInv /\ UNCHANGED <<topology, first, view>>
  BY DEF MeshInv, PathInv, DrawRoot
<1>2. PICK r \in roots : calls' = <<Call(r)>> /\ out' = Append(out, r) /\ roots' = roots \ {r}
  BY DEF DrawRoot
<1>3. r \in TreeNames /\ r \in Names /\ r \in Roots
  BY <1>1, ListedFacts DEF MeshTypes, DrawnInv
<1>4. DOMAIN topology # {}
  BY <1>1, <1>3, ListedFacts DEF TreeNames
<1>5. /\ calls' \in Seq([node : Names, next : Nat \ {0}]) /\ Len(calls') = 1
      /\ calls'[1].node = r /\ calls'[1].next = 1
  <2>1. Call(r) \in [node : Names, next : Nat \ {0}] /\ Call(r).node = r /\ Call(r).next = 1
    BY <1>3 DEF Call
  <2> QED
    BY <1>2, <2>1
<1>6. out' \in Seq(Names) /\ Drawn' = Drawn \cup {r}
  BY <1>1, <1>2, <1>3, DrawnFacts
<1>7. PathInv'
  <2>1. MeshTypes'
    BY <1>1, <1>2, <1>5, <1>6, SameTree DEF MeshTypes
  <2>2. 1 <= MaxCalls
    BY FewNames, FS_CardinalityType DEF FewNames
  <2> QED
    BY <1>1, <1>5, <2>1, <2>2 DEF PathInv
<1>8. DrawnInv'
  <2>1. roots' \subseteq Roots' /\ Roots' \subseteq roots' \cup Drawn'
    BY <1>1, <1>2, <1>6, SameTree DEF DrawnInv
  <2>2. Drawn' \subseteq TreeNames'
    BY <1>1, <1>3, <1>6, SameTree DEF DrawnInv
  <2>3. ASSUME NEW m \in Drawn', NEW i \in 1..Len(Children(m))
        PROVE  \/ Children(m)[i] \in Drawn'
               \/ \E k \in 1..Len(calls') : calls'[k].node = m /\ calls'[k].next <= i
    <3>1. CASE m = r
      BY <1>5, <3>1
    <3>2. CASE m \in Drawn
      BY <1>1, <1>6, <3>2 DEF DrawnInv
    <3> QED
      BY <1>6, <3>1, <3>2
  <2>4. \A k \in 1..Len(calls') : calls'[k].node \in Drawn'
    BY <1>5, <1>6
  <2>5. \A m \in Drawn' : \A i \in 1..Len(Children(m)') :
           \/ Children(m)'[i] \in Drawn'
           \/ \E k \in 1..Len(calls') : calls'[k].node = m /\ calls'[k].next <= i
    BY <1>1, <2>3, SameTree
  <2> QED
    BY <2>1, <2>2, <2>4, <2>5 DEF DrawnInv
<1>9. ASSUME Acyclic', ListedOnce' PROVE OnceInv'
  <2>1. Acyclic /\ OnceInv
    BY <1>1, <1>9, SameTree DEF MeshInv
  <2>2. r \notin Drawn
    BY <2>1 DEF OnceInv
  <2>3. \A i, j \in DOMAIN out' : out'[i] = out'[j] => i = j
    BY <1>1, <1>2, <1>3, <2>1, <2>2, DrawnFacts DEF OnceInv
  <2>4. roots' \cap Drawn' = {}
    BY <1>2, <1>6, <2>1 DEF OnceInv
  <2>5. r \notin ChildSet
    BY <1>1, <1>3, <1>4, <2>1, RootsFacts
  <2>6. ASSUME NEW m, NEW i \in 1..Len(Children(m)), Children(m)[i] \in Drawn'
        PROVE  m \in Drawn' /\ \A k \in 1..Len(calls') : calls'[k].node = m => i < calls'[k].next
    <3>1. Children(m)[i] \in ChildSet
      BY <1>1, ListedFacts
    <3>2. m \in Drawn
      BY <1>6, <2>1, <2>5, <2>6, <3>1 DEF OnceInv
    <3> QED
      BY <1>5, <1>6, <2>2, <3>2
  <2>7. \A m : \A i \in 1..Len(Children(m)') :
           Children(m)'[i] \in Drawn' =>
               /\ m \in Drawn'
               /\ \A k \in 1..Len(calls') : calls'[k].node = m => i < calls'[k].next
    BY <1>1, <2>6, SameTree
  <2> QED
    BY <2>3, <2>4, <2>7 DEF OnceInv
<1> QED
  BY <1>7, <1>8, <1>9 DEF MeshInv

(* A child is drawn, and its call begins.                                  *)
LEMMA DrawChildStep ==
    ASSUME FewNames, MeshInv, DrawChild, Len(calls) # MaxCalls
    PROVE  MeshInv'
<1> DEFINE n == Len(calls)
           p == calls[n].node
           x == calls[n].next
           c == Children(p)[x]
<1>1. /\ view = "draw" /\ calls # <<>> /\ MeshTypes /\ PathInv /\ DrawnInv
      /\ x <= Len(Children(p))
      /\ UNCHANGED <<topology, first, roots, view>>
  BY DEF MeshInv, PathInv, DrawChild, Top
<1>2. /\ calls' = Append([calls EXCEPT ![Len(calls)].next = @ + 1], Call(c))
      /\ out' = Append(out, c)
  BY DEF DrawChild, Top
<1>3. n \in Nat /\ n \in 1..n /\ \A k \in 1..n : calls[k].node \in Names /\ calls[k].next \in Nat \ {0}
  <2> DEFINE R == [node : Names, next : Nat \ {0}]
  <2>1. calls \in Seq(R)
    BY <1>1 DEF MeshTypes
  <2>2. n \in Nat /\ n \in 1..n
    <3> HIDE DEF R
    <3> QED
      BY <1>1, <2>1, EmptySeq
  <2>3. \A k \in 1..n : calls[k] \in R
    BY <2>1, ElementOfSeq
  <2> QED
    BY <2>2, <2>3
<1>4. x \in 1..Len(Children(p)) /\ Len(Children(p)) \in Nat
  BY <1>1, <1>3, ListedFacts
<1>5. c \in Listed(p) /\ c \in Names /\ c \in ChildSet /\ c \in TreeNames
  BY <1>1, <1>4, ListedFacts DEF TreeNames
<1>6. /\ calls' \in Seq([node : Names, next : Nat \ {0}])
      /\ Len(calls') = n + 1
      /\ \A k \in 1..n : calls'[k].node = calls[k].node
      /\ \A k \in 1..(n - 1) : calls'[k].next = calls[k].next
      /\ calls'[n].next = x + 1
      /\ calls'[n + 1].node = c /\ calls'[n + 1].next = 1
  <2>1. calls \in Seq([node : Names, next : Nat \ {0}]) /\ calls # <<>> /\ c \in Names
    BY <1>1, <1>5 DEF MeshTypes
  <2> HIDE DEF c
  <2>2. calls' = Pushed(calls, c)
    BY <1>2 DEF Pushed
  <2> QED
    BY <2>1, <2>2, PushFacts
<1>7. out' \in Seq(Names) /\ Drawn' = Drawn \cup {c}
  BY <1>1, <1>2, <1>5, DrawnFacts
<1> HIDE DEF c, n, p, x
<1>8. \A k \in 1..(n + 1) : k = n + 1 \/ k = n \/ k \in 1..(n - 1)
  BY <1>3
<1>9. PathInv'
  <2>1. MeshTypes'
    BY <1>1, <1>6, <1>7, SameTree DEF MeshTypes
  <2>2. n <= MaxCalls /\ n # MaxCalls
    BY <1>1 DEF PathInv, n
  <2>3. Len(calls') <= MaxCalls
    BY <1>3, <1>6, <2>2, FewNames DEF FewNames
  <2>4. ASSUME NEW k \in 1..(Len(calls') - 1)
        PROVE  calls'[k + 1].node \in Listed(calls'[k].node)
    <3>1. k \in 1..n
      BY <1>3, <1>6
    <3>2. CASE k = n
      BY <1>5, <1>6, <3>1, <3>2 DEF p
    <3>3. CASE k # n
      <4>1. k \in 1..(n - 1) /\ k + 1 \in 1..n
        BY <1>3, <3>1, <3>3
      <4>2. calls[k + 1].node \in Listed(calls[k].node)
        BY <1>1, <4>1 DEF PathInv, n
      <4> QED
        BY <1>6, <3>1, <4>1, <4>2
    <3> QED
      BY <3>2, <3>3
  <2>5. (\A k \in 1..(Len(calls) - 1) : calls[k + 1].node \in Listed(calls[k].node))'
    BY <1>1, <2>4 DEF Listed, Children
  <2> QED
    BY <1>1, <2>1, <2>3, <2>5 DEF PathInv
<1>10. DrawnInv'
  <2>1. roots' \subseteq Roots' /\ Roots' \subseteq roots' \cup Drawn'
    BY <1>1, <1>7, SameTree DEF DrawnInv
  <2>2. Drawn' \subseteq TreeNames'
    BY <1>1, <1>5, <1>7, SameTree DEF DrawnInv
  <2>3. ASSUME NEW m \in Drawn', NEW i \in 1..Len(Children(m))
        PROVE  \/ Children(m)[i] \in Drawn'
               \/ \E k \in 1..Len(calls') : calls'[k].node = m /\ calls'[k].next <= i
    <3>1. CASE m = c
      <4>1. n + 1 \in 1..Len(calls') /\ 1 <= i
        BY <1>3, <1>6, <2>3
      <4> QED
        BY <1>6, <3>1, <4>1
    <3>2. CASE m \in Drawn /\ Children(m)[i] \notin Drawn
      <4>1. PICK k \in 1..n : calls[k].node = m /\ calls[k].next <= i
        BY <1>1, <3>2 DEF DrawnInv, n
      <4>2. k \in 1..Len(calls') /\ calls'[k].node = m
        BY <1>3, <1>6, <4>1
      <4>3. CASE k = n
        <5>1. CASE i = x
          BY <1>7, <4>1, <4>3, <5>1 DEF c, p
        <5>2. CASE i # x
          <6>1. x + 1 <= i
            BY <1>4, <2>3, <4>1, <4>3, <5>2 DEF x
          <6> QED
            BY <1>6, <4>2, <4>3, <6>1
        <5> QED
          BY <5>1, <5>2
      <4>4. CASE k # n
        <5>1. k \in 1..(n - 1)
          BY <1>3, <4>1, <4>4
        <5> QED
          BY <1>6, <4>1, <4>2, <5>1
      <4> QED
        BY <4>3, <4>4
    <3> QED
      BY <1>7, <3>1, <3>2
  <2>4. \A k \in 1..Len(calls') : calls'[k].node \in Drawn'
    <3> TAKE k \in 1..Len(calls')
    <3>1. CASE k = n + 1
      BY <1>6, <1>7, <3>1
    <3>2. CASE k \in 1..n
      BY <1>1, <1>6, <1>7, <3>2 DEF DrawnInv, n
    <3> QED
      BY <1>3, <1>6, <3>1, <3>2
  <2>5. \A m \in Drawn' : \A i \in 1..Len(Children(m)') :
           \/ Children(m)'[i] \in Drawn'
           \/ \E k \in 1..Len(calls') : calls'[k].node = m /\ calls'[k].next <= i
    BY <1>1, <2>3, SameTree
  <2> QED
    BY <2>1, <2>2, <2>4, <2>5 DEF DrawnInv
<1>11. ASSUME Acyclic', ListedOnce' PROVE OnceInv'
  <2>1. Acyclic /\ ListedOnce /\ OnceInv
    BY <1>1, <1>11, SameTree DEF MeshInv
  <2>2. DOMAIN topology # {}
    BY <1>1, <1>5, ListedFacts
  <2>3. c \notin Drawn
    <3>1. c \in Drawn => x < calls[n].next
      BY <1>3, <1>4, <2>1 DEF OnceInv, c, p, n
    <3> QED
      BY <1>3, <3>1 DEF x
  <2>4. \A i, j \in DOMAIN out' : out'[i] = out'[j] => i = j
    BY <1>1, <1>2, <1>5, <2>1, <2>3, DrawnFacts DEF OnceInv
  <2>5. c \notin roots
    BY <1>1, <1>5, <2>1, <2>2, RootsFacts DEF DrawnInv
  <2>6. roots' \cap Drawn' = {}
    BY <1>1, <1>7, <2>1, <2>5 DEF OnceInv
  <2>7. p \in Drawn
    BY <1>1, <1>3 DEF DrawnInv, p, n
  <2>8. ASSUME NEW m, NEW i \in 1..Len(Children(m)), Children(m)[i] \in Drawn'
        PROVE  m \in Drawn' /\ \A k \in 1..Len(calls') : calls'[k].node = m => i < calls'[k].next
    <3>1. CASE Children(m)[i] \in Drawn
      <4>1. m \in Drawn /\ \A k \in 1..n : calls[k].node = m => i < calls[k].next
        BY <2>1, <2>8, <3>1 DEF OnceInv, n
      <4>2. ASSUME NEW k \in 1..Len(calls'), calls'[k].node = m PROVE i < calls'[k].next
        <5>1. CASE k = n + 1
          BY <1>6, <2>3, <4>1, <4>2, <5>1
        <5>2. CASE k = n
          <6>1. i < x
            BY <1>3, <1>6, <4>1, <4>2, <5>2 DEF x
          <6> QED
            BY <1>4, <1>6, <2>8, <5>2, <6>1
        <5>3. CASE k \in 1..(n - 1)
          <6>1. k \in 1..n
            BY <1>3, <5>3
          <6> QED
            BY <1>6, <4>1, <4>2, <5>3, <6>1
        <5> QED
          BY <1>6, <1>8, <5>1, <5>2, <5>3
      <4> QED
        BY <1>7, <4>1, <4>2
    <3>2. CASE Children(m)[i] = c
      <4>1. m = p /\ i = x
        BY <1>1, <1>4, <2>1, <2>8, <3>2, ListedFacts DEF ListedOnce, c
      <4>2. ASSUME NEW k \in 1..Len(calls'), calls'[k].node = m PROVE i < calls'[k].next
        <5>1. CASE k = n + 1
          BY <1>6, <2>3, <2>7, <4>1, <4>2, <5>1
        <5>2. CASE k \in 1..n
          <6>1. calls[k].node = calls[n].node
            BY <1>6, <4>1, <4>2, <5>2 DEF p
          <6>2. k = n
            BY <1>1, <1>3, <2>1, <5>2, <6>1, PathIsSimple DEF n
          <6> QED
            BY <1>4, <1>6, <4>1, <6>2
        <5> QED
          BY <1>3, <1>6, <5>1, <5>2
      <4> QED
        BY <1>7, <2>7, <4>1, <4>2
    <3> QED
      BY <1>7, <2>8, <3>1, <3>2
  <2>9. \A m : \A i \in 1..Len(Children(m)') :
           Children(m)'[i] \in Drawn' =>
               /\ m \in Drawn'
               /\ \A k \in 1..Len(calls') : calls'[k].node = m => i < calls'[k].next
    BY <1>1, <2>8, SameTree
  <2> QED
    BY <2>4, <2>6, <2>9 DEF OnceInv
<1> QED
  BY <1>9, <1>10, <1>11 DEF MeshInv

(* A call for a child that finds the stack full.                           *)
LEMMA RaiseStep ==
    ASSUME MeshInv, DrawChild, Len(calls) = MaxCalls
    PROVE  MeshInv'
<1>1. /\ UNCHANGED <<topology, first, roots, calls, out>> /\ view' = "raised"
      /\ PathInv /\ DrawnInv
  BY DEF MeshInv, DrawChild
<1>2. Drawn' = Drawn
  BY <1>1 DEF Drawn
<1>3. PathInv'
  <2>1. MeshTypes'
    BY <1>1, SameTree DEF PathInv, MeshTypes
  <2> QED
    BY <1>1, <2>1 DEF PathInv, Listed, Children
<1>4. DrawnInv'
  BY <1>1, <1>2, SameTree DEF DrawnInv, Children
<1>5. Acyclic' /\ ListedOnce' => OnceInv'
  BY <1>1, <1>2, SameTree DEF MeshInv, OnceInv, Children
<1> QED
  BY <1>3, <1>4, <1>5 DEF MeshInv

(* A call returns when it has come to each child.                          *)
LEMMA DrawReturnsStep ==
    ASSUME FewNames, MeshInv, DrawReturns
    PROVE  MeshInv'
<1> DEFINE n == Len(calls)
<1>1. /\ view = "draw" /\ calls # <<>> /\ MeshTypes /\ PathInv /\ DrawnInv
      /\ calls[n].next > Len(Children(calls[n].node))
      /\ UNCHANGED <<topology, first, view, roots, out>>
  BY DEF MeshInv, PathInv, DrawReturns, Top
<1>2. calls' = Popped(calls)
  BY DEF DrawReturns, Popped
<1>3. n \in Nat /\ n # 0 /\ \A k \in 1..n : calls[k].next \in Nat
  <2> DEFINE R == [node : Names, next : Nat \ {0}]
  <2>1. calls \in Seq(R)
    BY <1>1 DEF MeshTypes
  <2>2. n \in Nat /\ n # 0
    <3> HIDE DEF R
    <3> QED
      BY <1>1, <2>1, EmptySeq
  <2>3. \A k \in 1..n : calls[k] \in R
    BY <2>1, ElementOfSeq
  <2> QED
    BY <2>2, <2>3
<1>4. /\ calls' \in Seq([node : Names, next : Nat \ {0}])
      /\ Len(calls') = n - 1
      /\ \A k \in 1..(n - 1) : calls'[k] = calls[k]
  BY <1>1, <1>2, PopFacts DEF MeshTypes
<1> HIDE DEF n
<1>5. \A k \in 1..(n - 1) : k \in 1..n
  BY <1>3
<1>6. Drawn' = Drawn
  BY <1>1 DEF Drawn
<1>7. PathInv'
  <2>1. MeshTypes'
    BY <1>1, <1>4, SameTree DEF MeshTypes
  <2>2. Len(calls') <= MaxCalls
    BY <1>1, <1>3, <1>4, FewNames DEF PathInv, n, FewNames
  <2>3. ASSUME NEW k \in 1..(Len(calls') - 1)
        PROVE  calls'[k + 1].node \in Listed(calls'[k].node)
    <3>1. k \in 1..(n - 1) /\ k + 1 \in 1..(n - 1)
      BY <1>3, <1>4
    <3>2. calls[k + 1].node \in Listed(calls[k].node)
      BY <1>1, <3>1 DEF PathInv, n
    <3> QED
      BY <1>4, <3>1, <3>2
  <2>4. (\A k \in 1..(Len(calls) - 1) : calls[k + 1].node \in Listed(calls[k].node))'
    BY <1>1, <2>3 DEF Listed, Children
  <2> QED
    BY <1>1, <2>1, <2>2, <2>4 DEF PathInv
<1>8. DrawnInv'
  <2>1. ASSUME NEW m \in Drawn, NEW i \in 1..Len(Children(m)), Children(m)[i] \notin Drawn
        PROVE  \E k \in 1..Len(calls') : calls'[k].node = m /\ calls'[k].next <= i
    <3>1. PICK k \in 1..n : calls[k].node = m /\ calls[k].next <= i
      BY <1>1, <2>1 DEF DrawnInv, n
    <3>2. Len(Children(m)) \in Nat
      BY <1>1, ListedFacts
    <3>3. k # n
      BY <1>1, <1>3, <2>1, <3>1, <3>2
    <3>4. k \in 1..(n - 1)
      BY <1>3, <3>3
    <3> QED
      BY <1>4, <3>1, <3>4
  <2>2. \A m \in Drawn' : \A i \in 1..Len(Children(m)') :
           \/ Children(m)'[i] \in Drawn'
           \/ \E k \in 1..Len(calls') : calls'[k].node = m /\ calls'[k].next <= i
    BY <1>1, <1>6, <2>1, SameTree
  <2>3. \A k \in 1..Len(calls') : calls'[k].node \in Drawn'
    BY <1>1, <1>4, <1>5, <1>6 DEF DrawnInv, n
  <2>4. /\ roots' \subseteq Roots' /\ Roots' \subseteq roots' \cup Drawn'
        /\ Drawn' \subseteq TreeNames'
    BY <1>1, <1>6, SameTree DEF DrawnInv
  <2> QED
    BY <2>2, <2>3, <2>4 DEF DrawnInv
<1>9. ASSUME Acyclic', ListedOnce' PROVE OnceInv'
  <2>1. OnceInv
    BY <1>1, <1>9, SameTree DEF MeshInv
  <2>2. ASSUME NEW m, NEW i \in 1..Len(Children(m)), Children(m)[i] \in Drawn
        PROVE  m \in Drawn /\ \A k \in 1..Len(calls') : calls'[k].node = m => i < calls'[k].next
    BY <1>4, <1>5, <2>1, <2>2 DEF OnceInv, n
  <2>3. \A m : \A i \in 1..Len(Children(m)') :
           Children(m)'[i] \in Drawn' =>
               /\ m \in Drawn'
               /\ \A k \in 1..Len(calls') : calls'[k].node = m => i < calls'[k].next
    BY <1>1, <1>6, <2>2, SameTree
  <2> QED
    BY <1>1, <1>6, <2>1, <2>3 DEF OnceInv
<1> QED
  BY <1>7, <1>8, <1>9 DEF MeshInv

(* The drawing is shown when no call and no root is left.                  *)
LEMMA RenderEndsStep ==
    ASSUME MeshInv, RenderEnds
    PROVE  MeshInv'
<1>1. /\ UNCHANGED <<topology, first, roots, calls, out>> /\ calls = <<>> /\ roots = {}
      /\ view = "draw" /\ view' = "shown" /\ PathInv /\ DrawnInv
  BY DEF MeshInv, RenderEnds
<1>2. Drawn' = Drawn
  BY <1>1 DEF Drawn
<1>3. PathInv'
  <2>1. MeshTypes'
    BY <1>1, SameTree DEF PathInv, MeshTypes
  <2> QED
    BY <1>1, <2>1 DEF PathInv, Listed, Children
<1>4. DrawnInv'
  BY <1>1, <1>2, SameTree DEF DrawnInv, Children
<1>5. Acyclic' /\ ListedOnce' => OnceInv'
  BY <1>1, <1>2, SameTree DEF MeshInv, OnceInv, Children
<1> QED
  BY <1>3, <1>4, <1>5 DEF MeshInv

(* The drawing is over, and events come again.                            *)
LEMMA RefreshStep ==
    ASSUME MeshInv, Refresh
    PROVE  MeshInv'
<1>1. /\ UNCHANGED <<topology, first, roots, calls>> /\ calls = <<>> /\ roots = {}
      /\ view' = "feed" /\ out' = <<>> /\ PathInv
  BY DEF MeshInv, PathInv, Refresh
<1>2. Len(<<>>) = 0 /\ DOMAIN out' = {} /\ <<>> \in Seq(Names)
  BY <1>1
<1>3. Drawn' = {}
  BY <1>2 DEF Drawn
<1>4. PathInv'
  <2>1. MeshTypes'
    BY <1>1, <1>2, SameTree DEF PathInv, MeshTypes
  <2> QED
    BY <1>1, <1>2, <2>1 DEF PathInv, Listed, Children
<1>5. DrawnInv'
  BY <1>1, <1>2, <1>3 DEF DrawnInv
<1>6. OnceInv'
  BY <1>1, <1>2, <1>3 DEF OnceInv
<1> QED
  BY <1>4, <1>5, <1>6 DEF MeshInv

-----------------------------------------------------------------------------
(* At each step of a drawing the stack is a path down the tree, and what   *)
(* is not drawn yet is still ahead of some call or some root.              *)
THEOREM DrawingIsAWalk ==
    ASSUME FewNames
    PROVE  MeshSpec => []MeshInv
<1>1. MeshInit => MeshInv
  <2> SUFFICES ASSUME MeshInit PROVE MeshInv
    OBVIOUS
  <2>1. /\ topology = <<>> /\ first \in Names /\ view = "feed" /\ roots = {} /\ calls = <<>>
        /\ out = <<>> /\ Len(<<>>) = 0 /\ DOMAIN topology = {} /\ DOMAIN out = {}
    BY DEF MeshInit
  <2>2. Drawn = {}
    BY <2>1 DEF Drawn
  <2>3. <<>> \in Seq([node : Names, next : Nat \ {0}]) /\ <<>> \in Seq(Names)
    BY EmptySeq
  <2>4. PathInv
    BY <2>1, <2>3, FewNames DEF PathInv, MeshTypes, FewNames
  <2>5. DrawnInv /\ OnceInv
    BY <2>1, <2>2 DEF DrawnInv, OnceInv
  <2> QED
    BY <2>4, <2>5 DEF MeshInv
<1>2. MeshInv /\ [MeshNext]_meshVars => MeshInv'
  <2> SUFFICES ASSUME MeshInv, [MeshNext]_meshVars PROVE MeshInv'
    OBVIOUS
  <2>1. CASE OnTopology
    BY <2>1, OnTopologyStep
  <2>2. CASE Render
    BY <2>2, RenderStep
  <2>3. CASE DrawRoot
    BY <2>3, DrawRootStep
  <2>4. CASE DrawChild
    BY <2>4, DrawChildStep, RaiseStep
  <2>5. CASE DrawReturns
    BY <2>5, DrawReturnsStep
  <2>6. CASE RenderEnds
    BY <2>6, RenderEndsStep
  <2>7. CASE Refresh
    BY <2>7, RefreshStep
  <2>8. CASE UNCHANGED meshVars
    <3>1. UNCHANGED <<topology, first, view, roots, calls, out>>
      BY <2>8 DEF meshVars
    <3>2. Drawn' = Drawn
      BY <3>1 DEF Drawn
    <3>3. MeshTypes'
      BY <3>1, SameTree DEF MeshInv, PathInv, MeshTypes
    <3>4. PathInv'
      BY <3>1, <3>3 DEF MeshInv, PathInv, Listed, Children
    <3>5. DrawnInv'
      BY <3>1, <3>2, SameTree DEF MeshInv, DrawnInv, Children
    <3>6. Acyclic' /\ ListedOnce' => OnceInv'
      BY <3>1, <3>2, SameTree DEF MeshInv, OnceInv, Children
    <3> QED
      BY <3>4, <3>5, <3>6 DEF MeshInv
  <2> QED
    BY <2>1, <2>2, <2>3, <2>4, <2>5, <2>6, <2>7, <2>8 DEF MeshNext, Draw
<1> QED
  BY <1>1, <1>2, PTL DEF MeshSpec

(* Only a tree in which a node is below itself makes the drawing fail, as   *)
(* long as there are fewer names than the interpreter has calls.           *)
THEOREM RaiseCorrect ==
    ASSUME FewNames
    PROVE  MeshSpec => []RaisesOnCycleOnly
<1>1. MeshInv => RaisesOnCycleOnly
  <2> SUFFICES ASSUME MeshInv, view = "raised", Acyclic PROVE FALSE
    BY DEF RaisesOnCycleOnly
  <2>1. PathInv /\ Len(calls) = MaxCalls
    BY DEF MeshInv, PathInv
  <2>2. MaxCalls <= Cardinality(Names)
    BY <2>1, StackIsShort
  <2> QED
    BY <2>2, FewNames, FS_CardinalityType DEF FewNames
<1> QED
  BY <1>1, DrawingIsAWalk, PTL

(* Every parent and every child of a tree without a cycle is shown, and    *)
(* once if it is listed once.                                              *)
THEOREM TreeCorrectlyShown ==
    ASSUME FewNames
    PROVE  MeshSpec => []TreeIsShown
<1>1. MeshInv => TreeIsShown
  <2> SUFFICES ASSUME MeshInv, view = "shown", Acyclic
               PROVE  Drawn = TreeNames /\ (ListedOnce => OnceInv)
    BY DEF TreeIsShown, Drawn, OnceInv
  <2>1. calls = <<>> /\ Len(calls) = 0 /\ roots = {} /\ MeshTypes /\ DrawnInv
    BY DEF MeshInv, PathInv
  <2> DEFINE U == TreeNames \ Drawn
  <2>2. SUFFICES ASSUME U # {} PROVE FALSE
    BY <2>1 DEF MeshInv, DrawnInv
  <2>3. PICK n \in U : \A m \in U : n \notin Listed(m)
    BY <2>2 DEF Acyclic
  <2>4. CASE n \in ChildSet
    <3>1. PICK p \in DOMAIN topology : n \in Listed(p)
      BY <2>1, <2>4, ListedFacts
    <3>2. p \in Drawn
      BY <2>3, <3>1 DEF TreeNames
    <3>3. PICK i \in 1..Len(Children(p)) : n = Children(p)[i]
      BY <2>1, <3>1, ListedFacts
    <3> QED
      BY <2>1, <2>3, <3>2, <3>3 DEF DrawnInv
  <2>5. CASE n \notin ChildSet
    <3>1. n \in Roots
      BY <2>3, <2>5 DEF TreeNames, Roots
    <3> QED
      BY <2>1, <2>3, <3>1 DEF DrawnInv
  <2> QED
    BY <2>4, <2>5
<1> QED
  BY <1>1, DrawingIsAWalk, PTL

(* Type correctness of a drawing, its stack within the interpreter's.      *)
THEOREM MeshTypeCorrect ==
    ASSUME FewNames
    PROVE  MeshSpec => []MeshTypeOK
<1>1. MeshInv => MeshTypeOK
  BY ListedFacts DEF MeshInv, PathInv, MeshTypes, MeshTypeOK
<1> QED
  BY <1>1, DrawingIsAWalk, PTL
=============================================================================
