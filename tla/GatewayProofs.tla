---------------------------- MODULE GatewayProofs ----------------------------
(***************************************************************************)
(* Proofs about the gateway's application.  GatewayConsole: what the       *)
(* topology line says and what a frame finds on the console, for any       *)
(* number of neighbours and slots and every size of the line               *)
(* LineAssumption allows, however the three writers preempt each other and *)
(* the neighbour table changes.  Boot, which the node's application        *)
(* shares: the rail and the role LED, wherever the supply fails and        *)
(* however the OpenThread thread runs, for every number of polls and every *)
(* build.                                                                  *)
(***************************************************************************)
EXTENDS GatewayConsole, Boot, SequenceTheorems, WellFoundedInduction, TLAPS

-----------------------------------------------------------------------------
(***************************************************************************)
(* The console.                                                            *)
(***************************************************************************)

(* Every set of natural numbers that is not empty has a least one. *)
LEMMA LeastNatural ==
    ASSUME NEW S \in SUBSET Nat, S # {}
    PROVE  \E n \in S : \A k \in S : n <= k
<1>1. IsWellFoundedOn(OpToRel(<, Nat), Nat)
  BY NatLessThanWellFounded
<1>2. PICK n \in S : \A k \in S : ~(<<k, n>> \in OpToRel(<, Nat))
  BY <1>1, WFMin
<1>3. ASSUME NEW k \in S PROVE n <= k
  <2>1. k \in Nat /\ n \in Nat
    OBVIOUS
  <2>2. ~(<<k, n>> \in OpToRel(<, Nat))
    BY <1>2
  <2>3. ~(k < n)
    BY <2>1, <2>2 DEF OpToRel
  <2> QED
    BY <2>1, <2>3
<1> QED
  BY <1>3

(* The next slot in use is a slot behind the iterator, the first one that is used. *)
LEMMA NextSlotIsFirst ==
    ASSUME it \in 0..Slots, Later # {}
    PROVE  /\ NextSlot \in (it + 1)..Slots
           /\ table[NextSlot] # 0
           /\ \A r \in Later : NextSlot <= r
<1>1. Later \in SUBSET Nat
  BY SlotsAssumption DEF Later
<1>2. \E s \in Later : \A r \in Later : s <= r
  BY <1>1, LeastNatural
<1>3. NextSlot \in Later /\ \A r \in Later : NextSlot <= r
  BY <1>2 DEF NextSlot
<1> QED
  BY <1>3 DEF Later

(* Appending and emptying keep the type of the console.                    *)
LEMMA ConsoleType ==
    ASSUME NEW w \in Writer, at \in [Writer -> 0..2], current \in Seq(Writer \X {1, 2}),
           Fragment(w) \/ Newline(w)
    PROVE  /\ at' \in [Writer -> 0..2]
           /\ current' \in Seq(Writer \X {1, 2})
           /\ at' = [at EXCEPT ![w] = at'[w]]
<1>1. CASE Fragment(w)
  <2>1. at[w] \in {0, 1} /\ at[w] + 1 \in {1, 2} /\ at[w] + 1 \in 0..2
    BY <1>1 DEF Fragment
  <2>2. at' = [at EXCEPT ![w] = at[w] + 1] /\ current' = Append(current, <<w, at[w] + 1>>)
    BY <1>1 DEF Fragment
  <2>3. <<w, at[w] + 1>> \in Writer \X {1, 2}
    BY <2>1
  <2>4. current' \in Seq(Writer \X {1, 2})
    BY <2>2, <2>3, AppendProperties
  <2> QED
    BY <2>1, <2>2, <2>4
<1>2. CASE Newline(w)
  <2>1. <<>> \in Seq(Writer \X {1, 2}) /\ 0 \in 0..2
    OBVIOUS
  <2> QED
    BY <1>2, <2>1 DEF Newline
<1> QED
  BY <1>1, <1>2

(* Type correctness, but for the offset of the line.                       *)
Types == /\ table \in [1..Slots -> 0..Nodes]
         /\ tick \in 0..4
         /\ main \in {"sleep", "walk", "print"}
         /\ it \in 0..Slots
         /\ listed \in Seq(Node)
         /\ stayed \subseteq Node
         /\ seen \subseteq Node
         /\ at \in [Writer -> 0..2]
         /\ current \in Seq(Writer \X {1, 2})

(* The offset of the line is what its header, its neighbours and the closing *)
(* brackets have written, and that is always within the buffer.            *)
OffsetInv ==
    /\ main = "sleep" => off = 0
    /\ main = "walk" => /\ off = IF listed = <<>> THEN 36 ELSE 35 + 7 * Len(listed)
                        /\ off + 3 < LineSize
    /\ main = "print" => off \in 3..(LineSize - 1)

(* Every neighbour that kept its slot since the walk began is listed, or in a *)
(* slot the iterator has yet to reach; whoever is a neighbour or listed was *)
(* seen; and the line was closed because no slot was left, or no room.      *)
WalkInv ==
    /\ main = "walk" =>
         \A n \in stayed : n \in ToSet(listed) \/ \E s \in (it + 1)..Slots : table[s] = n
    /\ main = "print" => stayed \subseteq ToSet(listed) \/ LineFull
    /\ main # "sleep" => Neighbours \subseteq seen /\ ToSet(listed) \subseteq seen

(* The fragments of the frame are together at the end of what the console  *)
(* holds, and nothing is before them unless a thread it preempted has begun. *)
FrameInv ==
    /\ Len(current) >= at["frame"]
    /\ \A i \in 1..at["frame"] : current[Len(current) - at["frame"] + i] = <<"frame", i>>
    /\ ~Unfinished("topology") /\ ~Unfinished("log") => Len(current) = at["frame"]

Inv == Types /\ OffsetInv /\ WalkInv /\ FrameInv

-----------------------------------------------------------------------------
(* Room for one more neighbour is room for the brackets and the zero too.  *)
LEMMA MarginIsEnough ==
    ASSUME NEW n \in Nat
    PROVE  /\ 36 < LineSize - 8 => 42 + 3 < LineSize
           /\ 35 + 7 * n < LineSize - 8 => 35 + 7 * (n + 1) + 3 < LineSize
<1>1. LineSize \in Nat /\ LineSize >= 40 /\ LineSize % 7 # 2 /\ LineSize % 7 # 3
  BY LineAssumption
<1>2. 36 < LineSize - 8 => 42 + 3 < LineSize
  BY <1>1
<1>3. 35 + 7 * n < LineSize - 8 => 35 + 7 * (n + 1) + 3 < LineSize
  BY <1>1
<1> QED
  BY <1>2, <1>3

(* The walk sees a slot behind the iterator while there is one in use.     *)
LEMMA WalkStep ==
    ASSUME Types, Walk
    PROVE  /\ it' = NextSlot /\ it' \in (it + 1)..Slots
           /\ table[NextSlot] \in Node
           /\ listed' \in Seq(Node)
           /\ Len(listed') = Len(listed) + 1
           /\ ToSet(listed') = ToSet(listed) \cup {table[NextSlot]}
           /\ listed # <<>> => Len(listed) > 0
           /\ listed' # <<>>
<1>1. NextSlot \in (it + 1)..Slots /\ table[NextSlot] # 0
  BY NextSlotIsFirst DEF Types, Walk
<1>2. table[NextSlot] \in Node
  <2>1. NextSlot \in 1..Slots
    BY <1>1, SlotsAssumption DEF Types
  <2>2. table[NextSlot] \in 0..Nodes
    BY <2>1 DEF Types
  <2> QED
    BY <2>2, <1>1, SlotsAssumption DEF Node
<1>3. listed' = Append(listed, table[NextSlot]) /\ it' = NextSlot
  BY DEF Walk
<1>4. listed \in Seq(Node)
  BY DEF Types
<1>5. /\ listed' \in Seq(Node) /\ listed' # <<>>
      /\ Len(listed') = Len(listed) + 1
      /\ \A i \in 1..Len(listed) : listed'[i] = listed[i]
      /\ listed'[Len(listed) + 1] = table[NextSlot]
  BY <1>2, <1>3, <1>4, AppendProperties
<1>6. ToSet(listed') = ToSet(listed) \cup {table[NextSlot]}
  <2>1. DOMAIN listed' = 1..(Len(listed) + 1) /\ DOMAIN listed = 1..Len(listed)
    BY <1>4, <1>5
  <2>2. Len(listed) \in Nat
    BY <1>4
  <2> QED
    BY <1>5, <2>1, <2>2 DEF ToSet
<1>7. listed # <<>> => Len(listed) > 0
  BY <1>4
<1> QED
  BY <1>1, <1>2, <1>3, <1>5, <1>6, <1>7

(* The types hold initially and are kept.                                  *)
LEMMA TypesInitially == Init => Types
<1> SUFFICES ASSUME Init PROVE Types
  OBVIOUS
<1>1. table \in [1..Slots -> 0..Nodes]
  BY SlotsAssumption DEF Init
<1>2. at \in [Writer -> 0..2] /\ main \in {"sleep", "walk", "print"}
  BY DEF Init
<1>3. listed \in Seq(Node) /\ current \in Seq(Writer \X {1, 2})
  BY DEF Init
<1> QED
  BY <1>1, <1>2, <1>3, SlotsAssumption DEF Init, Types

(* Every step keeps the types, whichever thread takes it.                  *)
LEMMA TypesKept == Types /\ [Next]_vars => Types'
<1> SUFFICES ASSUME Types, [Next]_vars PROVE Types'
  OBVIOUS
<1>n. 0 \in 0..Slots /\ <<>> \in Seq(Node) /\ "frame" \in Writer /\ "topology" \in Writer
      /\ "log" \in Writer
  BY SlotsAssumption DEF Writer
<1>t. /\ table \in [1..Slots -> 0..Nodes] /\ tick \in 0..4
      /\ main \in {"sleep", "walk", "print"} /\ it \in 0..Slots /\ listed \in Seq(Node)
      /\ stayed \subseteq Node /\ seen \subseteq Node
      /\ at \in [Writer -> 0..2] /\ current \in Seq(Writer \X {1, 2})
  BY DEF Types
<1>1. CASE PrintFrame
  BY <1>1, <1>n, <1>t, ConsoleType DEF PrintFrame, Types, walkVars
<1>2. CASE FrameEnds
  BY <1>2, <1>n, <1>t, ConsoleType DEF FrameEnds, Types, walkVars
<1>3. CASE PrintLog
  BY <1>3, <1>n, <1>t, ConsoleType DEF PrintLog, Types, walkVars
<1>4. ASSUME NEW s \in 1..Slots, Leave(s) PROVE Types'
  <2>1. table' \in [1..Slots -> 0..Nodes]
    BY <1>4, <1>t, SlotsAssumption DEF Leave
  <2>2. stayed' \subseteq Node
    BY <1>4, <1>t DEF Leave
  <2> QED
    BY <1>4, <1>t, <2>1, <2>2 DEF Leave, Types
<1>5. ASSUME NEW n \in Node, NEW s \in 1..Slots, Join(n, s) PROVE Types'
  <2>1. table' \in [1..Slots -> 0..Nodes]
    BY <1>5, <1>t, SlotsAssumption DEF Join, Node
  <2>2. seen' \subseteq Node
    BY <1>5, <1>t DEF Join
  <2> QED
    BY <1>5, <1>t, <2>1, <2>2 DEF Join, Types
<1>6. CASE Second
  <2>1. tick' \in 0..4
    BY <1>6, <1>t DEF Second
  <2>2. /\ main' \in {"sleep", "walk", "print"}
        /\ it' \in 0..Slots /\ listed' \in Seq(Node)
        /\ stayed' \subseteq Node /\ seen' \subseteq Node
    BY <1>6, <1>t, <1>n DEF Second, walkVars, Neighbours
  <2> QED
    BY <1>6, <1>t, <2>1, <2>2 DEF Second, Types
<1>7. CASE Walk
  <2>1. it' \in 0..Slots /\ listed' \in Seq(Node)
    BY <1>7, <1>t, WalkStep, SlotsAssumption
  <2> QED
    BY <1>7, <1>t, <2>1 DEF Walk, Types
<1>8. CASE CloseLine
  BY <1>8, <1>t DEF CloseLine, Types
<1>9. CASE PrintTopology
  BY <1>9, <1>n, <1>t, ConsoleType DEF PrintTopology, Types, walkVars
<1>10. CASE TopologyEnds
  <2>1. at' \in [Writer -> 0..2] /\ current' \in Seq(Writer \X {1, 2})
    BY <1>10, <1>n, <1>t, ConsoleType DEF TopologyEnds
  <2>2. it' \in 0..Slots /\ listed' \in Seq(Node) /\ stayed' \subseteq Node /\ seen' \subseteq Node
    BY <1>10, <1>n DEF TopologyEnds
  <2>3. main' \in {"sleep", "walk", "print"}
    BY <1>10 DEF TopologyEnds
  <2> QED
    BY <1>10, <1>t, <2>1, <2>2, <2>3 DEF TopologyEnds, Types
<1>11. CASE UNCHANGED vars
  BY <1>11, <1>t DEF vars, walkVars, Types
<1> QED
  BY <1>1, <1>2, <1>3, <1>4, <1>5, <1>6, <1>7, <1>8, <1>9, <1>10, <1>11
     DEF Next, MainThread, OtThread

(* The offset follows the neighbours listed, and the margin is enough each *)
(* time one is added.                                                      *)
LEMMA OffsetKept == Types /\ Types' /\ OffsetInv /\ [Next]_vars => OffsetInv'
<1> SUFFICES ASSUME Types, Types', OffsetInv, [Next]_vars PROVE OffsetInv'
  OBVIOUS
<1>l. LineSize \in Nat /\ LineSize >= 40
  BY LineAssumption
<1>m. main \in {"sleep", "walk", "print"} /\ listed \in Seq(Node)
  BY DEF Types
<1>1. CASE UNCHANGED <<main, off, listed>>
  BY <1>1 DEF OffsetInv
<1>2. CASE Second
  <2>1. CASE tick' = 0
    BY <1>2, <1>l, <2>1 DEF Second, OffsetInv, Header
  <2>2. CASE tick' # 0
    BY <1>2, <2>2, <1>1 DEF Second, walkVars
  <2> QED
    BY <2>1, <2>2
<1>3. CASE Walk
  <2>1. /\ main = "walk" /\ main' = "walk" /\ off < LineSize - 8
        /\ off' = off + (IF listed = <<>> THEN 6 ELSE 7)
    BY <1>3 DEF Walk, RoomLeft, Entry
  <2>2. /\ Len(listed') = Len(listed) + 1 /\ listed' # <<>> /\ Len(listed) \in Nat
    BY <1>3, <1>m, WalkStep
  <2>3. CASE listed = <<>>
    <3>1. off = 36 /\ Len(listed) = 0
      BY <2>1, <2>3 DEF OffsetInv
    <3>2. off' = 42 /\ 42 + 3 < LineSize
      <4>1. 36 < LineSize - 8
        BY <2>1, <3>1
      <4> QED
        BY <2>1, <2>3, <3>1, <4>1, MarginIsEnough
    <3>3. Len(listed') = 1
      BY <2>2, <3>1
    <3>4. off' = 35 + 7 * Len(listed') /\ off' + 3 < LineSize
      BY <3>2, <3>3
    <3> QED
      BY <2>1, <2>2, <3>4 DEF OffsetInv
  <2>4. CASE listed # <<>>
    <3> DEFINE n == Len(listed)
    <3>1. off = 35 + 7 * n /\ n \in Nat
      BY <2>1, <2>2, <2>4 DEF OffsetInv
    <3>2. 35 + 7 * (n + 1) + 3 < LineSize
      BY <2>1, <3>1, MarginIsEnough
    <3>3. off' = 35 + 7 * (n + 1)
      BY <2>1, <2>4, <3>1
    <3>4. off' = 35 + 7 * Len(listed') /\ off' + 3 < LineSize
      BY <2>2, <3>2, <3>3
    <3> QED
      BY <2>1, <2>2, <3>4 DEF OffsetInv
  <2> QED
    BY <2>3, <2>4
<1>4. CASE CloseLine
  <2>1. main = "walk" /\ main' = "print" /\ off' = off + 3
    BY <1>4 DEF CloseLine
  <2>2. off \in Nat
    <3>1. Len(listed) \in Nat
      BY <1>m
    <3> QED
      BY <2>1, <3>1 DEF OffsetInv
  <2>3. off + 3 < LineSize
    BY <2>1 DEF OffsetInv
  <2>4. off' \in 3..(LineSize - 1)
    BY <2>1, <2>2, <2>3, <1>l
  <2> QED
    BY <2>1, <2>4 DEF OffsetInv
<1>5. CASE TopologyEnds
  BY <1>5 DEF TopologyEnds, OffsetInv
<1> QED
  BY <1>1, <1>2, <1>3, <1>4, <1>5
     DEF Next, MainThread, OtThread, PrintFrame, FrameEnds, PrintLog, Leave, Join,
         PrintTopology, walkVars, vars

(* What the walk has passed, and what was a neighbour meanwhile.           *)
LEMMA WalkKept ==
    Types /\ Types' /\ OffsetInv /\ WalkInv /\ [Next]_vars => WalkInv'
<1> SUFFICES ASSUME Types, Types', OffsetInv, WalkInv, [Next]_vars PROVE WalkInv'
  OBVIOUS
<1>t. /\ table \in [1..Slots -> 0..Nodes] /\ main \in {"sleep", "walk", "print"}
      /\ it \in 0..Slots /\ listed \in Seq(Node) /\ Slots \in Nat /\ stayed \subseteq Node
  BY SlotsAssumption DEF Types
<1>1. CASE UNCHANGED <<table, main, walkVars>>
  BY <1>1 DEF WalkInv, walkVars, LineFull, Neighbours
<1>2. ASSUME NEW s \in 1..Slots, Leave(s) PROVE WalkInv'
  <2>1. /\ table' = [table EXCEPT ![s] = 0] /\ stayed' = stayed \ {table[s]}
        /\ UNCHANGED <<main, it, off, listed, seen>>
    BY <1>2 DEF Leave
  <2>2. Neighbours' \subseteq Neighbours
    BY <1>t, <2>1, SlotsAssumption DEF Neighbours, Node
  <2>3. ASSUME NEW n \in stayed', NEW r \in (it + 1)..Slots, table[r] = n
        PROVE  table'[r] = n
    <3>1. r \in 1..Slots /\ r # s
      BY <1>t, <2>1, <2>3
    <3> QED
      BY <1>t, <2>1, <2>3, <3>1
  <2>4. main = "walk" =>
          \A n \in stayed' : n \in ToSet(listed) \/ \E r \in (it + 1)..Slots : table'[r] = n
    <3> SUFFICES ASSUME main = "walk", NEW n \in stayed', n \notin ToSet(listed)
                 PROVE  \E r \in (it + 1)..Slots : table'[r] = n
      OBVIOUS
    <3>1. n \in stayed
      BY <2>1
    <3>2. PICK r \in (it + 1)..Slots : table[r] = n
      BY <3>1 DEF WalkInv
    <3> QED
      BY <2>3, <3>2
  <2> QED
    BY <2>1, <2>2, <2>4 DEF WalkInv, LineFull
<1>3. ASSUME NEW n \in Node, NEW s \in 1..Slots, Join(n, s) PROVE WalkInv'
  <2>1. /\ table' = [table EXCEPT ![s] = n] /\ table[s] = 0 /\ seen' = seen \cup {n}
        /\ UNCHANGED <<main, it, off, listed, stayed>>
    BY <1>3 DEF Join
  <2>2. Neighbours' \subseteq Neighbours \cup {n}
    BY <1>t, <2>1 DEF Neighbours
  <2>3. ASSUME NEW m \in stayed, NEW r \in (it + 1)..Slots, table[r] = m
        PROVE  table'[r] = m
    <3>1. r \in 1..Slots /\ r # s
      BY <1>t, <2>1, <2>3 DEF Node
    <3> QED
      BY <1>t, <2>1, <2>3, <3>1
  <2>4. main = "walk" =>
          \A m \in stayed : m \in ToSet(listed) \/ \E r \in (it + 1)..Slots : table'[r] = m
    BY <2>3 DEF WalkInv
  <2> QED
    BY <2>1, <2>2, <2>4 DEF WalkInv, LineFull
<1>4. CASE Second
  <2>1. CASE tick' = 0
    <3>1. /\ main' = "walk" /\ it' = 0 /\ listed' = <<>> /\ table' = table
          /\ stayed' = Neighbours /\ seen' = Neighbours
      BY <1>4, <2>1 DEF Second
    <3>2. \A n \in Neighbours : \E s \in (0 + 1)..Slots : table[s] = n
      BY DEF Neighbours
    <3>3. ToSet(listed') = {} /\ Neighbours' = Neighbours
      BY <3>1 DEF ToSet, Neighbours
    <3> QED
      BY <3>1, <3>2, <3>3 DEF WalkInv
  <2>2. CASE tick' # 0
    BY <1>4, <2>2, <1>1 DEF Second, walkVars
  <2> QED
    BY <2>1, <2>2
<1>5. CASE Walk
  <2>1. /\ it' = NextSlot /\ it' \in (it + 1)..Slots /\ table[NextSlot] \in Node
        /\ ToSet(listed') = ToSet(listed) \cup {table[NextSlot]}
    BY <1>5, WalkStep
  <2>2. main = "walk" /\ main' = "walk" /\ UNCHANGED <<table, stayed, seen>>
    BY <1>5 DEF Walk
  <2>3. \A r \in Later : NextSlot <= r
    BY <1>5, <1>t, NextSlotIsFirst DEF Walk
  <2>4. ASSUME NEW n \in stayed', n \notin ToSet(listed')
        PROVE  \E r \in (it' + 1)..Slots : table'[r] = n
    <3>1. n \in stayed /\ n \notin ToSet(listed) /\ n # table[NextSlot] /\ n \in Node
      BY <1>t, <2>1, <2>2, <2>4
    <3>2. PICK r \in (it + 1)..Slots : table[r] = n
      BY <2>2, <3>1 DEF WalkInv
    <3>3. r \in Later /\ r # NextSlot
      BY <3>1, <3>2 DEF Later, Node
    <3>4. r \in (it' + 1)..Slots
      BY <1>t, <2>1, <2>3, <3>2, <3>3
    <3> QED
      BY <2>2, <3>2, <3>4
  <2>5. table[NextSlot] \in Neighbours
    BY <1>t, <2>1 DEF Neighbours
  <2>6. Neighbours' = Neighbours
    BY <2>2 DEF Neighbours
  <2> QED
    BY <2>1, <2>2, <2>4, <2>5, <2>6 DEF WalkInv
<1>6. CASE CloseLine
  <2>1. /\ main = "walk" /\ main' = "print" /\ off' = off + 3
        /\ UNCHANGED <<table, it, listed, stayed, seen>>
    BY <1>6 DEF CloseLine
  <2>2. CASE Later = {}
    <3>1. ASSUME NEW n \in stayed PROVE n \in ToSet(listed)
      <4>1. n # 0
        BY <1>t, <3>1, SlotsAssumption DEF Node
      <4> QED
        BY <2>1, <2>2, <3>1, <4>1 DEF WalkInv, Later
    <3> QED
      BY <2>1, <3>1 DEF WalkInv, Neighbours
  <2>3. CASE ~RoomLeft
    <3>1. off \in Int /\ LineSize \in Nat
      <4>1. Len(listed) \in Nat
        BY <1>t
      <4> QED
        BY <2>1, <4>1, LineAssumption DEF OffsetInv
    <3>2. off' - 3 >= LineSize - 8
      BY <2>1, <2>3, <3>1 DEF RoomLeft
    <3> QED
      BY <2>1, <3>2 DEF WalkInv, LineFull, Neighbours
  <2> QED
    BY <1>6, <2>2, <2>3 DEF CloseLine
<1>7. CASE TopologyEnds
  BY <1>7 DEF TopologyEnds, WalkInv
<1> QED
  BY <1>1, <1>2, <1>3, <1>4, <1>5, <1>6, <1>7
     DEF Next, MainThread, OtThread, PrintFrame, FrameEnds, PrintLog,
         PrintTopology, walkVars, vars

(* The two threads below the OpenThread thread run when no frame is begun.  *)
LEMMA MayRunBelow ==
    ASSUME NEW w \in {"topology", "log"}, MayRun(w)
    PROVE  ~Unfinished("frame")
<1>1. CASE w = "topology"
  BY <1>1 DEF MayRun
<1>2. CASE w = "log"
  BY <1>2 DEF MayRun
<1> QED
  BY <1>1, <1>2

(* Whoever is below the frame waits until it is finished, and starts the   *)
(* next line with an empty console.                                        *)
LEMMA FrameKept == Types /\ Types' /\ FrameInv /\ [Next]_vars => FrameInv'
<1> SUFFICES ASSUME Types, Types', FrameInv, [Next]_vars PROVE FrameInv'
  OBVIOUS
<1>t. /\ at \in [Writer -> 0..2] /\ current \in Seq(Writer \X {1, 2})
      /\ Len(current) \in Nat
      /\ at["frame"] \in 0..2 /\ at["topology"] \in 0..2 /\ at["log"] \in 0..2
  BY DEF Types, Writer
<1>1. CASE PrintFrame
  <2> DEFINE f == at["frame"]
  <2>1. /\ f \in 0..1 /\ at' = [at EXCEPT !["frame"] = f + 1]
        /\ current' = Append(current, <<"frame", f + 1>>)
    BY <1>1, <1>t DEF PrintFrame, Fragment
  <2>2. at'["frame"] = f + 1 /\ at'["topology"] = at["topology"] /\ at'["log"] = at["log"]
    BY <1>t, <2>1 DEF Writer
  <2>3. <<"frame", f + 1>> \in Writer \X {1, 2}
    BY <2>1 DEF Writer
  <2>4. /\ Len(current') = Len(current) + 1
        /\ \A i \in 1..Len(current) : current'[i] = current[i]
        /\ current'[Len(current) + 1] = <<"frame", f + 1>>
    BY <1>t, <2>1, <2>3, AppendProperties
  <2>5. ASSUME NEW i \in 1..(f + 1)
        PROVE  current'[Len(current') - (f + 1) + i] = <<"frame", i>>
    <3>1. Len(current') - (f + 1) + i = Len(current) - f + i /\ f \in Nat
      BY <1>t, <2>1, <2>4
    <3>2. CASE i = f + 1
      <4>1. Len(current) - f + i = Len(current) + 1
        BY <1>t, <3>1, <3>2
      <4> QED
        BY <2>4, <3>1, <3>2, <4>1
    <3>3. CASE i # f + 1
      <4>1. i \in 1..f /\ Len(current) >= f
        BY <2>5, <3>1, <3>3 DEF FrameInv
      <4>2. Len(current) - f + i \in 1..Len(current)
        BY <1>t, <2>1, <4>1
      <4>3. current[Len(current) - f + i] = <<"frame", i>>
        BY <4>1 DEF FrameInv
      <4> QED
        BY <2>4, <3>1, <4>2, <4>3
    <3> QED
      BY <3>2, <3>3
  <2>6. Len(current') >= f + 1
    BY <1>t, <2>1, <2>4 DEF FrameInv
  <2>7. ~Unfinished("topology")' /\ ~Unfinished("log")' => Len(current') = f + 1
    BY <1>t, <2>1, <2>2, <2>4 DEF FrameInv, Unfinished
  <2> HIDE DEF f
  <2> QED
    BY <2>2, <2>5, <2>6, <2>7 DEF FrameInv
<1>2. CASE FrameEnds
  <2>1. at'["frame"] = 0 /\ Len(current') = 0
    BY <1>2, <1>t DEF FrameEnds, Newline, Writer
  <2> QED
    BY <2>1 DEF FrameInv
<1>3. ASSUME NEW w \in {"topology", "log"}, MayRun(w), Fragment(w) PROVE FrameInv'
  <2>1. at["frame"] = 0
    <3>1. ~(at["frame"] > 0)
      BY <1>3, MayRunBelow DEF Unfinished
    <3> QED
      BY <1>t, <3>1
  <2>2. at'["frame"] = 0 /\ at'[w] > 0
    BY <1>3, <1>t, <2>1 DEF Fragment, Writer
  <2>3. Len(current') >= 0
    BY DEF Types
  <2> QED
    BY <1>3, <2>2, <2>3 DEF FrameInv, Unfinished
<1>4. ASSUME NEW w \in {"topology", "log"}, MayRun(w), Newline(w) PROVE FrameInv'
  <2>1. at["frame"] = 0
    <3>1. ~(at["frame"] > 0)
      BY <1>4, MayRunBelow DEF Unfinished
    <3> QED
      BY <1>t, <3>1
  <2>2. at'["frame"] = 0 /\ Len(current') = 0
    BY <1>4, <1>t, <2>1 DEF Newline, Writer
  <2> QED
    BY <2>2 DEF FrameInv
<1>5. CASE UNCHANGED <<at, current>>
  BY <1>5 DEF FrameInv, Unfinished
<1> QED
  BY <1>1, <1>2, <1>3, <1>4, <1>5
     DEF Next, MainThread, OtThread, PrintLog, Second, Walk, CloseLine, PrintTopology,
         TopologyEnds, Leave, Join, vars

-----------------------------------------------------------------------------
(* The inductive invariant of the console.                                 *)
THEOREM ConsoleCorrect == Spec => []Inv
<1>1. Init => Inv
  <2> SUFFICES ASSUME Init PROVE Inv
    OBVIOUS
  <2>1. Types
    BY TypesInitially
  <2>2. OffsetInv
    BY DEF Init, OffsetInv
  <2>3. WalkInv
    BY DEF Init, WalkInv
  <2>4. FrameInv
    <3>1. at["frame"] = 0 /\ Len(current) = 0
      BY DEF Init, Writer
    <3> QED
      BY <3>1 DEF FrameInv
  <2> QED
    BY <2>1, <2>2, <2>3, <2>4 DEF Inv
<1>2. Inv /\ [Next]_vars => Inv'
  <2>1. Inv /\ [Next]_vars => Types'
    BY TypesKept DEF Inv
  <2> QED
    BY <2>1, OffsetKept, WalkKept, FrameKept DEF Inv
<1> QED
  BY <1>1, <1>2, PTL DEF Spec

(* Type correctness, the offset of the topology line included: it never    *)
(* leaves the buffer (emit_topology).                                      *)
THEOREM TypeCorrect == Spec => []TypeOK
<1>1. Inv => TypeOK
  <2> SUFFICES ASSUME Inv PROVE TypeOK
    OBVIOUS
  <2>1. Types /\ main \in {"sleep", "walk", "print"} /\ listed \in Seq(Node)
    BY DEF Inv, Types
  <2>2. LineSize \in Nat
    BY LineAssumption
  <2>3. CASE main = "sleep"
    BY <2>1, <2>2, <2>3 DEF Inv, Types, OffsetInv, TypeOK
  <2>4. CASE main = "walk"
    <3>1. Len(listed) \in Nat
      BY <2>1
    <3>2. off \in 0..LineSize
      BY <2>2, <2>4, <3>1 DEF Inv, OffsetInv
    <3> QED
      BY <2>1, <3>2 DEF Types, TypeOK
  <2>5. CASE main = "print"
    <3>1. off \in 0..LineSize
      BY <2>2, <2>5 DEF Inv, OffsetInv
    <3> QED
      BY <2>1, <3>1 DEF Types, TypeOK
  <2> QED
    BY <2>1, <2>3, <2>4, <2>5
<1> QED
  BY <1>1, ConsoleCorrect, PTL

(* The tree lists every neighbour that kept its slot, unless the line is full, *)
(* and nobody who was not a neighbour meanwhile, and the line fits its buffer *)
(* (emit_topology, while OpenThread changes the table under the iterator).  *)
THEOREM TreeCorrect == Spec => []TreeIsHonest
<1>1. Inv => TreeIsHonest
  BY LineAssumption DEF Inv, OffsetInv, WalkInv, TreeIsHonest
<1> QED
  BY <1>1, ConsoleCorrect, PTL

(* The first n entries of a sequence.                                      *)
LEMMA SubSeqFront ==
    ASSUME NEW S, NEW s, NEW n \in Nat, \A i \in 1..n : s[i] \in S
    PROVE  /\ SubSeq(s, 1, n) \in Seq(S) /\ Len(SubSeq(s, 1, n)) = n
           /\ \A i \in 1..n : SubSeq(s, 1, n)[i] = s[i]
<1>1. 1 \in Int /\ n \in Int
  OBVIOUS
<1>2. /\ SubSeq(s, 1, n) \in Seq(S)
      /\ Len(SubSeq(s, 1, n)) = IF 1 <= n THEN n - 1 + 1 ELSE 0
      /\ \A i \in 1..(n - 1 + 1) : SubSeq(s, 1, n)[i] = s[1 + i - 1]
  BY <1>1, SubSeqProperties
<1>3. n - 1 + 1 = n
  OBVIOUS
<1>4. \A i \in 1..n : 1 + i - 1 = i
  OBVIOUS
<1> QED
  BY <1>2, <1>3, <1>4

(* A sequence that ends with the entries of another has it for a suffix.   *)
LEMMA SuffixByEntries ==
    ASSUME NEW S, NEW s \in Seq(S), NEW t \in Seq(S), Len(s) <= Len(t),
           \A i \in 1..Len(s) : t[Len(t) - Len(s) + i] = s[i]
    PROVE  IsSuffix(s, t)
<1>1. Len(s) \in Nat /\ Len(t) \in Nat
  OBVIOUS
<1> DEFINE r == Reverse(s)
           u == Reverse(t)
<1>2. /\ Len(r) = Len(s) /\ Len(u) = Len(t)
      /\ \A i \in 1..Len(s) : r[i] = s[Len(s) - i + 1]
      /\ \A i \in 1..Len(t) : u[i] = t[Len(t) - i + 1]
  BY <1>1 DEF Reverse
<1>3. \A i \in 1..Len(s) : r[i] = u[i]
  <2> SUFFICES ASSUME NEW i \in 1..Len(s) PROVE r[i] = u[i]
    OBVIOUS
  <2> DEFINE j == Len(s) - i + 1
  <2>1. j \in 1..Len(s) /\ Len(t) - Len(s) + j = Len(t) - i + 1 /\ i \in 1..Len(t)
    BY <1>1
  <2>2. t[Len(t) - Len(s) + j] = s[j]
    BY <2>1
  <2> QED
    BY <1>2, <2>1, <2>2
<1> HIDE DEF r, u
<1>4. SubSeq(r, 1, Len(r)) = SubSeq(u, 1, Len(r))
  <2>1. \A i \in 1..Len(r) : r[i] \in S /\ u[i] \in S
    BY <1>1, <1>2, <1>3 DEF r, u, Reverse
  <2>2. /\ SubSeq(r, 1, Len(r)) \in Seq(S) /\ Len(SubSeq(r, 1, Len(r))) = Len(r)
        /\ \A i \in 1..Len(r) : SubSeq(r, 1, Len(r))[i] = r[i]
    BY <1>1, <1>2, <2>1, SubSeqFront
  <2>3. /\ SubSeq(u, 1, Len(r)) \in Seq(S) /\ Len(SubSeq(u, 1, Len(r))) = Len(r)
        /\ \A i \in 1..Len(r) : SubSeq(u, 1, Len(r))[i] = u[i]
    BY <1>1, <1>2, <2>1, SubSeqFront
  <2> QED
    BY <1>2, <1>3, <2>2, <2>3, SeqEqual
<1> QED
  BY <1>1, <1>2, <1>4 DEF IsSuffix, IsPrefix, r, u

(* A frame reaches the console in one piece, and shares its line only with a *)
(* writer it preempted (gateway_usb_print_line in the OpenThread thread).   *)
THEOREM FrameCorrect == Spec => FrameContiguous
<1> DEFINE Whole == FrameEnds => /\ IsSuffix(Line("frame"), current)
                                 /\ \/ current = Line("frame")
                                    \/ Unfinished("topology") \/ Unfinished("log")
<1>1. Inv => Whole
  <2> SUFFICES ASSUME Types, FrameInv, FrameEnds
               PROVE  /\ IsSuffix(Line("frame"), current)
                      /\ \/ current = Line("frame")
                         \/ Unfinished("topology") \/ Unfinished("log")
    BY DEF Inv
  <2>1. current \in Seq(Writer \X {1, 2}) /\ Len(current) \in Nat
    BY DEF Types
  <2>2. /\ Line("frame") \in Seq(Writer \X {1, 2}) /\ Len(Line("frame")) = 2
        /\ \A i \in 1..2 : Line("frame")[i] = <<"frame", i>>
    BY DEF Line, Writer
  <2>3. at["frame"] = 2
    BY DEF FrameEnds, Newline
  <2>4. /\ Len(current) >= 2
        /\ \A i \in 1..2 : current[Len(current) - 2 + i] = <<"frame", i>>
        /\ ~Unfinished("topology") /\ ~Unfinished("log") => Len(current) = 2
    BY <2>3 DEF FrameInv
  <2>5. IsSuffix(Line("frame"), current)
    <3> DEFINE l == Line("frame")
    <3>1. l \in Seq(Writer \X {1, 2}) /\ Len(l) <= Len(current)
      BY <2>1, <2>2, <2>4
    <3>2. \A i \in 1..Len(l) : current[Len(current) - Len(l) + i] = l[i]
      BY <2>2, <2>4
    <3> HIDE DEF l
    <3>3. IsSuffix(l, current)
      BY <2>1, <3>1, <3>2, SuffixByEntries
    <3> QED
      BY <3>3 DEF l
  <2>6. Len(current) = 2 => current = Line("frame")
    <3> SUFFICES ASSUME Len(current) = 2 PROVE current = Line("frame")
      OBVIOUS
    <3>1. \A i \in 1..2 : current[i] = Line("frame")[i]
      <4>1. \A i \in 1..2 : Len(current) - 2 + i = i
        OBVIOUS
      <4> QED
        BY <2>2, <2>4, <4>1
    <3> QED
      BY <2>1, <2>2, <3>1, SeqEqual
  <2> QED
    BY <2>4, <2>5, <2>6
<1> QED
  BY <1>1, ConsoleCorrect, PTL DEF FrameContiguous

-----------------------------------------------------------------------------
(***************************************************************************)
(* The boot.                                                               *)
(***************************************************************************)

(* What the type invariant says of each variable.                          *)
LEMMA BootTypes ==
    ASSUME BootTypeOK
    PROVE  /\ high \in BOOLEAN /\ writable \in BOOLEAN /\ settings \in BOOLEAN
           /\ running \in BOOLEAN /\ attached \in BOOLEAN /\ told \in BOOLEAN
           /\ registered \in BOOLEAN /\ red \in BOOLEAN /\ coap \in BOOLEAN
  BY DEF BootTypeOK

(* Type correctness of the boot.                                           *)
THEOREM BootTypeCorrect == BootSpec => []BootTypeOK
<1> DEFINE Bools == {high, writable, settings, running, attached, told, registered, red, coap}
           Places == /\ build \in Builds
                     /\ pc \in {"off", "rail", "enable", "write", "disable", "reset", "stack",
                                "bsp", "wipe", "register", "run", "wait", "coap", "loop",
                                "returned"}
           Rails == vout \in Partial /\ rail \in Partial
<1> USE BootAssumption DEF Partial, DEFAULT, V3V0
<1>0. BootTypeOK <=> Places /\ Rails /\ polls \in 0..MaxPolls /\ Bools \subseteq BOOLEAN
  BY DEF BootTypeOK
<1>1. BootInit => BootTypeOK
  <2> SUFFICES ASSUME BootInit PROVE BootTypeOK
    OBVIOUS
  <2>1. Places
    BY DEF BootInit
  <2>2. Rails
    BY DEF BootInit
  <2>3. polls \in 0..MaxPolls
    BY DEF BootInit
  <2>4. Bools \subseteq BOOLEAN
    BY DEF BootInit
  <2> QED
    BY <1>0, <2>1, <2>2, <2>3, <2>4
<1>2. BootTypeOK /\ [BootNext]_bootVars => BootTypeOK'
  <2> SUFFICES ASSUME BootTypeOK, [BootNext]_bootVars PROVE BootTypeOK'
    OBVIOUS
  <2>0. /\ high \in BOOLEAN /\ writable \in BOOLEAN /\ settings \in BOOLEAN
        /\ running \in BOOLEAN /\ attached \in BOOLEAN /\ told \in BOOLEAN
        /\ registered \in BOOLEAN /\ red \in BOOLEAN /\ coap \in BOOLEAN
    BY BootTypes
  <2> USE DEF power, uicr, thread, led, Goto, Restart
  <2>1. Places'
    BY <1>0 DEF BootNext, Cpu, CheckRail, EnableWrite, WriteRegOut, DisableWrite, SystemReset,
                InitStack, BspInit, EraseSettings, Register, RunThread, WaitAttached,
                StartCoap, PowerOn, PowerFails, RoleChanges, OnStateChanged, bootVars
  <2>2. Rails'
    BY <1>0 DEF BootNext, Cpu, CheckRail, EnableWrite, WriteRegOut, DisableWrite, SystemReset,
                InitStack, BspInit, EraseSettings, Register, RunThread, WaitAttached,
                StartCoap, PowerOn, PowerFails, RoleChanges, OnStateChanged, bootVars
  <2>3. polls' \in 0..MaxPolls
    BY <1>0 DEF BootNext, Cpu, CheckRail, EnableWrite, WriteRegOut, DisableWrite, SystemReset,
                InitStack, BspInit, EraseSettings, Register, RunThread, WaitAttached,
                StartCoap, PowerOn, PowerFails, RoleChanges, OnStateChanged, bootVars
  <2>4. Bools' \subseteq BOOLEAN
    BY <2>0 DEF BootNext, Cpu, CheckRail, EnableWrite, WriteRegOut, DisableWrite, SystemReset,
                InitStack, BspInit, EraseSettings, Register, RunThread, WaitAttached,
                StartCoap, PowerOn, PowerFails, RoleChanges, OnStateChanged, bootVars
  <2> QED
    BY <2>1, <2>2, <2>3, <2>4 DEF BootTypeOK
<1> QED
  BY <1>1, <1>2, PTL DEF BootSpec

(* The rail that the code runs on is the one the last reset read from      *)
(* UICR: until the hook has decided, UICR has not changed since.           *)
RailInv == RailRaised /\ (pc = "rail" => rail = vout)

(* No application code runs on a board in high-voltage mode whose rail is  *)
(* still the 1.8 V of an erased chip, wherever the supply failed before,   *)
(* in the middle of the write of UICR too.                                 *)
THEOREM RailCorrect == BootSpec => []RailRaised
<1> USE DEF RailInv, RailRaised, power, uicr, thread, led, Goto, Restart
<1>1. BootInit => RailInv
  BY DEF BootInit
<1>2. RailInv /\ [BootNext]_bootVars => RailInv'
  <2> SUFFICES ASSUME RailInv, [BootNext]_bootVars PROVE RailInv'
    OBVIOUS
  <2>1. CASE CheckRail
    BY <2>1 DEF CheckRail
  <2>2. CASE EnableWrite \/ WriteRegOut \/ DisableWrite
    BY <2>2 DEF EnableWrite, WriteRegOut, DisableWrite
  <2>3. CASE SystemReset \/ PowerOn
    BY <2>3 DEF SystemReset, PowerOn
  <2>4. CASE PowerFails
    BY <2>4 DEF PowerFails
  <2>5. CASE InitStack \/ BspInit \/ EraseSettings \/ Register \/ RunThread
    BY <2>5 DEF InitStack, BspInit, EraseSettings, Register, RunThread
  <2>6. CASE WaitAttached \/ StartCoap
    BY <2>6 DEF WaitAttached, StartCoap
  <2>7. CASE RoleChanges \/ OnStateChanged \/ UNCHANGED bootVars
    BY <2>7 DEF RoleChanges, OnStateChanged, bootVars
  <2> QED
    BY <2>1, <2>2, <2>3, <2>4, <2>5, <2>6, <2>7 DEF BootNext, Cpu
<1> QED
  BY <1>1, <1>2, PTL DEF BootSpec

(* Only the callback lights the LED, after main has registered it; and a   *)
(* stack that main starts, or has disabled for the factory reset, has no   *)
(* role while the registration is still to come.                           *)
LedInv ==
    /\ LedShowsRole
    /\ red => registered
    /\ registered => pc \in {"run", "wait", "coap", "loop", "returned"}
    /\ running => pc \notin {"off", "rail", "enable", "write", "disable", "reset", "stack"}
    /\ ~running => ~attached
    /\ running /\ build.manual => pc \in {"wait", "coap", "loop", "returned"}
    /\ pc = "register" /\ build.reset => ~running

(* In every build the gateway's red LED shows no attachment that is gone,  *)
(* and in those whose stack comes up behind the registration it shows      *)
(* every attachment, whenever every change of the role has been told.      *)
THEOREM RoleLedCorrect == BootSpec => []LedShowsRole
<1> USE DEF LedInv, LedShowsRole, power, uicr, thread, led, Goto, Restart
<1>1. BootInit => LedInv
  BY DEF BootInit
<1>2. BootTypeOK /\ LedInv /\ [BootNext]_bootVars => LedInv'
  <2> SUFFICES ASSUME BootTypeOK, LedInv, [BootNext]_bootVars PROVE LedInv'
    OBVIOUS
  <2>0. /\ running \in BOOLEAN /\ attached \in BOOLEAN /\ told \in BOOLEAN
        /\ registered \in BOOLEAN /\ red \in BOOLEAN
    BY BootTypes
  <2>1. CASE CheckRail \/ EnableWrite \/ WriteRegOut \/ DisableWrite
    BY <2>1 DEF CheckRail, EnableWrite, WriteRegOut, DisableWrite
  <2>2. CASE SystemReset \/ PowerOn \/ PowerFails
    BY <2>2 DEF SystemReset, PowerOn, PowerFails
  <2>3. CASE InitStack
    <3>1. /\ pc = "stack" /\ pc' = "bsp"
          /\ build.manual => ~running'
          /\ UNCHANGED <<build, attached, told, registered, red>>
      BY <2>3 DEF InitStack
    <3>2. ~attached /\ ~registered
      BY <3>1
    <3> QED
      BY <2>0, <3>1, <3>2
  <2>4. CASE EraseSettings
    BY <2>0, <2>4 DEF EraseSettings, BootTypeOK
  <2>5. CASE Register
    BY <2>0, <2>5 DEF Register
  <2>6. CASE RunThread
    BY <2>0, <2>6 DEF RunThread
  <2>7. CASE WaitAttached \/ StartCoap
    BY <2>0, <2>7 DEF WaitAttached, StartCoap
  <2>8. CASE RoleChanges
    BY <2>0, <2>8 DEF RoleChanges
  <2>9. CASE OnStateChanged
    BY <2>0, <2>9 DEF OnStateChanged
  <2>10. CASE UNCHANGED bootVars
    BY <2>10 DEF bootVars
  <2>11. CASE BspInit
    BY <2>0, <2>11 DEF BspInit
  <2> QED
    BY <2>1, <2>2, <2>3, <2>4, <2>5, <2>6, <2>7, <2>8, <2>9, <2>10, <2>11 DEF BootNext, Cpu
<1> QED
  BY <1>1, <1>2, BootTypeCorrect, PTL DEF BootSpec
=============================================================================
