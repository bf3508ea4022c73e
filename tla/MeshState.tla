----------------------------- MODULE MeshState -----------------------------
(***************************************************************************)
(* The topology of the PC tool's MeshState (cookie_pctool/state.py): the   *)
(* tree of the last topology event, and render_topology_ascii, which draws *)
(* it between two drains of the queue.  The main thread does both, so no   *)
(* event comes into a drawing.  _draw_subtree calls itself for each child, *)
(* without a set of visited nodes; its calls are the stack here, and the   *)
(* interpreter bounds them.  A name is the last four digits of an address, *)
(* so an event may name one node where the mesh has two.  Roles and the    *)
(* strokes of the tree are left out.                                       *)
(***************************************************************************)
EXTENDS Naturals, Sequences, FiniteSets

CONSTANTS Names,       \* what nodes may be called
          MaxKeys,     \* parents in one event (bound)
          MaxChildren, \* children of one of them (bound)
          MaxCalls     \* calls the interpreter's stack has room for (code: 1000)

\* There are fewer names than there may be calls: a mesh has dozens of nodes.
FewNames == /\ IsFiniteSet(Names) /\ MaxKeys \in Nat /\ MaxChildren \in Nat
            /\ MaxCalls \in Nat /\ Cardinality(Names) < MaxCalls

VARIABLES
    topology,  \* MeshState.topology: the children of each parent
    first,     \* its first key
    view,      \* "feed", "draw", "shown", or "raised": RecursionError
    roots,     \* roots that are still to be drawn
    calls,     \* calls of _draw_subtree: the node, and the child that is next
    out        \* the nodes of the lines drawn so far

meshVars == <<topology, first, view, roots, calls, out>>

-----------------------------------------------------------------------------
\* What _on_event keeps of an event: the entries whose value is a list.
Lists == UNION {[1..n -> Names] : n \in 0..MaxChildren}
Trees == UNION {[K -> Lists] : K \in {K \in SUBSET Names : Cardinality(K) <= MaxKeys}}

\* self.topology.get(node, []).
Children(n) == IF n \in DOMAIN topology THEN topology[n] ELSE <<>>
Listed(n) == {Children(n)[i] : i \in DOMAIN Children(n)}
ChildSet == UNION {Listed(n) : n \in DOMAIN topology}

\* _topology_roots: the parents that are nobody's child, or the first key.
Roots == IF DOMAIN topology \subseteq ChildSet THEN {first} ELSE DOMAIN topology \ ChildSet

Call(n) == [node |-> n, next |-> 1]
Top == calls[Len(calls)]

MeshTypeOK ==
    /\ DOMAIN topology \subseteq Names /\ \A n \in DOMAIN topology : topology[n] \in Seq(Names)
    /\ first \in Names
    /\ view \in {"feed", "draw", "shown", "raised"}
    /\ roots \subseteq Names
    /\ calls \in Seq([node : Names, next : Nat \ {0}]) /\ Len(calls) <= MaxCalls
    /\ out \in Seq(Names)

MeshInit == /\ topology = <<>> /\ first \in Names
            /\ view = "feed" /\ roots = {} /\ calls = <<>> /\ out = <<>>

-----------------------------------------------------------------------------
\* _on_event with a topology event.
OnTopology ==
    /\ view = "feed"
    /\ topology' \in Trees
    /\ IF DOMAIN topology' = {} THEN UNCHANGED first ELSE first' \in DOMAIN topology'
    /\ UNCHANGED <<view, roots, calls, out>>

\* _render: without a topology there is nothing to draw.
Render ==
    /\ view = "feed" /\ DOMAIN topology # {}
    /\ view' = "draw"
    /\ roots' = Roots
    /\ UNCHANGED <<topology, first, calls, out>>

DrawRoot ==
    /\ view = "draw" /\ calls = <<>>
    /\ \E r \in roots : /\ calls' = <<Call(r)>>
                        /\ out' = Append(out, r)
                        /\ roots' = roots \ {r}
    /\ UNCHANGED <<topology, first, view>>

\* The loop of _draw_subtree calls it for the next child.
DrawChild ==
    /\ view = "draw" /\ calls # <<>> /\ Top.next <= Len(Children(Top.node))
    /\ LET child == Children(Top.node)[Top.next]
       IN  IF Len(calls) = MaxCalls THEN view' = "raised" /\ UNCHANGED <<calls, out>>
           ELSE /\ calls' = Append([calls EXCEPT ![Len(calls)].next = @ + 1], Call(child))
                /\ out' = Append(out, child)
                /\ UNCHANGED view
    /\ UNCHANGED <<topology, first, roots>>

DrawReturns ==
    /\ view = "draw" /\ calls # <<>> /\ Top.next > Len(Children(Top.node))
    /\ calls' = SubSeq(calls, 1, Len(calls) - 1)
    /\ UNCHANGED <<topology, first, view, roots, out>>

RenderEnds ==
    /\ view = "draw" /\ calls = <<>> /\ roots = {}
    /\ view' = "shown"
    /\ UNCHANGED <<topology, first, roots, calls, out>>

\* A quarter of a second later the loop drains the queue again.
Refresh ==
    /\ view = "shown"
    /\ view' = "feed" /\ out' = <<>>
    /\ UNCHANGED <<topology, first, roots, calls>>

-----------------------------------------------------------------------------
Draw == DrawRoot \/ DrawChild \/ DrawReturns \/ RenderEnds
MeshNext == OnTopology \/ Render \/ Draw \/ Refresh

MeshSpec == MeshInit /\ [][MeshNext]_meshVars

\* The main thread goes on while it draws.
FairMesh == MeshSpec /\ WF_meshVars(Draw)

-----------------------------------------------------------------------------
TreeNames == DOMAIN topology \cup ChildSet

\* No node is below itself: whatever nodes one takes, one of them is not a child
\* of the others.
Acyclic == \A S \in SUBSET TreeNames :
               S # {} => \E n \in S : \A m \in S : n \notin Listed(m)
ListedOnce == \A m, n \in DOMAIN topology :
                  \A i \in DOMAIN topology[m] : \A j \in DOMAIN topology[n] :
                      topology[m][i] = topology[n][j] => m = n /\ i = j

\* The drawing fails, and the tool with it, only of a tree in which a node is
\* below itself, however many children, roots and repeated names a tree has.
RaisesOnCycleOnly == view = "raised" => ~Acyclic

\* A tree without such a node is shown as a whole: every parent and every child
\* of the event, and each of them once if the event names no child twice.
TreeIsShown ==
    view = "shown" /\ Acyclic =>
        /\ {out[i] : i \in DOMAIN out} = TreeNames
        /\ ListedOnce => \A i, j \in DOMAIN out : out[i] = out[j] => i = j

\* Every drawing ends, whatever the event says: shown, or raised.
DrawingEnds == view = "draw" ~> view \in {"shown", "raised"}

-----------------------------------------------------------------------------
\* "Node IDs are the EUI-64 last two bytes ... so the tree lines up with the live
\* table" (apps/gateway/src/main.c:33-34): the gateway lists its own name as a
\* child when a neighbour's address ends as its own does.  NeverRaises is what
\* the tool would need.
NeverRaises == view # "raised"

\* "the current parent-child topology tree (from topology events)" (state.py:4-5):
\* nodes that are below each other and below no root are left out in silence.
EveryNodeShown == view = "shown" => {out[i] : i \in DOMAIN out} = TreeNames
=============================================================================
