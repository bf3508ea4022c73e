--------------------------- MODULE ReportDelivery ---------------------------
(***************************************************************************)
(* What the CoAP path of the firmware promises, with no buffers, locks,    *)
(* retransmissions or datagrams in it.  A node opens an exchange for each  *)
(* report it pushes; gateways print the reports that reach them; a node    *)
(* learns the address of a gateway only after that gateway printed one of  *)
(* its reports, and may forget it or replace it by another such address.   *)
(* CookieCoap implements this specification (CookieCoap!Delivery).         *)
(***************************************************************************)
CONSTANTS Node,   \* the sensor nodes
          Addr,   \* the addresses a gateway may answer from
          Token,  \* names of exchanges; a closed exchange frees its name
          NoAddr  \* "::", no gateway known

VARIABLES open,     \* open[n]: the exchanges node n waits on
          issued,   \* issued[n]: the names n has used so far
          printed,  \* <<a, n, t>>: gateway a printed report t of n
          served,   \* <<n, a>>: gateway a has printed a report of n
          known     \* known[n]: the gateway n would send to, or NoAddr

vars == <<open, issued, printed, served, known>>

Init == /\ open = [n \in Node |-> {}]
        /\ issued = [n \in Node |-> {}]
        /\ printed = {}
        /\ served = {}
        /\ known = [n \in Node |-> NoAddr]

\* A report is pushed: nobody has printed it yet.
Submit(n, t) ==
    /\ t \notin open[n]
    /\ open' = [open EXCEPT ![n] = @ \cup {t}]
    /\ issued' = [issued EXCEPT ![n] = @ \cup {t}]
    /\ printed' = {l \in printed : l[2] # n \/ l[3] # t}
    /\ UNCHANGED <<served, known>>

\* A gateway prints a report that was pushed, possibly after n gave up on it.
PrintLine(a, n, t) ==
    /\ t \in issued[n]
    /\ printed' = printed \cup {<<a, n, t>>}
    /\ served' = served \cup {<<n, a>>}
    /\ UNCHANGED <<open, issued, known>>

\* The exchange ends, answered or not.
Close(n, t) ==
    /\ t \in open[n]
    /\ open' = [open EXCEPT ![n] = @ \ {t}]
    /\ UNCHANGED <<issued, printed, served, known>>

\* n adopts a gateway that has printed a report of its own.
Learn(n, a) ==
    /\ <<n, a>> \in served
    /\ known' = [known EXCEPT ![n] = a]
    /\ UNCHANGED <<open, issued, printed, served>>

Forget(n) ==
    /\ known' = [known EXCEPT ![n] = NoAddr]
    /\ UNCHANGED <<open, issued, printed, served>>

Next == \E n \in Node :
            \/ \E t \in Token : Submit(n, t) \/ Close(n, t)
            \/ \E t \in Token, a \in Addr : PrintLine(a, n, t)
            \/ \E a \in Addr : Learn(n, a)
            \/ Forget(n)

Spec == Init /\ [][Next]_vars
=============================================================================
