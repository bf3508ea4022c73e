----------------------------- MODULE CookieCoap -----------------------------
(***************************************************************************)
(* The CoAP path of the mesh: the push client of the sensor nodes          *)
(* (libs/cookie_proto/src/coap_client.c), the POST handler of the gateway  *)
(* (apps/gateway/src/coap_server.c), and the OpenThread CoAP layer and the *)
(* radio network between them, which are external.                         *)
(*                                                                         *)
(* Two threads of a node share the cached gateway address under a mutex:   *)
(* the thread that pushes (system workqueue in AUTO, main thread in SED)   *)
(* and the OpenThread thread, which runs on_response.  Every access to the *)
(* pair (have_gateway, gateway) is a step of its own, so that the mutex,   *)
(* and not the grain of the model, keeps the pair consistent.              *)
(***************************************************************************)
EXTENDS Integers, FiniteSets

CONSTANTS Node,           \* sensor nodes
          Addr,           \* IPv6 addresses a gateway may have
          Token,          \* CoAP tokens; bounds the open exchanges of a node
          NoAddr,         \* the zeroed address "::"
          Group,          \* the discovery group ff03::1
          Buffers,        \* message buffers of a node's OpenThread instance
          StackMax,       \* buffers the rest of the stack takes (bound)
          MaxRetransmit   \* retransmissions of a CON request (OpenThread: 4)

ASSUME AddrAssumption == NoAddr \notin Addr /\ Group \notin Addr /\ NoAddr # Group
ASSUME BufferAssumption == Buffers \in Nat /\ StackMax \in Nat
ASSUME RetransmitAssumption == MaxRetransmit \in Nat

VARIABLES
    initialised,  \* ctx.initialised
    have,         \* ctx.have_gateway
    gateway,      \* ctx.gateway
    lock,         \* owner of ctx.lock
    pc,           \* where the pushing thread is in cookie_coap_push_frame
    unicast,      \* local variable of the push
    peer,         \* local variable of the push (peer_addr)
    held,         \* buffers of the message the push is building
    free,         \* free message buffers
    stack,        \* buffers owned by the rest of the stack
    pending,      \* requests OpenThread keeps until answered or timed out
    cb,           \* the OpenThread thread: idle or inside on_response
    reqs, rsps,   \* datagrams in flight
    listening,    \* addresses at which a gateway serves /sensors/data
    cached,       \* cached[a]: CON exchanges the gateway at a has ACKed
    printed,      \* <<a, n, t>>: the gateway at a printed report t of n
    served,       \* history: <<n, a>>, the gateway at a printed a report of n
    issued        \* history: tokens node n has used

ctxVars  == <<initialised, have, gateway, lock>>
pushVars == <<pc, unicast, peer, held>>
otVars   == <<free, stack, pending, cb>>
netVars  == <<reqs, rsps>>
gwVars   == <<listening, cached, printed, served>>
vars     == <<ctxVars, pushVars, otVars, netVars, gwVars, issued>>

Free   == "free"
Owner  == {Free, "push", "callback", "app"}
PushPC == {"idle", "lock", "addr", "new", "append", "send", "clear"}
AnyAddr == Addr \cup {NoAddr, Group}

\* A request OpenThread keeps.  It is confirmable unless it went to the group.
Pending  == [token : Token, dst : AnyAddr, left : 0..MaxRetransmit]
Request  == [node : Node, token : Token, dst : AnyAddr, con : BOOLEAN]
Response == [node : Node, token : Token, src : Addr]
Callback == [at : {"idle", "lock", "flag"}, addr : AnyAddr]

Confirmable(p) == p.dst # Group
\* The copy kept of a CON request is whole; of a NON request only its header.
CopyCost(p) == IF Confirmable(p) THEN 2 ELSE 1
Idle == [at |-> "idle", addr |-> NoAddr]

TypeOK ==
    /\ initialised \in [Node -> BOOLEAN]
    /\ have \in [Node -> BOOLEAN]
    /\ gateway \in [Node -> AnyAddr]
    /\ lock \in [Node -> Owner]
    /\ pc \in [Node -> PushPC]
    /\ unicast \in [Node -> BOOLEAN]
    /\ peer \in [Node -> AnyAddr]
    /\ held \in [Node -> 0..2]
    /\ free \in [Node -> Nat]
    /\ stack \in [Node -> Nat]
    /\ pending \in [Node -> SUBSET Pending]
    /\ cb \in [Node -> Callback]
    /\ reqs \subseteq Request
    /\ rsps \subseteq Response
    /\ listening \subseteq Addr
    /\ cached \in [Addr -> SUBSET (Node \X Token)]
    /\ printed \subseteq Addr \X Node \X Token
    /\ served \subseteq Node \X Addr
    /\ issued \in [Node -> SUBSET Token]

Init ==
    /\ initialised = [n \in Node |-> FALSE]
    /\ have = [n \in Node |-> FALSE]
    /\ gateway = [n \in Node |-> NoAddr]
    /\ lock = [n \in Node |-> Free]
    /\ pc = [n \in Node |-> "idle"]
    /\ unicast = [n \in Node |-> FALSE]
    /\ peer = [n \in Node |-> NoAddr]
    /\ held = [n \in Node |-> 0]
    /\ free = [n \in Node |-> Buffers]
    /\ stack = [n \in Node |-> 0]
    /\ pending = [n \in Node |-> {}]
    /\ cb = [n \in Node |-> Idle]
    /\ reqs = {}
    /\ rsps = {}
    /\ listening \in SUBSET Addr
    /\ cached = [a \in Addr |-> {}]
    /\ printed = {}
    /\ served = {}
    /\ issued = [n \in Node |-> {}]

-----------------------------------------------------------------------------
(* The push client.                                                        *)

\* cookie_coap_init.  It returns early once initialised; when otCoapStart
\* fails it leaves initialised FALSE and may be called again.
CoapInit(n) ==
    /\ ~initialised[n]
    /\ \E started \in BOOLEAN : initialised' = [initialised EXCEPT ![n] = started]
    /\ gateway' = [gateway EXCEPT ![n] = NoAddr]
    /\ have' = [have EXCEPT ![n] = FALSE]
    /\ lock' = [lock EXCEPT ![n] = Free]
    /\ UNCHANGED <<pushVars, otVars, netVars, gwVars, issued>>

TokensInUse(n) ==
    {p.token : p \in pending[n]}
        \cup {m.token : m \in {r \in reqs \cup rsps : r.node = n}}

\* cookie_coap_push_frame is entered with a frame that encodes; before init
\* it returns -ENODEV, and a frame that does not encode changes nothing.
\* A random 4-byte token is fresh: the bound is that Token has a fresh one.
PushStart(n) ==
    /\ pc[n] = "idle"
    /\ initialised[n]
    /\ Token \ TokensInUse(n) # {}
    /\ pc' = [pc EXCEPT ![n] = "lock"]
    /\ UNCHANGED <<ctxVars, unicast, peer, held, otVars, netVars, gwVars, issued>>

\* A push that reads have_gateway without taking the mutex.
SnapshotFlagUnlocked(n) ==
    /\ pc[n] = "lock"
    /\ unicast' = [unicast EXCEPT ![n] = have[n]]
    /\ pc' = [pc EXCEPT ![n] = "addr"]
    /\ UNCHANGED <<ctxVars, peer, held, otVars, netVars, gwVars, issued>>

\* k_mutex_lock; unicast = ctx.have_gateway.
SnapshotFlag(n) ==
    /\ pc[n] = "lock"
    /\ lock[n] = Free
    /\ lock' = [lock EXCEPT ![n] = "push"]
    /\ unicast' = [unicast EXCEPT ![n] = have[n]]
    /\ pc' = [pc EXCEPT ![n] = "addr"]
    /\ UNCHANGED <<initialised, have, gateway, peer, held, otVars, netVars, gwVars,
                   issued>>

\* A push that returns to the caller with the mutex still taken.
SnapshotAddrKeepsLock(n) ==
    /\ pc[n] = "addr"
    /\ peer' = [peer EXCEPT ![n] = gateway[n]]
    /\ pc' = [pc EXCEPT ![n] = "new"]
    /\ UNCHANGED <<ctxVars, unicast, held, otVars, netVars, gwVars, issued>>

\* memcpy(&peer_addr, &ctx.gateway); k_mutex_unlock.
SnapshotAddr(n) ==
    /\ pc[n] = "addr"
    /\ peer' = [peer EXCEPT ![n] = gateway[n]]
    /\ lock' = [lock EXCEPT ![n] = Free]
    /\ pc' = [pc EXCEPT ![n] = "new"]
    /\ UNCHANGED <<initialised, have, gateway, unicast, held, otVars, netVars, gwVars,
                   issued>>

\* A push that does not look at what otCoapNewMessage returned.
NewMessageUnchecked(n) ==
    /\ pc[n] = "new"
    /\ free' = [free EXCEPT ![n] = @ - 1]
    /\ held' = [held EXCEPT ![n] = 1]
    /\ pc' = [pc EXCEPT ![n] = "append"]
    /\ UNCHANGED <<ctxVars, unicast, peer, stack, pending, cb, netVars, gwVars, issued>>

\* otCoapNewMessage: one buffer, or -ENOMEM with nothing to release.
NewMessage(n) ==
    /\ pc[n] = "new"
    /\ IF free[n] = 0
       THEN /\ pc' = [pc EXCEPT ![n] = "idle"]
            /\ UNCHANGED <<free, held>>
       ELSE /\ free' = [free EXCEPT ![n] = @ - 1]
            /\ held' = [held EXCEPT ![n] = 1]
            /\ pc' = [pc EXCEPT ![n] = "append"]
    /\ UNCHANGED <<ctxVars, unicast, peer, stack, pending, cb, netVars, gwVars, issued>>

\* out_free: otMessageFree(msg), -EIO.
OutFree(n) ==
    /\ free' = [free EXCEPT ![n] = @ + held[n]]
    /\ held' = [held EXCEPT ![n] = 0]
    /\ pc' = [pc EXCEPT ![n] = "idle"]

\* An append that returns on error without going through out_free.
AppendFrameLeaks(n) ==
    /\ pc[n] = "append"
    /\ IF free[n] = 0
       THEN /\ pc' = [pc EXCEPT ![n] = "idle"]
            /\ held' = [held EXCEPT ![n] = 0]
            /\ UNCHANGED free
       ELSE /\ free' = [free EXCEPT ![n] = @ - 1]
            /\ held' = [held EXCEPT ![n] = 2]
            /\ pc' = [pc EXCEPT ![n] = "send"]
    /\ UNCHANGED <<ctxVars, unicast, peer, stack, pending, cb, netVars, gwVars, issued>>

\* The options, the payload marker and the payload need one more buffer; the
\* first of the four calls that finds none goes to out_free.
AppendFrame(n) ==
    /\ pc[n] = "append"
    /\ IF free[n] = 0
       THEN OutFree(n)
       ELSE /\ free' = [free EXCEPT ![n] = @ - 1]
            /\ held' = [held EXCEPT ![n] = 2]
            /\ pc' = [pc EXCEPT ![n] = "send"]
    /\ UNCHANGED <<ctxVars, unicast, peer, stack, pending, cb, netVars, gwVars, issued>>

\* The datagrams a request becomes: one, or one per listening gateway.
Datagrams(n, p) ==
    {[node |-> n, token |-> p.token, dst |-> a, con |-> Confirmable(p)] :
        a \in IF Confirmable(p) THEN {p.dst} ELSE listening}

\* otCoapSendRequest keeps a copy until the exchange ends and gives the message
\* to the stack; without buffers for the copy it fails, and the push frees the
\* message.  The token names a new exchange: nothing printed or ACKed so far
\* belongs to it.
SendRequest(n) ==
    /\ pc[n] = "send"
    /\ \E t \in Token \ TokensInUse(n) :
        LET p == [token |-> t,
                  dst   |-> IF unicast[n] THEN peer[n] ELSE Group,
                  left  |-> MaxRetransmit]
        IN  IF free[n] < CopyCost(p)
            THEN /\ OutFree(n)
                 /\ UNCHANGED <<stack, pending, reqs, printed, cached, issued>>
            ELSE /\ free' = [free EXCEPT ![n] = @ - CopyCost(p)]
                 /\ stack' = [stack EXCEPT ![n] = @ + held[n]]
                 /\ held' = [held EXCEPT ![n] = 0]
                 /\ pending' = [pending EXCEPT ![n] = @ \cup {p}]
                 /\ reqs' = reqs \cup Datagrams(n, p)
                 /\ printed' = {l \in printed : l[2] # n \/ l[3] # t}
                 /\ cached' = [a \in Addr |-> cached[a] \ {<<n, t>>}]
                 /\ issued' = [issued EXCEPT ![n] = @ \cup {t}]
                 /\ pc' = [pc EXCEPT ![n] = "idle"]
    /\ UNCHANGED <<ctxVars, unicast, peer, cb, rsps, listening, served>>

\* cookie_coap_invalidate_gateway, exported for the application; nothing in
\* the tree calls it.  Lock and memset, then the flag and unlock.
InvalidateAddr(n) ==
    /\ pc[n] = "idle"
    /\ initialised[n]
    /\ lock[n] = Free
    /\ lock' = [lock EXCEPT ![n] = "app"]
    /\ gateway' = [gateway EXCEPT ![n] = NoAddr]
    /\ pc' = [pc EXCEPT ![n] = "clear"]
    /\ UNCHANGED <<initialised, have, unicast, peer, held, otVars, netVars, gwVars,
                   issued>>

InvalidateFlag(n) ==
    /\ pc[n] = "clear"
    /\ have' = [have EXCEPT ![n] = FALSE]
    /\ lock' = [lock EXCEPT ![n] = Free]
    /\ pc' = [pc EXCEPT ![n] = "idle"]
    /\ UNCHANGED <<initialised, gateway, unicast, peer, held, otVars, netVars, gwVars,
                   issued>>

-----------------------------------------------------------------------------
(* The OpenThread thread of a node.  It runs one callback at a time, so it *)
(* neither receives nor retransmits while on_response waits for the mutex. *)

Release(n, p) ==
    /\ pending' = [pending EXCEPT ![n] = @ \ {p}]
    /\ free' = [free EXCEPT ![n] = @ + CopyCost(p)]

IsOpen(n, t) == \E p \in pending[n] : p.token = t
Awaited(n, m) == IsOpen(n, m.token)

\* A response reaches the node.  OpenThread matches it by token, ends the
\* exchange unless the request was multicast (more answers may follow), and
\* calls on_response; a response nobody waits for is dropped.
ReceiveResponse(n, m) ==
    /\ cb[n].at = "idle"
    /\ m \in rsps
    /\ m.node = n
    /\ rsps' = rsps \ {m}
    /\ IF Awaited(n, m)
       THEN \E p \in pending[n] :
              /\ p.token = m.token
              /\ cb' = [cb EXCEPT ![n] = [at |-> "lock", addr |-> m.src]]
              /\ IF Confirmable(p) THEN Release(n, p) ELSE UNCHANGED <<pending, free>>
       ELSE UNCHANGED <<cb, pending, free>>
    /\ UNCHANGED <<ctxVars, pushVars, stack, reqs, gwVars, issued>>

\* on_response: k_mutex_lock; memcpy(&ctx.gateway, &info->mPeerAddr).
StoreAddr(n) ==
    /\ cb[n].at = "lock"
    /\ lock[n] = Free
    /\ lock' = [lock EXCEPT ![n] = "callback"]
    /\ gateway' = [gateway EXCEPT ![n] = cb[n].addr]
    /\ cb' = [cb EXCEPT ![n].at = "flag"]
    /\ UNCHANGED <<initialised, have, pushVars, free, stack, pending, netVars, gwVars,
                   issued>>

\* on_response: ctx.have_gateway = true; k_mutex_unlock.
StoreFlag(n) ==
    /\ cb[n].at = "flag"
    /\ have' = [have EXCEPT ![n] = TRUE]
    /\ lock' = [lock EXCEPT ![n] = Free]
    /\ cb' = [cb EXCEPT ![n] = Idle]
    /\ UNCHANGED <<initialised, gateway, pushVars, free, stack, pending, netVars, gwVars,
                   issued>>

\* An on_response that does not look at its result argument.
RequestTimeoutStored(n, p) ==
    /\ cb[n].at = "idle"
    /\ p \in pending[n]
    /\ Confirmable(p) => p.left = 0
    /\ Release(n, p)
    /\ cb' = [cb EXCEPT ![n] = [at |-> "lock", addr |-> p.dst]]
    /\ UNCHANGED <<ctxVars, pushVars, stack, netVars, gwVars, issued>>

\* The request is given up: a NON request after its lifetime, a CON request
\* after the last retransmission.  on_response gets RESPONSE_TIMEOUT and
\* returns early, so the cache keeps the address that did not answer.
RequestTimeout(n, p) ==
    /\ cb[n].at = "idle"
    /\ p \in pending[n]
    /\ Confirmable(p) => p.left = 0
    /\ Release(n, p)
    /\ UNCHANGED <<ctxVars, pushVars, stack, cb, netVars, gwVars, issued>>

\* A timer that sends a CON request again without counting.
RetransmitForever(n, p) ==
    /\ cb[n].at = "idle"
    /\ p \in pending[n]
    /\ Confirmable(p) /\ p.left > 0
    /\ reqs' = reqs \cup Datagrams(n, p)
    /\ UNCHANGED <<ctxVars, pushVars, otVars, rsps, gwVars, issued>>

Retransmit(n, p) ==
    /\ cb[n].at = "idle"
    /\ p \in pending[n]
    /\ Confirmable(p) /\ p.left > 0
    /\ pending' = [pending EXCEPT ![n] = (@ \ {p}) \cup {[p EXCEPT !.left = @ - 1]}]
    /\ reqs' = reqs \cup Datagrams(n, p)
    /\ UNCHANGED <<ctxVars, pushVars, free, stack, cb, rsps, gwVars, issued>>

\* Forwarded traffic takes a buffer; the stack gives one back after sending.
StackTakes(n) ==
    /\ free[n] > 0
    /\ stack[n] < StackMax
    /\ free' = [free EXCEPT ![n] = @ - 1]
    /\ stack' = [stack EXCEPT ![n] = @ + 1]
    /\ UNCHANGED <<ctxVars, pushVars, pending, cb, netVars, gwVars, issued>>

StackReturns(n) ==
    /\ stack[n] > 0
    /\ free' = [free EXCEPT ![n] = @ + 1]
    /\ stack' = [stack EXCEPT ![n] = @ - 1]
    /\ UNCHANGED <<ctxVars, pushVars, pending, cb, netVars, gwVars, issued>>

-----------------------------------------------------------------------------
(* The gateway and the network.                                            *)

Answer(a, m) == [node |-> m.node, token |-> m.token, src |-> a]

\* A handler that answers but forgets to print the line.
PrintNothing(a, m) == UNCHANGED <<printed, served>>

\* gateway_usb_print_line: the frame reaches the console.
PrintLine(a, m) ==
    /\ printed' = printed \cup {<<a, m.node, m.token>>}
    /\ served' = served \cup {<<m.node, a>>}

\* A server that answers confirmable requests only.
RespondToConOnly(a, m) ==
    /\ rsps' = IF m.con THEN rsps \cup {Answer(a, m)} ELSE rsps
    /\ cached' = IF m.con THEN [cached EXCEPT ![a] = @ \cup {<<m.node, m.token>>}]
                          ELSE cached

\* send_response_changed: a CON gets an ACK, which OpenThread keeps for
\* repetitions of the request; a NON gets a NON response.
Respond(a, m) ==
    /\ rsps' = rsps \cup {Answer(a, m)}
    /\ cached' = IF m.con THEN [cached EXCEPT ![a] = @ \cup {<<m.node, m.token>>}]
                          ELSE cached

AtGateway(a, m) ==
    /\ a \in listening
    /\ m \in reqs
    /\ m.dst = a
    /\ reqs' = reqs \ {m}

Repeated(a, m) == m.con /\ <<m.node, m.token>> \in cached[a]

\* sensors_post_handler: print, then always respond.
HandlePost(a, m) ==
    /\ AtGateway(a, m)
    /\ ~Repeated(a, m)
    /\ PrintLine(a, m)
    /\ Respond(a, m)
    /\ UNCHANGED <<ctxVars, pushVars, otVars, listening, issued>>

\* The same without a buffer for the response: its error is ignored.
HandlePostNoBufs(a, m) ==
    /\ AtGateway(a, m)
    /\ ~Repeated(a, m)
    /\ PrintLine(a, m)
    /\ UNCHANGED <<ctxVars, pushVars, otVars, rsps, listening, cached, issued>>

\* OpenThread answers a repeated CON from its response cache.
HandleRepeat(a, m) ==
    /\ AtGateway(a, m)
    /\ Repeated(a, m)
    /\ rsps' = rsps \cup {Answer(a, m)}
    /\ UNCHANGED <<ctxVars, pushVars, otVars, gwVars, issued>>

LoseRequest(m) ==
    /\ m \in reqs
    /\ reqs' = reqs \ {m}
    /\ UNCHANGED <<ctxVars, pushVars, otVars, rsps, gwVars, issued>>

LoseResponse(m) ==
    /\ m \in rsps
    /\ rsps' = rsps \ {m}
    /\ UNCHANGED <<ctxVars, pushVars, otVars, reqs, gwVars, issued>>

\* A gateway leaves its address (power off, new RLOC) or takes one; its
\* response cache is RAM.
GatewayLeaves(a) ==
    /\ a \in listening
    /\ listening' = listening \ {a}
    /\ cached' = [cached EXCEPT ![a] = {}]
    /\ UNCHANGED <<ctxVars, pushVars, otVars, netVars, printed, served, issued>>

GatewayJoins(a) ==
    /\ a \in Addr \ listening
    /\ listening' = listening \cup {a}
    /\ UNCHANGED <<ctxVars, pushVars, otVars, netVars, cached, printed, served, issued>>

-----------------------------------------------------------------------------
Push(n) == \/ PushStart(n) \/ SnapshotFlag(n) \/ SnapshotAddr(n)
           \/ NewMessage(n) \/ AppendFrame(n) \/ SendRequest(n)
Invalidate(n) == InvalidateAddr(n) \/ InvalidateFlag(n)
OnResponse(n) == StoreAddr(n) \/ StoreFlag(n)
OtThread(n) == \/ \E m \in rsps : ReceiveResponse(n, m)
               \/ \E p \in pending[n] : RequestTimeout(n, p) \/ Retransmit(n, p)
               \/ StackTakes(n) \/ StackReturns(n)
Arrives(a, m) == HandlePost(a, m) \/ HandlePostNoBufs(a, m) \/ HandleRepeat(a, m)
Gateway(a) == \/ \E m \in reqs : Arrives(a, m)
              \/ GatewayLeaves(a) \/ GatewayJoins(a)
Network == \/ \E m \in reqs : LoseRequest(m)
           \/ \E m \in rsps : LoseResponse(m)

Next == \/ \E n \in Node : \/ CoapInit(n) \/ Push(n) \/ Invalidate(n)
                           \/ OnResponse(n) \/ OtThread(n)
        \/ \E a \in Addr : Gateway(a)
        \/ Network

Spec == Init /\ [][Next]_vars

-----------------------------------------------------------------------------
(* Fairness.  The report loop keeps pushing whatever else calls the client, *)
(* and both threads of a node keep running; k_mutex_unlock hands the mutex  *)
(* to a waiter, so no waiter is passed over for ever.  OpenThread's timers  *)
(* fire and the stack sends what it was given.  No datagram is in flight    *)
(* for ever.  The radio may lose or delay any datagram, but not all of them:*)
(* of requests sent again and again one is answered while its sender waits, *)
(* and of such answers one arrives while its receiver waits.                *)
(* Gateways need not stay, and nobody need invalidate.                      *)
ThreadFairness(n) ==
    /\ SF_vars(PushStart(n)) /\ SF_vars(SnapshotFlag(n)) /\ WF_vars(SnapshotAddr(n))
    /\ WF_vars(NewMessage(n)) /\ WF_vars(AppendFrame(n)) /\ WF_vars(SendRequest(n))
    /\ WF_vars(InvalidateFlag(n)) /\ SF_vars(StoreAddr(n)) /\ WF_vars(StoreFlag(n))
TimerFairness(n) ==
    /\ \A t \in Token :
          SF_vars(\E p \in pending[n] :
                      p.token = t /\ (RequestTimeout(n, p) \/ Retransmit(n, p)))
    /\ WF_vars(StackReturns(n))
RadioFairness ==
    /\ WF_vars(\E m \in reqs : LoseRequest(m) \/ \E a \in Addr : Arrives(a, m))
    /\ \A a \in Addr : SF_vars(\E m \in reqs : Awaited(m.node, m) /\ HandlePost(a, m))
    /\ \A n \in Node :
          /\ WF_vars(\E m \in rsps : ReceiveResponse(n, m))
          /\ SF_vars(\E m \in rsps : Awaited(n, m) /\ ReceiveResponse(n, m))

FairSpec == /\ Spec
            /\ \A n \in Node : ThreadFairness(n) /\ TimerFairness(n)
            /\ RadioFairness

-----------------------------------------------------------------------------
(* Safety.                                                                 *)

\* The cached pair is consistent and earned: whenever a push can read it, a
\* node that has a gateway holds the address of one that printed a report of
\* that node (coap_client.c, ctx.have_gateway and ctx.gateway).
GatewayIsServed ==
    \A n \in Node : have[n] /\ lock[n] # "app" => <<n, gateway[n]>> \in served

\* Every confirmable request went to such an address: a push never pairs the
\* flag of one gateway with the address left by an invalidation or a timeout
\* (the snapshot of coap_client.c:134-139).
UnicastToServed ==
    \A n \in Node : \A p \in pending[n] : Confirmable(p) => <<n, p.dst>> \in served

\* A response in flight vouches for a line on the console of its sender: the
\* gateway never acknowledges a report it did not print, repeated requests
\* included.
ResponsesPrinted ==
    \A m \in rsps : <<m.src, m.node, m.token>> \in printed

\* The buffers in the copies of these requests: CopyCost of each, added up.
Copies(S) == Cardinality(S) + Cardinality({p \in S : Confirmable(p)})

\* No path through the push, no timeout and no answer loses or doubles a
\* buffer of the node (the goto out_free paths and the hand-over to OpenThread).
BufferAccounting ==
    \A n \in Node :
        free[n] + stack[n] + held[n] + Copies(pending[n]) = Buffers

(* Why GatewayIsServed, UnicastToServed and ResponsesPrinted hold.  The     *)
(* mutex has one owner, and each owner is inside its critical section;      *)
(* whatever address is on its way into or out of the cache is one that      *)
(* printed a report; and so is the sender of any answer in flight.          *)
LockOwner(n) ==
    /\ lock[n] = "push" <=> pc[n] = "addr"
    /\ lock[n] = "app" <=> pc[n] = "clear"
    /\ lock[n] = "callback" <=> cb[n].at = "flag"
    /\ ~initialised[n] => /\ pc[n] = "idle" /\ cb[n].at = "idle" /\ pending[n] = {}
                          /\ lock[n] = Free
AddressesServed(n) ==
    /\ have[n] /\ lock[n] # "app" => <<n, gateway[n]>> \in served
    /\ cb[n].at # "idle" => <<n, cb[n].addr>> \in served
    /\ cb[n].at = "flag" => gateway[n] = cb[n].addr
    /\ pc[n] = "addr" /\ unicast[n] => <<n, gateway[n]>> \in served
    /\ pc[n] \in {"new", "append", "send"} /\ unicast[n] => <<n, peer[n]>> \in served
    /\ \A p \in pending[n] : Confirmable(p) => <<n, p.dst>> \in served
AnswersServed ==
    /\ \A m \in rsps : <<m.src, m.node, m.token>> \in printed
    /\ \A a \in Addr : \A e \in cached[a] : <<a, e[1], e[2]>> \in printed
    /\ \A l \in printed : <<l[2], l[1]>> \in served
    /\ \A m \in rsps : <<m.node, m.src>> \in served
ServedInv ==
    /\ \A n \in Node : LockOwner(n) /\ AddressesServed(n)
    /\ AnswersServed

(* Why BufferAccounting holds: the message the push is building has the    *)
(* buffers its place in the push says, and the copies are told apart by    *)
(* their tokens, so that none is kept or released twice.                   *)
HeldByPlace(n) ==
    held[n] = IF pc[n] = "append" THEN 1 ELSE IF pc[n] = "send" THEN 2 ELSE 0
OneCopyPerToken(n) ==
    /\ IsFiniteSet(pending[n])
    /\ \A p, q \in pending[n] : p.token = q.token => p = q
BufferInv ==
    /\ \A n \in Node : HeldByPlace(n) /\ OneCopyPerToken(n)
    /\ BufferAccounting

\* Whatever is kept or in flight belongs to an exchange its node has opened.
TokensIssued ==
    /\ \A n \in Node : \A p \in pending[n] : p.token \in issued[n]
    /\ \A m \in reqs : m.token \in issued[m.node]

(* The promise of the whole path, and how this specification meets it.     *)
Delivery == INSTANCE ReportDelivery WITH
    open   <- [n \in Node |-> {p.token : p \in pending[n]}],
    known  <- [n \in Node |-> IF have[n] THEN gateway[n] ELSE NoAddr]

\* The push client, the gateway and the network implement ReportDelivery: an
\* exchange is closed once, a line is printed only for a report that was
\* pushed, and a node only ever learns a gateway that printed a report of its.
ImplementsDelivery == Delivery!Spec

-----------------------------------------------------------------------------
(* Liveness, under FairSpec.                                               *)

\* A push never hangs: whatever holds the mutex and the buffers, it returns to
\* the report loop (the first version of this client hung in its first push,
\* coap_client.c:4-9).
PushReturns == \A n \in Node : pc[n] # "idle" ~> pc[n] = "idle"

\* OpenThread ends every exchange, so its copy of the request is released.
ExchangeEnds ==
    \A n \in Node, t \in Token :
        IsOpen(n, t) ~> ~IsOpen(n, t)

\* With gateways that stay once they have come, however late and after whatever
\* comings and goings, a node that has started keeps finding one.
GatewayFound ==
    \A n \in Node : <>[](listening = Addr) /\ <>initialised[n] => []<>have[n]

\* With gateways that stay once they have come, new reports of a node are printed
\* for ever: no sequence of lost datagrams, failed pushes and short buffers
\* silences it, nor an address cached from a gateway that was away meanwhile.
NewLine(n) == \E l \in printed' \ printed : l[2] = n
ReportsArrive ==
    \A n \in Node :
        <>[](listening = Addr) /\ <>initialised[n] => []<><<NewLine(n)>>_vars

-----------------------------------------------------------------------------
(* What coap_client.h says of the cache.                                   *)

\* "On CON timeout (no ACK after retransmits): cache cleared, next call will
\* rediscover via multicast" (coap_client.h:26-27).
TimeoutClearsCache ==
    [][\A n \in Node :
        (\E p \in pending[n] : Confirmable(p) /\ RequestTimeout(n, p)) => ~have'[n]]_vars

\* "The first responding peer is cached as the gateway" (coap_client.h:24): as
\* long as a gateway is cached, it stays the one.
FirstResponderKept ==
    [][\A n \in Node : have[n] /\ have'[n] /\ lock[n] # "app"
                         => gateway'[n] \in {gateway[n], NoAddr}]_vars
=============================================================================
