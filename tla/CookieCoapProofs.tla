-------------------------- MODULE CookieCoapProofs --------------------------
(***************************************************************************)
(* Proofs about CookieCoap, for every set of nodes, addresses and tokens   *)
(* and every value of the bounds.                                          *)
(***************************************************************************)
EXTENDS CookieCoap, FiniteSetTheorems, TLAPS

(* The datagrams a request is sent as are requests.                        *)
LEMMA DatagramsType ==
    ASSUME listening \subseteq Addr, NEW n \in Node, NEW p \in Pending
    PROVE  Datagrams(n, p) \subseteq Request
<1> SUFFICES ASSUME NEW m \in Datagrams(n, p) PROVE m \in Request
  OBVIOUS
<1>1. PICK a \in IF Confirmable(p) THEN {p.dst} ELSE listening :
        m = [node |-> n, token |-> p.token, dst |-> a, con |-> Confirmable(p)]
  BY DEF Datagrams
<1>2. a \in AnyAddr /\ p.token \in Token
  BY <1>1 DEF Pending, AnyAddr
<1>3. Confirmable(p) \in BOOLEAN
  BY DEF Confirmable
<1> QED
  BY <1>1, <1>2, <1>3 DEF Request

(* The copy OpenThread keeps of a request takes one buffer or two.         *)
LEMMA CopyCostType == ASSUME NEW p PROVE CopyCost(p) \in {1, 2}
  BY DEF CopyCost

(* Type correctness: every action of the push client, of OpenThread, of    *)
(* the gateway and of the network keeps every variable in its type.        *)
THEOREM TypeCorrect == Spec => []TypeOK
<1> USE AddrAssumption, BufferAssumption, RetransmitAssumption
<1>1. Init => TypeOK
  BY DEF Init, TypeOK, Pending, Request, Response, Callback, AnyAddr, Owner, Free,
         PushPC, Idle
<1>2. TypeOK /\ [Next]_vars => TypeOK'
  <2> SUFFICES ASSUME TypeOK, [Next]_vars PROVE TypeOK'
    OBVIOUS
  <2> USE DEF TypeOK, ctxVars, pushVars, otVars, netVars, gwVars
  <2>1. ASSUME NEW n \in Node, CoapInit(n) PROVE TypeOK'
    BY <2>1 DEF CoapInit, Owner, Free, PushPC, AnyAddr, Callback, Idle, Pending, Request
  <2>2. ASSUME NEW n \in Node, PushStart(n) PROVE TypeOK'
    BY <2>2
       DEF PushStart, Owner, Free, PushPC, AnyAddr, Callback, Idle, Pending,
           Request
  <2>3. ASSUME NEW n \in Node, SnapshotFlag(n) PROVE TypeOK'
    BY <2>3
       DEF SnapshotFlag, Owner, Free, PushPC, AnyAddr, Callback, Idle, Pending,
           Request
  <2>4. ASSUME NEW n \in Node, SnapshotAddr(n) PROVE TypeOK'
    BY <2>4
       DEF SnapshotAddr, Owner, Free, PushPC, AnyAddr, Callback, Idle, Pending,
           Request
  <2>5. ASSUME NEW n \in Node, NewMessage(n) PROVE TypeOK'
    <3>1. CASE free[n] = 0
      BY <2>5, <3>1 DEF NewMessage, PushPC
    <3>2. CASE free[n] # 0
      <4>1. free[n] - 1 \in Nat
        BY <3>2
      <4> QED
        BY <2>5, <3>2, <4>1 DEF NewMessage, PushPC
    <3> QED
      BY <3>1, <3>2
  <2>6. ASSUME NEW n \in Node, AppendFrame(n) PROVE TypeOK'
    <3>1. CASE free[n] = 0
      <4>1. free[n] + held[n] \in Nat
        OBVIOUS
      <4> QED
        BY <2>6, <3>1, <4>1 DEF AppendFrame, OutFree, PushPC
    <3>2. CASE free[n] # 0
      <4>1. free[n] - 1 \in Nat
        BY <3>2
      <4> QED
        BY <2>6, <3>2, <4>1 DEF AppendFrame, PushPC
    <3> QED
      BY <3>1, <3>2
  <2>7. ASSUME NEW n \in Node, SendRequest(n) PROVE TypeOK'
    <3>1. PICK t \in Token : SendRequest(n)!2!(t)
      BY <2>7 DEF SendRequest
    <3> DEFINE p == [token |-> t,
                     dst   |-> IF unicast[n] THEN peer[n] ELSE Group,
                     left  |-> MaxRetransmit]
    <3>2. p \in Pending /\ CopyCost(p) \in {1, 2}
      BY DEF Pending, AnyAddr, CopyCost
    <3>3. Datagrams(n, p) \subseteq Request
      BY <3>2, DatagramsType
    <3>4. CASE free[n] < CopyCost(p)
      <4>1. free[n] + held[n] \in Nat
        OBVIOUS
      <4>2. /\ OutFree(n)
            /\ UNCHANGED <<stack, pending, reqs, printed, cached, issued>>
            /\ UNCHANGED <<ctxVars, unicast, peer, cb, rsps, listening, served>>
        BY <2>7, <3>1, <3>4 DEF SendRequest
      <4> HIDE DEF p
      <4>3. /\ free' \in [Node -> Nat] /\ held' \in [Node -> 0..2]
            /\ pc' \in [Node -> PushPC]
        BY <4>1, <4>2 DEF OutFree, PushPC
      <4> QED
        BY <4>2, <4>3
    <3>5. CASE ~(free[n] < CopyCost(p))
      <4>1. free[n] - CopyCost(p) \in Nat /\ stack[n] + held[n] \in Nat
        BY <3>2, <3>5
      <4>2. /\ free' = [free EXCEPT ![n] = @ - CopyCost(p)]
            /\ stack' = [stack EXCEPT ![n] = @ + held[n]]
            /\ held' = [held EXCEPT ![n] = 0]
            /\ pending' = [pending EXCEPT ![n] = @ \cup {p}]
            /\ reqs' = reqs \cup Datagrams(n, p)
            /\ printed' = {l \in printed : l[2] # n \/ l[3] # t}
            /\ cached' = [a \in Addr |-> cached[a] \ {<<n, t>>}]
            /\ issued' = [issued EXCEPT ![n] = @ \cup {t}]
            /\ pc' = [pc EXCEPT ![n] = "idle"]
            /\ UNCHANGED <<ctxVars, unicast, peer, cb, rsps, listening, served>>
        BY <2>7, <3>1, <3>5 DEF SendRequest
      <4> HIDE DEF p
      <4>3. /\ free' \in [Node -> Nat] /\ stack' \in [Node -> Nat]
            /\ held' \in [Node -> 0..2] /\ pending' \in [Node -> SUBSET Pending]
            /\ pc' \in [Node -> PushPC]
        BY <3>2, <4>1, <4>2 DEF PushPC
      <4>4. /\ reqs' \subseteq Request /\ printed' \subseteq Addr \X Node \X Token
            /\ issued' \in [Node -> SUBSET Token]
        BY <3>3, <4>2
      <4>5. cached' \in [Addr -> SUBSET (Node \X Token)]
        BY <4>2
      <4> QED
        BY <4>2, <4>3, <4>4, <4>5
    <3> QED
      BY <3>4, <3>5
  <2>8. ASSUME NEW n \in Node, InvalidateAddr(n) PROVE TypeOK'
    BY <2>8
       DEF InvalidateAddr, Owner, Free, PushPC, AnyAddr, Callback, Idle, Pending,
           Request
  <2>9. ASSUME NEW n \in Node, InvalidateFlag(n) PROVE TypeOK'
    BY <2>9
       DEF InvalidateFlag, Owner, Free, PushPC, AnyAddr, Callback, Idle, Pending,
           Request
  <2>10. ASSUME NEW n \in Node, StoreAddr(n) PROVE TypeOK'
    <3>1. cb[n] \in Callback /\ [cb[n] EXCEPT !.at = "flag"] \in Callback
      BY DEF Callback
    <3>2. /\ lock' \in [Node -> Owner]
          /\ gateway' \in [Node -> AnyAddr]
          /\ cb' \in [Node -> Callback]
      <4>1. cb[n].addr \in AnyAddr
        BY <3>1 DEF Callback
      <4> QED
        BY <2>10, <3>1, <4>1 DEF StoreAddr, Owner
    <3> QED
      BY <2>10, <3>2 DEF StoreAddr
  <2>11. ASSUME NEW n \in Node, StoreFlag(n) PROVE TypeOK'
    BY <2>11
       DEF StoreFlag, Owner, Free, PushPC, AnyAddr, Callback, Idle, Pending,
           Request
  <2>12. ASSUME NEW n \in Node, StackTakes(n) PROVE TypeOK'
    BY <2>12
       DEF StackTakes, Owner, Free, PushPC, AnyAddr, Callback, Idle, Pending,
           Request
  <2>13. ASSUME NEW n \in Node, StackReturns(n) PROVE TypeOK'
    BY <2>13
       DEF StackReturns, Owner, Free, PushPC, AnyAddr, Callback, Idle, Pending,
           Request
  <2>14. ASSUME NEW n \in Node, NEW m \in rsps, ReceiveResponse(n, m) PROVE TypeOK'
    <3>1. m.src \in Addr /\ rsps' \subseteq Response
      BY <2>14 DEF ReceiveResponse, Response
    <3>2. CASE Awaited(n, m)
      <4>1. PICK p \in pending[n] :
              /\ cb' = [cb EXCEPT ![n] = [at |-> "lock", addr |-> m.src]]
              /\ IF Confirmable(p) THEN Release(n, p) ELSE UNCHANGED <<pending, free>>
        BY <2>14, <3>2 DEF ReceiveResponse
      <4>2. cb' \in [Node -> Callback]
        BY <3>1, <4>1 DEF Callback, AnyAddr
      <4>3. free[n] + CopyCost(p) \in Nat
        BY CopyCostType
      <4>4. pending' \in [Node -> SUBSET Pending] /\ free' \in [Node -> Nat]
        BY <4>1, <4>3 DEF Release
      <4> QED
        BY <2>14, <3>1, <4>2, <4>4 DEF ReceiveResponse
    <3>3. CASE ~Awaited(n, m)
      BY <2>14, <3>1, <3>3 DEF ReceiveResponse
    <3> QED
      BY <3>2, <3>3
  <2>15. ASSUME NEW n \in Node, NEW p \in pending[n], RequestTimeout(n, p) PROVE TypeOK'
    BY <2>15 DEF RequestTimeout, Release, CopyCost, Confirmable
  <2>16. ASSUME NEW n \in Node, NEW p \in pending[n], Retransmit(n, p) PROVE TypeOK'
    <3>1. p \in Pending /\ p.left \in Nat /\ p.left > 0
      BY <2>16 DEF Retransmit, Pending
    <3>2. [p EXCEPT !.left = @ - 1] \in Pending
      BY <3>1 DEF Pending
    <3>3. Datagrams(n, p) \subseteq Request
      BY <3>1, DatagramsType
    <3> QED
      BY <2>16, <3>2, <3>3 DEF Retransmit
  <2>17. ASSUME NEW a \in Addr, NEW m \in reqs, HandlePost(a, m) PROVE TypeOK'
    BY <2>17 DEF HandlePost, AtGateway, PrintLine, Respond, Answer, Request, Response
  <2>18. ASSUME NEW a \in Addr, NEW m \in reqs, HandlePostNoBufs(a, m) PROVE TypeOK'
    BY <2>18 DEF HandlePostNoBufs, AtGateway, PrintLine, Request, Response
  <2>19. ASSUME NEW a \in Addr, NEW m \in reqs, HandleRepeat(a, m) PROVE TypeOK'
    BY <2>19 DEF HandleRepeat, AtGateway, Answer, Request, Response
  <2>20. ASSUME NEW a \in Addr, GatewayLeaves(a) PROVE TypeOK'
    BY <2>20 DEF GatewayLeaves
  <2>21. ASSUME NEW a \in Addr, GatewayJoins(a) PROVE TypeOK'
    BY <2>21 DEF GatewayJoins
  <2>22. ASSUME NEW m \in reqs, LoseRequest(m) PROVE TypeOK'
    BY <2>22 DEF LoseRequest
  <2>23. ASSUME NEW m \in rsps, LoseResponse(m) PROVE TypeOK'
    BY <2>23 DEF LoseResponse
  <2>24. CASE UNCHANGED vars
    BY <2>24 DEF vars
  <2> QED
    BY <2>1, <2>2, <2>3, <2>4, <2>5, <2>6, <2>7, <2>8, <2>9, <2>10, <2>11, <2>12, <2>13, <2>14, <2>15, <2>16, <2>17, <2>18, <2>19, <2>20, <2>21, <2>22, <2>23, <2>24
       DEF Next, Push, Invalidate, OnResponse, OtThread, Gateway, Arrives, Network
<1> QED
  BY <1>1, <1>2, PTL DEF Spec

(* Every address a node caches or sends a confirmable request to, and every*)
(* answer in flight, comes from a gateway that printed a report of the node.*)
THEOREM ServedCorrect == Spec => []ServedInv
<1> USE AddrAssumption, BufferAssumption, RetransmitAssumption
<1>1. Init => ServedInv
  BY DEF Init, TypeOK, ServedInv, LockOwner, AddressesServed, AnswersServed, Free, Idle
<1>2. TypeOK /\ ServedInv /\ [Next]_vars => ServedInv'
  <2> SUFFICES ASSUME TypeOK, ServedInv, [Next]_vars PROVE ServedInv'
    OBVIOUS
  <2> USE DEF ctxVars, pushVars, otVars, netVars, gwVars
  <2>1. ASSUME NEW n \in Node, CoapInit(n) PROVE ServedInv'
    <3>1. AnswersServed'
      BY <2>1 DEF CoapInit, ServedInv, AnswersServed, Free
    <3>2. ASSUME NEW k \in Node PROVE LockOwner(k)' /\ AddressesServed(k)'
      BY <2>1, <3>2 DEF CoapInit, ServedInv, LockOwner, AddressesServed, TypeOK, Free
    <3> QED
      BY <3>1, <3>2 DEF ServedInv
  <2>2. ASSUME NEW n \in Node, PushStart(n) PROVE ServedInv'
    <3>1. AnswersServed'
      BY <2>2 DEF PushStart, ServedInv, AnswersServed
    <3>2. ASSUME NEW k \in Node PROVE LockOwner(k)' /\ AddressesServed(k)'
      BY <2>2, <3>2 DEF PushStart, ServedInv, LockOwner, AddressesServed, TypeOK
    <3> QED
      BY <3>1, <3>2 DEF ServedInv
  <2>3. ASSUME NEW n \in Node, SnapshotFlag(n) PROVE ServedInv'
    <3>1. AnswersServed'
      BY <2>3 DEF SnapshotFlag, ServedInv, AnswersServed, Free
    <3>2. ASSUME NEW k \in Node PROVE LockOwner(k)' /\ AddressesServed(k)'
      BY <2>3, <3>2
         DEF SnapshotFlag, ServedInv, LockOwner, AddressesServed, TypeOK, Free
    <3> QED
      BY <3>1, <3>2 DEF ServedInv
  <2>4. ASSUME NEW n \in Node, SnapshotAddr(n) PROVE ServedInv'
    <3>1. AnswersServed'
      BY <2>4 DEF SnapshotAddr, ServedInv, AnswersServed, Free
    <3>2. ASSUME NEW k \in Node PROVE LockOwner(k)' /\ AddressesServed(k)'
      BY <2>4, <3>2
         DEF SnapshotAddr, ServedInv, LockOwner, AddressesServed, TypeOK, Free
    <3> QED
      BY <3>1, <3>2 DEF ServedInv
  <2>5. ASSUME NEW n \in Node, NewMessage(n) PROVE ServedInv'
    <3>1. AnswersServed'
      BY <2>5 DEF NewMessage, ServedInv, AnswersServed
    <3>2. ASSUME NEW k \in Node PROVE LockOwner(k)' /\ AddressesServed(k)'
      BY <2>5, <3>2 DEF NewMessage, ServedInv, LockOwner, AddressesServed, TypeOK
    <3> QED
      BY <3>1, <3>2 DEF ServedInv
  <2>6. ASSUME NEW n \in Node, AppendFrame(n) PROVE ServedInv'
    <3>1. AnswersServed'
      BY <2>6 DEF AppendFrame, ServedInv, AnswersServed, OutFree
    <3>2. ASSUME NEW k \in Node PROVE LockOwner(k)' /\ AddressesServed(k)'
      BY <2>6, <3>2
         DEF AppendFrame, ServedInv, LockOwner, AddressesServed, TypeOK, OutFree
    <3> QED
      BY <3>1, <3>2 DEF ServedInv
  <2>7. ASSUME NEW n \in Node, SendRequest(n) PROVE ServedInv'
    <3> DEFINE p(t) == [token |-> t,
                        dst   |-> IF unicast[n] THEN peer[n] ELSE Group,
                        left  |-> MaxRetransmit]
    <3>0. PICK t \in Token \ TokensInUse(n) :
            \/ OutFree(n) /\ UNCHANGED <<stack, pending, reqs, printed, cached, issued>>
            \/ /\ held' = [held EXCEPT ![n] = 0]
               /\ pending' = [pending EXCEPT ![n] = @ \cup {p(t)}]
               /\ printed' = {l \in printed : l[2] # n \/ l[3] # t}
               /\ cached' = [a \in Addr |-> cached[a] \ {<<n, t>>}]
               /\ pc' = [pc EXCEPT ![n] = "idle"]
      BY <2>7 DEF SendRequest
    <3>1. AnswersServed'
      <4>1. UNCHANGED <<rsps, served>>
        BY <2>7 DEF SendRequest
      <4>2. CASE UNCHANGED <<printed, cached>>
        BY <4>1, <4>2 DEF ServedInv, AnswersServed
      <4>3. CASE /\ printed' = {l \in printed : l[2] # n \/ l[3] # t}
                 /\ cached' = [a \in Addr |-> cached[a] \ {<<n, t>>}]
        <5>1. \A m \in rsps : m.node # n \/ m.token # t
          BY <3>0 DEF TokensInUse
        <5>2. \A m \in rsps' : <<m.src, m.node, m.token>> \in printed'
          BY <4>1, <4>3, <5>1 DEF ServedInv, AnswersServed
        <5>3. ASSUME NEW a \in Addr, NEW e \in cached'[a]
              PROVE  <<a, e[1], e[2]>> \in printed'
          <6>1. e \in cached[a] /\ e # <<n, t>> /\ e \in Node \X Token
            BY <4>3, <5>3 DEF TypeOK
          <6>2. e[1] # n \/ e[2] # t
            BY <6>1
          <6> QED
            BY <4>3, <6>1, <6>2 DEF ServedInv, AnswersServed
        <5> QED
          BY <4>1, <4>3, <5>2, <5>3 DEF ServedInv, AnswersServed
      <4> QED
        BY <3>0, <4>2, <4>3
    <3>2. ASSUME NEW k \in Node PROVE LockOwner(k)' /\ AddressesServed(k)'
      <4>1. /\ pc[n] = "send" /\ pc' = [pc EXCEPT ![n] = "idle"]
            /\ UNCHANGED <<ctxVars, unicast, peer, cb, served>>
        BY <2>7, <3>0 DEF SendRequest, OutFree
      <4>2. initialised[n]
        BY <4>1 DEF ServedInv, LockOwner
      <4>3. LockOwner(k)'
        <5>1. pending'[k] = pending[k] \/ k = n
          BY <3>0 DEF TypeOK
        <5> QED
          BY <4>1, <4>2, <5>1 DEF ServedInv, LockOwner, TypeOK
      <4>4. \A q \in pending'[k] : Confirmable(q) => <<k, q.dst>> \in served
        <5>1. \A q \in pending'[k] : q \in pending[k] \/ (k = n /\ q = p(t))
          BY <3>0 DEF TypeOK
        <5>2. Confirmable(p(t)) => <<n, p(t).dst>> \in served
          BY <4>1 DEF Confirmable, ServedInv, AddressesServed
        <5> HIDE DEF p
        <5> QED
          BY <5>1, <5>2 DEF ServedInv, AddressesServed
      <4>5. AddressesServed(k)'
        BY <4>1, <4>4 DEF ServedInv, AddressesServed, TypeOK, Confirmable
      <4> QED
        BY <4>3, <4>5
    <3> QED
      BY <3>1, <3>2 DEF ServedInv
  <2>8. ASSUME NEW n \in Node, InvalidateAddr(n) PROVE ServedInv'
    <3>1. AnswersServed'
      BY <2>8 DEF InvalidateAddr, ServedInv, AnswersServed, Free
    <3>2. ASSUME NEW k \in Node PROVE LockOwner(k)' /\ AddressesServed(k)'
      BY <2>8, <3>2
         DEF InvalidateAddr, ServedInv, LockOwner, AddressesServed, TypeOK, Free
    <3> QED
      BY <3>1, <3>2 DEF ServedInv
  <2>9. ASSUME NEW n \in Node, InvalidateFlag(n) PROVE ServedInv'
    <3>1. AnswersServed'
      BY <2>9 DEF InvalidateFlag, ServedInv, AnswersServed, Free
    <3>2. ASSUME NEW k \in Node PROVE LockOwner(k)' /\ AddressesServed(k)'
      BY <2>9, <3>2
         DEF InvalidateFlag, ServedInv, LockOwner, AddressesServed, TypeOK, Free
    <3> QED
      BY <3>1, <3>2 DEF ServedInv
  <2>10. ASSUME NEW n \in Node, StoreAddr(n) PROVE ServedInv'
    <3>1. AnswersServed'
      BY <2>10 DEF StoreAddr, ServedInv, AnswersServed, Free, Callback
    <3>2. ASSUME NEW k \in Node PROVE LockOwner(k)' /\ AddressesServed(k)'
      <4>1. /\ cb'[n].at = "flag" /\ cb'[n].addr = cb[n].addr
            /\ k # n => cb'[k] = cb[k]
        BY <2>10 DEF StoreAddr, TypeOK, Callback
      <4>2. cb[n].at = "lock" /\ initialised[n]
        BY <2>10 DEF StoreAddr, ServedInv, LockOwner
      <4>3. /\ lock[n] = Free
            /\ lock' = [lock EXCEPT ![n] = "callback"]
            /\ gateway' = [gateway EXCEPT ![n] = cb[n].addr]
            /\ UNCHANGED <<initialised, have, pushVars, pending, served>>
        BY <2>10 DEF StoreAddr
      <4>4. CASE k = n
        <5>1. LockOwner(n)'
          BY <4>1, <4>2, <4>3 DEF ServedInv, LockOwner, TypeOK, Free
        <5>2. gateway'[n] = cb[n].addr /\ <<n, cb[n].addr>> \in served
          BY <4>2, <4>3 DEF ServedInv, AddressesServed, TypeOK
        <5>3. pc[n] # "addr"
          BY <4>3 DEF ServedInv, LockOwner, Free
        <5>4. AddressesServed(n)
          BY DEF ServedInv
        <5>5. UNCHANGED <<pc, unicast, peer, pending, served>>
          BY <4>3 DEF pushVars
        <5>6. AddressesServed(n)'
          BY <4>1, <5>2, <5>3, <5>4, <5>5 DEF AddressesServed, Confirmable
        <5> QED
          BY <4>4, <5>1, <5>6
      <4>5. CASE k # n
        <5>1. lock'[k] = lock[k] /\ gateway'[k] = gateway[k] /\ cb'[k] = cb[k]
          BY <4>1, <4>3, <4>5 DEF TypeOK
        <5> QED
          BY <4>3, <5>1
             DEF ServedInv, LockOwner, AddressesServed, pushVars, Confirmable
      <4> QED
        BY <4>4, <4>5
    <3> QED
      BY <3>1, <3>2 DEF ServedInv
  <2>11. ASSUME NEW n \in Node, StoreFlag(n) PROVE ServedInv'
    <3>1. AnswersServed'
      BY <2>11 DEF StoreFlag, ServedInv, AnswersServed, Free, Callback, Idle
    <3>2. ASSUME NEW k \in Node PROVE LockOwner(k)' /\ AddressesServed(k)'
      BY <2>11, <3>2
         DEF StoreFlag, ServedInv, LockOwner, AddressesServed, TypeOK, Free,
             Callback, Idle
    <3> QED
      BY <3>1, <3>2 DEF ServedInv
  <2>12. ASSUME NEW n \in Node, StackTakes(n) PROVE ServedInv'
    <3>1. AnswersServed'
      BY <2>12 DEF StackTakes, ServedInv, AnswersServed
    <3>2. ASSUME NEW k \in Node PROVE LockOwner(k)' /\ AddressesServed(k)'
      BY <2>12, <3>2 DEF StackTakes, ServedInv, LockOwner, AddressesServed, TypeOK
    <3> QED
      BY <3>1, <3>2 DEF ServedInv
  <2>13. ASSUME NEW n \in Node, StackReturns(n) PROVE ServedInv'
    <3>1. AnswersServed'
      BY <2>13 DEF StackReturns, ServedInv, AnswersServed
    <3>2. ASSUME NEW k \in Node PROVE LockOwner(k)' /\ AddressesServed(k)'
      BY <2>13, <3>2 DEF StackReturns, ServedInv, LockOwner, AddressesServed, TypeOK
    <3> QED
      BY <3>1, <3>2 DEF ServedInv
  <2>14. ASSUME NEW n \in Node, NEW m \in rsps, ReceiveResponse(n, m) PROVE ServedInv'
    <3>1. AnswersServed'
      BY <2>14
         DEF ReceiveResponse, ServedInv, AnswersServed, Release, Awaited,
             IsOpen, Callback
    <3>2. ASSUME NEW k \in Node PROVE LockOwner(k)' /\ AddressesServed(k)'
      <4>1. /\ cb[n].at = "idle"
            /\ UNCHANGED <<ctxVars, pushVars, served>>
        BY <2>14 DEF ReceiveResponse
      <4>2. CASE Awaited(n, m)
        <5>1. /\ cb' = [cb EXCEPT ![n] = [at |-> "lock", addr |-> m.src]]
              /\ pending[n] # {}
              /\ \A j \in Node : pending'[j] \subseteq pending[j]
          BY <2>14, <4>2 DEF ReceiveResponse, Release, Awaited, IsOpen, TypeOK
        <5>2. <<n, m.src>> \in served
          BY <2>14 DEF ReceiveResponse, ServedInv, AnswersServed
        <5>3. initialised[n]
          BY <5>1 DEF ServedInv, LockOwner
        <5>4. /\ cb'[n] = [at |-> "lock", addr |-> m.src]
              /\ k # n => cb'[k] = cb[k]
          BY <5>1 DEF TypeOK
        <5>5. LockOwner(k)'
          BY <4>1, <5>1, <5>3, <5>4 DEF ServedInv, LockOwner
        <5>6. AddressesServed(k)'
          <6>1. AddressesServed(k) /\ pending'[k] \subseteq pending[k]
            BY <5>1 DEF ServedInv
          <6>2. k = n => cb'[k].at = "lock" /\ cb'[k].addr = m.src
            BY <5>4
          <6>3. UNCHANGED <<have, lock, gateway, pc, unicast, peer, served>>
            BY <4>1
          <6>4. \A q \in pending'[k] : Confirmable(q) => <<k, q.dst>> \in served
            BY <6>1 DEF AddressesServed
          <6>5. /\ cb'[k].at # "idle" => <<k, cb'[k].addr>> \in served
                /\ cb'[k].at = "flag" => gateway[k] = cb'[k].addr
            BY <5>2, <5>4, <6>1, <6>2 DEF AddressesServed
          <6> QED
            BY <6>1, <6>3, <6>4, <6>5 DEF AddressesServed, Confirmable
        <5> QED
          BY <5>5, <5>6
      <4>3. CASE ~Awaited(n, m)
        BY <2>14, <4>1, <4>3
           DEF ReceiveResponse, ServedInv, LockOwner, AddressesServed, Confirmable
      <4> QED
        BY <4>2, <4>3
    <3> QED
      BY <3>1, <3>2 DEF ServedInv
  <2>15. ASSUME NEW n \in Node, NEW p \in pending[n], RequestTimeout(n, p)
        PROVE  ServedInv'
    <3>1. AnswersServed'
      BY <2>15 DEF RequestTimeout, ServedInv, AnswersServed, Release
    <3>2. ASSUME NEW k \in Node PROVE LockOwner(k)' /\ AddressesServed(k)'
      BY <2>15, <3>2
         DEF RequestTimeout, ServedInv, LockOwner, AddressesServed, TypeOK,
             Release
    <3> QED
      BY <3>1, <3>2 DEF ServedInv
  <2>16. ASSUME NEW n \in Node, NEW p \in pending[n], Retransmit(n, p) PROVE ServedInv'
    <3>1. AnswersServed'
      BY <2>16 DEF Retransmit, ServedInv, AnswersServed, Confirmable, Pending
    <3>2. ASSUME NEW k \in Node PROVE LockOwner(k)' /\ AddressesServed(k)'
      BY <2>16, <3>2
         DEF Retransmit, ServedInv, LockOwner, AddressesServed, TypeOK,
             Confirmable, Pending
    <3> QED
      BY <3>1, <3>2 DEF ServedInv
  <2>17. ASSUME NEW a \in Addr, NEW m \in reqs, HandlePost(a, m) PROVE ServedInv'
    <3>1. AnswersServed'
      BY <2>17
         DEF HandlePost, ServedInv, AnswersServed, AtGateway, PrintLine,
             Respond, Answer, Request, Response
    <3>2. ASSUME NEW k \in Node PROVE LockOwner(k)' /\ AddressesServed(k)'
      BY <2>17, <3>2
         DEF HandlePost, ServedInv, LockOwner, AddressesServed, TypeOK,
             AtGateway, PrintLine, Respond, Answer, Request, Response
    <3> QED
      BY <3>1, <3>2 DEF ServedInv
  <2>18. ASSUME NEW a \in Addr, NEW m \in reqs, HandlePostNoBufs(a, m) PROVE ServedInv'
    <3>1. AnswersServed'
      BY <2>18
         DEF HandlePostNoBufs, ServedInv, AnswersServed, AtGateway, PrintLine,
             Request
    <3>2. ASSUME NEW k \in Node PROVE LockOwner(k)' /\ AddressesServed(k)'
      BY <2>18, <3>2
         DEF HandlePostNoBufs, ServedInv, LockOwner, AddressesServed, TypeOK,
             AtGateway, PrintLine, Request
    <3> QED
      BY <3>1, <3>2 DEF ServedInv
  <2>19. ASSUME NEW a \in Addr, NEW m \in reqs, HandleRepeat(a, m) PROVE ServedInv'
    <3>1. AnswersServed'
      <4>1. /\ <<m.node, m.token>> \in cached[a]
            /\ rsps' = rsps \cup {Answer(a, m)}
            /\ UNCHANGED <<cached, printed, served>>
        BY <2>19 DEF HandleRepeat, Repeated
      <4>2. <<a, m.node, m.token>> \in printed
        BY <4>1 DEF ServedInv, AnswersServed
      <4>3. <<m.node, a>> \in served
        BY <4>2 DEF ServedInv, AnswersServed
      <4> QED
        BY <4>1, <4>2, <4>3 DEF ServedInv, AnswersServed, Answer
    <3>2. ASSUME NEW k \in Node PROVE LockOwner(k)' /\ AddressesServed(k)'
      BY <2>19, <3>2
         DEF HandleRepeat, ServedInv, LockOwner, AddressesServed, TypeOK,
             AtGateway, Answer, Repeated, Request
    <3> QED
      BY <3>1, <3>2 DEF ServedInv
  <2>20. ASSUME NEW a \in Addr, GatewayLeaves(a) PROVE ServedInv'
    <3>1. AnswersServed'
      BY <2>20 DEF GatewayLeaves, ServedInv, AnswersServed, TypeOK
    <3>2. ASSUME NEW k \in Node PROVE LockOwner(k)' /\ AddressesServed(k)'
      BY <2>20, <3>2 DEF GatewayLeaves, ServedInv, LockOwner, AddressesServed, TypeOK
    <3> QED
      BY <3>1, <3>2 DEF ServedInv
  <2>21. ASSUME NEW a \in Addr, GatewayJoins(a) PROVE ServedInv'
    <3>1. AnswersServed'
      BY <2>21 DEF GatewayJoins, ServedInv, AnswersServed, TypeOK
    <3>2. ASSUME NEW k \in Node PROVE LockOwner(k)' /\ AddressesServed(k)'
      BY <2>21, <3>2 DEF GatewayJoins, ServedInv, LockOwner, AddressesServed, TypeOK
    <3> QED
      BY <3>1, <3>2 DEF ServedInv
  <2>22. ASSUME NEW m \in reqs, LoseRequest(m) PROVE ServedInv'
    <3>1. AnswersServed'
      BY <2>22 DEF LoseRequest, ServedInv, AnswersServed
    <3>2. ASSUME NEW k \in Node PROVE LockOwner(k)' /\ AddressesServed(k)'
      BY <2>22, <3>2 DEF LoseRequest, ServedInv, LockOwner, AddressesServed, TypeOK
    <3> QED
      BY <3>1, <3>2 DEF ServedInv
  <2>23. ASSUME NEW m \in rsps, LoseResponse(m) PROVE ServedInv'
    <3>1. AnswersServed'
      BY <2>23 DEF LoseResponse, ServedInv, AnswersServed
    <3>2. ASSUME NEW k \in Node PROVE LockOwner(k)' /\ AddressesServed(k)'
      BY <2>23, <3>2 DEF LoseResponse, ServedInv, LockOwner, AddressesServed, TypeOK
    <3> QED
      BY <3>1, <3>2 DEF ServedInv
  <2>24. ASSUME UNCHANGED vars PROVE ServedInv'
    <3>1. AnswersServed'
      BY <2>24 DEF vars, ServedInv, AnswersServed
    <3>2. ASSUME NEW k \in Node PROVE LockOwner(k)' /\ AddressesServed(k)'
      BY <2>24, <3>2 DEF vars, ServedInv, LockOwner, AddressesServed, TypeOK
    <3> QED
      BY <3>1, <3>2 DEF ServedInv
  <2> QED
    BY <2>1, <2>2, <2>3, <2>4, <2>5, <2>6, <2>7, <2>8, <2>9, <2>10, <2>11, <2>12, <2>13, <2>14, <2>15, <2>16, <2>17, <2>18, <2>19, <2>20, <2>21, <2>22, <2>23, <2>24
       DEF Next, Push, Invalidate, OnResponse, OtThread, Gateway, Arrives, Network
<1> QED
  BY <1>1, <1>2, TypeCorrect, PTL DEF Spec

(* A node that has a gateway holds the address of one that printed a report*)
(* of that node, whenever a push can read the cache.                       *)
THEOREM GatewayCorrect == Spec => []GatewayIsServed
<1>1. ServedInv => GatewayIsServed
  BY DEF ServedInv, AddressesServed, GatewayIsServed
<1> QED
  BY <1>1, ServedCorrect, PTL

(* A confirmable request is only ever sent to such an address.             *)
THEOREM UnicastCorrect == Spec => []UnicastToServed
<1>1. ServedInv => UnicastToServed
  BY DEF ServedInv, AddressesServed, UnicastToServed
<1> QED
  BY <1>1, ServedCorrect, PTL

(* A gateway never acknowledges a report it did not print.                 *)
THEOREM ResponsesCorrect == Spec => []ResponsesPrinted
<1>1. ServedInv => ResponsesPrinted
  BY DEF ServedInv, AnswersServed, ResponsesPrinted
<1> QED
  BY <1>1, ServedCorrect, PTL

(* Keeping the copy of one more request takes CopyCost of it buffers.      *)
LEMMA KeepCopy ==
    ASSUME NEW S, IsFiniteSet(S), NEW p, p \notin S
    PROVE  /\ IsFiniteSet(S \cup {p})
           /\ Copies(S \cup {p}) = Copies(S) + CopyCost(p)
           /\ Copies(S) \in Nat
<1> DEFINE C(T) == {q \in T : Confirmable(q)}
<1>1. IsFiniteSet(S \cup {p}) /\ Cardinality(S \cup {p}) = Cardinality(S) + 1
  BY FS_AddElement
<1>2. IsFiniteSet(C(S)) /\ p \notin C(S)
  BY FS_Subset
<1>3. Cardinality(S) \in Nat /\ Cardinality(C(S)) \in Nat
  BY <1>2, FS_CardinalityType
<1>4. CASE Confirmable(p)
  <2>1. C(S \cup {p}) = C(S) \cup {p}
    BY <1>4
  <2>2. Cardinality(C(S \cup {p})) = Cardinality(C(S)) + 1
    BY <1>2, <2>1, FS_AddElement
  <2> QED
    BY <1>1, <1>3, <1>4, <2>2 DEF Copies, CopyCost
<1>5. CASE ~Confirmable(p)
  <2>1. C(S \cup {p}) = C(S)
    BY <1>5
  <2> QED
    BY <1>1, <1>3, <1>5, <2>1 DEF Copies, CopyCost
<1> QED
  BY <1>4, <1>5

(* Releasing it gives the same buffers back.                               *)
LEMMA DropCopy ==
    ASSUME NEW S, IsFiniteSet(S), NEW p \in S
    PROVE  /\ IsFiniteSet(S \ {p})
           /\ Copies(S \ {p}) + CopyCost(p) = Copies(S)
           /\ Copies(S \ {p}) \in Nat
<1>1. IsFiniteSet(S \ {p}) /\ p \notin S \ {p} /\ S = (S \ {p}) \cup {p}
  BY FS_RemoveElement
<1> QED
  BY <1>1, KeepCopy

(* No path of the push, no timeout and no answer loses or doubles a buffer.*)
THEOREM BufferCorrect == Spec => []BufferInv
<1> USE AddrAssumption, BufferAssumption, RetransmitAssumption
<1> DEFINE Accounted(n) == free[n] + stack[n] + held[n] + Copies(pending[n]) = Buffers
<1> DEFINE Good(n) == HeldByPlace(n) /\ OneCopyPerToken(n) /\ Accounted(n)
<1>1. Init => BufferInv
  <2>1. IsFiniteSet({}) /\ Copies({}) = 0
    <3>1. {p \in {} : Confirmable(p)} = {}
      OBVIOUS
    <3> QED
      BY <3>1, FS_EmptySet DEF Copies
  <2> QED
    BY <2>1 DEF Init, BufferInv, BufferAccounting, HeldByPlace, OneCopyPerToken
<1>2. TypeOK /\ BufferInv /\ [Next]_vars => BufferInv'
  <2> SUFFICES ASSUME TypeOK, BufferInv, [Next]_vars PROVE BufferInv'
    OBVIOUS
  <2>0. /\ \A k \in Node : Good(k)
        /\ (\A k \in Node : Good(k)') => BufferInv'
    BY DEF BufferInv, BufferAccounting
  <2> DEFINE poolVars == <<pc, held, free, stack, pending>>
  <2>1. ASSUME UNCHANGED poolVars PROVE BufferInv'
    <3>1. ASSUME NEW k \in Node PROVE Good(k)'
      BY <2>0, <2>1 DEF HeldByPlace, OneCopyPerToken
    <3> QED
      BY <2>0, <3>1
  <2>2. ASSUME NEW n \in Node, UNCHANGED <<held, free, stack, pending>>,
               NEW to \in {"idle", "lock", "addr", "new", "clear"},
               pc[n] \in {"idle", "lock", "addr", "clear"},
               pc' = [pc EXCEPT ![n] = to]
        PROVE  BufferInv'
    <3>1. ASSUME NEW k \in Node PROVE Good(k)'
      <4>1. HeldByPlace(k)'
        BY <2>0, <2>2 DEF HeldByPlace, TypeOK
      <4> QED
        BY <2>0, <2>2, <4>1 DEF OneCopyPerToken
    <3> QED
      BY <2>0, <3>1
  <2>3. ASSUME NEW n \in Node, NewMessage(n) PROVE BufferInv'
    <3>1. ASSUME NEW k \in Node PROVE Good(k)'
      <4>1. HeldByPlace(k)'
        BY <2>0, <2>3 DEF NewMessage, HeldByPlace, TypeOK
      <4>2. OneCopyPerToken(k)' /\ pending'[k] = pending[k]
        BY <2>0, <2>3 DEF NewMessage, OneCopyPerToken
      <4>3. free'[k] + stack'[k] + held'[k] = free[k] + stack[k] + held[k]
        BY <2>0, <2>3 DEF NewMessage, HeldByPlace, TypeOK
      <4> QED
        BY <2>0, <4>1, <4>2, <4>3
    <3> QED
      BY <2>0, <3>1
  <2>4. ASSUME NEW n \in Node, AppendFrame(n) PROVE BufferInv'
    <3>1. ASSUME NEW k \in Node PROVE Good(k)'
      <4>1. HeldByPlace(k)'
        BY <2>0, <2>4 DEF AppendFrame, OutFree, HeldByPlace, TypeOK
      <4>2. OneCopyPerToken(k)' /\ pending'[k] = pending[k]
        BY <2>0, <2>4 DEF AppendFrame, OneCopyPerToken
      <4>3. free'[k] + stack'[k] + held'[k] = free[k] + stack[k] + held[k]
        <5>1. /\ stack' = stack /\ held[n] = 1
              /\ free[k] \in Nat /\ stack[k] \in Nat /\ held[k] \in 0..2
          BY <2>0, <2>4 DEF AppendFrame, HeldByPlace, TypeOK
        <5>2. CASE free[n] = 0
          <6>1. OutFree(n)
            BY <2>4, <5>2 DEF AppendFrame
          <6> QED
            BY <5>1, <5>2, <6>1 DEF OutFree, TypeOK
        <5>3. CASE free[n] # 0
          BY <2>4, <5>1, <5>3 DEF AppendFrame, TypeOK
        <5> QED
          BY <5>2, <5>3
      <4> QED
        BY <2>0, <4>1, <4>2, <4>3
    <3> QED
      BY <2>0, <3>1
  <2>5. ASSUME NEW n \in Node, SendRequest(n) PROVE BufferInv'
    <3>1. PICK t \in Token \ TokensInUse(n) : SendRequest(n)!2!(t)
      BY <2>5 DEF SendRequest
    <3> DEFINE p == [token |-> t,
                     dst   |-> IF unicast[n] THEN peer[n] ELSE Group,
                     left  |-> MaxRetransmit]
    <3>2. p.token = t /\ \A q \in pending[n] : q.token # t
      BY DEF TokensInUse
    <3>3. CopyCost(p) \in {1, 2}
      BY CopyCostType
    <3>4. CASE free[n] < CopyCost(p)
      <4>1. OutFree(n) /\ UNCHANGED <<stack, pending>>
        BY <3>1, <3>4
      <4>2. ASSUME NEW k \in Node PROVE Good(k)'
        <5>1. HeldByPlace(k)'
          BY <2>0, <4>1 DEF OutFree, HeldByPlace, TypeOK
        <5>2. OneCopyPerToken(k)' /\ pending'[k] = pending[k]
          BY <2>0, <4>1 DEF OneCopyPerToken
        <5>3. free'[k] + stack'[k] + held'[k] = free[k] + stack[k] + held[k]
          BY <2>0, <4>1 DEF OutFree, HeldByPlace, TypeOK
        <5> QED
          BY <2>0, <5>1, <5>2, <5>3
      <4> QED
        BY <2>0, <4>2
    <3>5. CASE ~(free[n] < CopyCost(p))
      <4>1. /\ free' = [free EXCEPT ![n] = @ - CopyCost(p)]
            /\ stack' = [stack EXCEPT ![n] = @ + held[n]]
            /\ held' = [held EXCEPT ![n] = 0]
            /\ pending' = [pending EXCEPT ![n] = @ \cup {p}]
            /\ pc' = [pc EXCEPT ![n] = "idle"]
        BY <3>1, <3>5
      <4> HIDE DEF p
      <4>2. ASSUME NEW k \in Node, k # n PROVE Good(k)'
        <5>1. /\ free'[k] = free[k] /\ stack'[k] = stack[k] /\ held'[k] = held[k]
              /\ pending'[k] = pending[k] /\ pc'[k] = pc[k]
          BY <4>1, <4>2 DEF TypeOK
        <5> QED
          BY <2>0, <5>1 DEF HeldByPlace, OneCopyPerToken
      <4>3. Good(n)'
        <5>1. /\ free'[n] = free[n] - CopyCost(p) /\ stack'[n] = stack[n] + held[n]
              /\ held'[n] = 0 /\ pending'[n] = pending[n] \cup {p} /\ pc'[n] = "idle"
          BY <4>1 DEF TypeOK
        <5>2. HeldByPlace(n)'
          BY <5>1 DEF HeldByPlace
        <5>3. p \notin pending[n] /\ IsFiniteSet(pending[n])
          BY <2>0, <3>2 DEF OneCopyPerToken
        <5>4. /\ IsFiniteSet(pending'[n])
              /\ Copies(pending'[n]) = Copies(pending[n]) + CopyCost(p)
              /\ Copies(pending[n]) \in Nat
          BY <5>1, <5>3, KeepCopy
        <5>5. OneCopyPerToken(n)'
          BY <2>0, <3>2, <5>1, <5>4 DEF OneCopyPerToken
        <5>6. free[n] \in Nat /\ stack[n] \in Nat /\ held[n] \in Nat
          BY DEF TypeOK
        <5>7. Accounted(n)
          BY <2>0
        <5>8. Accounted(n)'
          BY <3>3, <5>1, <5>4, <5>6, <5>7
        <5> QED
          BY <5>2, <5>5, <5>8
      <4> QED
        BY <2>0, <4>2, <4>3
    <3> QED
      BY <3>4, <3>5
  <2>6. ASSUME NEW n \in Node, NEW p \in pending[n], Release(n, p),
               UNCHANGED <<pc, held, stack>>
        PROVE  BufferInv'
    <3>1. ASSUME NEW k \in Node, k # n PROVE Good(k)'
      <4>1. free'[k] = free[k] /\ pending'[k] = pending[k]
        BY <2>6, <3>1 DEF Release, TypeOK
      <4> QED
        BY <2>0, <2>6, <4>1 DEF HeldByPlace, OneCopyPerToken
    <3>2. Good(n)'
      <4>1. /\ free'[n] = free[n] + CopyCost(p) /\ pending'[n] = pending[n] \ {p}
            /\ UNCHANGED <<pc, held, stack>>
        BY <2>6 DEF Release, TypeOK
      <4>2. HeldByPlace(n)'
        BY <2>0, <4>1 DEF HeldByPlace
      <4>3. IsFiniteSet(pending[n])
        BY <2>0 DEF OneCopyPerToken
      <4>4. /\ IsFiniteSet(pending'[n])
            /\ Copies(pending'[n]) + CopyCost(p) = Copies(pending[n])
            /\ Copies(pending'[n]) \in Nat
        BY <4>1, <4>3, DropCopy
      <4>5. OneCopyPerToken(n)'
        BY <2>0, <4>1, <4>4 DEF OneCopyPerToken
      <4>6. /\ free[n] \in Nat /\ stack[n] \in Nat /\ held[n] \in Nat
            /\ CopyCost(p) \in {1, 2}
        BY CopyCostType DEF TypeOK
      <4>7. Accounted(n)
        BY <2>0
      <4>8. Accounted(n)'
        BY <4>1, <4>4, <4>6, <4>7
      <4> QED
        BY <4>2, <4>5, <4>8
    <3> QED
      BY <2>0, <3>1, <3>2
  <2>7. ASSUME NEW n \in Node, NEW m \in rsps, ReceiveResponse(n, m) PROVE BufferInv'
    <3>1. UNCHANGED <<pc, held, stack>>
      BY <2>7 DEF ReceiveResponse, pushVars
    <3>2. CASE UNCHANGED <<pending, free>>
      BY <2>1, <3>1, <3>2
    <3>3. CASE \E p \in pending[n] : Release(n, p)
      BY <2>6, <3>1, <3>3
    <3> QED
      BY <2>7, <3>2, <3>3 DEF ReceiveResponse
  <2>8. ASSUME NEW n \in Node, NEW p \in pending[n], RequestTimeout(n, p)
        PROVE  BufferInv'
    BY <2>6, <2>8 DEF RequestTimeout, pushVars
  <2>9. ASSUME NEW n \in Node, NEW p \in pending[n], Retransmit(n, p) PROVE BufferInv'
    <3> DEFINE q == [p EXCEPT !.left = @ - 1]
    <3>1. /\ pending' = [pending EXCEPT ![n] = (@ \ {p}) \cup {q}]
          /\ UNCHANGED <<pc, held, free, stack>>
      BY <2>9 DEF Retransmit, pushVars
    <3>2. p \in Pending /\ q.token = p.token /\ Confirmable(q) = Confirmable(p)
      BY DEF TypeOK, Pending, Confirmable
    <3> HIDE DEF q
    <3>3. ASSUME NEW k \in Node, k # n PROVE Good(k)'
      <4>1. pending'[k] = pending[k]
        BY <3>1, <3>3 DEF TypeOK
      <4> QED
        BY <2>0, <3>1, <4>1 DEF HeldByPlace, OneCopyPerToken
    <3>4. Good(n)'
      <4>1. pending'[n] = (pending[n] \ {p}) \cup {q}
        BY <3>1 DEF TypeOK
      <4>2. HeldByPlace(n)'
        BY <2>0, <3>1 DEF HeldByPlace
      <4>3. /\ IsFiniteSet(pending[n])
            /\ \A r, s \in pending[n] : r.token = s.token => r = s
        BY <2>0 DEF OneCopyPerToken
      <4>4. IsFiniteSet(pending[n] \ {p}) /\ q \notin pending[n] \ {p}
        BY <3>2, <4>3, DropCopy
      <4>5. /\ IsFiniteSet(pending'[n])
            /\ Copies(pending'[n]) = Copies(pending[n] \ {p}) + CopyCost(q)
        BY <4>1, <4>4, KeepCopy
      <4>6. Copies(pending[n] \ {p}) + CopyCost(p) = Copies(pending[n])
        BY <4>3, DropCopy
      <4>7. OneCopyPerToken(n)'
        BY <3>2, <4>1, <4>3, <4>5 DEF OneCopyPerToken
      <4>8. CopyCost(q) = CopyCost(p)
        BY <3>2 DEF CopyCost
      <4>9. Accounted(n)'
        BY <2>0, <3>1, <4>5, <4>6, <4>8
      <4> QED
        BY <4>2, <4>7, <4>9
    <3> QED
      BY <2>0, <3>3, <3>4
  <2>10. ASSUME NEW n \in Node, StackTakes(n) PROVE BufferInv'
    <3>1. ASSUME NEW k \in Node PROVE Good(k)'
      <4>1. HeldByPlace(k)' /\ OneCopyPerToken(k)' /\ pending'[k] = pending[k]
        BY <2>0, <2>10 DEF StackTakes, pushVars, HeldByPlace, OneCopyPerToken
      <4>2. free'[k] + stack'[k] + held'[k] = free[k] + stack[k] + held[k]
        BY <2>10 DEF StackTakes, pushVars, TypeOK
      <4> QED
        BY <2>0, <4>1, <4>2
    <3> QED
      BY <2>0, <3>1
  <2>11. ASSUME NEW n \in Node, StackReturns(n) PROVE BufferInv'
    <3>1. ASSUME NEW k \in Node PROVE Good(k)'
      <4>1. HeldByPlace(k)' /\ OneCopyPerToken(k)' /\ pending'[k] = pending[k]
        BY <2>0, <2>11 DEF StackReturns, pushVars, HeldByPlace, OneCopyPerToken
      <4>2. free'[k] + stack'[k] + held'[k] = free[k] + stack[k] + held[k]
        BY <2>11 DEF StackReturns, pushVars, TypeOK
      <4> QED
        BY <2>0, <4>1, <4>2
    <3> QED
      BY <2>0, <3>1
  <2>12. ASSUME NEW n \in Node, PushStart(n) \/ SnapshotFlag(n) \/ SnapshotAddr(n)
                                  \/ Invalidate(n)
         PROVE  BufferInv'
    BY <2>2, <2>12 DEF PushStart, SnapshotFlag, SnapshotAddr, Invalidate, InvalidateAddr,
                       InvalidateFlag, otVars
  <2>13. ASSUME NEW n \in Node, CoapInit(n) \/ OnResponse(n) PROVE BufferInv'
    BY <2>1, <2>13 DEF CoapInit, OnResponse, StoreAddr, StoreFlag, pushVars, otVars
  <2>14. ASSUME NEW a \in Addr, Gateway(a) PROVE BufferInv'
    BY <2>1, <2>14 DEF Gateway, Arrives, HandlePost, HandlePostNoBufs, HandleRepeat,
                       GatewayLeaves, GatewayJoins, pushVars, otVars
  <2>15. CASE Network \/ UNCHANGED vars
    BY <2>1, <2>15 DEF Network, LoseRequest, LoseResponse, vars, pushVars, otVars
  <2> QED
    BY <2>3, <2>4, <2>5, <2>7, <2>8, <2>9, <2>10, <2>11, <2>12, <2>13, <2>14, <2>15
       DEF Next, Push, OtThread
<1> QED
  BY <1>1, <1>2, TypeCorrect, PTL DEF Spec

(* Every buffer of a node is free, or with the stack, or in the message the*)
(* push builds, or in the copy of an open request.                         *)
THEOREM AccountingCorrect == Spec => []BufferAccounting
  BY BufferCorrect, PTL DEF BufferInv

(* Every copy and every request in flight has a token its node has used.   *)
THEOREM TokensCorrect == Spec => []TokensIssued
<1> USE DEF ctxVars, pushVars, otVars, netVars, gwVars
<1>1. Init => TokensIssued
  BY DEF Init, TokensIssued
<1>2. TypeOK /\ TokensIssued /\ [Next]_vars => TokensIssued'
  <2> SUFFICES ASSUME TypeOK, TokensIssued, [Next]_vars PROVE TokensIssued'
    OBVIOUS
  <2>1. ASSUME UNCHANGED issued, reqs' \subseteq reqs,
               \A k \in Node : pending'[k] \subseteq pending[k]
        PROVE  TokensIssued'
    BY <2>1 DEF TokensIssued
  <2>2. ASSUME NEW n \in Node, SendRequest(n) PROVE TokensIssued'
    <3>1. PICK t \in Token \ TokensInUse(n) : SendRequest(n)!2!(t)
      BY <2>2 DEF SendRequest
    <3> DEFINE p == [token |-> t,
                     dst   |-> IF unicast[n] THEN peer[n] ELSE Group,
                     left  |-> MaxRetransmit]
    <3>2. CASE UNCHANGED <<pending, reqs, issued>>
      BY <2>1, <3>2
    <3>3. CASE /\ pending' = [pending EXCEPT ![n] = @ \cup {p}]
               /\ reqs' = reqs \cup Datagrams(n, p)
               /\ issued' = [issued EXCEPT ![n] = @ \cup {t}]
      <4>1. p.token = t /\ \A m \in Datagrams(n, p) : m.node = n /\ m.token = t
        BY DEF Datagrams
      <4>2. /\ t \in issued'[n]
            /\ \A k \in Node : issued[k] \subseteq issued'[k]
            /\ \A k \in Node : \A q \in pending'[k] : q \in pending[k] \/ (k = n /\ q = p)
        BY <3>3 DEF TypeOK
      <4>3. \A m \in reqs : m.node \in Node
        BY DEF TypeOK, Request
      <4> HIDE DEF p
      <4> QED
        BY <3>3, <4>1, <4>2, <4>3 DEF TokensIssued
    <3> QED
      BY <3>1, <3>2, <3>3
  <2>3. ASSUME NEW n \in Node, NEW p \in pending[n], Retransmit(n, p) PROVE TokensIssued'
    <3> DEFINE q == [p EXCEPT !.left = @ - 1]
    <3>1. q.token = p.token /\ p.token \in issued[n]
      BY DEF TypeOK, Pending, TokensIssued
    <3>2. \A m \in Datagrams(n, p) : m.node = n /\ m.token = p.token
      BY DEF Datagrams
    <3>3. /\ pending' = [pending EXCEPT ![n] = (@ \ {p}) \cup {q}]
          /\ reqs' = reqs \cup Datagrams(n, p)
          /\ UNCHANGED issued
      BY <2>3 DEF Retransmit
    <3> HIDE DEF q
    <3>4. \A k \in Node : \A r \in pending'[k] : r \in pending[k] \/ (k = n /\ r = q)
      BY <3>3 DEF TypeOK
    <3> QED
      BY <3>1, <3>2, <3>3, <3>4 DEF TokensIssued
  <2>4. ASSUME NEW n \in Node, NEW m \in rsps, ReceiveResponse(n, m) PROVE TokensIssued'
    BY <2>1, <2>4 DEF ReceiveResponse, Release, TypeOK
  <2>5. ASSUME NEW n \in Node, NEW p \in pending[n], RequestTimeout(n, p)
        PROVE  TokensIssued'
    BY <2>1, <2>5 DEF RequestTimeout, Release, TypeOK
  <2>6. ASSUME NEW n \in Node, \/ CoapInit(n) \/ PushStart(n) \/ SnapshotFlag(n)
                               \/ SnapshotAddr(n) \/ NewMessage(n) \/ AppendFrame(n)
                               \/ Invalidate(n) \/ OnResponse(n)
                               \/ StackTakes(n) \/ StackReturns(n)
        PROVE  TokensIssued'
    BY <2>1, <2>6
       DEF CoapInit, PushStart, SnapshotFlag, SnapshotAddr, NewMessage, AppendFrame,
           Invalidate, InvalidateAddr, InvalidateFlag, OnResponse, StoreAddr, StoreFlag,
           StackTakes, StackReturns
  <2>7. ASSUME NEW a \in Addr, Gateway(a) PROVE TokensIssued'
    BY <2>1, <2>7 DEF Gateway, Arrives, HandlePost, HandlePostNoBufs, HandleRepeat,
                      AtGateway, GatewayLeaves, GatewayJoins
  <2>8. CASE Network \/ UNCHANGED vars
    BY <2>1, <2>8 DEF Network, LoseRequest, LoseResponse, vars
  <2> QED
    BY <2>2, <2>3, <2>4, <2>5, <2>6, <2>7, <2>8 DEF Next, Push, OtThread
<1> QED
  BY <1>1, <1>2, TypeCorrect, PTL DEF Spec

(* The whole path implements ReportDelivery: an exchange is opened and     *)
(* closed once, a line is printed only for a report that was pushed, and a *)
(* node learns only gateways that printed a report of it.                  *)
THEOREM DeliveryImplemented == Spec => ImplementsDelivery
<1> USE AddrAssumption
<1> USE DEF ctxVars, pushVars, otVars, netVars, gwVars
<1> DEFINE open == [n \in Node |-> {p.token : p \in pending[n]}]
           known == [n \in Node |-> IF have[n] THEN gateway[n] ELSE NoAddr]
<1>1. Init => Delivery!Init
  <2> SUFFICES ASSUME Init PROVE Delivery!Init
    OBVIOUS
  <2>1. open = [n \in Node |-> {}]
    BY DEF Init
  <2>2. known = [n \in Node |-> NoAddr]
    BY DEF Init
  <2> QED
    BY <2>1, <2>2 DEF Init, Delivery!Init
<1>2. TypeOK /\ ServedInv /\ BufferInv /\ TokensIssued /\ [Next]_vars
        => [Delivery!Next]_(Delivery!vars)
  <2> SUFFICES ASSUME TypeOK, ServedInv, BufferInv, TokensIssued, [Next]_vars
               PROVE  Delivery!Next \/ UNCHANGED Delivery!vars
    OBVIOUS
  <2>1. ASSUME UNCHANGED <<open, issued, printed, served, known>>
        PROVE  UNCHANGED Delivery!vars
    BY <2>1 DEF Delivery!vars
  <2>2. ASSUME NEW n \in Node, known' = [known EXCEPT ![n] = NoAddr],
               UNCHANGED <<open, issued, printed, served>>
        PROVE  Delivery!Next
    BY <2>2 DEF Delivery!Next, Delivery!Forget
  <2>3. ASSUME NEW n \in Node, NEW a \in Addr, <<n, a>> \in served,
               known' = [known EXCEPT ![n] = a],
               UNCHANGED <<open, issued, printed, served>>
        PROVE  Delivery!Next
    BY <2>3 DEF Delivery!Next, Delivery!Learn
  <2>4. ASSUME NEW n \in Node, NEW t \in Token, t \in open[n],
               open' = [open EXCEPT ![n] = @ \ {t}],
               UNCHANGED <<issued, printed, served, known>>
        PROVE  Delivery!Next
    BY <2>4 DEF Delivery!Next, Delivery!Close
  <2>5. UNCHANGED pending => UNCHANGED open
    OBVIOUS
  <2>6. UNCHANGED <<have, gateway>> => UNCHANGED known
    OBVIOUS
  <2>7. ASSUME NEW n \in Node, CoapInit(n) PROVE Delivery!Next
    <3>1. known' = [known EXCEPT ![n] = NoAddr]
      BY <2>7 DEF CoapInit, TypeOK
    <3> QED
      BY <2>2, <2>5, <2>7, <3>1 DEF CoapInit
  <2>8. ASSUME NEW n \in Node, InvalidateAddr(n) PROVE Delivery!Next
    <3>1. known' = [known EXCEPT ![n] = NoAddr]
      BY <2>8 DEF InvalidateAddr, TypeOK
    <3> QED
      BY <2>2, <2>5, <2>8, <3>1 DEF InvalidateAddr
  <2>9. ASSUME NEW n \in Node, InvalidateFlag(n) PROVE Delivery!Next
    <3>1. known' = [known EXCEPT ![n] = NoAddr]
      BY <2>9 DEF InvalidateFlag, TypeOK
    <3> QED
      BY <2>2, <2>5, <2>9, <3>1 DEF InvalidateFlag
  <2>10. ASSUME NEW n \in Node, StoreAddr(n) PROVE Delivery!Next \/ UNCHANGED Delivery!vars
    <3> DEFINE a == cb[n].addr
    <3>1. <<n, a>> \in served
      BY <2>10 DEF StoreAddr, ServedInv, AddressesServed
    <3>2. CASE have[n]
      <4>1. known' = [known EXCEPT ![n] = a]
        BY <2>10, <3>2 DEF StoreAddr, TypeOK
      <4>2. a \in Addr
        BY <3>1 DEF TypeOK
      <4> HIDE DEF a
      <4> QED
        BY <2>3, <2>5, <2>10, <3>1, <4>1, <4>2 DEF StoreAddr
    <3>3. CASE ~have[n]
      <4>1. UNCHANGED known
        BY <2>10, <3>3 DEF StoreAddr, TypeOK
      <4> QED
        BY <2>1, <2>5, <2>10, <4>1 DEF StoreAddr
    <3> QED
      BY <3>2, <3>3
  <2>11. ASSUME NEW n \in Node, StoreFlag(n) PROVE Delivery!Next
    <3> DEFINE a == gateway[n]
    <3>1. <<n, a>> \in served
      BY <2>11 DEF StoreFlag, ServedInv, AddressesServed
    <3>2. known' = [known EXCEPT ![n] = a]
      BY <2>11 DEF StoreFlag, TypeOK
    <3>3. a \in Addr
      BY <3>1 DEF TypeOK
    <3> HIDE DEF a
    <3> QED
      BY <2>3, <2>5, <2>11, <3>1, <3>2, <3>3 DEF StoreFlag
  <2>12. ASSUME NEW n \in Node, NEW p \in pending[n], Release(n, p),
                UNCHANGED <<have, gateway, issued, printed, served>>
         PROVE  Delivery!Next
    <3>1. p.token \in Token /\ p.token \in open[n]
      BY DEF TypeOK, Pending
    <3>2. \A q \in pending[n] : q.token = p.token => q = p
      BY DEF BufferInv, OneCopyPerToken
    <3>3. pending'[n] = pending[n] \ {p} /\ \A k \in Node : k # n => pending'[k] = pending[k]
      BY <2>12 DEF Release, TypeOK
    <3>4. {q.token : q \in pending'[n]} = {q.token : q \in pending[n]} \ {p.token}
      BY <3>2, <3>3
    <3>5. open' = [open EXCEPT ![n] = @ \ {p.token}]
      BY <3>3, <3>4
    <3> QED
      BY <2>4, <2>6, <2>12, <3>1, <3>5
  <2>13. ASSUME NEW n \in Node, NEW m \in rsps, ReceiveResponse(n, m)
         PROVE  Delivery!Next \/ UNCHANGED Delivery!vars
    <3>1. UNCHANGED <<have, gateway, issued, printed, served>>
      BY <2>13 DEF ReceiveResponse
    <3>2. CASE UNCHANGED pending
      BY <2>1, <2>5, <2>6, <3>1, <3>2
    <3>3. CASE \E p \in pending[n] : Release(n, p)
      BY <2>12, <3>1, <3>3
    <3> QED
      BY <2>13, <3>2, <3>3 DEF ReceiveResponse
  <2>14. ASSUME NEW n \in Node, NEW p \in pending[n], RequestTimeout(n, p)
         PROVE  Delivery!Next
    BY <2>12, <2>14 DEF RequestTimeout
  <2>15. ASSUME NEW n \in Node, NEW p \in pending[n], Retransmit(n, p)
         PROVE  UNCHANGED Delivery!vars
    <3> DEFINE q == [p EXCEPT !.left = @ - 1]
    <3>1. q.token = p.token
      BY DEF TypeOK, Pending
    <3>2. /\ pending' = [pending EXCEPT ![n] = (@ \ {p}) \cup {q}]
          /\ UNCHANGED <<have, gateway, issued, printed, served>>
      BY <2>15 DEF Retransmit
    <3> HIDE DEF q
    <3>3. /\ pending'[n] = (pending[n] \ {p}) \cup {q}
          /\ \A k \in Node : k # n => pending'[k] = pending[k]
      BY <3>2 DEF TypeOK
    <3>4. {r.token : r \in pending'[n]} = {r.token : r \in pending[n]}
      BY <3>1, <3>3
    <3>5. UNCHANGED open
      BY <3>3, <3>4
    <3> QED
      BY <2>1, <2>6, <3>2, <3>5
  <2>16. ASSUME NEW n \in Node, SendRequest(n)
         PROVE  Delivery!Next \/ UNCHANGED Delivery!vars
    <3>1. PICK t \in Token \ TokensInUse(n) : SendRequest(n)!2!(t)
      BY <2>16 DEF SendRequest
    <3> DEFINE p == [token |-> t,
                     dst   |-> IF unicast[n] THEN peer[n] ELSE Group,
                     left  |-> MaxRetransmit]
    <3>2. UNCHANGED <<have, gateway, served>>
      BY <2>16 DEF SendRequest
    <3>3. CASE UNCHANGED <<pending, printed, issued>>
      BY <2>1, <2>5, <2>6, <3>2, <3>3
    <3>4. CASE /\ pending' = [pending EXCEPT ![n] = @ \cup {p}]
               /\ printed' = {l \in printed : l[2] # n \/ l[3] # t}
               /\ issued' = [issued EXCEPT ![n] = @ \cup {t}]
      <4>1. p.token = t /\ t \notin open[n]
        BY DEF TokensInUse
      <4> HIDE DEF p
      <4>2. /\ pending'[n] = pending[n] \cup {p}
            /\ \A k \in Node : k # n => pending'[k] = pending[k]
        BY <3>4 DEF TypeOK
      <4>3. {q.token : q \in pending'[n]} = {q.token : q \in pending[n]} \cup {t}
        BY <4>1, <4>2
      <4>4. open' = [open EXCEPT ![n] = @ \cup {t}]
        BY <4>2, <4>3
      <4> HIDE DEF open
      <4>5. Delivery!Submit(n, t)
        BY <2>6, <3>2, <3>4, <4>1, <4>4 DEF Delivery!Submit, open
      <4> QED
        BY <4>5 DEF Delivery!Next
    <3> QED
      BY <3>1, <3>3, <3>4
  <2>17. ASSUME NEW a \in Addr, NEW m \in reqs, HandlePost(a, m) \/ HandlePostNoBufs(a, m)
         PROVE  Delivery!Next
    <3>1. m.node \in Node /\ m.token \in Token /\ m.token \in issued[m.node]
      BY DEF TypeOK, Request, TokensIssued
    <3>2. PrintLine(a, m) /\ UNCHANGED <<pending, have, gateway, issued>>
      BY <2>17 DEF HandlePost, HandlePostNoBufs
    <3>3. Delivery!PrintLine(a, m.node, m.token)
      BY <2>5, <2>6, <3>1, <3>2 DEF PrintLine, Delivery!PrintLine
    <3> QED
      BY <3>1, <3>3 DEF Delivery!Next
  <2>18. ASSUME UNCHANGED <<pending, have, gateway, issued, printed, served>>
         PROVE  UNCHANGED Delivery!vars
    BY <2>1, <2>5, <2>6, <2>18
  <2>19. ASSUME NEW n \in Node, \/ PushStart(n) \/ SnapshotFlag(n) \/ SnapshotAddr(n)
                                \/ NewMessage(n) \/ AppendFrame(n)
                                \/ StackTakes(n) \/ StackReturns(n)
         PROVE  UNCHANGED Delivery!vars
    BY <2>18, <2>19 DEF PushStart, SnapshotFlag, SnapshotAddr, NewMessage, AppendFrame,
                        StackTakes, StackReturns
  <2>20. ASSUME NEW a \in Addr, \/ \E m \in reqs : HandleRepeat(a, m)
                                \/ GatewayLeaves(a) \/ GatewayJoins(a)
         PROVE  UNCHANGED Delivery!vars
    BY <2>18, <2>20 DEF HandleRepeat, GatewayLeaves, GatewayJoins
  <2>21. CASE Network \/ UNCHANGED vars
    BY <2>18, <2>21 DEF Network, LoseRequest, LoseResponse, vars
  <2> QED
    BY <2>7, <2>8, <2>9, <2>10, <2>11, <2>13, <2>14, <2>15, <2>16, <2>17, <2>19, <2>20,
       <2>21
       DEF Next, Push, Invalidate, OnResponse, OtThread, Gateway, Arrives
<1> QED
  BY <1>1, <1>2, TypeCorrect, ServedCorrect, BufferCorrect, TokensCorrect, PTL
     DEF Spec, ImplementsDelivery, Delivery!Spec
=============================================================================
