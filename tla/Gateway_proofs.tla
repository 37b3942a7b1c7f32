--------------------------- MODULE Gateway_proofs ---------------------------
(***************************************************************************)
(* Proofs about Gateway for any number of requests, transfers and agents.  *)
(*                                                                         *)
(* OneCallUnlessOverlapped is not inductive: a step may deliver a second   *)
(* call only because an earlier step let a second request past the gate.   *)
(* GateInv therefore counts a request as engaged with a transfer from the  *)
(* moment its lookup starts and says that an unexcused transfer engages at *)
(* most one request, and stays reserved while it is held or bought.        *)
(*                                                                         *)
(* The butler demo and its receipts (AnchorReceipts), which run beside the *)
(* paid endpoint in the same process, follow at the end.                   *)
(***************************************************************************)
EXTENDS Gateway, AnchorReceipts, FiniteSetTheorems, TLAPS

Engaged(r, t) ==
  \/ req[r].pc = "reading" /\ req[r].tx = t
  \/ Holds(r, t)
  \/ Bought(r, t)

(* Where a request can be, given how it pays.                              *)
Placed ==
  \A r \in Requests :
    /\ req[r].pc = "settle" => req[r].rail = "x402"
    /\ req[r].rail = "dem" => req[r].pc \in {"body", "invoke", "attest", "done"}
    /\ req[r].pc \in {"idle", "reading"} => req[r].rail = "none"
    /\ req[r].pc = "reading" => req[r].tx \in Txs
    /\ req[r].rail = "dem" => req[r].tx \in Txs
    /\ req[r].code = 200 => req[r].pc = "done"

GateInv ==
  \A t \in Txs \ excused :
    /\ \A r, s \in Requests : Engaged(r, t) /\ Engaged(s, t) => r = s
    /\ \A r \in Requests : Holds(r, t) \/ Bought(r, t) => t \in reserved

-----------------------------------------------------------------------------
(* What the end of a request does to the typed state.                      *)
LEMMA AnswerTyped ==
  ASSUME TypeOK, Placed, NEW r \in Requests, NEW code \in Codes, Answer(r, code),
         x402' \in [Requests -> {"none", "verified", "cancelled", "charged"}],
         req[r].pc \in Waiting \ {"reading"}
  PROVE  TypeOK' /\ Placed'
<1>1. req[r] \in RequestState
  BY DEF TypeOK
<1>2. [req[r] EXCEPT !.pc = "done", !.code = code] \in RequestState
  BY <1>1 DEF RequestState
<1>3. req' = [req EXCEPT ![r] = [req[r] EXCEPT !.pc = "done", !.code = code]]
  BY DEF Answer
<1>4. req' \in [Requests -> RequestState]
  BY <1>2, <1>3 DEF TypeOK
<1>5. reserved' \subseteq Txs
  BY DEF TypeOK, Answer
<1>6. TypeOK'
  BY <1>4, <1>5 DEF TypeOK, Answer
<1>7. Placed'
  BY <1>1, <1>3 DEF Placed, TypeOK, RequestState, Waiting
<1> QED
  BY <1>6, <1>7

(* The gate reserves only transfers, every answered request carries an     *)
(* HTTP status, and a request is where its way of paying allows.           *)
THEOREM Typing == Spec => [](TypeOK /\ Placed)
<1>1. Init => TypeOK /\ Placed
  BY GatewayAssumption DEF Init, TypeOK, Placed, RequestState, Codes, Sources, Rails, Waiting
<1>2. TypeOK /\ Placed /\ [Next]_vars => (TypeOK /\ Placed)'
  <2> SUFFICES ASSUME TypeOK, Placed, [Next]_vars PROVE TypeOK' /\ Placed'
    OBVIOUS
  <2> DEFINE Payments == {"none", "verified", "cancelled", "charged"}
  <2>1. ASSUME NEW t \in Txs, Broadcast(t) \/ Include(t) PROVE TypeOK' /\ Placed'
    BY <2>1 DEF Broadcast, Include, TypeOK, Placed
  <2>2. ASSUME NEW r \in Requests, Arrive(r) PROVE TypeOK' /\ Placed'
    <3>1. TypeOK'
      BY <2>2 DEF Arrive, UnknownAgent, OperatorCall, UnpaidCall, MalformedPayment,
           UsedPayment, PresentPayment, PresentX402,
           TypeOK, RequestState, Codes, Sources, Rails, Waiting
    <3>2. Placed'
      BY <2>2 DEF Arrive, UnknownAgent, OperatorCall, UnpaidCall, MalformedPayment,
           UsedPayment, PresentPayment, PresentX402, TypeOK, RequestState, Placed
    <3> QED
      BY <3>1, <3>2
  <2>3. ASSUME NEW r \in Requests, NEW code \in Codes, Fail(r, code),
               req[r].pc \in Waiting \ {"reading"}
        PROVE  TypeOK' /\ Placed'
    <3>1. x402' \in [Requests -> Payments]
      BY <2>3 DEF Fail, Cancelled, TypeOK
    <3> QED
      BY <2>3, <3>1, AnswerTyped DEF Fail
  <2>4. ASSUME NEW r \in Requests, Deliver(r), req[r].pc \in Waiting \ {"reading"}
        PROVE  TypeOK' /\ Placed'
    <3>1. x402' \in [Requests -> Payments] /\ 200 \in Codes
      BY <2>4 DEF Deliver, TypeOK, Codes
    <3> QED
      BY <2>4, <3>1, AnswerTyped DEF Deliver
  <2>5. ASSUME NEW r \in Requests, Resume(r) PROVE TypeOK' /\ Placed'
    <3>1. CASE LookupReturns(r)
      <4>1. req[r].tx \in Txs
        BY <3>1 DEF LookupReturns, Placed
      <4>2. req' \in [Requests -> RequestState]
        BY <3>1 DEF LookupReturns, TypeOK, RequestState, Codes, Sources, Rails, Waiting
      <4>3. reserved' \subseteq Txs
        BY <3>1, <4>1 DEF LookupReturns, TypeOK
      <4>4. TypeOK'
        BY <3>1, <4>2, <4>3 DEF LookupReturns, TypeOK
      <4>5. Placed'
        BY <3>1, <4>1 DEF LookupReturns, Placed, TypeOK, RequestState
      <4> QED
        BY <4>4, <4>5
    <3>2. CASE X402Challenge(r) \/ X402Accepted(r) \/ BodyAccepted(r)
      <4>1. TypeOK'
        BY <3>2 DEF X402Challenge, X402Accepted, BodyAccepted,
             TypeOK, RequestState, Codes, Sources, Rails, Waiting
      <4>2. Placed'
        BY <3>2 DEF X402Challenge, X402Accepted, BodyAccepted, Placed, TypeOK, RequestState
      <4> QED
        BY <4>1, <4>2
    <3>3. CASE BodyRefused(r) \/ AgentFails(r) \/ AnchorFails(r)
      BY <3>3, <2>3 DEF BodyRefused, AgentFails, AnchorFails, Codes, Waiting
    <3>4. CASE AgentReturns(r) \/ Anchored(r)
      <4>1. CASE Deliver(r)
        BY <3>4, <4>1, <2>4 DEF AgentReturns, Anchored, Waiting
      <4>2. CASE \E pc \in {"attest", "settle"} :
              Proceed(r, pc) /\ (pc = "settle" => req[r].rail = "x402")
                             /\ req[r].pc \in {"invoke", "attest"}
        <5>0. PICK pc \in {"attest", "settle"} :
                Proceed(r, pc) /\ (pc = "settle" => req[r].rail = "x402")
                               /\ req[r].pc \in {"invoke", "attest"}
          BY <4>2
        <5>1. TypeOK'
          <6>1. pc \in {"idle", "done"} \cup Waiting
            BY DEF Waiting
          <6>2. req' \in [Requests -> RequestState]
            <7>1. [req[r] EXCEPT !.pc = pc, !.result = TRUE] \in RequestState
              BY <6>1 DEF TypeOK, RequestState
            <7>2. req' = [req EXCEPT ![r] = [req[r] EXCEPT !.pc = pc, !.result = TRUE]]
              BY <5>0 DEF Proceed
            <7> QED
              BY <7>1, <7>2 DEF TypeOK
          <6> QED
            BY <5>0, <6>2 DEF Proceed, TypeOK
        <5>2. Placed'
          BY <5>0 DEF Proceed, Placed, TypeOK, RequestState
        <5> QED
          BY <5>1, <5>2
      <4> QED
        BY <3>4, <4>1, <4>2 DEF AgentReturns, Anchored
    <3>5. CASE X402Settled(r)
      <4>1. x402' \in [Requests -> Payments] /\ 200 \in Codes
        BY <3>5 DEF X402Settled, TypeOK, Codes
      <4> QED
        BY <3>5, <4>1, AnswerTyped DEF X402Settled, Waiting
    <3>6. CASE X402NotSettled(r)
      <4>1. CASE Fail(r, 502) \/ Fail(r, 500)
        BY <3>6, <4>1, <2>3 DEF X402NotSettled, Codes, Waiting
      <4>2. CASE Answer(r, 500) /\ x402' = [x402 EXCEPT ![r] = "charged"]
        <5>1. x402' \in [Requests -> Payments] /\ 500 \in Codes
          BY <4>2 DEF TypeOK, Codes
        <5> QED
          BY <3>6, <4>2, <5>1, AnswerTyped DEF X402NotSettled, Waiting
      <4> QED
        BY <3>6, <4>1, <4>2 DEF X402NotSettled
    <3> QED
      BY <2>5, <3>1, <3>2, <3>3, <3>4, <3>5, <3>6 DEF Resume
  <2>6. CASE Restart
    <3>1. ASSUME NEW r \in Requests
          PROVE  req[r] \in RequestState /\ [req[r] EXCEPT !.pc = "done"] \in RequestState
      BY DEF TypeOK, RequestState
    <3>2. req' \in [Requests -> RequestState]
      BY <2>6, <3>1 DEF Restart
    <3>3. restarts' \in 0..MaxRestarts
      BY <2>6, GatewayAssumption DEF Restart, TypeOK
    <3>4. TypeOK'
      BY <2>6, <3>2, <3>3 DEF Restart, TypeOK
    <3>5. Placed'
      BY <2>6, <3>1 DEF Restart, Placed, Waiting, RequestState
    <3> QED
      BY <3>4, <3>5
  <2>7. CASE UNCHANGED vars
    BY <2>7 DEF vars, TypeOK, Placed
  <2> QED
    BY <2>1, <2>2, <2>5, <2>6, <2>7 DEF Next
<1> QED
  BY <1>1, <1>2, PTL DEF Spec

-----------------------------------------------------------------------------
(* How one step changes the engagements of a transfer: a request r that    *)
(* moves on keeps its transfer reserved unless it lets go of it, and no    *)
(* other request is touched.                                               *)
LEMMA AnswerKeepsGate ==
  ASSUME TypeOK, Placed, GateInv, OnlyDeliveryConsumes,
         NEW r \in Requests, NEW code \in Codes, Answer(r, code),
         req[r].pc \in Waiting \ {"reading"}
  PROVE  GateInv' /\ OnlyDeliveryConsumes'
<1>0. req[r] \in RequestState /\ req[r].code # 200
  BY DEF TypeOK, Placed, Waiting
<1>1. /\ req'[r].pc = "done" /\ req'[r].code = code
      /\ req'[r].rail = req[r].rail /\ req'[r].tx = req[r].tx
      /\ \A s \in Requests \ {r} : req'[s] = req[s]
      /\ excused' = excused
  BY <1>0 DEF Answer, TypeOK, RequestState
<1>2. req[r].rail = "dem" => Holds(r, req[r].tx)
  BY DEF Placed, Holds, Waiting
<1>3. \A s \in Requests, t \in Txs : Engaged(s, t)' => Engaged(s, t)
  BY <1>1, <1>2 DEF Engaged, Holds, Bought
<1>4. \A s \in Requests, t \in Txs :
        s # r => (Holds(s, t)' <=> Holds(s, t)) /\ (Bought(s, t)' <=> Bought(s, t))
  BY <1>1 DEF Holds, Bought
<1>5. \A t \in Txs : ~Holds(r, t)' /\ (Bought(r, t)' => code = 200 /\ Holds(r, t))
  BY <1>1, <1>2 DEF Holds, Bought
<1>6. ASSUME NEW t \in Txs \ excused, NEW s \in Requests, (Holds(s, t) \/ Bought(s, t))'
      PROVE  t \in reserved'
  <2>1. t \in reserved
    BY <1>4, <1>5, <1>6 DEF GateInv
  <2>2. CASE s = r
    BY <2>1, <2>2, <1>5, <1>6 DEF Answer
  <2>3. CASE s # r
    <3>1. Engaged(s, t)
      BY <1>3, <1>6 DEF Engaged
    <3>2. ~Holds(r, t)
      BY <2>3, <3>1 DEF GateInv, Engaged
    <3> QED
      BY <2>1, <3>2, <1>2 DEF Answer
  <2> QED
    BY <2>2, <2>3
<1>7. GateInv'
  BY <1>1, <1>3, <1>6 DEF GateInv
<1>8. OnlyDeliveryConsumes'
  <2> SUFFICES ASSUME NEW t \in reserved'
               PROVE  \E s \in Requests : (Holds(s, t) \/ Bought(s, t))'
    BY DEF OnlyDeliveryConsumes
  <2>1. t \in reserved /\ t \in Txs
    BY DEF Answer, TypeOK
  <2>2. PICK s \in Requests : Holds(s, t) \/ Bought(s, t)
    BY <2>1 DEF OnlyDeliveryConsumes
  <2>3. CASE s # r
    BY <1>4, <2>1, <2>2, <2>3
  <2>4. CASE s = r
    <3>1. Holds(r, t)
      BY <1>0, <2>2, <2>4 DEF Bought
    <3>2. code = 200
      BY <3>1 DEF Answer, Holds
    <3> QED
      BY <1>1, <3>1, <3>2 DEF Holds, Bought
  <2> QED
    BY <2>3, <2>4
<1> QED
  BY <1>7, <1>8

(* A step that changes neither the reserved set nor what any request holds *)
(* or has bought, and starts no lookup, keeps the gate's invariant.        *)
LEMMA NeutralKeepsGate ==
  ASSUME GateInv, OnlyDeliveryConsumes, reserved' = reserved, excused' = excused,
         \A s \in Requests, t \in Txs :
           /\ Engaged(s, t)' => Engaged(s, t)
           /\ Holds(s, t)' <=> Holds(s, t)
           /\ Bought(s, t)' <=> Bought(s, t),
         reserved \subseteq Txs
  PROVE  GateInv' /\ OnlyDeliveryConsumes'
<1>1. GateInv'
  BY DEF GateInv
<1>2. OnlyDeliveryConsumes'
  <2> SUFFICES ASSUME NEW t \in reserved'
               PROVE  \E s \in Requests : (Holds(s, t) \/ Bought(s, t))'
    BY DEF OnlyDeliveryConsumes
  <2> QED
    BY DEF OnlyDeliveryConsumes
<1> QED
  BY <1>1, <1>2

(* The gate and its callers, for every number of concurrent requests: a    *)
(* transfer whose lookups never overlapped buys at most one call while the *)
(* process lives, and only a delivered call consumes it.                   *)
THEOREM GateSafety == Spec => [](OneCallUnlessOverlapped /\ OnlyDeliveryConsumes)
<1> DEFINE Inv == GateInv /\ OnlyDeliveryConsumes
<1>1. Init => Inv
  BY DEF Init, GateInv, OnlyDeliveryConsumes, Engaged, Holds, Bought, RequestState
<1>2. TypeOK /\ Placed /\ Inv /\ [Next]_vars => Inv'
  <2> SUFFICES ASSUME TypeOK, Placed, GateInv, OnlyDeliveryConsumes, [Next]_vars
               PROVE  GateInv' /\ OnlyDeliveryConsumes'
    OBVIOUS
  <2>0. /\ reserved \subseteq Txs
        /\ \A r \in Requests : req[r] \in RequestState
        /\ req \in [Requests -> RequestState]
    BY DEF TypeOK
  <2>1. ASSUME NEW t \in Txs, Broadcast(t) \/ Include(t)
        PROVE  GateInv' /\ OnlyDeliveryConsumes'
    BY <2>0, <2>1, NeutralKeepsGate DEF Broadcast, Include, Engaged, Holds, Bought
  <2>2. ASSUME NEW r \in Requests, Arrive(r)
        PROVE  GateInv' /\ OnlyDeliveryConsumes'
    <3>0. req[r].pc = "idle" /\ req[r].rail = "none" /\ req[r].code # 200
      BY <2>2 DEF Arrive, UnknownAgent, OperatorCall, UnpaidCall, MalformedPayment,
           UsedPayment, PresentPayment, PresentX402, Placed
    <3>1. CASE \E t \in Txs : PresentPayment(r, t)
      <4>1. PICK t \in Txs : PresentPayment(r, t)
        BY <3>1
      <4>2. /\ \A s \in Requests \ {r} : req'[s] = req[s]
            /\ req'[r].pc = "reading" /\ req'[r].tx = t
            /\ req'[r].rail = "none" /\ req'[r].code # 200
        BY <2>0, <3>0, <4>1 DEF PresentPayment, RequestState
      <4>3. \A s \in Requests, u \in Txs :
              (Holds(s, u)' <=> Holds(s, u)) /\ (Bought(s, u)' <=> Bought(s, u))
        BY <3>0, <4>2 DEF Holds, Bought
      <4>4. \A s \in Requests, u \in Txs :
              Engaged(s, u)' => Engaged(s, u) \/ (s = r /\ u = t)
        BY <4>2, <4>3 DEF Engaged
      <4>5. t \notin excused' => \A s \in Requests : ~Engaged(s, t)
        BY <4>1 DEF PresentPayment, Engaged, GateInv
      <4>6. excused \subseteq excused' /\ reserved' = reserved
        BY <4>1 DEF PresentPayment
      <4>7. GateInv'
        BY <4>3, <4>4, <4>5, <4>6 DEF GateInv
      <4>8. OnlyDeliveryConsumes'
        BY <2>0, <4>3, <4>6 DEF OnlyDeliveryConsumes
      <4> QED
        BY <4>7, <4>8
    <3>2. CASE ~\E t \in Txs : PresentPayment(r, t)
      <4>1. /\ \A s \in Requests \ {r} : req'[s] = req[s]
            /\ req'[r].pc # "reading" /\ req'[r].rail # "dem"
            /\ reserved' = reserved /\ excused' = excused
        BY <2>0, <2>2, <3>0, <3>2 DEF Arrive, UnknownAgent, OperatorCall, UnpaidCall,
             MalformedPayment, UsedPayment, PresentX402, RequestState
      <4> QED
        BY <2>0, <3>0, <4>1, NeutralKeepsGate DEF Engaged, Holds, Bought
    <3> QED
      BY <3>1, <3>2
  <2>3. ASSUME NEW r \in Requests, Resume(r)
        PROVE  GateInv' /\ OnlyDeliveryConsumes'
    <3>1. CASE LookupReturns(r)
      <4>0. req[r].pc = "reading" /\ req[r].tx \in Txs /\ req[r].rail = "none"
            /\ req[r].code # 200
        BY <3>1 DEF LookupReturns, Placed
      <4>1. CASE reserved' = reserved \cup {req[r].tx}
                 /\ req' = [req EXCEPT ![r].pc = "body", ![r].rail = "dem"]
        <5>1. /\ \A s \in Requests \ {r} : req'[s] = req[s]
              /\ req'[r].pc = "body" /\ req'[r].rail = "dem"
              /\ req'[r].tx = req[r].tx /\ req'[r].code # 200
              /\ excused' = excused
          BY <2>0, <3>1, <4>0, <4>1 DEF LookupReturns, RequestState
        <5>2. \A s \in Requests, t \in Txs : Engaged(s, t)' => Engaged(s, t)
          BY <4>0, <5>1 DEF Engaged, Holds, Bought
        <5>3. \A s \in Requests \ {r}, t \in Txs :
                (Holds(s, t)' <=> Holds(s, t)) /\ (Bought(s, t)' <=> Bought(s, t))
          BY <5>1 DEF Holds, Bought
        <5>4. Holds(r, req[r].tx)' /\ \A t \in Txs : Holds(r, t)' \/ Bought(r, t)' => t = req[r].tx
          BY <5>1 DEF Holds, Bought
        <5>5. GateInv'
          BY <4>1, <5>1, <5>2, <5>3, <5>4 DEF GateInv
        <5>6. \A t \in Txs : ~Holds(r, t) /\ ~Bought(r, t)
          BY <4>0 DEF Holds, Bought
        <5>7. OnlyDeliveryConsumes'
          BY <2>0, <4>0, <4>1, <5>3, <5>4, <5>6 DEF OnlyDeliveryConsumes
        <5> QED
          BY <5>5, <5>7
      <4>2. CASE reserved' = reserved
                 /\ req' = [req EXCEPT ![r].pc = "done", ![r].code = 402]
        <5>1. /\ \A s \in Requests \ {r} : req'[s] = req[s]
              /\ req'[r].pc = "done" /\ req'[r].rail = "none"
              /\ excused' = excused
          BY <2>0, <3>1, <4>0, <4>2 DEF LookupReturns, RequestState
        <5> QED
          BY <2>0, <4>0, <4>2, <5>1, NeutralKeepsGate DEF Engaged, Holds, Bought
      <4> QED
        BY <3>1, <4>1, <4>2 DEF LookupReturns
    <3>2. CASE \/ X402Challenge(r) \/ X402Accepted(r) \/ BodyAccepted(r)
               \/ \E pc \in {"attest", "settle"} :
                    Proceed(r, pc) /\ (pc = "settle" => req[r].rail = "x402")
                                   /\ req[r].pc \in {"invoke", "attest"}
      <4>1. /\ \A s \in Requests \ {r} : req'[s] = req[s]
            /\ req[r].code # 200 /\ req'[r].code # 200 /\ req'[r].tx = req[r].tx
            /\ req'[r].pc # "reading"
            /\ (req'[r].pc \in {"body", "invoke", "attest"} /\ req'[r].rail = "dem")
                <=> (req[r].pc \in {"body", "invoke", "attest"} /\ req[r].rail = "dem")
            /\ reserved' = reserved /\ excused' = excused
        BY <2>0, <3>2 DEF X402Challenge, X402Accepted, BodyAccepted, Proceed, Placed, RequestState
      <4> QED
        BY <2>0, <4>1, NeutralKeepsGate DEF Engaged, Holds, Bought
    <3>3. CASE \E code \in Codes : Answer(r, code) /\ req[r].pc \in Waiting \ {"reading"}
      BY <3>3, AnswerKeepsGate
    <3> QED
      BY <2>3, <3>1, <3>2, <3>3 DEF Resume, BodyRefused, AgentFails, AgentReturns,
           AnchorFails, Anchored, X402Settled, X402NotSettled, Fail, Deliver, Codes, Waiting
  <2>4. CASE Restart
    BY <2>4 DEF Restart, GateInv, OnlyDeliveryConsumes
  <2>5. CASE UNCHANGED vars
    BY <2>0, <2>5, NeutralKeepsGate DEF vars, Engaged, Holds, Bought
  <2> QED
    BY <2>1, <2>2, <2>3, <2>4, <2>5 DEF Next
<1>3. Inv => OneCallUnlessOverlapped /\ OnlyDeliveryConsumes
  BY DEF GateInv, OneCallUnlessOverlapped, Engaged
<1> QED
  BY <1>1, <1>2, <1>3, Typing, PTL DEF Spec

(* A payment hash stays reserved only while a request works on it or       *)
(* because a call was delivered for it (settlement.ts, server.ts).         *)
THEOREM DeliveryConsumes == Spec => []OnlyDeliveryConsumes
<1>1. OneCallUnlessOverlapped /\ OnlyDeliveryConsumes => OnlyDeliveryConsumes
  OBVIOUS
<1> QED
  BY <1>1, GateSafety, PTL

-----------------------------------------------------------------------------
(* What a request owes and has, at every point of handlePost.              *)
Working == {"body", "invoke", "attest", "settle"}

Paid(r) ==
  /\ req[r].rail = "dem" =>
       /\ chain[req[r].tx] = "confirmed"
       /\ Transfer[req[r].tx].toGateway
       /\ Transfer[req[r].tx].amount >= Price[req[r].agent]
  /\ req[r].rail # "x402" => x402[r] = "none"
  /\ req[r].pc = "x402verify" => req[r].rail = "none"
  /\ req[r].pc \in Working => req[r].rail # "none" /\ (req[r].rail = "x402" => x402[r] = "verified")
  /\ req[r].pc \in {"attest", "settle"} => req[r].result
  /\ req[r].pc # "done" => req[r].code = 0 /\ x402[r] # "charged"
  /\ x402[r] = "verified" => req[r].pc \in Working \/ req[r].code = 0
  /\ x402[r] = "charged" => req[r].result
  /\ req[r].code = 200 => req[r].rail # "none" /\ (req[r].rail = "x402" => x402[r] = "charged")

AllPaid == \A r \in Requests : Paid(r)

(* A step that touches one request, and under which no transfer is undone, *)
(* leaves the others as they were.                                         *)
LEMMA OthersPaid ==
  ASSUME AllPaid, NEW r \in Requests,
         \A s \in Requests \ {r} : req'[s] = req[s] /\ x402'[s] = x402[s],
         chain' = chain, Paid(r)'
  PROVE  AllPaid'
BY DEF AllPaid, Paid

(* The end of a request that is working or being refused.                  *)
LEMMA AnswerPaid ==
  ASSUME TypeOK, Placed, AllPaid, NEW r \in Requests, NEW code \in Codes, Answer(r, code),
         req[r].pc \in Waiting,
         x402' \in [Requests -> {"none", "verified", "cancelled", "charged"}],
         \A s \in Requests \ {r} : x402'[s] = x402[s],
         \/ code # 200 /\ x402' = Cancelled(r)
         \/ code # 200 /\ x402[r] = "none" /\ x402' = x402
         \/ req[r].pc \in Working /\ req[r].rail # "x402" /\ x402' = x402
         \/ req[r].pc = "settle" /\ x402'[r] = "charged"
  PROVE  AllPaid'
<1>1. /\ req \in [Requests -> RequestState] /\ req[r] \in RequestState /\ x402 \in [Requests -> {"none", "verified", "cancelled", "charged"}]
  BY DEF TypeOK
<1>2. /\ \A s \in Requests \ {r} : req'[s] = req[s]
      /\ req'[r] = [req[r] EXCEPT !.pc = "done", !.code = code] /\ chain' = chain
  BY <1>1 DEF Answer
<1>3. /\ req'[r].pc = "done" /\ req'[r].code = code /\ req'[r].rail = req[r].rail /\ req'[r].tx = req[r].tx
      /\ req'[r].agent = req[r].agent /\ req'[r].result = req[r].result
  BY <1>1, <1>2 DEF RequestState
<1>4. Paid(r) /\ (req[r].pc = "settle" => req[r].rail = "x402")
  BY DEF AllPaid, Placed
<1>5. CASE code # 200 /\ x402' = Cancelled(r)
  <2>1. x402'[r] # "verified" /\ (x402'[r] = "charged" => x402[r] = "charged") /\ (x402[r] = "none" => x402'[r] = "none")
    BY <1>1, <1>5 DEF Cancelled
  <2>2. Paid(r)'
    BY <1>2, <1>3, <1>4, <1>5, <2>1 DEF Paid, Working
  <2> QED
    BY <1>2, <2>2, OthersPaid
<1>6. CASE code # 200 /\ x402[r] = "none" /\ x402' = x402
  <2>1. Paid(r)'
    BY <1>2, <1>3, <1>4, <1>6 DEF Paid, Working
  <2> QED
    BY <1>2, <2>1, OthersPaid
<1>7. CASE req[r].pc \in Working /\ req[r].rail # "x402" /\ x402' = x402
  <2>1. Paid(r)'
    BY <1>2, <1>3, <1>4, <1>7 DEF Paid, Working
  <2> QED
    BY <1>2, <2>1, OthersPaid
<1>8. CASE req[r].pc = "settle" /\ x402'[r] = "charged"
  <2>1. Paid(r)'
    BY <1>2, <1>3, <1>4, <1>8 DEF Paid, Working
  <2> QED
    BY <1>2, <2>1, OthersPaid
<1> QED
  BY <1>5, <1>6, <1>7, <1>8

(* A 200 goes to an operator, to a confirmed native transfer of at least   *)
(* the price to the gateway or to a charged x402 payment; an x402 buyer is *)
(* charged only once the result exists, and no verified payment is left    *)
(* behind an answered request (server.ts, x402.ts).                        *)
THEOREM WorkIsPaid == Spec => []PaidForWork
<1>1. Init => AllPaid
  BY DEF Init, AllPaid, Paid, Working
<1>2. TypeOK /\ Placed /\ AllPaid /\ [Next]_vars => AllPaid'
  <2> SUFFICES ASSUME TypeOK, Placed, AllPaid, [Next]_vars PROVE AllPaid'
    OBVIOUS
  <2> DEFINE Payments == {"none", "verified", "cancelled", "charged"}
  <2>0. /\ req \in [Requests -> RequestState] /\ x402 \in [Requests -> Payments]
        /\ \A r \in Requests : req[r] \in RequestState
        /\ chain \in [Txs -> {"absent", "pending", "confirmed"}]
    BY DEF TypeOK
  <2>1. ASSUME NEW t \in Txs, Broadcast(t) \/ Include(t)
        PROVE  AllPaid'
    <3>1. req' = req /\ x402' = x402 /\ \A u \in Txs : chain[u] = "confirmed" => chain'[u] = "confirmed"
      BY <2>0, <2>1 DEF Broadcast, Include
    <3>2. \A r \in Requests : req[r].rail = "dem" => req[r].tx \in Txs
      BY DEF Placed
    <3> QED
      BY <3>1, <3>2 DEF AllPaid, Paid
  <2>2. ASSUME NEW r \in Requests, Arrive(r)
        PROVE  AllPaid'
    <3>0. req[r].pc = "idle" /\ req[r].rail = "none" /\ req[r].code = 0 /\ Paid(r) /\ x402[r] = "none"
      BY <2>2 DEF Arrive, UnknownAgent, OperatorCall, UnpaidCall, MalformedPayment,
           UsedPayment, PresentPayment, PresentX402, Placed, AllPaid, Paid
    <3>1. /\ \A s \in Requests \ {r} : req'[s] = req[s]
          /\ x402' = x402 /\ chain' = chain
          /\ \/ req'[r].pc \in {"reading", "x402verify"} /\ req'[r].rail = "none" /\ req'[r].code = 0
             \/ req'[r].pc = "body" /\ req'[r].rail = "bearer" /\ req'[r].code = 0
             \/ req'[r].pc = "done" /\ req'[r].rail = "none" /\ req'[r].code # 200
      BY <2>0, <2>2, <3>0 DEF Arrive, UnknownAgent, OperatorCall, UnpaidCall, MalformedPayment,
           UsedPayment, PresentPayment, PresentX402, RequestState
    <3>2. Paid(r)'
      BY <3>0, <3>1 DEF Paid, Working
    <3> QED
      BY <3>1, <3>2, OthersPaid
  <2>3. ASSUME NEW r \in Requests, LookupReturns(r)
        PROVE  AllPaid'
    <3>0. req[r].pc = "reading" /\ req[r].rail = "none" /\ req[r].code = 0 /\ Paid(r) /\ x402[r] = "none"
      BY <2>3 DEF LookupReturns, Placed, AllPaid, Paid
    <3>1. /\ \A s \in Requests \ {r} : req'[s] = req[s]
          /\ x402' = x402 /\ chain' = chain
      BY <2>0, <2>3 DEF LookupReturns
    <3>2. PICK view \in Views(req[r].tx) :
            IF Accepts(req[r].tx, Price[req[r].agent], view)
            THEN req' = [req EXCEPT ![r].pc = "body", ![r].rail = "dem"]
            ELSE req' = [req EXCEPT ![r].pc = "done", ![r].code = 402]
      BY <2>3 DEF LookupReturns
    <3>3. CASE Accepts(req[r].tx, Price[req[r].agent], view)
      <4>1. /\ chain[req[r].tx] = "confirmed" /\ Transfer[req[r].tx].toGateway
            /\ Transfer[req[r].tx].amount >= Price[req[r].agent]
        BY <3>2, <3>3 DEF Accepts, Views
      <4>2. /\ req'[r].pc = "body" /\ req'[r].rail = "dem" /\ req'[r].tx = req[r].tx
            /\ req'[r].agent = req[r].agent /\ req'[r].code = 0
        BY <2>0, <3>0, <3>2, <3>3 DEF RequestState
      <4>3. Paid(r)'
        BY <3>0, <3>1, <4>1, <4>2 DEF Paid, Working
      <4> QED
        BY <3>1, <4>3, OthersPaid
    <3>4. CASE ~ Accepts(req[r].tx, Price[req[r].agent], view)
      <4>1. req'[r].pc = "done" /\ req'[r].rail = "none" /\ req'[r].code = 402
        BY <2>0, <3>0, <3>2, <3>4 DEF RequestState
      <4>2. Paid(r)'
        BY <3>0, <3>1, <4>1 DEF Paid, Working
      <4> QED
        BY <3>1, <4>2, OthersPaid
    <3> QED
      BY <3>3, <3>4
  <2>4. ASSUME NEW r \in Requests, X402Challenge(r) \/ X402Accepted(r)
        PROVE  AllPaid'
    <3>0. req[r].pc = "x402verify" /\ req[r].code = 0 /\ Paid(r) /\ req[r].rail = "none"
      BY <2>4 DEF X402Challenge, X402Accepted, AllPaid, Paid, Placed
    <3>1. /\ \A s \in Requests \ {r} : req'[s] = req[s] /\ x402'[s] = x402[s]
          /\ chain' = chain
          /\ \/ req'[r].pc = "done" /\ req'[r].code # 200 /\ req'[r].rail = "none" /\ x402'[r] = x402[r]
             \/ req'[r].pc = "body" /\ req'[r].code = 0 /\ req'[r].rail = "x402" /\ x402'[r] = "verified"
      BY <2>0, <2>4, <3>0 DEF X402Challenge, X402Accepted, RequestState
    <3>2. Paid(r)'
      BY <3>0, <3>1 DEF Paid, Working
    <3> QED
      BY <3>1, <3>2, OthersPaid
  <2>5. ASSUME NEW r \in Requests, BodyAccepted(r) \/ \E pc \in {"attest", "settle"} : Proceed(r, pc) /\ req[r].pc \in Working
        PROVE  AllPaid'
    <3>0. Paid(r) /\ req[r].pc \in Working
      BY <2>5 DEF AllPaid, BodyAccepted, Working
    <3>1. /\ \A s \in Requests \ {r} : req'[s] = req[s]
          /\ x402' = x402 /\ chain' = chain
          /\ req'[r].rail = req[r].rail /\ req'[r].tx = req[r].tx /\ req'[r].agent = req[r].agent
          /\ req'[r].code = req[r].code
          /\ req'[r].pc \in Working /\ (req'[r].pc \in {"attest", "settle"} \/ req[r].result => req'[r].result)
      BY <2>0, <2>5 DEF BodyAccepted, Proceed, RequestState, Working
    <3>2. Paid(r)'
      BY <3>0, <3>1 DEF Paid, Working
    <3> QED
      BY <3>1, <3>2, OthersPaid
  <2>6. ASSUME NEW r \in Requests, NEW code \in Codes \ {200}, Fail(r, code), req[r].pc \in Waiting
        PROVE  AllPaid'
    <3>1. x402' \in [Requests -> Payments] /\ \A s \in Requests \ {r} : x402'[s] = x402[s]
      BY <2>0, <2>6 DEF Fail, Cancelled
    <3> QED
      BY <2>6, <3>1, AnswerPaid DEF Fail
  <2>7. ASSUME NEW r \in Requests, Deliver(r), req[r].pc = "attest", req[r].rail # "x402"
        PROVE  AllPaid'
    <3>1. 200 \in Codes /\ req[r].pc \in Waiting /\ req[r].pc \in Working
      BY <2>7 DEF Codes, Waiting, Working
    <3> QED
      BY <2>0, <2>7, <3>1, AnswerPaid DEF Deliver
  <2>8. ASSUME NEW r \in Requests, NEW code \in Codes, Answer(r, code), req[r].pc = "settle",
               x402' = [x402 EXCEPT ![r] = "charged"]
        PROVE  AllPaid'
    <3>1. /\ x402' \in [Requests -> Payments] /\ x402'[r] = "charged"
          /\ \A s \in Requests \ {r} : x402'[s] = x402[s]
          /\ req[r].pc \in Waiting
      BY <2>0, <2>8 DEF Waiting
    <3> QED
      BY <2>8, <3>1, AnswerPaid
  <2>9. CASE Restart
    <3>1. x402' = x402 /\ chain' = chain
      BY <2>9 DEF Restart
    <3>2. ASSUME NEW r \in Requests
          PROVE  Paid(r)'
      <4>1. /\ req'[r].rail = req[r].rail /\ req'[r].tx = req[r].tx /\ req'[r].agent = req[r].agent
            /\ req'[r].code = req[r].code /\ req'[r].result = req[r].result
            /\ \/ req'[r].pc = req[r].pc /\ req[r].pc \notin Waiting
               \/ req'[r].pc = "done" /\ req[r].pc \in Waiting
        BY <2>0, <2>9 DEF Restart, RequestState
      <4>2. Paid(r)
        BY DEF AllPaid
      <4> QED
        BY <3>1, <4>1, <4>2 DEF Paid, Waiting, Working
    <3> QED
      BY <3>2 DEF AllPaid
  <2>10. CASE UNCHANGED vars
    BY <2>10 DEF vars, AllPaid, Paid
  <2>11. ASSUME NEW r \in Requests, Resume(r)
         PROVE  AllPaid'
    <3>1. CASE LookupReturns(r)
      BY <2>3, <3>1
    <3>2. CASE X402Challenge(r) \/ X402Accepted(r)
      BY <2>4, <3>2
    <3>3. CASE BodyAccepted(r) \/ AgentReturns(r)
      BY <2>5, <3>3 DEF AgentReturns, Working
    <3>4. CASE BodyRefused(r) \/ AgentFails(r) \/ AnchorFails(r)
      BY <2>6, <3>4 DEF BodyRefused, AgentFails, AnchorFails, Codes, Waiting
    <3>5. CASE Anchored(r)
      BY <2>5, <2>7, <3>5 DEF Anchored, Working
    <3>6. CASE X402Settled(r)
      <4>1. 200 \in Codes
        BY DEF Codes
      <4>2. req[r].pc = "settle" /\ Answer(r, 200) /\ x402' = [x402 EXCEPT ![r] = "charged"]
        BY <3>6 DEF X402Settled
      <4> QED
        BY <2>8, <4>1, <4>2
    <3>7. CASE X402NotSettled(r)
      BY <2>6, <2>8, <3>7 DEF X402NotSettled, Codes, Waiting
    <3> QED
      BY <2>11, <3>1, <3>2, <3>3, <3>4, <3>5, <3>6, <3>7 DEF Resume
  <2> QED
    BY <2>1, <2>2, <2>9, <2>10, <2>11 DEF Next
<1>3. TypeOK /\ Placed /\ AllPaid => PaidForWork
  BY DEF TypeOK, RequestState, Sources, Rails, AllPaid, Paid, Placed, Working, PaidForWork, DeliveredIsPaid, ChargedAfterWork
<1> QED
  BY <1>1, <1>2, <1>3, Typing, PTL DEF Spec

-----------------------------------------------------------------------------
(* The butler demo and its receipts, for any number of demos and writes.   *)
(* Each part of ReceiptsAreHonest is an invariant of its own: what the     *)
(* wallet queue knows of its transactions, what left the store, and what   *)
(* the limiter counts.                                                     *)
DemoTypes ==
  /\ limiter \in [count : Nat, active : Int, windows : Nat]
  /\ demo \in [Demos -> {"new", "running", "done", "refused"}]
  /\ wrote \subseteq Others

ReceiptState ==
  [status : {"none", "queued", "anchoring", "broadcast", "confirmed", "failed"}, attempts : Nat]

StoreTypes ==
  /\ receipts \subseteq Demos /\ overdue \subseteq Demos /\ expired \subseteq Demos
  /\ receipt \in [Demos -> ReceiptState]
  /\ created \in Seq(Demos)

WalletTypes ==
  /\ queue \in Seq(Jobs)
  /\ running \in [at : {"idle", "started", "broadcast"}, before : Nat]
  /\ running.at # "idle" => queue # <<>>
  /\ nonce \in Nat /\ losses \in Nat /\ early \in BOOLEAN
  /\ tx \in [Jobs -> {"none", "pending", "included", "lost"}]
  /\ anchored \subseteq Jobs

ReceiptTypes == DemoTypes /\ StoreTypes /\ WalletTypes

(* A job is under way only with the head of the queue.  Until a wait ends  *)
(* early, a pending transaction is the head's, and the nonce moves between *)
(* its reading and the end of the wait only by the head's inclusion.       *)
WalletInv ==
  ~early =>
    /\ \A d \in Demos : receipt[d].status = "confirmed" => d \in anchored
    /\ \A j \in Jobs : tx[j] = "pending" => running.at = "broadcast" /\ Head(queue) = j
    /\ running.at = "started" => nonce = running.before
    /\ running.at = "broadcast" =>
         \/ nonce = running.before
         \/ Head(queue) \in anchored /\ tx[Head(queue)] # "pending"

(* A receipt is created once, by the request that ends with it.            *)
StoreInv ==
  /\ \A i \in DOMAIN created : demo[created[i]] = "done"
  /\ \A i, j \in DOMAIN created : created[i] = created[j] => i = j
  /\ KeptWhileRecent

Served == {d \in Demos : demo[d] = "running"}
SlotInv == IsFiniteSet(Served) /\ limiter.active = Cardinality(Served)

LEMMA CountTypes ==
  ASSUME DemoTypes
  PROVE  /\ [limiter EXCEPT !.active = @ - 1] \in [count : Nat, active : Int, windows : Nat]
         /\ [limiter EXCEPT !.count = @ + 1, !.active = @ + 1] \in [count : Nat, active : Int, windows : Nat]
         /\ [limiter EXCEPT !.count = 0, !.windows = @ + 1] \in [count : Nat, active : Int, windows : Nat]
<1>1. /\ limiter \in [count : Nat, active : Int, windows : Nat]
      /\ limiter.count + 1 \in Nat /\ limiter.active + 1 \in Int /\ limiter.active - 1 \in Int
      /\ limiter.windows + 1 \in Nat /\ 0 \in Nat
  BY DEF DemoTypes
<1> DEFINE a == limiter.active + 1  b == limiter.count + 1  c == limiter.windows + 1  e == limiter.active - 1
<1>2. a \in Int /\ b \in Nat /\ c \in Nat /\ e \in Int
  BY <1>1
<1>3. /\ [limiter EXCEPT !.active = @ - 1] = [limiter EXCEPT !.active = e]
      /\ [limiter EXCEPT !.count = @ + 1, !.active = @ + 1] = [[limiter EXCEPT !.count = b] EXCEPT !.active = a]
      /\ [limiter EXCEPT !.count = 0, !.windows = @ + 1] = [[limiter EXCEPT !.count = 0] EXCEPT !.windows = c]
  BY <1>1
<1> HIDE DEF a, b, c, e
<1> QED
  BY <1>1, <1>2, <1>3

LEMMA MarkedTypes ==
  ASSUME StoreTypes, NEW d \in Demos, NEW status \in {"anchoring", "broadcast", "confirmed", "failed"},
         Marked(d, status)
  PROVE  /\ receipt' \in [Demos -> ReceiptState]
         /\ \A e \in Demos : receipt'[e].status = IF e = d THEN status ELSE receipt[e].status
<1>1. receipt[d] \in ReceiptState /\ [receipt[d] EXCEPT !.status = status] \in ReceiptState
  BY DEF StoreTypes, ReceiptState
<1>2. receipt' = [receipt EXCEPT ![d] = [receipt[d] EXCEPT !.status = status]]
  BY DEF Marked
<1>3. [receipt[d] EXCEPT !.status = status].status = status
  BY <1>1 DEF ReceiptState
<1> QED
  BY <1>1, <1>2, <1>3 DEF StoreTypes

LEMMA ToldTypes ==
  ASSUME StoreTypes, NEW j \in Jobs,
         NEW status \in {"anchoring", "broadcast", "confirmed", "failed"}, Told(j, status)
  PROVE  /\ StoreTypes'
         /\ created' = created
         /\ \A d \in Demos : receipt'[d].status = IF d = j THEN status ELSE receipt[d].status
<1>1. CASE j \in Demos
  <2>1. Marked(j, status) /\ overdue' = overdue \ {j} /\ UNCHANGED <<receipts, created, expired>>
    BY <1>1 DEF Told
  <2> QED
    BY <1>1, <2>1, MarkedTypes DEF StoreTypes
<1>2. CASE j \notin Demos
  BY <1>2 DEF StoreTypes, Told, storeVars
<1> QED
  BY <1>1, <1>2

LEMMA HeadIsAJob ==
  ASSUME WalletTypes, queue # <<>>
  PROVE  /\ Head(queue) \in Jobs /\ Tail(queue) \in Seq(Jobs)
         /\ \A j \in Jobs : Head(Append(queue, j)) = Head(queue)
  BY DEF WalletTypes

LEMMA ScheduleTypes ==
  ASSUME WalletTypes, NEW j \in Jobs, Schedule(j), UNCHANGED <<running, nonce, anchored, tx, losses, early>>
  PROVE  WalletTypes'
<1>1. queue' \in Seq(Jobs) /\ queue' # <<>>
  BY DEF WalletTypes, Schedule
<1> QED
  BY <1>1 DEF WalletTypes

LEMMA QueueTypes == ReceiptTypes /\ QueueStep => ReceiptTypes'
<1> SUFFICES ASSUME ReceiptTypes, QueueStep PROVE ReceiptTypes'
  OBVIOUS
<1>1. queue # <<>> /\ Head(queue) \in Jobs /\ Tail(queue) \in Seq(Jobs)
  BY HeadIsAJob DEF ReceiptTypes, WalletTypes, QueueStep, StartJob, BroadcastJob, BroadcastRefused, WaitReturns, WaitFails
<1>2. DemoTypes'
  BY DEF ReceiptTypes, DemoTypes, QueueStep, StartJob, BroadcastJob, BroadcastRefused, WaitReturns, WaitFails, demoVars
<1>3. StoreTypes'
  BY <1>1, ToldTypes DEF ReceiptTypes, QueueStep, StartJob, BroadcastJob, BroadcastRefused, WaitReturns, WaitFails
<1>4. CASE StartJob
  <2>1. WalletTypes'
    BY <1>1, <1>4 DEF StartJob, ReceiptTypes, WalletTypes
  <2> QED
    BY <1>2, <1>3, <2>1 DEF ReceiptTypes
<1>5. CASE BroadcastJob
  <2>1. WalletTypes'
    BY <1>1, <1>5 DEF BroadcastJob, ReceiptTypes, WalletTypes
  <2> QED
    BY <1>2, <1>3, <2>1 DEF ReceiptTypes
<1>6. CASE BroadcastRefused \/ WaitReturns \/ WaitFails
  <2>1. JobOver /\ losses' \in Nat /\ early' \in BOOLEAN /\ UNCHANGED <<nonce, anchored, tx>>
    <3>1. CASE WaitFails
      BY <3>1 DEF WaitFails, ReceiptTypes, WalletTypes
    <3> QED
      BY <1>6, <3>1 DEF BroadcastRefused, WaitReturns, ReceiptTypes, WalletTypes
  <2>2. WalletTypes'
    BY <1>1, <2>1 DEF JobOver, Idle, ReceiptTypes, WalletTypes
  <2> QED
    BY <1>2, <1>3, <2>2 DEF ReceiptTypes
<1> QED
  BY <1>4, <1>5, <1>6 DEF QueueStep

LEMMA LeaveTypes ==
  ASSUME DemoTypes, NEW d \in Demos, Leave(d)
  PROVE  DemoTypes'
<1>1. [limiter EXCEPT !.active = @ - 1] \in [count : Nat, active : Int, windows : Nat]
  BY CountTypes
<1> QED
  BY <1>1 DEF DemoTypes, Leave

LEMMA ReceiptTyping == ReceiptsSpec => []ReceiptTypes
<1>1. ReceiptsInit => ReceiptTypes
  <2> SUFFICES ASSUME ReceiptsInit PROVE ReceiptTypes
    OBVIOUS
  <2>1. DemoTypes /\ StoreTypes
    BY DEF ReceiptsInit, DemoTypes, StoreTypes, ReceiptState
  <2>2. running \in [at : {"idle", "started", "broadcast"}, before : Nat] /\ running.at = "idle"
    BY DEF ReceiptsInit, Idle
  <2>3. WalletTypes
    <3>1. queue \in Seq(Jobs) /\ tx \in [Jobs -> {"none", "pending", "included", "lost"}]
      BY DEF ReceiptsInit
    <3>2. nonce \in Nat /\ losses \in Nat /\ early \in BOOLEAN /\ anchored \subseteq Jobs
      BY DEF ReceiptsInit
    <3> QED
      BY <2>2, <3>1, <3>2 DEF WalletTypes
  <2> QED
    BY <2>1, <2>3 DEF ReceiptTypes
<1>2. ReceiptTypes /\ [ReceiptsNext]_receiptVars => ReceiptTypes'
  <2> SUFFICES ASSUME DemoTypes, StoreTypes, WalletTypes, [ReceiptsNext]_receiptVars
               PROVE  DemoTypes' /\ StoreTypes' /\ WalletTypes'
    BY DEF ReceiptTypes
  <2>a. UNCHANGED demoVars => DemoTypes'
    BY DEF demoVars, DemoTypes
  <2>b. UNCHANGED storeVars => StoreTypes'
    BY DEF storeVars, StoreTypes
  <2>c. UNCHANGED walletVars => WalletTypes'
    BY DEF walletVars, WalletTypes
  <2>1. CASE UNCHANGED receiptVars
    BY <2>1, <2>a, <2>b, <2>c DEF receiptVars
  <2>2. ASSUME NEW d \in Demos, Enter(d) PROVE DemoTypes' /\ StoreTypes' /\ WalletTypes'
    <3>1. limiter' \in [count : Nat, active : Int, windows : Nat]
      <4>1. [limiter EXCEPT !.count = @ + 1, !.active = @ + 1] \in [count : Nat, active : Int, windows : Nat]
        BY CountTypes
      <4> QED
        BY <2>2, <4>1 DEF Enter, DemoTypes
    <3>2. demo' \in [Demos -> {"new", "running", "done", "refused"}]
      BY <2>2 DEF Enter, DemoTypes
    <3> QED
      BY <2>2, <2>b, <2>c, <3>1, <3>2 DEF Enter, DemoTypes
  <2>3. ASSUME NEW d \in Demos, ButlerFails(d) PROVE DemoTypes' /\ StoreTypes' /\ WalletTypes'
    BY <2>3, <2>b, <2>c, LeaveTypes DEF ButlerFails
  <2>4. ASSUME NEW d \in Demos, ButlerAnswers(d) PROVE DemoTypes' /\ StoreTypes' /\ WalletTypes'
    <3>1. WalletTypes'
      BY <2>4, ScheduleTypes DEF ButlerAnswers, Jobs
    <3>2. receipts' \subseteq Demos /\ expired' \subseteq Demos
      BY <2>4 DEF ButlerAnswers, Pruned, Youngest, Expire, StoreTypes
    <3>3. created' \in Seq(Demos)
      BY <2>4 DEF ButlerAnswers, StoreTypes
    <3>4. receipt' \in [Demos -> ReceiptState]
      BY <2>4 DEF ButlerAnswers, StoreTypes, ReceiptState
    <3> QED
      BY <2>4, <3>1, <3>2, <3>3, <3>4, LeaveTypes DEF ButlerAnswers, StoreTypes
  <2>5. ASSUME NEW d \in Demos, RetryReceipt(d) PROVE DemoTypes' /\ StoreTypes' /\ WalletTypes'
    <3>1. WalletTypes'
      BY <2>5, ScheduleTypes DEF RetryReceipt, Jobs
    <3>2. receipt' \in [Demos -> ReceiptState]
      BY <2>5 DEF RetryReceipt, StoreTypes, ReceiptState
    <3> QED
      BY <2>5, <2>a, <3>1, <3>2 DEF RetryReceipt, StoreTypes
  <2>6. ASSUME NEW d \in Demos, GrowOld(d) PROVE DemoTypes' /\ StoreTypes' /\ WalletTypes'
    BY <2>6, <2>a, <2>c DEF GrowOld, StoreTypes
  <2>7. ASSUME NEW j \in Others, WriteBeside(j) PROVE DemoTypes' /\ StoreTypes' /\ WalletTypes'
    <3>1. WalletTypes'
      BY <2>7, ScheduleTypes DEF WriteBeside, Jobs
    <3> QED
      BY <2>7, <2>b, <3>1 DEF WriteBeside, DemoTypes
  <2>8. ASSUME NEW j \in Jobs, IncludeJob(j) \/ LoseJob(j) PROVE DemoTypes' /\ StoreTypes' /\ WalletTypes'
    BY <2>8, <2>a, <2>b DEF IncludeJob, LoseJob, WalletTypes
  <2>9. CASE NewWindow
    <3>1. limiter' \in [count : Nat, active : Int, windows : Nat]
      <4>1. [limiter EXCEPT !.count = 0, !.windows = @ + 1] \in [count : Nat, active : Int, windows : Nat]
        BY CountTypes
      <4> QED
        BY <2>9, <4>1 DEF NewWindow
    <3> QED
      BY <2>9, <2>b, <2>c, <3>1 DEF NewWindow, DemoTypes
  <2>10. CASE Poll
    <3>1. receipts' \subseteq Demos /\ expired' \subseteq Demos
      BY <2>10 DEF Poll, Pruned, Youngest, Expire, StoreTypes
    <3> QED
      BY <2>10, <2>a, <2>c, <3>1 DEF Poll, StoreTypes
  <2>11. CASE QueueStep
    BY <2>11, QueueTypes DEF ReceiptTypes
  <2> QED
    BY <2>1, <2>2, <2>3, <2>4, <2>5, <2>6, <2>7, <2>8, <2>9, <2>10, <2>11 DEF ReceiptsNext
<1> QED
  BY <1>1, <1>2, PTL DEF ReceiptsSpec

LEMMA WalletInvariant == ReceiptsSpec => []WalletInv
<1>1. ReceiptsInit => WalletInv
  BY DEF ReceiptsInit, WalletInv, Idle
<1>2. ReceiptTypes /\ WalletInv /\ [ReceiptsNext]_receiptVars => WalletInv'
  <2> SUFFICES ASSUME ReceiptTypes, WalletInv, [ReceiptsNext]_receiptVars PROVE WalletInv'
    OBVIOUS
  <2>1. CASE UNCHANGED receiptVars
    BY <2>1 DEF WalletInv, receiptVars, demoVars, storeVars, walletVars
  <2>2. ASSUME NEW d \in Demos, Enter(d) \/ ButlerFails(d) \/ GrowOld(d) PROVE WalletInv'
    BY <2>2 DEF Enter, ButlerFails, Leave, GrowOld, WalletInv, storeVars, walletVars
  <2>3. ASSUME NEW d \in Demos, ButlerAnswers(d) \/ RetryReceipt(d) PROVE WalletInv'
    <3>1. running' = running /\ nonce' = nonce /\ tx' = tx /\ anchored' = anchored /\ early' = early
          /\ queue' = Append(queue, d)
      BY <2>3 DEF ButlerAnswers, RetryReceipt, Schedule, demoVars
    <3>2. \A e \in Demos : receipt'[e].status = "confirmed" => receipt[e].status = "confirmed"
      BY <2>3 DEF ButlerAnswers, RetryReceipt, ReceiptTypes, StoreTypes
    <3>3. running.at # "idle" => Head(queue') = Head(queue)
      BY <3>1, HeadIsAJob DEF ReceiptTypes, WalletTypes, Jobs
    <3> QED
      BY <3>1, <3>2, <3>3 DEF WalletInv
  <2>4. ASSUME NEW j \in Others, WriteBeside(j) PROVE WalletInv'
    <3>1. running.at # "idle" => Head(queue') = Head(queue)
      BY <2>4, HeadIsAJob DEF ReceiptTypes, WalletTypes, Jobs, WriteBeside, Schedule
    <3> QED
      BY <2>4, <3>1 DEF WalletInv, WriteBeside, storeVars
  <2>5. ASSUME NEW j \in Jobs, IncludeJob(j) PROVE WalletInv'
    BY <2>5, HeadIsAJob DEF IncludeJob, WalletInv, ReceiptTypes, WalletTypes, storeVars
  <2>6. ASSUME NEW j \in Jobs, LoseJob(j) PROVE WalletInv'
    BY <2>6, HeadIsAJob DEF LoseJob, WalletInv, ReceiptTypes, WalletTypes, storeVars
  <2>7. CASE NewWindow \/ Poll
    BY <2>7 DEF NewWindow, Poll, WalletInv, demoVars, storeVars, walletVars
  <2>8. CASE QueueStep
    <3>1. queue # <<>> /\ Head(queue) \in Jobs
      BY <2>8, HeadIsAJob DEF ReceiptTypes, WalletTypes, QueueStep, StartJob, BroadcastJob, BroadcastRefused, WaitReturns, WaitFails
    <3> DEFINE h == Head(queue)
    <3>2. CASE StartJob
      <4>1. \A d \in Demos : receipt'[d].status = "confirmed" => receipt[d].status = "confirmed"
        <5>1. Told(h, "anchoring")
          BY <3>2 DEF StartJob
        <5> QED
          BY <3>1, <5>1, ToldTypes DEF ReceiptTypes
      <4> QED
        BY <3>2, <4>1 DEF StartJob, WalletInv, ReceiptTypes, WalletTypes
    <3>3. CASE BroadcastJob
      <4>1. \A d \in Demos : receipt'[d].status = "confirmed" => receipt[d].status = "confirmed"
        <5>1. Told(h, "broadcast")
          BY <3>3 DEF BroadcastJob
        <5> QED
          BY <3>1, <5>1, ToldTypes DEF ReceiptTypes
      <4> QED
        BY <3>1, <3>3, <4>1 DEF BroadcastJob, NoncePending, WalletInv, ReceiptTypes, WalletTypes
    <3>4. CASE BroadcastRefused
      <4>1. \A d \in Demos : receipt'[d].status = "confirmed" => receipt[d].status = "confirmed"
        <5>1. Told(h, "failed")
          BY <3>4 DEF BroadcastRefused
        <5> QED
          BY <3>1, <5>1, ToldTypes DEF ReceiptTypes
      <4> QED
        BY <3>4, <4>1 DEF BroadcastRefused, NoncePending, JobOver, Idle, WalletInv, ReceiptTypes, WalletTypes
    <3>5. CASE WaitReturns
      <4>1. \A d \in Demos : receipt'[d].status = "confirmed" => receipt[d].status = "confirmed" \/ d = h
        <5>1. Told(h, "confirmed")
          BY <3>5 DEF WaitReturns
        <5> QED
          BY <3>1, <5>1, ToldTypes DEF ReceiptTypes
      <4>2. ~early => h \in anchored /\ tx[h] # "pending"
        BY <3>5 DEF WaitReturns, Advanced, WalletInv, ReceiptTypes, WalletTypes
      <4> QED
        BY <3>5, <4>1, <4>2 DEF WaitReturns, JobOver, Idle, WalletInv
    <3>6. CASE WaitFails
      <4>1. \A d \in Demos : receipt'[d].status = "confirmed" => receipt[d].status = "confirmed"
        <5>1. Told(h, "failed")
          BY <3>6 DEF WaitFails
        <5> QED
          BY <3>1, <5>1, ToldTypes DEF ReceiptTypes
      <4> QED
        BY <3>6, <4>1 DEF WaitFails, JobOver, Idle, WalletInv
    <3> QED
      BY <2>8, <3>2, <3>3, <3>4, <3>5, <3>6 DEF QueueStep
  <2> QED
    BY <2>1, <2>2, <2>3, <2>4, <2>5, <2>6, <2>7, <2>8 DEF ReceiptsNext
<1> QED
  BY <1>1, <1>2, ReceiptTyping, PTL DEF ReceiptsSpec

(* The receipts created after the i-th are no more than there are places   *)
(* behind it.                                                              *)
LEMMA YoungerAreFew ==
  ASSUME ReceiptTypes, StoreInv, NEW i \in DOMAIN created, NEW kept
  PROVE  /\ Cardinality(kept \cap Younger(created[i])) \in Nat
         /\ Cardinality(kept \cap Younger(created[i])) <= Len(created) - i
<1> DEFINE behind == (i + 1)..Len(created)
           placed == {created[j] : j \in behind}
<1>1. i \in 1..Len(created) /\ Len(created) \in Nat /\ DOMAIN created = 1..Len(created)
  BY DEF ReceiptTypes, StoreTypes
<1>2. IsFiniteSet(behind) /\ Cardinality(behind) = Len(created) - i
  <2>1. i + 1 \in Int /\ Len(created) \in Int
    BY <1>1
  <2>2. IsFiniteSet(behind) /\ Cardinality(behind) = IF i + 1 > Len(created) THEN 0 ELSE Len(created) - (i + 1) + 1
    BY <2>1, FS_Interval
  <2> QED
    BY <1>1, <2>2
<1>3. IsFiniteSet(placed) /\ Cardinality(placed) <= Cardinality(behind)
  <2> DEFINE f == [j \in behind |-> created[j]]
  <2>1. f \in Surjection(behind, placed)
    BY DEF Surjection
  <2> HIDE DEF f, behind, placed
  <2> QED
    BY <1>2, <2>1, FS_Surjection
<1>4. kept \cap Younger(created[i]) \subseteq placed
  BY <1>1 DEF Younger, StoreInv
<1>5. Cardinality(kept \cap Younger(created[i])) <= Cardinality(placed)
  BY <1>3, <1>4, FS_Subset
<1> HIDE DEF behind, placed
<1>6. /\ Cardinality(kept \cap Younger(created[i])) \in Nat /\ Cardinality(placed) \in Nat
  BY <1>3, <1>4, FS_Subset, FS_CardinalityType
<1> QED
  BY <1>1, <1>2, <1>3, <1>5, <1>6

(* What prune leaves out had expired or has enough younger receipts.       *)
LEMMA PrunedAreOld ==
  ASSUME ReceiptTypes, StoreInv, NEW i \in DOMAIN created, Expire
  PROVE  \/ created[i] \in Pruned(overdue)
         \/ created[i] \in expired'
         \/ Len(created) - i >= maxReceipts - 1
<1> DEFINE c == Cardinality((receipts \ overdue) \cap Younger(created[i]))
<1>1. CASE created[i] \notin receipts \/ created[i] \in overdue
  BY <1>1 DEF StoreInv, KeptWhileRecent, Expire
<1>2. CASE created[i] \in receipts \ overdue
  <2>1. c \in Nat /\ c <= Len(created) - i
    BY YoungerAreFew
  <2>2. CASE c < maxReceipts - 1
    BY <1>2, <2>2 DEF Pruned, Youngest
  <2> QED
    BY <2>1, <2>2, ReceiptAssumption DEF ReceiptAssumption
<1> QED
  BY <1>1, <1>2

LEMMA StoreInvariant == ReceiptsSpec => []StoreInv
<1>1. ReceiptsInit => StoreInv
  BY DEF ReceiptsInit, StoreInv, KeptWhileRecent
<1>2. ReceiptTypes /\ StoreInv /\ [ReceiptsNext]_receiptVars => StoreInv'
  <2> SUFFICES ASSUME ReceiptTypes, StoreInv, [ReceiptsNext]_receiptVars PROVE StoreInv'
    OBVIOUS
  <2>1. CASE /\ UNCHANGED <<receipts, created, expired>>
             /\ \A d \in Demos : demo[d] = "done" => demo'[d] = "done"
    BY <2>1 DEF StoreInv, KeptWhileRecent, ReceiptTypes, StoreTypes
  <2>2. CASE UNCHANGED receiptVars
    BY <2>1, <2>2 DEF receiptVars, storeVars, demoVars
  <2>3. ASSUME NEW d \in Demos, Enter(d) \/ ButlerFails(d) \/ RetryReceipt(d) \/ GrowOld(d) PROVE StoreInv'
    BY <2>1, <2>3 DEF Enter, ButlerFails, Leave, RetryReceipt, GrowOld, ReceiptTypes, DemoTypes, demoVars, storeVars
  <2>4. ASSUME NEW d \in Demos, ButlerAnswers(d) PROVE StoreInv'
    <3> DEFINE n == Len(created)
    <3>1. /\ n \in Nat /\ DOMAIN created = 1..n /\ DOMAIN created' = 1..(n + 1)
          /\ \A i \in 1..n : created'[i] = created[i]
          /\ created'[n + 1] = d /\ Len(created') = n + 1
      BY <2>4 DEF ButlerAnswers, ReceiptTypes, StoreTypes
    <3>2. demo' = [demo EXCEPT ![d] = "done"] /\ demo[d] = "running" /\ demo'[d] = "done"
      BY <2>4 DEF ButlerAnswers, Leave, ReceiptTypes, DemoTypes
    <3>3. \A i \in 1..n : created[i] \in Demos /\ demo[created[i]] = "done" /\ created[i] # d
      BY <3>1, <3>2 DEF StoreInv, ReceiptTypes, StoreTypes
    <3>4. \A i \in DOMAIN created' : demo'[created'[i]] = "done"
      <4>1. \A e \in Demos \ {d} : demo'[e] = demo[e]
        BY <3>2 DEF ReceiptTypes, DemoTypes
      <4> TAKE i \in DOMAIN created'
      <4>2. CASE i = n + 1
        BY <3>1, <3>2, <4>2
      <4>3. CASE i \in 1..n
        BY <3>1, <3>3, <4>1, <4>3
      <4> QED
        BY <3>1, <4>2, <4>3
    <3>5. \A i, j \in DOMAIN created' : created'[i] = created'[j] => i = j
      BY <3>1, <3>3 DEF StoreInv
    <3>6. ASSUME NEW i \in DOMAIN created'
          PROVE  \/ created'[i] \in receipts' \/ created'[i] \in expired'
                 \/ Len(created') - i >= maxReceipts - 1
      <4>1. CASE i = n + 1
        BY <2>4, <3>1, <4>1 DEF ButlerAnswers
      <4>2. CASE i \in 1..n
        <5>1. \/ created[i] \in Pruned(overdue) \/ created[i] \in expired'
              \/ Len(created) - i >= maxReceipts - 1
          BY <2>4, <3>1, <4>2, PrunedAreOld DEF ButlerAnswers
        <5>2. n - i >= maxReceipts - 1 => (n + 1) - i >= maxReceipts - 1
          BY <3>1, <4>2, ReceiptAssumption DEF ReceiptAssumption
        <5>3. Pruned(overdue) \subseteq receipts'
          BY <2>4 DEF ButlerAnswers
        <5> QED
          BY <3>1, <4>2, <5>1, <5>2, <5>3
      <4> QED
        BY <3>1, <4>1, <4>2
    <3> QED
      BY <3>4, <3>5, <3>6 DEF StoreInv, KeptWhileRecent
  <2>5. ASSUME NEW j \in Others, WriteBeside(j) PROVE StoreInv'
    BY <2>1, <2>5 DEF WriteBeside, storeVars
  <2>6. ASSUME NEW j \in Jobs, IncludeJob(j) \/ LoseJob(j) PROVE StoreInv'
    BY <2>1, <2>6 DEF IncludeJob, LoseJob, demoVars, storeVars
  <2>7. CASE NewWindow
    BY <2>1, <2>7 DEF NewWindow, storeVars
  <2>8. CASE Poll
    <3>1. created' = created /\ demo' = demo /\ receipts' = Pruned(overdue) /\ Expire
      BY <2>8 DEF Poll, demoVars
    <3>2. ASSUME NEW i \in DOMAIN created
          PROVE  \/ created[i] \in receipts' \/ created[i] \in expired'
                 \/ Len(created) - i >= maxReceipts - 1
      BY <3>1, PrunedAreOld
    <3> QED
      BY <3>1, <3>2 DEF StoreInv, KeptWhileRecent
  <2>9. CASE QueueStep
    <3>1. UNCHANGED <<receipts, created, expired, demo>>
      BY <2>9 DEF QueueStep, StartJob, BroadcastJob, BroadcastRefused, WaitReturns, WaitFails, Told,
                  storeVars, demoVars
    <3> QED
      BY <2>1, <3>1
  <2> QED
    BY <2>2, <2>3, <2>4, <2>5, <2>6, <2>7, <2>8, <2>9 DEF ReceiptsNext
<1> QED
  BY <1>1, <1>2, ReceiptTyping, PTL DEF ReceiptsSpec

LEMMA SlotInvariant == ReceiptsSpec => []SlotInv
<1>1. ReceiptsInit => SlotInv
  <2> SUFFICES ASSUME ReceiptsInit PROVE SlotInv
    OBVIOUS
  <2>1. Served = {}
    BY DEF ReceiptsInit, Served
  <2> QED
    BY <2>1, FS_EmptySet DEF ReceiptsInit, SlotInv
<1>2. ReceiptTypes /\ SlotInv /\ [ReceiptsNext]_receiptVars => SlotInv'
  <2> SUFFICES ASSUME ReceiptTypes, SlotInv, [ReceiptsNext]_receiptVars PROVE SlotInv'
    OBVIOUS
  <2>1. CASE demo' = demo /\ limiter'.active = limiter.active
    BY <2>1 DEF SlotInv, Served
  <2>2. CASE UNCHANGED receiptVars
    BY <2>1, <2>2 DEF receiptVars, demoVars
  <2>3. ASSUME NEW d \in Demos, Enter(d) PROVE SlotInv'
    <3> DEFINE busy == limiter.active >= maxConcurrent \/ limiter.count >= maxPerWindow
    <3>1. demo[d] = "new" /\ demo' = [demo EXCEPT ![d] = IF busy THEN "refused" ELSE "running"]
          /\ limiter' = IF busy THEN limiter ELSE [limiter EXCEPT !.count = @ + 1, !.active = @ + 1]
      BY <2>3 DEF Enter
    <3> HIDE DEF busy
    <3>2. CASE busy
      <4>1. Served' = Served
        BY <3>1, <3>2 DEF Served, ReceiptTypes, DemoTypes
      <4> QED
        BY <3>1, <3>2, <4>1 DEF SlotInv
    <3>3. CASE ~busy
      <4>1. Served' = Served \cup {d} /\ d \notin Served
        BY <3>1, <3>3 DEF Served, ReceiptTypes, DemoTypes
      <4>2. IsFiniteSet(Served') /\ Cardinality(Served') = Cardinality(Served) + 1
        BY <4>1, FS_AddElement DEF SlotInv
      <4>3. limiter'.active = limiter.active + 1
        BY <3>1, <3>3 DEF ReceiptTypes, DemoTypes
      <4> QED
        BY <4>2, <4>3 DEF SlotInv
    <3> QED
      BY <3>2, <3>3
  <2>4. ASSUME NEW d \in Demos, demo[d] = "running", Leave(d) PROVE SlotInv'
    <3>1. Served' = Served \ {d} /\ d \in Served
      BY <2>4 DEF Served, ReceiptTypes, DemoTypes, Leave
    <3>2. IsFiniteSet(Served') /\ Cardinality(Served') = Cardinality(Served) - 1
      BY <3>1, FS_RemoveElement DEF SlotInv
    <3>3. limiter'.active = limiter.active - 1
      BY <2>4 DEF ReceiptTypes, DemoTypes, Leave
    <3> QED
      BY <3>2, <3>3 DEF SlotInv
  <2>5. ASSUME NEW d \in Demos, ButlerFails(d) \/ ButlerAnswers(d) PROVE SlotInv'
    BY <2>4, <2>5 DEF ButlerFails, ButlerAnswers
  <2>6. ASSUME NEW d \in Demos, RetryReceipt(d) \/ GrowOld(d) PROVE SlotInv'
    BY <2>1, <2>6 DEF RetryReceipt, GrowOld, demoVars
  <2>7. ASSUME NEW j \in Others, WriteBeside(j) PROVE SlotInv'
    BY <2>1, <2>7 DEF WriteBeside
  <2>8. ASSUME NEW j \in Jobs, IncludeJob(j) \/ LoseJob(j) PROVE SlotInv'
    BY <2>1, <2>8 DEF IncludeJob, LoseJob, demoVars
  <2>9. CASE NewWindow
    BY <2>1, <2>9 DEF NewWindow, ReceiptTypes, DemoTypes
  <2>10. CASE Poll \/ QueueStep
    BY <2>1, <2>10 DEF Poll, QueueStep, StartJob, BroadcastJob, BroadcastRefused, WaitReturns, WaitFails, demoVars
  <2> QED
    BY <2>2, <2>3, <2>5, <2>6, <2>7, <2>8, <2>9, <2>10 DEF ReceiptsNext
<1> QED
  BY <1>1, <1>2, ReceiptTyping, PTL DEF ReceiptsSpec

(* What the butler demo tells its visitors holds: a receipt it calls       *)
(* confirmed is on the chain unless a wait ended early, a recent receipt   *)
(* is still there to be polled, and every call gives its slot back.        *)
THEOREM ReceiptSafety == ReceiptsSpec => []ReceiptsAreHonest
<1>1. WalletInv => ConfirmedIsAnchored
  BY DEF WalletInv, ConfirmedIsAnchored
<1>2. StoreInv /\ SlotInv => KeptWhileRecent /\ SlotsAreGivenBack
  BY DEF StoreInv, SlotInv, SlotsAreGivenBack, Served
<1> QED
  BY <1>1, <1>2, WalletInvariant, StoreInvariant, SlotInvariant, PTL DEF ReceiptsAreHonest
=============================================================================
