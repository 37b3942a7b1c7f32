------------------------------ MODULE Gateway ------------------------------
(***************************************************************************)
(* The paid agent endpoint of the gateway: handlePost (server.ts) together *)
(* with the PaymentGate it asks for pay-dem payments (settlement.ts) and   *)
(* the x402 gate (x402.ts).                                                *)
(*                                                                         *)
(* Requests run concurrently on one event loop, so a step of this module   *)
(* is what the code does between two awaits.  A request waits, in order,   *)
(* for the payment lookup ("reading") or the facilitator ("x402verify"),   *)
(* its body, the agent, the output anchor and the x402 settlement.  The    *)
(* gate's set of reserved hashes lives in memory and a restart empties it. *)
(***************************************************************************)
EXTENDS Integers, FiniteSets

CONSTANTS
  Requests,     \* HTTP requests, each served once
  Txs,          \* native transfers a buyer may present
  Agents,       \* the registered agent names
  Price,        \* Price[a]: what a call of agent a costs (FeeSchedule)
  Transfer,     \* Transfer[t]: recipient, kind and amount of transfer t
  HasAnchor,    \* whether an output anchor is configured
  NoTx,         \* the request presented no usable pay-dem transfer
  MaxRestarts   \* bound on the process restarts explored

ASSUME GatewayAssumption ==
  /\ Price \in [Agents -> Nat]
  /\ Transfer \in [Txs -> [toGateway : BOOLEAN, native : BOOLEAN, amount : Nat]]
  /\ HasAnchor \in BOOLEAN
  /\ NoTx \notin Txs
  /\ MaxRestarts \in Nat

VARIABLES
  rails,      \* the payment rails this process was started with
  chain,      \* chain[t]: what the Demos chain knows of transfer t
  reserved,   \* PaymentGate.reserved
  req,        \* req[r]: the activation of handlePost serving request r
  x402,       \* x402[r]: the x402 payment of request r at the facilitator
  restarts,   \* restarts so far (bounded)
  excused     \* history: transfers whose lookups overlapped or that predate a restart

vars == <<rails, chain, reserved, req, x402, restarts, excused>>

(* "idle": not yet arrived; "done": answered with status code (or dropped  *)
(* by a restart, code 0).                                                  *)
Waiting == {"reading", "x402verify", "body", "invoke", "attest", "settle"}
Codes == {0, 200, 400, 401, 402, 404, 413, 500, 502, 504}
Rails == {"dem", "x402"}
Sources == {"none", "bearer"} \cup Rails

RequestState ==
  [pc : {"idle", "done"} \cup Waiting, rail : Sources, tx : Txs \cup {NoTx},
   agent : Agents, result : BOOLEAN, code : Codes]

Init ==
  /\ rails \in SUBSET Rails
  /\ chain = [t \in Txs |-> "absent"]
  /\ reserved = {}
  /\ req \in [Requests ->
       {q \in RequestState : q.pc = "idle" /\ q.rail = "none" /\ q.tx = NoTx
                             /\ ~q.result /\ q.code = 0}]
  /\ x402 = [r \in Requests |-> "none"]
  /\ restarts = 0
  /\ excused = {}

-----------------------------------------------------------------------------
(* The chain, as the gateway's reads see it (external).  A read may lag    *)
(* behind the chain or fail: the hash index and the address history are    *)
(* hydrated independently and each lookup is cut off after 5 seconds.      *)

Broadcast(t) ==
  /\ chain[t] = "absent"
  /\ chain' = [chain EXCEPT ![t] = "pending"]
  /\ UNCHANGED <<rails, reserved, req, x402, restarts, excused>>

Include(t) ==
  /\ chain[t] = "pending"
  /\ chain' = [chain EXCEPT ![t] = "confirmed"]
  /\ UNCHANGED <<rails, reserved, req, x402, restarts, excused>>

(* Mutant: the lookups are not cut off, so an unseen transfer never answers. *)
Views_NoTimeout(t) ==
  (IF chain[t] # "absent" THEN {"unconfirmed"} ELSE {})
    \cup (IF chain[t] = "confirmed" THEN {"partial", "complete"} ELSE {})

(* readPayment: nothing, an unconfirmed record, a confirmed record whose   *)
(* content or block is still being hydrated, or the complete transfer.     *)
Views(t) ==
  {"notFound"}
    \cup (IF chain[t] # "absent" THEN {"unconfirmed"} ELSE {})
    \cup (IF chain[t] = "confirmed" THEN {"partial", "complete"} ELSE {})

(* The checks of verifyAndReserve on what was read, in its order.          *)
Accepts(t, price, view) ==
  /\ view = "complete"
  /\ Transfer[t].native
  /\ Transfer[t].toGateway
  /\ Transfer[t].amount >= price

-----------------------------------------------------------------------------
(* Mutant: a timed out call keeps the reservation.                         *)
Answer_TimeoutKeepsPayment(r, code) ==
  /\ req' = [req EXCEPT ![r].pc = "done", ![r].code = code]
  /\ reserved' = IF code \notin {200, 504} /\ req[r].rail = "dem"
                 THEN reserved \ {req[r].tx} ELSE reserved
  /\ UNCHANGED <<rails, chain, restarts, excused>>

(* The end of handlePost: the response, and the finally block, which gives *)
(* back a payment that bought nothing.                                     *)
Answer(r, code) ==
  /\ req' = [req EXCEPT ![r].pc = "done", ![r].code = code]
  /\ reserved' = IF code # 200 /\ req[r].rail = "dem"
                 THEN reserved \ {req[r].tx} ELSE reserved
  /\ UNCHANGED <<rails, chain, restarts, excused>>

(* cancel() tells the facilitator to forget a payment it has not settled.  *)
Cancelled(r) ==
  [x402 EXCEPT ![r] = IF @ = "verified" THEN "cancelled" ELSE @]

(* Mutant: a failed request forgets to cancel its x402 payment.            *)
Fail_NoCancel(r, code) == Answer(r, code) /\ UNCHANGED x402

Fail(r, code) == Answer(r, code) /\ x402' = Cancelled(r)

(* handlePost before its first await: who pays for this request.           *)
UnknownAgent(r) ==
  /\ req[r].pc = "idle"
  /\ req' = [req EXCEPT ![r].pc = "done", ![r].code = 404]
  /\ UNCHANGED <<rails, chain, reserved, x402, restarts, excused>>

OperatorCall(r) ==
  /\ req[r].pc = "idle"
  /\ req' = [req EXCEPT ![r].pc = "body", ![r].rail = "bearer"]
  /\ UNCHANGED <<rails, chain, reserved, x402, restarts, excused>>

UnpaidCall(r) ==
  /\ req[r].pc = "idle"
  /\ "x402" \notin rails
  /\ req' = [req EXCEPT ![r].pc = "done",
                        ![r].code = IF "dem" \in rails THEN 402 ELSE 401]
  /\ UNCHANGED <<rails, chain, reserved, x402, restarts, excused>>

(* Mutant: the gate does not look at the reserved set before the lookup.   *)
PresentPayment_NoReplayCheck(r, t) ==
  /\ req[r].pc = "idle" /\ "dem" \in rails
  /\ req' = [req EXCEPT ![r].pc = "reading", ![r].tx = t]
  /\ excused' = IF \E s \in Requests : req[s].pc = "reading" /\ req[s].tx = t
                THEN excused \cup {t} ELSE excused
  /\ UNCHANGED <<rails, chain, reserved, x402, restarts>>

(* X-Payment-Tx: the gate looks at its reserved set first and only then    *)
(* awaits the lookup.                                                      *)
UsedPayment(r, t) ==
  /\ req[r].pc = "idle" /\ "dem" \in rails
  /\ t \in reserved
  /\ req' = [req EXCEPT ![r].pc = "done", ![r].code = 402]
  /\ UNCHANGED <<rails, chain, reserved, x402, restarts, excused>>

MalformedPayment(r) ==
  /\ req[r].pc = "idle" /\ "dem" \in rails
  /\ req' = [req EXCEPT ![r].pc = "done", ![r].code = 402]
  /\ UNCHANGED <<rails, chain, reserved, x402, restarts, excused>>

PresentPayment(r, t) ==
  /\ req[r].pc = "idle" /\ "dem" \in rails
  /\ t \notin reserved
  /\ req' = [req EXCEPT ![r].pc = "reading", ![r].tx = t]
  /\ excused' = IF \E s \in Requests : req[s].pc = "reading" /\ req[s].tx = t
                THEN excused \cup {t} ELSE excused
  /\ UNCHANGED <<rails, chain, reserved, x402, restarts>>

(* The lookup returns.  The reserved set is not consulted again.           *)
LookupReturns(r) ==
  /\ req[r].pc = "reading"
  /\ \E view \in Views(req[r].tx) :
       IF Accepts(req[r].tx, Price[req[r].agent], view)
       THEN /\ reserved' = reserved \cup {req[r].tx}
            /\ req' = [req EXCEPT ![r].pc = "body", ![r].rail = "dem"]
       ELSE /\ req' = [req EXCEPT ![r].pc = "done", ![r].code = 402]
            /\ UNCHANGED reserved
  /\ UNCHANGED <<rails, chain, x402, restarts, excused>>

PresentX402(r) ==
  /\ req[r].pc = "idle" /\ "x402" \in rails
  /\ req' = [req EXCEPT ![r].pc = "x402verify"]
  /\ UNCHANGED <<rails, chain, reserved, x402, restarts, excused>>

(* x402.verify: the 402 challenge (or 500, also when the facilitator call  *)
(* throws), or a verified payment that is not yet settled.                 *)
X402Challenge(r) ==
  /\ req[r].pc = "x402verify"
  /\ \E code \in {402, 500} :
       req' = [req EXCEPT ![r].pc = "done", ![r].code = code]
  /\ UNCHANGED <<rails, chain, reserved, x402, restarts, excused>>

X402Accepted(r) ==
  /\ req[r].pc = "x402verify"
  /\ req' = [req EXCEPT ![r].pc = "body", ![r].rail = "x402"]
  /\ x402' = [x402 EXCEPT ![r] = "verified"]
  /\ UNCHANGED <<rails, chain, reserved, restarts, excused>>

(* The paid part: body, agent, anchor, x402 settlement.                    *)
BodyRefused(r) ==
  /\ req[r].pc = "body"
  /\ \E code \in {400, 413} : Fail(r, code)

BodyAccepted(r) ==
  /\ req[r].pc = "body"
  /\ req' = [req EXCEPT ![r].pc = "invoke"]
  /\ UNCHANGED <<rails, chain, reserved, x402, restarts, excused>>

(* AgentInputError, any other error, or the agent timeout.                 *)
AgentFails(r) ==
  /\ req[r].pc = "invoke"
  /\ \E code \in {400, 502, 504} : Fail(r, code)

Deliver(r) == Answer(r, 200) /\ UNCHANGED x402

(* What follows a finished piece of work: the next await, or the 200.      *)
Proceed(r, pc) ==
  /\ req' = [req EXCEPT ![r].pc = pc, ![r].result = TRUE]
  /\ UNCHANGED <<rails, chain, reserved, x402, restarts, excused>>

AgentReturns(r) == req[r].pc = "invoke" /\ Proceed(r, "attest")

(* Without a configured anchor there is nothing to wait for and nothing    *)
(* that can fail here.                                                     *)
AnchorFails(r) == HasAnchor /\ req[r].pc = "attest" /\ Fail(r, 502)

Anchored(r) ==
  /\ req[r].pc = "attest"
  /\ IF req[r].rail = "x402" THEN Proceed(r, "settle") ELSE Deliver(r)

X402Settled(r) ==
  /\ req[r].pc = "settle"
  /\ Answer(r, 200)
  /\ x402' = [x402 EXCEPT ![r] = "charged"]

(* The facilitator refuses (502) or the call throws (500); a call that     *)
(* throws may have charged the buyer before its answer was lost.           *)
X402NotSettled(r) ==
  /\ req[r].pc = "settle"
  /\ \/ Fail(r, 502)
     \/ Fail(r, 500)
     \/ Answer(r, 500) /\ x402' = [x402 EXCEPT ![r] = "charged"]

(* The process dies and comes back with the rails its environment names:   *)
(* open requests are cut, the reserved set starts empty.                   *)
Restart ==
  /\ restarts < MaxRestarts
  /\ restarts' = restarts + 1
  /\ req' = [r \in Requests |->
               IF req[r].pc \in Waiting THEN [req[r] EXCEPT !.pc = "done"] ELSE req[r]]
  /\ reserved' = {}
  /\ excused' = Txs
  /\ rails' \in SUBSET Rails
  /\ UNCHANGED <<chain, x402>>

Arrive(r) ==
  \/ UnknownAgent(r) \/ OperatorCall(r) \/ UnpaidCall(r) \/ MalformedPayment(r)
  \/ \E t \in Txs : UsedPayment(r, t) \/ PresentPayment(r, t)
  \/ PresentX402(r)

(* A pending await of request r settles.                                   *)
Resume(r) ==
  \/ LookupReturns(r) \/ X402Challenge(r) \/ X402Accepted(r)
  \/ BodyRefused(r) \/ BodyAccepted(r) \/ AgentFails(r) \/ AgentReturns(r)
  \/ AnchorFails(r) \/ Anchored(r) \/ X402Settled(r) \/ X402NotSettled(r)

Next ==
  \/ \E t \in Txs : Broadcast(t) \/ Include(t)
  \/ \E r \in Requests : Arrive(r) \/ Resume(r)
  \/ Restart

Spec == Init /\ [][Next]_vars

(* Every await of a request settles: the lookups, the agent and the body   *)
(* carry timeouts, the anchor and the facilitator answer or fail.          *)
FairSpec == Spec /\ \A r \in Requests : WF_vars(Resume(r))

-----------------------------------------------------------------------------
(* Properties *)

TypeOK ==
  /\ rails \subseteq Rails
  /\ chain \in [Txs -> {"absent", "pending", "confirmed"}]
  /\ reserved \subseteq Txs
  /\ req \in [Requests -> RequestState]
  /\ x402 \in [Requests -> {"none", "verified", "cancelled", "charged"}]
  /\ restarts \in 0..MaxRestarts
  /\ excused \subseteq Txs

(* Request r holds transfer t: verified and reserved, work under way.      *)
Holds(r, t) ==
  /\ req[r].pc \in {"body", "invoke", "attest"}
  /\ req[r].rail = "dem"
  /\ req[r].tx = t

Bought(r, t) == req[r].code = 200 /\ req[r].rail = "dem" /\ req[r].tx = t

(* What verifyAndReserve does guarantee: a transfer buys two calls only if *)
(* two lookups of it overlapped or the process restarted.                  *)
OneCallUnlessOverlapped ==
  \A t \in Txs \ excused : \A r, s \in Requests :
    Bought(r, t) /\ Bought(s, t) => r = s

(* "only a delivered 200 consumes it": a hash stays reserved only while a  *)
(* request works on it or because a call was delivered for it, so a failed *)
(* call, whatever its error, leaves the buyer's payment usable.            *)
OnlyDeliveryConsumes ==
  \A t \in reserved : \E r \in Requests : Holds(r, t) \/ Bought(r, t)

(* No free call: a 200 goes to an operator, to a confirmed native transfer *)
(* to the gateway of at least the price, or to a charged x402 payment.     *)
DeliveredIsPaid ==
  \A r \in Requests : req[r].code = 200 =>
    \/ req[r].rail = "bearer"
    \/ /\ req[r].rail = "dem"
       /\ chain[req[r].tx] = "confirmed"
       /\ Transfer[req[r].tx].toGateway
       /\ Transfer[req[r].tx].amount >= Price[req[r].agent]
    \/ req[r].rail = "x402" /\ x402[r] = "charged"

(* Work before settlement: an x402 buyer is charged only once the agent's  *)
(* result exists, and a payment that is not charged is not left verified   *)
(* behind an answered request.                                             *)
ChargedAfterWork ==
  \A r \in Requests :
    /\ x402[r] = "charged" => req[r].result
    /\ req[r].pc = "done" /\ req[r].code # 0 => x402[r] # "verified"

(* Every request that arrived is answered (or cut by a restart).           *)
EveryRequestAnswered ==
  \A r \in Requests : req[r].pc \in Waiting ~> req[r].pc = "done"

(* What a buyer and the operator may rely on: a 200 is paid for, and a     *)
(* payment is taken only for work that was done.                           *)
PaidForWork == DeliveredIsPaid /\ ChargedAfterWork
=============================================================================
