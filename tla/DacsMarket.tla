----------------------------- MODULE DacsMarket -----------------------------
(***************************************************************************)
(* The buyer's side of the DACS market (DacsButlerBuyer of roster/dacs/    *)
(* wire/butler.ts over dacs/buyer.ts) against the three ways a seller is   *)
(* paid: an x402 paywall that works before it settles (dacs/paywall.ts), a *)
(* pay-dem session that pays and then calls the seller (dacs/rails.ts),    *)
(* and a bare transfer that the seller's watcher observes                  *)
(* (dacs/watcher.ts).  The SDK's session core is external: it runs the     *)
(* settle seam and completes when the seam says ok.                        *)
(***************************************************************************)
EXTENDS Integers, FiniteSets, Sequences

CONSTANTS Orders,        \* the jobs
          OrderMode,     \* [Orders -> advertised rails and scope of the offer]
          ListingPrice, Amounts,   \* what a listing asks, what a buyer may pay
          MaxTransfers,  \* bound on the transfers of one job
          MaxRestarts    \* bound on the restarts of the watcher

VARIABLES order,       \* the buyer's execution of each job
          ledger,      \* DEM transfers, in order
          watcher,     \* the watcher: jobs handled, transfer in hand, decisions
          facilitator, \* what the x402 facilitator was asked for each job
          delivery,    \* delivery attestations by job, "none" when absent
          works,       \* how often the work was done and anchored
          watchRestarts

marketVars == <<order, ledger, watcher, facilitator, delivery, works, watchRestarts>>

eligibleRails(rails) == SelectSeq(rails, LAMBDA r : r \in {"pay-x402", "pay-dem"})

executionModeFor(rail, scope) ==
    CASE rail = "pay-x402" -> "x402"
      [] rail = "pay-dem" /\ scope = "parameterized" -> "pay-dem-session"
      [] rail = "pay-dem" /\ scope = "fixed" -> "pay-dem-watcher"

\* The award's first rail this build can run decides how the job is executed.
Mode(j) == LET rails == eligibleRails(OrderMode[j].rails) IN
           IF rails = <<>> THEN "thrown" ELSE executionModeFor(rails[1], OrderMode[j].scope)

\* An offer is fixed or parameterized, so executionModeFor covers it.
ASSUME MarketAssumption ==
    /\ \A j \in Orders : Mode(j) \in {"x402", "pay-dem-session", "pay-dem-watcher", "thrown"}
    /\ ListingPrice \in Int /\ Amounts \subseteq Int

Idle == [job |-> "none", step |-> "idle", n |-> 0]

MarketInit ==
    /\ order = [j \in Orders |-> "awarded"]
    /\ ledger = <<>>
    /\ watcher = [handled |-> {}, hand |-> Idle, seen |-> 0]
    /\ facilitator = [j \in Orders |-> "none"]
    /\ delivery = [j \in Orders |-> "none"]
    /\ works = [j \in Orders |-> 0]
    /\ watchRestarts = 0

\* execute: an award whose offer has no rail this build can run ends at once.
Execute(j) ==
    /\ order[j] = "awarded"
    /\ order' = [order EXCEPT ![j] = Mode(j)]
    /\ UNCHANGED <<ledger, watcher, facilitator, delivery, works, watchRestarts>>

\* SellerAdapter.deliver: the work throws before anything is anchored, or the
\* attestation of the work is signed and anchored in the job's slot.
Deliver(j, what) ==
    /\ delivery' = [delivery EXCEPT ![j] = what]
    /\ works' = [works EXCEPT ![j] = @ + 1]

Attested == {"good", "bad"}   \* bad: fails the service's own observation later
----------------------------------------------------------------------------
(* x402: challenge, verify, work, settle, respond.                         *)

X402Challenge(j) ==
    /\ order[j] = "x402"
    /\ order' = [order EXCEPT ![j] = "challenged"]
    /\ UNCHANGED <<ledger, watcher, facilitator, delivery, works, watchRestarts>>

\* The paid retry: the facilitator verifies the header, then the seller works;
\* a throw cancels the payment.
X402Work(j) ==
    /\ order[j] = "challenged"
    /\ \/ \E what \in Attested : Deliver(j, what)
          /\ facilitator' = [facilitator EXCEPT ![j] = "verified"]
          /\ order' = [order EXCEPT ![j] = "worked"]
       \/ /\ facilitator' = [facilitator EXCEPT ![j] = "cancelled"]
          /\ order' = [order EXCEPT ![j] = "unsettled"]
          /\ UNCHANGED <<delivery, works>>
    /\ UNCHANGED <<ledger, watcher, watchRestarts>>

X402Settle(j) ==
    /\ order[j] = "worked"
    /\ \/ /\ facilitator' = [facilitator EXCEPT ![j] = "settled"]
          /\ order' = [order EXCEPT ![j] = "seam"]
       \/ order' = [order EXCEPT ![j] = "unsettled"] /\ UNCHANGED facilitator
    /\ UNCHANGED <<ledger, watcher, delivery, works, watchRestarts>>
----------------------------------------------------------------------------
(* pay-dem: transfer, and either a call of the seller or its watcher.      *)

Transfer(j, a) ==
    /\ Cardinality({i \in 1 .. Len(ledger) : ledger[i].job = j}) < MaxTransfers
    /\ ledger' = Append(ledger, [job |-> j, amount |-> a])
    /\ order' = [order EXCEPT ![j] = IF Mode(j) = "pay-dem-session" THEN "seller" ELSE "observed"]
    /\ UNCHANGED <<watcher, facilitator, delivery, works, watchRestarts>>

PayDemSession(j) == order[j] = "pay-dem-session" /\ Transfer(j, ListingPrice)

PayDemDeliver(j) ==
    /\ order[j] = "seller"
    /\ \/ \E what \in Attested : Deliver(j, what)
          /\ order' = [order EXCEPT ![j] = "seam"]
       \/ order' = [order EXCEPT ![j] = "thrown"] /\ UNCHANGED <<delivery, works>>
    /\ UNCHANGED <<ledger, watcher, facilitator, watchRestarts>>

\* openDemAgreement anchors the parameters, then payDemBare only transfers.
OpenAndPay(j) == order[j] = "pay-dem-watcher" /\ \E a \in Amounts : Transfer(j, a)

\* Somebody pays with the memo of a job nobody has opened an agreement for.
StrayTransfer(j) ==
    /\ order[j] = "awarded" /\ Mode(j) = "pay-dem-watcher"
    /\ Cardinality({i \in 1 .. Len(ledger) : ledger[i].job = j}) < MaxTransfers
    /\ ledger' = Append(ledger, [job |-> j, amount |-> ListingPrice])
    /\ UNCHANGED <<order, watcher, facilitator, delivery, works, watchRestarts>>

\* onTransfer, up to its first await: a handled job is skipped.  The ledger
\* awaits its listener, so one transfer is in hand at a time.
WatchTake ==
    /\ watcher.hand = Idle /\ watcher.seen < Len(ledger)
    /\ LET t == ledger[watcher.seen + 1]
           watched == Mode(t.job) = "pay-dem-watcher" IN
       watcher' = [watcher EXCEPT !.seen = @ + 1,
                                  !.hand = IF watched /\ t.job \notin watcher.handled
                                           THEN [job |-> t.job, step |-> "read", n |-> t.amount] ELSE Idle]
    /\ UNCHANGED <<order, ledger, facilitator, delivery, works, watchRestarts>>

\* A slip: the watcher trusts its memory and reads no anchor.
WatchReadMemory ==
    /\ watcher.hand.step = "read"
    /\ watcher' = IF watcher.hand.n < ListingPrice THEN [watcher EXCEPT !.hand = Idle]
                  ELSE [watcher EXCEPT !.hand.step = "deliver"]
    /\ UNCHANGED <<order, ledger, facilitator, delivery, works, watchRestarts>>

\* The reads: a delivery already anchored is not repeated; a transfer without
\* an agreement, or below the listed price, is parked.
WatchRead ==
    /\ watcher.hand.step = "read"
    /\ LET j == watcher.hand.job IN
       watcher' = IF delivery[j] # "none"
                  THEN [watcher EXCEPT !.handled = @ \cup {j}, !.hand = Idle]
                  ELSE IF order[j] \in {"awarded", "pay-dem-watcher"} \/ watcher.hand.n < ListingPrice
                  THEN [watcher EXCEPT !.hand = Idle]
                  ELSE [watcher EXCEPT !.hand.step = "deliver"]
    /\ UNCHANGED <<order, ledger, facilitator, delivery, works, watchRestarts>>

WatchDeliver ==
    /\ watcher.hand.step = "deliver"
    /\ LET j == watcher.hand.job IN
       \/ /\ \E what \in Attested : Deliver(j, what)
          /\ watcher' = [watcher EXCEPT !.handled = @ \cup {j}, !.hand = Idle]
       \/ watcher' = [watcher EXCEPT !.hand = Idle] /\ UNCHANGED <<delivery, works>>
    /\ UNCHANGED <<order, ledger, facilitator, watchRestarts>>

\* The seller's process restarts: its memory is gone, the transfers it had
\* seen are reported again.
WatchRestart ==
    /\ watchRestarts < MaxRestarts /\ watcher.seen > 0
    /\ watchRestarts' = watchRestarts + 1
    /\ watcher' = [handled |-> {}, hand |-> Idle, seen |-> 0]
    /\ UNCHANGED <<order, ledger, facilitator, delivery, works>>
----------------------------------------------------------------------------
(* What execute does with the outcome of the rail.                         *)

\* A session whose seam is not ok is not completed, and execute throws; so it
\* does when the delivery slot is still empty.
ReadDelivery(j) ==
    /\ order[j] \in {"seam", "observed", "unsettled"}
    /\ order' = [order EXCEPT ![j] = IF @ = "unsettled" \/ delivery[j] = "none" THEN "thrown" ELSE "delivered"]
    /\ UNCHANGED <<ledger, watcher, facilitator, delivery, works, watchRestarts>>

\* verifyDelivery: signature and service, then the service's own observation.
verifyDelivery(j) == delivery[j] = "good"

Accept(j) ==
    /\ order[j] = "delivered"
    /\ \E verdict \in {"accept", "reject", "needs-evaluator"} :
          order' = [order EXCEPT ![j] = IF verifyDelivery(j) /\ verdict = "accept" THEN "accepted"
                                        ELSE IF verifyDelivery(j) /\ verdict = "needs-evaluator" THEN "evaluator"
                                        ELSE "declined"]
    /\ UNCHANGED <<ledger, watcher, facilitator, delivery, works, watchRestarts>>

MarketNext ==
    \/ \E j \in Orders : \/ Execute(j) \/ X402Challenge(j) \/ X402Work(j) \/ X402Settle(j)
                         \/ PayDemSession(j) \/ PayDemDeliver(j) \/ OpenAndPay(j) \/ StrayTransfer(j)
                         \/ ReadDelivery(j) \/ Accept(j)
    \/ WatchTake \/ WatchRead \/ WatchDeliver \/ WatchRestart

\* A purchase the buyer takes, or hands to an evaluator, was paid on the rail
\* its mode stands for, and its anchored delivery passed the observation.
AcceptedIsPaidAndVerified ==
    \A j \in Orders : order[j] \in {"accepted", "evaluator"} =>
        /\ delivery[j] = "good"
        /\ IF Mode(j) = "x402" THEN facilitator[j] = "settled"
           ELSE \E i \in 1 .. Len(ledger) : ledger[i].job = j /\ ledger[i].amount >= ListingPrice

\* The paywall never charges for work that was not anchored: a settled
\* payment has its delivery, a cancelled one has none.
SettleAfterWork ==
    \A j \in Orders : /\ facilitator[j] = "settled" => delivery[j] # "none"
                      /\ facilitator[j] = "cancelled" => delivery[j] = "none"

\* Transfers reported again after a restart of the watcher never make it do
\* a job twice, and no job is done for less than its price.
WatcherServesOnce ==
    \A j \in Orders : Mode(j) = "pay-dem-watcher" =>
        /\ works[j] <= 1
        /\ works[j] = 1 => \E i \in 1 .. Len(ledger) : ledger[i].job = j /\ ledger[i].amount >= ListingPrice

\* Every transfer the watcher observes is looked at in the end, and none is
\* left in its hands.
WatcherCatchesUp == []<>(watcher.hand = Idle /\ watcher.seen = Len(ledger))
============================================================================
