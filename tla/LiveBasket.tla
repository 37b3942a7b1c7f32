----------------------------- MODULE LiveBasket -----------------------------
(***************************************************************************)
(* The live scripts of roster/dacs/live: l1 (one pay-dem deal), l2 (one    *)
(* x402 deal), l3 (oracle over x402, one judged report over pay-dem) and   *)
(* l4, which buys from every seller of the roster and goes on when one of  *)
(* them fails.  A script runs alone and top to bottom; what may go wrong   *)
(* is every call to the node, the facilitator or the seller's work.  The   *)
(* anchors go through RetryingSubstrate: after its last attempt a call     *)
(* that throws may still have written its slot.                            *)
(***************************************************************************)
EXTENDS Integers, Sequences, FiniteSets

CONSTANTS Sellers,        \* the pay-dem sellers of l4, in order
          Judged,         \* sellers without mechanical checks
          ORACLE_ATTEMPTS, \* attempts of l4's x402 leg
          BasketScripts   \* the scripts that are run

VARIABLES pc,        \* [at, i]: the stage of main and its loop index
          script,
          unsound,   \* establishFail, publishFail
          pending,   \* funder transfers whose nonce was not seen to advance
          offers,    \* listings published, then the ones discovered
          leg,       \* the deal in hand
          charged,   \* payments that reached each seller
          rulings,   \* EvalBot's anchored rulings
          results    \* the reports, in order

basketVars == <<pc, script, unsound, pending, offers, leg, charged, rulings, results>>

Oracle == "oracle"
\* What the four mains differ in.  gated: too little USDC ends the script;
\* keyed: the wallets of l1 must exist; tolerant: a failure is reported and
\* the next seller is tried.
l1 == [wallets |-> <<Oracle, "buyer">>, x402 |-> FALSE, deals |-> <<Oracle>>,
       gated |-> FALSE, keyed |-> FALSE, tolerant |-> FALSE, attempts |-> 0]
l2 == [wallets |-> <<Oracle, "buyer">>, x402 |-> TRUE, deals |-> <<>>,
       gated |-> TRUE, keyed |-> TRUE, tolerant |-> FALSE, attempts |-> 1]
l3 == [wallets |-> <<Oracle, "dd", "evalbot", "buyer">>, x402 |-> TRUE, deals |-> <<"dd">>,
       gated |-> TRUE, keyed |-> TRUE, tolerant |-> FALSE, attempts |-> 1]
l4 == [wallets |-> <<"buyer", Oracle, "evalbot">> \o Sellers, x402 |-> TRUE, deals |-> Sellers,
       gated |-> FALSE, keyed |-> TRUE, tolerant |-> TRUE, attempts |-> ORACLE_ATTEMPTS]
Script == CASE script = "l1" -> l1 [] script = "l2" -> l2 [] script = "l3" -> l3 [] script = "l4" -> l4

Names    == {"buyer", Oracle, "evalbot", "dd"} \cup {Sellers[i] : i \in 1 .. Len(Sellers)}

\* l4's sellers are different agents, and none of them is the oracle.
ASSUME BasketAssumption ==
    /\ Sellers \in Seq(Names)
    /\ \A i, k \in 1 .. Len(Sellers) : Sellers[i] = Sellers[k] => i = k
    /\ \A i \in 1 .. Len(Sellers) : Sellers[i] # Oracle
    /\ Oracle \notin Judged
    /\ ORACLE_ATTEMPTS \in Nat \ {0}
    /\ BasketScripts \subseteq {"l1", "l2", "l3", "l4"}
Wallet   == Script.wallets[pc.i]
Vendor   == Script.deals[pc.i]
To(at, i) == pc' = [at |-> at, i |-> i]
NoLeg    == [paid |-> FALSE, delivered |-> "none", stash |-> "none", completed |-> FALSE, verdict |-> "none",
             bundle |-> FALSE, accepted |-> FALSE]

BasketInit ==
    /\ script \in BasketScripts
    /\ pc = [at |-> "start", i |-> 1]
    /\ unsound = {} /\ pending = 0 /\ offers = {} /\ leg = NoLeg
    /\ charged = [n \in Names |-> 0]
    /\ rulings = [n \in Names |-> "none"]
    /\ results = <<>>

\* readUsdcBalance and the key files, before anything is spent.  l4 goes on
\* without USDC, but its oracle leg is blocked.
Start ==
    /\ pc.at = "start"
    /\ \E usdc, keys \in BOOLEAN :
          /\ To(IF (Script.keyed /\ ~keys) \/ (Script.gated /\ ~usdc) THEN "aborted" ELSE "establish", 1)
          /\ unsound' = IF usdc THEN {} ELSE {"usdc"}
    /\ UNCHANGED <<script, pending, offers, leg, charged, rulings, results>>
----------------------------------------------------------------------------
(* ensureEstablished for one wallet after the other.                       *)

NextWallet == IF pc.i < Len(Script.wallets) THEN To("establish", pc.i + 1) ELSE To("publish", 1)
\* establish: l4 notes the failure, the others let it end the script.
establishFails ==
    /\ unsound' = unsound \cup {Wallet}
    /\ IF Script.tolerant THEN NextWallet ELSE To("aborted", 0)

\* Without the buyer l4 establishes no seller.
Hopeless == Script.tolerant /\ "buyer" \in unsound /\ \E i \in 1 .. Len(Sellers) : Wallet = Sellers[i]

\* loadOrCreateKey: the wallets l1 made are never new.
MayBeNew == ~(Script.keyed /\ Wallet \in {Oracle, "buyer"})

\* A persisted wallet with a sufficient balance is reused, any other is funded.
Reuse ==
    /\ pc.at = "establish"
    /\ IF Hopeless
       THEN unsound' = unsound \cup {Wallet}
       ELSE UNCHANGED unsound
    /\ NextWallet
    /\ UNCHANGED <<script, pending, offers, leg, charged, rulings, results>>

\* payDem from the funder: rejected, or broadcast.
Fund ==
    /\ pc.at = "establish"
    /\ ~Hopeless
    /\ \/ establishFails /\ UNCHANGED pending
       \/ To("funding", pc.i) /\ pending' = pending + 1 /\ UNCHANGED unsound
    /\ UNCHANGED <<script, offers, leg, charged, rulings, results>>

\* waitNonceAdvance: it advanced, or the wait ends and the transfer stays
\* pending while the next wallet is taken.
waitNonceAdvance ==
    /\ pc.at = "funding"
    /\ \/ To("landing", pc.i) /\ pending' = pending - 1 /\ UNCHANGED unsound
       \/ establishFails /\ UNCHANGED pending
    /\ UNCHANGED <<script, offers, leg, charged, rulings, results>>

\* waitBalanceAtLeast, whose result is not looked at; a new wallet is warmed
\* up with three transfers to itself and must become stable.
establishWallet ==
    /\ pc.at = "landing"
    /\ \/ NextWallet /\ UNCHANGED unsound
       \/ MayBeNew /\ establishFails
    /\ UNCHANGED <<script, pending, offers, leg, charged, rulings, results>>
----------------------------------------------------------------------------
(* Publishing and discovery.                                               *)

Shops == (IF Script.x402 THEN <<Oracle>> ELSE <<>>) \o Script.deals

\* publishListing by every established seller.
PublishOne ==
    /\ pc.at = "publish"
    /\ LET s == Shops[pc.i]
           next == IF pc.i < Len(Shops) THEN To("publish", pc.i + 1) ELSE To("discover", 1) IN
       \/ s \in unsound /\ next /\ UNCHANGED <<offers, unsound>>
       \/ s \notin unsound /\ next /\ offers' = offers \cup {s} /\ UNCHANGED unsound
       \/ s \notin unsound /\ unsound' = unsound \cup {s} /\ UNCHANGED offers
          /\ IF Script.tolerant THEN next ELSE To("aborted", 0)
    /\ UNCHANGED <<script, pending, leg, charged, rulings, results>>

\* discoverOffers skips a listing it cannot read.
Discover ==
    /\ pc.at = "discover"
    /\ offers' \in SUBSET offers
    /\ IF Script.x402 THEN To("x402", 1) ELSE To("deal", 1)
    /\ UNCHANGED <<script, unsound, pending, leg, charged, rulings, results>>
----------------------------------------------------------------------------
(* The oracle over x402.                                                   *)

Report(s, status, tx) == results' = Append(results, [seller |-> s, status |-> status, tx |-> tx])
AfterOracle == IF Script.deals = <<>> THEN To("report", 0) ELSE To("deal", 1)
\* The outer catch: l4 reports the seller blocked, the others end.
Caught(s, next) ==
    IF Script.tolerant THEN Report(s, "blocked", "-") /\ next ELSE To("aborted", 0) /\ UNCHANGED results

x402Blocked ==
    /\ pc.at = "x402" /\ pc.i = 1
    /\ "usdc" \in unsound \/ Oracle \notin offers
    /\ Caught(Oracle, AfterOracle)
    /\ UNCHANGED <<script, unsound, pending, offers, leg, charged, rulings>>

\* One attempt under a job id of its own: the paywall delivers, then settles;
\* the seam couples the payment to the anchored delivery; the session anchors
\* evidence and bundle.  Any of it may fail, the last ones after the payment.
x402Attempt ==
    /\ pc.at = "x402" /\ Oracle \in offers /\ "usdc" \notin unsound
    /\ \E delivered \in {"none", "good", "bad"}, paid, completed \in BOOLEAN :
          /\ paid => delivered # "none"
          /\ completed => paid
          /\ charged' = [charged EXCEPT ![Oracle] = @ + IF paid THEN 1 ELSE 0]
          /\ leg' = [NoLeg EXCEPT !.paid = leg.paid \/ paid, !.delivered = delivered, !.completed = completed]
          /\ IF completed THEN To("settled", 0) /\ UNCHANGED results
             ELSE IF pc.i < Script.attempts THEN To("x402", pc.i + 1) /\ UNCHANGED results
             ELSE IF Script.tolerant
             THEN (\E tx \in IF leg'.paid THEN {"tx", "-"} ELSE {"-"} : Report(Oracle, "blocked", tx)) /\ AfterOracle
             ELSE To("aborted", 0) /\ UNCHANGED results
    /\ UNCHANGED <<script, unsound, pending, offers, rulings>>

\* execute's acceptance, the seller's own bundle and the buyer's, then the report.
x402Report ==
    /\ pc.at = "settled"
    /\ \/ Caught(Oracle, AfterOracle) /\ UNCHANGED leg
       \/ \E bundle \in BOOLEAN :
             /\ Report(Oracle, IF leg.delivered = "good" /\ bundle THEN "settled" ELSE "blocked", "tx")
             /\ leg' = NoLeg
             /\ AfterOracle
    /\ UNCHANGED <<script, unsound, pending, offers, charged, rulings>>
----------------------------------------------------------------------------
(* A pay-dem deal.                                                         *)

NextDeal == IF pc.i < Len(Script.deals) THEN To("deal", pc.i + 1) ELSE To("report", 0)
DealFails == Caught(Vendor, NextDeal) /\ leg' = NoLeg

\* The gate, the award and the agreement.
Award ==
    /\ pc.at = "deal"
    /\ \/ DealFails
       \/ Vendor \in offers /\ Vendor \notin unsound /\ "buyer" \notin unsound
          /\ To("pay", pc.i) /\ leg' = NoLeg /\ UNCHANGED results
    /\ UNCHANGED <<script, unsound, pending, offers, charged, rulings>>

\* The settle seam: pay, wait for the buyer's nonce, let the seller deliver.
SettleSeam ==
    /\ pc.at = "pay"
    /\ \/ DealFails /\ UNCHANGED charged
       \/ DealFails /\ charged' = [charged EXCEPT ![Vendor] = @ + 1]
       \/ /\ charged' = [charged EXCEPT ![Vendor] = @ + 1]
          /\ To("deliver", pc.i) /\ leg' = [leg EXCEPT !.paid = TRUE] /\ UNCHANGED results
    /\ UNCHANGED <<script, unsound, pending, offers, rulings>>

\* liveWork keeps the artifact off chain and anchors its hash only.
liveWork ==
    /\ pc.at = "deliver"
    /\ \/ DealFails
       \/ /\ \E artifact \in {"good", "bad"} : leg' = [leg EXCEPT !.delivered = artifact, !.stash = artifact]
          /\ To("evidence", pc.i) /\ UNCHANGED results
    /\ UNCHANGED <<script, unsound, pending, offers, charged, rulings>>

\* liveObserve: the artifact in hand has the anchored hash, and the service's
\* own verifier takes it.
liveObserve == leg.stash # "none" /\ leg.stash = leg.delivered /\ leg.stash = "good"

\* Evidence and bundle, the delivery read back and judged, the seller's bundle.
Fulfil ==
    /\ pc.at = "evidence"
    /\ \/ DealFails
       \/ \E bundle, mechanical \in BOOLEAN :
             /\ leg' = [leg EXCEPT !.completed = TRUE, !.bundle = bundle,
                                   !.verdict = IF Vendor \in Judged THEN "needs-evaluator"
                                               ELSE IF mechanical THEN "accept" ELSE "reject",
                                   !.accepted = liveObserve /\ mechanical /\ Vendor \notin Judged]
             /\ To("gate", pc.i) /\ UNCHANGED results
    /\ UNCHANGED <<script, unsound, pending, offers, charged, rulings>>

\* EvalBot is commissioned as a seller: its ruling is anchored, read back and
\* verified before it decides.
EvalGate ==
    /\ pc.at = "gate" /\ leg.verdict = "needs-evaluator" /\ rulings[Vendor] = "none"
    /\ \/ DealFails /\ UNCHANGED rulings
       \/ \E r \in {"accept", "reject", "forged"} :
             /\ rulings' = [rulings EXCEPT ![Vendor] = r]
             /\ leg' = [leg EXCEPT !.accepted = liveObserve /\ r = "accept", !.verdict = "ruled"]
             /\ UNCHANGED <<pc, results>>
    /\ UNCHANGED <<script, unsound, pending, offers, charged>>

DealReport ==
    /\ pc.at = "gate" /\ leg.verdict # "needs-evaluator"
    /\ Report(Vendor, IF liveObserve /\ leg.bundle /\ leg.paid /\ leg.accepted THEN "settled" ELSE "blocked", "tx")
    /\ leg' = NoLeg
    /\ NextDeal
    /\ UNCHANGED <<script, unsound, pending, offers, charged, rulings>>

BasketNext ==
    \/ Start \/ Reuse \/ Fund \/ waitNonceAdvance \/ establishWallet
    \/ PublishOne \/ Discover
    \/ x402Blocked \/ x402Attempt \/ x402Report
    \/ Award \/ SettleSeam \/ liveWork \/ Fulfil \/ EvalGate \/ DealReport

BasketOver == pc.at \in {"report", "aborted"}
----------------------------------------------------------------------------
(* Properties.                                                             *)

\* What a report calls settled was paid for, and a judged deal has EvalBot's
\* accepting ruling on the chain.
SettledIsEarned ==
    \A i \in 1 .. Len(results) : results[i].status = "settled" =>
        /\ charged[results[i].seller] > 0
        /\ results[i].tx = "tx"
        /\ results[i].seller \in Judged => rulings[results[i].seller] = "accept"

\* However many sellers fail, and wherever, l4 reports every one of them, once
\* and in order, and never reports a seller it has not come to.
EverySellerReported ==
    script = "l4" =>
        /\ Len(results) <= Len(Shops)
        /\ \A i \in 1 .. Len(results) : results[i].seller = Shops[i]
        /\ pc.at = "report" => Len(results) = Len(Shops)

\* Only the oracle's leg is tried again, so only it can be charged for more
\* than one delivery, and never more often than it is tried; nobody is paid
\* whose wallet, or whose buyer's wallet, could not be established.
PaidWithinAttempts ==
    /\ \A n \in Names : charged[n] <= IF n = Oracle /\ Script.x402 THEN Script.attempts ELSE 1
    /\ \A n \in Names : charged[n] > 0 => n \notin unsound
    /\ "buyer" \in unsound => \A n \in Names \ {Oracle} : charged[n] = 0
============================================================================
