-------------------------- MODULE Standard_proofs --------------------------
(***************************************************************************)
(* Proofs about the Standard market for any listings, jobs, prices,        *)
(* sellers, writes and numbers of restarts: the payment watcher and the    *)
(* buyer's rails (DacsMarket), the versioned listings (ListingShelf), the  *)
(* session runner (StandardRun), the live scripts (LiveBasket) and the     *)
(* wallet's write queue (Substrate).  One of them works and the others     *)
(* rest, so each part is proved about on its own variables, from its       *)
(* initial states and its state of rest.                                   *)
(***************************************************************************)
EXTENDS MCStandard, FiniteSetTheorems, TLAPS

(* What the composed specification says of one part.                       *)
LEMMA MarketPart == MCSpec => (MarketInit \/ RestMarket) /\ [][MarketNext]_marketVars
<1>1. MCInit => MarketInit \/ RestMarket
  BY Zenon DEF MCInit
<1>2. [MCNext]_mcVars => [MarketNext]_marketVars
  BY Zenon DEF MCNext, mcVars
<1> QED
  BY <1>1, <1>2, PTL DEF MCSpec

-----------------------------------------------------------------------------
(* The market: DacsMarket.                                                 *)

(* The points a purchase can be at, by the rail its mode stands for.       *)
Read == {"delivered", "accepted", "evaluator", "declined"}
Points(mode) ==
  {"awarded", "thrown"} \cup (IF mode = "thrown" THEN {} ELSE Read) \cup
  (IF mode = "x402" THEN {"x402", "challenged", "worked", "seam", "unsettled"}
   ELSE IF mode = "pay-dem-session" THEN {"pay-dem-session", "seller", "seam"}
   ELSE IF mode = "pay-dem-watcher" THEN {"pay-dem-watcher", "observed"} ELSE {})

Steps == {"awarded", "thrown", "x402", "challenged", "worked", "seam", "unsettled", "pay-dem-session",
          "seller", "pay-dem-watcher", "observed"} \cup Read
Modes == {"x402", "pay-dem-session", "pay-dem-watcher", "thrown"}
Outcomes == {"none", "good", "bad"}
Payments == {"none", "verified", "cancelled", "settled"}
MarketType ==
  /\ order \in [Orders -> Steps]
  /\ facilitator \in [Orders -> Payments]
  /\ delivery \in [Orders -> Outcomes]
  /\ works \in [Orders -> Nat]
Hands == [job : Orders \cup {"none"}, step : {"idle", "read", "deliver"}, n : Int]
Watchers == [handled : SUBSET Orders, hand : Hands, seen : Nat]
LedgerType ==
  /\ ledger \in Seq([job : Orders, amount : Int])
  /\ watcher \in Watchers
  /\ watcher.seen <= Len(ledger)

(* A transfer for the job that covers the listed price.                    *)
Covered(j) == \E i \in 1 .. Len(ledger) : ledger[i].job = j /\ ledger[i].amount >= ListingPrice

(* How far a purchase has come: the buyer's point o, the facilitator's     *)
(* answer f, the anchored delivery d and the number w of times the work    *)
(* was done fit the mode.                                                  *)
OnX402(o, f, d) ==
  /\ o \in {"awarded", "x402", "challenged"} => f = "none" /\ d = "none"
  /\ o = "worked" => f = "verified"
  /\ o \in {"seam"} \cup Read => f = "settled"
  /\ f \in {"verified", "settled"} => d # "none"
  /\ f = "cancelled" => d = "none"
OnRail(mode, o, f, d, w) ==
  /\ o \in Points(mode)
  /\ o \in {"accepted", "evaluator"} => d = "good"
  /\ mode = "x402" => OnX402(o, f, d)
  /\ mode # "x402" => f = "none"
  /\ mode = "pay-dem-watcher" => w = IF d = "none" THEN 0 ELSE 1

(* When the buyer's money must be on the ledger already.                   *)
Due(mode, o, d) ==
  \/ mode = "pay-dem-session" /\ o \in {"seller", "seam"} \cup Read
  \/ mode = "pay-dem-watcher" /\ d # "none"

OrderInv == \A j \in Orders : /\ OnRail(Mode(j), order[j], facilitator[j], delivery[j], works[j])
                              /\ Due(Mode(j), order[j], delivery[j]) => Covered(j)

(* The transfer in the watcher's hands is one of the ledger's; once it is  *)
(* to be delivered, the job is undelivered and the amount suffices.        *)
HandFine(h) ==
  /\ h.job \in Orders /\ Mode(h.job) = "pay-dem-watcher"
  /\ \E i \in 1 .. Len(ledger) : ledger[i].job = h.job /\ ledger[i].amount = h.n
  /\ h.step = "deliver" => delivery[h.job] = "none" /\ h.n >= ListingPrice
HandInv == watcher.hand.step # "idle" => HandFine(watcher.hand)

MarketInv == MarketType /\ LedgerType /\ OrderInv /\ HandInv

LEMMA ModeKinds == \A j \in Orders : Mode(j) \in Modes
BY MarketAssumption DEF Modes

LEMMA MarketStarts == MarketInit => MarketInv
<1> SUFFICES ASSUME MarketInit PROVE MarketInv
  OBVIOUS
<1>1. MarketType
  BY DEF MarketInit, MarketType, Outcomes, Payments, Steps, Read
<1>2. LedgerType
  <2>1. ledger \in Seq([job : Orders, amount : Int]) /\ Len(ledger) = 0
    BY DEF MarketInit
  <2>2. watcher = [handled |-> {}, hand |-> [job |-> "none", step |-> "idle", n |-> 0], seen |-> 0]
    BY DEF MarketInit, Idle
  <2> QED
    BY <2>1, <2>2 DEF LedgerType, Hands, Watchers
<1>3. OrderInv
  BY ModeKinds DEF MarketInit, OrderInv, OnRail, OnX402, Points, Due, Read, Modes
<1>4. HandInv
  BY DEF MarketInit, HandInv, Idle
<1> QED
  BY <1>1, <1>2, <1>3, <1>4 DEF MarketInv

LEMMA MarketRests == RestMarket => MarketInv
<1> SUFFICES ASSUME RestMarket PROVE MarketInv
  OBVIOUS
<1>1. MarketType
  BY DEF RestMarket, MarketType, Outcomes, Payments, Steps, Read
<1>2. LedgerType
  <2>1. ledger \in Seq([job : Orders, amount : Int]) /\ Len(ledger) = 0
    BY DEF RestMarket
  <2>2. watcher = [handled |-> {}, hand |-> [job |-> "none", step |-> "idle", n |-> 0], seen |-> 0]
    BY DEF RestMarket, Idle
  <2> QED
    BY <2>1, <2>2 DEF LedgerType, Hands, Watchers
<1>3. OrderInv
  BY ModeKinds DEF RestMarket, OrderInv, OnRail, OnX402, Points, Due, Read, Modes
<1>4. HandInv
  BY DEF RestMarket, HandInv, Idle
<1> QED
  BY <1>1, <1>2, <1>3, <1>4 DEF MarketInv

(* The ledger only grows, so a covered job stays covered.                  *)
LEMMA LedgerGrows ==
  ASSUME LedgerType, NEW j \in Orders, NEW a \in Int,
         ledger' = Append(ledger, [job |-> j, amount |-> a])
  PROVE  /\ ledger' \in Seq([job : Orders, amount : Int]) /\ Len(ledger') = Len(ledger) + 1
         /\ \A i \in 1 .. Len(ledger) : ledger'[i] = ledger[i]
         /\ ledger'[Len(ledger) + 1] = [job |-> j, amount |-> a]
         /\ \A k \in Orders : Covered(k) => Covered(k)'
         /\ a >= ListingPrice => Covered(j)'
<1> DEFINE e == [job |-> j, amount |-> a]
<1>1. e \in [job : Orders, amount : Int] /\ ledger \in Seq([job : Orders, amount : Int])
  BY DEF LedgerType
<1>2. /\ ledger' \in Seq([job : Orders, amount : Int]) /\ Len(ledger') = Len(ledger) + 1
      /\ \A i \in 1 .. Len(ledger) : ledger'[i] = ledger[i]
      /\ ledger'[Len(ledger) + 1] = e
  <2> HIDE DEF e
  <2> QED
    BY <1>1 DEF e
<1>3. Len(ledger) \in Nat
  BY <1>1
<1>4. \A k \in Orders : Covered(k) => Covered(k)'
  BY <1>2, <1>3 DEF Covered
<1>5. a >= ListingPrice => Covered(j)'
  <2> SUFFICES ASSUME a >= ListingPrice PROVE Covered(j)'
    OBVIOUS
  <2>1. ledger'[Len(ledger) + 1].job = j /\ ledger'[Len(ledger) + 1].amount = a
    BY <1>2
  <2>2. Len(ledger) + 1 \in 1 .. Len(ledger')
    BY <1>2, <1>3
  <2> QED
    BY <2>1, <2>2 DEF Covered
<1> QED
  BY <1>2, <1>4, <1>5

LEMMA CoverKept == ASSUME UNCHANGED ledger PROVE \A k \in Orders : Covered(k) => Covered(k)'
BY DEF Covered

(* A step of one purchase leaves the others where they are.                *)
LEMMA OneOrder ==
  ASSUME OrderInv, NEW j \in Orders,
         \A k \in Orders : k # j => /\ order'[k] = order[k] /\ facilitator'[k] = facilitator[k]
                                    /\ delivery'[k] = delivery[k] /\ works'[k] = works[k],
         \A k \in Orders : Covered(k) => Covered(k)',
         OnRail(Mode(j), order'[j], facilitator'[j], delivery'[j], works'[j]),
         Due(Mode(j), order'[j], delivery'[j]) => Covered(j)'
  PROVE  OrderInv'
<1> SUFFICES ASSUME NEW k \in Orders
             PROVE  /\ OnRail(Mode(k), order'[k], facilitator'[k], delivery'[k], works'[k])
                    /\ Due(Mode(k), order'[k], delivery'[k]) => Covered(k)'
  BY DEF OrderInv
<1>1. CASE k = j
  BY <1>1
<1>2. CASE k # j
  <2>1. OnRail(Mode(k), order[k], facilitator[k], delivery[k], works[k])
    BY DEF OrderInv
  <2>2. Due(Mode(k), order[k], delivery[k]) => Covered(k)
    BY DEF OrderInv
  <2> QED
    BY <1>2, <2>1, <2>2
<1> QED
  BY <1>1, <1>2

(* The hand keeps its transfer as long as the ledger grows and the job in  *)
(* hand is not delivered by anybody else.                                  *)
LEMMA HandKept ==
  ASSUME HandInv, UNCHANGED watcher, Len(ledger) \in Nat, Len(ledger') \in Nat, Len(ledger) <= Len(ledger'),
         \A i \in 1 .. Len(ledger) : ledger'[i] = ledger[i],
         \A k \in Orders : Mode(k) = "pay-dem-watcher" => delivery'[k] = delivery[k]
  PROVE  HandInv'
<1> SUFFICES ASSUME watcher.hand.step # "idle" PROVE HandFine(watcher.hand)'
  BY DEF HandInv
<1>1. HandFine(watcher.hand)
  BY DEF HandInv
<1> DEFINE h == watcher.hand
<1>2. /\ h.job \in Orders /\ Mode(h.job) = "pay-dem-watcher"
      /\ h.step = "deliver" => delivery[h.job] = "none" /\ h.n >= ListingPrice
  BY <1>1 DEF HandFine
<1>3. PICK i \in 1 .. Len(ledger) : ledger[i].job = h.job /\ ledger[i].amount = h.n
  BY <1>1 DEF HandFine
<1>4. i \in 1 .. Len(ledger') /\ ledger'[i] = ledger[i]
  OBVIOUS
<1>5. h' = h
  OBVIOUS
<1> QED
  BY <1>2, <1>3, <1>4, <1>5 DEF HandFine

(* A step of the buyer's execution or of the paywall.                      *)
Others(j) == \A k \in Orders : k # j => /\ order'[k] = order[k] /\ facilitator'[k] = facilitator[k]
                                        /\ delivery'[k] = delivery[k] /\ works'[k] = works[k]
LEMMA BuyerStep ==
  ASSUME MarketInv, MarketType', NEW j \in Orders, Others(j),
         UNCHANGED <<ledger, watcher>>,
         OnRail(Mode(j), order'[j], facilitator'[j], delivery'[j], works'[j]),
         Due(Mode(j), order'[j], delivery'[j]) => Covered(j),
         Mode(j) = "pay-dem-watcher" => delivery'[j] = delivery[j]
  PROVE  MarketInv'
<1>1. \A k \in Orders : Covered(k) => Covered(k)'
  BY CoverKept
<1>2. OrderInv'
  BY <1>1, OneOrder DEF MarketInv, Others
<1>3. LedgerType'
  BY DEF MarketInv, LedgerType
<1>4. \A k \in Orders : Mode(k) = "pay-dem-watcher" => delivery'[k] = delivery[k]
  BY DEF Others
<1>5. Len(ledger) \in Nat
  BY DEF MarketInv, LedgerType
<1>6. HandInv'
  BY <1>4, <1>5, HandKept DEF MarketInv
<1> QED
  BY <1>2, <1>3, <1>6 DEF MarketInv

LEMMA AtRail == ASSUME MarketInv, NEW j \in Orders
                PROVE  /\ Mode(j) \in Modes
                       /\ OnRail(Mode(j), order[j], facilitator[j], delivery[j], works[j])
                       /\ Due(Mode(j), order[j], delivery[j]) => Covered(j)
                       /\ order[j] \in Steps /\ facilitator[j] \in Payments
                       /\ delivery[j] \in Outcomes /\ works[j] \in Nat
BY ModeKinds DEF MarketInv, OrderInv, MarketType

(* Only the buyer's point moves.                                           *)
LEMMA PointMoves ==
  ASSUME MarketInv, NEW j \in Orders, NEW o \in Steps, order' = [order EXCEPT ![j] = o],
         UNCHANGED <<ledger, watcher, facilitator, delivery, works>>,
         OnRail(Mode(j), o, facilitator[j], delivery[j], works[j]),
         Due(Mode(j), o, delivery[j]) => Covered(j)
  PROVE  MarketInv'
<1>1. MarketType' /\ order'[j] = o
  BY DEF MarketInv, MarketType
<1>2. Others(j)
  BY DEF MarketInv, MarketType, Others
<1> QED
  BY <1>1, <1>2, BuyerStep

LEMMA ExecuteKeeps == ASSUME MarketInv, NEW j \in Orders, Execute(j) PROVE MarketInv'
<1>1. Mode(j) \in Steps /\ OnRail(Mode(j), Mode(j), facilitator[j], delivery[j], works[j])
  BY AtRail DEF Execute, OnRail, OnX402, Points, Steps, Modes, Read
<1>2. Due(Mode(j), Mode(j), delivery[j]) => Covered(j)
  BY AtRail DEF Due, Read, Execute
<1> QED
  BY <1>1, <1>2, PointMoves DEF Execute

LEMMA ChallengeKeeps == ASSUME MarketInv, NEW j \in Orders, X402Challenge(j) PROVE MarketInv'
<1>1. OnRail(Mode(j), "challenged", facilitator[j], delivery[j], works[j]) /\ "challenged" \in Steps
  BY AtRail DEF X402Challenge, OnRail, OnX402, Points, Steps, Modes, Read
<1>2. Due(Mode(j), "challenged", delivery[j]) => Covered(j)
  BY AtRail DEF Due, Read, X402Challenge
<1> QED
  BY <1>1, <1>2, PointMoves DEF X402Challenge

LEMMA ReadKeeps == ASSUME MarketInv, NEW j \in Orders, ReadDelivery(j) PROVE MarketInv'
<1> DEFINE o == IF order[j] = "unsettled" \/ delivery[j] = "none" THEN "thrown" ELSE "delivered"
<1>1. OnRail(Mode(j), o, facilitator[j], delivery[j], works[j]) /\ o \in Steps
  BY AtRail DEF ReadDelivery, OnRail, OnX402, Points, Steps, Modes, Read
<1>2. Due(Mode(j), o, delivery[j]) => Covered(j)
  BY AtRail DEF Due, Read, ReadDelivery, OnRail, Points
<1>3. order' = [order EXCEPT ![j] = o]
  BY DEF ReadDelivery
<1> QED
  BY <1>1, <1>2, <1>3, PointMoves DEF ReadDelivery

LEMMA AcceptKeeps == ASSUME MarketInv, NEW j \in Orders, Accept(j) PROVE MarketInv'
<1>1. PICK verdict \in {"accept", "reject", "needs-evaluator"} :
        order' = [order EXCEPT ![j] = IF verifyDelivery(j) /\ verdict = "accept" THEN "accepted"
                                      ELSE IF verifyDelivery(j) /\ verdict = "needs-evaluator" THEN "evaluator"
                                      ELSE "declined"]
  BY DEF Accept
<1> DEFINE o == IF verifyDelivery(j) /\ verdict = "accept" THEN "accepted"
                ELSE IF verifyDelivery(j) /\ verdict = "needs-evaluator" THEN "evaluator" ELSE "declined"
<1>2. OnRail(Mode(j), o, facilitator[j], delivery[j], works[j]) /\ o \in Steps
  BY AtRail DEF Accept, OnRail, OnX402, Points, Steps, Modes, Read, verifyDelivery
<1>3. Due(Mode(j), o, delivery[j]) => Covered(j)
  BY AtRail DEF Due, Read, Accept
<1> QED
  BY <1>1, <1>2, <1>3, PointMoves DEF Accept

(* The work of a purchase that is not the watcher's.                       *)
LEMMA DeliverTyped ==
  ASSUME MarketInv, NEW j \in Orders, NEW what \in Attested, Deliver(j, what)
  PROVE  /\ delivery' \in [Orders -> Outcomes] /\ works' \in [Orders -> Nat]
         /\ delivery'[j] = what /\ works'[j] = works[j] + 1
         /\ \A k \in Orders : k # j => delivery'[k] = delivery[k] /\ works'[k] = works[k]
<1>1. delivery \in [Orders -> Outcomes] /\ works \in [Orders -> Nat]
  BY DEF MarketInv, MarketType
<1>2. what \in Outcomes
  BY DEF Attested, Outcomes
<1> QED
  BY <1>1, <1>2 DEF Deliver

LEMMA X402WorkKeeps == ASSUME MarketInv, NEW j \in Orders, X402Work(j) PROVE MarketInv'
<1>1. order[j] = "challenged" /\ UNCHANGED <<ledger, watcher, watchRestarts>>
  BY DEF X402Work
<1>2. Mode(j) = "x402" /\ facilitator[j] = "none" /\ delivery[j] = "none"
  BY <1>1, AtRail DEF OnRail, OnX402, Points, Read, Modes
<1>3. order \in [Orders -> Steps] /\ facilitator \in [Orders -> Payments]
  BY DEF MarketInv, MarketType
<1>4. CASE \E what \in Attested : /\ Deliver(j, what)
                                  /\ facilitator' = [facilitator EXCEPT ![j] = "verified"]
                                  /\ order' = [order EXCEPT ![j] = "worked"]
  <2>1. PICK what \in Attested : /\ Deliver(j, what)
                                 /\ facilitator' = [facilitator EXCEPT ![j] = "verified"]
                                 /\ order' = [order EXCEPT ![j] = "worked"]
    BY <1>4
  <2>2. /\ delivery' \in [Orders -> Outcomes] /\ works' \in [Orders -> Nat] /\ delivery'[j] = what
        /\ \A k \in Orders : k # j => delivery'[k] = delivery[k] /\ works'[k] = works[k]
    BY <2>1, DeliverTyped
  <2>3. /\ order' \in [Orders -> Steps] /\ facilitator' \in [Orders -> Payments]
        /\ order'[j] = "worked" /\ facilitator'[j] = "verified"
        /\ \A k \in Orders : k # j => order'[k] = order[k] /\ facilitator'[k] = facilitator[k]
    BY <1>3, <2>1 DEF Steps, Payments
  <2>4. MarketType' /\ Others(j)
    BY <2>2, <2>3 DEF MarketType, Others
  <2>5. OnRail(Mode(j), order'[j], facilitator'[j], delivery'[j], works'[j])
    BY <1>2, <2>2, <2>3 DEF OnRail, OnX402, Points, Read, Attested
  <2>6. ~Due(Mode(j), order'[j], delivery'[j])
    BY <1>2 DEF Due
  <2> QED
    BY <1>1, <1>2, <2>4, <2>5, <2>6, BuyerStep
<1>5. CASE /\ facilitator' = [facilitator EXCEPT ![j] = "cancelled"]
           /\ order' = [order EXCEPT ![j] = "unsettled"] /\ UNCHANGED <<delivery, works>>
  <2>1. /\ order' \in [Orders -> Steps] /\ facilitator' \in [Orders -> Payments]
        /\ order'[j] = "unsettled" /\ facilitator'[j] = "cancelled"
        /\ \A k \in Orders : k # j => order'[k] = order[k] /\ facilitator'[k] = facilitator[k]
    BY <1>3, <1>5 DEF Steps, Payments
  <2>2. MarketType' /\ Others(j)
    BY <1>5, <2>1 DEF MarketType, MarketInv, Others
  <2>3. OnRail(Mode(j), order'[j], facilitator'[j], delivery'[j], works'[j])
    BY <1>2, <1>5, <2>1 DEF OnRail, OnX402, Points, Read
  <2>4. ~Due(Mode(j), order'[j], delivery'[j])
    BY <1>2 DEF Due
  <2> QED
    BY <1>1, <1>2, <2>2, <2>3, <2>4, BuyerStep
<1> QED
  BY <1>4, <1>5 DEF X402Work

LEMMA X402SettleKeeps == ASSUME MarketInv, NEW j \in Orders, X402Settle(j) PROVE MarketInv'
<1>1. order[j] = "worked" /\ UNCHANGED <<ledger, watcher, delivery, works>>
  BY DEF X402Settle
<1>2. Mode(j) = "x402" /\ facilitator[j] = "verified" /\ delivery[j] # "none"
  BY <1>1, AtRail DEF OnRail, OnX402, Points, Read, Modes
<1>3. order \in [Orders -> Steps] /\ facilitator \in [Orders -> Payments]
  BY DEF MarketInv, MarketType
<1>4. CASE facilitator' = [facilitator EXCEPT ![j] = "settled"] /\ order' = [order EXCEPT ![j] = "seam"]
  <2>1. /\ order' \in [Orders -> Steps] /\ facilitator' \in [Orders -> Payments]
        /\ order'[j] = "seam" /\ facilitator'[j] = "settled"
        /\ \A k \in Orders : k # j => order'[k] = order[k] /\ facilitator'[k] = facilitator[k]
    BY <1>3, <1>4 DEF Steps, Payments
  <2>2. MarketType' /\ Others(j)
    BY <1>1, <2>1 DEF MarketType, MarketInv, Others
  <2>3. OnRail(Mode(j), order'[j], facilitator'[j], delivery'[j], works'[j])
    BY <1>1, <1>2, <2>1 DEF OnRail, OnX402, Points, Read
  <2>4. ~Due(Mode(j), order'[j], delivery'[j])
    BY <1>2 DEF Due
  <2> QED
    BY <1>1, <1>2, <2>2, <2>3, <2>4, BuyerStep
<1>5. CASE order' = [order EXCEPT ![j] = "unsettled"] /\ UNCHANGED facilitator
  <2>1. OnRail(Mode(j), "unsettled", facilitator[j], delivery[j], works[j]) /\ "unsettled" \in Steps
    BY <1>2 DEF OnRail, OnX402, Points, Read, Steps
  <2>2. ~Due(Mode(j), "unsettled", delivery[j])
    BY <1>2 DEF Due
  <2> QED
    BY <1>1, <1>5, <2>1, <2>2, PointMoves
<1> QED
  BY <1>4, <1>5 DEF X402Settle

LEMMA PayDemDeliverKeeps == ASSUME MarketInv, NEW j \in Orders, PayDemDeliver(j) PROVE MarketInv'
<1>1. order[j] = "seller" /\ UNCHANGED <<ledger, facilitator, watcher>>
  BY DEF PayDemDeliver
<1>2. Mode(j) = "pay-dem-session" /\ facilitator[j] = "none"
  BY <1>1, AtRail DEF OnRail, OnX402, Points, Read, Modes
<1>3. Covered(j)
  BY <1>1, <1>2, AtRail DEF Due
<1>4. order \in [Orders -> Steps]
  BY DEF MarketInv, MarketType
<1>5. CASE \E what \in Attested : Deliver(j, what) /\ order' = [order EXCEPT ![j] = "seam"]
  <2>1. PICK what \in Attested : Deliver(j, what) /\ order' = [order EXCEPT ![j] = "seam"]
    BY <1>5
  <2>2. /\ delivery' \in [Orders -> Outcomes] /\ works' \in [Orders -> Nat]
        /\ \A k \in Orders : k # j => delivery'[k] = delivery[k] /\ works'[k] = works[k]
    BY <2>1, DeliverTyped
  <2>3. /\ order' \in [Orders -> Steps] /\ order'[j] = "seam"
        /\ \A k \in Orders : k # j => order'[k] = order[k]
    BY <1>4, <2>1 DEF Steps
  <2>4. MarketType' /\ Others(j)
    BY <1>1, <2>2, <2>3 DEF MarketType, MarketInv, Others
  <2>5. OnRail(Mode(j), order'[j], facilitator'[j], delivery'[j], works'[j])
    BY <1>1, <1>2, <2>2, <2>3 DEF OnRail, Points, Read
  <2> QED
    BY <1>1, <1>2, <1>3, <2>4, <2>5, BuyerStep
<1>6. CASE order' = [order EXCEPT ![j] = "thrown"] /\ UNCHANGED <<delivery, works>>
  <2>1. OnRail(Mode(j), "thrown", facilitator[j], delivery[j], works[j]) /\ "thrown" \in Steps
    BY <1>2 DEF OnRail, Points, Read, Steps
  <2> QED
    BY <1>1, <1>3, <1>6, <2>1, PointMoves
<1> QED
  BY <1>5, <1>6 DEF PayDemDeliver

(* A transfer: the ledger grows, and nobody but its payer moves.           *)
LEMMA TransferStep ==
  ASSUME MarketInv, NEW j \in Orders, NEW a \in Int, NEW o \in Steps,
         ledger' = Append(ledger, [job |-> j, amount |-> a]), order' = [order EXCEPT ![j] = o],
         UNCHANGED <<watcher, facilitator, delivery, works>>,
         OnRail(Mode(j), o, facilitator[j], delivery[j], works[j]),
         Due(Mode(j), o, delivery[j]) => Covered(j) \/ a >= ListingPrice
  PROVE  MarketInv'
<1>1. LedgerType
  BY DEF MarketInv
<1>2. /\ ledger' \in Seq([job : Orders, amount : Int]) /\ Len(ledger') = Len(ledger) + 1
      /\ \A i \in 1 .. Len(ledger) : ledger'[i] = ledger[i]
      /\ \A k \in Orders : Covered(k) => Covered(k)'
      /\ a >= ListingPrice => Covered(j)'
  BY <1>1, LedgerGrows
<1>3. Len(ledger) \in Nat
  BY <1>1 DEF LedgerType
<1>4. LedgerType'
  <2>1. watcher \in Watchers
        /\ watcher.seen <= Len(ledger)
    BY <1>1 DEF LedgerType
  <2>2. watcher.seen <= Len(ledger) + 1
    BY <1>3, <2>1 DEF Watchers
  <2> QED
    BY <1>2, <2>1, <2>2 DEF LedgerType
<1>5. /\ MarketType' /\ order'[j] = o
      /\ \A k \in Orders : k # j => /\ order'[k] = order[k] /\ facilitator'[k] = facilitator[k]
                                    /\ delivery'[k] = delivery[k] /\ works'[k] = works[k]
  BY DEF MarketInv, MarketType
<1>6. Due(Mode(j), order'[j], delivery'[j]) => Covered(j)'
  BY <1>2, <1>5
<1>7. OrderInv'
  BY <1>2, <1>5, <1>6, OneOrder DEF MarketInv
<1>8. HandInv'
  <2>1. Len(ledger') \in Nat /\ Len(ledger) <= Len(ledger')
    BY <1>2, <1>3
  <2> QED
    BY <1>2, <1>3, <2>1, HandKept DEF MarketInv
<1> QED
  BY <1>4, <1>5, <1>7, <1>8 DEF MarketInv

LEMMA PayDemSessionKeeps == ASSUME MarketInv, NEW j \in Orders, PayDemSession(j) PROVE MarketInv'
<1>1. order[j] = "pay-dem-session"
  BY DEF PayDemSession
<1>2. Mode(j) = "pay-dem-session" /\ facilitator[j] = "none"
  BY <1>1, AtRail DEF OnRail, Points, Read, Modes
<1>3. /\ ledger' = Append(ledger, [job |-> j, amount |-> ListingPrice])
      /\ order' = [order EXCEPT ![j] = "seller"]
      /\ UNCHANGED <<watcher, facilitator, delivery, works>>
  BY <1>2 DEF PayDemSession, Transfer
<1>4. OnRail(Mode(j), "seller", facilitator[j], delivery[j], works[j]) /\ "seller" \in Steps
  BY <1>2 DEF OnRail, Points, Read, Steps
<1>5. ListingPrice \in Int /\ ListingPrice >= ListingPrice
  BY MarketAssumption
<1> QED
  BY <1>3, <1>4, <1>5, TransferStep

LEMMA OpenAndPayKeeps == ASSUME MarketInv, NEW j \in Orders, OpenAndPay(j) PROVE MarketInv'
<1>1. PICK a \in Amounts : order[j] = "pay-dem-watcher" /\ Transfer(j, a)
  BY DEF OpenAndPay
<1>2. Mode(j) = "pay-dem-watcher" /\ facilitator[j] = "none"
  BY <1>1, AtRail DEF OnRail, Points, Read, Modes
<1>3. /\ ledger' = Append(ledger, [job |-> j, amount |-> a])
      /\ order' = [order EXCEPT ![j] = "observed"]
      /\ UNCHANGED <<watcher, facilitator, delivery, works>>
  BY <1>1, <1>2 DEF Transfer
<1>4. OnRail(Mode(j), "observed", facilitator[j], delivery[j], works[j]) /\ "observed" \in Steps
  BY <1>2, AtRail DEF OnRail, Points, Read, Steps
<1>5. Due(Mode(j), "observed", delivery[j]) => Covered(j)
  BY <1>2, AtRail DEF Due
<1>6. a \in Int
  BY MarketAssumption
<1> QED
  BY <1>3, <1>4, <1>5, <1>6, TransferStep

LEMMA StrayTransferKeeps == ASSUME MarketInv, NEW j \in Orders, StrayTransfer(j) PROVE MarketInv'
<1>1. /\ ledger' = Append(ledger, [job |-> j, amount |-> ListingPrice])
      /\ order[j] \in Steps /\ order' = [order EXCEPT ![j] = order[j]]
      /\ UNCHANGED <<watcher, facilitator, delivery, works>>
  BY DEF StrayTransfer, MarketInv, MarketType
<1>2. /\ OnRail(Mode(j), order[j], facilitator[j], delivery[j], works[j])
      /\ Due(Mode(j), order[j], delivery[j]) => Covered(j)
  BY AtRail
<1>3. ListingPrice \in Int
  BY MarketAssumption
<1> QED
  BY <1>1, <1>2, <1>3, TransferStep

(* The watcher's own steps.                                                *)
LEMMA WatcherStep ==
  ASSUME MarketInv, UNCHANGED <<order, ledger, facilitator, delivery, works>>,
         watcher' \in Watchers,
         watcher'.seen <= Len(ledger),
         watcher'.hand.step # "idle" => HandFine(watcher'.hand)
  PROVE  MarketInv'
<1>1. MarketType'
  BY DEF MarketInv, MarketType
<1>2. LedgerType'
  BY DEF MarketInv, LedgerType
<1>3. \A k \in Orders : Covered(k)' <=> Covered(k)
  BY DEF Covered
<1>4. OrderInv'
  <2> SUFFICES ASSUME NEW k \in Orders
               PROVE  /\ OnRail(Mode(k), order[k], facilitator[k], delivery[k], works[k])
                      /\ Due(Mode(k), order[k], delivery[k]) => Covered(k)'
    BY DEF OrderInv
  <2> QED
    BY <1>3, AtRail
<1>5. HandInv'
  <2> SUFFICES ASSUME watcher'.hand.step # "idle" PROVE HandFine(watcher.hand)'
    BY DEF HandInv
  <2>1. HandFine(watcher'.hand)
    OBVIOUS
  <2> QED
    BY <2>1 DEF HandFine
<1> QED
  BY <1>1, <1>2, <1>4, <1>5 DEF MarketInv

LEMMA WatcherTyped ==
  ASSUME MarketInv
  PROVE  /\ watcher \in Watchers
         /\ watcher.seen <= Len(ledger) /\ Len(ledger) \in Nat
BY DEF MarketInv, LedgerType

LEMMA IdleHand == Idle \in Hands
BY DEF Idle, Hands

LEMMA WatchTakeKeeps == ASSUME MarketInv, WatchTake PROVE MarketInv'
<1> DEFINE t == ledger[watcher.seen + 1]
           watched == Mode(t.job) = "pay-dem-watcher"
           hand == IF watched /\ t.job \notin watcher.handled
                   THEN [job |-> t.job, step |-> "read", n |-> t.amount] ELSE Idle
<1>1. /\ watcher' = [watcher EXCEPT !.seen = @ + 1, !.hand = hand]
      /\ watcher.seen < Len(ledger) /\ UNCHANGED <<order, ledger, facilitator, delivery, works>>
  BY DEF WatchTake
<1>2. watcher.seen + 1 \in 1 .. Len(ledger)
  BY <1>1, WatcherTyped DEF Watchers
<1>3. t \in [job : Orders, amount : Int]
  <2>1. ledger \in Seq([job : Orders, amount : Int])
    BY DEF MarketInv, LedgerType
  <2> DEFINE k == watcher.seen + 1
             R == [job : Orders, amount : Int]
  <2>2. k \in 1 .. Len(ledger) /\ ledger \in Seq(R)
    BY <1>2, <2>1
  <2>3. ledger[k] \in R
    <3> HIDE DEF k, R
    <3> QED
      BY <2>2
  <2> QED
    BY <2>3
<1>4. hand \in Hands
  BY <1>3 DEF Idle, Hands
<1>5. hand.step # "idle" => HandFine(hand)
  <2> SUFFICES ASSUME hand.step # "idle" PROVE HandFine(hand)
    OBVIOUS
  <2>1. watched /\ hand = [job |-> t.job, step |-> "read", n |-> t.amount]
    BY DEF Idle
  <2> QED
    BY <1>2, <1>3, <2>1 DEF HandFine
<1> HIDE DEF hand
<1>6. /\ watcher'.hand = hand /\ watcher'.seen = watcher.seen + 1
      /\ watcher' \in Watchers
  <2>1. watcher \in Watchers /\ hand \in Hands
    BY <1>4, WatcherTyped
  <2>2. watcher' = [watcher EXCEPT !.seen = @ + 1, !.hand = hand]
    BY <1>1
  <2>3. watcher' = [handled |-> watcher.handled, hand |-> hand, seen |-> watcher.seen + 1]
    BY <2>1, <2>2 DEF Watchers
  <2>4. watcher.handled \in SUBSET Orders /\ watcher.seen + 1 \in Nat
    BY <2>1 DEF Watchers
  <2> QED
    BY <2>1, <2>3, <2>4 DEF Watchers
<1>7. watcher'.seen <= Len(ledger)
  BY <1>2, <1>6
<1> QED
  BY <1>1, <1>5, <1>6, <1>7, WatcherStep

LEMMA WatchReadKeeps == ASSUME MarketInv, WatchRead PROVE MarketInv'
<1> DEFINE h == watcher.hand
<1>1. /\ h.step = "read" /\ UNCHANGED <<order, ledger, facilitator, delivery, works>>
      /\ \/ watcher' = [watcher EXCEPT !.handled = @ \cup {h.job}, !.hand = Idle]
         \/ watcher' = [watcher EXCEPT !.hand = Idle]
         \/ /\ watcher' = [watcher EXCEPT !.hand.step = "deliver"]
            /\ delivery[h.job] = "none" /\ ~(h.n < ListingPrice)
  BY DEF WatchRead
<1>2. HandFine(h)
  BY <1>1 DEF MarketInv, HandInv
<1>3. h.job \in Orders
  BY <1>2 DEF HandFine
<1>4. CASE watcher' = [watcher EXCEPT !.handled = @ \cup {h.job}, !.hand = Idle]
  <2>1. /\ watcher'.hand = Idle /\ watcher'.seen = watcher.seen
        /\ watcher' \in Watchers
    BY <1>3, <1>4, WatcherTyped, IdleHand DEF Watchers
  <2>2. watcher'.hand.step = "idle" /\ watcher'.seen <= Len(ledger)
    BY <2>1, WatcherTyped DEF Idle
  <2> QED
    BY <1>1, <2>1, <2>2, WatcherStep
<1>5. CASE watcher' = [watcher EXCEPT !.hand = Idle]
  <2>1. /\ watcher'.hand = Idle /\ watcher'.seen = watcher.seen
        /\ watcher' \in Watchers
    BY <1>5, WatcherTyped, IdleHand DEF Watchers
  <2>2. watcher'.hand.step = "idle" /\ watcher'.seen <= Len(ledger)
    BY <2>1, WatcherTyped DEF Idle
  <2> QED
    BY <1>1, <2>1, <2>2, WatcherStep
<1>6. CASE /\ watcher' = [watcher EXCEPT !.hand.step = "deliver"]
           /\ delivery[h.job] = "none" /\ ~(h.n < ListingPrice)
  <2>1. h.n \in Int /\ ListingPrice \in Int
    BY WatcherTyped, MarketAssumption DEF Watchers, Hands
  <2>2. watcher'.hand = [h EXCEPT !.step = "deliver"]
    BY <1>6, WatcherTyped DEF Watchers
  <2>3. /\ watcher'.hand.step = "deliver" /\ watcher'.hand.job = h.job /\ watcher'.hand.n = h.n
        /\ watcher'.seen <= Len(ledger)
        /\ watcher' \in Watchers
    BY <1>6, <2>2, WatcherTyped DEF Watchers, Hands
  <2>4. h.n >= ListingPrice
    BY <1>6, <2>1
  <2>5. HandFine(watcher'.hand)
    BY <1>2, <1>6, <2>3, <2>4 DEF HandFine
  <2> QED
    BY <1>1, <2>3, <2>5, WatcherStep
<1> QED
  BY <1>1, <1>4, <1>5, <1>6

LEMMA WatchDeliverKeeps == ASSUME MarketInv, WatchDeliver PROVE MarketInv'
<1> DEFINE h == watcher.hand
<1>1. h.step = "deliver" /\ UNCHANGED <<order, ledger, facilitator>>
  BY DEF WatchDeliver
<1>2. /\ h.job \in Orders /\ Mode(h.job) = "pay-dem-watcher"
      /\ \E i \in 1 .. Len(ledger) : ledger[i].job = h.job /\ ledger[i].amount = h.n
      /\ delivery[h.job] = "none" /\ h.n >= ListingPrice
  BY <1>1 DEF MarketInv, HandInv, HandFine
<1>3. CASE watcher' = [watcher EXCEPT !.hand = Idle] /\ UNCHANGED <<delivery, works>>
  <2>1. /\ watcher'.hand = Idle /\ watcher'.seen = watcher.seen
        /\ watcher' \in Watchers
    BY <1>3, WatcherTyped, IdleHand DEF Watchers
  <2>2. watcher'.hand.step = "idle" /\ watcher'.seen <= Len(ledger)
    BY <2>1, WatcherTyped DEF Idle
  <2> QED
    BY <1>1, <1>3, <2>1, <2>2, WatcherStep
<1>4. CASE /\ \E what \in Attested : Deliver(h.job, what)
           /\ watcher' = [watcher EXCEPT !.handled = @ \cup {h.job}, !.hand = Idle]
  <2> DEFINE j == h.job
  <2>1. PICK what \in Attested : Deliver(j, what)
    BY <1>4
  <2>2. /\ delivery' \in [Orders -> Outcomes] /\ works' \in [Orders -> Nat]
        /\ delivery'[j] = what /\ works'[j] = works[j] + 1
        /\ \A k \in Orders : k # j => delivery'[k] = delivery[k] /\ works'[k] = works[k]
    BY <1>2, <2>1, DeliverTyped
  <2>3. MarketType'
    BY <1>1, <2>2 DEF MarketInv, MarketType
  <2>4. watcher'.hand = Idle /\ watcher'.seen = watcher.seen /\ watcher' \in Watchers
    BY <1>2, <1>4, WatcherTyped, IdleHand DEF Watchers
  <2>5. LedgerType'
    BY <1>1, <2>4 DEF MarketInv, LedgerType
  <2>6. HandInv'
    BY <2>4 DEF HandInv, Idle
  <2>7. \A k \in Orders : Covered(k) => Covered(k)'
    BY <1>1, CoverKept
  <2>8. Covered(j)
    BY <1>2 DEF Covered
  <2>9. OnRail(Mode(j), order'[j], facilitator'[j], delivery'[j], works'[j])
    <3>1. OnRail(Mode(j), order[j], facilitator[j], delivery[j], works[j]) /\ works[j] = 0
      BY <1>2, AtRail DEF OnRail
    <3>2. delivery'[j] # "none" /\ works'[j] = 1
      BY <2>2, <3>1 DEF Attested
    <3>3. order[j] \notin {"accepted", "evaluator"}
      BY <1>2, <3>1 DEF OnRail
    <3> QED
      BY <1>1, <1>2, <3>1, <3>2, <3>3 DEF OnRail
  <2>10. OrderInv'
    BY <1>1, <1>2, <2>2, <2>7, <2>8, <2>9, OneOrder DEF MarketInv
  <2> QED
    BY <2>3, <2>5, <2>6, <2>10 DEF MarketInv
<1> QED
  BY <1>3, <1>4 DEF WatchDeliver

LEMMA WatchRestartKeeps == ASSUME MarketInv, WatchRestart PROVE MarketInv'
<1>1. /\ watcher' = [handled |-> {}, hand |-> Idle, seen |-> 0]
      /\ UNCHANGED <<order, ledger, facilitator, delivery, works>>
  BY DEF WatchRestart
<1>2. watcher' \in Watchers /\ watcher'.hand.step = "idle" /\ watcher'.seen <= Len(ledger)
  BY <1>1, IdleHand, WatcherTyped DEF Watchers, Idle
<1> QED
  BY <1>1, <1>2, WatcherStep

LEMMA MarketKeeps == MarketInv /\ [MarketNext]_marketVars => MarketInv'
<1> SUFFICES ASSUME MarketInv, [MarketNext]_marketVars PROVE MarketInv'
  OBVIOUS
<1>1. CASE \E j \in Orders : \/ Execute(j) \/ X402Challenge(j) \/ X402Work(j) \/ X402Settle(j)
                             \/ PayDemSession(j) \/ PayDemDeliver(j) \/ OpenAndPay(j) \/ StrayTransfer(j)
                             \/ ReadDelivery(j) \/ Accept(j)
  BY <1>1, ExecuteKeeps, ChallengeKeeps, X402WorkKeeps, X402SettleKeeps, PayDemSessionKeeps,
     PayDemDeliverKeeps, OpenAndPayKeeps, StrayTransferKeeps, ReadKeeps, AcceptKeeps
<1>2. CASE WatchTake \/ WatchRead \/ WatchDeliver \/ WatchRestart
  BY <1>2, WatchTakeKeeps, WatchReadKeeps, WatchDeliverKeeps, WatchRestartKeeps
<1>3. CASE UNCHANGED marketVars
  BY <1>3 DEF marketVars, MarketInv, MarketType, LedgerType, OrderInv, HandInv, HandFine, Covered
<1> QED
  BY <1>1, <1>2, <1>3 DEF MarketNext

LEMMA MarketInvariant == MCSpec => []MarketInv
<1>1. MarketInit \/ RestMarket => MarketInv
  BY MarketStarts, MarketRests
<1> QED
  BY <1>1, MarketPart, MarketKeeps, PTL

(* What the invariant says of the run's properties.                        *)
LEMMA ServedOnce == MarketInv => WatcherServesOnce
<1> SUFFICES ASSUME MarketInv, NEW j \in Orders, Mode(j) = "pay-dem-watcher"
             PROVE  /\ works[j] <= 1
                    /\ works[j] = 1 => Covered(j)
  BY DEF WatcherServesOnce, Covered
<1>1. works[j] = IF delivery[j] = "none" THEN 0 ELSE 1
  BY AtRail DEF OnRail
<1> QED
  BY <1>1, AtRail DEF Due

LEMMA PaidPurchases == MarketInv => AcceptedIsPaidAndVerified /\ SettleAfterWork
<1> SUFFICES ASSUME MarketInv PROVE AcceptedIsPaidAndVerified /\ SettleAfterWork
  OBVIOUS
<1>1. ASSUME NEW j \in Orders, order[j] \in {"accepted", "evaluator"}
      PROVE  /\ delivery[j] = "good"
             /\ IF Mode(j) = "x402" THEN facilitator[j] = "settled" ELSE Covered(j)
  <2>1. delivery[j] = "good" /\ Mode(j) # "thrown"
    BY <1>1, AtRail DEF OnRail, Points
  <2>2. Mode(j) = "x402" => facilitator[j] = "settled"
    BY <1>1, AtRail DEF OnRail, OnX402, Read
  <2>3. Mode(j) # "x402" => Covered(j)
    BY <1>1, <2>1, AtRail DEF Due, Read, Modes
  <2> QED
    BY <2>1, <2>2, <2>3
<1>2. ASSUME NEW j \in Orders
      PROVE  /\ facilitator[j] = "settled" => delivery[j] # "none"
             /\ facilitator[j] = "cancelled" => delivery[j] = "none"
  BY AtRail DEF OnRail, OnX402
<1> QED
  BY <1>1, <1>2 DEF AcceptedIsPaidAndVerified, SettleAfterWork, Covered

(* Whatever transfers arrive, in whatever order and however often the      *)
(* watcher restarts and hears of them again, it does a job at most once,   *)
(* and only for a transfer that covers the listed price.                   *)
THEOREM WatcherSafety == MCSpec => []WatcherServesOnce
BY MarketInvariant, ServedOnce, PTL

-----------------------------------------------------------------------------
(* The versioned listings: ListingShelf.                                   *)

LEMMA ShelfPart == MCSpec => (ShelfInit \/ RestShelf) /\ [][ShelfNext]_shelfVars
<1>1. MCInit => ShelfInit \/ RestShelf
  BY Zenon DEF MCInit
<1>2. [MCNext]_mcVars => [ShelfNext]_shelfVars
  BY Zenon DEF MCNext, mcVars
<1> QED
  BY <1>1, <1>2, PTL DEF MCSpec

(* A listing is written only after its slot was read empty: nobody else    *)
(* writes between the read and the anchor.                                 *)
OnShelf(f) == f = [v \in Versions |-> f[v]]
ShelfInv ==
  /\ OnShelf(slots) /\ OnShelf(autos) /\ OnShelf(markers)
  /\ publisher = [at |-> publisher.at, spec |-> publisher.spec, tries |-> publisher.tries]
  /\ publisher.at = "anchor" => slots[Slot] = None

LEMMA ShelfStarts == ShelfInit \/ RestShelf => ShelfInv
BY DEF ShelfInit, RestShelf, IdleShelf, ShelfInv, OnShelf

Immutable == \A v \in Versions : /\ slots[v] # None => slots'[v] = slots[v]
                                 /\ autos[v] # None => autos'[v] = autos[v]
                                 /\ markers[v] # None => markers'[v] = markers[v]

(* A step of the publisher that writes at most one slot or commitment,     *)
(* each only when it is empty.                                             *)
Gone(to) == /\ publisher' = [at |-> publisher'.at, spec |-> publisher'.spec, tries |-> publisher'.tries]
            /\ publisher'.at = to

LEMMA RetryLeaves == ASSUME ShelfInv, Retry PROVE Gone("read") \/ Gone("idle")
<1>1. CASE publisher' = [publisher EXCEPT !.at = "read", !.tries = @ + 1]
  <2>1. publisher' = [at |-> "read", spec |-> publisher.spec, tries |-> publisher.tries + 1]
    BY <1>1 DEF ShelfInv
  <2> QED
    BY <2>1 DEF Gone
<1>2. CASE publisher' = IdleShelf
  BY <1>2 DEF IdleShelf, Gone
<1> QED
  BY <1>1, <1>2 DEF Retry

LEMMA ProceedGoes == ASSUME ShelfInv, NEW to, Proceed(to)
                     PROVE  Gone(to) /\ publisher'.spec = publisher.spec
BY DEF Proceed, ShelfInv, Gone

LEMMA ShelfKeeps == ASSUME ShelfInv, [ShelfNext]_shelfVars PROVE ShelfInv' /\ Immutable
<1> USE DEF ShelfInv
<1>1. CASE Republish
  <2>1. CASE \E spec \in ListingSpecs : publisher' = [at |-> "read", spec |-> spec, tries |-> 1]
    BY <1>1, <2>1 DEF Republish, Immutable, OnShelf
  <2>2. CASE UNCHANGED publisher
    BY <1>1, <2>2 DEF Republish, Immutable, OnShelf, Slot, Sought
  <2> QED
    BY <1>1, <2>1, <2>2 DEF Republish
<1>2. CASE ReadSlot
  <2>1. UNCHANGED <<slots, autos, markers>>
    BY <1>2 DEF ReadSlot
  <2>2. Proceed("auto") \/ Retry \/ (slots[Slot] = None /\ Proceed("anchor"))
    BY <1>2 DEF ReadSlot
  <2>3. /\ publisher' = [at |-> publisher'.at, spec |-> publisher'.spec, tries |-> publisher'.tries]
        /\ publisher'.at = "anchor" => slots[Slot] = None /\ publisher'.spec = publisher.spec
    BY <2>2, RetryLeaves, ProceedGoes DEF Gone
  <2> QED
    BY <2>1, <2>3 DEF Immutable, OnShelf, Slot, Sought
<1>3. CASE AnchorListing
  <2>1. publisher.at = "anchor" /\ slots[Slot] = None /\ UNCHANGED <<autos, markers>>
    BY <1>3 DEF AnchorListing
  <2>2. /\ publisher' = [at |-> publisher'.at, spec |-> publisher'.spec, tries |-> publisher'.tries]
        /\ publisher'.at # "anchor"
    BY <1>3, RetryLeaves, ProceedGoes DEF Gone, AnchorListing
  <2>3. slots' = [slots EXCEPT ![Slot] = Fresh] \/ slots' = slots
    BY <1>3 DEF AnchorListing
  <2>4. OnShelf(slots') /\ \A v \in Versions : slots[v] # None => slots'[v] = slots[v]
    BY <2>1, <2>3 DEF OnShelf
  <2> QED
    BY <2>1, <2>2, <2>4 DEF Immutable, OnShelf
<1>4. CASE withAutoAccept
  <2>1. UNCHANGED <<slots, markers>>
    BY <1>4 DEF withAutoAccept
  <2>2. /\ publisher' = [at |-> publisher'.at, spec |-> publisher'.spec, tries |-> publisher'.tries]
        /\ publisher'.at # "anchor"
    BY <1>4, RetryLeaves, ProceedGoes DEF Gone, withAutoAccept
  <2>3. autos' = autos \/ \E c : autos[Slot] = None /\ autos' = [autos EXCEPT ![Slot] = c]
    BY <1>4 DEF withAutoAccept
  <2>4. OnShelf(autos') /\ \A v \in Versions : autos[v] # None => autos'[v] = autos[v]
    BY <2>3 DEF OnShelf
  <2> QED
    BY <2>1, <2>2, <2>4 DEF Immutable, OnShelf
<1>5. CASE ReadBack
  BY <1>5 DEF ReadBack, Immutable, OnShelf, IdleShelf
<1>6. ASSUME NEW v \in Versions, Revoke(v) PROVE ShelfInv' /\ Immutable
  <2>1. /\ markers[v] = None /\ UNCHANGED <<slots, autos, publisher>>
        /\ \E c : markers' = [markers EXCEPT ![v] = c]
    BY <1>6 DEF Revoke
  <2>2. OnShelf(markers') /\ \A w \in Versions : markers[w] # None => markers'[w] = markers[w]
    BY <2>1 DEF OnShelf
  <2> QED
    BY <2>1, <2>2 DEF Immutable, OnShelf, Slot, Sought
<1>7. CASE ShelfTick
  BY <1>7 DEF ShelfTick, Immutable, OnShelf, Slot, Sought
<1>8. CASE UNCHANGED shelfVars
  BY <1>8 DEF shelfVars, Immutable, OnShelf, Slot, Sought
<1> QED
  BY <1>1, <1>2, <1>3, <1>4, <1>5, <1>6, <1>7, <1>8 DEF ShelfNext

(* A listing version, its auto-accept commitment and its revocation never  *)
(* change once anchored, whatever specs are published again, however often *)
(* an attempt fails before or after its slot was written.                  *)
THEOREM ShelfSafety == MCSpec => VersionIsImmutable
<1>1. ShelfInv /\ [ShelfNext]_shelfVars => ShelfInv' /\ [Immutable]_shelfVars
  BY ShelfKeeps
<1>2. MCSpec => [][Immutable]_shelfVars
  BY <1>1, ShelfStarts, ShelfPart, PTL
<1> QED
  BY <1>2 DEF VersionIsImmutable, Immutable

(* A listing on the shelf is one of the seller's, verified before it was   *)
(* written; its commitment and its revocation bind exactly it.             *)
Genuine(l) == /\ \E spec \in ListingSpecs : l = signListing(spec.body, Seller)
              /\ verifyHash(l.sig, "listing", listingHash(l)) /\ l.sig.by = l.identity.presentedBy
Shelved(v) ==
  /\ slots[v] # None => Genuine(slots[v])
  /\ autos[v] # None => slots[v] # None /\ verifyAutoAcceptCommitment(autos[v], slots[v], 0)
  /\ markers[v] # None => slots[v] # None /\ verifyListingRevocation(markers[v], slots[v])

(* What a buyer needs is on the shelf, as far as the publisher has come.   *)
Complete(v) == slots[v] # None /\ (slots[v].auto => autos[v] # None)
Publishing ==
  /\ publisher.at # "idle" => Sought \in ListingSpecs
  /\ publisher.at = "anchor" => Genuine(Fresh)
  /\ publisher.at = "auto" => slots[Slot] # None
  /\ publisher.at = "readback" => Complete(Slot)
Rows == [version : Versions \cup {0}, status : {"updated", "blocked"}]
RowsInv ==
  /\ rows \in Seq(Rows)
  /\ \A i \in 1 .. Len(rows) : rows[i].status = "updated" => rows[i].version \in Versions /\ Complete(rows[i].version)
RecordsInv == (\A v \in Versions : Shelved(v)) /\ Publishing /\ RowsInv

LEMMA SignedBySeller == ASSUME NEW l, Genuine(l) PROVE l.sig.by = Seller /\ Seller # Nobody /\ l.identity.presentedBy = Seller
<1>1. PICK spec \in ListingSpecs : l = signListing(spec.body, Seller)
  BY DEF Genuine
<1>2. l.sig = signHash(Seller, "listing", spec.body)
  BY <1>1 DEF signListing
<1>3. l.sig.by = Seller
  BY <1>2 DEF signHash
<1> QED
  BY <1>3 DEF Genuine, verifyHash

LEMMA CommitmentBinds ==
  ASSUME NEW l, NEW until \in Nat, Genuine(l), l.auto
  PROVE  verifyAutoAcceptCommitment(createAutoAcceptCommitment(l, Seller, until), l, 0)
<1> DEFINE c == createAutoAcceptCommitment(l, Seller, until)
<1>1. l.sig.by = Seller /\ Seller # Nobody /\ l.identity.presentedBy = Seller
  BY SignedBySeller
<1>2. standardHash(c, {"sig"}) = [listing |-> listingRef(l), until |-> until]
  BY DEF standardHash, createAutoAcceptCommitment
<1>3. c.sig = [by |-> Seller, sep |-> "template", over |-> [listing |-> listingRef(l), until |-> until]]
  BY DEF createAutoAcceptCommitment, signHash
<1>4. c.until = until /\ c.listing = listingRef(l)
  BY DEF createAutoAcceptCommitment
<1> HIDE DEF c
<1> QED
  BY <1>1, <1>2, <1>3, <1>4 DEF verifyAutoAcceptCommitment, verifyHash, c

LEMMA RevocationBinds == ASSUME NEW l, Genuine(l) PROVE verifyListingRevocation(createListingRevocation(l, Seller), l)
<1> DEFINE m == createListingRevocation(l, Seller)
           body == [id |-> l.id, version |-> l.version, content |-> listingHash(l)]
<1>1. l.sig.by = Seller /\ Seller # Nobody
  BY SignedBySeller
<1>2. standardHash(m, {"sig"}) = body
  BY DEF standardHash, createListingRevocation
<1>3. m.sig = [by |-> Seller, sep |-> "revocation", over |-> body]
  BY DEF createListingRevocation, signHash
<1>4. m.id = l.id /\ m.version = l.version /\ m.content = listingHash(l)
  BY DEF createListingRevocation
<1> HIDE DEF m
<1> QED
  BY <1>1, <1>2, <1>3, <1>4 DEF verifyListingRevocation, verifyHash, m

LEMMA RowsGrow ==
  ASSUME RowsInv, Immutable, NEW row \in Rows, rows' = rows \/ rows' = Append(rows, row),
         row.status = "updated" => row.version \in Versions /\ Complete(row.version)'
  PROVE  RowsInv'
<1>1. rows \in Seq(Rows)
  BY DEF RowsInv
<1>2. /\ rows' \in Seq(Rows)
      /\ \A i \in 1 .. Len(rows') : (i \in 1 .. Len(rows) /\ rows'[i] = rows[i]) \/ rows'[i] = row
  BY <1>1
<1>3. ASSUME NEW i \in 1 .. Len(rows'), rows'[i].status = "updated"
      PROVE  rows'[i].version \in Versions /\ Complete(rows[i].version)'
  <2>1. CASE rows'[i] = row
    BY <1>3, <2>1
  <2>2. CASE i \in 1 .. Len(rows) /\ rows'[i] = rows[i]
    <3> DEFINE v == rows[i].version
    <3>1. v \in Versions /\ Complete(v)
      BY <1>3, <2>2 DEF RowsInv
    <3>2. Complete(v)'
      <4>1. slots[v] # None /\ slots'[v] = slots[v] /\ (autos[v] # None => autos'[v] = autos[v])
        BY <3>1 DEF Complete, Immutable
      <4>2. rows'[i].version = v
        BY <2>2
      <4>3. slots'[v] # None /\ (slots'[v].auto => autos'[v] # None)
        BY <3>1, <4>1 DEF Complete
      <4> QED
        BY <4>2, <4>3 DEF Complete
    <3> QED
      BY <2>2, <3>1, <3>2
  <2> QED
    BY <1>2, <2>1, <2>2
<1> QED
  BY <1>2, <1>3 DEF RowsInv

LEMMA ShelvedStays ==
  ASSUME \A v \in Versions : Shelved(v), UNCHANGED <<slots, autos, markers>> PROVE \A v \in Versions : Shelved(v)'
BY DEF Shelved

(* A failed attempt starts over, or is reported.                           *)
LEMMA RetryRecords ==
  ASSUME ShelfInv, Immutable, RecordsInv, Retry, Sought \in ListingSpecs
  PROVE  Publishing' /\ RowsInv'
<1> DEFINE row == [version |-> Slot, status |-> "blocked"]
<1>1. Slot \in Versions /\ row \in Rows
  BY DEF Slot, Versions, Rows
<1>2. rows' = rows \/ rows' = Append(rows, row)
  BY DEF Retry
<1> HIDE DEF row
<1>3. row.status = "blocked"
  BY DEF row
<1>4. RowsInv'
  BY <1>1, <1>2, <1>3, RowsGrow DEF RecordsInv
<1>5. CASE publisher' = [publisher EXCEPT !.at = "read", !.tries = @ + 1]
  <2>1. publisher'.at = "read" /\ publisher'.spec = publisher.spec
    BY <1>5 DEF ShelfInv
  <2> QED
    BY <1>4, <2>1 DEF Publishing, Sought
<1>6. CASE publisher' = IdleShelf
  BY <1>4, <1>6 DEF Publishing, IdleShelf
<1> QED
  BY <1>5, <1>6 DEF Retry

LEMMA ProceedRecords ==
  ASSUME ShelfInv, RecordsInv, Immutable, NEW to, Proceed(to), Sought \in ListingSpecs,
         to = "anchor" => Genuine(Fresh), to = "auto" => slots'[Slot] # None, to = "readback" => Complete(Slot)'
  PROVE  Publishing' /\ RowsInv'
<1>1. publisher'.at = to /\ publisher'.spec = publisher.spec
  BY ProceedGoes DEF Gone
<1>2. Sought' = Sought /\ Slot' = Slot /\ Fresh' = Fresh
  BY <1>1 DEF Sought, Slot, Fresh
<1>3. Publishing'
  BY <1>1, <1>2 DEF Publishing, Complete
<1>4. RowsInv'
  <2>1. rows' = rows /\ [version |-> 0, status |-> "blocked"] \in Rows
    BY DEF Proceed, Rows
  <2> QED
    BY <2>1, RowsGrow DEF RecordsInv
<1> QED
  BY <1>3, <1>4

LEMMA RepublishRecords == ASSUME ShelfInv, Immutable, RecordsInv, Republish PROVE RecordsInv'
<1>1. publisher.at = "idle" /\ UNCHANGED <<slots, autos, markers>>
  BY DEF Republish
<1>2. \A v \in Versions : Shelved(v)'
  BY <1>1, ShelvedStays DEF RecordsInv
<1>3. CASE rows' = rows /\ \E spec \in ListingSpecs : publisher' = [at |-> "read", spec |-> spec, tries |-> 1]
  <2>1. Publishing'
    BY <1>3 DEF Publishing, Sought
  <2>2. RowsInv'
    BY <1>1, <1>3 DEF RecordsInv, RowsInv, Complete
  <2> QED
    BY <1>2, <2>1, <2>2 DEF RecordsInv
<1>4. CASE publisher' = publisher /\ rows' = Append(rows, [version |-> 0, status |-> "blocked"])
  <2> DEFINE row == [version |-> 0, status |-> "blocked"]
  <2>1. Publishing'
    BY <1>1, <1>4 DEF Publishing
  <2>2. row \in Rows /\ row.status = "blocked"
    BY DEF Rows
  <2>3. rows' = Append(rows, row)
    BY <1>4
  <2> HIDE DEF row
  <2>4. RowsInv'
    BY <2>2, <2>3, RowsGrow DEF RecordsInv
  <2> QED
    BY <1>2, <2>1, <2>4 DEF RecordsInv
<1> QED
  BY <1>3, <1>4 DEF Republish

LEMMA ReadRecords == ASSUME ShelfInv, Immutable, RecordsInv, ReadSlot PROVE RecordsInv'
<1>1. publisher.at = "read" /\ UNCHANGED <<slots, autos, markers>> /\ Sought \in ListingSpecs
  BY DEF ReadSlot, RecordsInv, Publishing
<1>2. \A v \in Versions : Shelved(v)'
  BY <1>1, ShelvedStays DEF RecordsInv
<1>3. \/ slots[Slot] # None /\ Proceed("auto")
      \/ verifyListing(Fresh, shelfClock, None) /\ Proceed("anchor")
      \/ Retry
  BY DEF ReadSlot
<1>4. verifyListing(Fresh, shelfClock, None) => Genuine(Fresh)
  BY <1>1 DEF verifyListing, Genuine, Fresh
<1>5. Publishing' /\ RowsInv'
  BY <1>1, <1>3, <1>4, ProceedRecords, RetryRecords
<1> QED
  BY <1>2, <1>5 DEF RecordsInv

(* What is written to an empty slot was verified when it was read.         *)
LEMMA AnchorRecords == ASSUME ShelfInv, Immutable, RecordsInv, AnchorListing PROVE RecordsInv'
<1>1. /\ publisher.at = "anchor" /\ UNCHANGED <<autos, markers>> /\ Sought \in ListingSpecs
      /\ Genuine(Fresh) /\ slots[Slot] = None
  BY DEF AnchorListing, RecordsInv, Publishing, ShelfInv
<1>2. Slot \in Versions /\ Fresh # None
  BY <1>1, ShelfAssumption DEF Slot, Versions, Fresh
<1>3. slots' = [slots EXCEPT ![Slot] = Fresh] \/ slots' = slots
  BY DEF AnchorListing
<1>4. \A v \in Versions : Shelved(v)'
  <2>1. CASE slots' = slots
    BY <1>1, <2>1, ShelvedStays DEF RecordsInv
  <2>2. CASE slots' = [slots EXCEPT ![Slot] = Fresh]
    <3>1. \A v \in Versions : slots'[v] = slots[v] \/ (v = Slot /\ slots'[v] = Fresh)
      BY <2>2 DEF ShelfInv, OnShelf
    <3> TAKE v \in Versions
    <3>2. Shelved(v)
      BY DEF RecordsInv
    <3>3. CASE slots'[v] = slots[v]
      BY <1>1, <3>2, <3>3 DEF Shelved
    <3>4. CASE v = Slot /\ slots'[v] = Fresh
      BY <1>1, <3>2, <3>4 DEF Shelved
    <3> QED
      BY <3>1, <3>3, <3>4
  <2> QED
    BY <1>3, <2>1, <2>2
<1>5. \/ Proceed("auto") /\ slots' = [slots EXCEPT ![Slot] = Fresh]
      \/ Retry
  BY DEF AnchorListing
<1>6. slots' = [slots EXCEPT ![Slot] = Fresh] => slots'[Slot] # None
  BY <1>2 DEF ShelfInv, OnShelf
<1>7. Publishing' /\ RowsInv'
  BY <1>1, <1>5, <1>6, ProceedRecords, RetryRecords
<1> QED
  BY <1>4, <1>7 DEF RecordsInv

(* The commitment is written once, and binds the listing the slot holds.   *)
LEMMA AutoRecords == ASSUME ShelfInv, Immutable, RecordsInv, withAutoAccept PROVE RecordsInv'
<1> DEFINE c == createAutoAcceptCommitment(slots[Slot], Seller, Sought.until)
<1>1. publisher.at = "auto" /\ UNCHANGED <<slots, markers>> /\ Sought \in ListingSpecs /\ slots[Slot] # None
  BY DEF withAutoAccept, RecordsInv, Publishing
<1>2. Slot \in Versions /\ Shelved(Slot) /\ Genuine(slots[Slot])
  BY <1>1 DEF Slot, Versions, RecordsInv, Shelved
<1>3. ASSUME Sought.until # None PROVE Sought.until \in Nat /\ c # None
  <2>1. PICK spec \in ListingSpecs : slots[Slot] = signListing(spec.body, Seller)
    BY <1>2 DEF Genuine
  <2> QED
    BY <1>1, <1>3, <2>1, ShelfAssumption
<1>4. Sought.until # None /\ slots[Slot].auto => c # None /\ verifyAutoAcceptCommitment(c, slots[Slot], 0)
  BY <1>2, <1>3, CommitmentBinds
<1>5. \/ ~slots[Slot].auto /\ Proceed("readback") /\ UNCHANGED autos
      \/ Retry /\ UNCHANGED autos
      \/ /\ autos[Slot] # None /\ UNCHANGED autos /\ Proceed("readback")
      \/ /\ slots[Slot].auto /\ Sought.until # None /\ autos[Slot] = None
         /\ autos' = [autos EXCEPT ![Slot] = c] /\ (Proceed("readback") \/ Retry)
  BY DEF withAutoAccept
<1> HIDE DEF c
<1>6. \A v \in Versions : Shelved(v)'
  <2>1. CASE UNCHANGED autos
    BY <1>1, <2>1, ShelvedStays DEF RecordsInv
  <2>2. CASE slots[Slot].auto /\ Sought.until # None /\ autos' = [autos EXCEPT ![Slot] = c]
    <3>1. \A v \in Versions : autos'[v] = autos[v] \/ (v = Slot /\ autos'[v] = c)
      BY <2>2 DEF ShelfInv, OnShelf
    <3> TAKE v \in Versions
    <3>2. Shelved(v)
      BY DEF RecordsInv
    <3>3. CASE autos'[v] = autos[v]
      BY <1>1, <3>2, <3>3 DEF Shelved
    <3>4. CASE v = Slot /\ autos'[v] = c
      BY <1>1, <1>4, <2>2, <3>2, <3>4 DEF Shelved
    <3> QED
      BY <3>1, <3>3, <3>4
  <2> QED
    BY <1>5, <2>1, <2>2
<1>7. Proceed("readback") => Complete(Slot)'
  <2> SUFFICES ASSUME Proceed("readback") PROVE Complete(Slot)'
    OBVIOUS
  <2>1. Slot' = Slot
    BY ProceedGoes DEF Slot, Sought
  <2>2. slots'[Slot] = slots[Slot]
    BY <1>1
  <2>3. \/ ~slots[Slot].auto
        \/ autos[Slot] # None /\ UNCHANGED autos
        \/ autos' = [autos EXCEPT ![Slot] = c] /\ c # None
        \/ Retry
    BY <1>4, <1>5
  <2>4. ~Retry
    <3>1. publisher'.at = "readback"
      BY ProceedGoes DEF Gone
    <3> QED
      BY <3>1, RetryLeaves DEF Gone
  <2>5. slots[Slot].auto => autos'[Slot] # None
    BY <1>2, <2>3, <2>4 DEF ShelfInv, OnShelf
  <2> QED
    BY <1>1, <2>1, <2>2, <2>5 DEF Complete
<1>8. Publishing' /\ RowsInv'
  BY <1>1, <1>5, <1>7, ProceedRecords, RetryRecords
<1> QED
  BY <1>6, <1>8 DEF RecordsInv

LEMMA ReadBackRecords == ASSUME ShelfInv, Immutable, RecordsInv, ReadBack PROVE RecordsInv'
<1>1. /\ publisher.at = "readback" /\ UNCHANGED <<slots, autos, markers>> /\ Sought \in ListingSpecs
      /\ Complete(Slot) /\ publisher' = IdleShelf
  BY DEF ReadBack, RecordsInv, Publishing
<1>2. \A v \in Versions : Shelved(v)'
  BY <1>1, ShelvedStays DEF RecordsInv
<1>3. Publishing'
  BY <1>1 DEF Publishing, IdleShelf
<1>4. Slot \in Versions /\ \A status \in {"updated", "blocked"} : [version |-> Slot, status |-> status] \in Rows
  BY <1>1 DEF Slot, Versions, Rows
<1>5. PICK row \in Rows : row.version = Slot /\ rows' = Append(rows, row)
  BY <1>4 DEF ReadBack
<1>6. Complete(row.version)
  BY <1>1, <1>5
<1>7. Complete(row.version)'
  BY <1>1, <1>6 DEF Complete
<1>8. RowsInv'
  BY <1>4, <1>5, <1>7, RowsGrow DEF RecordsInv
<1> QED
  BY <1>2, <1>3, <1>8 DEF RecordsInv

LEMMA RevokeRecords == ASSUME ShelfInv, Immutable, RecordsInv, NEW w \in Versions, Revoke(w) PROVE RecordsInv'
<1>1. /\ slots[w] # None /\ UNCHANGED <<slots, autos, publisher, rows>>
      /\ markers' = [markers EXCEPT ![w] = createListingRevocation(slots[w], Seller)]
  BY DEF Revoke
<1>2. Genuine(slots[w])
  BY <1>1 DEF RecordsInv, Shelved
<1>3. verifyListingRevocation(createListingRevocation(slots[w], Seller), slots[w])
  BY <1>2, RevocationBinds
<1>4. ASSUME NEW v \in Versions PROVE Shelved(v)'
  <2>1. Shelved(v)
    BY DEF RecordsInv
  <2>2. markers'[v] = markers[v] \/ (v = w /\ markers'[v] = createListingRevocation(slots[w], Seller))
    BY <1>1 DEF ShelfInv, OnShelf
  <2>3. CASE markers'[v] = markers[v]
    BY <1>1, <2>1, <2>3 DEF Shelved
  <2>4. CASE v = w /\ markers'[v] = createListingRevocation(slots[w], Seller)
    BY <1>1, <1>3, <2>1, <2>4 DEF Shelved
  <2> QED
    BY <2>2, <2>3, <2>4
<1>5. Publishing' /\ RowsInv'
  BY <1>1 DEF RecordsInv, Publishing, RowsInv, Complete, Sought, Slot, Fresh
<1> QED
  BY <1>4, <1>5 DEF RecordsInv

LEMMA RecordsInvariant == MCSpec => []RecordsInv
<1>1. ShelfInit \/ RestShelf => RecordsInv
  <2> SUFFICES ASSUME ShelfInit \/ RestShelf PROVE RecordsInv
    OBVIOUS
  <2>1. /\ slots = [v \in Versions |-> None] /\ autos = [v \in Versions |-> None]
        /\ markers = [v \in Versions |-> None] /\ publisher = IdleShelf
    BY DEF ShelfInit, RestShelf
  <2>2. rows = <<>> \/ rows = [i \in 1 .. MaxPublishes |-> [version |-> 0, status |-> "blocked"]]
    BY DEF ShelfInit, RestShelf
  <2>3. RowsInv
    <3>1. CASE rows = <<>>
      BY <3>1 DEF RowsInv
    <3>2. CASE rows = [i \in 1 .. MaxPublishes |-> [version |-> 0, status |-> "blocked"]]
      <4>1. [version |-> 0, status |-> "blocked"] \in Rows /\ MaxPublishes \in Nat
        BY ShelfAssumption DEF Rows
      <4>2. rows \in Seq(Rows) /\ \A i \in 1 .. Len(rows) : rows[i] = [version |-> 0, status |-> "blocked"]
        BY <3>2, <4>1
      <4> QED
        BY <4>2 DEF RowsInv
    <3> QED
      BY <2>2, <3>1, <3>2
  <2> QED
    BY <2>1, <2>3 DEF RecordsInv, Shelved, Publishing, IdleShelf
<1>2. ShelfInv /\ RecordsInv /\ [ShelfNext]_shelfVars => RecordsInv'
  <2> SUFFICES ASSUME ShelfInv, RecordsInv, [ShelfNext]_shelfVars PROVE RecordsInv'
    OBVIOUS
  <2>1. Immutable
    BY ShelfKeeps
  <2>2. CASE ShelfTick \/ UNCHANGED shelfVars
    <3>1. UNCHANGED <<slots, autos, markers, publisher, rows>>
      BY <2>2 DEF ShelfTick, shelfVars
    <3> QED
      BY <3>1 DEF RecordsInv, Shelved, Publishing, RowsInv, Complete, Sought, Slot, Fresh
  <2> QED
    BY <2>1, <2>2, RepublishRecords, ReadRecords, AnchorRecords, AutoRecords, ReadBackRecords, RevokeRecords DEF ShelfNext
<1>3. MCSpec => []ShelfInv
  <2>1. ShelfInv /\ [ShelfNext]_shelfVars => ShelfInv'
    BY ShelfKeeps
  <2> QED
    BY <2>1, ShelfStarts, ShelfPart, PTL
<1> QED
  BY <1>1, <1>2, <1>3, ShelfPart, PTL

LEMMA UpdatedIsSold == RecordsInv => UpdatedIsComplete
<1> SUFFICES ASSUME RecordsInv, NEW i \in 1 .. Len(rows), rows[i].status = "updated"
             PROVE  LET v == rows[i].version IN
                    /\ slots[v] # None /\ verifyHash(slots[v].sig, "listing", listingHash(slots[v]))
                    /\ slots[v].auto => autos[v] # None /\ verifyAutoAcceptCommitment(autos[v], slots[v], 0)
                    /\ markers[v] # None => verifyListingRevocation(markers[v], slots[v])
  BY DEF UpdatedIsComplete
<1> DEFINE v == rows[i].version
<1>1. v \in Versions /\ Complete(v)
  BY DEF RecordsInv, RowsInv
<1>2. Shelved(v)
  BY <1>1 DEF RecordsInv
<1> QED
  BY <1>1, <1>2 DEF Shelved, Complete, Genuine

-----------------------------------------------------------------------------
(* The session runner: StandardRun.                                        *)

LEMMA RunPart == MCSpec => (RunInit \/ RestRun) /\ [][RunNext]_runVars
<1>1. MCInit => RunInit \/ RestRun
  BY Zenon DEF MCInit
<1>2. [MCNext]_mcVars => [RunNext]_runVars
  BY Zenon DEF MCNext, mcVars
<1> QED
  BY <1>1, <1>2, PTL DEF MCSpec

(* Two artifacts with one hash agree on every field the hash covers.       *)
LEMMA OneHash ==
  ASSUME NEW x, NEW y, NEW omit, standardHash(x, omit) = standardHash(y, omit),
         NEW f \in DOMAIN x, f \notin omit
  PROVE  f \in DOMAIN y /\ y[f] = x[f]
<1>1. DOMAIN standardHash(x, omit) = DOMAIN x \ omit /\ DOMAIN standardHash(y, omit) = DOMAIN y \ omit
  BY DEF standardHash
<1>2. f \in DOMAIN y \ omit
  BY <1>1
<1>3. standardHash(x, omit)[f] = x[f] /\ standardHash(y, omit)[f] = y[f]
  BY <1>2 DEF standardHash
<1> QED
  BY <1>2, <1>3

(* What the seller sends back for the buyer's proposal still asks for the  *)
(* request and follows the fixed-price pattern.                            *)
LEMMA SameScope ==
  ASSUME NEW answer, agreementHash(answer) = agreementHash(Proposed)
  PROVE  answer.request = RunRequest /\ answer.pattern = "negotiate-fixed-price"
<1> DEFINE a == buildAgreement(RunJob, Listed, "negotiate-fixed-price", Listed.pricing.amount,
                               BuyerVet, SellerVet, RunRequest, runClock)
<1>1. /\ "request" \in DOMAIN a /\ a["request"] = RunRequest
      /\ "pattern" \in DOMAIN a /\ a["pattern"] = "negotiate-fixed-price"
  BY DEF buildAgreement
<1>2. \E sigs : Proposed = [a EXCEPT !.sigs = sigs]
  BY DEF Proposed, addAgreementSignature, Signed
<1> HIDE DEF a
<1>3. /\ "request" \in DOMAIN Proposed /\ Proposed["request"] = RunRequest
      /\ "pattern" \in DOMAIN Proposed /\ Proposed["pattern"] = "negotiate-fixed-price"
  BY <1>1, <1>2
<1>4. standardHash(Proposed, {"sigs"}) = standardHash(answer, {"sigs"})
  BY DEF agreementHash
<1>5. answer["request"] = RunRequest
  BY <1>3, <1>4, OneHash
<1>6. answer["pattern"] = "negotiate-fixed-price"
  BY <1>3, <1>4, OneHash
<1> QED
  BY <1>5, <1>6

LEMMA ListedPrice ==
  ASSUME NEW a, NEW l, NEW roles, NEW c, NEW now, verifyAgreement(a, l, roles, c, now),
         a.pattern = "negotiate-fixed-price"
  PROVE  a.price = l.pricing.amount
BY DEF verifyAgreement, PriceSound

(* An agreement of an auto-accept listing binds its seller by the template *)
(* only while the template is in force.                                    *)
LEMMA TemplateInForce ==
  ASSUME NEW a, NEW l, NEW c, NEW now, verifyAgreement(a, l, {"buyer", "seller"}, c, now), l.auto
  PROVE  now <= c.until
<1>1. Cardinality({p \in a.parties : p.role = "seller"}) = 1
  BY DEF verifyAgreement
<1>2. {p \in a.parties : p.role = "seller"} # {}
  BY <1>1, FS_EmptySet
<1>3. PICK p \in a.parties : p.role = "seller"
  BY <1>2
<1>4. PartySigned(a, l, p, c, now)
  BY <1>3 DEF verifyAgreement
<1>5. verifyAutoAcceptCommitment(c, l, now)
  BY <1>3, <1>4 DEF PartySigned
<1> QED
  BY <1>5 DEF verifyAutoAcceptCommitment

(* The agreement both parties signed, before it is anchored.               *)
Bargained == deal.request = RunRequest /\ deal.price = Listed.pricing.amount
(* What has been anchored and verified when settle is called.              *)
Committed ==
  /\ chain["agreement"] = deal /\ chain["commitment"].agreement = agreementHash(deal)
  /\ Bargained
  /\ committedAt <= Listed.notAfter
  /\ Listed.auto => committedAt <= Template.until
  /\ deal.deadline <= committedAt + Listed.window

BeforeSettle == {"start", "identified", "negotiate", "commit", "agreed"}
(* No money moves before settle, and from there on the commitment stands.  *)
RunInv ==
  /\ shop = [listing |-> shop.listing, template |-> shop.template, marker |-> shop.marker]
  /\ chain = [s \in Slots |-> chain[s]]
  /\ transfers \in Nat
  /\ at \in BeforeSettle => transfers = 0
  /\ at \in {"commit", "agreed"} => Bargained
  /\ at = "agreed" => chain["agreement"] = deal
  /\ at = "settle" => Committed
  /\ transfers > 0 => Committed

LEMMA RunStarts == RunInit \/ RestRun => RunInv
<1>1. RunInit => RunInv
  <2> SUFFICES ASSUME RunInit PROVE RunInv
    OBVIOUS
  <2>1. /\ \E l \in RunListings, t \in Templates : shop = [listing |-> l, template |-> t, marker |-> None]
        /\ at = "start" /\ chain = [s \in Slots |-> None] /\ transfers = 0
    BY DEF RunInit
  <2> QED
    BY <2>1 DEF RunInv
<1>2. RestRun => RunInv
  BY DEF RestRun, RunInv, BeforeSettle
<1> QED
  BY <1>1, <1>2

(* A step that leaves the deal and its two anchors alone.                  *)
LEMMA CommitmentStands ==
  ASSUME Committed, UNCHANGED <<deal, committedAt>>,
         shop'.listing = shop.listing, shop'.template = shop.template,
         chain'["agreement"] = chain["agreement"], chain'["commitment"] = chain["commitment"]
  PROVE  Committed'
BY DEF Committed, Bargained, Listed, Template

Aside == /\ UNCHANGED <<deal, committedAt>>
         /\ shop'.listing = shop.listing /\ shop'.template = shop.template
         /\ chain'["agreement"] = chain["agreement"] /\ chain'["commitment"] = chain["commitment"]
RunForm == /\ shop = [listing |-> shop.listing, template |-> shop.template, marker |-> shop.marker]
           /\ chain = [s \in Slots |-> chain[s]]

(* A step before or after settle that stays aside of the commitment.       *)
LEMMA AsideKeeps ==
  ASSUME RunInv, RunForm', Aside, UNCHANGED transfers,
         \/ at' = at
         \/ at \notin BeforeSettle /\ at' \notin BeforeSettle \cup {"settle"}
         \/ at \in BeforeSettle /\ at' \notin {"commit", "agreed", "settle"}
  PROVE  RunInv'
<1>1. Committed => Committed'
  BY CommitmentStands DEF Aside
<1>2. Bargained => Bargained'
  BY DEF Aside, Bargained, Listed
<1>3. transfers' \in Nat /\ (transfers' > 0 => Committed')
  BY <1>1 DEF RunInv
<1>4. at' \in BeforeSettle => transfers' = 0
  BY DEF RunInv
<1>5. /\ at' \in {"commit", "agreed"} => Bargained'
      /\ at' = "agreed" => chain'["agreement"] = deal'
      /\ at' = "settle" => Committed'
  BY <1>1, <1>2 DEF RunInv, Aside, BeforeSettle
<1> QED
  BY <1>3, <1>4, <1>5 DEF RunInv, RunForm

(* A step before settle that ends in a throw, or at a point of its own.    *)
LEMMA EarlyKeeps ==
  ASSUME RunInv, RunForm', UNCHANGED transfers, at \in BeforeSettle,
         at' \in {"commit", "agreed"} => Bargained',
         at' = "agreed" => chain'["agreement"] = deal',
         at' = "settle" => Committed'
  PROVE  RunInv'
BY DEF RunInv, RunForm

LEMMA RunStartKeeps == ASSUME RunInv, RunStart PROVE RunInv'
<1>1. /\ at = "start" /\ at' \in {"identified", "refused"} /\ RunForm' /\ UNCHANGED transfers
  BY DEF RunStart, Go, RunInv, RunForm
<1> QED
  BY <1>1, EarlyKeeps DEF BeforeSettle

LEMMA RunVetKeeps == ASSUME RunInv, RunVet PROVE RunInv'
<1>1. /\ at = "identified" /\ at' \in {"negotiate", "throw"} /\ UNCHANGED <<shop, transfers>>
      /\ \E done : chain' = [s \in Slots |-> IF s \notin done THEN chain[s]
                                             ELSE IF s = "buyerVet" THEN BuyerVet ELSE SellerVet]
  BY DEF RunVet, Go, Throw
<1>2. RunForm'
  BY <1>1 DEF RunInv, RunForm
<1> QED
  BY <1>1, <1>2, EarlyKeeps DEF BeforeSettle

LEMMA RunNegotiateKeeps == ASSUME RunInv, RunNegotiate PROVE RunInv'
<1>1. /\ at = "negotiate" /\ UNCHANGED <<shop, chain, transfers>>
  BY DEF RunNegotiate
<1>2. RunForm'
  BY <1>1 DEF RunInv, RunForm
<1>3. CASE Throw("negotiate", "negotiate-fixed-price")
  <2>1. at' = "throw"
    BY <1>3 DEF Throw
  <2> QED
    BY <1>1, <1>2, <2>1, EarlyKeeps DEF BeforeSettle
<1>4. CASE \E answer \in sellerSign(Proposed) :
              /\ agreementHash(answer) = agreementHash(Proposed)
              /\ verifyAgreement(answer, Listed, {"buyer", "seller"}, Template, runClock)
              /\ deal' = answer /\ at' = "commit"
  <2>1. PICK answer : /\ agreementHash(answer) = agreementHash(Proposed)
                      /\ verifyAgreement(answer, Listed, {"buyer", "seller"}, Template, runClock)
                      /\ deal' = answer /\ at' = "commit"
    BY <1>4
  <2>2. answer.request = RunRequest /\ answer.pattern = "negotiate-fixed-price"
    BY <2>1, SameScope
  <2>3. answer.price = Listed.pricing.amount
    BY <2>1, <2>2, ListedPrice
  <2>4. Listed' = Listed
    BY <1>1 DEF Listed
  <2>5. Bargained'
    BY <2>1, <2>2, <2>3, <2>4 DEF Bargained
  <2> QED
    BY <1>1, <1>2, <2>1, <2>5, EarlyKeeps DEF BeforeSettle
<1> QED
  BY <1>3, <1>4 DEF RunNegotiate, Go

LEMMA RunAnchorAgreementKeeps == ASSUME RunInv, RunAnchorAgreement PROVE RunInv'
<1>1. at = "commit" /\ Bargained /\ UNCHANGED <<shop, deal, transfers>>
  BY DEF RunInv, RunAnchorAgreement
<1>2. \/ chain' = [chain EXCEPT !["agreement"] = deal] /\ at' = "agreed"
      \/ chain' = chain /\ at' = "throw"
  BY DEF RunAnchorAgreement, Go, Throw
<1>3. RunForm' /\ (at' = "agreed" => chain'["agreement"] = deal)
  BY <1>1, <1>2 DEF RunInv, RunForm, Slots
<1>4. Bargained'
  BY <1>1 DEF Bargained, Listed
<1> QED
  BY <1>1, <1>2, <1>3, <1>4, EarlyKeeps DEF BeforeSettle

LEMMA RunAnchorCommitmentKeeps == ASSUME RunInv, RunAnchorCommitment PROVE RunInv'
<1> DEFINE c == createCommitment(Buyer, deal, runClock)
<1>1. /\ at = "agreed" /\ Bargained /\ chain["agreement"] = deal
      /\ UNCHANGED <<shop, deal, transfers, runClock>>
  BY DEF RunInv, RunAnchorCommitment
<1>2. \/ /\ chain' = [chain EXCEPT !["commitment"] = c] /\ committedAt' = runClock
         /\ \/ Authoritative(c, runClock) /\ at' = "settle"
            \/ at' = "throw"
      \/ chain' = chain /\ at' = "throw"
  <2> HIDE DEF c
  <2> QED
    BY DEF RunAnchorCommitment, Go, Throw, c
<1>3. RunForm' /\ chain'["agreement"] = deal
  <2> HIDE DEF c
  <2> QED
    BY <1>1, <1>2 DEF RunInv, RunForm, Slots
<1>4. ASSUME at' = "settle" PROVE Committed'
  <2>1. /\ chain' = [chain EXCEPT !["commitment"] = c] /\ committedAt' = runClock
        /\ Authoritative(c, runClock)
    BY <1>2, <1>4
  <2>2. chain'["commitment"] = c
    BY <2>1 DEF RunInv, Slots
  <2>3. c.agreement = agreementHash(deal)
    BY DEF createCommitment
  <2>4. verifyAgreement(deal, Listed, {"buyer", "seller"}, Template, runClock) /\ verifyCommitment(c, deal, Listed, runClock)
    BY <2>1 DEF Authoritative
  <2>5. runClock <= Listed.notAfter /\ deal.deadline <= runClock + Listed.window
    BY <2>4 DEF verifyCommitment
  <2>6. Listed.auto => runClock <= Template.until
    BY <2>4, TemplateInForce
  <2>7. Listed' = Listed /\ Template' = Template /\ deal' = deal
    BY <1>1 DEF Listed, Template
  <2> HIDE DEF c
  <2>8. Bargained'
    BY <1>1, <2>7 DEF Bargained
  <2> QED
    BY <1>1, <1>3, <2>1, <2>2, <2>3, <2>5, <2>6, <2>7, <2>8 DEF Committed
<1>5. at' \notin {"commit", "agreed"}
  BY <1>2
<1> QED
  BY <1>1, <1>3, <1>4, <1>5, EarlyKeeps DEF BeforeSettle

(* settle moves money once the commitment stands, and leaves it standing.  *)
LEMMA RunSettleKeeps == ASSUME RunInv, RunSettle PROVE RunInv'
<1>1. at = "settle" /\ Committed /\ transfers \in Nat /\ UNCHANGED <<shop, deal, committedAt>>
  BY DEF RunInv, RunSettle
<1>2. /\ at' \in {"deliver", "throw"}
      /\ transfers' = transfers + 1 \/ transfers' = transfers
      /\ chain' = chain \/ \E e : chain' = [chain EXCEPT !["payment"] = e]
  BY DEF RunSettle, Go, Throw
<1>3. /\ chain' = [s \in Slots |-> chain'[s]]
      /\ chain'["agreement"] = chain["agreement"] /\ chain'["commitment"] = chain["commitment"]
  BY <1>2 DEF RunInv, Slots
<1>4. Committed'
  BY <1>1, <1>3, CommitmentStands
<1>5. transfers' \in Nat
  BY <1>1, <1>2
<1> QED
  BY <1>1, <1>2, <1>3, <1>4, <1>5 DEF RunInv, BeforeSettle

LEMMA RunDeliverKeeps == ASSUME RunInv, RunDeliver PROVE RunInv'
<1>1. /\ at = "deliver" /\ at' \in {"bundle", "throw"}
      /\ UNCHANGED <<shop, deal, committedAt, transfers>>
      /\ \E d, e : chain' = [chain EXCEPT !["delivery"] = d, !["deliveryEvidence"] = e]
  BY DEF RunDeliver, Go, Throw
<1>2. PICK d, e : chain' = [chain EXCEPT !["delivery"] = d, !["deliveryEvidence"] = e]
  BY <1>1
<1>3. RunForm' /\ Aside
  BY <1>1, <1>2 DEF RunInv, RunForm, Aside, Slots
<1> QED
  BY <1>1, <1>3, AsideKeeps DEF BeforeSettle

LEMMA RunBundleKeeps == ASSUME RunInv, RunBundle PROVE RunInv'
<1>1. /\ at = "bundle" /\ at' \in {"bundled", "throw"}
      /\ UNCHANGED <<shop, deal, committedAt, transfers>>
  BY DEF RunBundle, Go, Throw
<1>2. \E done \in SUBSET {"buyerBundle", "sellerBundle"} : \E mine, yours :
         chain' = [s \in Slots |-> IF s \notin done THEN chain[s] ELSE IF s = "buyerBundle" THEN mine ELSE yours]
  BY DEF RunBundle
<1>3. RunForm' /\ Aside
  BY <1>1, <1>2 DEF RunInv, RunForm, Aside, Slots
<1> QED
  BY <1>1, <1>3, AsideKeeps DEF BeforeSettle

LEMMA RunFinaliseKeeps == ASSUME RunInv, RunFinalise PROVE RunInv'
<1>1. /\ at = "bundled" /\ at' = "finalised" /\ UNCHANGED <<shop, deal, committedAt, transfers, chain>>
  BY DEF RunFinalise, Go
<1>2. RunForm' /\ Aside
  BY <1>1 DEF RunInv, RunForm, Aside
<1> QED
  BY <1>1, <1>2, AsideKeeps DEF BeforeSettle

LEMMA RunCatchKeeps == ASSUME RunInv, RunCatch PROVE RunInv'
<1>1. /\ at = "throw" /\ at' \in {"failed", "lost"} /\ UNCHANGED <<shop, deal, committedAt, transfers>>
      /\ chain' = chain \/ \E b : chain' = [chain EXCEPT !["buyerBundle"] = b]
  BY DEF RunCatch, Go
<1>2. RunForm' /\ Aside
  BY <1>1 DEF RunInv, RunForm, Aside, Slots
<1> QED
  BY <1>1, <1>2, AsideKeeps DEF BeforeSettle

LEMMA RunWorldKeeps == ASSUME RunInv, RunTick \/ RunRevoke \/ UNCHANGED runVars PROVE RunInv'
<1>1. /\ at' = at /\ UNCHANGED <<deal, committedAt, transfers, chain>>
      /\ shop' = shop \/ \E m : shop' = [shop EXCEPT !.marker = m]
  BY DEF RunTick, RunRevoke, runVars
<1>2. RunForm' /\ Aside
  BY <1>1 DEF RunInv, RunForm, Aside
<1> QED
  BY <1>1, <1>2, AsideKeeps

LEMMA RunInvariant == MCSpec => []RunInv
<1>1. RunInv /\ [RunNext]_runVars => RunInv'
  BY RunStartKeeps, RunVetKeeps, RunNegotiateKeeps, RunAnchorAgreementKeeps, RunAnchorCommitmentKeeps,
     RunSettleKeeps, RunDeliverKeeps, RunBundleKeeps, RunFinaliseKeeps, RunCatchKeeps, RunWorldKeeps DEF RunNext
<1> QED
  BY <1>1, RunStarts, RunPart, PTL

LEMMA PaidAgreement == RunInv => PaidUnderCommitment
BY DEF RunInv, Committed, Bargained, PaidUnderCommitment

(* The records of a session.  A listing that the runner takes has its five *)
(* phases in the order the runner goes through them.                       *)
Walk(l) == \E pay \in Pays : l.pipeline = <<"vet-credentials", "negotiate-fixed-price", "commit-agreement",
                                            pay, "deliver-attested-payload">>

LEMMA IndexIs ==
  ASSUME NEW l, NEW K, Len(l.pipeline) \in Nat, NEW i \in 1 .. Len(l.pipeline), l.pipeline[i] \in K,
         \A j \in 1 .. i - 1 : l.pipeline[j] \notin K
  PROVE  IndexOf(l, K) = i
<1> DEFINE First(n) == l.pipeline[n] \in K /\ \A j \in 1 .. n - 1 : l.pipeline[j] \notin K
<1>1. Kinds(l) \cap K # {}
  BY DEF Kinds
<1>2. IndexOf(l, K) = CHOOSE n \in 1 .. Len(l.pipeline) : First(n)
  BY <1>1 DEF IndexOf
<1>3. First(i)
  OBVIOUS
<1>4. ASSUME NEW n \in 1 .. Len(l.pipeline), First(n) PROVE n = i
  <2>1. ~(n < i) /\ ~(i < n)
    BY <1>3, <1>4
  <2> QED
    BY <2>1
<1> HIDE DEF First
<1> QED
  BY <1>2, <1>3, <1>4

LEMMA PipelineIndex ==
  ASSUME NEW l, Walk(l)
  PROVE  /\ IndexOf(l, {"vet-credentials"}) = 1 /\ IndexOf(l, {"negotiate-fixed-price"}) = 2
         /\ IndexOf(l, {"commit-agreement"}) = 3
         /\ IndexOf(l, Pays) = 4 /\ IndexOf(l, Delivers) = 5
         /\ \A k \in 1 .. 5 : IndexOf(l, {l.pipeline[k]}) = k
         /\ IndexOf(l, {l.pipeline[4]}) = 4 /\ IndexOf(l, {l.pipeline[5]}) = 5
         /\ Len(l.pipeline) = 5
         /\ l.pipeline[1] = "vet-credentials" /\ l.pipeline[2] = "negotiate-fixed-price"
         /\ l.pipeline[3] = "commit-agreement" /\ l.pipeline[4] \in Pays
         /\ l.pipeline[5] = "deliver-attested-payload"
<1> DEFINE p == l.pipeline
<1>1. /\ Len(p) = 5 /\ p[1] = "vet-credentials" /\ p[2] = "negotiate-fixed-price"
      /\ p[3] = "commit-agreement" /\ p[4] \in {"pay-dem", "pay-x402"}
      /\ p[5] = "deliver-attested-payload"
  BY DEF Walk, Pays
<1> HIDE DEF p
<1>2. ASSUME NEW k \in 1 .. 5 PROVE IndexOf(l, {p[k]}) = k
  <2>1. \A j \in 1 .. k - 1 : p[j] \notin {p[k]}
    BY <1>1
  <2> QED
    BY <1>1, <2>1, IndexIs DEF p
<1>3. IndexOf(l, Pays) = 4
  <2>1. p[4] \in Pays /\ \A j \in 1 .. 4 - 1 : p[j] \notin Pays
    BY <1>1 DEF Pays
  <2> QED
    BY <1>1, <2>1, IndexIs DEF p
<1>4. IndexOf(l, Delivers) = 5
  <2>1. p[5] \in Delivers /\ \A j \in 1 .. 5 - 1 : p[j] \notin Delivers
    BY <1>1 DEF Delivers
  <2> QED
    BY <1>1, <2>1, IndexIs DEF p
<1>5. /\ IndexOf(l, {"vet-credentials"}) = 1 /\ IndexOf(l, {"negotiate-fixed-price"}) = 2
      /\ IndexOf(l, {"commit-agreement"}) = 3
  BY <1>1, <1>2
<1> QED
  BY <1>1, <1>2, <1>3, <1>4, <1>5 DEF p, Pays

(* The first k phases are recorded as done; at most one more as failed.    *)
Phases == [index : Nat, ok : BOOLEAN]
Paced(q, k) == /\ q \in Seq(Phases) /\ Len(q) \in {k, k + 1}
               /\ \A i \in 1 .. Len(q) : q[i].index = i /\ q[i].ok = IF i <= k THEN TRUE ELSE FALSE
PhaseKinds == {"vet-credentials", "negotiate-fixed-price", "commit-agreement", "deliver-attested-payload"} \cup Pays
Lines == [index : Nat, kind : PhaseKinds, outcome : {"ok", "fail"}]
Told(q, k) == /\ q \in Seq(Lines) /\ Len(q) = k
              /\ \A i \in 1 .. k : q[i].index = i /\ q[i].kind = Listed.pipeline[i]
Walked(k) == Paced(session.results, k) /\ Len(session.results) = k /\ Told(summary, k)

(* The artifacts on the chain once the first k phases are done.            *)
Vetted == {"buyerVet", "sellerVet"}
Proven(k) ==
  /\ k >= 1 => session.vets = Vetted /\ chain["buyerVet"] = BuyerVet /\ chain["sellerVet"] = SellerVet
  /\ (chain["payment"] # None) = (k >= 4)
  /\ (chain["deliveryEvidence"] # None) = (k >= 5)
  /\ k >= 4 => transfers = 1
  /\ k >= 5 => chain["delivery"].request = deal.request

Depth(p) == IF p = "negotiate" THEN 1 ELSE IF p \in {"commit", "agreed"} THEN 2 ELSE IF p = "settle" THEN 3
            ELSE IF p = "deliver" THEN 4 ELSE IF p \in {"bundle", "bundled", "finalised"} THEN 5 ELSE 0
Failing(k) == IF k < 5 THEN k + 1 ELSE 5
Thrown(k) == Walked(k) /\ Proven(k) /\ fault[2] = Listed.pipeline[Failing(k)]
Bundled ==
  /\ verifyBundle(chain["buyerBundle"], "buyer", {"buyer", "seller"})
  /\ verifyBundle(chain["sellerBundle"], "seller", {"buyer", "seller"})
  /\ sameCanonicalBundle(chain["buyerBundle"], chain["sellerBundle"])
  /\ chain["buyerBundle"].evidence = {chain["payment"], chain["deliveryEvidence"]}
  /\ chain["buyerBundle"].vets = {BuyerVet, SellerVet}
Explained ==
  /\ verifyBundle(chain["buyerBundle"], "buyer", {"buyer"})
  /\ chain["buyerBundle"].evidence = {chain["payment"]} \ {None}
  /\ session.ended

SessionForm(s) == s = [state |-> s.state, results |-> s.results, vets |-> s.vets, ended |-> s.ended]
Ended == {"failed", "lost"}
RecordInv ==
  /\ SessionForm(session)
  /\ at = "start" => Listed \in RunListings
  /\ at \notin {"start", "refused"} => Listed \in RunListings /\ Walk(Listed)
  /\ at \notin Ended \cup {"throw"} => \E k \in 0 .. 5 : k = Depth(at) /\ Walked(k) /\ Proven(k)
  /\ at = "settle" => transfers = 0
  /\ at = "throw" => \E k \in 0 .. 5 : Thrown(k)
  /\ at \in {"bundled", "finalised"} => Bundled
  /\ at \in Ended => \E k \in 0 .. 5 : Paced(session.results, k) /\ Told(summary, k)
  /\ at = "failed" /\ chain["deliveryEvidence"] = None => Explained

LEMMA AtPoint ==
  ASSUME RecordInv, NEW k \in 0 .. 5, Depth(at) = k, at \notin Ended \cup {"throw"}
  PROVE  Walked(k) /\ Proven(k) /\ SessionForm(session)
BY DEF RecordInv

LEMMA RecordsFollow == ASSUME RecordInv PROVE RecordFollowsPipeline
<1>1. \E k \in 0 .. 5 : Paced(session.results, k) /\ Told(summary, k)
  <2>1. CASE at \in Ended
    BY <2>1 DEF RecordInv
  <2>2. CASE at = "throw"
    BY <2>2 DEF RecordInv, Thrown, Walked
  <2>3. CASE at \notin Ended \cup {"throw"}
    BY <2>3 DEF RecordInv, Walked
  <2> QED
    BY <2>1, <2>2, <2>3
<1>2. PICK k \in 0 .. 5 : Paced(session.results, k) /\ Told(summary, k)
  BY <1>1
<1> DEFINE q == session.results
           Ok(i) == q[i].ok = TRUE
<1>3. /\ Len(q) \in {k, k + 1}
      /\ \A i \in 1 .. Len(q) : q[i].index = i
      /\ \A i \in 1 .. Len(q) : i <= k => Ok(i)
  BY <1>2 DEF Paced
<1> HIDE DEF q, Ok
<1>4. /\ \A i \in 1 .. Len(q) : Ok(i) \/ i = Len(q)
      /\ \A i \in 1 .. k : Ok(i)
  BY <1>3
<1>5. /\ \A i \in 1 .. Len(q) : q[i].index = i /\ (~q[i].ok => i = Len(q))
      /\ \A i \in 1 .. k : q[i].ok
  BY <1>3, <1>4, Zenon DEF Ok
<1>6. Len(summary) = k /\ \A i \in 1 .. k : summary[i].kind = Listed.pipeline[i]
  BY <1>2 DEF Told
<1> QED
  BY <1>5, <1>6, Zenon DEF RecordFollowsPipeline, q

LEMMA Evidenced == ASSUME RecordInv PROVE FinalisedIsEvidenced /\ FailureIsExplained
<1>1. at = "finalised" => Proven(5) /\ Bundled
  BY AtPoint DEF RecordInv, Depth, Ended
<1> QED
  BY <1>1 DEF RecordInv, Proven, Bundled, Explained, FinalisedIsEvidenced, FailureIsExplained

(* A phase more is recorded, and none.                                     *)
Phase(n) == /\ session'.results = Append(session.results, [index |-> n, ok |-> TRUE])
            /\ summary' = Append(summary, Entry(n, Listed.pipeline[n], "ok"))
LEMMA OnePhase ==
  ASSUME NEW k \in 0 .. 4, NEW n \in 1 .. 5, n = k + 1, Walk(Listed), Walked(k), Listed' = Listed, Phase(n)
  PROVE  Walked(n)'
<1> DEFINE q == session.results
           e == [index |-> n, ok |-> TRUE]
           l == Entry(n, Listed.pipeline[n], "ok")
<1>1. e \in Phases /\ e.index = n /\ e.ok = TRUE
  BY DEF Phases
<1>2. l \in Lines /\ l.index = n /\ l.kind = Listed.pipeline[n]
  <2> DEFINE kind == Listed.pipeline[n]
  <2>1. kind \in PhaseKinds
    <3> DEFINE p == Listed.pipeline
    <3>1. /\ p[1] = "vet-credentials" /\ p[2] = "negotiate-fixed-price" /\ p[3] = "commit-agreement"
          /\ p[4] \in Pays /\ p[5] = "deliver-attested-payload"
      BY PipelineIndex
    <3> HIDE DEF p
    <3>2. n \in {1, 2, 3, 4, 5}
      OBVIOUS
    <3>3. p[n] \in PhaseKinds
      BY <3>1, <3>2 DEF PhaseKinds
    <3> QED
      BY <3>3 DEF p
  <2> HIDE DEF kind
  <2>2. Entry(n, kind, "ok") \in Lines
    BY <2>1 DEF Lines, Entry
  <2> QED
    BY <2>2 DEF kind, Entry
<1>3. /\ q \in Seq(Phases) /\ Len(q) = k
      /\ \A i \in 1 .. Len(q) : q[i].index = i /\ q[i].ok = IF i <= k THEN TRUE ELSE FALSE
      /\ summary \in Seq(Lines) /\ Len(summary) = k
      /\ \A i \in 1 .. k : summary[i].index = i /\ summary[i].kind = Listed.pipeline[i]
  BY DEF Walked, Paced, Told
<1> DEFINE r == Append(q, e)
           t == Append(summary, l)
<1> HIDE DEF q, e, l
<1>4. /\ r \in Seq(Phases) /\ Len(r) = n
      /\ \A i \in 1 .. k : r[i] = q[i]
      /\ r[n] = e
  BY <1>1, <1>3
<1>5. /\ t \in Seq(Lines) /\ Len(t) = n
      /\ \A i \in 1 .. k : t[i] = summary[i]
      /\ t[n] = l
  BY <1>2, <1>3
<1>6. session'.results = r /\ summary' = t
  BY DEF q, e, l, Phase
<1> HIDE DEF r, t
<1> DEFINE Ok(i) == r[i].ok = TRUE
<1>7. Paced(r, n)
  <2>1. \A i \in 1 .. k : r[i].index = i /\ Ok(i)
    <3> TAKE i \in 1 .. k
    <3>1. q[i].index = i /\ q[i].ok = IF i <= k THEN TRUE ELSE FALSE
      BY <1>3
    <3>2. (i <= k) = TRUE
      OBVIOUS
    <3>3. q[i].ok = TRUE
      BY <3>1, <3>2, Zenon
    <3> QED
      BY <1>4, <3>1, <3>3, Zenon
  <2>2. r[n].index = n /\ Ok(n)
    BY <1>1, <1>4, Zenon
  <2> HIDE DEF Ok
  <2>3. \A i \in 1 .. n : (i \in 1 .. k \/ i = n) /\ (i <= n) = TRUE
    OBVIOUS
  <2>4. \A i \in 1 .. n : r[i].index = i /\ Ok(i)
    BY <2>1, <2>2, <2>3, Zenon
  <2>5. \A i \in 1 .. Len(r) : r[i].index = i /\ r[i].ok = IF i <= n THEN TRUE ELSE FALSE
    BY <1>4, <2>3, <2>4, Zenon DEF Ok
  <2> QED
    BY <1>4, <2>5 DEF Paced
<1>8. \A i \in 1 .. n : t[i].index = i /\ t[i].kind = Listed.pipeline[i]
  <2> TAKE i \in 1 .. n
  <2>1. CASE i = n
    BY <1>2, <1>5, <2>1
  <2>2. CASE i \in 1 .. k
    BY <1>3, <1>5, <2>2
  <2> QED
    BY <2>1, <2>2
<1>9. Told(summary, n)'
  BY <1>5, <1>6, <1>8 DEF Told
<1> QED
  BY <1>4, <1>6, <1>7, <1>9 DEF Walked

LEMMA WalkedStays ==
  ASSUME NEW k, Walked(k), session'.results = session.results, UNCHANGED summary, Listed' = Listed
  PROVE  Walked(k)'
BY DEF Walked, Told

LEMMA ProvenStays ==
  ASSUME NEW k, Proven(k), session'.vets = session.vets, Listed' = Listed,
         k >= 4 => UNCHANGED transfers, k >= 5 => UNCHANGED deal,
         \A s \in {"buyerVet", "sellerVet", "payment", "delivery", "deliveryEvidence"} : chain'[s] = chain[s]
  PROVE  Proven(k)'
<1>1. BuyerVet' = BuyerVet /\ SellerVet' = SellerVet
  BY DEF BuyerVet, SellerVet, BuyerId, SellerId
<1> QED
  BY <1>1 DEF Proven

(* Where the runner goes on to, and what the catch block finds.            *)
LEMMA ToPoint ==
  ASSUME NEW k \in 0 .. 5, Depth(at') = k, Walked(k)', Proven(k)', SessionForm(session)',
         at' \notin Ended \cup {"throw", "start", "refused"}, Listed \in RunListings, Walk(Listed), Listed' = Listed,
         at' = "settle" => transfers' = 0, at' \in {"bundled", "finalised"} => Bundled'
  PROVE  RecordInv'
BY DEF RecordInv, Ended, SessionForm

LEMMA ToThrow ==
  ASSUME NEW k \in 0 .. 5, NEW stage, Throw(stage, Listed.pipeline[Failing(k)]),
         Walked(k)', Proven(k)', SessionForm(session)', Listed \in RunListings, Walk(Listed), Listed' = Listed
  PROVE  RecordInv'
<1>1. at' = "throw" /\ fault'[2] = Listed.pipeline[Failing(k)]
  BY DEF Throw
<1>2. Thrown(k)'
  BY <1>1 DEF Thrown
<1> QED
  BY <1>1, <1>2 DEF RecordInv, Ended, SessionForm

LEMMA StartRecords == ASSUME RunInv, RecordInv, RunStart PROVE RecordInv'
<1>1. /\ at = "start" /\ Listed \in RunListings
      /\ UNCHANGED <<shop, session, summary, deal, chain, transfers>>
      /\ at' = "refused" \/ (at' = "identified" /\ verifyListing(Listed, runClock, None))
  BY DEF RunStart, RecordInv, Go
<1>2. Walked(0) /\ Proven(0) /\ SessionForm(session) /\ Listed' = Listed
  BY <1>1, AtPoint DEF Depth, Ended, Listed
<1>3. Walked(0)' /\ Proven(0)' /\ SessionForm(session)'
  BY <1>1, <1>2, WalkedStays, ProvenStays DEF SessionForm
<1>4. CASE at' = "refused"
  BY <1>3, <1>4 DEF RecordInv, Depth, Ended
<1>5. CASE at' = "identified" /\ verifyListing(Listed, runClock, None)
  <2>1. Walk(Listed)
    BY <1>1, <1>5, RunAssumption DEF verifyListing, Walk
  <2> QED
    BY <1>1, <1>2, <1>3, <1>5, <2>1, ToPoint DEF Depth, Ended
<1> QED
  BY <1>1, <1>4, <1>5

(* The session record with one result more.                                *)
LEMMA RecordedForm ==
  ASSUME SessionForm(session), NEW i, NEW ok
  PROVE  /\ Recorded(i, ok).results = Append(session.results, [index |-> i, ok |-> ok])
         /\ Recorded(i, ok).vets = session.vets /\ Recorded(i, ok).ended = session.ended
         /\ SessionForm(Recorded(i, ok))
<1> DEFINE r == Append(session.results, [index |-> i, ok |-> ok])
<1>1. Recorded(i, ok) = [session EXCEPT !.results = r]
  BY DEF Recorded
<1> HIDE DEF r
<1>2. [session EXCEPT !.results = r].results = r
  BY DEF SessionForm
<1>3. /\ Recorded(i, ok).results = r /\ SessionForm(Recorded(i, ok))
      /\ Recorded(i, ok).vets = session.vets /\ Recorded(i, ok).ended = session.ended
  BY <1>1, <1>2 DEF SessionForm
<1> QED
  BY <1>3 DEF r

LEMMA TransitionForm ==
  ASSUME NEW s, SessionForm(s), NEW state
  PROVE  /\ Transition(s, state).results = s.results /\ Transition(s, state).vets = s.vets
         /\ Transition(s, state).ended = s.ended /\ SessionForm(Transition(s, state))
BY DEF SessionForm, Transition

LEMMA PhaseSession ==
  ASSUME SessionForm(session), NEW n, NEW state, session' = Transition(Recorded(n, TRUE), state)
  PROVE  /\ session'.results = Append(session.results, [index |-> n, ok |-> TRUE])
         /\ session'.vets = session.vets /\ SessionForm(session)'
<1> DEFINE x == Recorded(n, TRUE)
<1>1. /\ x.results = Append(session.results, [index |-> n, ok |-> TRUE]) /\ x.vets = session.vets
      /\ SessionForm(x)
  BY RecordedForm, Zenon
<1>2. session' = Transition(x, state)
  OBVIOUS
<1> HIDE DEF x
<1> DEFINE y == Transition(x, state)
<1>3. y.results = x.results /\ y.vets = x.vets /\ SessionForm(y)
  BY <1>1, TransitionForm, Zenon
<1> HIDE DEF y
<1>4. session' = y
  BY <1>2 DEF y
<1> QED
  BY <1>1, <1>3, <1>4 DEF SessionForm

(* The state in which a phase is run.                                      *)
Ready(k) == Walked(k) /\ Proven(k) /\ SessionForm(session) /\ Listed \in RunListings /\ Walk(Listed)

LEMMA AtPhase ==
  ASSUME RecordInv, NEW k \in 0 .. 5, Depth(at) = k, at \notin Ended \cup {"throw", "start", "refused"}
  PROVE  Ready(k)
BY AtPoint DEF RecordInv, Ready

LEMMA VetRecords == ASSUME RunInv, RecordInv, RunVet PROVE RecordInv'
<1>1. at = "identified" /\ UNCHANGED <<shop, deal, transfers>>
  BY DEF RunVet
<1>2. Ready(0)
  BY <1>1, AtPhase DEF Depth, Ended
<1>3. Listed' = Listed /\ Index({"vet-credentials"}) = 1 /\ Listed.pipeline[1] = "vet-credentials"
  BY <1>1, <1>2, PipelineIndex DEF Index, Listed, Ready
<1>4. PICK done \in {{}, {"buyerVet"}, {"buyerVet", "sellerVet"}} :
         /\ chain' = [s \in Slots |-> IF s \notin done THEN chain[s]
                                      ELSE IF s = "buyerVet" THEN BuyerVet ELSE SellerVet]
         /\ \/ /\ "sellerVet" \in done
               /\ session' = [Transition(Recorded(1, TRUE), "negotiate-pending") EXCEPT !.vets = done]
               /\ summary' = Append(summary, Entry(1, "vet-credentials", "ok"))
               /\ at' = "negotiate"
            \/ /\ session' = Transition(session, "vet-pending")
               /\ Throw("vet", "vet-credentials")
               /\ UNCHANGED summary
  BY <1>3 DEF RunVet, Done, Go
<1>5. \A s \in {"payment", "delivery", "deliveryEvidence"} : chain'[s] = chain[s]
  BY <1>4 DEF Slots
<1>6. Proven(0)'
  BY <1>2, <1>5 DEF Ready, Proven
<1>7. ASSUME Throw("vet", "vet-credentials"), session' = Transition(session, "vet-pending"), UNCHANGED summary
      PROVE  RecordInv'
  <2>1. session'.results = session.results /\ SessionForm(session)'
    BY <1>2, <1>7, TransitionForm DEF Ready, SessionForm
  <2>2. Walked(0)'
    BY <1>2, <1>3, <1>7, <2>1, WalkedStays DEF Ready
  <2> QED
    BY <1>2, <1>3, <1>6, <1>7, <2>1, <2>2, ToThrow DEF Ready, Failing
<1>8. ASSUME "sellerVet" \in done, at' = "negotiate",
             session' = [Transition(Recorded(1, TRUE), "negotiate-pending") EXCEPT !.vets = done],
             summary' = Append(summary, Entry(1, "vet-credentials", "ok"))
      PROVE  RecordInv'
  <2>1. /\ session'.results = Append(session.results, [index |-> 1, ok |-> TRUE])
        /\ session'.vets = done /\ SessionForm(session)'
    <3> DEFINE s == Transition(Recorded(1, TRUE), "negotiate-pending")
    <3>1. s.results = Append(session.results, [index |-> 1, ok |-> TRUE]) /\ SessionForm(s)
      <4> DEFINE x == Recorded(1, TRUE)
      <4>1. x.results = Append(session.results, [index |-> 1, ok |-> TRUE]) /\ SessionForm(x)
        BY <1>2, RecordedForm, Zenon DEF Ready
      <4> HIDE DEF x
      <4>2. Transition(x, "negotiate-pending").results = x.results /\ SessionForm(Transition(x, "negotiate-pending"))
        BY <4>1, TransitionForm, Zenon
      <4> QED
        BY <4>1, <4>2 DEF x
    <3>2. session' = [s EXCEPT !.vets = done]
      BY <1>8
    <3> HIDE DEF s
    <3> QED
      BY <3>1, <3>2 DEF SessionForm
  <2>2. Walked(1)'
    <3>1. Phase(1)
      BY <1>3, <1>8, <2>1 DEF Phase
    <3>2. 0 \in 0 .. 4 /\ 1 \in 1 .. 5 /\ 1 = 0 + 1
      OBVIOUS
    <3> QED
      BY <1>2, <1>3, <3>1, <3>2, OnePhase, Zenon DEF Ready
  <2>3. done = Vetted
    BY <1>4, <1>8 DEF Vetted
  <2>4. chain'["buyerVet"] = BuyerVet /\ chain'["sellerVet"] = SellerVet
    BY <1>4, <2>3 DEF Slots, Vetted
  <2>5. BuyerVet' = BuyerVet /\ SellerVet' = SellerVet
    BY <1>3 DEF BuyerVet, SellerVet, BuyerId, SellerId
  <2>6. Proven(1)'
    BY <1>6, <2>1, <2>3, <2>4, <2>5 DEF Proven
  <2> QED
    BY <1>2, <1>3, <1>8, <2>1, <2>2, <2>6, ToPoint DEF Ready, Depth, Ended
<1> QED
  BY <1>4, <1>7, <1>8

(* A phase that was run to its end, and one that threw.                    *)
LEMMA ToPhase ==
  ASSUME NEW k \in 0 .. 4, NEW n \in 1 .. 5, n = k + 1, Ready(k), Listed' = Listed, Phase(n), SessionForm(session)',
         Proven(n)', Depth(at') = n, at' \in {"commit", "settle", "deliver", "bundle"},
         at' = "settle" => transfers' = 0
  PROVE  RecordInv'
<1>1. Walked(n)'
  BY OnePhase, Zenon DEF Ready
<1>2. n \in 0 .. 5 /\ at' \notin Ended \cup {"throw", "start", "refused", "bundled", "finalised"}
  BY DEF Ended
<1> QED
  BY <1>1, <1>2, ToPoint DEF Ready

LEMMA ToFailure ==
  ASSUME NEW k \in 0 .. 5, NEW stage, NEW kind, Throw(stage, kind), NEW n, n = Failing(k), kind = Listed.pipeline[n],
         Ready(k), Listed' = Listed, UNCHANGED <<session, summary>>, Proven(k)'
  PROVE  RecordInv'
<1>1. Walked(k)' /\ SessionForm(session)'
  BY WalkedStays DEF Ready, SessionForm
<1> QED
  BY <1>1, ToThrow DEF Ready

LEMMA NegotiateRecords == ASSUME RunInv, RecordInv, RunNegotiate PROVE RecordInv'
<1>1. at = "negotiate" /\ UNCHANGED <<shop, chain, transfers>>
  BY DEF RunNegotiate
<1>2. Ready(1)
  BY <1>1, AtPhase DEF Depth, Ended
<1>3. Listed' = Listed /\ Index({"negotiate-fixed-price"}) = 2 /\ Listed.pipeline[2] = "negotiate-fixed-price"
  BY <1>1, <1>2, PipelineIndex DEF Index, Listed, Ready
<1>4. CASE Throw("negotiate", "negotiate-fixed-price") /\ UNCHANGED <<session, summary, deal>>
  <2>1. Proven(1)'
    BY <1>1, <1>2, <1>3, <1>4, ProvenStays DEF Ready
  <2> QED
    BY <1>2, <1>3, <1>4, <2>1, ToFailure DEF Failing
<1>5. CASE /\ session' = Transition(Recorded(2, TRUE), "commit-pending")
           /\ summary' = Append(summary, Entry(2, "negotiate-fixed-price", "ok"))
           /\ at' = "commit"
  <2>1. /\ session'.results = Append(session.results, [index |-> 2, ok |-> TRUE])
        /\ session'.vets = session.vets /\ SessionForm(session)'
    BY <1>2, <1>5, PhaseSession DEF Ready
  <2>2. Phase(2)
    BY <1>3, <1>5, <2>1 DEF Phase
  <2>3. Proven(2)'
    <3>1. BuyerVet' = BuyerVet /\ SellerVet' = SellerVet
      BY <1>3 DEF BuyerVet, SellerVet, BuyerId, SellerId
    <3> QED
      BY <1>1, <1>2, <2>1, <3>1 DEF Proven, Ready
  <2> QED
    BY <1>2, <1>3, <1>5, <2>1, <2>2, <2>3, ToPhase DEF Depth
<1> QED
  BY <1>3, <1>4, <1>5 DEF RunNegotiate, Go, Done

LEMMA AnchorAgreementRecords == ASSUME RunInv, RecordInv, RunAnchorAgreement PROVE RecordInv'
<1>1. at = "commit" /\ UNCHANGED <<shop, session, summary, deal, transfers>>
  BY DEF RunAnchorAgreement
<1>2. Ready(2)
  BY <1>1, AtPhase DEF Depth, Ended
<1>3. Listed' = Listed /\ Listed.pipeline[3] = "commit-agreement"
  BY <1>1, <1>2, PipelineIndex DEF Listed, Ready
<1>4. \/ chain' = [chain EXCEPT !["agreement"] = deal] /\ at' = "agreed"
      \/ chain' = chain /\ Throw("commit", "commit-agreement")
  BY DEF RunAnchorAgreement, Go
<1>5. \A s \in {"buyerVet", "sellerVet", "payment", "delivery", "deliveryEvidence"} : chain'[s] = chain[s]
  BY <1>4 DEF RunInv, Slots
<1>6. Proven(2)'
  BY <1>1, <1>2, <1>3, <1>5, ProvenStays DEF Ready
<1>7. CASE Throw("commit", "commit-agreement")
  BY <1>1, <1>2, <1>3, <1>6, <1>7, ToFailure DEF Failing
<1>8. CASE at' = "agreed"
  <2>1. Walked(2)' /\ SessionForm(session)'
    BY <1>1, <1>2, <1>3, WalkedStays DEF Ready, SessionForm
  <2> QED
    BY <1>2, <1>3, <1>6, <1>8, <2>1, ToPoint DEF Ready, Depth, Ended
<1> QED
  BY <1>4, <1>7, <1>8

LEMMA AnchorCommitmentRecords == ASSUME RunInv, RecordInv, RunAnchorCommitment PROVE RecordInv'
<1>1. at = "agreed" /\ UNCHANGED <<shop, deal, transfers>> /\ transfers = 0
  BY DEF RunAnchorCommitment, RunInv, BeforeSettle
<1>2. Ready(2)
  BY <1>1, AtPhase DEF Depth, Ended
<1>3. Listed' = Listed /\ Index({"commit-agreement"}) = 3 /\ Listed.pipeline[3] = "commit-agreement"
  BY <1>1, <1>2, PipelineIndex DEF Index, Listed, Ready
<1>4. /\ chain' = chain \/ \E c : chain' = [chain EXCEPT !["commitment"] = c]
      /\ \/ /\ session' = Transition(Recorded(3, TRUE), "settle-pending")
            /\ summary' = Append(summary, Entry(3, "commit-agreement", "ok"))
            /\ at' = "settle"
         \/ Throw("commit", "commit-agreement") /\ UNCHANGED <<session, summary>>
  BY <1>3 DEF RunAnchorCommitment, Go, Done
<1>5. \A s \in {"buyerVet", "sellerVet", "payment", "delivery", "deliveryEvidence"} : chain'[s] = chain[s]
  BY <1>4 DEF RunInv, Slots
<1>6. CASE Throw("commit", "commit-agreement") /\ UNCHANGED <<session, summary>>
  <2>1. Proven(2)'
    BY <1>1, <1>2, <1>3, <1>5, <1>6, ProvenStays DEF Ready
  <2> QED
    BY <1>2, <1>3, <1>6, <2>1, ToFailure DEF Failing
<1>7. CASE /\ session' = Transition(Recorded(3, TRUE), "settle-pending")
           /\ summary' = Append(summary, Entry(3, "commit-agreement", "ok"))
           /\ at' = "settle"
  <2>1. /\ session'.results = Append(session.results, [index |-> 3, ok |-> TRUE])
        /\ session'.vets = session.vets /\ SessionForm(session)'
    BY <1>2, <1>7, PhaseSession DEF Ready
  <2>2. Phase(3)
    BY <1>3, <1>7, <2>1 DEF Phase
  <2>3. Proven(3)'
    <3>1. BuyerVet' = BuyerVet /\ SellerVet' = SellerVet
      BY <1>3 DEF BuyerVet, SellerVet, BuyerId, SellerId
    <3> QED
      BY <1>1, <1>2, <1>5, <2>1, <3>1 DEF Proven, Ready
  <2> QED
    BY <1>1, <1>2, <1>3, <1>7, <2>1, <2>2, <2>3, ToPhase DEF Depth
<1> QED
  BY <1>4, <1>6, <1>7

(* The evidence of a payment is anchored only for a final transaction.     *)
LEMMA SettleRecords == ASSUME RunInv, RecordInv, RunSettle PROVE RecordInv'
<1>1. at = "settle" /\ UNCHANGED <<shop, deal>> /\ transfers = 0 /\ deal.price = Listed.pricing.amount
  BY DEF RunSettle, RunInv, RecordInv, Committed, Bargained
<1>2. Ready(3)
  BY <1>1, AtPhase DEF Depth, Ended
<1>3. /\ Listed' = Listed /\ Index(Pays) = 4 /\ Index({PayKind}) = 4
      /\ PayKind = Listed.pipeline[4] /\ PayKind \in Pays
  BY <1>1, <1>2, PipelineIndex DEF Index, Listed, Ready, PayKind
<1>4. BuyerVet' = BuyerVet /\ SellerVet' = SellerVet
  BY <1>3 DEF BuyerVet, SellerVet, BuyerId, SellerId
<1>5. PICK moved \in BOOLEAN, receipt \in {"tx", None}, anchored \in BOOLEAN :
         LET e == signSettlementEvidence(RunJob, PayKind, deal.price, receipt, Buyer) IN
         /\ receipt = "tx" => moved
         /\ anchored => verifyEvidence(e, Buyer, deal)
         /\ transfers' = IF moved THEN transfers + 1 ELSE transfers
         /\ IF anchored
            THEN /\ chain' = [chain EXCEPT !["payment"] = e]
                 /\ session' = Recorded(4, TRUE)
                 /\ summary' = Append(summary, Entry(4, PayKind, "ok"))
                 /\ at' = "deliver"
            ELSE Throw("settle", PayKind) /\ UNCHANGED <<chain, session, summary>>
  BY <1>3 DEF RunSettle, Go, Done
<1>6. CASE ~anchored
  <2>1. Throw("settle", PayKind) /\ UNCHANGED <<chain, session, summary>>
    BY <1>5, <1>6
  <2>2. Proven(3)'
    BY <1>2, <2>1, <1>4 DEF Proven, Ready
  <2> QED
    BY <1>2, <1>3, <2>1, <2>2, ToFailure DEF Failing
<1>7. CASE anchored
  <2> DEFINE e == signSettlementEvidence(RunJob, PayKind, deal.price, receipt, Buyer)
  <2>1. /\ verifyEvidence(e, Buyer, deal) /\ chain' = [chain EXCEPT !["payment"] = e]
        /\ session' = Recorded(4, TRUE) /\ summary' = Append(summary, Entry(4, PayKind, "ok")) /\ at' = "deliver"
    BY <1>5, <1>7
  <2>2. receipt = "tx"
    BY <1>5, <2>1 DEF verifyEvidence, signSettlementEvidence
  <2>3. transfers' = 1
    BY <1>1, <1>5, <2>2
  <2>4. e # None
    BY <1>1, <1>2, <1>3, <2>2, RunAssumption DEF Ready
  <2> HIDE DEF e
  <2>5. /\ session'.results = Append(session.results, [index |-> 4, ok |-> TRUE])
        /\ session'.vets = session.vets /\ SessionForm(session)'
    BY <1>2, <2>1, RecordedForm DEF Ready, SessionForm
  <2>6. Phase(4)
    BY <1>3, <2>1, <2>5 DEF Phase
  <2>7. /\ \A s \in {"buyerVet", "sellerVet", "delivery", "deliveryEvidence"} : chain'[s] = chain[s]
         /\ chain'["payment"] = e
    BY <2>1 DEF RunInv, Slots
  <2>8. Proven(4)'
    BY <1>2, <1>4, <2>3, <2>4, <2>5, <2>7 DEF Proven, Ready
  <2> QED
    BY <1>2, <1>3, <2>1, <2>5, <2>6, <2>8, ToPhase DEF Depth
<1> QED
  BY <1>6, <1>7

(* A delivery is evidenced only for the request of the deal.               *)
LEMMA DeliverRecords == ASSUME RunInv, RecordInv, RunDeliver PROVE RecordInv'
<1>1. at = "deliver" /\ UNCHANGED <<shop, deal, transfers>>
  BY DEF RunDeliver
<1>2. Ready(4)
  BY <1>1, AtPhase DEF Depth, Ended
<1>3. /\ Listed' = Listed /\ Index(Delivers) = 5 /\ Index({DelKind}) = 5
      /\ DelKind = Listed.pipeline[5] /\ DelKind = "deliver-attested-payload"
  BY <1>1, <1>2, PipelineIndex DEF Index, Listed, Ready, DelKind
<1>4. BuyerVet' = BuyerVet /\ SellerVet' = SellerVet
  BY <1>3 DEF BuyerVet, SellerVet, BuyerId, SellerId
<1>5. deal.request = RunRequest
  BY <1>2 DEF Ready, Proven, RunInv, Committed, Bargained
<1>6. PICK did \in {None, RunRequest, OtherRequest}, anchored \in BOOLEAN :
         LET att == [job |-> RunJob, request |-> did]
             e   == signSettlementEvidence(RunJob, DelKind, 0, att, Seller) IN
         /\ anchored => did = deal.request
         /\ chain' = [chain EXCEPT !["delivery"] = IF did = None THEN @ ELSE att,
                                   !["deliveryEvidence"] = IF anchored THEN e ELSE @]
         /\ IF anchored
            THEN /\ session' = Recorded(5, TRUE)
                 /\ summary' = Append(summary, Entry(5, DelKind, "ok"))
                 /\ at' = "bundle"
            ELSE Throw("settle", DelKind) /\ UNCHANGED <<session, summary>>
  BY <1>3 DEF RunDeliver, Go, Done, RequestBound
<1> DEFINE att == [job |-> RunJob, request |-> did]
           e   == signSettlementEvidence(RunJob, DelKind, 0, att, Seller)
<1>7. /\ \A s \in {"buyerVet", "sellerVet", "payment"} : chain'[s] = chain[s]
      /\ chain'["delivery"] = IF did = None THEN chain["delivery"] ELSE att
      /\ chain'["deliveryEvidence"] = IF anchored THEN e ELSE chain["deliveryEvidence"]
  <2>1. chain' = [chain EXCEPT !["delivery"] = IF did = None THEN @ ELSE att,
                               !["deliveryEvidence"] = IF anchored THEN e ELSE @]
    BY <1>6
  <2> HIDE DEF att, e
  <2> QED
    BY <2>1 DEF RunInv, Slots
<1>8. CASE ~anchored
  <2>1. Throw("settle", DelKind) /\ UNCHANGED <<session, summary>> /\ chain'["deliveryEvidence"] = chain["deliveryEvidence"]
    BY <1>6, <1>7, <1>8
  <2>2. Proven(4)'
    BY <1>1, <1>2, <1>4, <1>7, <2>1 DEF Proven, Ready
  <2>3. 5 = Failing(4) /\ 4 \in 0 .. 5
    BY DEF Failing
  <2> QED
    BY <1>2, <1>3, <2>1, <2>2, <2>3, ToFailure, Zenon
<1>9. CASE anchored
  <2>1. /\ did = RunRequest /\ session' = Recorded(5, TRUE)
        /\ summary' = Append(summary, Entry(5, DelKind, "ok")) /\ at' = "bundle"
    BY <1>5, <1>6, <1>9
  <2>2. chain'["delivery"] = att /\ att.request = deal.request /\ chain'["deliveryEvidence"] = e /\ e # None
    BY <1>3, <1>5, <1>7, <1>9, <2>1, RunAssumption
  <2> HIDE DEF att, e
  <2>5. /\ session'.results = Append(session.results, [index |-> 5, ok |-> TRUE])
        /\ session'.vets = session.vets /\ SessionForm(session)'
    BY <1>2, <2>1, RecordedForm DEF Ready, SessionForm
  <2>6. Phase(5)
    BY <1>3, <2>1, <2>5 DEF Phase
  <2>7. Proven(5)'
    BY <1>1, <1>2, <1>4, <1>7, <2>2, <2>5 DEF Proven, Ready
  <2> QED
    BY <1>2, <1>3, <2>1, <2>5, <2>6, <2>7, ToPhase DEF Depth
<1> QED
  BY <1>8, <1>9

(* What a bundle cites: the evidence of the phases recorded as done, and   *)
(* the two vet records.                                                    *)
Cited(n) == \E i \in 1 .. Len(session.results) : session.results[i].ok /\ session.results[i].index = n

LEMMA CitedIs ==
  ASSUME NEW k \in 0 .. 5, Walked(k), NEW n \in 1 .. 5
  PROVE  (n <= k => Cited(n)) /\ (k < n => ~Cited(n))
<1> DEFINE q == session.results
           Ok(i) == q[i].ok = TRUE
           C == \E i \in 1 .. Len(q) : Ok(i) /\ q[i].index = n
<1>1. /\ Len(q) = k
      /\ \A i \in 1 .. Len(q) : q[i].index = i
      /\ \A i \in 1 .. Len(q) : i <= k => Ok(i)
  BY DEF Walked, Paced
<1>2. C => Cited(n)
  BY Zenon DEF Cited
<1>3. Cited(n) => C
  <2> SUFFICES ASSUME NEW i \in 1 .. Len(q), q[i].ok, q[i].index = n PROVE C
    BY Zenon DEF Cited
  <2>1. i <= k
    BY <1>1
  <2>2. Ok(i)
    BY <1>1, <2>1, Zenon
  <2> QED
    BY <2>2, Zenon
<1> HIDE DEF Ok
<1>4. (n <= k => C) /\ (k < n => ~C)
  <2> HIDE DEF q
  <2> QED
    BY <1>1
<1> HIDE DEF C
<1> QED
  BY <1>2, <1>3, <1>4

LEMMA EvidenceIs ==
  ASSUME Walk(Listed)
  PROVE  evidenceRefs = {chain[s] : s \in {x \in {"payment", "deliveryEvidence"} :
                                              Cited(IF x = "payment" THEN 4 ELSE 5)}}
<1>1. Index(Pays) = 4 /\ Index(Delivers) = 5
  BY PipelineIndex DEF Index
<1> QED
  BY <1>1 DEF evidenceRefs, Cited

LEMMA CitedAll ==
  ASSUME Ready(5)
  PROVE  evidenceRefs = {chain["payment"], chain["deliveryEvidence"]} /\ vetRefs = {BuyerVet, SellerVet}
<1>1. Cited(4) /\ Cited(5)
  BY CitedIs DEF Ready
<1>2. evidenceRefs = {chain["payment"], chain["deliveryEvidence"]}
  BY <1>1, EvidenceIs DEF Ready
<1>3. vetRefs = {BuyerVet, SellerVet}
  BY DEF Ready, Proven, vetRefs, Vetted
<1> QED
  BY <1>2, <1>3

LEMMA CitedPayment ==
  ASSUME NEW k \in 0 .. 4, Walk(Listed), Walked(k), Proven(k)
  PROVE  evidenceRefs = {chain["payment"]} \ {None}
<1>1. ~Cited(5)
  BY CitedIs
<1>2. CASE k = 4
  <2>1. Cited(4) /\ chain["payment"] # None
    BY <1>2, CitedIs DEF Proven
  <2> QED
    BY <1>1, <2>1, EvidenceIs
<1>3. CASE k < 4
  <2>1. ~Cited(4) /\ chain["payment"] = None
    BY <1>3, CitedIs DEF Proven
  <2> QED
    BY <1>1, <2>1, EvidenceIs
<1> QED
  BY <1>2, <1>3

LEMMA BundleRecords == ASSUME RunInv, RecordInv, RunBundle PROVE RecordInv'
<1> DEFINE body == BundleBody("completed", chain["agreement"], summary)
           mine == addBundleSignature(addBundleSignature(body, Buyer), Seller)
           yours == [mine EXCEPT !.anchoredByRole = "seller"]
<1>1. at = "bundle" /\ UNCHANGED <<shop, session, summary, deal, transfers>>
  BY DEF RunBundle
<1>2. Ready(5)
  BY <1>1, AtPhase DEF Depth, Ended
<1>3. Listed' = Listed /\ DelKind = Listed.pipeline[5]
  BY <1>1, <1>2, PipelineIndex DEF Index, Listed, Ready, DelKind
<1>4. BuyerVet' = BuyerVet /\ SellerVet' = SellerVet
  BY <1>3 DEF BuyerVet, SellerVet, BuyerId, SellerId
<1>5. PICK done \in SUBSET {"buyerBundle", "sellerBundle"} :
         /\ "sellerBundle" \in done => "buyerBundle" \in done
         /\ done # {} => /\ verifyBundle(mine, "buyer", {"buyer", "seller"})
                         /\ verifyBundle(yours, "seller", {"buyer", "seller"})
                         /\ sameCanonicalBundle(mine, yours)
         /\ chain' = [s \in Slots |-> IF s \notin done THEN chain[s] ELSE IF s = "buyerBundle" THEN mine ELSE yours]
         /\ IF "sellerBundle" \in done THEN at' = "bundled" ELSE Throw("settle", DelKind)
  BY DEF RunBundle, Go
<1>6. mine.evidence = evidenceRefs /\ mine.vets = vetRefs
  <2>1. addBundleSignature(body, Buyer).evidence = evidenceRefs /\ addBundleSignature(body, Buyer).vets = vetRefs
    BY DEF addBundleSignature, Signed, BundleBody
  <2> QED
    BY <2>1 DEF addBundleSignature, Signed, BundleBody
<1> HIDE DEF mine, yours, body
<1>7. \A s \in {"buyerVet", "sellerVet", "payment", "delivery", "deliveryEvidence"} : chain'[s] = chain[s]
  BY <1>5 DEF Slots
<1>8. Walked(5)' /\ Proven(5)' /\ SessionForm(session)'
  BY <1>1, <1>2, <1>3, <1>7, WalkedStays, ProvenStays DEF Ready, SessionForm
<1>9. CASE "sellerBundle" \in done
  <2>1. chain'["buyerBundle"] = mine /\ chain'["sellerBundle"] = yours
    BY <1>5, <1>9 DEF Slots
  <2>2. /\ mine.evidence = {chain'["payment"], chain'["deliveryEvidence"]}
        /\ mine.vets = {BuyerVet, SellerVet}
    BY <1>2, <1>6, <1>7, CitedAll
  <2>3. Bundled'
    BY <1>4, <1>5, <1>9, <2>1, <2>2 DEF Bundled
  <2> QED
    BY <1>2, <1>3, <1>5, <1>8, <1>9, <2>3, ToPoint DEF Ready, Depth, Ended
<1>10. CASE "sellerBundle" \notin done
  <2>1. Throw("settle", DelKind)
    BY <1>5, <1>10
  <2>2. 5 = Failing(5) /\ 5 \in 0 .. 5
    BY DEF Failing
  <2> QED
    BY <1>1, <1>2, <1>3, <1>8, <2>1, <2>2, ToFailure, Zenon
<1> QED
  BY <1>9, <1>10

LEMMA FinaliseRecords == ASSUME RunInv, RecordInv, RunFinalise PROVE RecordInv'
<1>1. /\ at = "bundled" /\ at' = "finalised" /\ UNCHANGED <<shop, summary, deal, chain, transfers>>
      /\ session' = [session EXCEPT !.state = "finalised", !.ended = TRUE]
  BY DEF RunFinalise, Go
<1>2. Ready(5) /\ Bundled
  BY <1>1, AtPhase DEF Depth, Ended, RecordInv
<1>3. /\ Listed' = Listed /\ BuyerVet' = BuyerVet /\ SellerVet' = SellerVet
      /\ session'.results = session.results /\ session'.vets = session.vets /\ SessionForm(session)'
  BY <1>1, <1>2 DEF Listed, BuyerVet, SellerVet, BuyerId, SellerId, Ready, SessionForm
<1>4. Walked(5)' /\ Proven(5)' /\ Bundled'
  BY <1>1, <1>2, <1>3, WalkedStays, ProvenStays DEF Ready, Bundled
<1> QED
  BY <1>1, <1>2, <1>3, <1>4, ToPoint DEF Ready, Depth, Ended

(* The catch block: the phase that threw is recorded once, and the bundle  *)
(* it leaves verifies with the buyer's signature.                          *)
LEMMA HashUnsigned ==
  ASSUME NEW x, NEW S PROVE bundleHash([x EXCEPT !.sigs = S]) = bundleHash(x)
BY DEF bundleHash, standardHash

Failure(k, agreement) ==
  addBundleSignature(BundleBody("failed-perm", agreement,
                                Append(summary, Entry(Failing(k), Listed.pipeline[Failing(k)], "fail"))), Buyer)

LEMMA FailureVerifies ==
  ASSUME NEW k \in 0 .. 4, NEW agreement, Ready(k)
  PROVE  /\ verifyBundle(Failure(k, agreement), "buyer", {"buyer"})
         /\ Failure(k, agreement).evidence = evidenceRefs
<1> DEFINE entry == Entry(Failing(k), Listed.pipeline[Failing(k)], "fail")
           lines == Append(summary, entry)
           body == BundleBody("failed-perm", agreement, lines)
           sig == signHash(Buyer, "bundle", bundleHash(body))
           b == Failure(k, agreement)
<1>1. entry \in Lines /\ entry.index = k + 1 /\ entry.outcome = "fail"
  <2> DEFINE kind == Listed.pipeline[Failing(k)]
  <2>1. Failing(k) = k + 1
    BY DEF Failing
  <2>2. kind \in PhaseKinds
    <3> DEFINE p == Listed.pipeline
    <3>1. /\ p[1] = "vet-credentials" /\ p[2] = "negotiate-fixed-price" /\ p[3] = "commit-agreement"
          /\ p[4] \in Pays /\ p[5] = "deliver-attested-payload"
      BY PipelineIndex DEF Ready
    <3> HIDE DEF p
    <3>2. k + 1 \in {1, 2, 3, 4, 5}
      OBVIOUS
    <3>3. p[k + 1] \in PhaseKinds
      BY <3>1, <3>2 DEF PhaseKinds
    <3> QED
      BY <2>1, <3>3 DEF p
  <2> HIDE DEF kind
  <2>3. Entry(k + 1, kind, "fail") \in Lines
    BY <2>2 DEF Lines, Entry
  <2> QED
    BY <2>1, <2>3 DEF kind, Entry
<1>2. summary \in Seq(Lines) /\ Len(summary) = k /\ \A i \in 1 .. k : summary[i].index = i
  BY DEF Ready, Walked, Told
<1> HIDE DEF entry
<1>3. /\ Len(lines) = k + 1 /\ lines[k + 1] = entry
      /\ \A i \in 1 .. k : lines[i] = summary[i]
  BY <1>1, <1>2
<1> HIDE DEF lines
<1>4. \A i \in 1 .. k + 1 : lines[i].index = i
  <2> TAKE i \in 1 .. k + 1
  <2>1. CASE i = k + 1
    BY <1>1, <1>3, <2>1
  <2>2. CASE i \in 1 .. k
    BY <1>2, <1>3, <2>2
  <2> QED
    BY <2>1, <2>2
<1>5. b = [body EXCEPT !.sigs = {s \in body.sigs : s.by # Buyer} \cup {sig}]
  BY DEF Failure, addBundleSignature, Signed, lines, entry
<1>6. /\ b.anchoredByRole = "buyer" /\ b.outcome = "failed-perm" /\ b.summary = lines /\ b.evidence = evidenceRefs
      /\ b.parties = {[role |-> "buyer",  claim |-> Buyer,  bundle |-> identityHash(BuyerId)],
                      [role |-> "seller", claim |-> Seller, bundle |-> identityHash(SellerId)]}
      /\ sig \in b.sigs
  <2> DEFINE S == {s \in body.sigs : s.by # Buyer} \cup {sig}
  <2>1. sig \in S
    OBVIOUS
  <2> HIDE DEF S, sig
  <2> QED
    BY <1>5, <2>1 DEF BundleBody, S
<1>7. bundleHash(b) = bundleHash(body)
  BY <1>5, HashUnsigned
<1>8. sig.by = Buyer /\ verifyHash(sig, "bundle", bundleHash(b))
  BY <1>7, RunAssumption DEF signHash, verifyHash
<1> HIDE DEF b, body, sig
<1>9. SummarySound(b)
  <2>1. \A i \in 2 .. Len(lines) : lines[i - 1].index < lines[i].index
    BY <1>3, <1>4
  <2>2. \E i \in 1 .. Len(lines) : lines[i].outcome = "fail"
    BY <1>1, <1>3
  <2> QED
    BY <1>6, <2>1, <2>2 DEF SummarySound
<1>10. /\ "buyer" \in {p.role : p \in b.parties}
       /\ \A p \in b.parties : p.role \in {"buyer"} => p.claim = Buyer
       /\ {p \in b.parties : p.role \in {"buyer"}} # {}
  BY <1>6
<1>11. verifyBundle(b, "buyer", {"buyer"})
  BY <1>6, <1>8, <1>9, <1>10 DEF verifyBundle
<1> QED
  BY <1>6, <1>11 DEF b

LEMMA OneFailure ==
  ASSUME NEW k \in 0 .. 4, NEW n \in 1 .. 5, n = k + 1, Walked(k)
  PROVE  Paced(Append(session.results, [index |-> n, ok |-> FALSE]), k)
<1> DEFINE q == session.results
           e == [index |-> n, ok |-> FALSE]
           r == Append(q, e)
           Good(i) == r[i].ok = IF i <= k THEN TRUE ELSE FALSE
<1>1. e \in Phases /\ e.index = n /\ e.ok = FALSE
  BY DEF Phases
<1>2. /\ q \in Seq(Phases) /\ Len(q) = k
      /\ \A i \in 1 .. Len(q) : q[i].index = i /\ q[i].ok = IF i <= k THEN TRUE ELSE FALSE
  BY DEF Walked, Paced
<1> HIDE DEF q, e
<1>3. /\ r \in Seq(Phases) /\ Len(r) = n
      /\ \A i \in 1 .. k : r[i] = q[i]
      /\ r[n] = e
  BY <1>1, <1>2
<1> HIDE DEF r
<1>4. \A i \in 1 .. k : r[i].index = i /\ Good(i)
  <2> TAKE i \in 1 .. k
  <2>1. i \in 1 .. Len(q)
    BY <1>2
  <2> QED
    BY <1>2, <1>3, <2>1, Zenon
<1>5. r[n].index = n /\ Good(n)
  <2>1. (n <= k) = FALSE
    OBVIOUS
  <2> QED
    BY <1>1, <1>3, <2>1, Zenon
<1> HIDE DEF Good
<1>6. \A i \in 1 .. Len(r) : i \in 1 .. k \/ i = n
  BY <1>3
<1>7. \A i \in 1 .. Len(r) : r[i].index = i /\ Good(i)
  BY <1>4, <1>5, <1>6, Zenon
<1>8. Len(r) \in {k, k + 1}
  BY <1>3
<1>9. Paced(r, k)
  BY <1>3, <1>7, <1>8, Zenon DEF Paced, Good
<1> QED
  BY <1>9 DEF r, q, e

LEMMA CatchRecords == ASSUME RunInv, RecordInv, RunCatch PROVE RecordInv'
<1>1. at = "throw" /\ UNCHANGED <<shop, summary, deal, transfers>>
  BY DEF RunCatch
<1>2. PICK k \in 0 .. 5 : Thrown(k)
  BY <1>1 DEF RecordInv
<1>3. Ready(k)
  BY <1>1, <1>2 DEF RecordInv, Thrown, Ready, Ended
<1> DEFINE n == Failing(k)
           s == IF AlreadyRecorded(n) THEN session ELSE Recorded(n, FALSE)
<1>4. n \in 1 .. 5 /\ (k < 5 => n = k + 1) /\ (k = 5 => n = 5)
  BY DEF Failing
<1>5. fault[2] = Listed.pipeline[n] /\ Index({fault[2]}) = n /\ Listed' = Listed
  BY <1>1, <1>2, <1>3, <1>4, PipelineIndex DEF Thrown, Index, Ready, Listed
<1> HIDE DEF n
<1>6. AlreadyRecorded(n) <=> k = 5
  <2>1. Len(session.results) = k /\ \A i \in 1 .. Len(session.results) : session.results[i].index = i
    BY <1>3 DEF Ready, Walked, Paced
  <2>2. (\E i \in 1 .. Len(session.results) : session.results[i].index = n) <=> n <= k
    <3> DEFINE q == session.results
    <3>1. Len(q) = k /\ \A i \in 1 .. Len(q) : q[i].index = i
      BY <2>1
    <3> HIDE DEF q
    <3>2. (\E i \in 1 .. Len(q) : q[i].index = n) <=> n <= k
      BY <1>4, <3>1
    <3> QED
      BY <3>2 DEF q
  <2> QED
    BY <1>4, <2>2 DEF AlreadyRecorded
<1>7. SessionForm(s) /\ Paced(s.results, k) /\ s.vets = session.vets
  <2>1. CASE k = 5
    BY <1>3, <1>6, <2>1 DEF Ready, Walked
  <2>2. CASE k < 5
    <3>1. s = Recorded(n, FALSE)
      <4>1. ~AlreadyRecorded(n)
        BY <1>6, <2>2
      <4> QED
        BY <4>1, Zenon
    <3>2. Recorded(n, FALSE).results = Append(session.results, [index |-> n, ok |-> FALSE])
      BY <1>3, RecordedForm, Zenon DEF Ready
    <3>3. SessionForm(Recorded(n, FALSE)) /\ Recorded(n, FALSE).vets = session.vets
      BY <1>3, RecordedForm, Zenon DEF Ready
    <3>4. Paced(Append(session.results, [index |-> n, ok |-> FALSE]), k)
      <4>1. k \in 0 .. 4 /\ n = k + 1
        BY <1>4, <2>2
      <4> QED
        BY <1>3, <1>4, <4>1, OneFailure, Zenon DEF Ready
    <3> HIDE DEF s
    <3> QED
      BY <3>1, <3>2, <3>3, <3>4
  <2> HIDE DEF s
  <2> QED
    BY <2>1, <2>2
<1>8. Told(summary, k)'
  BY <1>1, <1>3, <1>5 DEF Ready, Walked, Told
<1>9. PICK agreement, state :
         \/ /\ chain' = [chain EXCEPT !["buyerBundle"] =
                   addBundleSignature(BundleBody("failed-perm", agreement,
                                                 Append(summary, Entry(n, Listed.pipeline[n], "fail"))), Buyer)]
            /\ session' = [s EXCEPT !.state = state, !.ended = TRUE]
            /\ at' = "failed"
         \/ session' = s /\ at' = "lost" /\ UNCHANGED chain
  <2> DEFINE ag == IF fault[1] = "settle" THEN chain["agreement"] ELSE None
             st == IF fault[1] = "vet" THEN "vet-failed" ELSE IF fault[1] = "negotiate" THEN "negotiate-failed"
                   ELSE IF fault[1] = "commit" THEN "commit-failed" ELSE "settle-failed"
  <2>1. \/ /\ chain' = [chain EXCEPT !["buyerBundle"] =
                   addBundleSignature(BundleBody("failed-perm", ag,
                                                 Append(summary, Entry(n, Listed.pipeline[n], "fail"))), Buyer)]
           /\ session' = [s EXCEPT !.state = st, !.ended = TRUE]
           /\ at' = "failed"
        \/ session' = s /\ at' = "lost" /\ UNCHANGED chain
    BY <1>5 DEF RunCatch, Go
  <2> HIDE DEF s, ag, st
  <2> QED
    BY <2>1, Zenon
<1> HIDE DEF s
<1>10. SessionForm(session)' /\ session'.results = s.results /\ session'.vets = s.vets
       /\ (at' = "failed" => session'.ended)
  BY <1>7, <1>9 DEF SessionForm
<1>11. Paced(session.results, k)'
  BY <1>7, <1>10 DEF Paced
<1>12. at' \in Ended
  BY <1>9 DEF Ended
<1>13. ASSUME at' = "failed", chain'["deliveryEvidence"] = None PROVE Explained'
  <2>1. chain' = [chain EXCEPT !["buyerBundle"] = Failure(k, agreement)]
    BY <1>9, <1>13 DEF Failure, n
  <2>2. /\ chain'["buyerBundle"] = Failure(k, agreement) /\ chain'["payment"] = chain["payment"]
        /\ chain["deliveryEvidence"] = None
    <3> DEFINE f == Failure(k, agreement)
    <3> HIDE DEF f
    <3>1. chain' = [chain EXCEPT !["buyerBundle"] = f]
      BY <2>1 DEF f
    <3> QED
      BY <1>13, <3>1 DEF RunInv, Slots, f
  <2>3. k \in 0 .. 4
    BY <1>3, <2>2 DEF Ready, Proven
  <2>4. /\ verifyBundle(Failure(k, agreement), "buyer", {"buyer"})
        /\ Failure(k, agreement).evidence = {chain["payment"]} \ {None}
    BY <1>3, <2>3, FailureVerifies, CitedPayment DEF Ready
  <2> QED
    BY <1>10, <1>13, <2>2, <2>4 DEF Explained
<1> QED
  BY <1>3, <1>5, <1>8, <1>10, <1>11, <1>12, <1>13 DEF RecordInv, Ready, Ended, SessionForm

LEMMA WorldRecords == ASSUME RunInv, RecordInv, RunTick \/ RunRevoke \/ UNCHANGED runVars PROVE RecordInv'
<1>1. UNCHANGED <<at, fault, session, summary, deal, chain, transfers>>
  BY DEF RunTick, RunRevoke, runVars
<1>2. Listed' = Listed
  <2>1. shop' = shop \/ \E m : shop' = [shop EXCEPT !.marker = m]
    BY DEF RunTick, RunRevoke, runVars
  <2> QED
    BY <2>1 DEF RunInv, Listed
<1>3. BuyerVet' = BuyerVet /\ SellerVet' = SellerVet
  BY <1>2 DEF BuyerVet, SellerVet, BuyerId, SellerId
<1>4. ASSUME NEW k \in 0 .. 5 PROVE /\ Walked(k) => Walked(k)'
                                    /\ Proven(k) => Proven(k)'
                                    /\ Thrown(k) => Thrown(k)'
                                    /\ Paced(session.results, k) => Paced(session.results, k)'
                                    /\ Told(summary, k) => Told(summary, k)'
  BY <1>1, <1>2, <1>3 DEF Walked, Proven, Thrown, Told
<1>5. (Bundled => Bundled') /\ (Explained => Explained')
  BY <1>1, <1>3 DEF Bundled, Explained
<1> QED
  BY <1>1, <1>2, <1>4, <1>5 DEF RecordInv

LEMMA RecordStarts == RunInit \/ RestRun => RecordInv
<1> SUFFICES ASSUME RunInit \/ RestRun PROVE RecordInv
  OBVIOUS
<1>1. /\ session = [state |-> "draft", results |-> <<>>, vets |-> {}, ended |-> FALSE]
      /\ summary = <<>> /\ chain = [s \in Slots |-> None]
      /\ at = "refused" \/ (at = "start" /\ Listed \in RunListings)
  BY DEF RunInit, RestRun, Listed
<1>2. SessionForm(session)
  BY <1>1 DEF SessionForm
<1>3. Walked(0)
  <2>1. session.results = <<>>
    BY <1>1
  <2> QED
    BY <1>1, <2>1 DEF Walked, Paced, Told
<1>4. Proven(0)
  BY <1>1 DEF Proven, Slots
<1> QED
  BY <1>1, <1>2, <1>3, <1>4 DEF RecordInv, Depth, Ended

LEMMA RecordInvariant == MCSpec => []RecordInv
<1>1. RunInv /\ RecordInv /\ [RunNext]_runVars => RecordInv'
  BY StartRecords, VetRecords, NegotiateRecords, AnchorAgreementRecords, AnchorCommitmentRecords,
     SettleRecords, DeliverRecords, BundleRecords, FinaliseRecords, CatchRecords, WorldRecords DEF RunNext
<1> QED
  BY <1>1, RecordStarts, RunInvariant, RunPart, PTL

-----------------------------------------------------------------------------
(* The live scripts: LiveBasket.                                           *)

LEMMA BasketPart == MCSpec => (BasketInit \/ RestBasket) /\ [][BasketNext]_basketVars
<1>1. MCInit => BasketInit \/ RestBasket
  BY Zenon DEF MCInit
<1>2. [MCNext]_mcVars => [BasketNext]_basketVars
  BY Zenon DEF MCNext, mcVars
<1> QED
  BY <1>1, <1>2, PTL DEF MCSpec

Deals == Script.deals
KnownScript == script \in {"l1", "l2", "l3", "l4"}
Distinct(q) == \A i, k \in 1 .. Len(q) : q[i] = q[k] => i = k

(* The deals of every script are different agents, and the oracle is not   *)
(* one of them in a script that buys from it over x402.                    *)
LEMMA DealsFact ==
  ASSUME KnownScript
  PROVE  /\ Script.x402 \in BOOLEAN /\ Script.tolerant \in BOOLEAN /\ Script.attempts \in Nat
         /\ Deals \in Seq(Names) /\ Distinct(Deals)
         /\ Script.x402 => Script.attempts > 0 /\ \A i \in 1 .. Len(Deals) : Deals[i] # Oracle
         /\ ~Script.x402 => Len(Deals) > 0
<1> DEFINE S == Script
<1>1. CASE script = "l1"
  <2>1. S = l1
    BY <1>1 DEF Script
  <2>2. Deals = <<Oracle>> /\ Oracle \in Names
    BY <2>1 DEF Deals, l1, Names
  <2> QED
    BY <2>1, <2>2 DEF l1, Distinct
<1>2. CASE script = "l2"
  <2>1. S = l2
    BY <1>2 DEF Script
  <2>2. Deals = <<>>
    BY <2>1 DEF Deals, l2
  <2> QED
    BY <2>1, <2>2 DEF l2, Distinct
<1>3. CASE script = "l3"
  <2>1. S = l3
    BY <1>3 DEF Script
  <2>2. Deals = <<"dd">> /\ "dd" \in Names /\ "dd" # Oracle
    BY <2>1 DEF Deals, l3, Names, Oracle
  <2> QED
    BY <2>1, <2>2 DEF l3, Distinct
<1>4. CASE script = "l4"
  <2>1. S = l4
    BY <1>4 DEF Script
  <2>2. Deals = Sellers
    BY <2>1 DEF Deals, l4
  <2>3. Deals \in Seq(Names) /\ Distinct(Deals) /\ \A i \in 1 .. Len(Deals) : Deals[i] # Oracle
    BY <2>2, BasketAssumption DEF Distinct
  <2>4. S.x402 = TRUE /\ S.tolerant = TRUE /\ S.attempts = ORACLE_ATTEMPTS
    BY <2>1 DEF l4
  <2>5. ORACLE_ATTEMPTS \in Nat /\ ORACLE_ATTEMPTS > 0
    BY BasketAssumption
  <2> QED
    BY <2>3, <2>4, <2>5
<1> QED
  BY <1>1, <1>2, <1>3, <1>4 DEF KnownScript

LEMMA ShopsFact ==
  ASSUME KnownScript
  PROVE  Len(Shops) \in Nat /\ Len(Shops) > 0 /\ Distinct(Shops)
<1>1. /\ Script.x402 \in BOOLEAN /\ Deals \in Seq(Names) /\ Distinct(Deals)
      /\ Script.x402 => \A i \in 1 .. Len(Deals) : Deals[i] # Oracle
      /\ ~Script.x402 => Len(Deals) > 0
  BY DealsFact
<1> DEFINE D == Deals
<1>2. Len(D) \in Nat
  BY <1>1
<1>3. CASE Script.x402
  <2>1. Shops = <<Oracle>> \o D
    BY <1>3 DEF Shops, Deals
  <2>2. Oracle \in Names
    BY DEF Names
  <2> HIDE DEF D
  <2>3. /\ Len(<<Oracle>> \o D) = Len(D) + 1
        /\ (<<Oracle>> \o D)[1] = Oracle
        /\ \A k \in 2 .. Len(D) + 1 : (<<Oracle>> \o D)[k] = D[k - 1]
    BY <1>1, <1>2, <2>2 DEF D
  <2>4. ASSUME NEW i \in 1 .. Len(Shops), NEW k \in 1 .. Len(Shops), Shops[i] = Shops[k] PROVE i = k
    <3>1. \A m \in 1 .. Len(D) : D[m] # Oracle
      BY <1>1, <1>3 DEF D
    <3>2. \A m, n \in 1 .. Len(D) : D[m] = D[n] => m = n
      BY <1>1 DEF D, Distinct
    <3>3. CASE i = 1 \/ k = 1
      <4>1. i # 1 => Shops[i] # Oracle
        BY <1>2, <2>1, <2>3, <3>1
      <4>2. k # 1 => Shops[k] # Oracle
        BY <1>2, <2>1, <2>3, <3>1
      <4> QED
        BY <2>1, <2>3, <2>4, <3>3, <4>1, <4>2
    <3>4. CASE i # 1 /\ k # 1
      <4>1. /\ Shops[i] = D[i - 1] /\ Shops[k] = D[k - 1]
            /\ i - 1 \in 1 .. Len(D) /\ k - 1 \in 1 .. Len(D)
        BY <1>2, <2>1, <2>3, <3>4
      <4>2. i - 1 = k - 1
        BY <2>4, <3>2, <4>1
      <4> QED
        BY <4>2
    <3> QED
      BY <3>3, <3>4
  <2> QED
    BY <1>2, <2>1, <2>3, <2>4 DEF Distinct
<1>4. CASE ~Script.x402
  <2>1. Shops = <<>> \o D
    BY <1>4 DEF Shops, Deals
  <2>2. Shops = D
    <3> HIDE DEF D
    <3>1. <<>> \o D = D
      BY <1>1 DEF D
    <3> QED
      BY <2>1, <3>1
  <2> QED
    BY <1>1, <1>2, <1>4, <2>2
<1> QED
  BY <1>1, <1>3, <1>4

(* The stages up to the first purchase, and those of a pay-dem deal.       *)
Founding   == {"start", "establish", "funding", "landing"}
Unspent    == Founding \cup {"publish", "discover"}
DealStages == {"deal", "pay", "deliver", "evidence", "gate"}

Rulings == {"none", "accept", "reject", "forged"}
Reports == [seller : Names, status : {"settled", "blocked"}, tx : {"tx", "-"}]
LegForm(l) == l = [paid |-> l.paid, delivered |-> l.delivered, stash |-> l.stash, completed |-> l.completed,
                   verdict |-> l.verdict, bundle |-> l.bundle, accepted |-> l.accepted]
BasketForm ==
  /\ KnownScript
  /\ pc = [at |-> pc.at, i |-> pc.i]
  /\ charged \in [Names -> Nat] /\ rulings \in [Names -> Rulings] /\ results \in Seq(Reports)
  /\ LegForm(leg)

(* Nothing is offered by a seller known to be unsound.                     *)
OffersInv ==
  /\ offers \cap unsound = {}
  /\ pc.at \in Founding => offers = {}
  /\ pc.at = "publish" => /\ pc.i \in 1 .. Len(Shops)
                          /\ \A k \in pc.i .. Len(Shops) : Shops[k] \notin offers

(* How much is charged by the stage the script is at.                      *)
OracleInv ==
  pc.at \in {"x402", "settled"} =>
    /\ Script.x402
    /\ \A n \in Names : n # Oracle => charged[n] = 0
    /\ pc.at = "x402" => pc.i \in 1 .. Script.attempts /\ charged[Oracle] <= pc.i - 1
    /\ pc.at = "settled" => charged[Oracle] > 0
DealInv ==
  pc.at \in DealStages =>
    /\ pc.i \in 1 .. Len(Deals)
    /\ \A k \in pc.i + 1 .. Len(Deals) : charged[Deals[k]] = 0
    /\ pc.at \in {"deal", "pay"} => charged[Vendor] = 0
    /\ pc.at = "pay" => Vendor \notin unsound /\ "buyer" \notin unsound
    /\ pc.at \in {"deliver", "evidence", "gate"} => charged[Vendor] > 0
    /\ pc.at = "gate" /\ leg.accepted /\ Vendor \in Judged => rulings[Vendor] = "accept"
UnspentInv == pc.at \in Unspent => \A n \in Names : charged[n] = 0

StageInv == UnspentInv /\ OracleInv /\ DealInv
BasketInv == BasketForm /\ OffersInv /\ StageInv /\ PaidWithinAttempts /\ SettledIsEarned

LEMMA BasketStarts == BasketInit \/ RestBasket => BasketInv
<1>1. ASSUME BasketInit \/ RestBasket
      PROVE  /\ KnownScript
             /\ pc \in {[at |-> "start", i |-> 1], [at |-> "aborted", i |-> 0]}
             /\ unsound = {} /\ offers = {} /\ leg = NoLeg /\ results = <<>>
             /\ charged = [n \in Names |-> 0] /\ rulings = [n \in Names |-> "none"]
  BY <1>1, BasketAssumption DEF BasketInit, RestBasket, KnownScript
<1> SUFFICES ASSUME BasketInit \/ RestBasket PROVE BasketInv
  OBVIOUS
<1>2. pc.at \in {"start", "aborted"} /\ pc = [at |-> pc.at, i |-> pc.i]
  BY <1>1
<1>3. BasketForm
  <2>1. charged \in [Names -> Nat] /\ rulings \in [Names -> Rulings]
    BY <1>1 DEF Rulings
  <2>2. results \in Seq(Reports)
    <3>1. results = <<>>
      BY <1>1
    <3> QED
      BY <3>1
  <2>3. LegForm(leg)
    BY <1>1 DEF LegForm, NoLeg
  <2> QED
    BY <1>1, <1>2, <2>1, <2>2, <2>3 DEF BasketForm
<1>4. OffersInv
  BY <1>1, <1>2 DEF OffersInv
<1>5. StageInv
  BY <1>1, <1>2 DEF StageInv, UnspentInv, OracleInv, DealInv, DealStages
<1>6. PaidWithinAttempts
  BY <1>1, DealsFact DEF PaidWithinAttempts
<1>7. SettledIsEarned
  BY <1>1 DEF SettledIsEarned
<1> QED
  BY <1>3, <1>4, <1>5, <1>6, <1>7 DEF BasketInv

LEMMA ScriptStays == ASSUME script' = script PROVE Script' = Script /\ Shops' = Shops /\ Deals' = Deals
BY DEF Script, Shops, Deals

LEMMA NothingPaid ==
  ASSUME KnownScript, \A n \in Names : charged[n] = 0 PROVE PaidWithinAttempts
BY DealsFact DEF PaidWithinAttempts

(* A step that pays nobody and reports nothing.                            *)
LEMMA NoMoney ==
  ASSUME BasketInv, UNCHANGED <<script, charged, rulings, results>>,
         pc' = [at |-> pc'.at, i |-> pc'.i], LegForm(leg'),
         unsound' = unsound \/ pc.at \in Unspent
  PROVE  BasketForm' /\ PaidWithinAttempts' /\ SettledIsEarned'
<1>1. BasketForm'
  BY DEF BasketInv, BasketForm, KnownScript, LegForm
<1>2. SettledIsEarned'
  BY DEF BasketInv, SettledIsEarned
<1>3. ASSUME unsound' = unsound PROVE PaidWithinAttempts'
  <2>1. Script' = Script
    BY ScriptStays
  <2> QED
    BY <1>3, <2>1 DEF BasketInv, PaidWithinAttempts
<1>4. ASSUME pc.at \in Unspent PROVE PaidWithinAttempts'
  <2>1. \A n \in Names : charged'[n] = 0
    BY <1>4 DEF BasketInv, StageInv, UnspentInv
  <2>2. KnownScript /\ Script' = Script
    BY ScriptStays DEF BasketInv, BasketForm
  <2>3. Script.attempts \in Nat
    BY <2>2, DealsFact
  <2> QED
    BY <2>1, <2>2, <2>3 DEF PaidWithinAttempts
<1> QED
  BY <1>1, <1>2, <1>3, <1>4

LEMMA FoundingKeeps ==
  ASSUME BasketInv, pc.at \in Founding, UNCHANGED <<script, offers, leg, charged, rulings, results>>,
         pc' = [at |-> pc'.at, i |-> pc'.i],
         pc'.at \in Founding \cup {"aborted"} \/ (pc'.at = "publish" /\ pc'.i = 1)
  PROVE  BasketInv'
<1>1. BasketForm' /\ PaidWithinAttempts' /\ SettledIsEarned'
  BY NoMoney DEF BasketInv, BasketForm, Unspent
<1>2. KnownScript /\ offers = {} /\ \A n \in Names : charged[n] = 0
  BY DEF BasketInv, BasketForm, OffersInv, StageInv, UnspentInv, Unspent
<1>3. OffersInv'
  <2>1. Shops' = Shops /\ Len(Shops) \in Nat /\ Len(Shops) > 0
    BY <1>2, ShopsFact, ScriptStays
  <2>2. offers' = {}
    BY <1>2
  <2> QED
    BY <2>1, <2>2 DEF OffersInv, Founding
<1>4. StageInv'
  BY <1>2 DEF StageInv, UnspentInv, OracleInv, DealInv, DealStages, Founding
<1> QED
  BY <1>1, <1>3, <1>4 DEF BasketInv

LEMMA NextWalletForm == ASSUME NextWallet PROVE /\ pc' = [at |-> pc'.at, i |-> pc'.i]
                                                /\ pc'.at = "establish" \/ (pc'.at = "publish" /\ pc'.i = 1)
BY DEF NextWallet, To

LEMMA EstablishFailsForm ==
  ASSUME establishFails
  PROVE  /\ pc' = [at |-> pc'.at, i |-> pc'.i]
         /\ pc'.at \in {"establish", "aborted"} \/ (pc'.at = "publish" /\ pc'.i = 1)
<1>1. NextWallet \/ To("aborted", 0)
  BY DEF establishFails
<1> QED
  BY <1>1, NextWalletForm DEF To

LEMMA StartKeeps == ASSUME BasketInv, Start PROVE BasketInv'
<1>1. /\ pc.at = "start" /\ UNCHANGED <<script, offers, leg, charged, rulings, results>>
      /\ \E x \in {"aborted", "establish"} : pc' = [at |-> x, i |-> 1]
  BY DEF Start, To
<1> QED
  BY <1>1, FoundingKeeps DEF Founding

LEMMA ReuseKeeps == ASSUME BasketInv, Reuse PROVE BasketInv'
<1>1. /\ pc.at = "establish" /\ UNCHANGED <<script, offers, leg, charged, rulings, results>> /\ NextWallet
  BY DEF Reuse
<1> QED
  BY <1>1, NextWalletForm, FoundingKeeps DEF Founding

LEMMA FundKeeps == ASSUME BasketInv, Fund PROVE BasketInv'
<1>1. /\ pc.at = "establish" /\ UNCHANGED <<script, offers, leg, charged, rulings, results>>
      /\ establishFails \/ To("funding", pc.i)
  BY DEF Fund
<1>2. /\ pc' = [at |-> pc'.at, i |-> pc'.i]
      /\ pc'.at \in Founding \cup {"aborted"} \/ (pc'.at = "publish" /\ pc'.i = 1)
  BY <1>1, EstablishFailsForm DEF Founding, To
<1> QED
  BY <1>1, <1>2, FoundingKeeps DEF Founding

LEMMA NonceKeeps == ASSUME BasketInv, waitNonceAdvance PROVE BasketInv'
<1>1. /\ pc.at = "funding" /\ UNCHANGED <<script, offers, leg, charged, rulings, results>>
      /\ establishFails \/ To("landing", pc.i)
  BY DEF waitNonceAdvance
<1>2. /\ pc' = [at |-> pc'.at, i |-> pc'.i]
      /\ pc'.at \in Founding \cup {"aborted"} \/ (pc'.at = "publish" /\ pc'.i = 1)
  BY <1>1, EstablishFailsForm DEF Founding, To
<1> QED
  BY <1>1, <1>2, FoundingKeeps DEF Founding

LEMMA WalletKeeps == ASSUME BasketInv, establishWallet PROVE BasketInv'
<1>1. /\ pc.at = "landing" /\ UNCHANGED <<script, offers, leg, charged, rulings, results>>
      /\ establishFails \/ NextWallet
  BY DEF establishWallet
<1>2. /\ pc' = [at |-> pc'.at, i |-> pc'.i]
      /\ pc'.at \in Founding \cup {"aborted"} \/ (pc'.at = "publish" /\ pc'.i = 1)
  BY <1>1, EstablishFailsForm, NextWalletForm DEF Founding
<1> QED
  BY <1>1, <1>2, FoundingKeeps DEF Founding

(* A seller publishes once, so one that turns out unsound has no offer.    *)
LEMMA PublishKeeps == ASSUME BasketInv, PublishOne PROVE BasketInv'
<1> DEFINE s == Shops[pc.i]
<1>1. pc.at = "publish" /\ UNCHANGED <<script, leg, charged, rulings, results>>
  BY DEF PublishOne
<1>2. \/ pc' = [at |-> "publish", i |-> pc.i + 1] /\ pc.i < Len(Shops)
      \/ pc' = [at |-> "discover", i |-> 1]
      \/ pc' = [at |-> "aborted", i |-> 0]
  BY DEF PublishOne, To
<1>3. \/ unsound' = unsound /\ offers' = offers
      \/ s \notin unsound /\ offers' = offers \cup {s} /\ unsound' = unsound
      \/ unsound' = unsound \cup {s} /\ offers' = offers
  BY DEF PublishOne
<1>4. /\ KnownScript /\ pc.i \in 1 .. Len(Shops) /\ \A k \in pc.i .. Len(Shops) : Shops[k] \notin offers
      /\ offers \cap unsound = {} /\ LegForm(leg)
      /\ \A n \in Names : charged[n] = 0
  BY <1>1 DEF BasketInv, BasketForm, OffersInv, StageInv, UnspentInv, Unspent
<1>5. Len(Shops) \in Nat /\ Distinct(Shops) /\ Shops' = Shops
  BY <1>1, <1>4, ShopsFact, ScriptStays
<1>6. pc' = [at |-> pc'.at, i |-> pc'.i]
  BY <1>2
<1>7. BasketForm' /\ PaidWithinAttempts' /\ SettledIsEarned'
  <2>1. pc.at \in Unspent
    BY <1>1 DEF Unspent
  <2>2. LegForm(leg')
    BY <1>1, <1>4 DEF LegForm
  <2> QED
    BY <1>1, <1>6, <2>1, <2>2, NoMoney
<1>8. pc.i \in pc.i .. Len(Shops) /\ s \notin offers
  BY <1>4, <1>5
<1>9. offers' \cap unsound' = {}
  BY <1>3, <1>4, <1>8
<1>10. OffersInv'
  <2>1. pc'.at \notin Founding
    BY <1>2 DEF Founding
  <2>2. ASSUME pc'.at = "publish"
        PROVE  pc'.i \in 1 .. Len(Shops) /\ \A k \in pc'.i .. Len(Shops) : Shops[k] \notin offers'
    <3>1. pc'.i = pc.i + 1 /\ pc.i < Len(Shops)
      BY <1>2, <2>2
    <3>2. ASSUME NEW k \in pc'.i .. Len(Shops) PROVE Shops[k] \notin offers'
      <4>1. k \in pc.i .. Len(Shops) /\ k \in 1 .. Len(Shops) /\ k # pc.i
        BY <1>4, <1>5, <3>1
      <4>2. Shops[k] \notin offers /\ Shops[k] # s
        BY <1>4, <1>5, <4>1 DEF Distinct
      <4> QED
        BY <1>3, <4>2
    <3> QED
      BY <1>4, <1>5, <3>1, <3>2
  <2> QED
    BY <1>5, <1>9, <2>1, <2>2 DEF OffersInv
<1>11. StageInv'
  BY <1>1, <1>2, <1>4 DEF StageInv, UnspentInv, OracleInv, DealInv, DealStages
<1> QED
  BY <1>7, <1>10, <1>11 DEF BasketInv

(* Where the first purchase starts, nobody has been paid.                  *)
LEMMA DiscoverKeeps == ASSUME BasketInv, Discover PROVE BasketInv'
<1>1. /\ pc.at = "discover" /\ UNCHANGED <<script, unsound, leg, charged, rulings, results>>
      /\ offers' \in SUBSET offers
      /\ pc' = IF Script.x402 THEN [at |-> "x402", i |-> 1] ELSE [at |-> "deal", i |-> 1]
  BY DEF Discover, To
<1>2. /\ KnownScript /\ offers \cap unsound = {} /\ LegForm(leg)
      /\ \A n \in Names : charged[n] = 0
  BY <1>1 DEF BasketInv, BasketForm, OffersInv, StageInv, UnspentInv, Unspent
<1>3. /\ Script.x402 \in BOOLEAN /\ Script.attempts \in Nat /\ (Script.x402 => Script.attempts > 0)
      /\ Deals \in Seq(Names) /\ (~Script.x402 => Len(Deals) > 0)
  BY <1>2, DealsFact
<1>4. Script' = Script /\ Deals' = Deals
  BY <1>1, ScriptStays
<1>5. BasketForm' /\ PaidWithinAttempts' /\ SettledIsEarned'
  BY <1>1, <1>2, NoMoney
<1>6. OffersInv'
  BY <1>1, <1>2 DEF OffersInv, Founding
<1>7. Oracle \in Names
  BY DEF Names
<1>8. CASE Script.x402
  <2>1. pc'.at = "x402" /\ pc'.i = 1
    BY <1>1, <1>8
  <2>2. OracleInv'
    BY <1>1, <1>2, <1>3, <1>4, <1>7, <1>8, <2>1 DEF OracleInv
  <2> QED
    BY <1>5, <1>6, <2>1, <2>2 DEF BasketInv, StageInv, UnspentInv, Unspent, Founding, DealInv, DealStages
<1>9. CASE ~Script.x402
  <2>1. pc'.at = "deal" /\ pc'.i = 1
    BY <1>1, <1>9
  <2>2. Len(Deals) \in Nat /\ Len(Deals) > 0 /\ \A k \in 1 .. Len(Deals) : Deals[k] \in Names
    BY <1>3, <1>9
  <2>3. Vendor' = Deals[1] /\ Deals[1] \in Names
    BY <1>4, <2>1, <2>2 DEF Vendor, Deals
  <2>4. DealInv'
    BY <1>1, <1>2, <1>4, <2>1, <2>2, <2>3 DEF DealInv
  <2> QED
    BY <1>5, <1>6, <2>1, <2>4 DEF BasketInv, StageInv, UnspentInv, Unspent, Founding, OracleInv
<1> QED
  BY <1>3, <1>8, <1>9

LEMMA AppendReport ==
  ASSUME results \in Seq(Reports), NEW e \in Reports, results' = Append(results, e) \/ results' = results
  PROVE  /\ results' \in Seq(Reports)
         /\ \A i \in 1 .. Len(results') : \/ i \in 1 .. Len(results) /\ results'[i] = results[i]
                                          \/ results'[i] = e
OBVIOUS

(* Of the reports so far, none is lost when more is charged.               *)
LEMMA ReportsKept ==
  ASSUME BasketInv, NEW s \in Names, NEW tx \in {"tx", "-"}, UNCHANGED rulings,
         \A n \in Names : charged'[n] >= charged[n], charged' \in [Names -> Nat],
         results' = Append(results, [seller |-> s, status |-> "blocked", tx |-> tx]) \/ results' = results
  PROVE  results' \in Seq(Reports) /\ SettledIsEarned'
<1> DEFINE e == [seller |-> s, status |-> "blocked", tx |-> tx]
<1>1. results \in Seq(Reports) /\ e \in Reports /\ e.status = "blocked" /\ charged \in [Names -> Nat]
  BY DEF BasketInv, BasketForm, Reports
<1>2. /\ results' \in Seq(Reports)
      /\ \A i \in 1 .. Len(results') : \/ i \in 1 .. Len(results) /\ results'[i] = results[i]
                                       \/ results'[i] = e
  <2>1. results' = Append(results, e) \/ results' = results
    OBVIOUS
  <2> HIDE DEF e
  <2> QED
    BY <1>1, <2>1, AppendReport
<1>3. ASSUME NEW i \in 1 .. Len(results'), results'[i].status = "settled"
      PROVE  /\ charged'[results'[i].seller] > 0 /\ results'[i].tx = "tx"
             /\ results'[i].seller \in Judged => rulings'[results'[i].seller] = "accept"
  <2>1. i \in 1 .. Len(results) /\ results'[i] = results[i]
    BY <1>1, <1>2, <1>3
  <2> DEFINE n == results[i].seller
  <2>2. /\ charged[n] > 0 /\ results[i].tx = "tx"
        /\ n \in Judged => rulings[n] = "accept"
    BY <1>3, <2>1 DEF BasketInv, SettledIsEarned
  <2>3. n \in Names
    <3>1. results[i] \in Reports
      BY <1>1, <2>1
    <3> QED
      BY <3>1 DEF Reports
  <2>4. charged'[n] >= charged[n] /\ charged[n] \in Nat /\ charged'[n] \in Nat
    BY <1>1, <2>3
  <2>5. charged'[n] > 0
    BY <2>2, <2>4
  <2> QED
    BY <2>1, <2>2, <2>5
<1> QED
  BY <1>2, <1>3 DEF SettledIsEarned

(* After the oracle come the deals, of which none is paid yet.             *)
LEMMA OracleLeft ==
  ASSUME KnownScript, Script' = Script, Deals' = Deals, Script.x402, \A n \in Names : n # Oracle => charged'[n] = 0,
         AfterOracle \/ To("aborted", 0)
  PROVE  StageInv' /\ pc' = [at |-> pc'.at, i |-> pc'.i] /\ pc'.at \in {"report", "deal", "aborted"}
<1>1. \/ pc' = [at |-> "report", i |-> 0] \/ pc' = [at |-> "aborted", i |-> 0]
      \/ pc' = [at |-> "deal", i |-> 1] /\ Deals # <<>>
  BY DEF AfterOracle, To, Deals
<1>2. pc' = [at |-> pc'.at, i |-> pc'.i] /\ pc'.at \in {"report", "deal", "aborted"}
  BY <1>1
<1>3. Deals \in Seq(Names) /\ \A i \in 1 .. Len(Deals) : Deals[i] # Oracle
  BY DealsFact
<1>4. DealInv'
  <2> SUFFICES ASSUME pc'.at \in DealStages PROVE DealInv'
    BY DEF DealInv
  <2>1. pc'.at = "deal" /\ pc'.i = 1 /\ Deals # <<>>
    BY <1>1 DEF DealStages
  <2>2. Len(Deals) \in Nat /\ Len(Deals) > 0
    BY <1>3, <2>1
  <2>3. \A k \in 1 .. Len(Deals) : Deals[k] \in Names /\ charged'[Deals[k]] = 0
    BY <1>3
  <2>4. Vendor' = Deals[1]
    BY <2>1 DEF Vendor, Deals
  <2> QED
    BY <2>1, <2>2, <2>3, <2>4 DEF DealInv
<1> QED
  BY <1>2, <1>4 DEF StageInv, UnspentInv, OracleInv, Unspent, Founding

LEMMA OffersStand ==
  ASSUME BasketInv, UNCHANGED <<offers, unsound>>, pc'.at \notin Founding, pc'.at # "publish"
  PROVE  OffersInv'
BY DEF BasketInv, OffersInv

LEMMA X402BlockedKeeps == ASSUME BasketInv, x402Blocked PROVE BasketInv'
<1>1. /\ pc.at = "x402" /\ UNCHANGED <<script, unsound, offers, leg, charged, rulings>>
      /\ AfterOracle \/ To("aborted", 0)
      /\ results' = Append(results, [seller |-> Oracle, status |-> "blocked", tx |-> "-"]) \/ results' = results
  BY DEF x402Blocked, Caught, Report
<1>2. /\ KnownScript /\ Script.x402 /\ \A n \in Names : n # Oracle => charged[n] = 0
  BY <1>1 DEF BasketInv, BasketForm, StageInv, OracleInv
<1>3. Script' = Script /\ Deals' = Deals
  BY <1>1, ScriptStays
<1>4. Oracle \in Names
  BY DEF Names
<1>5. results' \in Seq(Reports) /\ SettledIsEarned' /\ PaidWithinAttempts'
  <2>1. charged' \in [Names -> Nat] /\ \A n \in Names : charged'[n] >= charged[n]
    BY <1>1 DEF BasketInv, BasketForm
  <2>2. results' \in Seq(Reports) /\ SettledIsEarned'
    BY <1>1, <1>4, <2>1, ReportsKept
  <2>3. PaidWithinAttempts'
    BY <1>1, <1>3 DEF BasketInv, PaidWithinAttempts
  <2> QED
    BY <2>2, <2>3
<1>6. StageInv' /\ pc' = [at |-> pc'.at, i |-> pc'.i] /\ pc'.at \in {"report", "deal", "aborted"}
  BY <1>1, <1>2, <1>3, OracleLeft
<1>7. OffersInv'
  BY <1>1, <1>6, OffersStand DEF Founding
<1>8. BasketForm'
  BY <1>1, <1>5, <1>6 DEF BasketInv, BasketForm, KnownScript, LegForm
<1> QED
  BY <1>5, <1>6, <1>7, <1>8 DEF BasketInv

(* Only an attempt of a paid retry charges, and each attempt at most once. *)
LEMMA X402AttemptKeeps == ASSUME BasketInv, x402Attempt PROVE BasketInv'
<1>1. pc.at = "x402" /\ Oracle \in offers /\ UNCHANGED <<script, unsound, offers, rulings>>
  BY DEF x402Attempt
<1>2. PICK delivered \in {"none", "good", "bad"}, paid \in BOOLEAN, completed \in BOOLEAN :
        /\ completed => paid
        /\ charged' = [charged EXCEPT ![Oracle] = @ + IF paid THEN 1 ELSE 0]
        /\ leg' = [NoLeg EXCEPT !.paid = leg.paid \/ paid, !.delivered = delivered, !.completed = completed]
        /\ IF completed THEN To("settled", 0) /\ UNCHANGED results
           ELSE IF pc.i < Script.attempts THEN To("x402", pc.i + 1) /\ UNCHANGED results
           ELSE IF Script.tolerant
           THEN (\E tx \in IF leg'.paid THEN {"tx", "-"} ELSE {"-"} : Report(Oracle, "blocked", tx)) /\ AfterOracle
           ELSE To("aborted", 0) /\ UNCHANGED results
  BY DEF x402Attempt
<1>3. /\ KnownScript /\ Script.x402 /\ \A n \in Names : n # Oracle => charged[n] = 0
      /\ pc.i \in 1 .. Script.attempts /\ charged[Oracle] <= pc.i - 1
      /\ charged \in [Names -> Nat] /\ Oracle \notin unsound
  BY <1>1 DEF BasketInv, BasketForm, StageInv, OracleInv, OffersInv
<1>4. Script' = Script /\ Deals' = Deals /\ Script.attempts \in Nat
  BY <1>1, <1>3, ScriptStays, DealsFact
<1>5. Oracle \in Names
  BY DEF Names
<1>6. /\ charged' \in [Names -> Nat] /\ \A n \in Names : n # Oracle => charged'[n] = 0
      /\ charged'[Oracle] <= pc.i /\ charged'[Oracle] >= charged[Oracle]
      /\ paid => charged'[Oracle] > 0
  <2>1. charged[Oracle] \in Nat /\ pc.i \in Int
    BY <1>3, <1>4, <1>5
  <2>2. /\ charged'[Oracle] = charged[Oracle] + IF paid THEN 1 ELSE 0
        /\ \A n \in Names : n # Oracle => charged'[n] = charged[n]
        /\ charged' \in [Names -> Nat]
    <3>1. charged[Oracle] + (IF paid THEN 1 ELSE 0) \in Nat
      BY <2>1
    <3> QED
      BY <1>2, <1>3, <1>5, <3>1
  <2> QED
    BY <1>3, <2>1, <2>2
<1>7. \A n \in Names : charged'[n] >= charged[n]
  <2> SUFFICES ASSUME NEW n \in Names PROVE charged'[n] >= charged[n]
    OBVIOUS
  <2>1. CASE n = Oracle
    BY <1>6, <2>1
  <2>2. CASE n # Oracle
    BY <1>3, <1>6, <2>2
  <2> QED
    BY <2>1, <2>2
<1>8. \E tx \in {"tx", "-"} : \/ results' = Append(results, [seller |-> Oracle, status |-> "blocked", tx |-> tx])
                              \/ results' = results
  BY <1>2 DEF Report
<1>9. results' \in Seq(Reports) /\ SettledIsEarned'
  BY <1>1, <1>5, <1>6, <1>7, <1>8, ReportsKept
<1>10. PaidWithinAttempts'
  <2>1. charged'[Oracle] <= Script.attempts
    BY <1>3, <1>4, <1>5, <1>6
  <2>2. \A n \in Names : charged'[n] <= IF n = Oracle /\ Script.x402 THEN Script.attempts ELSE 1
    BY <1>3, <1>6, <2>1
  <2>3. \A n \in Names : charged'[n] > 0 => n \notin unsound
    BY <1>3, <1>6
  <2> QED
    BY <1>1, <1>4, <1>6, <2>2, <2>3 DEF PaidWithinAttempts
<1>11. LegForm(leg')
  BY <1>2 DEF LegForm, NoLeg
<1>12. /\ StageInv' /\ pc' = [at |-> pc'.at, i |-> pc'.i]
       /\ pc'.at \in {"settled", "x402", "report", "deal", "aborted"}
  <2>1. CASE completed
    <3>1. pc' = [at |-> "settled", i |-> 0] /\ charged'[Oracle] > 0
      BY <1>2, <1>6, <2>1 DEF To
    <3> QED
      BY <1>3, <1>4, <1>6, <3>1 DEF StageInv, UnspentInv, OracleInv, DealInv, DealStages, Unspent, Founding
  <2>2. CASE ~completed /\ pc.i < Script.attempts
    <3>1. pc' = [at |-> "x402", i |-> pc.i + 1]
      BY <1>2, <2>2 DEF To
    <3>2. pc.i + 1 \in 1 .. Script.attempts /\ charged'[Oracle] <= (pc.i + 1) - 1
      BY <1>3, <1>4, <1>6, <2>2
    <3> QED
      BY <1>3, <1>4, <1>6, <3>1, <3>2 DEF StageInv, UnspentInv, OracleInv, DealInv, DealStages, Unspent, Founding
  <2>3. CASE ~completed /\ ~(pc.i < Script.attempts)
    <3>1. AfterOracle \/ To("aborted", 0)
      BY <1>2, <2>3
    <3> QED
      BY <1>3, <1>4, <1>6, <3>1, OracleLeft
  <2> QED
    BY <2>1, <2>2, <2>3
<1>13. OffersInv'
  BY <1>1, <1>12, OffersStand DEF Founding
<1>14. BasketForm'
  BY <1>1, <1>6, <1>9, <1>11, <1>12 DEF BasketInv, BasketForm, KnownScript
<1> QED
  BY <1>9, <1>10, <1>12, <1>13, <1>14 DEF BasketInv

(* The oracle's report: it is settled only for a completed, and so a paid, *)
(* attempt.                                                                *)
LEMMA X402ReportKeeps == ASSUME BasketInv, x402Report PROVE BasketInv'
<1>1. /\ pc.at = "settled" /\ UNCHANGED <<script, unsound, offers, charged, rulings>>
      /\ AfterOracle \/ To("aborted", 0)
      /\ leg' = leg \/ leg' = NoLeg
      /\ \/ results' = results
         \/ \E st \in {"settled", "blocked"}, tx \in {"tx", "-"} :
               /\ results' = Append(results, [seller |-> Oracle, status |-> st, tx |-> tx])
               /\ st = "settled" => tx = "tx"
  BY DEF x402Report, Caught, Report
<1>2. /\ KnownScript /\ Script.x402 /\ \A n \in Names : n # Oracle => charged[n] = 0
      /\ charged[Oracle] > 0 /\ results \in Seq(Reports)
  BY <1>1 DEF BasketInv, BasketForm, StageInv, OracleInv
<1>3. Script' = Script /\ Deals' = Deals
  BY <1>1, ScriptStays
<1>4. Oracle \in Names /\ Oracle \notin Judged
  BY BasketAssumption DEF Names
<1>5. results' \in Seq(Reports) /\ SettledIsEarned'
  <2>1. CASE results' = results
    BY <1>1, <1>2, <2>1 DEF BasketInv, SettledIsEarned
  <2>2. ASSUME NEW st \in {"settled", "blocked"}, NEW tx \in {"tx", "-"}, st = "settled" => tx = "tx",
               results' = Append(results, [seller |-> Oracle, status |-> st, tx |-> tx])
        PROVE  results' \in Seq(Reports) /\ SettledIsEarned'
    <3> DEFINE e == [seller |-> Oracle, status |-> st, tx |-> tx]
    <3>1. e \in Reports
      BY <1>4 DEF Reports
    <3>2. e.seller = Oracle /\ e.status = st /\ e.tx = tx
      OBVIOUS
    <3>3. results' = Append(results, e)
      BY <2>2
    <3> HIDE DEF e
    <3>4. /\ results' \in Seq(Reports)
          /\ \A i \in 1 .. Len(results') : \/ i \in 1 .. Len(results) /\ results'[i] = results[i]
                                           \/ results'[i] = e
      BY <1>2, <3>1, <3>3, AppendReport
    <3>5. ASSUME NEW i \in 1 .. Len(results'), results'[i].status = "settled"
          PROVE  /\ charged[results'[i].seller] > 0 /\ results'[i].tx = "tx"
                 /\ results'[i].seller \in Judged => rulings[results'[i].seller] = "accept"
      <4>1. CASE i \in 1 .. Len(results) /\ results'[i] = results[i]
        BY <3>5, <4>1 DEF BasketInv, SettledIsEarned
      <4>2. CASE results'[i] = e
        BY <1>2, <1>4, <2>2, <3>2, <3>5, <4>2
      <4> QED
        BY <3>4, <4>1, <4>2
    <3> QED
      BY <1>1, <3>4, <3>5 DEF SettledIsEarned
  <2> QED
    BY <1>1, <2>1, <2>2
<1>6. StageInv' /\ pc' = [at |-> pc'.at, i |-> pc'.i] /\ pc'.at \in {"report", "deal", "aborted"}
  BY <1>1, <1>2, <1>3, OracleLeft
<1>7. OffersInv'
  BY <1>1, <1>6, OffersStand DEF Founding
<1>8. LegForm(leg')
  <2>1. LegForm(leg) /\ (leg' = leg \/ leg' = NoLeg)
    BY <1>1 DEF BasketInv, BasketForm
  <2> QED
    BY <2>1 DEF LegForm, NoLeg
<1>9. BasketForm'
  BY <1>1, <1>5, <1>6, <1>8 DEF BasketInv, BasketForm, KnownScript
<1>10. PaidWithinAttempts'
  BY <1>1, <1>3 DEF BasketInv, PaidWithinAttempts
<1> QED
  BY <1>5, <1>6, <1>7, <1>9, <1>10 DEF BasketInv

(* The deal in hand, and the ones behind it, of which none is paid.        *)
LEMMA AtDeal ==
  ASSUME BasketInv, pc.at \in DealStages
  PROVE  /\ KnownScript /\ pc.i \in 1 .. Len(Deals) /\ Len(Deals) \in Nat
         /\ Vendor = Deals[pc.i] /\ Vendor \in Names
         /\ \A k \in pc.i + 1 .. Len(Deals) : charged[Deals[k]] = 0 /\ Deals[k] \in Names /\ Deals[k] # Vendor
         /\ Script.x402 => Vendor # Oracle
<1>1. /\ KnownScript /\ pc.i \in 1 .. Len(Deals)
      /\ \A k \in pc.i + 1 .. Len(Deals) : charged[Deals[k]] = 0
  BY DEF BasketInv, BasketForm, StageInv, DealInv
<1>2. /\ Deals \in Seq(Names) /\ Distinct(Deals)
      /\ Script.x402 => \A i \in 1 .. Len(Deals) : Deals[i] # Oracle
  BY <1>1, DealsFact
<1>3. Vendor = Deals[pc.i]
  BY DEF Vendor, Deals
<1>4. Len(Deals) \in Nat /\ \A k \in 1 .. Len(Deals) : Deals[k] \in Names
  BY <1>2
<1>5. ASSUME NEW k \in pc.i + 1 .. Len(Deals) PROVE Deals[k] \in Names /\ Deals[k] # Vendor
  <2>1. k \in 1 .. Len(Deals) /\ k # pc.i
    BY <1>1, <1>4
  <2> QED
    BY <1>1, <1>2, <1>3, <1>4, <2>1 DEF Distinct
<1> QED
  BY <1>1, <1>2, <1>3, <1>4, <1>5

LEMMA DealLeft ==
  ASSUME BasketInv, pc.at \in DealStages, Script' = Script, Deals' = Deals,
         \A k \in pc.i + 1 .. Len(Deals) : charged'[Deals[k]] = 0,
         NextDeal \/ To("aborted", 0)
  PROVE  StageInv' /\ pc' = [at |-> pc'.at, i |-> pc'.i] /\ pc'.at \in {"report", "deal", "aborted"}
<1>1. \/ pc' = [at |-> "report", i |-> 0] \/ pc' = [at |-> "aborted", i |-> 0]
      \/ pc' = [at |-> "deal", i |-> pc.i + 1] /\ pc.i < Len(Deals)
  BY DEF NextDeal, To, Deals
<1>2. pc' = [at |-> pc'.at, i |-> pc'.i] /\ pc'.at \in {"report", "deal", "aborted"}
  BY <1>1
<1>3. pc.i \in 1 .. Len(Deals) /\ Len(Deals) \in Nat
  BY AtDeal
<1>4. DealInv'
  <2> SUFFICES ASSUME pc'.at \in DealStages PROVE DealInv'
    BY DEF DealInv
  <2>1. pc'.at = "deal" /\ pc'.i = pc.i + 1 /\ pc.i < Len(Deals)
    BY <1>1 DEF DealStages
  <2>2. Vendor' = Deals[pc.i + 1]
    BY <2>1 DEF Vendor, Deals
  <2>3. /\ pc'.i \in 1 .. Len(Deals) /\ pc.i + 1 \in pc.i + 1 .. Len(Deals)
        /\ \A k \in pc'.i + 1 .. Len(Deals) : k \in pc.i + 1 .. Len(Deals)
    BY <1>3, <2>1
  <2>4. charged'[Deals[pc.i + 1]] = 0 /\ \A k \in pc'.i + 1 .. Len(Deals) : charged'[Deals[k]] = 0
    BY <2>3
  <2> QED
    BY <2>1, <2>2, <2>3, <2>4 DEF DealInv
<1> QED
  BY <1>2, <1>4 DEF StageInv, UnspentInv, OracleInv, Unspent, Founding

(* Whatever fails in a deal, the seller is reported blocked or the script  *)
(* ends, and what was charged stays charged.                               *)
LEMMA DealFailsKeeps ==
  ASSUME BasketInv, pc.at \in DealStages, DealFails, UNCHANGED <<script, unsound, offers, rulings>>,
         charged' \in [Names -> Nat], \A n \in Names : charged'[n] >= charged[n],
         \A k \in pc.i + 1 .. Len(Deals) : charged'[Deals[k]] = 0,
         PaidWithinAttempts'
  PROVE  BasketInv'
<1>1. /\ NextDeal \/ To("aborted", 0)
      /\ leg' = NoLeg
      /\ results' = Append(results, [seller |-> Vendor, status |-> "blocked", tx |-> "-"]) \/ results' = results
  BY DEF DealFails, Caught, Report
<1>2. Script' = Script /\ Deals' = Deals
  BY ScriptStays
<1>3. StageInv' /\ pc' = [at |-> pc'.at, i |-> pc'.i] /\ pc'.at \in {"report", "deal", "aborted"}
  BY <1>1, <1>2, DealLeft
<1>4. Vendor \in Names
  BY AtDeal
<1>5. results' \in Seq(Reports) /\ SettledIsEarned'
  BY <1>1, <1>4, ReportsKept
<1>6. OffersInv'
  BY <1>3, OffersStand DEF Founding
<1>7. BasketForm'
  BY <1>1, <1>3, <1>5 DEF BasketInv, BasketForm, KnownScript, LegForm, NoLeg
<1> QED
  BY <1>3, <1>5, <1>6, <1>7 DEF BasketInv

(* The same where nothing is charged.                                      *)
LEMMA FreeFailure ==
  ASSUME BasketInv, pc.at \in DealStages, DealFails, UNCHANGED <<script, unsound, offers, rulings, charged>>
  PROVE  BasketInv'
<1>1. charged' \in [Names -> Nat] /\ \A n \in Names : charged'[n] >= charged[n]
  BY DEF BasketInv, BasketForm
<1>2. \A k \in pc.i + 1 .. Len(Deals) : charged'[Deals[k]] = 0
  BY AtDeal
<1>3. PaidWithinAttempts'
  BY ScriptStays DEF BasketInv, PaidWithinAttempts
<1> QED
  BY <1>1, <1>2, <1>3, DealFailsKeeps

(* A step inside a deal that charges and reports nothing.                  *)
LEMMA InsideKeeps ==
  ASSUME BasketInv, pc.at \in DealStages, UNCHANGED <<script, unsound, offers, charged, results>>,
         pc' = [at |-> pc'.at, i |-> pc.i], pc'.at \in DealStages, LegForm(leg'),
         rulings' \in [Names -> Rulings], SettledIsEarned',
         pc'.at \in {"deal", "pay"} => charged[Vendor] = 0,
         pc'.at = "pay" => Vendor \notin unsound /\ "buyer" \notin unsound,
         pc'.at \in {"deliver", "evidence", "gate"} => charged[Vendor] > 0,
         pc'.at = "gate" /\ leg'.accepted /\ Vendor \in Judged => rulings'[Vendor] = "accept"
  PROVE  BasketInv'
<1>1. Script' = Script /\ Deals' = Deals
  BY ScriptStays
<1>2. pc'.i = pc.i /\ Vendor' = Vendor
  BY <1>1 DEF Vendor
<1>3. pc.i \in 1 .. Len(Deals) /\ \A k \in pc.i + 1 .. Len(Deals) : charged[Deals[k]] = 0
  BY AtDeal
<1>4. StageInv'
  BY <1>1, <1>2, <1>3 DEF StageInv, DealInv, UnspentInv, OracleInv, Unspent, Founding, DealStages
<1>5. PaidWithinAttempts'
  BY <1>1 DEF BasketInv, PaidWithinAttempts
<1>6. OffersInv'
  BY OffersStand DEF Founding, DealStages
<1>7. BasketForm'
  BY DEF BasketInv, BasketForm, KnownScript
<1> QED
  BY <1>4, <1>5, <1>6, <1>7 DEF BasketInv

LEMMA AwardKeeps == ASSUME BasketInv, Award PROVE BasketInv'
<1>1. pc.at = "deal" /\ pc.at \in DealStages /\ UNCHANGED <<script, unsound, offers, charged, rulings>>
  BY DEF Award, DealStages
<1>2. CASE DealFails
  BY <1>1, <1>2, FreeFailure
<1>3. CASE /\ Vendor \notin unsound /\ "buyer" \notin unsound
           /\ To("pay", pc.i) /\ leg' = NoLeg /\ UNCHANGED results
  <2>1. pc' = [at |-> pc'.at, i |-> pc.i] /\ pc'.at = "pay" /\ pc'.at \in DealStages
    BY <1>3 DEF To, DealStages
  <2>2. charged[Vendor] = 0
    BY <1>1 DEF BasketInv, StageInv, DealInv
  <2>3. LegForm(leg')
    BY <1>3 DEF LegForm, NoLeg
  <2>4. rulings' \in [Names -> Rulings] /\ SettledIsEarned'
    BY <1>1, <1>3 DEF BasketInv, BasketForm, SettledIsEarned
  <2> QED
    BY <1>1, <1>3, <2>1, <2>2, <2>3, <2>4, InsideKeeps
<1> QED
  BY <1>2, <1>3 DEF Award

(* The seam charges the deal in hand once, and nobody else.                *)
LEMMA SeamCharges ==
  ASSUME BasketInv, pc.at = "pay", charged' = [charged EXCEPT ![Vendor] = @ + 1], UNCHANGED <<script, unsound>>
  PROVE  /\ charged' \in [Names -> Nat] /\ charged'[Vendor] = 1
         /\ \A n \in Names : charged'[n] >= charged[n]
         /\ \A k \in pc.i + 1 .. Len(Deals) : charged'[Deals[k]] = 0
         /\ PaidWithinAttempts'
<1>1. /\ charged \in [Names -> Nat] /\ charged[Vendor] = 0
      /\ Vendor \notin unsound /\ "buyer" \notin unsound
  BY DEF BasketInv, BasketForm, StageInv, DealInv, DealStages
<1>2. /\ Vendor \in Names /\ (Script.x402 => Vendor # Oracle)
      /\ \A k \in pc.i + 1 .. Len(Deals) : charged[Deals[k]] = 0 /\ Deals[k] \in Names /\ Deals[k] # Vendor
  BY AtDeal DEF DealStages
<1>3. /\ charged' \in [Names -> Nat] /\ charged'[Vendor] = 1
      /\ \A n \in Names : n # Vendor => charged'[n] = charged[n]
  <2>1. charged[Vendor] + 1 = 1
    BY <1>1
  <2>2. charged' = [charged EXCEPT ![Vendor] = 1]
    BY <1>2, <2>1
  <2> QED
    BY <1>1, <1>2, <2>2
<1>4. \A n \in Names : charged'[n] >= charged[n]
  BY <1>1, <1>3
<1>5. \A k \in pc.i + 1 .. Len(Deals) : charged'[Deals[k]] = 0
  BY <1>2, <1>3
<1>6. PaidWithinAttempts'
  <2>1. Script' = Script
    BY ScriptStays
  <2>2. ASSUME NEW n \in Names
        PROVE  /\ charged'[n] <= IF n = Oracle /\ Script.x402 THEN Script.attempts ELSE 1
               /\ charged'[n] > 0 => n \notin unsound
    <3>1. CASE n = Vendor
      BY <1>1, <1>2, <1>3, <3>1
    <3>2. CASE n # Vendor
      BY <1>3, <3>2 DEF BasketInv, PaidWithinAttempts
    <3> QED
      BY <3>1, <3>2
  <2> QED
    BY <1>1, <2>1, <2>2 DEF PaidWithinAttempts
<1> QED
  BY <1>3, <1>4, <1>5, <1>6

LEMMA SeamKeeps == ASSUME BasketInv, SettleSeam PROVE BasketInv'
<1>1. pc.at = "pay" /\ pc.at \in DealStages /\ UNCHANGED <<script, unsound, offers, rulings>>
  BY DEF SettleSeam, DealStages
<1>2. CASE DealFails /\ UNCHANGED charged
  BY <1>1, <1>2, FreeFailure
<1>3. CASE DealFails /\ charged' = [charged EXCEPT ![Vendor] = @ + 1]
  <2>1. /\ charged' \in [Names -> Nat] /\ \A n \in Names : charged'[n] >= charged[n]
    BY <1>1, <1>3, SeamCharges
  <2>2. /\ \A k \in pc.i + 1 .. Len(Deals) : charged'[Deals[k]] = 0
        /\ PaidWithinAttempts'
    BY <1>1, <1>3, SeamCharges
  <2> QED
    BY <1>1, <1>3, <2>1, <2>2, DealFailsKeeps
<1>4. CASE /\ charged' = [charged EXCEPT ![Vendor] = @ + 1]
           /\ To("deliver", pc.i) /\ leg' = [leg EXCEPT !.paid = TRUE] /\ UNCHANGED results
  <2>1. /\ charged' \in [Names -> Nat] /\ charged'[Vendor] = 1
        /\ \A n \in Names : charged'[n] >= charged[n]
        /\ \A k \in pc.i + 1 .. Len(Deals) : charged'[Deals[k]] = 0
        /\ PaidWithinAttempts'
    BY <1>1, <1>4, SeamCharges
  <2>2. pc' = [at |-> "deliver", i |-> pc.i]
    BY <1>4 DEF To
  <2>3. Script' = Script /\ Deals' = Deals
    BY <1>1, ScriptStays
  <2>4. Vendor' = Vendor /\ pc.i \in 1 .. Len(Deals)
    BY <1>1, <2>2, <2>3, AtDeal DEF Vendor
  <2>5. StageInv'
    BY <2>1, <2>2, <2>3, <2>4 DEF StageInv, DealInv, UnspentInv, OracleInv, Unspent, Founding, DealStages
  <2>6. OffersInv'
    BY <1>1, <2>2, OffersStand DEF Founding
  <2>7. SettledIsEarned' /\ results' \in Seq(Reports)
    <3>1. Vendor \in Names
      BY <1>1, AtDeal
    <3> QED
      BY <1>1, <1>4, <2>1, <3>1, ReportsKept
  <2>8. LegForm(leg')
    <3>1. LegForm(leg)
      BY DEF BasketInv, BasketForm
    <3> QED
      BY <1>4, <3>1 DEF LegForm
  <2>9. BasketForm'
    BY <1>1, <2>1, <2>2, <2>7, <2>8 DEF BasketInv, BasketForm, KnownScript
  <2> QED
    BY <2>1, <2>5, <2>6, <2>7, <2>9 DEF BasketInv
<1> QED
  BY <1>2, <1>3, <1>4 DEF SettleSeam

LEMMA WorkKeeps == ASSUME BasketInv, liveWork PROVE BasketInv'
<1>1. pc.at = "deliver" /\ pc.at \in DealStages /\ UNCHANGED <<script, unsound, offers, charged, rulings>>
  BY DEF liveWork, DealStages
<1>2. CASE DealFails
  BY <1>1, <1>2, FreeFailure
<1>3. CASE /\ \E artifact \in {"good", "bad"} : leg' = [leg EXCEPT !.delivered = artifact, !.stash = artifact]
           /\ To("evidence", pc.i) /\ UNCHANGED results
  <2>1. pc' = [at |-> pc'.at, i |-> pc.i] /\ pc'.at = "evidence" /\ pc'.at \in DealStages
    BY <1>3 DEF To, DealStages
  <2>2. charged[Vendor] > 0
    BY <1>1 DEF BasketInv, StageInv, DealInv
  <2>3. LegForm(leg')
    <3>1. LegForm(leg)
      BY DEF BasketInv, BasketForm
    <3> QED
      BY <1>3, <3>1 DEF LegForm
  <2>4. rulings' \in [Names -> Rulings] /\ SettledIsEarned'
    BY <1>1, <1>3 DEF BasketInv, BasketForm, SettledIsEarned
  <2> QED
    BY <1>1, <1>3, <2>1, <2>2, <2>3, <2>4, InsideKeeps
<1> QED
  BY <1>2, <1>3 DEF liveWork

(* A judged seller's deal is not accepted by the mechanical checks.        *)
LEMMA FulfilKeeps == ASSUME BasketInv, Fulfil PROVE BasketInv'
<1>1. pc.at = "evidence" /\ pc.at \in DealStages /\ UNCHANGED <<script, unsound, offers, charged, rulings>>
  BY DEF Fulfil, DealStages
<1>2. CASE DealFails
  BY <1>1, <1>2, FreeFailure
<1>3. CASE \E bundle, mechanical \in BOOLEAN :
             /\ leg' = [leg EXCEPT !.completed = TRUE, !.bundle = bundle,
                                   !.verdict = IF Vendor \in Judged THEN "needs-evaluator"
                                               ELSE IF mechanical THEN "accept" ELSE "reject",
                                   !.accepted = liveObserve /\ mechanical /\ Vendor \notin Judged]
             /\ To("gate", pc.i) /\ UNCHANGED results
  <2>1. PICK bundle \in BOOLEAN, mechanical \in BOOLEAN :
             /\ leg' = [leg EXCEPT !.completed = TRUE, !.bundle = bundle,
                                   !.verdict = IF Vendor \in Judged THEN "needs-evaluator"
                                               ELSE IF mechanical THEN "accept" ELSE "reject",
                                   !.accepted = liveObserve /\ mechanical /\ Vendor \notin Judged]
             /\ To("gate", pc.i) /\ UNCHANGED results
    BY <1>3
  <2>2. pc' = [at |-> pc'.at, i |-> pc.i] /\ pc'.at = "gate" /\ pc'.at \in DealStages
    BY <2>1 DEF To, DealStages
  <2>3. charged[Vendor] > 0
    BY <1>1 DEF BasketInv, StageInv, DealInv
  <2>4. LegForm(leg) /\ LegForm(leg')
    <3>1. LegForm(leg)
      BY DEF BasketInv, BasketForm
    <3>2. \E v, a : leg' = [leg EXCEPT !.completed = TRUE, !.bundle = bundle, !.verdict = v, !.accepted = a]
      BY <2>1
    <3> QED
      BY <3>1, <3>2 DEF LegForm
  <2>5. leg'.accepted => Vendor \notin Judged
    <3> DEFINE a == liveObserve /\ mechanical /\ Vendor \notin Judged
    <3>1. \E v : leg' = [leg EXCEPT !.completed = TRUE, !.bundle = bundle, !.verdict = v, !.accepted = a]
      BY <2>1
    <3>2. a => Vendor \notin Judged
      OBVIOUS
    <3> HIDE DEF a
    <3>3. leg'.accepted = a
      BY <2>4, <3>1 DEF LegForm
    <3> QED
      BY <3>2, <3>3
  <2>6. rulings' \in [Names -> Rulings] /\ SettledIsEarned'
    BY <1>1, <2>1 DEF BasketInv, BasketForm, SettledIsEarned
  <2> QED
    BY <1>1, <2>1, <2>2, <2>3, <2>4, <2>5, <2>6, InsideKeeps
<1> QED
  BY <1>2, <1>3 DEF Fulfil

(* The first ruling on a seller is the one that stays.                     *)
LEMMA GateKeeps == ASSUME BasketInv, EvalGate PROVE BasketInv'
<1>1. /\ pc.at = "gate" /\ pc.at \in DealStages /\ UNCHANGED <<script, unsound, offers, charged>>
      /\ rulings[Vendor] = "none"
  BY DEF EvalGate, DealStages
<1>2. CASE DealFails /\ UNCHANGED rulings
  BY <1>1, <1>2, FreeFailure
<1>3. CASE \E r \in {"accept", "reject", "forged"} :
             /\ rulings' = [rulings EXCEPT ![Vendor] = r]
             /\ leg' = [leg EXCEPT !.accepted = liveObserve /\ r = "accept", !.verdict = "ruled"]
             /\ UNCHANGED <<pc, results>>
  <2>1. PICK r \in {"accept", "reject", "forged"} :
             /\ rulings' = [rulings EXCEPT ![Vendor] = r]
             /\ leg' = [leg EXCEPT !.accepted = liveObserve /\ r = "accept", !.verdict = "ruled"]
             /\ UNCHANGED <<pc, results>>
    BY <1>3
  <2>2. /\ Vendor \in Names /\ rulings \in [Names -> Rulings] /\ LegForm(leg)
        /\ charged[Vendor] > 0 /\ pc = [at |-> pc.at, i |-> pc.i] /\ results \in Seq(Reports)
    BY <1>1, AtDeal DEF BasketInv, BasketForm, StageInv, DealInv
  <2>3. /\ rulings' \in [Names -> Rulings] /\ rulings'[Vendor] = r
        /\ \A n \in Names : n # Vendor => rulings'[n] = rulings[n]
    BY <2>1, <2>2 DEF Rulings
  <2>4. LegForm(leg') /\ (leg'.accepted => r = "accept")
    <3> DEFINE a == liveObserve /\ r = "accept"
    <3>1. leg' = [leg EXCEPT !.accepted = a, !.verdict = "ruled"] /\ (a => r = "accept")
      BY <2>1
    <3> HIDE DEF a
    <3>2. LegForm(leg') /\ leg'.accepted = a
      BY <2>2, <3>1 DEF LegForm
    <3> QED
      BY <3>1, <3>2
  <2>5. SettledIsEarned'
    <3> SUFFICES ASSUME NEW i \in 1 .. Len(results), results[i].status = "settled"
                 PROVE  /\ charged[results[i].seller] > 0
                        /\ results[i].tx = "tx"
                        /\ results[i].seller \in Judged => rulings'[results[i].seller] = "accept"
      BY <1>1, <2>1 DEF SettledIsEarned
    <3>1. /\ charged[results[i].seller] > 0 /\ results[i].tx = "tx"
          /\ results[i].seller \in Judged => rulings[results[i].seller] = "accept"
      BY DEF BasketInv, SettledIsEarned
    <3>2. results[i] \in Reports
      BY <2>2
    <3>3. results[i].seller \in Names
      BY <3>2 DEF Reports
    <3> QED
      BY <1>1, <2>3, <3>1, <3>3
  <2>6. pc' = [at |-> pc'.at, i |-> pc.i] /\ pc'.at = "gate" /\ pc'.at \in DealStages
    BY <1>1, <2>1, <2>2
  <2> QED
    BY <1>1, <2>1, <2>2, <2>3, <2>4, <2>5, <2>6, InsideKeeps
<1> QED
  BY <1>2, <1>3 DEF EvalGate

(* A deal is reported settled only for a charged seller whose judged work  *)
(* was ruled acceptable.                                                   *)
LEMMA ReportKeeps == ASSUME BasketInv, DealReport PROVE BasketInv'
<1> DEFINE st == IF liveObserve /\ leg.bundle /\ leg.paid /\ leg.accepted THEN "settled" ELSE "blocked"
           e == [seller |-> Vendor, status |-> st, tx |-> "tx"]
<1>1. /\ pc.at = "gate" /\ pc.at \in DealStages /\ UNCHANGED <<script, unsound, offers, charged, rulings>>
      /\ results' = Append(results, e) /\ leg' = NoLeg /\ NextDeal
  BY DEF DealReport, Report, DealStages
<1>2. /\ Vendor \in Names /\ \A k \in pc.i + 1 .. Len(Deals) : charged[Deals[k]] = 0
  BY <1>1, AtDeal
<1>3. charged[Vendor] > 0 /\ (leg.accepted /\ Vendor \in Judged => rulings[Vendor] = "accept")
  BY <1>1 DEF BasketInv, StageInv, DealInv
<1>4. /\ e \in Reports /\ e.seller = Vendor /\ e.tx = "tx"
      /\ e.status = "settled" => leg.accepted
  BY <1>2 DEF Reports
<1>5. results \in Seq(Reports)
  BY DEF BasketInv, BasketForm
<1> HIDE DEF e
<1>6. /\ results' \in Seq(Reports)
      /\ \A i \in 1 .. Len(results') : \/ i \in 1 .. Len(results) /\ results'[i] = results[i]
                                       \/ results'[i] = e
  BY <1>1, <1>4, <1>5, AppendReport
<1>7. SettledIsEarned'
  <2>1. ASSUME NEW i \in 1 .. Len(results'), results'[i].status = "settled"
        PROVE  /\ charged[results'[i].seller] > 0 /\ results'[i].tx = "tx"
               /\ results'[i].seller \in Judged => rulings[results'[i].seller] = "accept"
    <3>1. CASE i \in 1 .. Len(results) /\ results'[i] = results[i]
      BY <2>1, <3>1 DEF BasketInv, SettledIsEarned
    <3>2. CASE results'[i] = e
      BY <1>3, <1>4, <2>1, <3>2
    <3> QED
      BY <1>6, <3>1, <3>2
  <2> QED
    BY <1>1, <2>1 DEF SettledIsEarned
<1>8. Script' = Script /\ Deals' = Deals
  BY <1>1, ScriptStays
<1>9. StageInv' /\ pc' = [at |-> pc'.at, i |-> pc'.i] /\ pc'.at \in {"report", "deal", "aborted"}
  BY <1>1, <1>2, <1>8, DealLeft
<1>10. OffersInv'
  BY <1>1, <1>9, OffersStand DEF Founding
<1>11. BasketForm'
  BY <1>1, <1>6, <1>9 DEF BasketInv, BasketForm, KnownScript, LegForm, NoLeg
<1>12. PaidWithinAttempts'
  BY <1>1, <1>8 DEF BasketInv, PaidWithinAttempts
<1> QED
  BY <1>7, <1>9, <1>10, <1>11, <1>12 DEF BasketInv

LEMMA BasketKeeps == ASSUME BasketInv, [BasketNext]_basketVars PROVE BasketInv'
<1>1. CASE BasketNext
  BY <1>1, StartKeeps, ReuseKeeps, FundKeeps, NonceKeeps, WalletKeeps, PublishKeeps, DiscoverKeeps,
     X402BlockedKeeps, X402AttemptKeeps, X402ReportKeeps, AwardKeeps, SeamKeeps, WorkKeeps, FulfilKeeps,
     GateKeeps, ReportKeeps DEF BasketNext
<1>2. CASE UNCHANGED basketVars
  <2>1. UNCHANGED <<pc, script, unsound, offers, leg, charged, rulings, results>>
    BY <1>2 DEF basketVars
  <2>2. Script' = Script /\ Shops' = Shops /\ Deals' = Deals /\ Vendor' = Vendor
    BY <2>1, ScriptStays DEF Vendor
  <2>3. BasketForm' /\ OffersInv'
    BY <2>1, <2>2 DEF BasketInv, BasketForm, OffersInv, KnownScript, LegForm
  <2>4. StageInv'
    BY <2>1, <2>2 DEF BasketInv, StageInv, UnspentInv, OracleInv, DealInv
  <2>5. PaidWithinAttempts' /\ SettledIsEarned'
    BY <2>1, <2>2 DEF BasketInv, PaidWithinAttempts, SettledIsEarned
  <2> QED
    BY <2>3, <2>4, <2>5 DEF BasketInv
<1> QED
  BY <1>1, <1>2

LEMMA BasketInvariant == MCSpec => []BasketInv
<1>1. BasketInv /\ [BasketNext]_basketVars => BasketInv'
  BY BasketKeeps
<1> QED
  BY <1>1, BasketStarts, BasketPart, PTL

(* What l4 has reported: the sellers it has come to, in order.             *)
Reported(p) == IF p.at \in Unspent \cup {"x402", "settled"} THEN 0
               ELSE IF p.at \in DealStages THEN p.i ELSE Len(Shops)
Tally ==
  /\ pc.at # "aborted" => Len(results) = Reported(pc)
  /\ \A i \in 1 .. Len(results) : i <= Len(Shops) /\ results[i].seller = Shops[i]
ReportInv == script = "l4" => Tally

LEMMA SellersOfL4 ==
  ASSUME script = "l4"
  PROVE  /\ Script.x402 = TRUE /\ Script.tolerant = TRUE
         /\ Deals \in Seq(Names) /\ Len(Shops) = Len(Deals) + 1 /\ Shops[1] = Oracle
         /\ \A k \in 1 .. Len(Deals) : Shops[k + 1] = Deals[k]
<1> DEFINE D == Deals
<1>1. Script = l4
  BY DEF Script
<1>2. Script.x402 = TRUE /\ Script.tolerant = TRUE
  BY <1>1 DEF l4
<1>3. D \in Seq(Names)
  BY DealsFact DEF KnownScript
<1>4. Shops = <<Oracle>> \o D
  BY <1>2 DEF Shops, Deals
<1>5. Oracle \in Names
  BY DEF Names
<1> HIDE DEF D
<1>6. /\ Len(<<Oracle>> \o D) = Len(D) + 1
      /\ (<<Oracle>> \o D)[1] = Oracle
      /\ \A k \in 1 .. Len(D) : (<<Oracle>> \o D)[k + 1] = D[k]
  BY <1>3, <1>5
<1> QED
  BY <1>2, <1>3, <1>4, <1>6 DEF D

LEMMA NothingReported ==
  ASSUME BasketInv, script = "l4", Tally, UNCHANGED <<script, results>>,
         pc.at # "aborted" /\ (pc'.at = "aborted" \/ Reported(pc') = Reported(pc))
  PROVE  Tally'
<1>1. Shops' = Shops
  BY ScriptStays
<1>2. Reported(pc)' = Reported(pc')
  BY <1>1 DEF Reported
<1> QED
  BY <1>1, <1>2 DEF Tally

LEMMA OneReported ==
  ASSUME BasketInv, script = "l4", Tally, UNCHANGED script, NEW e \in Reports, results' = Append(results, e),
         pc.at # "aborted", Reported(pc) \in Nat, Reported(pc) < Len(Shops), e.seller = Shops[Reported(pc) + 1],
         Reported(pc') = Reported(pc) + 1
  PROVE  Tally'
<1>1. Shops' = Shops
  BY ScriptStays
<1>2. Reported(pc)' = Reported(pc')
  BY <1>1 DEF Reported
<1>3. results \in Seq(Reports) /\ Len(results) = Reported(pc)
  BY DEF BasketInv, BasketForm, Tally
<1>4. Len(results') = Len(results) + 1 /\ results'[Len(results) + 1] = e
      /\ \A i \in 1 .. Len(results) : results'[i] = results[i]
  BY <1>3
<1>5. ASSUME NEW i \in 1 .. Len(results') PROVE i <= Len(Shops) /\ results'[i].seller = Shops[i]
  <2>1. CASE i \in 1 .. Len(results)
    BY <1>4, <2>1 DEF Tally
  <2>2. CASE i = Len(results) + 1
    <3>1. Len(Shops) \in Nat
      BY ShopsFact DEF KnownScript
    <3> QED
      BY <1>3, <1>4, <2>2, <3>1
  <2> QED
    BY <1>3, <1>4, <2>1, <2>2
<1> QED
  BY <1>1, <1>2, <1>3, <1>4, <1>5 DEF Tally

LEMMA AfterOracleTally == ASSUME script = "l4", AfterOracle PROVE Reported(pc') = 1
<1>1. \/ pc' = [at |-> "report", i |-> 0] /\ Deals = <<>>
      \/ pc' = [at |-> "deal", i |-> 1]
  BY DEF AfterOracle, To, Deals
<1>2. Deals = <<>> => Len(Shops) = 1
  BY SellersOfL4
<1> QED
  BY <1>1, <1>2 DEF Reported, Unspent, Founding, DealStages

(* The oracle's leg ends with one report, the oracle's.                    *)
LEMMA OracleReported ==
  ASSUME BasketInv, script = "l4", Tally, UNCHANGED script, pc.at \in {"x402", "settled"},
         NEW status \in {"settled", "blocked"}, NEW tx \in {"tx", "-"},
         Report(Oracle, status, tx), AfterOracle
  PROVE  Tally'
<1> DEFINE e == [seller |-> Oracle, status |-> status, tx |-> tx]
<1>1. results' = Append(results, e) /\ e.seller = Oracle
  BY DEF Report
<1>2. e \in Reports
  BY DEF Reports, Names
<1>3. Reported(pc) = 0
  BY DEF Reported
<1>4. Len(Shops) \in Nat /\ Len(Shops) > 0 /\ Shops[1] = Oracle
  BY ShopsFact, SellersOfL4 DEF KnownScript
<1>5. Reported(pc') = 1
  BY AfterOracleTally
<1> HIDE DEF e
<1> QED
  BY <1>1, <1>2, <1>3, <1>4, <1>5, OneReported

(* A deal ends with one report, its seller's.                              *)
LEMMA DealReported ==
  ASSUME BasketInv, script = "l4", Tally, UNCHANGED script, pc.at \in DealStages,
         NEW status \in {"settled", "blocked"}, NEW tx \in {"tx", "-"},
         Report(Vendor, status, tx), NextDeal
  PROVE  Tally'
<1> DEFINE e == [seller |-> Vendor, status |-> status, tx |-> tx]
<1>1. results' = Append(results, e) /\ e.seller = Vendor
  BY DEF Report
<1>2. /\ pc.i \in 1 .. Len(Deals) /\ Len(Deals) \in Nat
      /\ Vendor = Deals[pc.i] /\ Vendor \in Names
  BY AtDeal
<1>3. e \in Reports
  BY <1>2 DEF Reports
<1>4. Reported(pc) = pc.i
  BY DEF Reported, DealStages, Unspent, Founding
<1>5. Len(Shops) = Len(Deals) + 1 /\ Vendor = Shops[pc.i + 1]
  BY <1>2, SellersOfL4
<1>6. \/ pc' = [at |-> "report", i |-> 0] /\ ~(pc.i < Len(Deals))
      \/ pc' = [at |-> "deal", i |-> pc.i + 1]
  BY DEF NextDeal, To, Deals
<1>7. Reported(pc') = pc.i + 1
  BY <1>2, <1>5, <1>6 DEF Reported, DealStages, Unspent, Founding
<1> HIDE DEF e
<1> QED
  BY <1>1, <1>2, <1>3, <1>4, <1>5, <1>7, OneReported DEF DealStages

LEMMA CaughtReported ==
  ASSUME BasketInv, script = "l4", Tally, UNCHANGED script,
         pc.at \in {"x402", "settled"}, Caught(Oracle, AfterOracle)
  PROVE  Tally'
<1>1. Report(Oracle, "blocked", "-") /\ AfterOracle
  BY SellersOfL4 DEF Caught
<1> QED
  BY <1>1, OracleReported

LEMMA FailureReported ==
  ASSUME BasketInv, script = "l4", Tally, UNCHANGED script, pc.at \in DealStages, DealFails
  PROVE  Tally'
<1>1. Report(Vendor, "blocked", "-") /\ NextDeal
  BY SellersOfL4 DEF DealFails, Caught
<1> QED
  BY <1>1, DealReported

LEMMA InsideTally ==
  ASSUME BasketInv, script = "l4", Tally, UNCHANGED <<script, results>>, pc.at \in DealStages,
         pc'.at \in DealStages, pc'.i = pc.i
  PROVE  Tally'
<1>1. Reported(pc') = Reported(pc)
  BY DEF Reported, DealStages, Unspent, Founding
<1> QED
  BY <1>1, NothingReported DEF DealStages

LEMMA UnspentTally ==
  ASSUME BasketInv, script = "l4", Tally,
         Start \/ Reuse \/ Fund \/ waitNonceAdvance \/ establishWallet \/ PublishOne \/ Discover
  PROVE  Tally'
<1>1. pc.at \in Unspent /\ UNCHANGED <<script, results>>
  BY DEF Start, Reuse, Fund, waitNonceAdvance, establishWallet, PublishOne, Discover, Unspent, Founding
<1>2. ASSUME Start \/ Fund \/ waitNonceAdvance PROVE pc'.at \in Unspent \cup {"aborted", "x402"}
  <2>1. establishFails \/ pc'.at \in Unspent \cup {"aborted"}
    BY <1>2 DEF Start, Fund, waitNonceAdvance, To, Unspent, Founding
  <2> QED
    BY <2>1, EstablishFailsForm DEF Unspent, Founding
<1>3. ASSUME Reuse \/ establishWallet PROVE pc'.at \in Unspent \cup {"aborted", "x402"}
  <2>1. establishFails \/ NextWallet
    BY <1>3 DEF Reuse, establishWallet
  <2> QED
    BY <2>1, EstablishFailsForm, NextWalletForm DEF Unspent, Founding
<1>4. ASSUME PublishOne PROVE pc'.at \in Unspent \cup {"aborted", "x402"}
  BY <1>4 DEF PublishOne, To, Unspent
<1>5. ASSUME Discover PROVE pc'.at \in Unspent \cup {"aborted", "x402"}
  <2>1. To("x402", 1)
    BY <1>5, SellersOfL4 DEF Discover
  <2> QED
    BY <2>1 DEF To
<1>6. pc'.at \in Unspent \cup {"aborted", "x402"}
  BY <1>2, <1>3, <1>4, <1>5
<1>7. Reported(pc) = 0 /\ (pc'.at = "aborted" \/ Reported(pc') = 0)
  BY <1>1, <1>6 DEF Reported
<1> QED
  BY <1>1, <1>7, NothingReported DEF Unspent, Founding

LEMMA OracleTally ==
  ASSUME BasketInv, script = "l4", Tally, x402Blocked \/ x402Attempt \/ x402Report
  PROVE  Tally'
<1>1. pc.at \in {"x402", "settled"} /\ UNCHANGED script
  BY DEF x402Blocked, x402Attempt, x402Report
<1>2. CASE Caught(Oracle, AfterOracle)
  BY <1>1, <1>2, CaughtReported
<1>3. CASE \E status \in {"settled", "blocked"}, tx \in {"tx", "-"} : Report(Oracle, status, tx) /\ AfterOracle
  BY <1>1, <1>3, OracleReported
<1>4. CASE UNCHANGED results /\ pc'.at \in {"x402", "settled", "aborted"}
  <2>1. Reported(pc) = 0 /\ (pc'.at = "aborted" \/ Reported(pc') = 0)
    BY <1>1, <1>4 DEF Reported
  <2> QED
    BY <1>1, <1>4, <2>1, NothingReported
<1>5. CASE x402Blocked
  BY <1>2, <1>5 DEF x402Blocked
<1>6. CASE x402Attempt
  <2>1. PICK delivered \in {"none", "good", "bad"}, paid \in BOOLEAN, completed \in BOOLEAN :
          IF completed THEN To("settled", 0) /\ UNCHANGED results
          ELSE IF pc.i < Script.attempts THEN To("x402", pc.i + 1) /\ UNCHANGED results
          ELSE IF Script.tolerant
          THEN (\E tx \in IF leg'.paid THEN {"tx", "-"} ELSE {"-"} : Report(Oracle, "blocked", tx)) /\ AfterOracle
          ELSE To("aborted", 0) /\ UNCHANGED results
    BY <1>6 DEF x402Attempt
  <2>2. \/ To("settled", 0) /\ UNCHANGED results
        \/ To("x402", pc.i + 1) /\ UNCHANGED results
        \/ \E tx \in {"tx", "-"} : Report(Oracle, "blocked", tx) /\ AfterOracle
        \/ To("aborted", 0) /\ UNCHANGED results
    BY <2>1
  <2> QED
    BY <1>3, <1>4, <2>2 DEF To
<1>7. CASE x402Report
  BY <1>2, <1>3, <1>7 DEF x402Report
<1> QED
  BY <1>5, <1>6, <1>7

LEMMA DealTally ==
  ASSUME BasketInv, script = "l4", Tally, Award \/ SettleSeam \/ liveWork \/ Fulfil \/ EvalGate \/ DealReport
  PROVE  Tally'
<1>1. pc.at \in DealStages /\ UNCHANGED script
  BY DEF Award, SettleSeam, liveWork, Fulfil, EvalGate, DealReport, DealStages
<1>2. CASE DealFails
  BY <1>1, <1>2, FailureReported
<1>3. CASE UNCHANGED results /\ pc'.at \in DealStages /\ pc'.i = pc.i
  BY <1>1, <1>3, InsideTally
<1>4. CASE \E status \in {"settled", "blocked"} : Report(Vendor, status, "tx") /\ NextDeal
  BY <1>1, <1>4, DealReported
<1>5. CASE Award \/ SettleSeam \/ liveWork \/ Fulfil
  <2>1. \/ DealFails
        \/ UNCHANGED results /\ (To("pay", pc.i) \/ To("deliver", pc.i) \/ To("evidence", pc.i) \/ To("gate", pc.i))
    BY <1>5 DEF Award, SettleSeam, liveWork, Fulfil
  <2> QED
    BY <1>2, <1>3, <2>1 DEF To, DealStages
<1>6. CASE EvalGate
  BY <1>1, <1>2, <1>3, <1>6 DEF EvalGate
<1>7. CASE DealReport
  BY <1>4, <1>7 DEF DealReport
<1> QED
  BY <1>5, <1>6, <1>7

LEMMA ReportInvariant == MCSpec => []ReportInv
<1>1. BasketInit \/ RestBasket => ReportInv
  <2> SUFFICES ASSUME BasketInit \/ RestBasket, script = "l4" PROVE Tally
    BY DEF ReportInv
  <2>1. results = <<>> /\ pc.at \in {"start", "aborted"}
    BY DEF BasketInit, RestBasket
  <2> QED
    BY <2>1 DEF Tally, Reported, Unspent, Founding
<1>2. BasketInv /\ ReportInv /\ [BasketNext]_basketVars => ReportInv'
  <2> SUFFICES ASSUME BasketInv, ReportInv, [BasketNext]_basketVars, script' = "l4" PROVE Tally'
    BY DEF ReportInv
  <2>1. script = "l4" /\ Tally
    BY DEF ReportInv, BasketNext, basketVars, Start, Reuse, Fund, waitNonceAdvance, establishWallet, PublishOne,
           Discover, x402Blocked, x402Attempt, x402Report, Award, SettleSeam, liveWork, Fulfil, EvalGate, DealReport
  <2>2. CASE UNCHANGED basketVars
    <3>1. UNCHANGED <<pc, script, results>> /\ Shops' = Shops
      BY <2>2, ScriptStays DEF basketVars
    <3> QED
      BY <2>1, <3>1 DEF Tally, Reported
  <2>3. CASE BasketNext
    BY <2>1, <2>3, UnspentTally, OracleTally, DealTally DEF BasketNext
  <2> QED
    BY <2>2, <2>3
<1> QED
  BY <1>1, <1>2, BasketInvariant, BasketPart, PTL

LEMMA AllReported == BasketInv /\ ReportInv => EverySellerReported
<1> SUFFICES ASSUME BasketInv, ReportInv, script = "l4"
             PROVE  /\ Len(results) <= Len(Shops)
                    /\ \A i \in 1 .. Len(results) : results[i].seller = Shops[i]
                    /\ pc.at = "report" => Len(results) = Len(Shops)
  BY DEF EverySellerReported
<1>1. results \in Seq(Reports) /\ Len(Shops) \in Nat /\ Tally
  BY ShopsFact DEF BasketInv, BasketForm, ReportInv
<1>2. Len(results) <= Len(Shops)
  <2>1. Len(results) \in Nat
    BY <1>1
  <2>2. CASE Len(results) = 0
    BY <1>1, <2>2
  <2>3. CASE Len(results) > 0
    BY <1>1, <2>1, <2>3 DEF Tally
  <2> QED
    BY <2>1, <2>2, <2>3
<1>3. pc.at = "report" => Len(results) = Len(Shops)
  BY <1>1 DEF Tally, Reported, Unspent, Founding, DealStages
<1> QED
  BY <1>1, <1>2, <1>3 DEF Tally

-----------------------------------------------------------------------------
(* Wherever the market pays, in the runner, on the buyer's rails or in the *)
(* live scripts: money moves only under a commitment both parties signed   *)
(* and that was verified at its anchor's time, an accepted purchase was    *)
(* paid and verified, nothing is settled before the work, what a report    *)
(* calls settled was charged (and ruled acceptable, if it is judged), and  *)
(* nobody is charged more often than the scripts allow themselves.         *)
THEOREM PaymentSafety == MCSpec => []PaymentsAreEarned
<1>1. RunInv /\ MarketInv /\ BasketInv => PaymentsAreEarned
  BY PaidAgreement, PaidPurchases DEF PaymentsAreEarned, BasketInv
<1> QED
  BY <1>1, RunInvariant, MarketInvariant, BasketInvariant, PTL

(* A session reported as finalised has one canonical bundle, signed by     *)
(* both, that cites its one payment and its delivery; one that failed      *)
(* leaves a bundle that verifies, names its phase and cites what was paid; *)
(* the records follow the pipeline; the full basket reports each seller    *)
(* once, in order; an edition whose row reads updated is on the shelf,     *)
(* whole and genuine.                                                      *)
THEOREM RecordSafety == MCSpec => []RecordsAreComplete
<1>1. RecordInv /\ RecordsInv /\ BasketInv /\ ReportInv => RecordsAreComplete
  BY RecordsFollow, Evidenced, UpdatedIsSold, AllReported DEF RecordsAreComplete
<1> QED
  BY <1>1, RecordInvariant, RecordsInvariant, BasketInvariant, ReportInvariant, PTL

-----------------------------------------------------------------------------
(* The wallet and its write queue: Substrate.                              *)

LEMMA SubPart == MCSpec => (SubInit \/ RestSub) /\ [][SubNext]_subVars
<1>1. MCInit => SubInit \/ RestSub
  BY Zenon DEF MCInit
<1>2. [MCNext]_mcVars => [SubNext]_subVars
  BY Zenon DEF MCNext, mcVars
<1> QED
  BY <1>1, <1>2, PTL DEF MCSpec

StateForm(x) ==
  /\ x = State(x.at, x.nonce, x.tx, x.tries, x.rounds, x.known)
  /\ x.at \in {"waiting", "sending", "sent", "confirmed", "failed"}
  /\ x.nonce \in Nat /\ x.tx \in Nat /\ x.tries \in Nat /\ x.rounds \in Nat /\ x.known \in Nat
TxForm(t) ==
  /\ t = [by |-> t.by, nonce |-> t.nonce, at |-> t.at]
  /\ t.at \in {"pending", "included", "gone"} /\ t.nonce \in Nat \ {0}
  /\ t.by = {} \/ \E w \in Writes : t.by = {w}
SubForm ==
  /\ nextNonce \in Nat /\ asked \subseteq Calls /\ anchorTail \in Seq(asked)
  /\ write = [w \in Writes |-> write[w]] /\ \A w \in Writes : StateForm(write[w])
  /\ pool \in Seq({pool[t] : t \in DOMAIN pool}) /\ \A t \in DOMAIN pool : TxForm(pool[t])
  /\ localWrites = [s \in Programs |-> localWrites[s]]

(* The chain includes the nonces from 1 on, each once.                     *)
ChainInv ==
  /\ \A t \in Included : pool[t].nonce < ChainNext
  /\ \A t, u \in Included : pool[t].nonce = pool[u].nonce => t = u
  /\ ChainNext # 1 => \E t \in Included : pool[t].nonce = ChainNext - 1

(* A call in the queue was asked for and is in it once; only the running   *)
(* one has begun, its writes one after the other, and one that was not     *)
(* admitted yet is about to be under the reservation.                      *)
Active(w) == write[w].at \in {"sending", "sent"}
Running(c) == anchorTail # <<>> /\ Head(anchorTail) = c
OnceQueued == \A i, j \in DOMAIN anchorTail : anchorTail[i] = anchorTail[j] => i = j
Untouched ==
  /\ \A w \in Writes : w[1] \notin asked => write[w] = NoWrite
  /\ \A i \in DOMAIN anchorTail : i # 1 => \A w \in WritesOf(anchorTail[i]) : write[w] = NoWrite
  /\ \A w \in Writes : write[w].at = "waiting" => write[w] = NoWrite
InTurn ==
  \A w \in Writes : write[w].at # "waiting" => \A k \in 1 .. (w[2] - 1) : write[<<w[1], k>>].tx # 0
AllAdmitted == \A w \in Writes : write[w].tx # 0 /\ write[w].at # "sent" => Watched(w)
FirstTry ==
  \A w \in Writes : write[w].at = "sending" /\ write[w].tx = 0 =>
    Running(w[1]) /\ write[w].nonce = nextNonce
AnchorHolds == \A w \in Writes : Kind[w[1]] = "confirmed" /\ Active(w) => Running(w[1])
QueueInv == OnceQueued /\ Untouched /\ InTurn /\ AllAdmitted /\ FirstTry /\ AnchorHolds

(* An admitted write owns its transaction and its nonce, which is reserved; *)
(* one that knew its nonce keeps it, and every broadcast carries it.       *)
Owns ==
  \A w \in Writes : write[w].tx # 0 =>
    /\ write[w].tx \in DOMAIN pool /\ pool[write[w].tx].by = {w}
    /\ pool[write[w].tx].nonce = write[w].nonce
    /\ write[w].nonce \in 1 .. (nextNonce - 1)
Landed ==
  /\ \A w \in Writes : write[w].at \in {"sent", "confirmed"} => write[w].tx # 0
  /\ \A w \in Writes : write[w].at = "confirmed" => pool[write[w].tx].at = "included"
Known == \A w \in Writes : write[w].tx = 0 \/ write[w].known # 0 => write[w].nonce = write[w].known
Carries ==
  \A t \in DOMAIN pool, w \in Writes : w \in pool[t].by =>
    /\ write[w].at # "waiting"
    /\ write[w].known # 0 => pool[t].nonce = write[w].known
    /\ write[w].known = 0 /\ write[w].tx = 0 => pool[t].nonce <= ChainNext
    /\ write[w].known = 0 /\ write[w].tx # 0 => pool[t].nonce <= write[w].nonce
NonceInv == Owns /\ Landed /\ Known /\ Carries

(* What lies below the reservation was included, belongs to an admitted    *)
(* write or to a payment; nothing lies above it unless an answer was lost. *)
Reached(n) ==
  \/ n < ChainNext
  \/ \E w \in Writes : write[w].tx # 0 /\ write[w].nonce = n
  \/ \E t \in DOMAIN pool : pool[t].by = {} /\ pool[t].nonce = n
CoverInv ==
  /\ \A n \in 1 .. (nextNonce - 1) : Reached(n)
  /\ \A t \in DOMAIN pool : ~lost \/ pool[t].by = {} => pool[t].nonce < nextNonce

(* The writes of a call follow one another, and the next one is the one the *)
(* reservation stands at.                                                  *)
BatchInv ==
  \A w \in Writes : w[2] # 1 =>
    /\ write[w].at # "waiting" => write[w].nonce = write[<<w[1], w[2] - 1>>].nonce + 1 /\ write[w].known # 0
    /\ Running(w[1]) /\ write[w].at = "waiting" /\ write[<<w[1], w[2] - 1>>].tx # 0 =>
         nextNonce = write[<<w[1], w[2] - 1>>].nonce + 1

(* Of the writes of anchor, those confirmed come before the running one.   *)
TurnInv ==
  \A w, u \in Writes :
    Kind[w[1]] = "confirmed" /\ Kind[u[1]] = "confirmed" /\ write[w].at = "confirmed" /\ Active(u)
      => write[w].nonce < write[u].nonce

SubInv == SubForm /\ ChainInv /\ QueueInv /\ NonceInv /\ CoverInv /\ BatchInv /\ TurnInv
-----------------------------------------------------------------------------
LEMMA WriteFacts ==
  /\ \A w \in Writes : /\ w = <<w[1], w[2]>> /\ w[1] \in Calls /\ w[2] \in Nat /\ w[2] >= 1
                       /\ w[2] <= Len(Entries[w[1]]) /\ Entries[w[1]] \in Seq([slot : Programs, value : Nat \ {0}])
                       /\ EntryOf(w) \in [slot : Programs, value : Nat \ {0}]
                       /\ w \in WritesOf(w[1])
                       /\ \A k \in 1 .. (w[2] - 1) : <<w[1], k>> \in WritesOf(w[1])
  /\ \A c \in Calls : WritesOf(c) \subseteq Writes /\ \A w \in WritesOf(c) : w[1] = c
  /\ \A c \in Calls : Kind[c] # "batch" => <<c, 1>> \in Writes /\ WritesOf(c) = {<<c, 1>>}
<1> DEFINE E == [slot : Programs, value : Nat \ {0}]
<1>0. \A c \in Calls : Entries[c] \in Seq(E)
  BY Zenon, SubstrateAssumption
<1>1. \A c \in Calls : /\ Entries[c] \in Seq(E) /\ Len(Entries[c]) \in Nat
                      /\ \A k \in 1 .. Len(Entries[c]) : Entries[c][k] \in E
  <2> HIDE DEF E
  <2> QED
    BY <1>0
<1>2. \A c \in Calls : Kind[c] # "batch" => Len(Entries[c]) = 1
  BY SubstrateAssumption
<1>3. ASSUME NEW w \in Writes
      PROVE  \E c \in Calls : \E k \in 1 .. Len(Entries[c]) : w = <<c, k>>
  BY DEF Writes
<1>4. ASSUME NEW c \in Calls, NEW k \in 1 .. Len(Entries[c])
      PROVE  <<c, k>> \in Writes /\ <<c, k>> \in WritesOf(c)
  BY DEF Writes, WritesOf
<1>5. ASSUME NEW c \in Calls, NEW w \in WritesOf(c)
      PROVE  w[1] = c /\ \E k \in 1 .. Len(Entries[c]) : w = <<c, k>>
  BY DEF WritesOf
<1>6. \A c \in Calls : WritesOf(c) \subseteq Writes
  BY <1>4, <1>5
<1>7. ASSUME NEW c \in Calls, Kind[c] # "batch"
      PROVE  <<c, 1>> \in Writes /\ WritesOf(c) = {<<c, 1>>}
  <2>0. Len(Entries[c]) = 1
    BY <1>2, <1>7
  <2>1. 1 .. Len(Entries[c]) = {1}
    <3>1. 1 .. 1 = {1}
      OBVIOUS
    <3> QED
      BY <2>0, <3>1, Zenon
  <2> QED
    BY <2>1 DEF WritesOf, Writes
<1>8. ASSUME NEW w \in Writes
      PROVE  /\ w = <<w[1], w[2]>> /\ w[1] \in Calls /\ w[2] \in Nat /\ w[2] >= 1
             /\ w[2] <= Len(Entries[w[1]]) /\ Entries[w[1]] \in Seq([slot : Programs, value : Nat \ {0}])
             /\ EntryOf(w) \in [slot : Programs, value : Nat \ {0}]
             /\ w \in WritesOf(w[1])
             /\ \A k \in 1 .. (w[2] - 1) : <<w[1], k>> \in WritesOf(w[1])
  <2>1. PICK c \in Calls : \E k \in 1 .. Len(Entries[c]) : w = <<c, k>>
    BY <1>3
  <2>0. PICK k \in 1 .. Len(Entries[c]) : w = <<c, k>>
    BY <2>1
  <2>2. \A l \in 1 .. (w[2] - 1) : l \in 1 .. Len(Entries[c])
    BY <2>0, <1>1
  <2>3. Entries[c][k] \in E
    BY <1>1
  <2>4. <<c, k>>[1] = c /\ <<c, k>>[2] = k /\ k \in Nat /\ k >= 1 /\ k <= Len(Entries[c])
    BY <1>1
  <2>5. EntryOf(w) \in E
    BY <2>0, <2>3, <2>4 DEF EntryOf
  <2>6. w \in WritesOf(w[1]) /\ \A l \in 1 .. (w[2] - 1) : <<w[1], l>> \in WritesOf(w[1])
    BY <2>0, <2>2, <2>4, <1>4
  <2> HIDE DEF E
  <2> QED
    BY <2>0, <2>4, <2>5, <2>6, <1>1 DEF E
<1> QED
  BY <1>5, <1>6, <1>7, <1>8

LEMMA SlotShared ==
  ASSUME NEW w \in Writes, NEW v \in Writes, w # v, EntryOf(w).slot = EntryOf(v).slot
  PROVE  Kind[w[1]] = "confirmed" /\ Kind[v[1]] = "confirmed"
<1>1. ASSUME NEW c \in Calls, NEW d \in Calls, NEW k \in 1 .. Len(Entries[c]), NEW l \in 1 .. Len(Entries[d]),
             <<c, k>> # <<d, l>>, Entries[c][k].slot = Entries[d][l].slot
      PROVE  Kind[c] = "confirmed"
  <2>1. \A b \in Calls : \A i \in 1 .. Len(Entries[c]), j \in 1 .. Len(Entries[b]) :
          <<c, i>> # <<b, j>> /\ Entries[c][i].slot = Entries[b][j].slot => Kind[c] = "confirmed"
    BY Zenon, SubstrateAssumption
  <2> QED
    BY <1>1, <2>1
<1>2. \A u \in Writes : /\ u = <<u[1], u[2]>> /\ u[1] \in Calls /\ u[2] \in 1 .. Len(Entries[u[1]])
                        /\ EntryOf(u) = Entries[u[1]][u[2]]
  BY DEF Writes, EntryOf
<1> QED
  BY <1>1, <1>2

LEMMA EarlierEntries ==
  ASSUME NEW w \in Writes
  PROVE  /\ \A k \in 1 .. (w[2] - 1) : <<w[1], k>> \in Writes
         /\ w[2] \in Nat /\ w[2] >= 1
         /\ w[2] # 1 => <<w[1], w[2] - 1>> \in Writes
<1>1. \A k \in 1 .. (w[2] - 1) : <<w[1], k>> \in Writes
  BY Zenon, WriteFacts
<1>2. w[2] \in Nat /\ w[2] >= 1
  BY WriteFacts
<1>3. w[2] # 1 => w[2] - 1 \in 1 .. (w[2] - 1)
  BY <1>2
<1> QED
  BY <1>1, <1>2, <1>3

LEMMA SoleEntry ==
  ASSUME NEW w \in Writes, NEW v \in Writes, Kind[w[1]] # "batch", v[1] = w[1]
  PROVE  v = w
<1>1. w \in WritesOf(w[1]) /\ v \in WritesOf(w[1]) /\ w[1] \in Calls
  BY Zenon, WriteFacts
<1>2. WritesOf(w[1]) = {<<w[1], 1>>}
  BY Zenon, <1>1, WriteFacts
<1> QED
  BY <1>1, <1>2

LEMMA QueuedCalls ==
  ASSUME SubForm, NEW i \in DOMAIN anchorTail
  PROVE  anchorTail[i] \in asked /\ anchorTail[i] \in Calls /\ WritesOf(anchorTail[i]) \subseteq Writes
<1>1. anchorTail[i] \in asked /\ anchorTail[i] \in Calls
  BY DEF SubForm
<1> QED
  BY <1>1, WriteFacts

(* The pool grows by one transaction, or one of it changes its state.      *)
LEMMA PoolGrows ==
  ASSUME SubForm, NEW tx, TxForm(tx), tx.at = "pending", pool' = Append(pool, tx)
  PROVE  /\ Len(pool) \in Nat /\ DOMAIN pool' = DOMAIN pool \cup {Len(pool) + 1}
         /\ Len(pool) + 1 \notin DOMAIN pool
         /\ \A t \in DOMAIN pool : pool'[t] = pool[t]
         /\ pool'[Len(pool) + 1] = tx
         /\ Included' = Included /\ ChainNext' = ChainNext
         /\ pool' \in Seq({pool'[t] : t \in DOMAIN pool'})
<1> DEFINE S == {pool[t] : t \in DOMAIN pool}
           T == {pool'[t] : t \in DOMAIN pool'}
           R == S \cup {tx}
<1>1. pool \in Seq(S)
  BY DEF SubForm
<1>2. pool \in Seq(R) /\ tx \in R
  <2>1. S \subseteq R
    OBVIOUS
  <2> HIDE DEF S, R
  <2>2. pool \in Seq(R)
    BY <2>1, <1>1
  <2> QED
    BY <2>2 DEF R
<1> HIDE DEF S, R
<1>3. /\ Len(pool) \in Nat /\ DOMAIN pool = 1 .. Len(pool)
      /\ pool' \in Seq(R) /\ DOMAIN pool' = 1 .. (Len(pool) + 1) /\ Len(pool') = Len(pool) + 1
      /\ \A t \in 1 .. Len(pool) : pool'[t] = pool[t]
      /\ pool'[Len(pool) + 1] = tx
  BY <1>2
<1>4. DOMAIN pool' = DOMAIN pool \cup {Len(pool) + 1} /\ Len(pool) + 1 \notin DOMAIN pool
  BY <1>3
<1>5. Included' = Included
  BY <1>3, <1>4 DEF Included
<1>6. ChainNext' = ChainNext
  BY <1>5 DEF ChainNext
<1>7. pool' \in Seq(T)
  <2>1. \A t \in 1 .. Len(pool') : pool'[t] \in T
    BY <1>3
  <2> HIDE DEF T
  <2> QED
    BY <2>1, <1>3
<1> QED
  BY <1>3, <1>4, <1>5, <1>6, <1>7

LEMMA PoolChanges ==
  ASSUME SubForm, NEW t \in DOMAIN pool, NEW now \in {"included", "gone"}, pool[t].at = "pending",
         pool' = [pool EXCEPT ![t].at = now]
  PROVE  /\ DOMAIN pool' = DOMAIN pool
         /\ \A u \in DOMAIN pool : /\ pool'[u].by = pool[u].by /\ pool'[u].nonce = pool[u].nonce
                                   /\ u # t => pool'[u] = pool[u]
         /\ pool'[t].at = now
         /\ \A u \in DOMAIN pool : TxForm(pool'[u])
         /\ Included' = IF now = "included" THEN Included \cup {t} ELSE Included
         /\ pool' \in Seq({pool'[u] : u \in DOMAIN pool'})
<1>1. DOMAIN pool' = DOMAIN pool /\ Len(pool) \in Nat /\ DOMAIN pool = 1 .. Len(pool)
  BY DEF SubForm
<1>2. pool'[t] = [pool[t] EXCEPT !.at = now] /\ \A u \in DOMAIN pool : u # t => pool'[u] = pool[u]
  BY <1>1
<1>3. TxForm(pool[t]) /\ pool[t] = [by |-> pool[t].by, nonce |-> pool[t].nonce, at |-> pool[t].at]
  BY DEF SubForm, TxForm
<1>4. pool'[t] = [by |-> pool[t].by, nonce |-> pool[t].nonce, at |-> now]
  BY <1>2, <1>3
<1>5. \A u \in DOMAIN pool : TxForm(pool'[u])
  <2>1. TxForm(pool'[t])
    BY <1>3, <1>4 DEF TxForm
  <2> QED
    BY <2>1, <1>2 DEF SubForm
<1>6. Included' = IF now = "included" THEN Included \cup {t} ELSE Included
  <2>1. \A u \in DOMAIN pool : pool'[u].at = IF u = t THEN now ELSE pool[u].at
    BY <1>2, <1>4
  <2> QED
    BY <2>1, <1>1 DEF Included
<1>7. pool' \in Seq({pool'[u] : u \in DOMAIN pool'})
  <2> DEFINE T == {pool'[u] : u \in DOMAIN pool'}
  <2>1. \A u \in 1 .. Len(pool) : pool'[u] \in T
    BY <1>1
  <2>2. pool' = [u \in 1 .. Len(pool) |-> pool'[u]]
    BY <1>1
  <2> HIDE DEF T
  <2>3. [u \in 1 .. Len(pool) |-> pool'[u]] \in Seq(T)
    BY <2>1, <1>1
  <2>4. pool' \in Seq(T)
    BY <2>3, <2>2, Zenon
  <2> QED
    BY <2>4 DEF T
<1> QED
  BY <1>1, <1>2, <1>4, <1>5, <1>6, <1>7

LEMMA ChainCount ==
  ASSUME SubForm
  PROVE  /\ IsFiniteSet(Included) /\ ChainNext \in Nat /\ ChainNext >= 1
         /\ \A t \in DOMAIN pool \ Included : Cardinality(Included \cup {t}) + 1 = ChainNext + 1
<1>0. Len(pool) \in Nat /\ DOMAIN pool = 1 .. Len(pool)
  BY DEF SubForm
<1>1. IsFiniteSet(DOMAIN pool)
  BY <1>0, FS_Interval
<1>2. IsFiniteSet(Included)
  BY <1>1, FS_Subset DEF Included
<1>3. Cardinality(Included) \in Nat
  BY <1>2, FS_CardinalityType
<1>4. ASSUME NEW t \in DOMAIN pool \ Included
      PROVE  Cardinality(Included \cup {t}) + 1 = ChainNext + 1
  <2>1. Cardinality(Included \cup {t}) = Cardinality(Included) + 1
    BY <1>2, FS_AddElement
  <2> QED
    BY <2>1 DEF ChainNext
<1> QED
  BY <1>2, <1>3, <1>4 DEF ChainNext

(* Where a write starts and where it goes.                                 *)
LEMMA WriteChanges ==
  ASSUME SubForm, NEW w \in Writes, NEW y, StateForm(y), Becomes(w, y)
  PROVE  /\ write'[w] = y /\ \A v \in Writes : v # w => write'[v] = write[v]
         /\ write' = [v \in Writes |-> write'[v]] /\ \A v \in Writes : StateForm(write'[v])
<1>1. write'[w] = y /\ (\A v \in Writes : v # w => write'[v] = write[v])
      /\ write' = [v \in Writes |-> write'[v]]
  BY DEF SubForm, Becomes
<1> QED
  BY <1>1 DEF SubForm

LEMMA NonceUsed ==
  ASSUME SubForm, NEW w \in Writes
  PROVE  /\ NonceFor(w) \in Nat /\ NonceFor(w) >= 1
         /\ TxForm([by |-> {w}, nonce |-> NonceFor(w), at |-> "pending"])
<1>1. write[w].nonce \in Nat
  BY DEF SubForm, StateForm
<1>2. NonceFor(w) \in Nat /\ NonceFor(w) >= 1
  BY <1>1, ChainCount DEF NonceFor
<1> QED
  BY <1>2 DEF TxForm

(* An entry goes on with its transaction and its nonce: refused, dropped,  *)
(* seen or given up.                                                       *)
Continues(w, y) ==
  /\ Active(w) /\ Becomes(w, y) /\ StateForm(y) /\ y.at \in {"sending", "confirmed", "failed"}
  /\ y.nonce = write[w].nonce /\ y.tx = write[w].tx /\ y.known = write[w].known
  /\ y.tx # 0 => Watched(w)
  /\ y.at = "confirmed" => y.tx # 0 /\ pool[y.tx].at = "included"
  /\ UNCHANGED <<nextNonce, anchorTail, asked>>

LEMMA TriesLess ==
  ASSUME SubForm, QueueInv, NEW w \in Writes, write[w].at = "sending", OneTryLess(w),
         UNCHANGED <<nextNonce, anchorTail, asked>>
  PROVE  \E y : Continues(w, y)
<1> DEFINE x == write[w]
           now == IF x.tries + 1 >= maxBroadcasts THEN "failed" ELSE "sending"
           y == State(now, x.nonce, x.tx, x.tries + 1, x.rounds, x.known)
<1>1. StateForm(x)
  BY DEF SubForm
<1>2. now \in {"sending", "failed"}
  OBVIOUS
<1>3. Becomes(w, y)
  BY DEF OneTryLess
<1>4. x.tx # 0 => Watched(w)
  BY DEF QueueInv, AllAdmitted
<1> HIDE DEF now
<1>5. /\ StateForm(y) /\ y.at \in {"sending", "failed"}
      /\ y.nonce = x.nonce /\ y.tx = x.tx /\ y.known = x.known
  BY <1>1, <1>2 DEF StateForm, State
<1>6. Active(w)
  BY DEF Active
<1> HIDE DEF y
<1> QED
  BY <1>3, <1>4, <1>5, <1>6 DEF Continues

LEMMA GoesOn ==
  ASSUME SubForm, QueueInv, NonceInv, NEW w \in Writes
  PROVE  /\ Refused(w) \/ Rebroadcast(w) \/ Receipt(w) \/ GiveUp(w) => \E y : Continues(w, y)
         /\ AnswerLost(w) => \E y : Continues(w, y)
<1> DEFINE x == write[w]
<1>1. StateForm(x)
  BY DEF SubForm
<1>2. Refused(w) => \E y : Continues(w, y)
  BY TriesLess DEF Refused
<1>3. AnswerLost(w) => \E y : Continues(w, y)
  BY TriesLess DEF AnswerLost
<1>4. ASSUME Rebroadcast(w) PROVE \E y : Continues(w, y)
  <2> DEFINE n == IF Kind[w[1]] = "confirmed" THEN x.tries ELSE 0
             y == State("sending", x.nonce, x.tx, n, x.rounds + 1, x.known)
  <2>1. n \in Nat
    BY <1>1 DEF StateForm
  <2>2. Becomes(w, y) /\ x.at = "sent" /\ Watched(w) /\ UNCHANGED <<nextNonce, anchorTail, asked>>
    BY <1>4 DEF Rebroadcast
  <2> HIDE DEF n
  <2>3. /\ StateForm(y) /\ y.at = "sending" /\ y.nonce = x.nonce /\ y.tx = x.tx /\ y.known = x.known
    BY <1>1, <2>1 DEF StateForm, State
  <2> HIDE DEF y
  <2> QED
    BY <2>2, <2>3 DEF Continues, Active
<1>5. ASSUME NEW now \in {"confirmed", "failed"}, Becomes(w, [x EXCEPT !.at = now]), x.at = "sent",
             Watched(w), now = "confirmed" => pool[x.tx].at = "included",
             UNCHANGED <<nextNonce, anchorTail, asked>>
      PROVE  \E y : Continues(w, y)
  <2> DEFINE y == [x EXCEPT !.at = now]
  <2>1. x = [at |-> x.at, nonce |-> x.nonce, tx |-> x.tx, tries |-> x.tries, rounds |-> x.rounds,
             known |-> x.known]
    BY <1>1 DEF StateForm, State
  <2>2. y = [at |-> now, nonce |-> x.nonce, tx |-> x.tx, tries |-> x.tries, rounds |-> x.rounds,
             known |-> x.known]
    BY <2>1
  <2>3. /\ StateForm(y) /\ y.at = now /\ y.nonce = x.nonce /\ y.tx = x.tx /\ y.known = x.known
    BY <1>1, <2>2 DEF StateForm, State
  <2>4. x.tx # 0 /\ Becomes(w, y)
    BY <1>5 DEF NonceInv, Landed
  <2> HIDE DEF y
  <2> QED
    BY <1>5, <2>3, <2>4 DEF Continues, Active
<1>6. Receipt(w) \/ GiveUp(w) => \E y : Continues(w, y)
  BY <1>5 DEF Receipt, GiveUp
<1> QED
  BY <1>2, <1>3, <1>4, <1>6

(* What stays of the chain, of the form of the state and of the queue when *)
(* the pool only grows and one entry moves.                                *)
LEMMA ChainStays ==
  ASSUME SubForm, ChainInv, Included' = Included, ChainNext' = ChainNext,
         \A t \in DOMAIN pool : pool'[t] = pool[t]
  PROVE  ChainInv'
<1>1. \A t \in Included : pool'[t].nonce = pool[t].nonce
  BY DEF Included
<1> QED
  BY <1>1 DEF ChainInv

LEMMA FormStays ==
  ASSUME SubForm, nextNonce' \in Nat, asked' \subseteq Calls, anchorTail' \in Seq(asked'),
         write' = [w \in Writes |-> write'[w]], \A w \in Writes : StateForm(write'[w]),
         pool' \in Seq({pool'[t] : t \in DOMAIN pool'}), \A t \in DOMAIN pool' : TxForm(pool'[t]),
         localWrites' = [s \in Programs |-> localWrites'[s]]
  PROVE  SubForm'
  BY Zenon DEF SubForm, TxForm, StateForm

LEMMA ContinuesKeeps ==
  ASSUME SubInv, NEW w \in Writes, NEW y, Continues(w, y),
         localWrites' = [s \in Programs |-> localWrites'[s]],
         \/ pool' = pool /\ lost' = lost
         \/ pool' = Broadcasted(w) /\ lost' /\ write[w].at = "sending"
  PROVE  SubInv'
<1> DEFINE x == write[w]
<1>0. SubForm /\ ChainInv /\ QueueInv /\ NonceInv /\ CoverInv /\ BatchInv /\ TurnInv
  BY DEF SubInv
<1>1. /\ write'[w] = y /\ \A v \in Writes : v # w => write'[v] = write[v]
      /\ write' = [v \in Writes |-> write'[v]] /\ \A v \in Writes : StateForm(write'[v])
  BY <1>0, WriteChanges DEF Continues
<1>2. /\ nextNonce' = nextNonce /\ anchorTail' = anchorTail /\ asked' = asked
      /\ x.at \in {"sending", "sent"} /\ y.at \in {"sending", "confirmed", "failed"}
      /\ y.nonce = x.nonce /\ y.tx = x.tx /\ y.known = x.known
      /\ y.tx # 0 => Watched(w)
      /\ y.at = "confirmed" => y.tx # 0 /\ pool[y.tx].at = "included"
  BY DEF Continues, Active
<1>3. /\ \A t \in DOMAIN pool : t \in DOMAIN pool' /\ pool'[t] = pool[t]
      /\ \A t \in DOMAIN pool' : TxForm(pool'[t])
      /\ \A t \in DOMAIN pool' : t \notin DOMAIN pool =>
           pool'[t].by = {w} /\ pool'[t].nonce = NonceFor(w) /\ lost' /\ x.at = "sending"
      /\ Included' = Included /\ ChainNext' = ChainNext
      /\ pool' \in Seq({pool'[t] : t \in DOMAIN pool'})
  <2>1. CASE pool' = pool /\ lost' = lost
    BY <1>0, <2>1 DEF SubForm, Included, ChainNext
  <2>2. CASE pool' = Broadcasted(w) /\ lost' /\ write[w].at = "sending"
    <3> DEFINE tx == [by |-> {w}, nonce |-> NonceFor(w), at |-> "pending"]
    <3>1. TxForm(tx) /\ tx.at = "pending" /\ tx.by = {w} /\ tx.nonce = NonceFor(w)
      BY <1>0, NonceUsed
    <3>2. pool' = Append(pool, tx)
      BY <2>2 DEF Broadcasted
    <3>3. \A t \in DOMAIN pool : TxForm(pool[t])
      BY <1>0 DEF SubForm
    <3> HIDE DEF tx
    <3>4. /\ DOMAIN pool' = DOMAIN pool \cup {Len(pool) + 1}
          /\ \A t \in DOMAIN pool : pool'[t] = pool[t]
          /\ pool'[Len(pool) + 1] = tx
          /\ Included' = Included /\ ChainNext' = ChainNext
          /\ pool' \in Seq({pool'[t] : t \in DOMAIN pool'})
      BY <1>0, <3>1, <3>2, PoolGrows
    <3> QED
      BY <2>2, <3>1, <3>3, <3>4
  <2> QED
    BY <2>1, <2>2
<1>4. \A v \in Writes : /\ write'[v].nonce = write[v].nonce /\ write'[v].tx = write[v].tx
                        /\ write'[v].known = write[v].known
                        /\ write'[v].at = "waiting" <=> write[v].at = "waiting"
                        /\ write[v] = NoWrite => write'[v] = NoWrite
  BY <1>1, <1>2 DEF NoWrite, State
<1>5. SubForm'
  BY <1>0, <1>1, <1>2, <1>3, FormStays DEF SubForm
<1>6. ChainInv'
  BY <1>0, <1>3, ChainStays
<1>7. QueueInv'
  <2>1. OnceQueued' /\ Untouched'
    <3>1. \A i \in DOMAIN anchorTail : WritesOf(anchorTail[i]) \subseteq Writes
      BY <1>0, QueuedCalls
    <3>2. OnceQueued'
      BY <1>0, <1>2 DEF QueueInv, OnceQueued
    <3>3. Untouched
      BY <1>0 DEF QueueInv
    <3> QED
      BY <1>2, <1>4, <3>1, <3>2, <3>3 DEF Untouched
  <2>2. InTurn'
    <3> SUFFICES ASSUME NEW v \in Writes, write'[v].at # "waiting", NEW k \in 1 .. (v[2] - 1)
                 PROVE  write'[<<v[1], k>>].tx # 0
      BY DEF InTurn
    <3>1. <<v[1], k>> \in Writes /\ write[v].at # "waiting"
      BY <1>4, EarlierEntries
    <3>2. write[<<v[1], k>>].tx # 0
      BY <1>0, <3>1 DEF QueueInv, InTurn
    <3> QED
      BY <1>4, <3>1, <3>2
  <2>3. AllAdmitted'
    <3>1. \A v \in Writes : WritesOf(v[1]) \subseteq Writes
      BY WriteFacts
    <3>2. \A v \in Writes : Watched(v)' <=> Watched(v)
      BY <3>1, <1>4 DEF Watched
    <3> QED
      BY <1>0, <1>1, <1>2, <1>4, <3>2 DEF QueueInv, AllAdmitted
  <2>4. FirstTry'
    <3>1. x.at = "sent" => x.tx # 0
      BY <1>0 DEF NonceInv, Landed
    <3> QED
      BY <1>0, <1>1, <1>2, <3>1 DEF QueueInv, FirstTry, Running
  <2>5. AnchorHolds'
    BY <1>0, <1>1, <1>2 DEF QueueInv, AnchorHolds, Running, Active
  <2> QED
    BY <2>1, <2>2, <2>3, <2>4, <2>5 DEF QueueInv
<1>8. NonceInv'
  <2>1. Owns'
    BY <1>0, <1>2, <1>3, <1>4 DEF NonceInv, Owns
  <2>2. Landed'
    <3>1. \A v \in Writes : write[v].tx # 0 => write[v].tx \in DOMAIN pool
      BY <1>0 DEF NonceInv, Owns
    <3> QED
      BY <1>0, <1>1, <1>2, <1>3, <1>4, <3>1 DEF NonceInv, Landed
  <2>3. Known'
    BY <1>0, <1>4 DEF NonceInv, Known
  <2>4. Carries'
    <3> SUFFICES ASSUME NEW t \in DOMAIN pool', NEW v \in Writes, v \in pool'[t].by
                 PROVE  /\ write'[v].at # "waiting"
                        /\ write'[v].known # 0 => pool'[t].nonce = write'[v].known
                        /\ write'[v].known = 0 /\ write'[v].tx = 0 => pool'[t].nonce <= ChainNext'
                        /\ write'[v].known = 0 /\ write'[v].tx # 0 => pool'[t].nonce <= write'[v].nonce
      BY DEF Carries
    <3>1. CASE t \in DOMAIN pool
      BY <1>0, <1>3, <1>4, <3>1 DEF NonceInv, Carries
    <3>2. CASE t \notin DOMAIN pool
      <4>1. v = w /\ pool'[t].nonce = NonceFor(w) /\ x.at = "sending"
        BY <1>3, <3>2
      <4>2. x.tx = 0 \/ x.known # 0 => x.nonce = x.known
        BY <1>0 DEF NonceInv, Known
      <4>3. x.tx # 0 => x.nonce \in 1 .. (nextNonce - 1)
        BY <1>0 DEF NonceInv, Owns
      <4>4. x.nonce \in Nat /\ x.known \in Nat /\ ChainNext \in Nat
        BY <1>0, ChainCount DEF SubForm, StateForm
      <4> QED
        BY <1>0, <1>3, <1>4, <4>1, <4>2, <4>3, <4>4 DEF NonceFor
    <3> QED
      BY <3>1, <3>2
  <2> QED
    BY <2>1, <2>2, <2>3, <2>4 DEF NonceInv
<1>9. CoverInv'
  <2>1. \A n \in 1 .. (nextNonce' - 1) : Reached(n)'
    BY <1>0, <1>2, <1>3, <1>4 DEF CoverInv, Reached
  <2>2. \A t \in DOMAIN pool' : ~lost' \/ pool'[t].by = {} => pool'[t].nonce < nextNonce'
    <3> SUFFICES ASSUME NEW t \in DOMAIN pool', ~lost' \/ pool'[t].by = {}
                 PROVE  pool'[t].nonce < nextNonce'
      OBVIOUS
    <3>1. t \in DOMAIN pool
      <4>1. CASE ~lost'
        BY Zenon, <1>3, <4>1
      <4>2. CASE pool'[t].by = {}
        BY <1>3, <4>2
      <4> QED
        BY Zenon, <4>1, <4>2
    <3>2. ~lost' => ~lost
      BY Zenon
    <3>3. ~lost \/ pool[t].by = {}
      BY Zenon, <3>1, <3>2, <1>3
    <3>4. pool[t].nonce < nextNonce
      BY Zenon, <1>0, <3>1, <3>3 DEF CoverInv
    <3> QED
      BY <1>2, <1>3, <3>1, <3>4
  <2> QED
    BY <2>1, <2>2 DEF CoverInv
<1>10. BatchInv'
  BY <1>0, <1>2, <1>4, EarlierEntries DEF BatchInv, Running
<1>11. TurnInv'
  <2> SUFFICES ASSUME NEW v \in Writes, NEW u \in Writes, Kind[v[1]] = "confirmed", Kind[u[1]] = "confirmed",
                      write'[v].at = "confirmed", Active(u)'
               PROVE  write'[v].nonce < write'[u].nonce
    BY DEF TurnInv
  <2>1. Active(u) /\ (v # w => write[v].at = "confirmed")
    BY <1>1, <1>2 DEF Active
  <2>2. v # w
    <3> SUFFICES ASSUME v = w PROVE FALSE
      OBVIOUS
    <3>1. Running(w[1]) /\ Running(u[1])
      BY <1>0, <2>1 DEF QueueInv, AnchorHolds, Continues
    <3>2. w[1] = u[1]
      BY <3>1 DEF Running
    <3>3. w = u
      BY <3>2, SoleEntry
    <3> QED
      BY <3>3, <1>1 DEF Active
  <2> QED
    BY <1>0, <1>4, <2>1, <2>2 DEF TurnInv
<1> QED
  BY <1>5, <1>6, <1>7, <1>8, <1>9, <1>10, <1>11 DEF SubInv

LEMMA OneFirst ==
  ASSUME InTurn, NEW w \in Writes, NEW v \in Writes, w[1] = v[1]
  PROVE  /\ w = v \/ w[2] < v[2] \/ v[2] < w[2]
         /\ w[2] < v[2] /\ write[v].at # "waiting" => write[w].tx # 0
<1>1. /\ w = <<w[1], w[2]>> /\ w[2] \in Nat /\ w[2] >= 1
      /\ v = <<v[1], v[2]>> /\ v[2] \in Nat /\ v[2] >= 1
  BY WriteFacts
<1>2. w[2] = v[2] => w = v
  BY <1>1
<1>3. ASSUME w[2] < v[2], write[v].at # "waiting" PROVE write[w].tx # 0
  <2>1. w[2] \in 1 .. (v[2] - 1) /\ w = <<v[1], w[2]>>
    BY <1>1, <1>3
  <2>2. \A k \in 1 .. (v[2] - 1) : write[<<v[1], k>>].tx # 0
    BY <1>3 DEF InTurn
  <2>3. write[<<v[1], w[2]>>].tx # 0
    BY <2>1, <2>2
  <2> QED
    BY <2>1, <2>3, Zenon
<1> QED
  BY <1>1, <1>2, <1>3

LEMMA BeginKeeps == ASSUME SubInv, NEW w \in Writes, BeginWrite(w) PROVE SubInv'
<1> DEFINE y == State("sending", nextNonce, 0, 0, 0, nextNonce)
<1>0. SubForm /\ ChainInv /\ QueueInv /\ NonceInv /\ CoverInv /\ BatchInv /\ TurnInv
  BY DEF SubInv
<1>1. /\ Becomes(w, y) /\ write[w].at = "waiting" /\ Running(w[1])
      /\ nextNonce' = nextNonce /\ anchorTail' = anchorTail /\ asked' = asked /\ pool' = pool
      /\ localWrites' = localWrites /\ lost' = lost
      /\ \A k \in 1 .. (w[2] - 1) : write[<<w[1], k>>].tx # 0
  BY DEF BeginWrite, Running
<1>2. /\ StateForm(y) /\ y.at = "sending" /\ y.nonce = nextNonce /\ y.known = nextNonce /\ y.tx = 0
      /\ nextNonce \in Nat
  BY <1>0 DEF SubForm, StateForm, State
<1> HIDE DEF y
<1>3. /\ write'[w] = y /\ \A v \in Writes : v # w => write'[v] = write[v]
      /\ write' = [v \in Writes |-> write'[v]] /\ \A v \in Writes : StateForm(write'[v])
  BY <1>0, <1>1, <1>2, WriteChanges
<1>4. write[w] = NoWrite /\ write[w].tx = 0 /\ write[w].nonce = 0 /\ write[w].known = 0
  BY <1>0, <1>1 DEF QueueInv, Untouched, NoWrite, State
<1>5. \A v \in Writes : write'[v].tx = write[v].tx /\ (write[v].tx # 0 => v # w)
  BY <1>2, <1>3, <1>4
<1>6. SubForm'
  BY <1>0, <1>1, <1>3, FormStays DEF SubForm
<1>7. ChainInv'
  <2>1. Included' = Included /\ ChainNext' = ChainNext
    BY <1>1 DEF Included, ChainNext
  <2> QED
    BY <1>0, <1>1, <2>1, ChainStays
<1>8. QueueInv'
  <2>1. OnceQueued'
    BY <1>0, <1>1 DEF QueueInv, OnceQueued
  <2>2. Untouched'
    <3>1. \A v \in Writes : v[1] \notin asked => v # w
      <4>1. w[1] \in asked
        BY <1>0, <1>1, QueuedCalls DEF Running, SubForm
      <4> QED
        BY <4>1
    <3>2. \A i \in DOMAIN anchorTail : i # 1 => \A v \in WritesOf(anchorTail[i]) : v \in Writes /\ v # w
      <4> SUFFICES ASSUME NEW i \in DOMAIN anchorTail, i # 1, w \in WritesOf(anchorTail[i]) PROVE FALSE
        BY <1>0, QueuedCalls
      <4>1. w[1] = anchorTail[i]
        BY <1>0, QueuedCalls, WriteFacts
      <4>2. anchorTail[1] = w[1] /\ 1 \in DOMAIN anchorTail
        BY <1>0, <1>1 DEF Running, SubForm
      <4> QED
        BY <1>0, <4>1, <4>2 DEF QueueInv, OnceQueued
    <3>3. Untouched
      BY <1>0 DEF QueueInv
    <3> QED
      BY <1>1, <1>2, <1>3, <3>1, <3>2, <3>3 DEF Untouched
  <2>3. InTurn'
    <3> SUFFICES ASSUME NEW v \in Writes, write'[v].at # "waiting", NEW k \in 1 .. (v[2] - 1)
                 PROVE  write'[<<v[1], k>>].tx # 0
      BY DEF InTurn
    <3>1. <<v[1], k>> \in Writes
      BY EarlierEntries
    <3>2. write[<<v[1], k>>].tx # 0
      BY <1>0, <1>1, <1>3, <3>1 DEF QueueInv, InTurn
    <3> QED
      BY <1>5, <3>1, <3>2
  <2>4. AllAdmitted'
    <3>1. \A v \in Writes : Watched(v)' <=> Watched(v)
      BY <1>5, WriteFacts DEF Watched
    <3> QED
      BY <1>0, <1>2, <1>3, <1>5, <3>1 DEF QueueInv, AllAdmitted
  <2>5. FirstTry'
    BY <1>0, <1>1, <1>2, <1>3 DEF QueueInv, FirstTry, Running
  <2>6. AnchorHolds'
    BY <1>0, <1>1, <1>2, <1>3 DEF QueueInv, AnchorHolds, Running, Active
  <2> QED
    BY <2>1, <2>2, <2>3, <2>4, <2>5, <2>6 DEF QueueInv
<1>9. NonceInv'
  <2>1. Owns'
    BY <1>0, <1>1, <1>2, <1>3, <1>5 DEF NonceInv, Owns
  <2>2. Landed'
    BY <1>0, <1>1, <1>2, <1>3 DEF NonceInv, Landed
  <2>3. Known'
    BY <1>0, <1>2, <1>3 DEF NonceInv, Known
  <2>4. Carries'
    <3>1. \A t \in DOMAIN pool : w \notin pool[t].by
      BY <1>0, <1>1 DEF NonceInv, Carries
    <3>2. ChainNext' = ChainNext
      BY <1>1 DEF Included, ChainNext
    <3> QED
      BY <1>0, <1>1, <1>3, <3>1, <3>2 DEF NonceInv, Carries
  <2> QED
    BY <2>1, <2>2, <2>3, <2>4 DEF NonceInv
<1>10. CoverInv'
  <2>1. ChainNext' = ChainNext
    BY <1>1 DEF Included, ChainNext
  <2>2. \A n \in 1 .. (nextNonce' - 1) : Reached(n)'
    <3> SUFFICES ASSUME NEW n \in 1 .. (nextNonce - 1) PROVE Reached(n)'
      BY <1>1
    <3>1. Reached(n)
      BY <1>0 DEF CoverInv
    <3> QED
      BY <1>1, <1>3, <1>5, <2>1, <3>1 DEF Reached
  <2>3. \A t \in DOMAIN pool' : ~lost' \/ pool'[t].by = {} => pool'[t].nonce < nextNonce'
    BY Zenon, <1>0, <1>1 DEF CoverInv
  <2> QED
    BY <2>2, <2>3 DEF CoverInv
<1>11. BatchInv'
  <2> SUFFICES ASSUME NEW v \in Writes, v[2] # 1, NEW p, p = <<v[1], v[2] - 1>>
               PROVE  /\ write'[v].at # "waiting" => write'[v].nonce = write'[p].nonce + 1 /\ write'[v].known # 0
                      /\ Running(v[1])' /\ write'[v].at = "waiting" /\ write'[p].tx # 0 =>
                           nextNonce' = write'[p].nonce + 1
    BY DEF BatchInv
  <2>1. p \in Writes
    BY EarlierEntries
  <2>2. /\ write[v].at # "waiting" => write[v].nonce = write[p].nonce + 1 /\ write[v].known # 0 /\ p # w
        /\ Running(v[1]) /\ write[v].at = "waiting" /\ write[p].tx # 0 => nextNonce = write[p].nonce + 1
    <3>1. write[v].at # "waiting" => write[p].tx # 0
      BY <1>0, EarlierEntries DEF QueueInv, InTurn
    <3> QED
      BY <1>0, <1>5, <3>1, <2>1 DEF BatchInv
  <2>3. v = w => p # w /\ write[p].tx # 0 /\ write[p].nonce \in Nat
    <3>1. v = w => write[p].tx # 0
      BY <1>1, EarlierEntries
    <3> QED
      BY <1>0, <1>5, <3>1, <2>1 DEF SubForm, StateForm
  <2>4. Running(v[1])' = Running(v[1])
    BY <1>1 DEF Running
  <2>5. v = w => nextNonce = write[p].nonce + 1
    BY <1>1, <2>2, <2>3
  <2>6. CASE v = w
    BY <1>2, <1>3, <2>1, <2>3, <2>5, <2>6
  <2>7. CASE v # w
    BY <1>1, <1>3, <1>5, <2>1, <2>2, <2>4, <2>7
  <2> QED
    BY <2>6, <2>7
<1>12. TurnInv'
  <2> SUFFICES ASSUME NEW v \in Writes, NEW u \in Writes, Kind[v[1]] = "confirmed", Kind[u[1]] = "confirmed",
                      write'[v].at = "confirmed", Active(u)'
               PROVE  write'[v].nonce < write'[u].nonce
    BY DEF TurnInv
  <2>1. v # w /\ write[v].at = "confirmed"
    BY <1>2, <1>3
  <2>2. write[v].nonce \in 1 .. (nextNonce - 1)
    BY <1>0, <2>1 DEF NonceInv, Owns, Landed
  <2>3. u # w => Active(u)
    BY <1>3 DEF Active
  <2>4. u # w => write[v].nonce < write[u].nonce
    BY <1>0, <2>1, <2>3 DEF TurnInv
  <2> QED
    BY <1>2, <1>3, <2>1, <2>2, <2>4
<1> QED
  BY <1>6, <1>7, <1>8, <1>9, <1>10, <1>11, <1>12 DEF SubInv

LEMMA AdmittedKeeps == ASSUME SubInv, NEW w \in Writes, Admitted(w) PROVE SubInv'
<1> DEFINE x == write[w]
           n == NonceFor(w)
           last == Len(pool) + 1
           y == State("sent", n, last, x.tries + 1, x.rounds, x.known)
           tx == [by |-> {w}, nonce |-> n, at |-> "pending"]
<1>0. SubForm /\ ChainInv /\ QueueInv /\ NonceInv /\ CoverInv /\ BatchInv /\ TurnInv
  BY DEF SubInv
<1>1. /\ Becomes(w, y) /\ x.at = "sending" /\ pool' = Append(pool, tx)
      /\ nextNonce' = Reserved(n) /\ anchorTail' = anchorTail /\ asked' = asked
      /\ localWrites' = localWrites /\ lost' = lost
  BY DEF Admitted, Broadcasted
<1>2. /\ n \in Nat /\ n >= 1 /\ TxForm(tx) /\ tx.by = {w} /\ tx.nonce = n /\ tx.at = "pending"
  BY <1>0, NonceUsed
<1> HIDE DEF tx
<1>3. /\ Len(pool) \in Nat /\ DOMAIN pool' = DOMAIN pool \cup {last} /\ last \notin DOMAIN pool
      /\ \A t \in DOMAIN pool : pool'[t] = pool[t]
      /\ pool'[last] = tx
      /\ Included' = Included /\ ChainNext' = ChainNext
      /\ pool' \in Seq({pool'[t] : t \in DOMAIN pool'})
  BY <1>0, <1>1, <1>2, PoolGrows
<1>4. /\ StateForm(x) /\ x.nonce \in Nat /\ x.known \in Nat /\ nextNonce \in Nat
      /\ ChainNext \in Nat /\ ChainNext >= 1 /\ last \in Nat /\ last # 0
  BY <1>0, <1>3, ChainCount DEF SubForm, StateForm
<1>5. n = IF x.nonce = 0 THEN ChainNext ELSE x.nonce
  BY DEF NonceFor
<1> HIDE DEF n, last
<1>6. /\ StateForm(y) /\ y.at = "sent" /\ y.nonce = n /\ y.tx = last /\ y.known = x.known
  BY <1>2, <1>4 DEF StateForm, State
<1> HIDE DEF y
<1>7. /\ write'[w] = y /\ \A v \in Writes : v # w => write'[v] = write[v]
      /\ write' = [v \in Writes |-> write'[v]] /\ \A v \in Writes : StateForm(write'[v])
  BY <1>0, <1>1, <1>6, WriteChanges

\* Its first broadcast takes the next nonce; a later one repeats its own.
<1>8. x.tx = 0 => /\ Running(w[1]) /\ x.nonce = nextNonce /\ x.nonce = x.known
                  /\ n >= nextNonce /\ nextNonce' = n + 1
                  /\ nextNonce # 0 => n = nextNonce
                  /\ nextNonce = 0 => n = ChainNext
  <2>1. x.tx = 0 => Running(w[1]) /\ x.nonce = nextNonce /\ x.nonce = x.known
    BY <1>0, <1>1 DEF QueueInv, FirstTry, NonceInv, Known
  <2> QED
    BY <1>1, <1>4, <1>5, <2>1 DEF Reserved
<1>9. x.tx # 0 => /\ n = x.nonce /\ n < nextNonce /\ nextNonce' = nextNonce /\ Watched(w)
  <2>1. x.tx # 0 => x.nonce \in 1 .. (nextNonce - 1) /\ Watched(w)
    BY <1>0, <1>1 DEF QueueInv, AllAdmitted, NonceInv, Owns
  <2> QED
    BY <1>1, <1>4, <1>5, <2>1 DEF Reserved
<1>10. /\ nextNonce' \in Nat /\ nextNonce' >= nextNonce /\ n < nextNonce'
       /\ x.known # 0 => n = x.known
  <2>1. x.known # 0 => x.nonce = x.known
    BY <1>0 DEF NonceInv, Known
  <2> QED
    BY <1>2, <1>4, <1>5, <1>8, <1>9, <2>1
<1>11. \A v \in Writes : write[v].tx # 0 => write'[v].tx # 0 /\ write'[v].nonce = write[v].nonce
  BY <1>4, <1>6, <1>7, <1>9
<1>12. SubForm'
  <2>1. \A t \in DOMAIN pool' : TxForm(pool'[t])
    BY <1>0, <1>2, <1>3 DEF SubForm
  <2> QED
    BY <1>0, <1>1, <1>3, <1>7, <1>10, <2>1, FormStays DEF SubForm
<1>13. ChainInv'
  BY <1>0, <1>3, ChainStays
<1>14. QueueInv'
  <2>1. OnceQueued'
    BY <1>0, <1>1 DEF QueueInv, OnceQueued
  <2>2. Untouched'
    <3>1. write[w] # NoWrite
      BY <1>1 DEF NoWrite, State
    <3>2. \A i \in DOMAIN anchorTail : i # 1 => \A v \in WritesOf(anchorTail[i]) : v \in Writes /\ v # w
      BY <1>0, <3>1, QueuedCalls DEF QueueInv, Untouched
    <3>3. Untouched
      BY <1>0 DEF QueueInv
    <3> QED
      BY <1>1, <1>6, <1>7, <3>1, <3>2, <3>3 DEF Untouched
  <2>3. InTurn'
    <3> SUFFICES ASSUME NEW v \in Writes, write'[v].at # "waiting", NEW k \in 1 .. (v[2] - 1)
                 PROVE  write'[<<v[1], k>>].tx # 0
      BY DEF InTurn
    <3>1. <<v[1], k>> \in Writes /\ write[v].at # "waiting"
      BY <1>1, <1>7, EarlierEntries
    <3>2. write[<<v[1], k>>].tx # 0
      BY <1>0, <3>1 DEF QueueInv, InTurn
    <3> QED
      BY <1>11, <3>1, <3>2
  <2>4. AllAdmitted'
    <3>1. \A v \in Writes : Watched(v) => Watched(v)'
      BY <1>11, WriteFacts DEF Watched
    <3> QED
      BY <1>0, <1>6, <1>7, <3>1 DEF QueueInv, AllAdmitted
  <2>5. FirstTry'
    <3> SUFFICES ASSUME NEW v \in Writes, write'[v].at = "sending", write'[v].tx = 0
                 PROVE  Running(v[1])' /\ write'[v].nonce = nextNonce'
      BY DEF FirstTry
    <3>1. v # w /\ write[v].at = "sending" /\ write[v].tx = 0
      BY <1>6, <1>7
    <3>2. Running(v[1]) /\ write[v].nonce = nextNonce
      BY <1>0, <3>1 DEF QueueInv, FirstTry
    <3>3. x.tx # 0
      <4> SUFFICES ASSUME x.tx = 0 PROVE FALSE
        OBVIOUS
      <4>1. w[1] = v[1]
        BY <1>8, <3>2 DEF Running
      <4> QED
        BY <1>0, <1>1, <3>1, <4>1, OneFirst DEF QueueInv
    <3> QED
      BY <1>1, <1>7, <1>9, <3>1, <3>2, <3>3 DEF Running
  <2>6. AnchorHolds'
    BY <1>0, <1>1, <1>6, <1>7 DEF QueueInv, AnchorHolds, Running, Active
  <2> QED
    BY <2>1, <2>2, <2>3, <2>4, <2>5, <2>6 DEF QueueInv
<1>15. NonceInv'
  <2>1. Owns'
    <3> SUFFICES ASSUME NEW v \in Writes, write'[v].tx # 0
                 PROVE  /\ write'[v].tx \in DOMAIN pool' /\ pool'[write'[v].tx].by = {v}
                        /\ pool'[write'[v].tx].nonce = write'[v].nonce
                        /\ write'[v].nonce \in 1 .. (nextNonce' - 1)
      BY DEF Owns
    <3>1. CASE v = w
      BY <1>2, <1>3, <1>4, <1>6, <1>7, <1>10, <3>1
    <3>2. CASE v # w
      <4>1. /\ write[v].tx \in DOMAIN pool /\ pool[write[v].tx].by = {v}
            /\ pool[write[v].tx].nonce = write[v].nonce
            /\ write[v].nonce \in 1 .. (nextNonce - 1)
        BY <1>0, <1>7, <3>2 DEF NonceInv, Owns
      <4> QED
        BY <1>3, <1>4, <1>7, <1>10, <3>2, <4>1
    <3> QED
      BY <3>1, <3>2
  <2>2. Landed'
    <3>1. \A v \in Writes : write[v].tx # 0 => write[v].tx \in DOMAIN pool
      BY <1>0 DEF NonceInv, Owns
    <3> QED
      <4>1. \A v \in Writes : write'[v].at \in {"sent", "confirmed"} => write'[v].tx # 0
        BY <1>0, <1>4, <1>6, <1>7 DEF NonceInv, Landed
      <4>2. \A v \in Writes : write'[v].at = "confirmed" => v # w
        BY <1>6, <1>7
      <4>3. \A v \in Writes : write[v].at = "confirmed" => write[v].tx \in DOMAIN pool /\ pool[write[v].tx].at = "included"
        BY <1>0, <3>1 DEF NonceInv, Landed
      <4>4. \A v \in Writes : write'[v].at = "confirmed" => pool'[write'[v].tx].at = "included"
        BY <1>3, <1>7, <4>2, <4>3
      <4> QED
        BY <4>1, <4>4 DEF Landed
  <2>3. Known'
    BY <1>0, <1>4, <1>6, <1>7, <1>10 DEF NonceInv, Known
  <2>4. Carries'
    <3> SUFFICES ASSUME NEW t \in DOMAIN pool', NEW v \in Writes, v \in pool'[t].by
                 PROVE  /\ write'[v].at # "waiting"
                        /\ write'[v].known # 0 => pool'[t].nonce = write'[v].known
                        /\ write'[v].known = 0 /\ write'[v].tx = 0 => pool'[t].nonce <= ChainNext'
                        /\ write'[v].known = 0 /\ write'[v].tx # 0 => pool'[t].nonce <= write'[v].nonce
      BY DEF Carries
    <3>1. CASE t = last
      BY <1>2, <1>3, <1>4, <1>6, <1>7, <1>10, <3>1
    <3>2. CASE t # last
      <4>1. t \in DOMAIN pool /\ v \in pool[t].by /\ pool'[t] = pool[t]
        BY <1>3, <3>2
      <4>2. /\ write[v].at # "waiting"
            /\ write[v].known # 0 => pool[t].nonce = write[v].known
            /\ write[v].known = 0 /\ write[v].tx = 0 => pool[t].nonce <= ChainNext
            /\ write[v].known = 0 /\ write[v].tx # 0 => pool[t].nonce <= write[v].nonce
        BY <1>0, <4>1 DEF NonceInv, Carries
      <4>3. x.known = 0 => n = IF x.tx = 0 THEN ChainNext ELSE x.nonce
        BY <1>4, <1>5, <1>8, <1>9
      <4> QED
        BY <1>3, <1>4, <1>6, <1>7, <4>1, <4>2, <4>3
    <3> QED
      BY <3>1, <3>2
  <2> QED
    BY <2>1, <2>2, <2>3, <2>4 DEF NonceInv
<1>16. CoverInv'
  <2>1. \A m \in 1 .. (nextNonce' - 1) : Reached(m)'
    <3> SUFFICES ASSUME NEW m \in 1 .. (nextNonce' - 1) PROVE Reached(m)'
      OBVIOUS
    <3>1. CASE m \in 1 .. (nextNonce - 1)
      <4>1. Reached(m)
        BY <1>0, <3>1 DEF CoverInv
      <4> QED
        BY <1>3, <1>11, <4>1 DEF Reached
    <3>2. CASE m \notin 1 .. (nextNonce - 1)
      <4>1. m = n \/ m < ChainNext
        BY <1>4, <1>8, <1>9, <1>10, <1>2, <3>2
      <4> QED
        BY <1>3, <1>4, <1>6, <1>7, <4>1 DEF Reached
    <3> QED
      BY <3>1, <3>2
  <2>2. \A t \in DOMAIN pool' : ~lost' \/ pool'[t].by = {} => pool'[t].nonce < nextNonce'
    <3> SUFFICES ASSUME NEW t \in DOMAIN pool', ~lost' \/ pool'[t].by = {}
                 PROVE  pool'[t].nonce < nextNonce'
      OBVIOUS
    <3>1. CASE t = last
      BY <1>2, <1>3, <1>10, <3>1
    <3>2. CASE t # last
      <4>1. t \in DOMAIN pool /\ pool'[t] = pool[t]
        BY <1>3, <3>2
      <4>2. ~lost \/ pool[t].by = {}
        BY Zenon, <1>1, <4>1
      <4>3. pool[t].nonce < nextNonce /\ pool[t].nonce \in Nat
        <5>1. pool[t].nonce < nextNonce
          BY Zenon, <1>0, <4>1, <4>2 DEF CoverInv
        <5> QED
          BY <1>0, <4>1, <5>1 DEF SubForm, TxForm
      <4> QED
        BY <1>4, <1>10, <4>1, <4>3
    <3> QED
      BY <3>1, <3>2
  <2> QED
    BY <2>1, <2>2 DEF CoverInv
<1>17. BatchInv'
  <2> SUFFICES ASSUME NEW v \in Writes, v[2] # 1, NEW p, p = <<v[1], v[2] - 1>>
               PROVE  /\ write'[v].at # "waiting" => write'[v].nonce = write'[p].nonce + 1 /\ write'[v].known # 0
                      /\ Running(v[1])' /\ write'[v].at = "waiting" /\ write'[p].tx # 0 =>
                           nextNonce' = write'[p].nonce + 1
    BY DEF BatchInv
  <2>1. p \in Writes /\ p[1] = v[1] /\ p[2] = v[2] - 1 /\ v[2] \in Nat /\ p # v
    BY EarlierEntries
  <2>2. /\ write[v].at # "waiting" => write[v].nonce = write[p].nonce + 1 /\ write[v].known # 0 /\ write[p].tx # 0
        /\ Running(v[1]) /\ write[v].at = "waiting" /\ write[p].tx # 0 => nextNonce = write[p].nonce + 1
    <3>1. write[v].at # "waiting" => write[p].tx # 0
      BY <1>0, EarlierEntries DEF QueueInv, InTurn
    <3> QED
      BY <1>0, <3>1 DEF BatchInv
  <2>3. ASSUME write'[v].at # "waiting"
        PROVE  write'[v].nonce = write'[p].nonce + 1 /\ write'[v].known # 0
    <3>1. write[v].at # "waiting"
      BY <1>1, <1>7, <2>3
    <3>2. write'[p].nonce = write[p].nonce
      BY <1>11, <2>1, <2>2, <3>1
    <3>3. write'[v].nonce = write[v].nonce /\ write'[v].known = write[v].known
      <4>1. v = w => x.known = x.nonce
        BY <1>0, <2>2, <3>1 DEF NonceInv, Known
      <4> QED
        BY <1>6, <1>7, <1>10, <2>2, <3>1, <4>1
    <3> QED
      BY <2>2, <3>1, <3>2, <3>3
  <2>4. ASSUME Running(v[1])', write'[v].at = "waiting", write'[p].tx # 0
        PROVE  nextNonce' = write'[p].nonce + 1
    <3>1. v # w /\ write[v].at = "waiting" /\ Running(v[1])
      BY <1>1, <1>6, <1>7, <2>4 DEF Running
    <3>2. write[v].tx = 0
      BY <1>0, <3>1 DEF QueueInv, Untouched, NoWrite, State
    <3>3. CASE p = w
      <4>1. x.tx = 0
        <5>1. Watched(w) => write[v].tx # 0
          BY <2>1, <3>3, WriteFacts DEF Watched
        <5> QED
          BY <1>9, <3>2, <5>1
      <4> QED
        BY <1>6, <1>7, <1>8, <3>3, <4>1
    <3>4. CASE p # w
      <4>1. write[p].tx # 0 /\ write[p].at # "waiting" /\ write'[p] = write[p]
        <5>1. write[p].tx # 0 /\ write'[p] = write[p]
          BY <1>7, <2>1, <2>4, <3>4
        <5> QED
          BY <1>0, <2>1, <5>1 DEF QueueInv, Untouched, NoWrite, State
      <4>2. x.tx # 0
        <5> SUFFICES ASSUME x.tx = 0 PROVE FALSE
          OBVIOUS
        <5>1. w[1] = v[1]
          BY <1>8, <3>1 DEF Running
        <5>2. InTurn
          BY <1>0 DEF QueueInv
        <5>3. ~(v[2] < w[2])
          BY <1>1, <3>1, <3>2, <5>1, <5>2, OneFirst
        <5>4. w[2] < v[2]
          BY <3>1, <5>1, <5>2, <5>3, OneFirst
        <5>5. w[2] \in Nat
          BY EarlierEntries
        <5>6. ~(p[2] < w[2])
          BY <2>1, <5>4, <5>5
        <5>7. w[2] < p[2]
          BY <2>1, <3>4, <5>1, <5>2, <5>6, OneFirst
        <5> QED
          BY <2>1, <4>1, <5>1, <5>2, <5>7, OneFirst
      <4> QED
        BY <1>9, <2>2, <3>1, <4>1, <4>2
    <3> QED
      BY <3>3, <3>4
  <2> QED
    BY <2>3, <2>4
<1>18. TurnInv'
  <2> SUFFICES ASSUME NEW v \in Writes, NEW u \in Writes, Kind[v[1]] = "confirmed", Kind[u[1]] = "confirmed",
                      write'[v].at = "confirmed", Active(u)'
               PROVE  write'[v].nonce < write'[u].nonce
    BY DEF TurnInv
  <2>1. v # w /\ write[v].at = "confirmed" /\ Active(u)
    BY <1>1, <1>6, <1>7 DEF Active
  <2>2. write[v].nonce < write[u].nonce /\ write[v].nonce \in Nat /\ write[v].nonce >= 1
    BY <1>0, <2>1 DEF TurnInv, NonceInv, Owns, Landed
  <2>3. u = w => x.nonce # 0
    BY <1>4, <2>2
  <2> QED
    BY <1>5, <1>6, <1>7, <2>1, <2>2, <2>3
<1> QED
  BY <1>12, <1>13, <1>14, <1>15, <1>16, <1>17, <1>18 DEF SubInv

LEMMA TxKeeps ==
  ASSUME SubInv, NEW t \in DOMAIN pool, IncludeTx(t) \/ DropTx(t)
  PROVE  SubInv'
<1> DEFINE now == IF IncludeTx(t) THEN "included" ELSE "gone"
<1>0. SubForm /\ ChainInv /\ QueueInv /\ NonceInv /\ CoverInv /\ BatchInv /\ TurnInv
  BY DEF SubInv
<1>1. /\ nextNonce' = nextNonce /\ anchorTail' = anchorTail /\ asked' = asked /\ write' = write
      /\ localWrites' = localWrites /\ lost' = lost /\ pool[t].at = "pending"
  BY DEF IncludeTx, DropTx
<1>2. /\ now \in {"included", "gone"} /\ pool' = [pool EXCEPT ![t].at = now]
      /\ now = "included" => pool[t].nonce = ChainNext
  BY DEF IncludeTx, DropTx
<1> HIDE DEF now
<1>3. /\ DOMAIN pool' = DOMAIN pool
      /\ \A u \in DOMAIN pool : /\ pool'[u].by = pool[u].by /\ pool'[u].nonce = pool[u].nonce
                                /\ u # t => pool'[u] = pool[u]
      /\ pool'[t].at = now
      /\ \A u \in DOMAIN pool : TxForm(pool'[u])
      /\ Included' = IF now = "included" THEN Included \cup {t} ELSE Included
      /\ pool' \in Seq({pool'[u] : u \in DOMAIN pool'})
  BY <1>0, <1>1, <1>2, PoolChanges
<1>4. /\ IsFiniteSet(Included) /\ ChainNext \in Nat /\ ChainNext >= 1
      /\ \A u \in DOMAIN pool \ Included : Cardinality(Included \cup {u}) + 1 = ChainNext + 1
      /\ t \notin Included /\ Included \subseteq DOMAIN pool
  BY <1>0, <1>1, ChainCount DEF Included
<1>5. ChainNext' = IF now = "included" THEN ChainNext + 1 ELSE ChainNext
  <2>1. CASE now = "included"
    <3>1. Included' = Included \cup {t} /\ Cardinality(Included \cup {t}) + 1 = ChainNext + 1
      BY <1>3, <1>4, <2>1
    <3>2. ChainNext' = Cardinality(Included') + 1
      BY DEF ChainNext
    <3> QED
      BY <2>1, <3>1, <3>2
  <2>2. CASE now # "included"
    BY <1>3, <2>2 DEF ChainNext
  <2> QED
    BY <2>1, <2>2
<1>6. SubForm'
  BY <1>0, <1>1, <1>3, FormStays DEF SubForm
<1>7. ChainInv'
  <2>1. \A u \in Included : pool'[u].nonce = pool[u].nonce /\ pool[u].nonce < ChainNext /\ pool[u].nonce \in Nat
    BY <1>0, <1>3, <1>4 DEF ChainInv, SubForm, TxForm
  <2>2. CASE now = "included"
    <3>1. pool'[t].nonce = ChainNext /\ Included' = Included \cup {t} /\ ChainNext' = ChainNext + 1
      BY <1>2, <1>3, <1>5, <2>2
    <3>2. \A u \in Included' : pool'[u].nonce < ChainNext'
      BY <1>4, <2>1, <3>1
    <3>3. \A u, v \in Included' : pool'[u].nonce = pool'[v].nonce => u = v
      BY <1>0, <1>4, <2>1, <3>1 DEF ChainInv
    <3>4. t \in Included' /\ pool'[t].nonce = ChainNext' - 1
      BY <1>4, <3>1
    <3> QED
      BY <3>2, <3>3, <3>4 DEF ChainInv
  <2>3. CASE now # "included"
    BY <1>0, <1>3, <1>5, <2>1, <2>3 DEF ChainInv
  <2> QED
    BY <2>2, <2>3
<1>8. QueueInv'
  BY <1>0, <1>1 DEF QueueInv, OnceQueued, Untouched, InTurn, AllAdmitted, Watched, FirstTry, AnchorHolds,
                   Running, Active
<1>9. NonceInv'
  <2>1. Owns' /\ Known'
    BY <1>0, <1>1, <1>3 DEF NonceInv, Owns, Known
  <2>2. Landed'
    <3>1. \A v \in Writes : write[v].tx # 0 => write[v].tx \in DOMAIN pool
      BY <1>0 DEF NonceInv, Owns
    <3>2. \A v \in Writes : write[v].at = "confirmed" => write[v].tx # t
      BY <1>0, <1>1 DEF NonceInv, Landed
    <3> QED
      BY <1>0, <1>1, <1>3, <3>1, <3>2 DEF NonceInv, Landed
  <2>3. Carries'
    <3>1. \A u \in DOMAIN pool : pool[u].nonce \in Nat
      BY <1>0 DEF SubForm, TxForm
    <3> QED
      BY <1>0, <1>1, <1>3, <1>4, <1>5, <3>1 DEF NonceInv, Carries
  <2> QED
    BY <2>1, <2>2, <2>3 DEF NonceInv
<1>10. CoverInv'
  <2>1. \A m \in 1 .. (nextNonce' - 1) : Reached(m)'
    <3> SUFFICES ASSUME NEW m \in 1 .. (nextNonce - 1) PROVE Reached(m)'
      BY <1>1
    <3>1. Reached(m)
      BY <1>0 DEF CoverInv
    <3> QED
      BY <1>1, <1>3, <1>4, <1>5, <3>1 DEF Reached
  <2>2. \A u \in DOMAIN pool' : ~lost' \/ pool'[u].by = {} => pool'[u].nonce < nextNonce'
    <3> SUFFICES ASSUME NEW u \in DOMAIN pool, ~lost \/ pool[u].by = {}
                 PROVE  pool'[u].nonce < nextNonce'
      BY Zenon, <1>1, <1>3
    <3>1. pool[u].nonce < nextNonce
      BY Zenon, <1>0 DEF CoverInv
    <3> QED
      BY <1>1, <1>3, <3>1
  <2> QED
    BY <2>1, <2>2 DEF CoverInv
<1>11. BatchInv' /\ TurnInv'
  BY <1>0, <1>1 DEF BatchInv, TurnInv, Running, Active
<1> QED
  BY <1>6, <1>7, <1>8, <1>9, <1>10, <1>11 DEF SubInv

(* A step that leaves the writes and the pool alone and does not make a    *)
(* call run that has begun.                                                *)
LEMMA QueueStepKeeps ==
  ASSUME SubInv, anchorTail' \in Seq(asked'), asked' \subseteq Calls, asked \subseteq asked',
         UNCHANGED <<nextNonce, write, pool, localWrites, lost>>, OnceQueued',
         \A i \in DOMAIN anchorTail' : i # 1 => \A w \in WritesOf(anchorTail'[i]) : write[w] = NoWrite,
         \A c \in Calls : Running(c) /\ ~Running(c)' =>
           \A w \in WritesOf(c) : /\ ~(write[w].at = "sending" /\ write[w].tx = 0)
                                 /\ ~(Kind[c] = "confirmed" /\ Active(w)),
         \A c \in Calls : Running(c)' => Running(c) \/ \A w \in WritesOf(c) : write[w] = NoWrite
  PROVE  SubInv'
<1>0. SubForm /\ ChainInv /\ QueueInv /\ NonceInv /\ CoverInv /\ BatchInv /\ TurnInv
  BY DEF SubInv
<1>1. /\ nextNonce' = nextNonce /\ write' = write /\ pool' = pool /\ localWrites' = localWrites /\ lost' = lost
      /\ Included' = Included /\ ChainNext' = ChainNext
  BY DEF Included, ChainNext
<1>2. SubForm'
  BY <1>0, <1>1, FormStays DEF SubForm
<1>3. ChainInv' /\ NonceInv' /\ TurnInv'
  BY <1>0, <1>1 DEF ChainInv, NonceInv, Owns, Landed, Known, Carries, TurnInv, Active
<1>4. CoverInv'
  <2>1. \A n : Reached(n)' <=> Reached(n)
    BY <1>1 DEF Reached
  <2>2. \A n \in 1 .. (nextNonce' - 1) : Reached(n)'
    <3>1. \A n \in 1 .. (nextNonce - 1) : Reached(n)
      BY Zenon, <1>0 DEF CoverInv
    <3> QED
      BY <1>1, <2>1, <3>1
  <2>3. \A t \in DOMAIN pool' : ~lost' \/ pool'[t].by = {} => pool'[t].nonce < nextNonce'
    <3>1. \A t \in DOMAIN pool : ~lost \/ pool[t].by = {} => pool[t].nonce < nextNonce
      BY Zenon, <1>0 DEF CoverInv
    <3>2. pool' = pool /\ nextNonce' = nextNonce
      BY <1>1
    <3>3. ~lost' => ~lost
      BY Zenon
    <3>4. \A t \in DOMAIN pool : ~lost' \/ pool[t].by = {} => pool[t].nonce < nextNonce
      BY Zenon, <3>1, <3>3
    <3> SUFFICES ASSUME NEW t \in DOMAIN pool', ~lost' \/ pool'[t].by = {}
                 PROVE  pool'[t].nonce < nextNonce'
      OBVIOUS
    <3>5. t \in DOMAIN pool
      BY <3>2
    <3>6. ~lost' \/ pool[t].by = {}
      BY Zenon, <3>2
    <3>7. pool[t].nonce < nextNonce
      BY Zenon, <3>4, <3>5, <3>6
    <3> QED
      BY <3>2, <3>7
  <2> QED
    BY Zenon, <2>2, <2>3 DEF CoverInv
<1>5. QueueInv'
  <2>1. Untouched' /\ InTurn' /\ AllAdmitted'
    BY <1>0, <1>1 DEF QueueInv, Untouched, InTurn, AllAdmitted, Watched
  <2>2. \A w \in Writes : w[1] \in Calls /\ w \in WritesOf(w[1])
    BY WriteFacts
  <2>3. FirstTry' /\ AnchorHolds'
    <3>1. ASSUME NEW w \in Writes, Running(w[1]),
                 (write[w].at = "sending" /\ write[w].tx = 0) \/ (Kind[w[1]] = "confirmed" /\ Active(w))
          PROVE  Running(w[1])'
      BY <2>2, <3>1
    <3> QED
      BY <1>0, <1>1, <3>1 DEF QueueInv, FirstTry, AnchorHolds, Active
  <2> QED
    BY <2>1, <2>3 DEF QueueInv
<1>6. BatchInv'
  <2> SUFFICES ASSUME NEW v \in Writes, v[2] # 1, NEW p, p = <<v[1], v[2] - 1>>
               PROVE  /\ write[v].at # "waiting" => write[v].nonce = write[p].nonce + 1 /\ write[v].known # 0
                      /\ Running(v[1])' /\ write[v].at = "waiting" /\ write[p].tx # 0 =>
                           nextNonce = write[p].nonce + 1
    BY <1>1 DEF BatchInv
  <2>1. p \in WritesOf(v[1]) /\ v[1] \in Calls
    <3>1. v[2] - 1 \in 1 .. (v[2] - 1)
      BY EarlierEntries
    <3> QED
      BY <3>1, WriteFacts
  <2>2. write[p].tx # 0 => write[p] # NoWrite
    BY DEF NoWrite, State
  <2>3. Running(v[1])' /\ write[p].tx # 0 => Running(v[1])
    BY <2>1, <2>2
  <2> QED
    BY <1>0, <2>3 DEF BatchInv
<1> QED
  BY <1>2, <1>3, <1>4, <1>5, <1>6 DEF SubInv

LEMMA AskKeeps == ASSUME SubInv, NEW c \in Calls, AskAnchor(c) PROVE SubInv'
<1>0. SubForm /\ QueueInv
  BY DEF SubInv
<1>1. /\ c \notin asked /\ asked' = asked \cup {c} /\ anchorTail' = Append(anchorTail, c)
      /\ UNCHANGED <<nextNonce, write, pool, localWrites, lost>>
  BY DEF AskAnchor
<1>2. /\ anchorTail \in Seq(asked) /\ asked \subseteq Calls
      /\ Len(anchorTail) \in Nat /\ DOMAIN anchorTail = 1 .. Len(anchorTail)
  BY <1>0 DEF SubForm
<1>3. /\ anchorTail' \in Seq(asked') /\ DOMAIN anchorTail' = 1 .. (Len(anchorTail) + 1)
      /\ \A i \in DOMAIN anchorTail : anchorTail'[i] = anchorTail[i] /\ anchorTail[i] \in asked
      /\ anchorTail'[Len(anchorTail) + 1] = c
  <2>1. anchorTail \in Seq(asked')
    BY <1>1, <1>2
  <2> QED
    BY <1>1, <1>2, <2>1
<1>4. OnceQueued'
  BY <1>0, <1>1, <1>2, <1>3 DEF QueueInv, OnceQueued
<1>5. \A w \in WritesOf(c) : write[w] = NoWrite
  BY <1>0, <1>1, WriteFacts DEF QueueInv, Untouched
<1>6. \A i \in DOMAIN anchorTail' : i # 1 => \A w \in WritesOf(anchorTail'[i]) : write[w] = NoWrite
  BY <1>0, <1>2, <1>3, <1>5 DEF QueueInv, Untouched
<1>7. anchorTail # <<>> => anchorTail' # <<>> /\ Head(anchorTail') = Head(anchorTail)
  BY <1>1, <1>2, <1>3
<1>8. anchorTail = <<>> => Head(anchorTail') = c
  BY <1>1, <1>2, <1>3
<1>9. \A d \in Calls : Running(d) => Running(d)'
  BY <1>7 DEF Running
<1>10. \A d \in Calls : Running(d)' => Running(d) \/ \A w \in WritesOf(d) : write[w] = NoWrite
  BY <1>5, <1>7, <1>8 DEF Running
<1> QED
  BY <1>1, <1>2, <1>3, <1>4, <1>6, <1>9, <1>10, QueueStepKeeps

LEMMA LeaveKeeps == ASSUME SubInv, LeaveQueue PROVE SubInv'
<1> DEFINE c == Head(anchorTail)
<1>0. SubForm /\ QueueInv
  BY DEF SubInv
<1>1. /\ anchorTail # <<>> /\ Settled(c) /\ anchorTail' = Tail(anchorTail)
      /\ UNCHANGED <<nextNonce, asked, write, pool, localWrites, lost>>
  BY DEF LeaveQueue
<1>2. /\ anchorTail \in Seq(asked) /\ asked \subseteq Calls
      /\ Len(anchorTail) \in Nat /\ DOMAIN anchorTail = 1 .. Len(anchorTail)
  BY <1>0 DEF SubForm
<1>3. /\ anchorTail' \in Seq(asked') /\ DOMAIN anchorTail' = 1 .. (Len(anchorTail) - 1)
      /\ \A i \in DOMAIN anchorTail' : anchorTail'[i] = anchorTail[i + 1] /\ i + 1 \in DOMAIN anchorTail
      /\ c = anchorTail[1] /\ c \in Calls /\ Len(anchorTail) >= 1
  BY <1>1, <1>2
<1>4. OnceQueued'
  BY <1>0, <1>2, <1>3 DEF QueueInv, OnceQueued
<1>5. \A i \in DOMAIN anchorTail' : \A w \in WritesOf(anchorTail'[i]) : write[w] = NoWrite
  BY <1>0, <1>2, <1>3 DEF QueueInv, Untouched
<1>6. \A d \in Calls : Running(d)' => \A w \in WritesOf(d) : write[w] = NoWrite
  <2>1. anchorTail' # <<>> => 1 \in DOMAIN anchorTail' /\ Head(anchorTail') = anchorTail'[1]
    BY <1>1, <1>2, <1>3
  <2> QED
    BY <1>5, <2>1 DEF Running
<1>7. ASSUME NEW w \in WritesOf(c)
      PROVE  /\ ~(write[w].at = "sending" /\ write[w].tx = 0)
             /\ ~(Kind[c] = "confirmed" /\ Active(w))
  <2>1. w \in Writes /\ w[1] = c
    BY <1>3, WriteFacts
  <2>2. Kind[c] # "batch" => w = <<c, 1>>
    <3>1. Kind[c] # "batch" => WritesOf(c) = {<<c, 1>>}
      BY Zenon, <1>3, WriteFacts
    <3> QED
      BY <3>1
  <2>3. CASE Kind[c] # "batch"
    <3>1. /\ Kind[c] = "accepted" => write[w].tx # 0 \/ write[w].at = "failed"
          /\ Kind[c] # "accepted" => write[w].at \in {"confirmed", "failed"}
      <4>1. WritesOf(c) = {w}
        BY <1>3, <2>2, <2>3, WriteFacts
      <4> QED
        BY <1>1, <2>2, <2>3, <4>1 DEF Settled
    <3> QED
      BY <3>1 DEF Active
  <2>4. CASE Kind[c] = "batch"
    <3> SUFFICES ASSUME write[w].at = "sending", write[w].tx = 0 PROVE FALSE
      BY <2>4
    <3>1. PICK v \in WritesOf(c) : write[v].at = "failed"
      BY <1>1, <2>4 DEF Settled
    <3>2. v \in Writes /\ v[1] = w[1]
      BY <1>3, <2>1, WriteFacts
    <3>3. InTurn
      BY <1>0 DEF QueueInv
    <3>4. v[2] < w[2]
      BY <2>1, <3>1, <3>2, <3>3, OneFirst
    <3>5. write[v].tx # 0
      BY <2>1, <3>2, <3>3, <3>4, OneFirst
    <3>6. Watched(v)
      BY <1>0, <3>1, <3>2, <3>5 DEF QueueInv, AllAdmitted
    <3>7. w \in WritesOf(v[1])
      BY <2>1, <3>2
    <3> QED
      BY <3>6, <3>7 DEF Watched
  <2> QED
    BY <2>3, <2>4
<1>8. \A d \in Calls : Running(d) /\ ~Running(d)' =>
        \A w \in WritesOf(d) : /\ ~(write[w].at = "sending" /\ write[w].tx = 0)
                              /\ ~(Kind[d] = "confirmed" /\ Active(w))
  BY <1>7 DEF Running
<1>9. asked' = asked
  BY <1>1
<1> QED
  BY <1>1, <1>2, <1>3, <1>4, <1>5, <1>6, <1>8, <1>9, QueueStepKeeps

LEMMA PayKeeps == ASSUME SubInv, PayBeside PROVE SubInv'
<1> DEFINE n == IF nextNonce = 0 THEN ChainNext ELSE nextNonce
           last == Len(pool) + 1
           tx == [by |-> {}, nonce |-> n, at |-> "pending"]
<1>0. SubForm /\ ChainInv /\ QueueInv /\ NonceInv /\ CoverInv /\ BatchInv /\ TurnInv
  BY DEF SubInv
<1>1. /\ anchorTail = <<>> /\ pool' = Append(pool, tx) /\ nextNonce' = Reserved(n)
      /\ anchorTail' = anchorTail /\ asked' = asked /\ write' = write
      /\ localWrites' = localWrites /\ lost' = lost
  BY DEF PayBeside
<1>2. /\ nextNonce \in Nat /\ ChainNext \in Nat /\ ChainNext >= 1 /\ n \in Nat /\ n >= 1 /\ n >= nextNonce
      /\ nextNonce # 0 => n = nextNonce
      /\ nextNonce = 0 => n = ChainNext
  BY <1>0, ChainCount DEF SubForm
<1> HIDE DEF n
<1>3. nextNonce' = n + 1
  BY <1>1, <1>2 DEF Reserved
<1>4. TxForm(tx) /\ tx.by = {} /\ tx.nonce = n /\ tx.at = "pending"
  BY <1>2 DEF TxForm
<1> HIDE DEF tx
<1>5. /\ Len(pool) \in Nat /\ DOMAIN pool' = DOMAIN pool \cup {last} /\ last \notin DOMAIN pool
      /\ \A t \in DOMAIN pool : pool'[t] = pool[t]
      /\ pool'[last] = tx
      /\ Included' = Included /\ ChainNext' = ChainNext
      /\ pool' \in Seq({pool'[t] : t \in DOMAIN pool'})
  BY <1>0, <1>1, <1>4, PoolGrows
<1> HIDE DEF last
<1>6. SubForm'
  <2>1. \A t \in DOMAIN pool' : TxForm(pool'[t])
    BY <1>0, <1>4, <1>5 DEF SubForm
  <2> QED
    BY <1>0, <1>1, <1>2, <1>3, <1>5, <2>1, FormStays DEF SubForm
<1>7. ChainInv'
  BY <1>0, <1>5, ChainStays
<1>8. \A c : ~Running(c) /\ ~Running(c)'
  BY <1>1 DEF Running
<1>9. QueueInv'
  BY <1>0, <1>1, <1>8 DEF QueueInv, OnceQueued, Untouched, InTurn, AllAdmitted, Watched, FirstTry, AnchorHolds,
                         Active
<1>10. NonceInv'
  <2>1. Owns'
    BY <1>0, <1>1, <1>2, <1>3, <1>5 DEF NonceInv, Owns
  <2>2. Landed'
    <3>1. \A v \in Writes : write[v].tx # 0 => write[v].tx \in DOMAIN pool
      BY <1>0 DEF NonceInv, Owns
    <3> QED
      BY <1>0, <1>1, <1>5, <3>1 DEF NonceInv, Landed
  <2>3. Known'
    BY <1>0, <1>1 DEF NonceInv, Known
  <2>4. Carries'
    BY <1>0, <1>1, <1>4, <1>5 DEF NonceInv, Carries
  <2> QED
    BY <2>1, <2>2, <2>3, <2>4 DEF NonceInv
<1>11. CoverInv'
  <2>1. \A m \in 1 .. (nextNonce' - 1) : Reached(m)'
    <3> SUFFICES ASSUME NEW m \in 1 .. (nextNonce' - 1) PROVE Reached(m)'
      OBVIOUS
    <3>1. CASE m \in 1 .. (nextNonce - 1)
      <4>1. Reached(m)
        BY <1>0, <3>1 DEF CoverInv
      <4> QED
        BY <1>1, <1>5, <4>1 DEF Reached
    <3>2. CASE m \notin 1 .. (nextNonce - 1)
      <4>1. m = n \/ m < ChainNext
        BY <1>2, <1>3, <3>2
      <4> QED
        BY <1>4, <1>5, <4>1 DEF Reached
    <3> QED
      BY <3>1, <3>2
  <2>2. \A t \in DOMAIN pool' : ~lost' \/ pool'[t].by = {} => pool'[t].nonce < nextNonce'
    <3> SUFFICES ASSUME NEW t \in DOMAIN pool', ~lost' \/ pool'[t].by = {}
                 PROVE  pool'[t].nonce < nextNonce'
      OBVIOUS
    <3>1. CASE t = last
      BY <1>2, <1>3, <1>4, <1>5, <3>1
    <3>2. CASE t # last
      <4>1. t \in DOMAIN pool /\ pool'[t] = pool[t]
        BY <1>5, <3>2
      <4>2. ~lost \/ pool[t].by = {}
        BY Zenon, <1>1, <4>1
      <4>3. pool[t].nonce < nextNonce
        BY Zenon, <1>0, <4>1, <4>2 DEF CoverInv
      <4>4. pool[t].nonce \in Nat
        BY <1>0, <4>1 DEF SubForm, TxForm
      <4> QED
        BY <1>2, <1>3, <4>1, <4>3, <4>4
    <3> QED
      BY <3>1, <3>2
  <2> QED
    BY <2>1, <2>2 DEF CoverInv
<1>12. BatchInv' /\ TurnInv'
  BY <1>0, <1>1, <1>8 DEF BatchInv, TurnInv, Active
<1> QED
  BY <1>6, <1>7, <1>9, <1>10, <1>11, <1>12 DEF SubInv

LEMMA SubStarts == SubInit \/ RestSub => SubInv
<1> SUFFICES ASSUME SubInit \/ RestSub PROVE SubInv
  OBVIOUS
<1>1. /\ nextNonce = 0 /\ anchorTail = <<>> /\ asked \subseteq Calls /\ pool = <<>>
      /\ write = [w \in Writes |-> NoWrite] /\ localWrites = [s \in Programs |-> 0]
  BY DEF SubInit, RestSub
<1>2. DOMAIN pool = {} /\ DOMAIN anchorTail = {}
  BY <1>1
<1>3. /\ StateForm(NoWrite) /\ NoWrite.at = "waiting" /\ NoWrite.tx = 0 /\ NoWrite.nonce = 0
      /\ NoWrite.known = 0
  BY DEF StateForm, NoWrite, State
<1>4. \A w \in Writes : write[w] = NoWrite
  BY <1>1
<1>5. SubForm
  BY <1>1, <1>2, <1>3, <1>4 DEF SubForm
<1>6. Included = {} /\ ChainNext = 1
  <2>1. Included = {}
    BY <1>2 DEF Included
  <2> QED
    BY <2>1, FS_EmptySet DEF ChainNext
<1>7. ChainInv
  BY <1>6 DEF ChainInv
<1>8. QueueInv
  BY <1>1, <1>2, <1>3, <1>4 DEF QueueInv, OnceQueued, Untouched, InTurn, AllAdmitted, FirstTry, AnchorHolds, Active
<1>9. NonceInv
  BY <1>2, <1>3, <1>4 DEF NonceInv, Owns, Landed, Known, Carries
<1>10. CoverInv
  BY <1>1, <1>2 DEF CoverInv
<1>11. BatchInv
  BY <1>1, <1>3, <1>4 DEF BatchInv, Running
<1>12. TurnInv
  BY <1>3, <1>4 DEF TurnInv
<1> QED
  BY <1>5, <1>7, <1>8, <1>9, <1>10, <1>11, <1>12 DEF SubInv

LEMMA SubKeeps == SubInv /\ [SubNext]_subVars => SubInv'
<1> SUFFICES ASSUME SubInv, [SubNext]_subVars PROVE SubInv'
  OBVIOUS
<1>0. SubForm /\ QueueInv /\ NonceInv
  BY DEF SubInv
<1>1. CASE UNCHANGED subVars
  <2>1. anchorTail' = anchorTail /\ asked' = asked /\ UNCHANGED <<nextNonce, write, pool, localWrites, lost>>
    BY <1>1 DEF subVars
  <2>2. anchorTail \in Seq(asked) /\ asked \subseteq Calls
    BY <1>0 DEF SubForm
  <2>3. OnceQueued' /\ \A c \in Calls : Running(c)' = Running(c)
    BY <1>0, <2>1 DEF QueueInv, OnceQueued, Running
  <2>4. \A i \in DOMAIN anchorTail : i # 1 => \A w \in WritesOf(anchorTail[i]) : write[w] = NoWrite
    BY <1>0 DEF QueueInv, Untouched
  <2> QED
    BY <2>1, <2>2, <2>3, <2>4, QueueStepKeeps
<1>2. ASSUME NEW c \in Calls, AskAnchor(c) PROVE SubInv'
  BY <1>2, AskKeeps
<1>3. ASSUME NEW w \in Writes, BeginWrite(w) PROVE SubInv'
  BY <1>3, BeginKeeps
<1>4. ASSUME NEW w \in Writes, Admitted(w) PROVE SubInv'
  BY <1>4, AdmittedKeeps
<1>5. ASSUME NEW w \in Writes, Refused(w) \/ Rebroadcast(w) \/ Receipt(w) \/ GiveUp(w) PROVE SubInv'
  <2>1. PICK y : Continues(w, y)
    BY <1>0, <1>5, GoesOn
  <2>2. pool' = pool /\ lost' = lost
    BY <1>5 DEF Refused, Rebroadcast, Receipt, GiveUp
  <2>3. localWrites' = [s \in Programs |-> localWrites'[s]]
    BY <1>0, <1>5 DEF SubForm, Refused, Rebroadcast, Receipt, GiveUp
  <2> QED
    BY <2>1, <2>2, <2>3, ContinuesKeeps
<1>6. ASSUME NEW w \in Writes, AnswerLost(w) PROVE SubInv'
  <2>1. PICK y : Continues(w, y)
    BY <1>0, <1>6, GoesOn
  <2>2. pool' = Broadcasted(w) /\ lost' /\ write[w].at = "sending"
    BY <1>6 DEF AnswerLost
  <2>3. localWrites' = [s \in Programs |-> localWrites'[s]]
    BY <1>0, <1>6 DEF SubForm, AnswerLost
  <2> QED
    BY <2>1, <2>2, <2>3, ContinuesKeeps
<1>7. ASSUME NEW t \in DOMAIN pool, IncludeTx(t) \/ DropTx(t) PROVE SubInv'
  BY <1>7, TxKeeps
<1>8. CASE LeaveQueue
  BY <1>8, LeaveKeeps
<1>9. CASE PayBeside
  BY <1>9, PayKeeps
<1> QED
  BY <1>1, <1>2, <1>3, <1>4, <1>5, <1>6, <1>7, <1>8, <1>9 DEF SubNext, WriteStep

(* What the invariant says of the nonces.                                  *)
LEMMA OnceAtMost ==
  ASSUME NEW S, IsFiniteSet(S), \A s, t \in S : s = t
  PROVE  Cardinality(S) <= 1
<1>1. CASE S = {}
  BY <1>1, FS_EmptySet
<1>2. CASE S # {}
  <2>1. PICK s \in S : TRUE
    BY <1>2
  <2>2. S = {s}
    BY <2>1
  <2> QED
    BY <2>2, FS_Singleton
<1> QED
  BY <1>1, <1>2

LEMMA BelowReservation ==
  ASSUME SubInv, NEW t \in DOMAIN pool,
         ~lost \/ \A w \in Writes : w[1] \in asked => write[w].tx # 0
  PROVE  pool[t].nonce < nextNonce /\ pool[t].nonce \in Nat
<1>0. SubForm /\ ChainInv /\ QueueInv /\ NonceInv /\ CoverInv
  BY DEF SubInv
<1>1. TxForm(pool[t]) /\ pool[t].nonce \in Nat /\ nextNonce \in Nat
  BY <1>0 DEF SubForm, TxForm
<1>2. ASSUME ~lost \/ pool[t].by = {} PROVE pool[t].nonce < nextNonce
  BY Zenon, <1>0, <1>2 DEF CoverInv
<1>3. ASSUME pool[t].by # {}, \A w \in Writes : w[1] \in asked => write[w].tx # 0
      PROVE  pool[t].nonce < nextNonce
  <2>1. PICK w \in Writes : w \in pool[t].by
    BY <1>1, <1>3 DEF TxForm
  <2>2. /\ write[w].at # "waiting"
        /\ write[w].known # 0 => pool[t].nonce = write[w].known
        /\ write[w].known = 0 /\ write[w].tx # 0 => pool[t].nonce <= write[w].nonce
        /\ write[w].known # 0 => write[w].nonce = write[w].known
    BY <1>0, <2>1 DEF NonceInv, Carries, Known
  <2>3. write[w].tx # 0
    BY <1>0, <1>3, <2>2 DEF QueueInv, Untouched, NoWrite, State
  <2>4. write[w].nonce \in 1 .. (nextNonce - 1)
    BY <1>0, <2>3 DEF NonceInv, Owns
  <2> QED
    BY <1>1, <2>2, <2>3, <2>4
<1> QED
  BY Zenon, <1>1, <1>2, <1>3

LEMMA NoncesInOrder == SubInv => NonceDiscipline
<1> SUFFICES ASSUME SubInv PROVE NonceDiscipline
  OBVIOUS
<1>0. SubForm /\ ChainInv /\ QueueInv /\ NonceInv /\ CoverInv /\ BatchInv
  BY DEF SubInv
<1>1. /\ IsFiniteSet(Included) /\ ChainNext \in Nat /\ ChainNext >= 1 /\ Included \subseteq DOMAIN pool
      /\ nextNonce \in Nat
  BY <1>0, ChainCount DEF SubForm, Included
<1>2. IncludedOnce
  <2> SUFFICES ASSUME NEW w \in Writes, write[w].known # 0
               PROVE  Cardinality({t \in Included : w \in pool[t].by}) <= 1
    BY DEF IncludedOnce
  <2> DEFINE S == {t \in Included : w \in pool[t].by}
  <2>1. IsFiniteSet(S)
    BY <1>1, FS_Subset
  <2>2. \A t \in S : t \in Included /\ pool[t].nonce = write[w].known
    BY <1>0, <1>1 DEF NonceInv, Carries
  <2>3. \A s, t \in S : s = t
    BY <1>0, <2>2 DEF ChainInv
  <2> QED
    BY <2>1, <2>3, OnceAtMost
<1>3. ASSUME ~lost \/ \A w \in Writes : w[1] \in asked => write[w].tx # 0
      PROVE  ChainNext = 1 \/ ChainNext <= nextNonce
  <2> SUFFICES ASSUME ChainNext # 1 PROVE ChainNext <= nextNonce
    OBVIOUS
  <2>1. PICK t \in Included : pool[t].nonce = ChainNext - 1
    BY <1>0 DEF ChainInv
  <2>2. pool[t].nonce < nextNonce
    BY <1>1, <1>3, <2>1, BelowReservation
  <2> QED
    BY <1>1, <2>1, <2>2
<1>4. NoNonceGap
  <2> SUFFICES ASSUME \A w \in Writes : w[1] \in asked => write[w].at = "confirmed",
                      \A t \in DOMAIN pool : pool[t].by = {} => pool[t].at = "included",
                      nextNonce # 0
               PROVE  nextNonce = ChainNext
    BY DEF NoNonceGap
  <2>1. \A w \in Writes : w[1] \in asked => write[w].tx # 0
    BY <1>0 DEF NonceInv, Landed
  <2>2. ChainNext <= nextNonce
    BY <1>1, <1>3, <2>1
  <2>3. nextNonce <= ChainNext
    <3> SUFFICES ASSUME nextNonce # 1 PROVE nextNonce - 1 < ChainNext
      BY <1>1
    <3> DEFINE n == nextNonce - 1
    <3>1. n \in 1 .. (nextNonce - 1)
      BY <1>1
    <3>2. Reached(n)
      BY <1>0, <3>1 DEF CoverInv
    <3> HIDE DEF n
    <3>3. ASSUME NEW t \in DOMAIN pool, pool[t].at = "included", pool[t].nonce = n PROVE n < ChainNext
      BY <1>0, <3>3 DEF ChainInv, Included
    <3>4. ASSUME NEW w \in Writes, write[w].tx # 0, write[w].nonce = n PROVE n < ChainNext
      <4>1. w[1] \in asked
        BY <1>0, <3>4 DEF QueueInv, Untouched, NoWrite, State
      <4>2. /\ write[w].tx \in DOMAIN pool /\ pool[write[w].tx].nonce = n
            /\ pool[write[w].tx].at = "included"
        BY <1>0, <3>4, <4>1 DEF NonceInv, Owns, Landed
      <4> QED
        BY <3>3, <4>2
    <3>5. n < ChainNext
      BY <3>2, <3>3, <3>4 DEF Reached
    <3> QED
      BY <3>5 DEF n
  <2> QED
    BY <1>1, <2>2, <2>3
<1>5. StaleOnlyIfLost
  <2>1. ASSUME nextNonce # 0, nextNonce < ChainNext, ~lost PROVE FALSE
    BY <1>1, <1>3, <2>1
  <2> QED
    BY Zenon, <2>1 DEF StaleOnlyIfLost
<1>6. BatchIsContiguous
  <2> SUFFICES ASSUME NEW c \in Calls, NEW k \in 2 .. Len(Entries[c]), write[<<c, k>>].tx # 0
               PROVE  write[<<c, k>>].nonce = write[<<c, k - 1>>].nonce + 1
    BY DEF BatchIsContiguous
  <2> DEFINE w == <<c, k>>
  <2>1. w \in Writes /\ w[1] = c /\ w[2] = k /\ k # 1
    <3>1. Len(Entries[c]) \in Nat /\ k \in Nat /\ k >= 1 /\ k <= Len(Entries[c]) /\ k # 1
      <4>1. Entries[c] \in Seq([slot : Programs, value : Nat \ {0}])
        BY Zenon, SubstrateAssumption
      <4>2. Len(Entries[c]) \in Nat
        BY <4>1
      <4> QED
        BY <4>2
    <3> QED
      BY <3>1 DEF Writes
  <2>2. write[w].at # "waiting"
    BY <1>0, <2>1 DEF QueueInv, Untouched, NoWrite, State
  <2> QED
    BY <1>0, <2>1, <2>2 DEF BatchInv
<1> QED
  BY <1>2, <1>4, <1>5, <1>6 DEF NonceDiscipline

(* A read answers with the newest receipt: two receipts for one slot are   *)
(* of anchor, whose writes follow one another.                             *)
LEMMA ReadsKeep == SubInv /\ ReadsAreFresh /\ [SubNext]_subVars => ReadsAreFresh'
<1> SUFFICES ASSUME SubInv, ReadsAreFresh, [SubNext]_subVars PROVE ReadsAreFresh'
  OBVIOUS
<1>0. SubForm /\ QueueInv /\ NonceInv /\ TurnInv
  BY DEF SubInv
<1>1. ASSUME localWrites' = localWrites,
             \A w \in Writes : write[w].at = "confirmed" => write'[w] = write[w],
             \A w \in Writes : write'[w].at = "confirmed" => write[w].at = "confirmed"
      PROVE  ReadsAreFresh'
  BY <1>1 DEF ReadsAreFresh, EntryOf
<1>2. ASSUME write' = write, localWrites' = localWrites PROVE ReadsAreFresh'
  BY <1>1, <1>2
<1>3. ASSUME NEW w \in Writes, NEW y, StateForm(y), Becomes(w, y), y.at # "confirmed",
             write[w].at # "confirmed", localWrites' = localWrites
      PROVE  ReadsAreFresh'
  <2>1. write'[w] = y /\ \A v \in Writes : v # w => write'[v] = write[v]
    BY <1>0, <1>3, WriteChanges
  <2> QED
    BY <1>1, <1>3, <2>1
<1>4. ASSUME NEW w \in Writes, BeginWrite(w) PROVE ReadsAreFresh'
  <2> DEFINE y == State("sending", nextNonce, 0, 0, 0, nextNonce)
  <2>1. StateForm(y) /\ y.at = "sending"
    BY <1>0 DEF SubForm, StateForm, State
  <2>2. Becomes(w, y) /\ write[w].at = "waiting" /\ localWrites' = localWrites
    BY <1>4 DEF BeginWrite
  <2> HIDE DEF y
  <2> QED
    BY <1>3, <2>1, <2>2
<1>5. ASSUME NEW w \in Writes, Admitted(w) PROVE ReadsAreFresh'
  <2> DEFINE last == Len(pool) + 1
             n == NonceFor(w)
             y == State("sent", n, last, write[w].tries + 1, write[w].rounds, write[w].known)
  <2>1. n \in Nat /\ last \in Nat
    <3>1. n \in Nat
      BY <1>0, NonceUsed
    <3>2. Len(pool) \in Nat
      BY <1>0 DEF SubForm
    <3> QED
      BY <3>1, <3>2
  <2>2. Becomes(w, y) /\ write[w].at = "sending" /\ localWrites' = localWrites
    BY <1>5 DEF Admitted
  <2> HIDE DEF n, last
  <2>3. StateForm(y) /\ y.at = "sent"
    BY <1>0, <2>1 DEF SubForm, StateForm, State
  <2> HIDE DEF y
  <2> QED
    BY <1>3, <2>2, <2>3
<1>6. ASSUME NEW w \in Writes, Refused(w) \/ Rebroadcast(w) \/ GiveUp(w) \/ AnswerLost(w)
      PROVE  ReadsAreFresh'
  <2>1. PICK y : Continues(w, y)
    BY <1>0, <1>6, GoesOn
  <2>2. localWrites' = localWrites
    BY <1>6 DEF Refused, Rebroadcast, GiveUp, AnswerLost
  <2>3. StateForm(y) /\ Becomes(w, y) /\ write[w].at # "confirmed"
    BY <2>1 DEF Continues, Active
  <2>4. write'[w] = y
    BY <1>0, <2>3, WriteChanges
  <2>5. write'[w].at # "confirmed"
    <3> DEFINE x == write[w]
               s == State(IF x.tries + 1 >= maxBroadcasts THEN "failed" ELSE "sending",
                          x.nonce, x.tx, x.tries + 1, x.rounds, x.known)
               r == State("sending", x.nonce, x.tx, IF Kind[w[1]] = "confirmed" THEN x.tries ELSE 0,
                          x.rounds + 1, x.known)
               g == [x EXCEPT !.at = "failed"]
    <3>1. s.at # "confirmed" /\ r.at # "confirmed"
      BY DEF State
    <3>2. g.at # "confirmed"
      <4>1. x = State(x.at, x.nonce, x.tx, x.tries, x.rounds, x.known)
        BY <1>0 DEF SubForm, StateForm
      <4> QED
        BY <4>1 DEF State
    <3>3. Becomes(w, s) \/ Becomes(w, r) \/ Becomes(w, g)
      BY <1>6 DEF Refused, Rebroadcast, GiveUp, AnswerLost, OneTryLess
    <3> HIDE DEF s, r, g
    <3>4. write'[w] \in {s, r, g}
      BY <1>0, <3>3 DEF SubForm, Becomes
    <3> QED
      BY <3>1, <3>2, <3>4
  <2> QED
    BY <1>3, <2>2, <2>3, <2>4, <2>5
<1>7. ASSUME NEW w \in Writes, Receipt(w) PROVE ReadsAreFresh'
  <2>1. PICK y : Continues(w, y)
    BY <1>0, <1>7, GoesOn
  <2>2. StateForm(y) /\ Becomes(w, y) /\ y.nonce = write[w].nonce /\ Active(w)
    BY <2>1 DEF Continues
  <2>3. write'[w] = y /\ \A v \in Writes : v # w => write'[v] = write[v]
    BY <1>0, <2>2, WriteChanges
  <2>4. write'[w].at = "confirmed"
    <3> DEFINE x == write[w]
    <3>1. x = State(x.at, x.nonce, x.tx, x.tries, x.rounds, x.known)
      BY <1>0 DEF SubForm, StateForm
    <3>2. write'[w] = [x EXCEPT !.at = "confirmed"]
      BY <1>0, <1>7 DEF SubForm, Receipt, Becomes
    <3> QED
      BY <3>1, <3>2 DEF State
  <2>5. /\ EntryOf(w).slot \in Programs
        /\ localWrites'[EntryOf(w).slot] = EntryOf(w).value
        /\ \A s \in Programs : s # EntryOf(w).slot => localWrites'[s] = localWrites[s]
    <3>1. EntryOf(w).slot \in Programs
      BY WriteFacts
    <3> QED
      BY <1>0, <1>7, <3>1 DEF SubForm, Receipt
  <2> SUFFICES ASSUME NEW u \in Writes, write'[u].at = "confirmed"
               PROVE  \E v \in Writes : /\ EntryOf(v).slot = EntryOf(u).slot
                                        /\ localWrites'[EntryOf(v).slot] = EntryOf(v).value
                                        /\ write'[v].at = "confirmed"
                                        /\ write'[v].nonce >= write'[u].nonce
    BY DEF ReadsAreFresh, EntryOf
  <2>6. CASE EntryOf(u).slot = EntryOf(w).slot
    <3>1. write'[w].nonce >= write'[u].nonce
      <4>1. CASE u = w
        BY <2>2, <2>3, <4>1 DEF StateForm
      <4>2. CASE u # w
        <5>1. Kind[u[1]] = "confirmed" /\ Kind[w[1]] = "confirmed"
          BY <2>6, <4>2, SlotShared
        <5>2. write[u].at = "confirmed" /\ write'[u] = write[u]
          BY <2>3, <4>2
        <5>3. write[u].nonce < write[w].nonce
          BY <1>0, <2>2, <5>1, <5>2 DEF TurnInv
        <5>4. write[u].nonce \in Nat /\ write[w].nonce \in Nat
          BY <1>0 DEF SubForm, StateForm
        <5> QED
          BY <2>2, <2>3, <5>2, <5>3, <5>4
      <4> QED
        BY <4>1, <4>2
    <3> QED
      BY <2>4, <2>5, <2>6, <3>1
  <2>7. CASE EntryOf(u).slot # EntryOf(w).slot
    <3>1. u # w /\ write[u].at = "confirmed" /\ write'[u] = write[u]
      BY <2>3, <2>7
    <3>2. PICK v \in Writes : /\ EntryOf(v).slot = EntryOf(u).slot
                             /\ localWrites[EntryOf(v).slot] = EntryOf(v).value
                             /\ write[v].at = "confirmed"
                             /\ write[v].nonce >= write[u].nonce
      BY <3>1 DEF ReadsAreFresh
    <3>3. v # w /\ write'[v] = write[v] /\ EntryOf(v).slot \in Programs
      BY <2>3, <2>7, <3>2, WriteFacts
    <3> QED
      BY <2>5, <2>7, <3>1, <3>2, <3>3
  <2> QED
    BY <2>6, <2>7
<1>8. ASSUME (\E c \in Calls : AskAnchor(c)) \/ (\E t \in DOMAIN pool : IncludeTx(t) \/ DropTx(t))
             \/ LeaveQueue \/ PayBeside \/ UNCHANGED subVars
      PROVE  ReadsAreFresh'
  <2>1. write' = write /\ localWrites' = localWrites
    BY <1>8 DEF AskAnchor, IncludeTx, DropTx, LeaveQueue, PayBeside, subVars
  <2> QED
    BY <1>2, <2>1
<1> QED
  BY <1>4, <1>5, <1>6, <1>7, <1>8 DEF SubNext, WriteStep

(* The substrate's writes keep the wallet's nonces in order, each write    *)
(* that knew its nonce is included at most once, the reservation leaves no *)
(* gap and falls behind only after a lost answer, a batch is contiguous,   *)
(* and a read answers with the newest receipt (substrate.ts).              *)
THEOREM AccessSafety == MCSpec => []ChainAccess
<1> DEFINE I == SubInv /\ ReadsAreFresh
<1>1. SubInit \/ RestSub => I
  <2>1. SubInit \/ RestSub => ReadsAreFresh
    BY DEF SubInit, RestSub, ReadsAreFresh, NoWrite, State
  <2> QED
    BY <2>1, SubStarts
<1>2. I /\ [SubNext]_subVars => I'
  BY SubKeeps, ReadsKeep
<1>3. I => ChainAccess
  BY NoncesInOrder DEF ChainAccess
<1> HIDE DEF I
<1> QED
  BY <1>1, <1>2, <1>3, SubPart, PTL
=============================================================================
