------------------------------- MODULE Butler -------------------------------
(* The Procurement Butler (butler.ts) buying in a marketplace: search,     *)
(* filter, score, then one candidate after the other until one concludes.  *)
(* A negotiable listing is haggled over by price alone with the stub       *)
(* seller (marketplace-stub.ts), or, when the goal carries an RFQ brief,   *)
(* over all dimensions with the audit desk (butler-bridge.ts), which runs  *)
(* the engine of Negotiation. Prices are cents, scores thousandths.        *)
EXTENDS Negotiation

CONSTANTS Errands,     \* [listings, budget, units, needs, rfq]: the goals to procure
          NoRfq        \* the goal carries no RFQ brief

VARIABLE butler     \* the goal, who is left to try, and how it stands with the candidate

\* Most preferred first (DEFAULT_CONFIG).
RailPreference == <<"pay-dem", "pay-x402", "pay-evm-erc8183">>
ButlerRounds == 4

askPriceOf(l, units) == IF l.fixed THEN l.price ELSE Max2(l.price * units, l.minTotal)

\* A stub seller's private floor is a price it would come down to, and an RFQ
\* brief asks for no more than the goal it belongs to may cost.
ASSUME ErrandsAssumption ==
    \A e \in Errands :
        /\ e.budget \in Nat \ {0} /\ e.units \in Nat \ {0}
        /\ \A l \in e.listings :
              /\ l.id \in Nat /\ l.price \in Nat /\ l.minTotal \in Nat
              /\ l.floor \in Nat /\ (l.negotiable => l.floor <= askPriceOf(l, 1))
              /\ l.rating \in Nat /\ l.jobs \in Nat /\ l.disputes \in Nat
              /\ l.desk \in [tiers : SUBSET Tiers, scan : [klocTenths : Nat, numTools : Nat]]
        /\ e.rfq # NoRfq => e.rfq.budget \in 0..e.budget /\ e.rfq.deadline \in Deadlines

bestRail(l) ==
    LET ranks == {i \in 1..Len(RailPreference) : RailPreference[i] \in l.rails}
    IN  IF ranks = {} THEN 0 ELSE CHOOSE i \in ranks : \A j \in ranks : i <= j

\* 0.35 price + 0.25 rail + 0.4 quality, rounded to thousandths. The rating is
\* in tenths, the dispute rate in per cent.
score(l, ask, budget) ==
    LET price   == Max2(0, budget - ask)
        rail    == Len(RailPreference) - bestRail(l) + 1
        quality == (14 * l.rating + 6 * Min2(l.jobs, 50)) * (100 - l.disputes)
    IN  RoundDiv(350 * price * 750 + 250 * rail * budget * 250 + quality * budget * 3, budget * 750)

Viable(e, l) ==
    /\ e.needs \subseteq l.capabilities
    /\ bestRail(l) # 0
    /\ l.negotiable \/ askPriceOf(l, e.units) <= e.budget

\* Highest score first, ties by listing id.
Before(e, a, b) ==
    LET s(l) == score(l, askPriceOf(l, e.units), e.budget)
    IN  s(a) > s(b) \/ (s(a) = s(b) /\ a.id < b.id)

NoErrand == [listings |-> {}, budget |-> 1, units |-> 1, needs |-> {}, rfq |-> NoRfq]
NoListing == [id |-> 0]

\* The queue holds the candidates not given up on, the one in hand included.
Books(phase, e, queue, l, round, willing, price) ==
    [phase |-> phase, errand |-> e, queue |-> queue, candidate |-> l, round |-> round,
     willing |-> willing, price |-> price, verdict |-> "none"]
ButlerOff == Books("off", NoErrand, {}, NoListing, 0, 0, 0)

procure(e) == Books("choosing", e, {l \in e.listings : Viable(e, l)}, NoListing, 0, 0, 0)
ButlerInit == \E e \in Errands : butler = procure(e)

Candidate == butler.candidate
AskOf(l) == askPriceOf(l, butler.errand.units)
reservation == Min2(butler.errand.budget, AskOf(Candidate))

Award(l, price) == butler' = Books("awarded", butler.errand, butler.queue, l, 0, 0, price)
GiveUpOn(l) == butler' = Books("choosing", butler.errand, butler.queue \ {l}, NoListing, 0, 0, 0)
Haggle(l, round, willing) == butler' = Books("haggling", butler.errand, butler.queue, l, round, willing, 0)

\* The next candidate in score order.
IsNext(l) ==
    /\ butler.phase = "choosing" /\ l \in butler.queue
    /\ \A m \in butler.queue \ {l} : Before(butler.errand, l, m)

NoAward ==
    /\ butler.phase = "choosing" /\ butler.queue = {}
    /\ butler' = Books("no-award", butler.errand, {}, NoListing, 0, 0, 0)
    /\ UNCHANGED negVars

\* A fixed price that passed the filter is within the budget.
TakeFixed(l) ==
    /\ IsNext(l) /\ ~ l.negotiable
    /\ Award(l, AskOf(l))
    /\ UNCHANGED negVars

StartHaggling(l) ==
    /\ IsNext(l) /\ l.negotiable /\ butler.errand.rfq = NoRfq
    /\ Haggle(l, 1, Min2(Min2(butler.errand.budget, AskOf(l)), RoundDiv(75 * AskOf(l), 100)))
    /\ UNCHANGED negVars

\* The stub seller: from its ask for one unit towards its private floor.
respond(l, offer, round) ==
    LET ask == askPriceOf(l, 1)
        willing == Max2(l.floor, RoundDiv(100 * ask - (ask - l.floor) * 30 * round, 100))
    IN  IF offer >= willing THEN Says("accept", offer) ELSE Says("counter", willing)

\* One offer, the seller's answer and what the butler makes of it. The last
\* round offers the reservation price outright.
HaggleRound ==
    /\ butler.phase = "haggling"
    /\ LET offer   == IF butler.round = ButlerRounds THEN reservation ELSE butler.willing
           answer  == respond(Candidate, offer, butler.round)
           willing == butler.willing + RoundDiv(reservation - butler.willing, 2)
       IN  IF answer.kind = "accept" \/ answer.terms <= willing THEN Award(Candidate, answer.terms)
           ELSE IF butler.round = ButlerRounds THEN GiveUpOn(Candidate)
           ELSE Haggle(Candidate, butler.round + 1, willing)
    /\ UNCHANGED negVars

\* The desk's dimensions, without what it does not offer.
RfqDeal(l, rfq) ==
    LET acceptable == rfq.acceptable \cap l.desk.tiers
    IN  [tiers |-> l.desk.tiers, deadlines |-> Deadlines,
         floor |-> [t \in Tiers |-> [dl \in Deadlines |-> floorFor(l.desk.scan, t, dl)]],
         ask |-> [t \in Tiers |-> [dl \in Deadlines |-> askFor(l.desk.scan, t, dl)]],
         budget |-> rfq.budget, acceptable |-> acceptable,
         tier |-> IF rfq.tier \in acceptable THEN rfq.tier ELSE CHOOSE t \in acceptable : TRUE,
         deadline |-> rfq.deadline, maxTurns |-> 6, seller |-> "scripted", buyer |-> "scripted"]

negotiateRfq(l) ==
    /\ IsNext(l) /\ l.negotiable /\ butler.errand.rfq # NoRfq
    /\ IF butler.errand.rfq.acceptable \cap l.desk.tiers = {}
       THEN GiveUpOn(l) /\ UNCHANGED negVars
       ELSE /\ Begin(RfqDeal(l, butler.errand.rfq))
            /\ butler' = Books("rfq", butler.errand, butler.queue, l, 0, 0, 0)

RfqAnswered ==
    /\ butler.phase = "rfq" /\ outcome # Open
    /\ IF outcome.result = "agreed" THEN Award(Candidate, outcome.terms.price) ELSE GiveUpOn(Candidate)
    /\ UNCHANGED negVars

\* The mechanical checks the listing declares, in order, up to the first that
\* fails; a listing without any leaves the judgement to an evaluator.
acceptDeliverable(passed) ==
    /\ butler.phase = "awarded" /\ butler.verdict = "none"
    /\ butler' = [butler EXCEPT !.verdict =
           IF Candidate.checks = 0 THEN "needs-evaluator"
           ELSE IF \A i \in 1..Candidate.checks : passed[i] THEN "accept" ELSE "reject"]
    /\ UNCHANGED negVars

ButlerNext ==
    \/ NoAward \/ HaggleRound \/ RfqAnswered
    \/ \E l \in butler.queue : TakeFixed(l) \/ StartHaggling(l) \/ negotiateRfq(l)
    \/ \E passed \in [1..2 -> BOOLEAN] : acceptDeliverable(passed)

-----------------------------------------------------------------------------
(* Properties *)

\* What the stub seller would take in the end: its floor, or its ask.
LastPrice(e, l) == IF l.negotiable THEN l.floor ELSE askPriceOf(l, e.units)

\* The butler pays no more than the budget nor, when it haggles, than the
\* advertised ask (butler.ts:15), provided that an RFQ brief carries no larger
\* budget than the goal.
NeverAboveReservation ==
    butler.phase = "awarded" =>
        /\ butler.price <= butler.errand.budget
        /\ butler.errand.rfq = NoRfq => butler.price <= AskOf(Candidate)

\* The haggling misses no deal: a scalar goal ends without an award only when
\* every viable seller's last price is above the budget or its own ask, and
\* whoever wins left no better-scored willing seller behind (butler.ts:15-20).
HagglingFindsTheDeal ==
    LET e == butler.errand
        left == {l \in e.listings : Viable(e, l) /\ (butler.phase = "no-award" \/ Before(e, l, Candidate))}
    IN  butler.phase \in {"no-award", "awarded"} /\ e.rfq = NoRfq =>
            \A l \in left : LastPrice(e, l) > Min2(e.budget, AskOf(l))
=============================================================================
