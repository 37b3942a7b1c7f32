----------------------------- MODULE Publisher -----------------------------
(* The advertising publisher: quotes and reservations (rfq.ts, policy.ts), *)
(* and the delivery that activates a campaign (wire/publisher-agent.ts,    *)
(* publisher-port.ts). Time is in days, the minute before a campaign       *)
(* starts counts as one; prices are cents.                                 *)
EXTENDS Integers

CONSTANTS AdJobs,        \* job ids
          AdRequests,    \* parsed requests: [placement, preferred, minimum, budget, creative]
          AdSlots,       \* [slot, placement, rate]
          AdHorizon,     \* bound on the clock
          NoQuote

ASSUME PublisherAssumption ==
    /\ AdHorizon \in Nat
    /\ \A r \in AdRequests : r.minimum \in Nat \ {0} /\ r.preferred \in Nat /\ r.minimum <= r.preferred /\ r.budget \in Nat
    /\ \A s \in AdSlots : s.rate \in Nat \ {0}

Quotes == [job : AdJobs, slot : {s.slot : s \in AdSlots}, days : Nat, price : Nat,
           startsAt : Nat, endsAt : Nat, request : AdRequests]
ASSUME NoQuoteAssumption == NoQuote \notin Quotes

VARIABLES
    today,         \* the clock
    reserved,      \* job -> the quote its slot is reserved for, or NoQuote
    quoted,        \* the quotes a negotiation has agreed on
    activated,     \* job -> the activation, or NoQuote
    moderated      \* the requests moderation has refused

adVars == <<today, reserved, quoted, activated, moderated>>

AdInit ==
    /\ today = 0
    /\ reserved = [j \in AdJobs |-> NoQuote]
    /\ quoted = {}
    /\ activated = [j \in AdJobs |-> NoQuote]
    /\ moderated \in SUBSET AdRequests

\* As long as preferred and affordable; no quote below the minimum.
Affordable(r, s) == r.budget \div s.rate
durationDays(r, s) == IF r.preferred <= Affordable(r, s) THEN r.preferred ELSE Affordable(r, s)
Quotable(r, s) == s.placement = r.placement /\ durationDays(r, s) >= r.minimum

buildPublisherQuote(j, r, s) ==
    LET days == durationDays(r, s)
    IN  [job |-> j, slot |-> s.slot, days |-> days, price |-> s.rate * days,
         startsAt |-> today + 1, endsAt |-> today + 1 + days, request |-> r]

Overlap(a, b) == a.slot = b.slot /\ a.startsAt < b.endsAt /\ b.startsAt < a.endsAt

\* Mutant: only the job id is looked up.
reserve_NoCollisionCheck(q) == reserved[q.job] \in {NoQuote, q}

\* A job id stands for one quote; a second identical one is answered again.
reserve(q) ==
    IF reserved[q.job] # NoQuote THEN reserved[q.job] = q
    ELSE \A j \in AdJobs : reserved[j] # NoQuote => ~ Overlap(reserved[j], q)

negotiatePublisherRfq(j, r) ==
    /\ today < AdHorizon
    /\ \E s \in AdSlots :
         /\ Quotable(r, s)
         /\ LET q == buildPublisherQuote(j, r, s)
            IN  /\ reserve(q)
                /\ reserved' = [reserved EXCEPT ![j] = q]
                /\ quoted' = quoted \cup {q}
    /\ UNCHANGED <<today, activated, moderated>>

\* The delivery of an agreed quote: bound to its job and request, not over,
\* passed by moderation; a campaign is activated once and then repeated.
makePublisherWork(q) ==
    /\ q \in quoted
    /\ q.endsAt > today
    /\ q.request \notin moderated
    /\ activated[q.job] \in {NoQuote, q}
    /\ activated' = [activated EXCEPT ![q.job] = q]
    /\ UNCHANGED <<today, reserved, quoted, moderated>>

NextDay == today < AdHorizon /\ today' = today + 1 /\ UNCHANGED <<reserved, quoted, activated, moderated>>

AdNext ==
    \/ \E j \in AdJobs, r \in AdRequests : negotiatePublisherRfq(j, r)
    \/ \E q \in quoted : makePublisherWork(q)
    \/ NextDay

-----------------------------------------------------------------------------
(* Properties *)

\* No advertiser is charged above its budget or for fewer days than it asked
\* for at least, and no two live campaigns share a slot at a time, although
\* quotes are reserved, repeated and activated in any order (rfq.ts:26).
CampaignsDoNotCollide ==
    /\ \A j, k \in AdJobs : j # k /\ activated[j] # NoQuote /\ activated[k] # NoQuote => ~ Overlap(activated[j], activated[k])
    /\ \A q \in quoted : q.price <= q.request.budget /\ q.days >= q.request.minimum
=============================================================================
