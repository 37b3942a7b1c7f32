----------------------------- MODULE AuditDesk -----------------------------
(* The negotiated audit desk: its deal dimensions, cost model and guards   *)
(* (terms.ts), the deterministic policies of both sides (policies.ts), the *)
(* model-backed policies (llm-policy.ts) and the general contractor's      *)
(* bundle seller (gc.ts).                                                  *)
(*                                                                         *)
(* Money is a whole number of cents; the code keeps DEM rounded to cents,  *)
(* and RoundDiv is its rounding. A negotiation is described by a record    *)
(* d, the two briefs and guards together: tiers and deadlines offered,     *)
(* floor and ask per tier and deadline, the buyer's budget, acceptable     *)
(* tiers and preference, the turn cap and the kind of policy on each side. *)
EXTENDS Integers, Sequences

Tiers == {"quick", "deep"}
Deadlines == {"standard", "rush"}
Sides == {"seller", "buyer"}
NoTerms == [tier |-> "none", deadline |-> "none", price |-> 0]

Other(side) == IF side = "seller" THEN "buyer" ELSE "seller"
Min2(a, b) == IF a <= b THEN a ELSE b
Max2(a, b) == IF a >= b THEN a ELSE b
CeilDiv(a, b) == (a + b - 1) \div b

\* Math.round(n / m): to the nearest, halves up, for any sign of n.
RoundDiv(n, m) == (2 * n + m) \div (2 * m)

-----------------------------------------------------------------------------
(* The honest cost model. A scan counts the lines of the target and sees   *)
(* whether it holds Solidity; tenths of KLOC, at least one KLOC.           *)

localDirScan(lines, hasSolidity) ==
    [klocTenths |-> Max2(10, RoundDiv(lines, 100)), numTools |-> IF hasSolidity THEN 2 ELSE 1]

deepAuditPriceFor(numTools, klocTenths) == 300 + 200 * numTools + 50 * CeilDiv(klocTenths, 10)

costFor(scan, tier, deadline) ==
    LET base == IF tier = "deep" THEN deepAuditPriceFor(scan.numTools, scan.klocTenths)
                                 ELSE 100 + 25 * CeilDiv(scan.klocTenths, 10)
    IN  IF deadline = "rush" THEN RoundDiv(base * 150, 100) ELSE base

floorFor(scan, tier, deadline) == RoundDiv(costFor(scan, tier, deadline) * 115, 100)

askFor(scan, tier, deadline) == RoundDiv(costFor(scan, tier, deadline) * 160, 100)

-----------------------------------------------------------------------------
(* The guards. *)

validTermsShape(t, d) == t.tier \in d.tiers /\ t.deadline \in d.deadlines /\ t.price > 0

sellerMaySettle(t, d) == validTermsShape(t, d) /\ t.price >= d.floor[t.tier][t.deadline]

buyerMaySettle(t, d) == validTermsShape(t, d) /\ t.tier \in d.acceptable /\ t.price <= d.budget

MaySettle(side, t, d) == IF side = "seller" THEN sellerMaySettle(t, d) ELSE buyerMaySettle(t, d)

-----------------------------------------------------------------------------
(* Moves and what a policy reads of the transcript.                        *)

Says(kind, t) == [kind |-> kind, terms |-> t]
Deal(tier, deadline, price) == [tier |-> tier, deadline |-> deadline, price |-> price]
Reject == Says("reject", NoTerms)
Proposal(turn) == turn.kind \in {"offer", "counter"}

\* The turns in which a side has put a price on the table, and the last of some turns.
Spoken(log, side) == {i \in 1..Len(log) : log[i].side = side /\ Proposal(log[i])}
Latest(turns) == CHOOSE i \in turns : \A j \in turns : j <= i

\* The terms a side has on the table: its last offer or counter.
onTableFrom(log, side) == IF Spoken(log, side) = {} THEN NoTerms ELSE log[Latest(Spoken(log, side))].terms

lastCounterpartyMove(log, me) ==
    LET theirs == {i \in 1..Len(log) : log[i].side # me}
    IN  IF theirs = {} THEN Reject ELSE Says(log[Latest(theirs)].kind, log[Latest(theirs)].terms)

\* One more step like a side's last one, never downwards.
projectedReach(log, side) ==
    LET last    == Latest(Spoken(log, side))
        earlier == Spoken(log, side) \ {last}
        price(i) == log[i].terms.price
    IN  IF earlier = {} THEN price(last) ELSE price(last) + Max2(0, price(last) - price(Latest(earlier)))

-----------------------------------------------------------------------------
(* The deterministic policies. Both sides have spoken Len(log) \div 2      *)
(* times before a turn of theirs, so that is where the round comes from.   *)

RoundOf(log) == Len(log) \div 2 + 1
IsFinal(log, d) == RoundOf(log) >= CeilDiv(d.maxTurns, 2)

\* 34 % of the gap between ask and floor per round, never below the floor.
Conceded(log, d, ask, floor) ==
    IF IsFinal(log, d) THEN floor
    ELSE Max2(floor, RoundDiv(100 * ask - (ask - floor) * 34 * RoundOf(log), 100))

deterministicSeller(log, d) ==
    LET last  == lastCounterpartyMove(log, "seller")
        want  == last.terms
        floor == d.floor[want.tier][want.deadline]
        quick == d.floor["quick"][want.deadline]
        counter == Says("counter", Deal(want.tier, want.deadline,
                        Conceded(log, d, d.ask[want.tier][want.deadline], floor)))
        stalled == projectedReach(log, "buyer") < floor
    IN  IF log = <<>> THEN Says("offer", Deal("deep", "standard", d.ask["deep"]["standard"]))
        ELSE IF last.kind = "reject" THEN Reject
        ELSE IF last.kind = "accept" THEN IF sellerMaySettle(want, d) THEN Says("accept", want) ELSE Reject
        ELSE IF want.price >= floor THEN Says("accept", want)
        ELSE IF IsFinal(log, d) /\ stalled /\ want.tier = "deep" /\ "quick" \in d.tiers /\ want.price >= quick
             THEN Says("counter", Deal("quick", want.deadline, quick))
        ELSE counter

deterministicBuyer(log, d) ==
    LET last    == lastCounterpartyMove(log, "buyer")
        quoted  == last.terms
        mine    == Spoken(log, "buyer")
        opening == Deal(d.tier, d.deadline, RoundDiv(Min2(100 * d.budget, 65 * quoted.price), 100))
        lastBid == log[Latest(mine)].terms.price
        next    == IF IsFinal(log, d) THEN d.budget ELSE lastBid + RoundDiv(d.budget - lastBid, 2)
        settles == buyerMaySettle(quoted, d)
    IN  IF last.kind = "reject" THEN Reject
        ELSE IF mine = {} THEN IF buyerMaySettle(opening, d) THEN Says("offer", opening) ELSE Reject
        ELSE IF settles /\ (quoted.price <= next \/ quoted.tier # d.tier \/ IsFinal(log, d)) THEN Says("accept", quoted)
        ELSE IF IsFinal(log, d) THEN Reject
        ELSE Says("counter", Deal(d.tier, d.deadline, next))

\* The contractor's floor is what the specialists cost plus its margin; the
\* bundle is all or nothing, so there is no cheaper tier to fall back on.
gcBundleSeller(log, d) ==
    LET theirs == onTableFrom(log, "buyer")
        floor  == d.floor["deep"][d.deadline]
        ask    == RoundDiv(floor * 140, 100)
        bundle(price) == Deal("deep", d.deadline, price)
    IN  IF lastCounterpartyMove(log, "seller").kind = "reject" /\ log # <<>> THEN Reject
        ELSE IF theirs = NoTerms THEN Says("offer", bundle(ask))
        ELSE IF theirs.price >= floor THEN Says("accept", bundle(theirs.price))
        ELSE Says("counter", bundle(Conceded(log, d, ask, floor)))

Scripted(side, log, d) ==
    IF side = "buyer" THEN deterministicBuyer(log, d)
    ELSE IF d.seller = "bundle" THEN gcBundleSeller(log, d)
    ELSE deterministicSeller(log, d)

-----------------------------------------------------------------------------
(* Policies backed by a model, and policies that are anybody's code. What  *)
(* the model answers is parsed into a move or nothing (an accept may take  *)
(* its missing fields from the table); a move outside the guard, an        *)
(* unusable answer and a failed call fall back to the scripted policy.     *)

\* The prices at which a guard decides: around every floor and the budget.
EdgePrices(d) ==
    {0, d.budget, d.budget + 1} \cup
    UNION {{d.floor[t]["standard"] - 1, d.floor[t]["standard"]} : t \in d.tiers}

ParsedMoves(d) ==
    {Reject} \cup {Says(k, Deal(t, dl, p)) : k \in {"offer", "counter", "accept"},
                                             t \in Tiers, dl \in d.deadlines, p \in EdgePrices(d)}

llmMoves(side, log, d) ==
    {m \in ParsedMoves(d) : m.kind = "reject" \/ MaySettle(side, m.terms, d)} \cup {Scripted(side, log, d)}

PolicyMoves(side, log, d) ==
    LET mind == IF side = "seller" THEN d.seller ELSE d.buyer
    IN  CASE mind = "any" -> ParsedMoves(d)
          [] mind = "llm" -> llmMoves(side, log, d)
          [] OTHER -> {Scripted(side, log, d)}
=============================================================================
