--------------------------- MODULE MCNegotiation ---------------------------
(* Every way the repository negotiates, side by side: the in-process       *)
(* engine, the two-process session over a faulty relay, the general        *)
(* contractor and the butler on top of the engine, and the publisher's     *)
(* reservations. A behaviour exercises one of them; the others start at    *)
(* rest, so that their states add up and do not multiply.                  *)
EXTENDS Negotiation, NegotiationSession, Subcontract, Butler, Publisher

CONSTANTS Slot1, Slot2, J1, J2, J3

Small == localDirScan(300, FALSE)
Large == localDirScan(5040, TRUE)

Desk(scan, budget, acceptable, deadline, turns, seller, buyer) ==
    [tiers |-> Tiers, deadlines |-> Deadlines,
     floor |-> [t \in Tiers |-> [dl \in Deadlines |-> floorFor(scan, t, dl)]],
     ask |-> [t \in Tiers |-> [dl \in Deadlines |-> askFor(scan, t, dl)]],
     budget |-> budget, acceptable |-> acceptable, tier |-> "deep", deadline |-> deadline,
     maxTurns |-> turns, seller |-> seller, buyer |-> buyer]
DeepOnly(d) == [d EXCEPT !.tiers = {"deep"}, !.deadlines = {"standard"}, !.acceptable = {"deep"}]

\* Budgets around the floors (small: deep 633, rush 949; large: deep 1093, rush 1639).
MCDeals ==
    {Desk(scan, b, a, dl, n, "scripted", "scripted") :
        scan \in {Small, Large}, b \in {0, 250, 632, 633, 948, 949, 1092, 1093, 1638, 1639, 5000},
        a \in {{"deep"}, Tiers}, dl \in Deadlines, n \in {2, 3, 4, 6}}
    \cup {Desk(Small, 800, Tiers, "standard", 3, s, b) : s \in {"scripted", "any"}, b \in {"scripted", "llm"}}
    \cup {Desk(Small, 800, Tiers, "standard", 2, "llm", "any")}
    \cup {DeepOnly(Desk(Small, 800, Tiers, "standard", 3, "any", "any"))}

MCTalks ==
    {Desk(Small, 250, Tiers, "standard", 6, "scripted", "scripted"), Desk(Small, 633, {"deep"}, "standard", 6, "scripted", "scripted"),
     Desk(Small, 1000, {"deep"}, "rush", 4, "scripted", "scripted"),
     DeepOnly(Desk(Small, 800, Tiers, "standard", 2, "any", "any")), DeepOnly(Desk(Small, 633, Tiers, "standard", 3, "llm", "llm"))}

Part(scan, tier) == [scan |-> scan, tier |-> tier]
StandardJobs ==
    {[budget |-> b, deadline |-> "standard", parts |-> p] :
        b \in {500, 1500, 2400, 3000, 6000, 9000},
        p \in {<<>>, <<Part(Small, "deep")>>, <<Part(Small, "deep"), Part(Large, "deep"), Part(Small, "quick")>>}}
RushJobs == {[budget |-> 9000, deadline |-> "rush", parts |-> <<Part(Small, "deep")>>]}
MCGcJobs == StandardJobs \cup RushJobs

Listing(id, price, negotiable, floor, rails, rating) ==
    [id |-> id, fixed |-> TRUE, price |-> price, minTotal |-> 0, capabilities |-> {"code"}, rails |-> rails,
     negotiable |-> negotiable, floor |-> floor, rating |-> rating, jobs |-> 45, disputes |-> 1,
     checks |-> IF negotiable THEN 2 ELSE 0, desk |-> [tiers |-> Tiers, scan |-> Small]]
Catalog == {Listing(1, 480, TRUE, 320, {"pay-x402", "pay-dem"}, 47), Listing(2, 350, FALSE, 0, {"pay-evm-erc8183"}, 39),
            Listing(3, 900, TRUE, 890, {"pay-dem"}, 50),
            [Listing(4, 90, FALSE, 0, {"pay-x402"}, 42) EXCEPT !.fixed = FALSE, !.minTotal = 270],
            [Listing(5, 200, FALSE, 0, {"pay-x402"}, 41) EXCEPT !.capabilities = {"images"}],
            [Listing(6, 100, FALSE, 0, {}, 50) EXCEPT !.rails = {"card"}]}
Brief(budget, tiers, tier) == [budget |-> budget, acceptable |-> tiers, tier |-> tier, deadline |-> "standard"]
MCErrands ==
    {[listings |-> ls, budget |-> b, units |-> u, needs |-> {"code"}, rfq |-> r] :
        ls \in {s \in SUBSET Catalog : {l.id : l \in s} \cap {5, 6} \in {{}, {5, 6}}},
        b \in {260, 320, 360, 500, 1000}, u \in {1, 5},
        r \in {NoRfq}}
    \cup {[listings |-> Catalog, budget |-> b, units |-> 1, needs |-> {"code"}, rfq |-> r] :
            b \in {1000}, r \in {Brief(800, {"deep"}, "deep"), Brief(300, Tiers, "quick"), Brief(1000, {"gold"}, "gold")}}

AdRequest(preferred, minimum, budget) ==
    [placement |-> "banner", preferred |-> preferred, minimum |-> minimum, budget |-> budget]
MCAdRequests == {AdRequest(2, 1, 500), AdRequest(2, 1, 300)}
MCAdSlots == {[slot |-> Slot1, placement |-> "banner", rate |-> 200]}

NegIdle == deal = Desk(Small, 0, {}, "standard", 2, "scripted", "scripted") /\ transcript = <<>> /\ outcome = Walked
SessIdle ==
    /\ talk = Desk(Small, 250, Tiers, "standard", 6, "scripted", "scripted")
    /\ heard = [s \in Sides |-> <<>>] /\ ended = [s \in Sides |-> Gone]
    /\ inbox = [s \in Sides |-> <<>>] /\ flight = [s \in Sides |-> {}] /\ dups = 0 /\ smooth = FALSE
AdIdle == today = AdHorizon /\ reserved = [j \in AdJobs |-> NoQuote] /\ quoted = {}
          /\ activated = [j \in AdJobs |-> NoQuote] /\ moderated = {}

MCInit ==
    \/ NegInit /\ SessIdle /\ plan = GcOff /\ butler = ButlerOff /\ AdIdle
    \/ NegIdle /\ SessInit /\ plan = GcOff /\ butler = ButlerOff /\ AdIdle
    \/ NegIdle /\ SessIdle /\ GcInit /\ butler = ButlerOff /\ AdIdle
    \/ NegIdle /\ SessIdle /\ plan = GcOff /\ ButlerInit /\ AdIdle
    \/ NegIdle /\ SessIdle /\ plan = GcOff /\ butler = ButlerOff /\ AdInit

MCNext ==
    \/ NegNext /\ UNCHANGED <<sessVars, plan, butler, adVars>>
    \/ SessNext /\ UNCHANGED <<negVars, plan, butler, adVars>>
    \/ GcNext /\ UNCHANGED <<sessVars, butler, adVars>>
    \/ ButlerNext /\ UNCHANGED <<sessVars, plan, adVars>>
    \/ AdNext /\ UNCHANGED <<negVars, sessVars, plan, butler>>

MCVars == <<negVars, sessVars, plan, butler, adVars>>
MCSpec == MCInit /\ [][MCNext]_MCVars /\ SessFairness

GcMCInit == NegIdle /\ SessIdle /\ GcInit /\ butler = ButlerOff /\ AdIdle
GcMCSpec == GcMCInit /\ [][MCNext]_MCVars

\* What the engine and its scripted desks promise each other about a bargain,
\* also across the private channel, whose two ends decide by themselves.
BargainIsSound == SoundDeal /\ DealWhenPossible /\ ScriptMindsItsGuard /\ ParityWithEngine

\* The buyers built on the engine spend what they may and miss no deal within it:
\* the sub-contracting bundle, the haggling butler and the publisher's inventory.
BuyersStayInBounds ==
    /\ AwardCoversItsParts /\ SourcingBudget /\ StandardIsSourced
    /\ NeverAboveReservation /\ HagglingFindsTheDeal
    /\ CampaignsDoNotCollide
=============================================================================
