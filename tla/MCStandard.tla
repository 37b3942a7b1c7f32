----------------------------- MODULE MCStandard -----------------------------
(***************************************************************************)
(* The Standard market: the runner's sessions, the shelf of listings, the  *)
(* payment watchers, the live scripts and the substrate they anchor        *)
(* through.  One of them works and the others are at rest.                 *)
(***************************************************************************)
EXTENDS StandardRun, ListingShelf, DacsMarket, LiveBasket, Substrate

PlainBody == [id |-> "oracle", version |-> 1, shaped |-> TRUE, notBefore |-> 0, notAfter |-> 2,
              identity |-> createIdentityBundle(Seller, None),
              pipeline |-> <<"vet-credentials", "negotiate-fixed-price", "commit-agreement",
                             "pay-dem", "deliver-attested-payload">>,
              rails |-> <<"demos-native:DEM">>, boundRail |-> "demos-native:DEM",
              pricing |-> [kind |-> "fixed", amount |-> 5, currency |-> "DEM", minPct |-> 0, maxPct |-> 0],
              auto |-> FALSE, window |-> 2, requirement |-> {}, deliverable |-> "payload"]
AutoBody  == [PlainBody EXCEPT !.auto = TRUE]
Plain     == signListing(PlainBody, Seller)
AutoOffer == signListing(AutoBody, Seller)
Forged    == signListing(PlainBody, Buyer)
Altered   == [Plain EXCEPT !.pricing.amount = 4]
NoCommit  == signListing([PlainBody EXCEPT !.pipeline = SelectSeq(@, LAMBDA k : k # "commit-agreement")], Seller)
X402      == signListing([PlainBody EXCEPT !.pipeline[4] = "pay-x402", !.rails = <<"x402">>, !.boundRail = "x402"],
                         Seller)
MCListings == {Plain, AutoOffer, Forged, Altered, NoCommit, X402}
MCTemplates == {None, createAutoAcceptCommitment(AutoOffer, Seller, 1), createAutoAcceptCommitment(Plain, Seller, 2)}

MCSpecs == {[body |-> PlainBody, until |-> None], [body |-> AutoBody, until |-> 2],
            [body |-> AutoBody, until |-> 3], [body |-> [PlainBody EXCEPT !.version = 2], until |-> 2],
            [body |-> [AutoBody EXCEPT !.version = 2, !.notBefore = 1], until |-> 2]}

MCModes == [w |-> [rails |-> <<"pay-stripe", "pay-dem">>, scope |-> "fixed"],
            s |-> [rails |-> <<"pay-dem", "pay-x402">>, scope |-> "parameterized"],
            x |-> [rails |-> <<"pay-x402">>, scope |-> "fixed"]]

MCSellers == <<"dd", "treasury">>

\* One part of the market runs, the others are at rest.
RestRun ==
    /\ shop = [listing |-> Plain, template |-> None, marker |-> None] /\ runClock = RunHorizon /\ at = "refused"
    /\ fault = <<>> /\ session = [state |-> "draft", results |-> <<>>, vets |-> {}, ended |-> FALSE]
    /\ summary = <<>> /\ deal = None /\ chain = [s \in Slots |-> None] /\ committedAt = 0 /\ transfers = 0
RestShelf ==
    /\ slots = [v \in Versions |-> None] /\ autos = slots /\ markers = slots /\ publisher = IdleShelf
    /\ rows = [i \in 1 .. MaxPublishes |-> [version |-> 0, status |-> "blocked"]]
    /\ shelfClock = ShelfHorizon
RestMarket ==
    /\ order = [j \in Orders |-> "thrown"]
    /\ ledger = <<>> /\ watcher = [handled |-> {}, hand |-> Idle, seen |-> 0]
    /\ facilitator = [j \in Orders |-> "none"] /\ delivery = facilitator /\ works = [j \in Orders |-> 0]
    /\ watchRestarts = 0
RestBasket ==
    /\ script = "l1" /\ pc = [at |-> "aborted", i |-> 0] /\ unsound = {} /\ pending = 0 /\ offers = {}
    /\ leg = NoLeg /\ charged = [n \in Names |-> 0] /\ rulings = [n \in Names |-> "none"] /\ results = <<>>

\* Substrate: an accepted write, a batch of two, and two writes of one slot.
MCKind == [a |-> "accepted", b |-> "batch", c |-> "confirmed", d |-> "confirmed"]
Written(s, v) == [slot |-> s, value |-> v]
MCEntries == [a |-> <<Written("o", 1)>>, b |-> <<Written("q", 1), Written("r", 1)>>,
              c |-> <<Written("p", 1)>>, d |-> <<Written("p", 2)>>]
RestSub ==
    /\ nextNonce = 0 /\ anchorTail = <<>> /\ asked = Calls /\ pool = <<>>
    /\ write = [w \in Writes |-> NoWrite]
    /\ localWrites = [s \in Programs |-> 0]
    /\ chainFaults = MaxChainFaults /\ payments = MaxPayments /\ lost = FALSE

MCInit == \/ RunInit /\ RestShelf /\ RestMarket /\ RestBasket /\ RestSub
          \/ RestRun /\ ShelfInit /\ RestMarket /\ RestBasket /\ RestSub
          \/ RestRun /\ RestShelf /\ MarketInit /\ RestBasket /\ RestSub
          \/ RestRun /\ RestShelf /\ RestMarket /\ BasketInit /\ RestSub
          \/ RestRun /\ RestShelf /\ RestMarket /\ RestBasket /\ SubInit

MCNext == \/ RunNext /\ UNCHANGED <<shelfVars, marketVars, basketVars, subVars>>
          \/ ShelfNext /\ UNCHANGED <<runVars, marketVars, basketVars, subVars>>
          \/ MarketNext /\ UNCHANGED <<runVars, shelfVars, basketVars, subVars>>
          \/ BasketNext /\ UNCHANGED <<runVars, shelfVars, marketVars, subVars>>
          \/ SubNext /\ UNCHANGED <<runVars, shelfVars, marketVars, basketVars>>

mcVars == <<runVars, shelfVars, marketVars, basketVars, subVars>>

\* The runner and the live scripts are single asynchronous functions that run
\* until they return; the watcher is called for every transfer; every await of
\* a write is bounded by its polls.  As only one of them works, one fairness
\* condition says so for all.
Busy == \/ RunNext /\ UNCHANGED <<shelfVars, marketVars, basketVars, subVars>>
        \/ BasketNext /\ UNCHANGED <<runVars, shelfVars, marketVars, subVars>>
        \/ (WatchTake \/ WatchRead \/ WatchDeliver) /\ UNCHANGED <<runVars, shelfVars, basketVars, subVars>>
        \/ SubStep /\ UNCHANGED <<runVars, shelfVars, marketVars, basketVars>>

MCSpec == MCInit /\ [][MCNext]_mcVars /\ WF_mcVars(Busy)

\* Every session and every script comes to an end: finalised, failed, refused
\* or reported, whatever threw.
RunsEnd == <>(RunOver /\ BasketOver)

\* Money moves only under a commitment, for work that was verified, and no more
\* often than the scripts allow themselves.
PaymentsAreEarned ==
    /\ PaidUnderCommitment /\ AcceptedIsPaidAndVerified /\ SettleAfterWork
    /\ SettledIsEarned /\ PaidWithinAttempts

\* Whoever reads the records later finds every outcome accounted for: the bundle
\* of a session, the report of a basket, the auto-accept of a listing.
RecordsAreComplete ==
    /\ FinalisedIsEvidenced /\ FailureIsExplained /\ RecordFollowsPipeline
    /\ EverySellerReported /\ UpdatedIsComplete

\* The substrate's writes keep the wallet's nonces in order, and a program reads
\* what it wrote.
ChainAccess == NonceDiscipline /\ ReadsAreFresh

\* Nothing hangs: sessions and scripts end, the watcher serves what the ledger
\* holds, the write queue drains.
EverythingEnds == RunsEnd /\ WatcherCatchesUp /\ QueueDrains
=============================================================================
