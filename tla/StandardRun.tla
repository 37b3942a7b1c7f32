---------------------------- MODULE StandardRun ----------------------------
(***************************************************************************)
(* One fixed-price session of the Standard profile, as the in-process      *)
(* runner drives it (runStandardFixedSession of roster/dacs/               *)
(* standard-runner.ts with runFixedPriceNegotiation of negotiation-l2ps/   *)
(* fixed-price.ts and deliver of dacs/seller-adapter.ts).  Every call that *)
(* is awaited may throw: an anchor, the settlement, the work.  What was    *)
(* done before the throw stays done, and the runner's catch block writes   *)
(* the failure bundle.  Meanwhile time passes and the seller may revoke    *)
(* its listing.  The optional observer of the session record, which no     *)
(* caller but a test passes, is left out.                                  *)
(***************************************************************************)
EXTENDS StandardProfile

CONSTANTS RunListings,     \* the listings the session may be run on
          Templates,       \* auto-accept templates, None among them
          RunJob, RunRequest, OtherRequest,
          RunHorizon       \* bound on the clock

VARIABLES shop,        \* the listing, its template and its revocation slot
          runClock,
          at,          \* the point the runner has reached
          fault,       \* the stage and the phase the catch block finds
          session,     \* SessionRecord: state, phase results, vet refs
          summary,     \* phaseSummary
          deal,        \* the agreement both parties signed, or None
          chain,       \* anchored artifacts by slot
          committedAt, \* the time the commitment was anchored
          transfers    \* payments that reached the seller

runVars == <<shop, runClock, at, fault, session, summary, deal, chain, committedAt, transfers>>

Slots == {"buyerVet", "sellerVet", "agreement", "commitment", "payment", "delivery", "deliveryEvidence",
          "buyerBundle", "sellerBundle"}

Listed   == shop.listing
Index(kinds) == IndexOf(Listed, kinds)
PayKind  == Listed.pipeline[Index(Pays)]
DelKind  == Listed.pipeline[Index(Delivers)]

\* The agents' listings have one phase of each kind in this order
\* (standardListingSpecFromLegacy); evidence is an artifact, a request is one.
ASSUME RunAssumption ==
    /\ \A l \in RunListings : PipelineSound(l) =>
          \E pay \in Pays : l.pipeline = <<"vet-credentials", "negotiate-fixed-price", "commit-agreement",
                                           pay, "deliver-attested-payload">>
    /\ Buyer # Nobody /\ RunRequest # None
    /\ \A l \in RunListings, pay \in Pays :
          signSettlementEvidence(RunJob, pay, l.pricing.amount, "tx", Buyer) # None
    /\ signSettlementEvidence(RunJob, "deliver-attested-payload", 0, [job |-> RunJob, request |-> RunRequest], Seller) # None

\* The presentations of this session, each bound to its own nonce.
BuyerId  == createIdentityBundle(Buyer, "nb")
SellerId == createIdentityBundle(Seller, "ns")
BuyerVet  == createEmptyVetRecord(Seller, RunJob, BuyerId, Listed.requirement)
SellerVet == createEmptyVetRecord(Buyer, RunJob, SellerId, {})

\* recordPhase and phaseSummary.push.
Recorded(index, ok) == [session EXCEPT !.results = Append(@, [index |-> index, ok |-> ok])]
Transition(s, state) == [s EXCEPT !.state = state]
Done(kind) == Append(summary, Entry(Index({kind}), kind, "ok"))

vetRefs      == {chain[s] : s \in {"buyerVet", "sellerVet"} \cap session.vets}
\* A slip: a failure bundle that cites deliveries only.
evidenceRefsDelivered == {chain[s] : s \in {"deliveryEvidence"} \ {x \in Slots : chain[x] = None}}

evidenceRefs == {chain[s] : s \in {x \in {"payment", "deliveryEvidence"} :
                    \E i \in 1 .. Len(session.results) :
                        /\ session.results[i].ok
                        /\ session.results[i].index = Index(IF x = "payment" THEN Pays ELSE Delivers)}}

RunInit ==
    /\ \E l \in RunListings, t \in Templates :
          shop = [listing |-> l, template |-> t, marker |-> None]
    /\ runClock = 0
    /\ at = "start"
    /\ fault = <<>>
    /\ session = [state |-> "draft", results |-> <<>>, vets |-> {}, ended |-> FALSE]
    /\ summary = <<>>
    /\ deal = None
    /\ chain = [s \in Slots |-> None]
    /\ committedAt = 0
    /\ transfers = 0

\* Where the catch block finds the runner: currentStage and currentPhase.
Throw(stage, kind) == at' = "throw" /\ fault' = <<stage, kind>>
Go(point) == at' = point /\ UNCHANGED fault

\* The checks before the session record exists: a throw here leaves nothing.
RunStart ==
    /\ at = "start"
    /\ \/ /\ verifyListing(Listed, runClock, None)
          /\ Listed.requirement = {}
          /\ Index({"vet-credentials"}) > 0
          /\ Go("identified")
       \/ Go("refused")
    /\ UNCHANGED <<shop, runClock, session, summary, deal, chain, committedAt, transfers>>

\* Both vet records are anchored by the other side, the buyer's first.
RunVet ==
    /\ at = "identified"
    /\ \E done \in {{}, {"buyerVet"}, {"buyerVet", "sellerVet"}} :
          /\ chain' = [s \in Slots |-> IF s \notin done THEN chain[s]
                                       ELSE IF s = "buyerVet" THEN BuyerVet ELSE SellerVet]
          /\ IF "sellerVet" \in done
                /\ verifyVetRecord(BuyerVet, RunJob, BuyerId, Listed.requirement, Seller)
                /\ verifyVetRecord(SellerVet, RunJob, SellerId, {}, Buyer)
             THEN /\ session' = [Transition(Recorded(Index({"vet-credentials"}), TRUE), "negotiate-pending")
                                    EXCEPT !.vets = done]
                  /\ summary' = Done("vet-credentials")
                  /\ Go("negotiate")
             ELSE /\ session' = Transition(session, "vet-pending")
                  /\ Throw("vet", "vet-credentials")
                  /\ UNCHANGED summary
    /\ UNCHANGED <<shop, runClock, deal, committedAt, transfers>>

Template == IF Listed.auto THEN shop.template ELSE None

\* What the buyer proposes, and what the seller may send back for it.
Proposed == addAgreementSignature(
                buildAgreement(RunJob, Listed, "negotiate-fixed-price", Listed.pricing.amount,
                               BuyerVet, SellerVet, RunRequest, runClock), Buyer)

sellerSign(a) ==
    {a, addAgreementSignature(a, Seller),
     addAgreementSignature([a EXCEPT !.price = @ + 1], Seller)}
    \cup (IF Template = None THEN {} ELSE {addAutoAcceptInstanceSignature(a, Template, Seller)})

\* runFixedPriceNegotiation up to the verified signatures: the listing is
\* read again with its revocation slot, the template is checked, the seller
\* answers, and the answer must be the scope the buyer signed.
RunNegotiate ==
    /\ at = "negotiate"
    /\ \/ /\ verifyListing(Listed, runClock, shop.marker)
          /\ Listed.rails[1] # "x402"
          /\ Listed.auto = (shop.template # None)
          /\ Listed.auto => verifyAutoAcceptCommitment(Template, Listed, runClock)
          /\ \E answer \in sellerSign(Proposed) :
                /\ agreementHash(answer) = agreementHash(Proposed)
                /\ verifyAgreement(answer, Listed, {"buyer", "seller"}, Template, runClock)
                /\ deal' = answer
          /\ session' = Transition(Recorded(Index({"negotiate-fixed-price"}), TRUE), "commit-pending")
          /\ summary' = Done("negotiate-fixed-price")
          /\ Go("commit")
       \/ /\ Throw("negotiate", "negotiate-fixed-price")
          /\ UNCHANGED <<session, summary, deal>>
    /\ UNCHANGED <<shop, runClock, chain, committedAt, transfers>>

\* anchorAgreementAndCommitment: two ordered writes.
RunAnchorAgreement ==
    /\ at = "commit"
    /\ \/ chain' = [chain EXCEPT !["agreement"] = deal] /\ Go("agreed")
       \/ Throw("commit", "commit-agreement") /\ UNCHANGED chain
    /\ UNCHANGED <<shop, runClock, session, summary, deal, committedAt, transfers>>

\* A slip: the checks made before the anchor are taken to hold after it.
AuthoritativeBefore(c, now) == TRUE

\* The agreement and the commitment are verified again at the anchor's own time.
Authoritative(c, now) ==
    /\ verifyAgreement(deal, Listed, {"buyer", "seller"}, Template, now)
    /\ verifyCommitment(c, deal, Listed, now)

RunAnchorCommitment ==
    /\ at = "agreed"
    /\ LET c == createCommitment(Buyer, deal, runClock) IN
       \/ /\ chain' = [chain EXCEPT !["commitment"] = c]
          /\ committedAt' = runClock
          /\ IF Authoritative(c, runClock)
             THEN /\ session' = Transition(Recorded(Index({"commit-agreement"}), TRUE), "settle-pending")
                  /\ summary' = Done("commit-agreement")
                  /\ Go("settle")
             ELSE Throw("commit", "commit-agreement") /\ UNCHANGED <<session, summary>>
       \/ Throw("commit", "commit-agreement") /\ UNCHANGED <<chain, committedAt, session, summary>>
    /\ UNCHANGED <<shop, runClock, deal, transfers>>

\* settle: the rail may fail before or after the money moved, or name no
\* final transaction; the evidence is verified before it is anchored.
RunSettle ==
    /\ at = "settle"
    /\ \E moved \in BOOLEAN, receipt \in {"tx", None}, anchored \in BOOLEAN :
          LET e == signSettlementEvidence(RunJob, PayKind, deal.price, receipt, Buyer) IN
          /\ receipt = "tx" => moved
          /\ anchored => verifyEvidence(e, Buyer, deal)
          /\ transfers' = IF moved THEN transfers + 1 ELSE transfers
          /\ IF anchored
             THEN /\ chain' = [chain EXCEPT !["payment"] = e]
                  /\ session' = Recorded(Index(Pays), TRUE)
                  /\ summary' = Done(PayKind)
                  /\ Go("deliver")
             ELSE Throw("settle", PayKind) /\ UNCHANGED <<chain, session, summary>>
    /\ UNCHANGED <<shop, runClock, deal, committedAt>>

RequestBound(did) == did = deal.request

\* deliver: the work may throw unanchored; its attestation is bound to the
\* request it was done for, and a delivery for another request is refused
\* after it was anchored.
RunDeliver ==
    /\ at = "deliver"
    /\ \E did \in {None, RunRequest, OtherRequest}, anchored \in BOOLEAN :
          LET att == [job |-> RunJob, request |-> did]
              e   == signSettlementEvidence(RunJob, DelKind, 0, att, Seller) IN
          /\ anchored => RequestBound(did) /\ verifyEvidence(e, Seller, deal)
          /\ chain' = [chain EXCEPT !["delivery"] = IF did = None THEN @ ELSE att,
                                    !["deliveryEvidence"] = IF anchored THEN e ELSE @]
          /\ IF anchored
             THEN /\ session' = Recorded(Index(Delivers), TRUE)
                  /\ summary' = Done(DelKind)
                  /\ Go("bundle")
             ELSE Throw("settle", DelKind) /\ UNCHANGED <<session, summary>>
    /\ UNCHANGED <<shop, runClock, deal, committedAt, transfers>>

BundleBody(outcome, agreement, entries) ==
    [job |-> RunJob, outcome |-> outcome, anchoredByRole |-> "buyer", listing |-> listingRef(Listed),
     agreement |-> agreement,
     parties |-> {[role |-> "buyer",  claim |-> Buyer,  bundle |-> identityHash(BuyerId)],
                  [role |-> "seller", claim |-> Seller, bundle |-> identityHash(SellerId)]},
     summary |-> entries, vets |-> vetRefs, evidence |-> evidenceRefs,
     finalisedAt |-> runClock, sigs |-> {}]

\* Both parties sign one body; its two copies are verified, then anchored
\* one after the other.
RunBundle ==
    /\ at = "bundle"
    /\ LET body   == BundleBody("completed", chain["agreement"], summary)
           signed == addBundleSignature(addBundleSignature(body, Buyer), Seller)
           mine   == signed
           yours  == [signed EXCEPT !.anchoredByRole = "seller"]
           sound  == /\ verifyBundle(mine, "buyer", {"buyer", "seller"})
                     /\ verifyBundle(yours, "seller", {"buyer", "seller"})
                     /\ sameCanonicalBundle(mine, yours) IN
       \E done \in SUBSET {"buyerBundle", "sellerBundle"} :
          /\ "sellerBundle" \in done => "buyerBundle" \in done
          /\ ~sound => done = {}
          /\ chain' = [s \in Slots |-> IF s \notin done THEN chain[s]
                                       ELSE IF s = "buyerBundle" THEN mine ELSE yours]
          /\ IF "sellerBundle" \in done THEN Go("bundled") ELSE Throw("settle", DelKind)
    /\ UNCHANGED <<shop, runClock, session, summary, deal, committedAt, transfers>>

\* The last two transitions of the session record.
RunFinalise ==
    /\ at = "bundled"
    /\ session' = [session EXCEPT !.state = "finalised", !.ended = TRUE]
    /\ Go("finalised")
    /\ UNCHANGED <<shop, runClock, summary, deal, chain, committedAt, transfers>>

AlreadyRecorded(index) == \E i \in 1 .. Len(session.results) : session.results[i].index = index

\* The catch block: the phase is recorded as failed unless it was recorded
\* before, a failure bundle goes to the buyer's slot, the session is ended.
\* When this anchor throws too, the record keeps its pending state.
RunCatch ==
    /\ at = "throw"
    /\ LET stage == fault[1]  kind == fault[2]  index == Index({kind})
           s     == IF AlreadyRecorded(index) THEN session ELSE Recorded(index, FALSE)
           agreement == IF stage = "settle" THEN chain["agreement"] ELSE None
           failure == addBundleSignature(
                         BundleBody("failed-perm", agreement, Append(summary, Entry(index, kind, "fail"))), Buyer) IN
       \/ /\ chain' = [chain EXCEPT !["buyerBundle"] = failure]
          /\ session' = [s EXCEPT !.state = IF stage = "vet" THEN "vet-failed"
                                            ELSE IF stage = "negotiate" THEN "negotiate-failed"
                                            ELSE IF stage = "commit" THEN "commit-failed"
                                            ELSE "settle-failed",
                                  !.ended = TRUE]
          /\ Go("failed")
       \/ session' = s /\ Go("lost") /\ UNCHANGED chain
    /\ UNCHANGED <<shop, runClock, summary, deal, committedAt, transfers>>

RunTick ==
    /\ runClock < RunHorizon /\ at \in {"negotiate", "commit", "agreed"}
    /\ runClock' = runClock + 1
    /\ UNCHANGED <<shop, at, fault, session, summary, deal, chain, committedAt, transfers>>

RunRevoke ==
    /\ shop.marker = None /\ at \in {"negotiate", "commit"}
    /\ shop' = [shop EXCEPT !.marker = createListingRevocation(Listed, Seller)]
    /\ UNCHANGED <<runClock, at, fault, session, summary, deal, chain, committedAt, transfers>>

RunNext == \/ RunStart \/ RunVet \/ RunNegotiate \/ RunAnchorAgreement \/ RunAnchorCommitment
           \/ RunSettle \/ RunDeliver \/ RunBundle \/ RunFinalise \/ RunCatch \/ RunTick \/ RunRevoke

RunOver == at \in {"refused", "finalised", "failed", "lost"}
----------------------------------------------------------------------------
(* Properties.                                                             *)

\* Money moves only for an agreement that both parties signed over one
\* scope, at the listed price, for the request the buyer made, whose
\* commitment was anchored while the listing and the seller's template were
\* still in force (settle is called after the authoritative verification).
PaidUnderCommitment ==
    transfers > 0 =>
        /\ chain["agreement"] = deal /\ chain["commitment"].agreement = agreementHash(deal)
        /\ deal.price = Listed.pricing.amount /\ deal.request = RunRequest
        /\ committedAt <= Listed.notAfter
        /\ Listed.auto => committedAt <= Template.until
        /\ deal.deadline <= committedAt + Listed.window

\* A session reported as finalised has one canonical bundle in both slots,
\* signed by both, which cites the payment and the delivery that are
\* anchored for exactly this request, and one payment was made.
FinalisedIsEvidenced ==
    at = "finalised" =>
        /\ transfers = 1
        /\ verifyBundle(chain["buyerBundle"], "buyer", {"buyer", "seller"})
        /\ verifyBundle(chain["sellerBundle"], "seller", {"buyer", "seller"})
        /\ sameCanonicalBundle(chain["buyerBundle"], chain["sellerBundle"])
        /\ chain["buyerBundle"].evidence = {chain["payment"], chain["deliveryEvidence"]}
        /\ chain["delivery"].request = deal.request
        /\ chain["buyerBundle"].vets = {BuyerVet, SellerVet}

\* A session that failed before its last phase was recorded leaves a bundle
\* in the buyer's slot that verifies with the buyer's signature, names the
\* phase that failed, and cites the payment whenever its evidence was anchored.
FailureIsExplained ==
    at = "failed" /\ chain["deliveryEvidence"] = None =>
        /\ verifyBundle(chain["buyerBundle"], "buyer", {"buyer"})
        /\ chain["buyerBundle"].evidence = {chain["payment"]} \ {None}
        /\ session.ended

\* The phases recorded in the session record and in the bundles advance
\* along the listing's pipeline, one entry per phase, and the record of a
\* session names a failed phase exactly when the session did not complete
\* that phase before.
RecordFollowsPipeline ==
    /\ \A i \in 1 .. Len(session.results) :
          session.results[i].index = i /\ (~session.results[i].ok => i = Len(session.results))
    /\ \A i \in 1 .. Len(summary) : summary[i].kind = Listed.pipeline[i] /\ session.results[i].ok
============================================================================
